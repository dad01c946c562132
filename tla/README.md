# A TLA+ model of the Z-Wave driver

This directory holds the specifications that go with the `zwave-js` driver and
the Digilock server in this repository: TLA+ modules translated from the
TypeScript sources, TLC configurations that check them on small instances, and
theorems that the TLA+ proof system checks for every value of the constants.
`PROJECT.json` lists the components, runs, mutants, hazards and theorems, and
maps every definition to the lines it models. Paths below are relative to
`packages/zwave-js/src/lib/` unless they start with `packages/`.

To repeat a run: `tlc -workers 2 -config MCSendThread_mixed.cfg MCSendThread.tla`
(the module of a configuration is the part of its name before the underscore).
To repeat the proofs: `tlapm M.tla` for each module `*Proofs.tla` and for
`SharedFacts.tla`.

## 1. Inventory

The driver is a single-threaded Node.js program. Its concurrency comes from
promises: every `await` is a point where frames, timers and API calls of other
parts run. All components share the `Driver` object.

| Component | State | Operations | What is hard | What makes it correct |
|---|---|---|---|---|
| **Serial API command execution** (`driver/Driver.ts` 6770-7085, `SerialAPICommandMachine.ts`, `shared/src/AsyncQueue.ts`) | the AsyncQueue, the command in execution and its machine, `awaitedMessageHeaders`, `abortSerialAPICommand`, timers | `queueSerialAPICommand`, `drainSerialAPIQueue`, `executeSerialAPICommand`, `abortSendData`, `destroySerialAPIQueue` | ACKs, responses and callbacks that are lost, late or of another command; a SendDataAbort that shares the list of header waiters; collisions and repeats; restart and destruction in the middle of a command | one command at a time, in order; exactly one outcome each; success only with the command's own answer; a response timeout is not mistaken for a missing node; no command pending for ever |
| **Transactions and send threads** (`driver/Queue.ts`, `Transaction.ts`, `MessageGenerators.ts`, `Driver.ts` 4593-4635, 6534-6764, 7103-7286, 7829-8141) | two sorted queues, the active transaction of each, promises and generators shared by clones, requeue timers | `sendMessage`, `drainTransactionQueue`, `executeTransaction`, `reduceQueues`, `moveMessagesToWakeupQueue`, `rejectTransactions`, `delayTransactionsForNode` | the order of the queue depends on node status, which changes while transactions are queued; the failed transaction is in no queue at the moment its node falls asleep; the loop goes on with a transaction that was requeued or settled by someone else; expiration and removal race with both | nobody waits for a transaction that is in no queue; what may be sent is not stuck behind what may not; a generator is never continued as if it had been sent; a dead node settles all its messages |
| **Controller recovery** (`Driver.ts` 3455-3667, 4640-4958) | controller status, recovery phase, the serial port, transactions held by recoveries | `handleMissingControllerACK`, `handleMissingSendDataResponseOrCallback`, `handleJammedController`, `softReset`, `ensureSerialAPI` | soft resets run beside each other and beside the loops; their own commands go through the queues they are to unblock; a transaction is kept by the procedure meanwhile; ports are reopened | a failed transaction has exactly one owner until it is requeued or rejected; the controller does not stay Unresponsive; messages settle |
| **Interview, node status and readiness** (`node/Node.ts` 794-1157, `NodeStatusMachine.ts`, `NodeReadyMachine.ts`, `mixins/20_Status.ts`, `Driver.ts` 2420-2760) | interview stage and attempts, status, readiness, retry timers, "all nodes ready" | interview, retry, refresh, restart from cache, node added and removed | interviews are started by timers, revivals, wake-ups and refreshes, and suspended in every command; two may run at the same time and read each other's stages | a complete node was interviewed whole; no node is forgotten; the event comes as soon as it is due |
| **Transport Service** (`driver/TransportServiceMachine.ts`, `MessageGenerators.ts` 223-480, `Driver.ts` 5094-5243) | sender: window of segments and answers; receiver: one session with a timer per peer | send, retransmit, request missing segments, complete, time out | lossy link, session ids that are used again, timers of replaced sessions | a datagram is delivered complete or not at all; both ends come to an end |
| **Security S2** (`packages/core/src/security/Manager2.ts`, `packages/cc/src/cc/Security2CC.ts`, `MessageGenerators.ts` 560-760) | SPAN state per peer, received sequence numbers | encrypt, decrypt, nonce exchange, resynchronise | state that both ends must change in step over a lossy link; wrapping sequence numbers; duplicates; commands that cross | no nonce is used twice; no frame is accepted twice; peers resynchronise |
| **Inclusion, exclusion, replacement** (`controller/Controller.ts` 905-1062, 2073-3494, 6667-7101) | inclusion state, provisioning list, SmartStart attempts, the task that runs and those that wait | begin, stop, SmartStart listening, remove and replace failed nodes | calls check the state when they are made and set it when they are answered; tasks run in between; commands fail at any step | the state says what the controller does; driver and controller know the same nodes; the driver is not busy for ever |
| **Security S0** (`packages/core/src/security/Manager.ts`) | nonces with expiry timers | get, reserve, delete | expiry against use | single use |
| **Supervision** (`Driver.ts` 6244 and below) | sessions by wrapping id | create, update, complete | a late report and a reused id | a report reaches its own session |
| **Partial commands** (`Driver.ts` 4973-5092; for Transport Service part of that module) | parts per command | collect, merge | a lost last part, parts that stay behind | merged only with its own parts |
| **Proxy inclusion** (`controller/ProxyInclusionMachine.ts`) | pending inclusions of another controller | node information, Initiate, timer | order of node information and Initiate | one inclusion at a time |
| **Firmware updates** (`node/mixins/70_FirmwareUpdate.ts`) | one update per node, awaited fragments | start, fragment requests, abort | early or repeated requests | fragments of this update only |
| **Scheduled polls** (`node/mixins/60_ScheduledPoll.ts`) | timer per value | schedule, cancel, poll | a value or a new poll during the poll | at most one poll per value |
| Task scheduler, value database, network cache | external packages (`@zwave-js/waddle`, `jsonl-db`) keep the state | | | |
| Parsers, command encodings, NVM editing, configuration database | data conversions | | | |
| Digilock server (`Digilock/src`) | a REST front end that calls the driver | | | |
| Test doubles, flasher | used in tests and at the command line | | | |

How they interact: API calls and command handlers call `Driver.sendMessage`,
which puts a transaction into one of two queues. The loop of that queue runs
the transaction's message generator (the simple one, the one of S2, the one of
Transport Service); the generator hands one message after the
other to the **Serial API queue** and learns how each ended. Frames from the
controller first try the command in execution (ACK, response, callback), then
the wait of an active transaction (`awaitedCommands`), then the handlers of
their node. Handlers and results change the **status of a node**, and a change
of status walks over both queues and may start an **interview**, which sends
commands of its own. Failures of the controller itself go to
**controller recovery**, which resets it and requeues what was active.
**Inclusion** tasks send commands to the controller and wait for its reports.

## 2. Modules

    SerialQueue            what the send threads rely on
        ^  implemented by (theorem Refinement, run serial_controller)
    SerialAPICommand       queue, drain loop, machine, line, controller
        SerialAPICommandProofs, MCSerialAPICommand
    SendThread             transactions, queues, nodes; relies on SerialQueue
        SendThreadProofs, MCSendThread
    ControllerRecovery     both queues, status of the controller, recoveries
        ControllerRecoveryProofs, MCControllerRecovery
    NodeInterview          interviews, status, readiness of several nodes
        NodeInterviewProofs, MCNodeInterview
    SecurityS2             the SPANs of a controller and a node
        SecurityS2Proofs
    TransportService       generator, sessions and radio link
        TransportServiceProofs
    Inclusion              inclusion state, tasks, provisioning, controller
        InclusionProofs, MCInclusion
    Lists                  what a queue keeps; used by SendThread and Inclusion
        SharedFacts        lemmas about it and about least numbers; used by the
                           proofs of SendThread, NodeInterview, TransportService
                           and Inclusion

Each module takes from the one below it what that one promises: a Serial API
command is one step of `SendThread` and one entry of `serial` in
`ControllerRecovery`; a transaction is one step of `SecurityS2` and
`NodeInterview`. Where a failure is possible in the module below, it is an
action in the module above.

### SerialAPICommand

One step is what the driver does in reaction to one event of the event loop,
together with the promise continuations that run before the next event.

| Model | Code |
|---|---|
| `backlog`, `ended` | the fields of `AsyncQueue`; `NextItem` is its iterator, `Submit` is `queueSerialAPICommand` and `add` |
| `pc`, `attempt`, `timedOut` | the position of `drainSerialAPIQueue` and the state of the machine |
| `cur`, `abort`, `abortDue` | the item being executed, `abortSerialAPICommand`, `sendDataAbortTimeout` |
| `waiters` | `awaitedMessageHeaders`: the loop's own wait for a header and those of `abortSendData` |
| `timer`, `down` | whether the current wait has a timer, and whether `destroy` cleared the timers and closed the port |
| `outcome` | the promise given to the caller |
| `wire`, `job`, `resets` | external: frames on their way to the driver, and what the controller still does for a command |
| `missed`, `answered`, `resent`, `ignored` | history for the properties; `ignored` holds the commands queued after the queue was closed |

`MessageSent` writes the command (`WriteFails`: serializing or writing it throws), and the controller's reply is chosen at
once: ACK, NAK, CAN, an ACK that is lost, or a frame that is lost. `AckArrives`,
`NakArrives`, `CanArrives`, `ResponseArrives` and `CallbackArrives` are the
transitions of the machine with the code around it, `AckTimeout`,
`ResponseTimeout`, `CallbackTimeout` and `SendDataAbortTimeout` its timers. A
command's answer is recognised the way `Message.isExpectedResponse` and
`isExpectedCallback` do: responses by function type, callbacks by callback id.
`DestroyQueue` and `DestroyController` are the two halves of `Driver.destroy`
that matter here. Between them the continuations of an aborted command run, so
the second waits for `CommandAborted`.

### SendThread

| Model | Code |
|---|---|
| `thread[q]` | a `TransactionQueue` with the loop that drains it: the sorted list, the active transaction, the phase of `executeTransaction` and its counters of repeats |
| a transaction `[t, msg, prio, orig]` | a `Transaction` object; clones have the same `t`: they share promise and generator |
| `promise[t]`, `started[t]` | `Transaction.promise` and whether `parts.self` is set |
| `serial` | which loops wait for the Serial API queue, in order |
| `status[n]` | the node's status; a removed node is not in `controller.nodes` |
| `delayed[n]` | the transactions `delayTransactionsForNode` keeps in its timer |
| `goodNight[n]` | the message `sendNoMoreInformation` awaits |
| `expired` | history: the transactions whose expiration timer has elapsed |

`Before` is `Transaction.compareTo`, `MayStart` is `mayStartTransaction`,
`Triggered` is `TransactionQueue.trigger`, `Reduced` is `reduceQueue`; `Parked`,
`Woken` and `Rejected` are its three users. The actions are `sendMessage`, the
steps of the two loops by result of the command, and the events of the nodes.
What the Serial API queue does to one command is a single step, as promised by
`SerialQueue`. `Done` is `finalizeTransaction` followed by the loop's request for
the next transaction. After a failure the loop first reacts and asks for more
afterwards (`Finalized`, then `Listening`), which matters because the reaction
adds transactions while nobody listens. `Only` is what a queue keeps of its list,
`InsertedAll` adds one transaction after the other; both are recursive functions.

The kinds of node are `listening`, `sleeping` (Wake Up CC) and `manual` (may
sleep but has no Wake Up CC). Message kinds: `controller`, `ping`, `set` (no
answer), `get` (waits for a report), `report` (nonces and Supervision reports,
the immediate queue), `noMoreInformation`.

### ControllerRecovery

| Model | Code |
|---|---|
| `options` | `features.unresponsiveControllerRecovery`, `maySoftReset()`, and whether the SDK is older than 7.0 |
| `tx[t]` | a transaction: its message and its promise. All commands of a transaction are one here |
| `waiting`, `active[q]` | the two queues and what their loops execute, with the counters of `executeTransaction` for missing ACKs and jams |
| `serial` | the loops whose command is in the Serial API queue, in order |
| `status`, `phase` | `ControllerStatus`, `ControllerRecoveryPhase` |
| `recovering` | the asynchronous procedures that run: soft resets with what they do in `then` and `catch`, `ensureSerialAPI`, reopening the port. `t` is the transaction a procedure keeps, `own` its own command |
| `driver` | running, destroyed, or without a port |

`SendMessage` is `sendMessage`; `Execute`, `Succeeds`, `NodeSilent`, `AckMissing`,
`JammedOnce` and their companions are the outcomes of a command with what
`executeTransaction` does after them, ending in `HandleFailed` (`handleFailedTransaction`).
`Drain` is the start of the loops after a change of status. `UserSoftReset` is
`softReset` called by the application. The steps of a procedure are
`ResetSent`, `Started` (the controller reports its restart), `NotStarted`,
`Polled`, `PortGone`, `Reopened`, `NotReopened`.

### SecurityS2

| Model | Code |
|---|---|
| `mgr[p]` | `SecurityManager2` of each party: the SPAN table's entry for the peer, its own and the peer's last sequence number |
| `eis` | how many entropy inputs were drawn; a number stands for 16 random bytes, a seed is a pair of them, a nonce a seed and a count |
| `channel` | the frames on their way |
| `parsed` | a command that the driver has decoded (which changes `mgr`) and not handled yet |
| `tx` | the transaction whose S2 generator runs, where it is suspended, and the frame it sends again |
| `replies` | the immediate queue |
| `wants` | the node waits for a nonce, as the mock node does |
| `encrypted`, `accepted`, `due`, `last` | history for the properties |

Encryption is not modelled by its bytes but by what it means: a frame is
decoded exactly by a generator whose next nonces (`DecryptAttempts` of them)
include the one it was encrypted with. `Encoded` is `Security2CCMessageEncapsulation.serialize`
with `Manager2.nextNonce`, `Decoded` is `decryptSinglecast` with `TrySPAN` and
`MayUsePrevious`, the exception for commands that cross. `RequestNonce`, `SendCommand`,
`CannotEncode`, `NothingComes` are the steps of `secureMessageGeneratorS2`; `NonceGetFails`, `SendingFails` and
`Resend` are those of a command that is not acknowledged, although the node may have received it. It is sent again as it
is: `SendDataRequest` keeps the serialized command (`packages/zwave-js/src/lib/serialapi/transport/SendDataMessages.ts` 167-179), so
neither the sequence number nor the nonce is a new one; only a nonce report makes the generator encode it anew.
A command is encoded when it leaves the generator, before the Serial API queue, so that its frame counts as on its way at once.
`Parse` and the `Handle...` actions are the two halves of `serialport_onData`, which awaits the ACK between them; `ReplyNonce`
sends from the immediate queue, where other transactions (`OtherBegins`) may hold it up.
The node's half (`NodeReceives`, `NodeEvent`, `NodeGivesUp`) uses the same operators.

### NodeInterview

A node's record holds what `ZWaveNode` keeps and where its interviews are
suspended. One synchronous piece of the code, with the event handlers it
calls, is an operator from records to records; an action applies one.

| Model | Code |
|---|---|
| `phase`, `announced`, `nodesReady` | what was emitted so far: "driver ready", "all nodes ready"; `_nodesReady` |
| `network` | `controller.nodes`, without the controller's own |
| `node[n].stage`, `.status`, `.readiness` | `interviewStage`, the two machines |
| `.known`, `.interviewed` | what `queryProtocolInfo` and `interviewCCs` found out; a command class that is skipped because its keys are not configured counts as interviewed |
| `.attempts`, `.timers`, `.tracked`, `.refreshing` | `interviewAttempts`, armed retry timers, whether the last one is in `retryNodeInterviewTimeouts`, and `refreshInfo` waiting for a wake-up |
| `.runs[i]` | the interviews of the node and the command each is suspended in |
| `.failed` | history: an interview threw an error that is no transmission error |

`Start`, `CheckAlive`, `Advance`, `NextCC` and `Complete` are the parts of
`interviewInternal`, `Interview` and `Failed` those of `interviewNodeInternal`;
`CommandFails`, `FallsAsleep` and `InterviewThrows` are the three ways in which a command can
fail without a change of status that ends it: with a transmission error, which leads to another attempt; with the report
that a node taken to be awake did not answer; with any other error, which ends the interview for good.
`NextStatus`, `ChangeStatus` and `Readiness` are the machines with the handlers
of their events; `Reset` is `refreshInfo` once it may go on, `Mark` stands for
`markAsDead` and its relatives with what they do to the node's messages. `Put` writes a record back and checks for "all nodes ready".

### Inclusion

| Model | Code |
|---|---|
| `inclusionState`, `smartStartEnabled`, `provisioning`, `failedAttempts`, `nodes` | the fields of the same name |
| `withDSK` | the nodes whose DSK is in the cache |
| `running`, `queue` | the tasks of the group; `pc` is where the running one is suspended. The scheduler is external: one task of the group at a time, removals first |
| `commands` | commands in the order they were queued, and who waits for each: the task, a call, or nobody |
| `mode`, `network` | external: what the controller does, and the nodes it knows |
| `missed`, `crossed` | history: changes the driver was not told of; the state has been set past what was going on |

`Enters` is the setter of `inclusionState`, which may switch the SmartStart listening
mode on. The calls (`BeginInclusion`, `StopInclusion`, ...) look at the
state and queue a task or a command. `Execute` lets the controller execute one
command and gives the answer to its waiter: `Answered` is what the
task does next, `AnsweredCall` what `enableSmartStart`, `disableSmartStart`, `stopInclusion`
and `stopExclusion` do. `SmartStartRequest`, `NodeFound`, `NodeIsNamed`, `ProtocolDone`, ...
are reports of the controller with what `handleAddNodeStatusReport` and its
relatives do. A command that counts as failed may have been executed all the same (`Executed`), when the
answer to it is lost. `SoftReset` may come at any time; the commands that are under way then are executed after it, which is
what `handleMissingControllerACK` does with the one that was not acknowledged (4702-4705). `Late` is an answer to a call that comes
when something else has begun.

### TransportService

The driver is both a sender of long commands, in a message generator, and a
receiver. The module puts one driver at either end of a radio link, which
is fair to both halves because they share nothing but the format of frames.

| Model | Code |
|---|---|
| `tx` | the local variables of `maybeTransportServiceGenerator`: attempt, segment, `unsentSegments`, `didRetryLastSegment`, and where it is suspended |
| `responses` | `unhandledResponses` |
| `rx[i]` | the i-th `TransportServiceSession`: machine, received bytes, timer. Sessions stay in `rx` when they are replaced, because their timers do |
| `sessions` | `nodeSessions.transportService`, by session id |
| `replies` | answers for which `advanceTransportServiceSession` awaits `sendCommand`, with their session; they are sent one after the other, as the send thread does |
| `partials` | `partialCCSessions`, by session id |
| `toReceiver`, `toSender`, `faults` | external: the radio link, in order, and how many faults it may have |
| `outcome`, `arrived`, `assembled` | history for the properties |

`SendSegment`, `SegmentSent`, `SegmentNotAcknowledged`, `CompleteTimeout` and
`Restart` are the steps between two `await`s of the generator, with `Continue` for
the code after each segment. A datagram that ends as `rejected` also stands for one whose receiver fell asleep: the
send thread queues its transaction again, and the generator starts from scratch with a new session, which is the next datagram.
`HandlerRemains` is what both leave behind (fact 19a). `SegmentArrives` is both halves of
`handleMessage` for a segment: `handleTransportServiceCommand`
(`FirstSegmentArrives`, `SubsequentSegmentArrives` and `Advance`, which steps the machine)
and, apart from it, `assemblePartialCCs` (`Assemble`, `Expects`).
`MissingSegmentTimeout` is the timer of a session, `ReplySent` the
code after `sendCommand`.

Timers are ordered, not measured: one elapses when nothing is under way that
could stop it (`Quiet`; the sender waits 1000 ms, the receiver 800 ms), or too early,
which is a fault like a lost frame. So every order of timers and frames is
possible, at the cost of one fault for each unusual one.

## 3. Runs

Every run finishes in little more than two minutes with two workers. Every bound is
a constant.

| Run | Instance | Shows |
|---|---|---|
| `serial_controller` | three commands, two of one function type, one of another that also gets a callback; a restart; destruction | `TypeOK`, `QueueConsistent`, `ResponseIsOwnOrLate`, and that it implements `SerialQueue` |
| `serial_settles` | a SendData, a command with progress callbacks, one without ACK; a SendDataAbort; fairness | `OneHeaderWaiter`, `SuccessWasAnswered`, `ResponseTimeoutPreserved`, `OpenJobsWereGivenUp`, `EveryCommandSettles` |
| `send_mixed` | a sleeping and a listening node, three messages, early reports, expiration, removal, a restart | `TypeOK`, `PendingIsOwned`, `HeadOfLine`, `QueueSorted`, `StartsAfresh`, `DeathRejectsAll` |
| `send_settles` | three sets and pings for a sleeping and a listening node, busy nodes, fairness | `HandledWhenSettled`, `EveryMessageSettlesOrWaits` |
| `recovery_works` | one node, two messages, three faults of any kind, four configurations of driver and controller, fairness | `TypeOK`, `PendingHasOneOwner`, `UnresponsiveIsRecovered`, `EveryMessageSettles` |
| `recovery_lost` | a controller that cannot be soft reset | finding 2 |
| `nodes_works` | a listening and a sleeping node, three caches, two command classes, two commands that fail in any way, a refresh, a removal, fairness | `TypeOK`, `NoNodeForgotten`, `CompleteIsInterviewed`, `ReadyIsAnnounced`, `InterviewsEnd` |
| `s2_works` | two transactions, an event of the node, another transaction in the way, one fault of any kind (a frame lost, repeated, not acknowledged, or late), sequence numbers that wrap | `TypeOK`, `NonceOnce`, `AcceptedOnce`, `SelfHeals`, `CrossingIsTolerated` |
| `transport_works` | two datagrams of three segments, two transmissions per segment, two faults, fairness | `TypeOK`, `CompleteWasReceived`, `AssembledIsWhole`, `AssembledOncePerSession`, `EverythingEnds` |
| `transport_first` | one datagram of two segments, one fault | finding 1 |
| `inclusion_works` | two nodes, one with a provisioning entry, four tasks, four calls, one fault, fairness | `TypeOK`, `ModeMatches`, `NodesInSync`, `BusyEnds` |
| `inclusion_reset` | one task, one soft reset | finding 3 |

Why the bounds are enough. `MaxAttempts` and `MaxQueueAttempts` are 1 or 2
instead of 3: nothing in the code depends on the number except the comparison
that ends the repeats, and 2 has both outcomes of it. The same holds of
`MaxJammed`, `MaxPolls` and `DecryptAttempts`.

* *Serial API.* Three commands let a late answer meet the command after the
  next; two frames on the wire are enough for an answer that overtakes nothing
  but arrives late, because the line keeps the order.
* *Send threads.* Two nodes are needed for any order between nodes, three
  messages for a transaction in front, an active one and one behind.
  The rarer events are switched on by the constant `Events`, because each
  multiplies the states; busy nodes and removal are never combined, see fact 6.
* *Recovery.* Two messages let one be kept by a recovery while the other is
  waiting, failing or sent in the other queue. Three faults are one that starts a
  recovery, one that disturbs it and one that makes its retry
  fail.
* *Nodes.* Two nodes let one be ready and the other outstanding. Two command
  classes are the least with which an interview can be overtaken between
  two of them. With five slots every node always has two free ones, so that
  no interview is lost for lack of a slot; with three or four that is not so.
* *S2.* `FirstSeq = 254` makes the sequence numbers wrap within the run. Two
  transactions are one that leaves the ends out of step and one that must heal it.
* *Transport Service.* Three segments are a first, a middle and a
  last one, so that each can be missing with and without a hole; two datagrams
  let answers and timers of one session meet the next. Two faults are
  the least with which a retry fails as well; `MaxLink` is 1 because the
  generator sends one segment at a time.
* *Inclusion.* Four tasks and four calls let a call be answered after its task
  has ended and the one after it has begun. One fault: with
  two, fact 21 applies. A soft reset counts as the fault. Where no stop is refused, the theorem `ModeAgrees` has no such bound.

**Fairness.** `SerialAPICommand!FairSpec` assumes that continuations run and
that a timer which was not cleared fires: Node.js does that. It assumes nothing
of the controller or the line.
`SendThread!FairSpec` assumes that the loops go on, which includes that the
Serial API queue finishes every command, shown by `EveryCommandSettles` as long
as the driver is not destroyed, and that requeue timers and the
continuation of `sendNoMoreInformation` run. Nodes owe nothing: a sleeping one
may never wake up, and the property lets messages wait for it.
`ControllerRecovery!FairSpec` assumes that each loop goes on and that some
procedure does: no outcome is preferred, failures are bounded.
`NodeInterview!FairSpec` assumes that commands are answered or fail, retry timers fire
and that a sleeping node wakes up again and again, without which its interview cannot end.
`TransportService!FairSpec` assumes that continuations run, timers fire
and that a frame arrives or counts as a fault.
`Inclusion!FairSpec` assumes that the driver goes on and that the controller reports
whether it begins to replace a node; nobody has to press a button or to stop
what he began. Weak fairness suffices: each of these conjunctions stays enabled
until it is taken.

**Deadlock.** All runs have `CHECK_DEADLOCK FALSE`: messages, commands, tasks
and faults are finite in number, so the system stops when all are settled. That
none of them is stuck is what the liveness properties say.

## 4. Properties

*Serial API.* `QueueConsistent` ties the loop to the queue: each pending command
is either in execution or in the backlog, once, unless it was queued after the
queue was closed. `OneHeaderWaiter` says that the list of waiters, changed by two
independent parties and their timers, has exactly one entry of the loop while
it waits for an ACK. `SuccessWasAnswered` excludes stale callbacks;
`ResponseIsOwnOrLate` says how far this is true of responses, which have no id:
only the response of a command of the same function type that was given up or
repeated can be mistaken. `OpenJobsWereGivenUp` is the other direction: the
controller does not work on something the driver believes to have ended, except
for what it gave up. `ResponseTimeoutPreserved` is the comment "Preserve
response timeout errors": it decides whether node or controller is blamed.

*Send threads.* `PendingIsOwned`: no caller waits for a transaction that is nowhere.
`HeadOfLine`: what may be sent is not behind what may not. `QueueSorted`: the
insertion-sorted list stays sorted while the order itself changes with the status of nodes.
`StartsAfresh`: no clone continues a generator that was already started.
`HandledWhenSettled`: what is settled is in no queue. `DeathRejectsAll`: a dead node
settles all its messages in one step. `EveryMessageSettlesOrWaits`: nothing but a
sleeping node, or one that is busy for ever, keeps a message.

*Recovery.* `PendingHasOneOwner`: a message that is not settled is in a queue, with a
loop or with a recovery, and not in two of them, so that it is neither
lost nor sent twice. `UnresponsiveIsRecovered`: a status that holds back all messages has a procedure at work
that will end it, and that procedure does not stand still (`GoesOn`): its own command is settled or
under way, and not held by another recovery that waits for it in turn. It says nothing of the recovery phase:
`CallbackTimeoutAfterReset` and `JammedAfterReset` are left set when no procedure runs (fact 9). `EveryMessageSettles`: the
recoveries, whose own commands pass through the queues, do not block each
other.

*Nodes.* `NoNodeForgotten`: an interview is running or scheduled for each node that
needs one. `CompleteIsInterviewed`: overlapping interviews do not
add up to a complete one with gaps. `ReadyIsAnnounced`: the event comes in the very step in which
the last outstanding node becomes ready or dies. `InterviewsEnd`: no endless retries.

*S2.* `NonceOnce`, `AcceptedOnce`: the use of each nonce, over all
resynchronisations. `SelfHeals`: whatever state both ends are in, the next undisturbed
transaction succeeds and is decoded. `CrossingIsTolerated` (one command is crossed, not two): what the exception of
`decryptSinglecast` is for.

*Transport Service.* `CompleteWasReceived`: the sender believes in a complete
datagram only when all segments of this one arrived, not for a late answer or one of
another session. `AssembledIsWhole`, `AssembledOncePerSession`: the second, separate
bookkeeping of `assemblePartialCCs` hands over whole commands and is not fooled
by repeated segments. `EverythingEnds`: requests,
restarts and repeats come to an end on both sides, also in a session that
was replaced while its timer ran.

*Inclusion.* `ModeMatches`: the state says what the controller does, whenever no
command is under way, until the state has been set past what is going on (`crossed`): by a call that is answered when something
else has begun, by a soft reset while a command is under way or a task is in the middle of its work, or by a command that counts as
failed although it was executed (fact 22a). `NodesInSync`: both know the same nodes. `BusyEnds`: the
driver is not left in a state that refuses every call.

Each property of a passing run comes with a mutant: a plausible bug of the code
under which the run finds a violation.

## 5. Where the code differs from what it says

1. **After a lost first segment the command is acknowledged, but not handled**
   (`transport_first`). The second segment is refused with SegmentWait, and
   yet kept in `partialCCSessions`. After the restart the list begins with it,
   and `expectMoreMessages` takes the first segment for missing, for ever.
2. **A failed transaction is reported as handled and forgotten**
   (`recovery_lost`). When the controller does not acknowledge and cannot be
   soft reset, `handleMissingControllerACK` reopens the port and returns `true`;
   its comment promises that such a transaction does not need to be rejected,
   and nobody requeues it.
3. **A soft reset strands the inclusion it ends** (`inclusion_reset`). The state
   becomes Idle, the task goes on waiting for reports of the controller, and
   every later task of the group waits for it.

More facts follow from the models. Those marked with (m) were found as
violations of a property on an instance made for the purpose; the sources promise
nothing about most of them.

*Serial API and send threads*

4. (m) `destroySerialAPIQueue` aborts the current command "so the queue does not
   lock up" (`Driver.ts` 1006), but a command that waits for its ACK is not raced
   against the abort, and `clearAllTimeouts` takes the timer of that wait away. A
   command queued after that is ignored and its promise stays pending.
5. (m) A Get whose report arrives before its transmit report is settled and
   sent again all the same; the case is only handled for nonce reports (6745-6748).
6. (m) `onNodeRemoved` clears the requeue timers of a busy node and with them
   the only reference to its delayed transactions: their promises stay
   pending.
7. (m) A message for a sleeping node without Wake Up CC, behind one for a
   sleeping node with it, cannot be sent although it may (`Transaction.ts` 213,
   `Driver.ts` 6550). The node kind `manual` is for this; no run uses it.
8. A node without Wake Up CC that was asleep and acknowledges a message
   wakes up by it; `onNodeWakeUp` then queues a clone of that very transaction,
   which is sent again although it succeeded. Similarly a Get that waits for its
   report while its node falls asleep leaves a clone in the queue although the
   original may still get the report; and an expired transaction is queued again when
   its retry finds the node asleep. The expiration timer itself looks for a
   transaction by identity, and does not find a clone. (m) `sendNoMoreInformation` marks its node as asleep while another message
   to it is being sent: that is queued a second time, and rejected when the transmission fails.

   8a. (m) `compareTo` is not transitive: a ping to a node that is awake comes before a
   WakeUp command to another such node, this before a ping to a sleeping node, and that before the
   first ping if it is older. With a ping to a sleeping node, one to a second node and a command to a third
   the list is not sorted after the third has woken up, and no order of it would be.

*Recovery*

9. `ACKTimeoutAfterReset` is a phase that is never entered; `ACKTimeout`, `CallbackTimeout` and `Jammed` are never
   read. `CallbackTimeoutAfterReset` is not left by a success, against the comment at 6680, and like `JammedAfterReset`
   it stays when no recovery runs any more.
10. The report that a command jammed may arrive when the controller is
    already Unresponsive and overwrites that status, so that the normal queue
    goes on although "only soft resetting is allowed" (`Driver.ts` 916). While Jammed, the version poll of a soft reset
    cannot start, and a report that was queued again stays where it is until a
    later message gets through.
11. After a port could not be reopened the controller stays Unresponsive; if
    the driver is destroyed during a recovery, the transaction it keeps stays pending.

*Nodes*

12. Two interviews of a node can run at the same time, against the comments in
    `Node.ts` 841-843 and `Driver.ts` 2488: when a retry timer fires after the
    node has come back to life, and when a node dies right after its inclusion.
    `CompleteIsInterviewed` shows that the stages stay sound.
13. "All nodes ready" is missed when the last outstanding node is removed ("node removed"
    is emitted before `_nodes.delete`), and when a cached node
    becomes ready before its handlers are registered. A node that is not dead and
    gives up blocks it for ever.
14. `queryProtocolInfo` is not retried. A second retry timer overwrites the entry of
    the first, which then cannot be cleared. A node of which it is not yet known that it can sleep
    is marked dead. `refreshInfo` of a node that is being interviewed sets its
    stage back behind the running interview's.

*S2*

15. A late NonceReport makes the generator send a command again that was decoded: it
    is executed twice. The answer to an earlier Get that timed out is taken for the
    one of the next. An unsolicited NonceReport replaces whatever SPAN there is.
16. When both sides request nonces at the same time, the second transmission of a Set may
    not be decoded, and the transaction ends as sent (`MessageGenerators.ts` 660).
17. "Ensure that we're not flooding the queue with unnecessary NonceReports"
    (`Driver.ts` 6080) is only half true: `hasPendingTransactions` (3246) looks
    through the normal queue and at what is being sent, but NonceReports wait in the
    immediate queue. While another transaction of that queue is being sent, each
    request for a nonce adds a report, and each replaces the SPAN state.

*Transport Service*

18. (m) `expectMoreMessages` marks one byte more than a segment has
    (`TransportServiceCC.ts` 316): a command whose last segment has one byte is
    merged without it. `AssemblyWhole` proves that this is the only such case.
19. The sender looks at requests for missing segments only after its wait for
    SegmentComplete has elapsed, when the receiver has given up already. What it
    then sends meets an unknown session, is answered with
    SegmentWait and leads to the second attempt. Once all requested segments are sent
    without the last one among them, the loop ends and starts that attempt, too. The timer
    of a replaced session that fails removes its successor if that has the same session id.

   19a. A segment that is not acknowledged in the end rejects the transaction, or queues it again when the receiver sleeps. The outer
   generator is ended by that (998), but not the one of Transport Service inside it, which never reaches the `finally`
   that unregisters its handler (466-468). The first handler that fits takes a command (`Driver.ts` 5837): every later SegmentWait of that
   node goes to the abandoned one, and a datagram it is meant for is not restarted.

*Inclusion*

20. (m) `removeFailedNode` for a node that SmartStart is just bootstrapping
    returns the task that exists, which waits for the inclusion, which waits for
    it (`Controller.ts` 6699-6703): `BusyEnds` fails with `RemoveAnytime = TRUE`.
21. An exception when a replacement is requested, or an unexpected status report
    for it, leave the driver Busy (6926, 7039). After two faults, an
    inclusion that fails and a Stop that is refused, the next queued task overwrites
    Including while the controller may still catch a node.
22. `stopInclusion` drops tasks that have not started, whose `begin...`
    promise then never settles; nor does that of a task for which SmartStart could not be
    paused. A stop that is answered after its inclusion ended ends the next one, and a
    node that joins meanwhile is unknown to the driver. A listening mode that could not be
    entered or left overwrites the state of what was begun meanwhile.
    22a. (m) A soft reset sets the state to Idle whatever is under way (3506). When it is the recovery after an AddNode that was not
    acknowledged, that command is queued again afterwards (4702-4705) and executed: the controller catches nodes, and
    `stopInclusion` returns `false` because the state is not Including. The same with a SmartStart
    listening mode, and after a command that fails for the driver only, because its answer was lost.
23. A repeated SmartStart request while the first one pauses the listening mode queues a second
    task, which includes the node although its entry may be gone by then. The counter of failed
    attempts is deleted when a node could not be bootstrapped and not removed
    (2874-2883). The strategy ExcludeOnly does not resume listening. A
    failing `enableSmartStart` is repeated without end.
24. `stopInclusion` and `begin...` throw where the documentation says they
    resolve to `false` (`docs/api/controller.md` 188, 197).

*Firmware updates*, read but not modelled

25. `abortFirmwareUpdate` waits for ever when the update ends before it begins or by a timeout;
    `tooLateToAbort` stays set for the next file; `isFirmwareUpdateInProgress` does
    not look at the node; a status report before the wait for it is lost; a
    repeated request for the last fragment is ignored.

## 6. Proofs

All proofs start from the assumptions the modules state about their constants.
The last step of each is `Init => IInv`, `IInv /\ [Next]_vars => IInv'`,
`IInv => Inv`, with a lemma per action.

| Module | Theorem | Statement |
|---|---|---|
| `SerialAPICommandProofs` | `TypeCorrect`, `QueueConsistency`, `HeaderWaiterUnique` | `Spec => []TypeOK`, `[]QueueConsistent`, `[]OneHeaderWaiter` |
| | `Refinement` | `Spec => ImplementsQueue` |
| | `SuccessAnswered`, `ResponseOwnOrLate`, `TimeoutPreserved`, `JobsGivenUp` | `[]SuccessWasAnswered`, `[]ResponseIsOwnOrLate`, `[]ResponseTimeoutPreserved`, `[]OpenJobsWereGivenUp` |
| `SendThreadProofs` | `TypeCorrect`, `StartsWithFreshGenerator`, `DeathIsTold` | `[]TypeOK`, `[]StartsAfresh`, `DeathRejectsAll` |
| | `PendingNotForgotten` | `BusyOrRemoval => (Spec => []PendingIsOwned)` |
| | `FirstBlocksNone` | `NoManual => (Spec => []HeadOfLine)` |
| | `QueuesAreSorted` | `NoManual /\ PingsAgree => (Spec => []QueueSorted)` |
| `ControllerRecoveryProofs` | `TypeCorrect`, `OneOwner`, `Attended` | `[]TypeOK`, `[]PendingHasOneOwner`, `[]UnresponsiveIsRecovered` |
| `SecurityS2Proofs` | `TypeCorrect`, `NonceUsedOnce`, `AcceptedOnceOnly` | `[]TypeOK`, `[]NonceOnce`, `[]AcceptedOnce` |
| | `CrossingDecoded` | `Spec => []CrossingIsTolerated` |
| | `UndisturbedSucceeds` | `Spec /\ []NoneMistaken => []SelfHeals` |
| `NodeInterviewProofs` | `TypeCorrect`, `InterviewIsWhole`, `ReadinessAnnounced` | `[]TypeOK`, `[]CompleteIsInterviewed`, `ReadyIsAnnounced` |
| | `NodesAttended` | `[]NoNodeForgotten`, as long as `SlotsSuffice` |
| `TransportServiceProofs` | `TypeCorrect`, `CompleteReceived`, `AssembledOnce` | `[]TypeOK`, `[]CompleteWasReceived`, `[]AssembledOncePerSession` |
| | `AssemblyWhole` | `TwoBytesPerSegment /\ Spec => []AssembledIsWhole` |
| `InclusionProofs` | `TypeCorrect`, `NodesKnown` | `[]TypeOK`, `[]NodesInSync` |
| | `ModeAgrees` | `StopsSucceed => (Spec => []ModeMatches)` |

**SerialAPICommand.** The inductive invariant is `IInv == Base /\ OneHeaderWaiter`
with `Base == TypeOK /\ QueueConsistent`. Neither half is inductive alone. A header that
reaches the loop settles or advances `cur`; that it is in the state
`waitingForACK`, and hence has a current command, follows from
`OneHeaderWaiter` only. `QueueConsistent` has both directions: what waits is pending (`LoopAgrees`), and what is
pending is executed or waits (`NothingLost`), except for the commands in `ignored`, of which there are none before the queue is closed. That the loop never registers twice needs
`QueueConsistent`: a step that enters `waitingForACK` starts in `sending`.
The building blocks `Settle` and `Await` are lemmas; entries of
`waiters` are handled by lemmas about `Tail`, `Append` and `RemoveAt` on
sequences with one or no entry of the loop. The refinement maps `running` to
`cur`; `Settle` maps to `Finish`, `DestroyQueue` to `Close`, `Submit` to
`Submit` and everything else to a stutter.

The four properties that relate driver and controller need `HInv`, which adds to `IInv`
what is on the line. `Line` says that an answer on its way is one its command has, and a successful
final one was given (`FramesAreHonest`), that the controller works only on
commands with an answer (`JobsAreOwed`), that of a command not yet sent there is no trace
on the line or in the controller (`UnsentIsUntouched`), and that of a command sent a single time
the answers come in order, the response first and nothing after the last (`SentOnceInOrder`). This
one carries most of the weight: what is left of a command that has ended is due to one of
its kind that was given up or repeated (`ResidueIsExplained`), because a command sent once
leaves nothing behind when it succeeds. `MissedWaits` keeps a response timeout until the command ends.

**SendThread.** The messages of transactions are in no variable; `IInv` says that
there is a sequence `m` of them with `Core(m)`. `Typed`, `Around` and `Machine` give the types and say that every
copy of a transaction, in a list, in a loop, with a delayed node, is in the right queue and has the
message `m` says, and what the phase of a loop implies for its active transaction;
`SerialOK` that the Serial API queue holds exactly the loops that are sending; `StartedOK` that a
generator that was started belongs to a transaction at work, because it is reset whenever a loop
lets go of one; `PendingHeld` that a pending transaction is queued, delayed, about to start, or at
work with a generator that will settle it. Lists are
handled by lemmas about `Only`, `Inserted` and `InsertedAll`: what is in the result, and that
the order of the rest is kept. They are recursive functions, whose
lemmas are proved by least counterexample (`InductionUpTo` in `SharedFacts`).
`HeadOfLine` needs a second invariant `Lined`: a message that may not be sent is in the
last class of the order, so all of a list after the first such one are in it, too. This has to
hold through every re-sorting of the list after a change of status, and in
`delayed`, from where transactions come back in their old order. `QueueSorted` is a part of
the same invariant: where `compareTo` is a strict order of what is in one list, insertion before the first
greater element keeps the list sorted, and a change of status moves exactly the elements whose
order to the others changes.

Three of these theorems have a hypothesis. `BusyOrRemoval` says that the events do not include
both a node that is busy and its removal: without it the code does lose a transaction (fact 6).
`NoManual` leaves out nodes that may sleep but have no Wake Up CC: with them the head
of the line blocks (fact 7). `PingsAgree` says that pings to a sleeping node are not queued beside
pings to another node: with both, `compareTo` is no order (fact 8a). The runs are inside all three.

**ControllerRecovery.** One owner is not inductive: to see that a
transaction does not get a second one, one must know who may hand it over. `QueuesOK` says
where a transaction can be and that an idle loop has none, `SerialOK` that the Serial API
queue holds exactly the loops that are sending, `HoldersOK` that a recovery that keeps a
transaction is the only one to do so and that no loop or queue has it,
`ProceduresOK` that a port is reopened only after its transaction was rejected, and `Kept`,
which needs a controller that can be soft reset, that a pending transaction is somewhere.
That an unresponsive controller is recovered by a procedure that goes on has an invariant of its own, `AInv`: a procedure that
is resetting or polling waits for a soft reset or a version request. Nearly every step leaves these commands in flight,
that is settled, in the immediate queue or in its loop (`FlightKept`), so that a procedure that went on still does
(`GoesOnInFlight`). The exception is a soft reset that is not acknowledged: a recovery takes it out of the loop. But that
recovery begins in this very step, with a soft reset in the queue, and is now the procedure that attends (`RecoverAttended`);
every other recovery holds a SendData command or rejects what it found.

**SecurityS2.** `History` says of each party that all nonces it encrypted with are distinct
and so are those it accepted, that its generator is past all of them that have its seed, that the
entropy input it offers is in no seed yet, and that the nonce it may still accept
out of turn is the last one of its own. New entropy inputs are fresh because they
are numbered. `Traffic` carries the same over the frames, replies and commands on
their way. The theorems hold for every number of decryption attempts, faults and
events and every first sequence number: it is the generator, not the check of
sequence numbers, that excludes duplicates.

`CrossingDecoded` follows an event on its way: each one that is due has been decoded, or
is the first frame to the controller, with the next sequence number, and has (`Awaited`) either the nonce that
the controller takes next, with at most one command still to cross it, or the one that
the command under way has used. The proof failed for the property as it stood at first, which asked the same of
every event the node sends in step. A Set that is sent a second time ends its transaction with the
acknowledgement, so the next one may follow while the event is on its way; it then crosses two commands
and is not decoded, because the previous SPAN is kept for one. TLC had not met this with two transactions, and
finds it with three. `InStep` now leaves out an event sent between the nonce report and the second
attempt.

`UndisturbedSucceeds` is the statement that two ends recover from any state, so its invariant `Calm` says
for every phase of an undisturbed transaction (`Asking` for a nonce, `Asked`, `Answering`,
`Answered`, `Agreed`, `Ready`, `Sent`, `Received`, `Failed`) what both generators, both
directions of the medium, the decoded commands and the immediate queue are, where an event of the node
may be ahead of what the transaction waits for. The node either opens the
command or answers with a new entropy input; the second attempt carries the entropy input of the
controller and is opened in every case. `Ended` keeps the result after the end
until the last frame has reached the node. `NoneMistaken` is the one hypothesis: no frame of the undisturbed
transaction has the sequence number that its receiver remembers from before. After a duplicate is
excluded, this takes a whole turn of the 8 bits, some 255 lost frames in a row; without it the
property is false. TLC finds `NoneMistaken`, `Calm` and `Ended` to be invariants of all
states within the bounds of `s2_works`.

**NodeInterview.** `IInv` consists of the types and of `Good(n, node[n])` for each node: the
record's type, armed timers, and what each suspended interview implies about the
command classes done so far (`RunsOK`) and each stage about all of them (`Known`). An operator
on records has a lemma that it keeps `Good`, or makes it so from a weaker `Sound` in the middle
of a transformation. `NextCC` takes the least class that is missing: the lemma `LeastNumber` proves
that a nonempty set of numbers has a least element, from the well-foundedness of strict subsets,
which the library has. `SlotsSuffice`, two free slots for each node, is the condition that the
bound `Slots` of the model, which the code does not have, does not get in the way.

**TransportService.** `IInv` follows an acknowledgement from its cause to its effect: a session
has only bytes of segments that arrived (`SessionOK`) and is over exactly when it has all of
them; a reply, and an answer in the air, is `Truthful`: a SegmentComplete stands for
segments that all arrived; so is what the sender concludes. Segments and bytes are related by
facts about integer division. `AssemblyWhole` needs no more than that a byte that
counts as received, other than the first one, has itself or its predecessor in a segment.
`AssembledOnce` needs `CountsMatch`: of each datagram, the commands handed over and the first segment
that is kept, if any, are together no more than its sessions. The first segment of a
session adds one to both sides, and a command is handed over at the cost of the segment kept.

**Inclusion.** The nodes can only be compared if one knows what each position of a task stands for, so
`Base` relates it to the commands and to the controller. `RunOK` says where a task of each
kind may be and what it knows of its node then; `Served` that a task that waits for an answer has
exactly one command, of the kind that belongs to its position, and that no other command starts anything
behind it; hence `Linked`: a task that hears a report is at the same stage as the controller and
means the same node. `Heard` is `NodesInSync` with what a task has still to make
known. `Apart` says that nothing can be stopped while a failed node is dealt with: otherwise
a stop could drop a task whose removal the controller carries out. All of this holds
with any number of calls, failing commands and soft resets, also where the inclusion state is wrong
(fact 21, 22).

`ModeMatches` speaks only of the moments when no command is under way. Its invariant `Agreed` says for every
other one which state, which mode and which commands fit together, by where the task is:
it has ended, or hears of nothing yet, and the commands will leave the controller as the state
says (`Follows`, and `Left` after a task that a stop dropped); it has sent what starts the controller, and
only harmless commands are before it and its own stops behind it (`Starts`); the controller is at
work for it (`Catches`); it is closing that (`Closes`); it pings a failed node (`Pings`).
`Firm` says that what a dropped task has left in the queue may fail without effect.
Two more parts are needed. `Enabled`: the state is SmartStart only while SmartStart is enabled, so
that it is the setter that switches the listening mode off. `IdsOK`: a task that waits has an id of its own and no
command of it or call against it is under way, so that no answer to an earlier one fits it.
Instead of all this, `Agreed` allows that `crossed` is set already, also by a soft reset in the middle of something or by a
command that was executed although it failed, and `Doomed`: an answer is under way that will come when its task has ended and
another has begun, and will set `crossed`. This is not yet known when the command is queued. The hypothesis
`StopsSucceed`, that none of the commands that may be refused is a stop, is not in the code, which
expects refusals: without it the state is left behind what the controller does (fact 21).
`inclusion_works`, where a stop may be the one thing that fails, is outside it.

**Only model-checked:** liveness (fairness and `ENABLED` are out of the prover's
reach), and these safety properties:

* `HandledWhenSettled` (send threads) is true of the kinds and
  events of its run only: fact 8 has the transactions that stay queued although they are settled.
* `SelfHeals` (S2) without `NoneMistaken`, which holds within the bounds of the run.
* `ModeMatches` (inclusion) with a controller that may refuse to stop: it holds with one fault, as in
  `inclusion_works`, but not with two (fact 21). The theorem is for controllers that do stop.

## 7. Order of work, and what is left

The modules were written in the order of section 2, each with its properties and
mutants before the next, the proofs after the runs. What could follow:

* `SendThread`: `Driver.destroy`, paused queues and the NodeQuery priority; `HandledWhenSettled` as a
  theorem under the conditions of its run.
* `Inclusion`: proxy inclusions.
* `TransportService`: an abstract datagram service that it implements where facts 1 and 18 do not apply.
* Supervision sessions, S0 and firmware updates: small machines with one partner each.

## 8. What is not modelled

Of the roughly 200 000 lines of implementation most hold no behaviour of the kind a state machine
describes: encodings of some 130 command classes and their value definitions (a good
part of them generated), device configuration with its maintenance scripts, the NVM converters,
logging, type definitions, mocks. The modules cover the parts in which several actors share
state: the queues to the controller, the transactions, recovery,
interviews, S2, Transport Service, inclusion. These are a few thousand lines in a dozen files,
so the share of mapped lines stays small however much is added to the modules.

In `SerialAPICommand`: the bytes of frames, checksums and the parser; the
bootloader; the statistics; the length of timeouts except for their order
(`sendDataAbortTimeout` elapses before the callback timeout, the oldest wait for
an ACK first).

In `SendThread`: the generators of S0, S2 and Transport Service, which send
several commands for one transaction; `Driver.destroy`; paused queues;
the priorities NodeQuery and Poll. `abortSendData` ends a transmission early with a result the model allows
anyway. Identity of objects is modelled where the code depends on it (`orig`).

In `ControllerRecovery`: sleeping nodes and the answers of nodes (`SendThread`); the bootloader and
the hard reset; paused queues (`pauseSendThread` is ignored by the queues it is meant for);
firmware updates of the controller, during which `softReset` throws (`Driver.ts` 3466); what the driver does after the port
could not be opened again: it goes on with a port that is lost and fails each command, while `NotReopened` ends the model.

In `NodeInterview`: what an interview of a command class does; device configuration and hash
are one step with what follows; `refreshInfo` is called when no interview runs (fact 14);
adding a node is one step; the interviews of a removed node end with it; the controller's own node;
secondary controllers; ids that are used again.

In `SecurityS2`: multicast, key exchange and bootstrapping, several security classes of a node;
cryptography takes no time, because the primitives of Node.js return at once. A transmission and its acknowledgement
are one step; a command that waits to be sent after its nonce arrived (`ready`) may wait for longer than the
microtasks it takes in the code; a nonce report that comes while its request is sent once more ends the
sending at once.

In `TransportService`: session ids do not wrap around (each datagram has its
own; the code reuses one after 15 others); segments keep to the announced size; the
pauses between segments; the final wait for a node update, which is the one of
`SendThread`; the wait that a SegmentWait asks for has no length. The input `abort` of the
machine is used nowhere. That a handler which remains (fact 19a) disturbs a later datagram takes three faults, which are
more than `transport_works` has; with three (928 000 states) the same properties hold, and the theorems
of section 6 hold for any number.

In `Inclusion`: proxy inclusions (`Controller.ts` 3496-3665, 3906-4020), which set the state to Busy and
Idle whatever runs; the learn mode of the controller; what bootstrapping does to keys. Bootstrapping
ends when no command is under way. A node that another controller removes is only reported.

Everything listed as not modelled in `PROJECT.json` has its reason there.
