------------------------- MODULE ControllerRecovery -------------------------
(***************************************************************************)
(* How the driver recovers a controller that does not answer or cannot     *)
(* transmit (Driver.handleMissingControllerACK,                            *)
(* handleMissingSendDataResponseOrCallback, handleJammedController): the   *)
(* status of the controller decides which transactions may start, failed   *)
(* transactions wait for a soft reset and are queued again.  The           *)
(* procedures run asynchronously, beside each other and beside the loops   *)
(* that drain the two transaction queues.                                  *)
(*                                                                         *)
(* A transaction sends one command here; sleeping nodes and the answers    *)
(* of nodes are in SendThread, the Serial API command itself in            *)
(* SerialAPICommand.  The driver is started and its controller             *)
(* interviewed.                                                            *)
(***************************************************************************)
EXTENDS Naturals, Sequences

CONSTANTS
    Node, Controller,
    Messages,      \* the messages handed to sendMessage
    MaxMessages,   \* bound: messages sent in a behaviour
    MaxAttempts,   \* attempts.controller
    MaxJammed,     \* attempts.sendDataJammed
    MaxPolls,      \* polls of the controller after a soft reset (5 in the code)
    MaxFaults,     \* bound: what goes wrong, and soft resets of the application
    Faults,        \* what may go wrong
    Options        \* configurations of the driver and kinds of controllers

Kinds == {"data", "report", "command"}
AllFaults == {"node", "ack", "jam", "callback", "response", "dropped", "reset",
              "silent", "port", "user"}

(* recover: features.unresponsiveControllerRecovery; softReset:            *)
(* maySoftReset(); legacy: the SDK of the controller is older than 7.0,    *)
(* all others can be soft reset.                                           *)
ASSUME RecoveryAssumption ==
    /\ Messages \subseteq [kind : Kinds, node : Node \cup {Controller}]
    /\ Controller \notin Node
    /\ \A m \in Messages : (m.kind = "command") <=> (m.node = Controller)
    /\ MaxMessages \in Nat /\ MaxFaults \in Nat
    /\ MaxAttempts \in Nat \ {0} /\ MaxJammed \in Nat \ {0} /\ MaxPolls \in Nat \ {0}
    /\ Faults \subseteq AllFaults
    /\ Options \subseteq [recover : BOOLEAN, softReset : BOOLEAN, legacy : BOOLEAN]
    /\ \A o \in Options : o.softReset \/ o.legacy

Internal(k) == [kind |-> k, node |-> Controller]
SoftReset == Internal("softReset")
Version   == Internal("version")

Queues == {"immediate", "normal"}
QueueOf(m) == IF m.kind \in {"data", "command"} THEN "normal" ELSE "immediate"
IsSendData(m) == m.kind \in {"data", "report"}

(* MessagePriority: a lower number is more urgent.                         *)
Priority(m) ==
    CASE m \in {SoftReset, Version} -> 0
      [] m.kind = "command" -> 1
      [] m.kind = "report"  -> 2
      [] OTHER -> 6

VARIABLES
    options,    \* what this driver and controller can do
    tx,         \* the transactions in the order of creation: message and promise
    waiting,    \* the transactions in each queue
    active,     \* what the loop of each queue executes
    serial,     \* the queues whose commands the Serial API queue holds, in order
    status,     \* ControllerStatus
    phase,      \* ControllerRecoveryPhase
    recovering, \* the recovery procedures that run
    driver,     \* "running", "destroyed", or "portLost"
    sent, faults   \* counters for the bounds

vars == <<options, tx, waiting, active, serial, status, phase, recovering, driver,
          sent, faults>>

Idle == [t |-> 0, step |-> "idle", acks |-> 0, jams |-> 0, maxJams |-> 0]

Init ==
    /\ options \in Options
    /\ tx = <<>>
    /\ waiting = [q \in Queues |-> {}]
    /\ active = [q \in Queues |-> Idle]
    /\ serial = <<>>
    /\ status = "ready" /\ phase = "none"
    /\ recovering = {}
    /\ driver = "running"
    /\ sent = 0 /\ faults = 0
-----------------------------------------------------------------------------
(* The transaction queues.                                                 *)

(* x is the first of the transactions S of a queue.                        *)
IsFirst(txs, S, x) ==
    \A y \in S \ {x} :
        \/ Priority(txs[x].msg) < Priority(txs[y].msg)
        \/ Priority(txs[x].msg) = Priority(txs[y].msg) /\ x < y

(* mayStartNextTransaction of the two queues.                              *)
MayStart(q, m, st) ==
    IF q = "normal" THEN st # "unresponsive"
    ELSE \/ st = "unresponsive" /\ m \in {SoftReset, Version}
         \/ st = "jammed" /\ m = SoftReset
         \/ st = "ready"

(* The queues hold w and the loops execute act once the status is st: a    *)
(* loop that waits takes its first transaction, if that one may start.     *)
Drain(txs, w, act, st) ==
    LET mayTake(q) == IF act[q].t # 0 THEN {}
                      ELSE {x \in w[q] : IsFirst(txs, w[q], x) /\ MayStart(q, txs[x].msg, st)}
        next(q) == CHOOSE x \in mayTake(q) : TRUE
    IN  /\ tx' = txs /\ status' = st
        /\ waiting' = [q \in Queues |->
             IF mayTake(q) # {} THEN w[q] \ {next(q)} ELSE w[q]]
        /\ active' = [q \in Queues |->
             IF mayTake(q) # {} THEN [Idle EXCEPT !.t = next(q), !.step = "taken"]
                                ELSE act[q]]

With(w, txs, t) == [w EXCEPT ![QueueOf(txs[t].msg)] = @ \cup {t}]
Created(txs, m) == Append(txs, [msg |-> m, result |-> "pending"])
Settled(txs, t, r) ==
    IF txs[t].result = "pending" THEN [txs EXCEPT ![t].result = r] ELSE txs

(* The loop of q is done with its transaction.                             *)
Ended(q, txs, w, st) ==
    /\ serial' = Tail(serial)
    /\ Drain(txs, w, [active EXCEPT ![q] = Idle], st)

(* sendMessage *)
SendMessage(m) ==
    /\ driver = "running" /\ sent < MaxMessages
    /\ sent' = sent + 1
    /\ LET txs == Created(tx, m)
       IN  Drain(txs, With(waiting, txs, Len(txs)), active, status)
    /\ UNCHANGED <<options, serial, phase, recovering, driver, faults>>

(* executeTransaction: the generator yields its command, even if the       *)
(* transaction was rejected meanwhile.                                     *)
Execute(q) ==
    /\ driver = "running" /\ active[q].step = "taken"
    /\ active' = [active EXCEPT ![q].step = "sending",
         ![q].maxJams = IF phase = "jammedAfterReset" THEN 1 ELSE MaxJammed]
    /\ serial' = Append(serial, q)
    /\ UNCHANGED <<options, tx, waiting, status, phase, recovering, driver, sent, faults>>
-----------------------------------------------------------------------------
(* The outcomes of a command.                                              *)

HasResult(q) ==
    /\ driver = "running" /\ active[q].step = "sending"
    /\ Head(serial) = q
Msg(q) == tx[active[q].t].msg
Fault(f) == f \in Faults /\ faults < MaxFaults /\ faults' = faults + 1

(* A transmit report that is not jammed ends the jam and its recovery.     *)
Transmitted(q) ==
    IF IsSendData(Msg(q))
      THEN [status |-> IF status = "jammed" THEN "ready" ELSE status,
            phase  |-> IF phase = "jammedAfterReset" THEN "none" ELSE phase]
      ELSE [status |-> status, phase |-> phase]

Succeeds(q) ==
    /\ HasResult(q)
    /\ Ended(q, Settled(tx, active[q].t, "ok"), waiting, Transmitted(q).status)
    /\ phase' = Transmitted(q).phase
    /\ UNCHANGED <<options, recovering, driver, sent, faults>>

(* The node of transaction t is dead: t and everything queued for the node *)
(* is rejected, in both queues.                                            *)
RejectedWith(t) ==
    [x \in DOMAIN tx |->
      IF /\ tx[x].result = "pending" /\ tx[x].msg.node = tx[t].msg.node
         /\ x = t \/ \E q \in Queues : x \in waiting[q] \/ x = active[q].t
        THEN [tx[x] EXCEPT !.result = "failed"] ELSE tx[x]]
WaitingWithout(n) ==
    [q \in Queues |-> {x \in waiting[q] : tx[x].msg.node # n}]

(* handleMissingNodeACK for a node that does not sleep, after all retries. *)
NodeSilent(q) ==
    /\ HasResult(q) /\ IsSendData(Msg(q)) /\ Fault("node")
    /\ Ended(q, RejectedWith(active[q].t), WaitingWithout(Msg(q).node),
             Transmitted(q).status)
    /\ phase' = Transmitted(q).phase
    /\ UNCHANGED <<options, recovering, driver, sent>>

(* rejectTransaction, in the end of handleFailedTransaction                *)
Rejected(q, why, st, ph) ==
    /\ Ended(q, Settled(tx, active[q].t, why), waiting, st)
    /\ phase' = ph
    /\ UNCHANGED recovering

(* A recovery procedure: its cause, the transaction that waits for it, the *)
(* message it waits for itself.                                            *)
Procedure(cause, t, own) ==
    [cause |-> cause, t |-> t, own |-> own, step |-> "resetting", polls |-> 0]

(* The transaction of q ends without being settled, a soft reset begins.   *)
(* txs and w are the transactions and the queues without it.               *)
Recover(q, cause, txs, w, st, ph) ==
    LET new == Created(txs, SoftReset)
    IN  /\ recovering' = recovering \cup {Procedure(cause, active[q].t, Len(new))}
        /\ Ended(q, new, With(w, new, Len(new)), st)
        /\ phase' = ph

(* attempts.controller: the command is sent again without a delay.         *)
AckMissingOnce(q) ==
    /\ HasResult(q) /\ active[q].acks + 1 < MaxAttempts /\ Fault("ack")
    /\ active' = [active EXCEPT ![q].acks = @ + 1]
    /\ serial' = Append(Tail(serial), q)
    /\ UNCHANGED <<options, tx, waiting, status, phase, recovering, driver, sent>>

(* handleMissingControllerACK.  The phase ACKTimeoutAfterReset is never    *)
(* entered.  Without soft reset the port is reopened, and the transaction  *)
(* is neither rejected nor queued again.                                   *)
AckMissing(q) ==
    /\ HasResult(q) /\ active[q].acks + 1 >= MaxAttempts /\ Fault("ack")
    /\ \/ /\ ~options.recover \/ status = "unresponsive"
          /\ Rejected(q, "noAck", status, phase)
       \/ /\ options.recover /\ ~options.softReset /\ status # "unresponsive"
          /\ recovering' = recovering \cup
               {[Procedure("reopen", active[q].t, 0) EXCEPT !.step = "reopening"]}
          /\ Ended(q, tx, waiting, status)
          /\ UNCHANGED phase
       \/ /\ options.recover /\ options.softReset /\ status # "unresponsive"
          /\ Recover(q, "ack", tx, waiting, "unresponsive", "ackTimeout")
    /\ UNCHANGED <<options, driver, sent>>

(* Mutant of JammedOnce: the attempts are not counted.                     *)
JammedAgain(q) ==
    /\ HasResult(q) /\ IsSendData(Msg(q)) /\ Fault("jam")
    /\ serial' = Tail(serial)
    /\ Drain(tx, waiting,
             [active EXCEPT ![q].jams = @ + 1, ![q].step = "retrying"], "jammed")
    /\ UNCHANGED <<options, phase, recovering, driver, sent>>

(* The controller did not transmit.  The command is sent again after a     *)
(* while.                                                                  *)
JammedOnce(q) ==
    /\ HasResult(q) /\ IsSendData(Msg(q)) /\ Fault("jam")
    /\ active[q].jams + 1 < active[q].maxJams
    /\ serial' = Tail(serial)
    /\ Drain(tx, waiting,
             [active EXCEPT ![q].jams = @ + 1, ![q].step = "retrying"], "jammed")
    /\ UNCHANGED <<options, phase, recovering, driver, sent>>

JamWaitEnds(q) ==
    /\ driver = "running" /\ active[q].step = "retrying"
    /\ active' = [active EXCEPT ![q].step = "sending"]
    /\ serial' = Append(serial, q)
    /\ UNCHANGED <<options, tx, waiting, status, phase, recovering, driver, sent,
                   faults>>

(* handleJammedController, whatever the error was.                         *)
JammedController(q) ==
    \/ /\ phase = "jammedAfterReset"
       /\ Rejected(q, "failed", "ready", "none")
    \/ /\ phase # "jammedAfterReset" /\ options.legacy
       /\ Rejected(q, "failed", "ready", phase)
    \/ /\ phase # "jammedAfterReset" /\ ~options.legacy
       /\ Recover(q, "jammed", tx, waiting, status, "jammed")

(* handleMissingSendDataResponseOrCallback.  After a response timeout, or  *)
(* when the callback is missing once more after the reset, the node is     *)
(* presumed dead.                                                          *)
NodeBlamed(q) ==
    /\ Ended(q, RejectedWith(active[q].t), WaitingWithout(Msg(q).node), status)
    /\ UNCHANGED <<phase, recovering>>

NodeBlamedAndReset(q) ==
    Recover(q, "again", RejectedWith(active[q].t), WaitingWithout(Msg(q).node),
            status, phase)

MissingAnswer(q, error) ==
    \/ error = "response" /\ phase # "callbackTimeoutAfterReset" /\ NodeBlamed(q)
    \/ phase = "callbackTimeoutAfterReset" /\ NodeBlamedAndReset(q)
    \/ /\ error = "callback" /\ phase # "callbackTimeoutAfterReset"
       /\ \/ status = "unresponsive" /\ Rejected(q, "failed", status, phase)
          \/ /\ status # "unresponsive" /\ ~options.softReset
             /\ Rejected(q, "failed", status, phase)
          \/ /\ status # "unresponsive" /\ options.softReset
             /\ Recover(q, "callback", tx, waiting, "unresponsive", "callbackTimeout")

(* handleFailedTransaction, for all errors but a missing ACK.              *)
Handler(q, error) ==
    IF IsSendData(Msg(q)) /\ status = "jammed"
      THEN IF options.recover THEN "jammed" ELSE "reject"
    ELSE IF IsSendData(Msg(q)) /\ error \in {"response", "callback"}
      THEN IF options.recover THEN "missing" ELSE "reject"
    ELSE IF error = "reset" THEN "requeue" ELSE "reject"

HandleFailed(q, error) ==
    CASE Handler(q, error) = "jammed"  -> JammedController(q)
      [] Handler(q, error) = "missing" -> MissingAnswer(q, error)
      [] Handler(q, error) = "reject"  -> Rejected(q, "failed", status, phase)
      [] Handler(q, error) = "requeue" ->
           /\ Ended(q, tx, With(waiting, tx, active[q].t), status)
           /\ UNCHANGED <<phase, recovering>>

(* The command ends with an error: retries after a response timeout or a   *)
(* NAK are in SendThread.                                                  *)
Fails(q, error) ==
    /\ HasResult(q) /\ Fault(error)
    /\ error = "jam" => IsSendData(Msg(q)) /\ active[q].jams + 1 >= active[q].maxJams
    /\ HandleFailed(q, error)
    /\ UNCHANGED <<options, driver, sent>>
-----------------------------------------------------------------------------
(* The recovery procedures: softResetInternal and ensureSerialAPI.         *)

(* The soft reset the application asks for.                                *)
UserSoftReset ==
    /\ driver = "running" /\ options.softReset /\ Fault("user")
    /\ ~\E p \in recovering : p.cause = "user"
    /\ LET new == Created(tx, SoftReset)
       IN  /\ recovering' = recovering \cup {Procedure("user", 0, Len(new))}
           /\ Drain(new, With(waiting, new, Len(new)), active, status)
    /\ UNCHANGED <<options, serial, phase, driver, sent>>

Becomes(p, p2) == recovering' = (recovering \ {p}) \cup {p2}
Requeued(t) == With(waiting, tx, t)

(* Mutant of Recovered: the transaction is forgotten.                      *)
RecoveredAlone(p) ==
    /\ recovering' = recovering \ {p}
    /\ CASE p.cause = "ack"      -> Drain(tx, waiting, active, "ready") /\ phase' = "none"
         [] p.cause = "callback" -> /\ Drain(tx, Requeued(p.t), active, "ready")
                                    /\ phase' = "callbackTimeoutAfterReset"
         [] p.cause = "jammed"   -> /\ Drain(tx, Requeued(p.t), active, status)
                                    /\ phase' = "jammedAfterReset"
         [] p.cause = "again"    -> Drain(tx, waiting, active, "ready") /\ phase' = "none"
         [] p.cause = "user"     -> Drain(tx, waiting, active, status) /\ UNCHANGED phase

(* Mutant of Recovered: a missing callback leaves its status behind.       *)
RecoveredUnready(p) ==
    /\ recovering' = recovering \ {p}
    /\ CASE p.cause = "callback" -> /\ Drain(tx, Requeued(p.t), active, status)
                                    /\ phase' = "callbackTimeoutAfterReset"
         [] p.cause = "jammed"   -> /\ Drain(tx, Requeued(p.t), active, status)
                                    /\ phase' = "jammedAfterReset"
         [] p.cause = "ack"      -> Drain(tx, Requeued(p.t), active, "ready") /\ phase' = "none"
         [] p.cause = "again"    -> Drain(tx, waiting, active, "ready") /\ phase' = "none"
         [] p.cause = "user"     -> Drain(tx, waiting, active, status) /\ UNCHANGED phase

(* The Serial API answers again: what .then() of the soft reset does.      *)
Recovered(p) ==
    /\ recovering' = recovering \ {p}
    /\ CASE p.cause = "ack"      -> /\ Drain(tx, Requeued(p.t), active, "ready")
                                    /\ phase' = "none"
         [] p.cause = "callback" -> /\ Drain(tx, Requeued(p.t), active, "ready")
                                    /\ phase' = "callbackTimeoutAfterReset"
         [] p.cause = "jammed"   -> /\ Drain(tx, Requeued(p.t), active, status)
                                    /\ phase' = "jammedAfterReset"
         [] p.cause = "again"    -> Drain(tx, waiting, active, "ready") /\ phase' = "none"
         [] p.cause = "user"     -> Drain(tx, waiting, active, status) /\ UNCHANGED phase

(* Mutant of NotRecovered: the transaction is not rejected.                *)
NotRecoveredNorRejected(p) ==
    IF p.cause = "ack"
      THEN /\ Becomes(p, [p EXCEPT !.step = "reopening"])
           /\ UNCHANGED <<tx, waiting, active, status, phase>>
      ELSE /\ recovering' = recovering \ {p}
           /\ IF p.cause = "user"
                THEN Drain(tx, waiting, active, status) /\ UNCHANGED phase
                ELSE Drain(tx, waiting, active, "ready") /\ phase' = "none"

(* The controller did not acknowledge the soft reset: .catch().  The       *)
(* recovery of a missing ACK rejects its transaction with the error that   *)
(* began it, which fails a soft reset that waits for that transaction,     *)
(* and goes on to reopen the port.                                         *)
NotRecovered(p) ==
    CASE p.cause = "ack" ->
           /\ Becomes(p, [p EXCEPT !.step = "reopening"])
           /\ Drain(Settled(tx, p.t, "noAck"), waiting, active, status)
           /\ UNCHANGED phase
      [] p.cause \in {"callback", "jammed"} ->
           /\ recovering' = recovering \ {p}
           /\ Drain(Settled(tx, p.t, "failed"), waiting, active, "ready")
           /\ phase' = "none"
      [] p.cause = "again" ->
           /\ recovering' = recovering \ {p}
           /\ Drain(tx, waiting, active, "ready") /\ phase' = "none"
      [] p.cause = "user" ->
           /\ recovering' = recovering \ {p}
           /\ Drain(tx, waiting, active, status) /\ UNCHANGED phase

(* sendMessage(SoftResetRequest) returns.                                  *)
ResetSent(p) ==
    /\ driver = "running" /\ p.step = "resetting" /\ tx[p.own].result # "pending"
    /\ \/ tx[p.own].result = "noAck" /\ NotRecovered(p)
       \/ /\ tx[p.own].result # "noAck"
          /\ Becomes(p, [p EXCEPT !.step = "starting"])
          /\ UNCHANGED <<tx, waiting, active, status, phase>>
    /\ UNCHANGED <<options, serial, driver, sent, faults>>

(* The controller says in time that its Serial API has started.            *)
Started(p) ==
    /\ driver = "running" /\ p.step = "starting"
    /\ Recovered(p)
    /\ UNCHANGED <<options, serial, driver, sent, faults>>

Poll(p) ==
    LET new == Created(tx, Version)
    IN  /\ Becomes(p, [p EXCEPT !.step = "polling", !.polls = @ + 1, !.own = Len(new)])
        /\ Drain(new, With(waiting, new, Len(new)), active, status)

(* It does not: the driver asks for its version.                           *)
NotStarted(p) ==
    /\ driver = "running" /\ p.step = "starting" /\ Fault("silent")
    /\ Poll(p)
    /\ UNCHANGED <<options, serial, phase, driver, sent>>

(* The port was closed by the reset and cannot be opened again.            *)
PortGone(p) ==
    /\ driver = "running" /\ p.step = "starting" /\ Fault("port")
    /\ driver' = "destroyed"
    /\ UNCHANGED <<options, tx, waiting, active, serial, status, phase, recovering,
                   sent>>

Polled(p) ==
    /\ driver = "running" /\ p.step = "polling" /\ tx[p.own].result # "pending"
    /\ \/ tx[p.own].result = "ok" /\ Recovered(p) /\ UNCHANGED driver
       \/ /\ tx[p.own].result # "ok" /\ p.polls < MaxPolls
          /\ Poll(p) /\ UNCHANGED <<phase, driver>>
       \/ /\ tx[p.own].result # "ok" /\ p.polls = MaxPolls
          /\ driver' = "destroyed"
          /\ UNCHANGED <<tx, waiting, active, status, phase, recovering>>
    /\ UNCHANGED <<options, serial, sent, faults>>

(* recoverByReopeningSerialport                                            *)
Reopened(p) ==
    /\ driver = "running" /\ p.step = "reopening"
    /\ recovering' = recovering \ {p}
    /\ Drain(tx, waiting, active, "ready")
    /\ phase' = "none"
    /\ UNCHANGED <<options, serial, driver, sent, faults>>

NotReopened(p) ==
    /\ driver = "running" /\ p.step = "reopening" /\ Fault("port")
    /\ driver' = "portLost"
    /\ UNCHANGED <<options, tx, waiting, active, serial, status, phase, recovering,
                   sent>>
-----------------------------------------------------------------------------
LoopStep(q) ==
    \/ Execute(q) \/ Succeeds(q) \/ NodeSilent(q) \/ AckMissingOnce(q)
    \/ AckMissing(q) \/ JammedOnce(q) \/ JamWaitEnds(q)
    \/ \E e \in AllFaults \ {"node", "ack", "silent", "port", "user"} : Fails(q, e)

RecoveryStep(p) ==
    \/ ResetSent(p) \/ Started(p) \/ NotStarted(p) \/ PortGone(p) \/ Polled(p)
    \/ Reopened(p) \/ NotReopened(p)

Next ==
    \/ \E m \in Messages : SendMessage(m)
    \/ UserSoftReset
    \/ \E q \in Queues : LoopStep(q)
    \/ \E p \in recovering : RecoveryStep(p)

Spec == Init /\ [][Next]_vars

(* The loops go on, timers elapse, the Serial API queue settles every      *)
(* command (SerialAPICommand) and a port is opened or given up.  Whether a *)
(* command fails is not up to the driver: an outcome is weakly fair, and   *)
(* failures are bounded.                                                   *)
Fairness ==
    /\ \A q \in Queues : WF_vars(LoopStep(q))
    /\ WF_vars(\E p \in recovering : RecoveryStep(p))

FairSpec == Spec /\ Fairness
-----------------------------------------------------------------------------
(* Type correctness of the queues, the loops and the procedures.           *)
TypeOK ==
    /\ options \in Options
    /\ tx \in Seq([msg : Messages \cup {SoftReset, Version},
                   result : {"pending", "ok", "noAck", "failed"}])
    /\ waiting \in [Queues -> SUBSET (DOMAIN tx)]
    /\ active \in [Queues -> [t : 0..Len(tx),
                              step : {"idle", "taken", "sending", "retrying"},
                              acks : 0..MaxAttempts, jams : 0..MaxJammed,
                              maxJams : 0..MaxJammed]]
    /\ serial \in Seq(Queues)
    /\ status \in {"ready", "unresponsive", "jammed"}
    /\ phase \in {"none", "ackTimeout", "callbackTimeout",
                  "callbackTimeoutAfterReset", "jammed", "jammedAfterReset"}
    /\ recovering \subseteq
         [cause : {"ack", "callback", "jammed", "again", "user", "reopen"},
          t : 0..Len(tx), own : 0..Len(tx), polls : 0..MaxPolls,
          step : {"resetting", "starting", "polling", "reopening"}]
    /\ driver \in {"running", "destroyed", "portLost"}
    /\ sent \in 0..MaxMessages /\ faults \in 0..MaxFaults

(* Where transaction t is: in a queue, with a loop, or with a recovery     *)
(* procedure that settles it or queues it again.                           *)
Owners(t) ==
    {<<"queue", q>> : q \in {r \in Queues : t \in waiting[r]}}
      \cup {<<"loop", q>> : q \in {r \in Queues : active[r].t = t}}
      \cup {<<"recovery", p.cause>> : p \in {r \in recovering :
               r.t = t /\ r.cause \in {"ack", "callback", "jammed"}}}

(* Whatever fails on the way, a message that is not settled yet is in      *)
(* exactly one place: it is not forgotten by a recovery that ends, and not *)
(* sent by a loop while a recovery is about to queue it again.             *)
(* Where the controller cannot be soft reset this does not hold, see       *)
(* HandledOrRejected.                                                      *)
PendingHasOneOwner ==
    options.softReset =>
      \A t \in DOMAIN tx : tx[t].result = "pending" => \E o \in Owners(t) : Owners(t) = {o}

(* The procedure p does not stand still: it is at a wait of its own, or    *)
(* the message it waits for is settled, or with the immediate queue or its *)
(* loop and not held by another recovery.                                  *)
GoesOn(p) ==
    \/ p.step \in {"starting", "reopening"}
    \/ tx[p.own].result # "pending"
    \/ p.own \in waiting["immediate"] \/ active["immediate"].t = p.own

(* While the controller counts as unresponsive, the queues hold back what  *)
(* the application sends.  A procedure that will end that is at work and   *)
(* goes on, although procedures overlap: none is the last to leave the     *)
(* status behind, and not all of them wait for soft resets that are held   *)
(* by each other, as a soft reset is that is not acknowledged itself.      *)
UnresponsiveIsRecovered ==
    status = "unresponsive" =>
      \E p \in recovering : p.cause \in {"ack", "callback"} /\ GoesOn(p)

(* Every message is settled in the end, unless the driver has given up or  *)
(* the controller is jammed for ever: failures are finitely many, and the  *)
(* recoveries, which send messages of their own through the same queues,   *)
(* do not wait for each other.  Nor does the controller stay unresponsive. *)
EveryMessageSettles ==
    /\ options.softReset =>
         \A t \in 1..(MaxMessages + MaxFaults) :
           t \in DOMAIN tx ~> /\ t \in DOMAIN tx
                            /\ \/ tx[t].result # "pending"
                               \/ driver # "running" \/ status = "jammed"
    /\ status = "unresponsive" ~> status # "unresponsive" \/ driver # "running"

(* Driver.ts, handleMissingControllerACK: "Returns `true` if the           *)
(* transaction failure was handled, `false` if it needs to be rejected".   *)
HandledOrRejected ==
    \A t \in DOMAIN tx : tx[t].result = "pending" => Owners(t) # {}
=============================================================================
