----------------------------- MODULE SendThread -----------------------------
(***************************************************************************)
(* The send threads of the driver: two TransactionQueues (immediate and    *)
(* normal), the loops that drain them (Driver.drainTransactionQueue), and  *)
(* what happens to the transactions in them when nodes fall asleep, wake   *)
(* up, die, are busy or are removed, when a message expires and when the   *)
(* controller restarts.                                                    *)
(*                                                                         *)
(* The commands of a transaction go to the Serial API queue.  What that    *)
(* queue promises is SerialQueue.tla: one command at a time, in order, one *)
(* outcome each.  An unresponsive or jammed controller is not modelled     *)
(* here.  abortSendData makes the controller end a transmission early,     *)
(* with an outcome that is possible anyway: it is no step of its own.      *)
(***************************************************************************)
EXTENDS Naturals, Sequences, SequencesExt, FiniteSetsExt, Lists

CONSTANTS
    Node,             \* the nodes of the network
    Controller,       \* the target of messages to the controller itself
    NodeKind,         \* [Node -> {"listening", "sleeping", "manual"}]
    Messages,         \* the messages handed to sendMessage
    MaxMessages,      \* bound: messages sent in a behaviour
    MaxAttempts,      \* attempts.sendData (3 in the code)
    MaxQueueAttempts, \* 3 in the code
    MaxResets,        \* bound: restarts of the controller
    Events            \* the rarer events that may happen

(* "set" expects no answer, "get" waits for a report of the node; "report" *)
(* stands for nonces and Supervision reports.                              *)
MessageKinds == {"controller", "ping", "set", "get", "report", "noMoreInformation"}

(* A "manual" node can sleep and does not support the Wake Up CC.          *)
NodeKinds == {"listening", "sleeping", "manual"}

ASSUME ConstantsAssumption ==
    /\ Controller \notin Node
    /\ NodeKind \in [Node -> NodeKinds]
    /\ Messages \subseteq [kind : MessageKinds, node : Node \cup {Controller}]
    /\ \A m \in Messages : (m.kind = "controller") <=> (m.node = Controller)
    /\ MaxMessages \in Nat /\ MaxResets \in Nat
    /\ MaxAttempts \in Nat \ {0} /\ MaxQueueAttempts \in Nat \ {0}
    /\ Events \subseteq {"premature", "expire", "busy", "removal"}

Queues == {"immediate", "normal"}
CanSleep(n) == NodeKind[n] # "listening"

(* MessagePriority: a lower number is more urgent.                         *)
WakeUp == 5
Priority(m) ==
    CASE m.kind = "controller" -> 1
      [] m.kind = "report"     -> 2
      [] m.kind = "ping"       -> 4
      [] OTHER -> IF NodeKind[m.node] = "sleeping" THEN WakeUp ELSE 6

QueueOf(m) == IF m.kind = "report" THEN "immediate" ELSE "normal"

(* maxSendAttempts of a message.                                           *)
Attempts(m) == IF m.kind = "noMoreInformation" THEN 1 ELSE MaxAttempts

(* mayMoveToWakeupQueue                                                    *)
MayMove(m) == m.kind \notin {"ping", "report", "noMoreInformation"}

(* A transaction is numbered in the order of creation.  Its clones share   *)
(* its promise and its message generator; orig tells the object            *)
(* sendMessage created from its clones.                                    *)
Transaction == [t : Nat, msg : Messages, prio : 0..6, orig : BOOLEAN]
NoTransaction == [t |-> 0]

VARIABLES
    promise,    \* Transaction.promise of every transaction created so far
    started,    \* whether parts.self is set: the generator is suspended or runs
    thread,     \* each queue with the loop that drains it
    serial,     \* the threads that wait for a Serial API command, in order
    status,     \* NodeStatus; "removed" nodes are not in controller.nodes
    delayed,    \* requeueTimers: what delayTransactionsForNode took away
    goodNight,  \* the transaction sendNoMoreInformation waits for, 0 if none
    resets,     \* restarts of the controller so far
    \* history
    expired     \* transactions whose expiration timer elapsed

vars == <<promise, started, thread, serial, status, delayed, goodNight, resets,
          expired>>

Idle == [list |-> <<>>, active |-> NoTransaction, phase |-> "idle",
         sent |-> 0, unsent |-> 0]

Init ==
    /\ promise = <<>> /\ started = <<>>
    /\ thread = [q \in Queues |-> Idle]
    /\ serial = <<>>
    /\ status = [n \in Node |-> IF CanSleep(n) THEN "asleep" ELSE "unknown"]
    /\ delayed = [n \in Node |-> <<>>]
    /\ goodNight = [n \in Node |-> 0]
    /\ resets = 0 /\ expired = {}
-----------------------------------------------------------------------------
(* The transaction queue.  st is the status of the nodes.                  *)

To(x, n)     == x.t # 0 /\ x.msg.node = n
Asleep(st, x) == x.msg.node # Controller /\ st[x.msg.node] = "asleep"

(* mayStartNextTransaction of the two queues.                              *)
MayStart(st, q, x) ==
    \/ q = "immediate"
    \/ x.msg.kind = "ping"
    \/ ~Asleep(st, x)
    \/ NodeKind[x.msg.node] = "manual"

(* Mutant of Before: a transaction for a sleeping node keeps its place.    *)
BeforeByPriority(st, x, y) ==
    x.prio < y.prio \/ (x.prio = y.prio /\ x.t < y.t)

(* Transaction.compareTo                                                   *)
Before(st, x, y) ==
    IF WakeUp \in {x.prio, y.prio} /\ Asleep(st, x) # Asleep(st, y)
      THEN Asleep(st, y)
      ELSE x.prio < y.prio \/ (x.prio = y.prio /\ x.t < y.t)

Inserted(st, list, x) ==
    InsertAt(list, Min({i \in DOMAIN list : Before(st, x, list[i])}
                         \cup {Len(list) + 1}), x)

(* xs are inserted one after the other.                                    *)
InsertedAll(st, list, xs) ==
    LET after[i \in 0..Len(xs)] ==
          IF i = 0 THEN list ELSE Inserted(st, after[i - 1], xs[i])
    IN  after[Len(xs)]

(* TransactionQueue.trigger: a loop that waits for work gets the first     *)
(* transaction if that one may start.                                      *)
Triggered(st, q, th) ==
    IF th.phase = "idle" /\ th.list # <<>> /\ MayStart(st, q, Head(th.list))
      THEN [th EXCEPT !.list = Tail(@), !.active = Head(th.list), !.phase = "starting"]
      ELSE th

Added(st, q, th, xs) ==
    Triggered(st, q,
      [th EXCEPT !.list = InsertedAll(st, @, xs)])

Active(th) == IF th.active.t = 0 THEN <<>> ELSE <<th.active>>
Clone(x) == [x EXCEPT !.orig = FALSE]

(* reduceQueue: transactions that are dropped leave the list, transactions *)
(* that are requeued -- the active one, too -- are replaced by a clone.    *)
(* The loop goes on with the active one.  prio gives the transactions to   *)
(* requeue their new priority.                                             *)
Reduced(st, q, th, drop, prio) ==
    LET kept   == Only(th.list, ToSet(th.list) \ (drop \cup DOMAIN prio))
        again  == Only(th.list \o Active(th), DOMAIN prio)
        clones == [i \in DOMAIN again |->
                     [Clone(again[i]) EXCEPT !.prio = prio[again[i]]]]
    IN  Added(st, q, Triggered(st, q, [th EXCEPT !.list = kept]), clones)

(* The transactions reduceQueues visits, and those for one node.           *)
Visited(ths) == UNION {ToSet(ths[q].list \o Active(ths[q])) : q \in Queues}
Found(ths, n) == {x \in Visited(ths) : To(x, n)}
Numbers(S) == {x.t : x \in S}

(* Mutant of Done: finalizeTransaction keeps the transaction.              *)
DoneUnfinalized(th) == [th EXCEPT !.phase = "idle", !.sent = 0, !.unsent = 0]

(* The loop is done with its transaction.                                  *)
Done(th) == [th EXCEPT !.active = NoTransaction, !.phase = "idle",
                       !.sent = 0, !.unsent = 0]
-----------------------------------------------------------------------------
(* Settling transactions.                                                  *)

(* The generator runs: it waits for a report of the node.  What is thrown  *)
(* into it then has no effect, it settles the promise itself.              *)
Runs(t) == started[t] /\ \E q \in Queues : thread[q].active.t = t
                                           /\ thread[q].phase = "awaitingUpdate"

Settle(p, S, v) == [t \in DOMAIN p |-> IF t \in S /\ p[t] = "pending" THEN v ELSE p[t]]
Unset(g, S) == [t \in DOMAIN g |-> g[t] /\ t \notin S]

(* Transaction.abort of some transactions: an error rejects, a result      *)
(* resolves.                                                               *)
Abort(S, v) ==
    LET T == {t \in S : ~Runs(t)}
    IN  promise' = Settle(promise, T, v) /\ started' = Unset(started, T)

(* A command of the transaction a thread works on joins the Serial API     *)
(* queue.                                                                  *)
Sends(q, s) == serial' = Append(s, q)

(* rejectTransactions: queued and active transactions are aborted.         *)
Rejected(st, ths, S) == [q \in Queues |-> Reduced(st, q, ths[q], S, <<>>)]

(* moveMessagesToWakeupQueue                                               *)
Movable(ths, n) == {x \in Found(ths, n) : MayMove(x.msg)}
Parked(st, ths, n) ==
    [q \in Queues |-> Reduced(st, q, ths[q],
        Found(ths, n) \ Movable(ths, n), [x \in Movable(ths, n) |-> WakeUp])]

(* The transactions that are aborted by this, and those whose generator is *)
(* reset "so it doesn't simply resolve to undefined".                      *)
Dropped(ths, n) == {t \in Numbers(Found(ths, n) \ Movable(ths, n)) : ~Runs(t)}

(* Mutant of Moved: the generators are not reset.                          *)
NothingMoved(ths, n) == {}

Moved(ths, n) == Numbers(Movable(ths, n))

Pings(ths, n) == {x \in Found(ths, n) : x.msg.kind = "ping"}

(* Mutant of Woken: what was queued for the node stays where it is.        *)
WokenInPlace(st, ths, n) ==
    [q \in Queues |-> Reduced(st, q, ths[q], Pings(ths, n), <<>>)]

(* Mutant of Woken: the loops that wait for work are not triggered.        *)
WokenSilently(st, ths, n) ==
    [q \in Queues |-> [ths[q] EXCEPT
        !.list = Only(@, ToSet(@) \ Pings(ths, n))]]

(* Mutant of Woken: pings are resolved but not removed from the queue.     *)
WokenWithPings(st, ths, n) ==
    [q \in Queues |-> Reduced(st, q, ths[q], {},
        [x \in Found(ths, n) \ Pings(ths, n) |-> x.prio])]

(* onNodeWakeUp, when the node was asleep before: pings are resolved, all  *)
(* other transactions for the node are queued again.                       *)
Woken(st, ths, n) ==
    [q \in Queues |-> Reduced(st, q, ths[q], Pings(ths, n),
        [x \in Found(ths, n) \ Pings(ths, n) |-> x.prio])]
-----------------------------------------------------------------------------
(* sendMessage and the loops.                                              *)

Enqueue(m) ==
    LET x == [t |-> Len(promise) + 1, msg |-> m, prio |-> Priority(m), orig |-> TRUE]
    IN  /\ Len(promise) < MaxMessages
        /\ promise' = Append(promise, "pending")
        /\ started' = Append(started, FALSE)
        /\ thread' = [thread EXCEPT ![QueueOf(m)] = Added(status, QueueOf(m), @, <<x>>)]

SendMessage(m) ==
    /\ m.kind # "noMoreInformation"
    /\ m.kind # "controller" => status[m.node] # "removed"
    /\ Enqueue(m)
    /\ UNCHANGED <<serial, status, delayed, goodNight, resets, expired>>

(* executeTransaction starts the generator and sends its first message.  A *)
(* generator that was started before continues as if that was done already. *)
Start(q) ==
    /\ thread[q].phase = "starting"
    /\ LET t == thread[q].active.t IN
         IF ~started[t]
           THEN /\ started' = [started EXCEPT ![t] = TRUE]
                /\ thread' = [thread EXCEPT ![q].phase = "sending"]
                /\ Sends(q, serial)
                /\ UNCHANGED promise
           ELSE /\ Abort({t}, "resolved")
                /\ thread' = [thread EXCEPT ![q] = Triggered(status, q, Done(@))]
                /\ UNCHANGED serial
    /\ UNCHANGED <<status, delayed, goodNight, resets, expired>>

(* The command of a thread is the one the Serial API queue finishes next.  *)
HasResult(q) == thread[q].phase = "sending" /\ Head(serial) = q

(* The command succeeded: handleSerialAPICommandResult updates the status  *)
(* of the node, then the generator returns or waits for a report.  A       *)
(* generator that was reset or aborted meanwhile has nothing more to say.  *)
Succeeds(q) ==
    /\ HasResult(q) /\ serial' = Tail(serial)
    /\ LET x      == thread[q].active
           n      == x.msg.node
           known  == n # Controller /\ status[n] # "removed"
           wakes  == known /\ CanSleep(n) /\ x.msg.kind # "report" /\ status[n] = "asleep"
           st     == IF wakes THEN [status EXCEPT ![n] = "awake"]
                     ELSE IF known /\ ~CanSleep(n) THEN [status EXCEPT ![n] = "alive"]
                     ELSE status
           ths    == IF wakes THEN Woken(st, thread, n) ELSE thread
           pings  == IF wakes THEN Numbers(Pings(thread, n)) ELSE {}
           waits  == x.msg.kind = "get"
           solved == pings \cup (IF waits THEN {} ELSE {x.t})
       IN IF started[x.t]
            THEN /\ status' = st
                 /\ thread' = [ths EXCEPT ![q] =
                      IF waits THEN [@ EXCEPT !.phase = "awaitingUpdate"]
                               ELSE Triggered(st, q, Done(@))]
                 /\ promise' = Settle(promise, solved, "resolved")
                 /\ started' = Unset(started, solved)
            ELSE /\ thread' = [thread EXCEPT ![q] = Triggered(status, q, Done(@))]
                 /\ UNCHANGED <<status, promise, started>>
    /\ UNCHANGED <<delayed, goodNight, resets, expired>>

(* finalizeTransaction, and later the loop asking for the next one.        *)
Finalized(q) == [thread EXCEPT ![q] = [Done(@) EXCEPT !.phase = "failed"]]
Listening(st, ths, q) ==
    [ths EXCEPT ![q] = Triggered(st, q, [@ EXCEPT !.phase = "idle"])]

(* rejectTransaction                                                       *)
RejectActive(q) ==
    /\ thread' = Listening(status, Finalized(q), q)
    /\ Abort({thread[q].active.t}, "rejected")
    /\ UNCHANGED status

(* Mutant of Readded: the transaction is not added again.                  *)
NotReadded(q) == Finalized(q)

(* There is no longer a reference to the failed transaction: it is added   *)
(* to the normal queue again before the messages of its node are moved.    *)
Readded(q) ==
    LET x == thread[q].active IN
    IF MayMove(x.msg)
      THEN [Finalized(q) EXCEPT !["normal"] = Added(status, "normal", @, <<x>>)]
      ELSE Finalized(q)

(* handleMissingNodeACK for a node that can sleep: it falls asleep and its *)
(* messages, this one too, are moved to the wake-up queue.                 *)
SleepingNodeMissing(q) ==
    LET x    == thread[q].active
        n    == x.msg.node
        st   == [status EXCEPT ![n] = "asleep"]
        ths  == Readded(q)
        drop == Dropped(ths, n) \cup (IF MayMove(x.msg) THEN {} ELSE {x.t})
    IN  /\ status' = st
        /\ thread' = Listening(st, Parked(st, ths, n), q)
        /\ promise' = Settle(promise, drop, "rejected")
        /\ started' = Unset(started, drop \cup Moved(ths, n))

(* Mutant of ListeningNodeMissing: the node's other messages stay queued.  *)
OnlyActiveRejected(q) ==
    /\ status' = [status EXCEPT ![thread[q].active.msg.node] = "dead"]
    /\ thread' = Listening(status', Finalized(q), q)
    /\ Abort({thread[q].active.t}, "rejected")

(* handleMissingNodeACK for any other node: it is dead, and all its        *)
(* messages are rejected.                                                  *)
ListeningNodeMissing(q) ==
    LET x   == thread[q].active
        n   == x.msg.node
        st  == [status EXCEPT ![n] = "dead"]
        ths == Finalized(q)
    IN  /\ status' = st
        /\ thread' = Listening(st, Rejected(st, ths, Found(ths, n)), q)
        /\ Abort(Numbers(Found(ths, n)) \cup {x.t}, "rejected")

(* The node did not acknowledge the command: it is sent again at once, or  *)
(* the transaction fails.                                                  *)
NotAcknowledged(q) ==
    LET x == thread[q].active
        n == x.msg.node
    IN  /\ HasResult(q) /\ n # Controller
        /\ IF thread[q].sent + 1 < Attempts(x.msg)
             THEN /\ thread' = [thread EXCEPT ![q].sent = @ + 1]
                  /\ Sends(q, Tail(serial))
                  /\ UNCHANGED <<promise, started, status>>
             ELSE /\ serial' = Tail(serial)
                  /\ IF status[n] \in {"removed", "asleep"} THEN RejectActive(q)
                     ELSE IF CanSleep(n) THEN SleepingNodeMissing(q)
                     ELSE ListeningNodeMissing(q)
        /\ UNCHANGED <<delayed, goodNight, resets, expired>>

(* The controller could not queue a SendData command.                      *)
NotSent(q) ==
    /\ HasResult(q) /\ thread[q].active.msg.node # Controller
    /\ serial' = Tail(serial)
    /\ IF thread[q].unsent + 1 < MaxQueueAttempts
         THEN /\ thread' = [thread EXCEPT ![q].phase = "waiting", ![q].unsent = @ + 1]
              /\ UNCHANGED <<promise, started, status>>
         ELSE RejectActive(q)
    /\ UNCHANGED <<delayed, goodNight, resets, expired>>

WaitEnds(q) ==
    /\ thread[q].phase = "waiting"
    /\ thread' = [thread EXCEPT ![q].phase = "sending"]
    /\ Sends(q, serial)
    /\ UNCHANGED <<promise, started, status, delayed, goodNight, resets, expired>>

(* The command was dropped, or a command to the controller failed: the     *)
(* transaction is rejected at once.                                        *)
Fails(q) ==
    /\ HasResult(q)
    /\ serial' = Tail(serial)
    /\ RejectActive(q)
    /\ UNCHANGED <<delayed, goodNight, resets, expired>>

(* The controller restarted while it worked on the command.                *)
ControllerReset(q) ==
    /\ HasResult(q) /\ resets < MaxResets
    /\ resets' = resets + 1
    /\ serial' = Tail(serial)
    /\ LET x == thread[q].active IN
         /\ started' = Unset(started, {x.t})
         /\ thread' = Listening(status,
              [Finalized(q) EXCEPT ![q] = Added(status, q, @, <<Clone(x)>>)], q)
    /\ UNCHANGED <<promise, status, delayed, goodNight, expired>>
-----------------------------------------------------------------------------
(* What the nodes do.                                                      *)

(* handleRequest: whatever a dead node sends brings it back to life.       *)
Heard(n) == IF status[n] = "dead" THEN [status EXCEPT ![n] = "alive"] ELSE status

NodeSpeaks(n) ==
    /\ status[n] = "dead" /\ status' = Heard(n)
    /\ UNCHANGED <<promise, started, thread, serial, delayed, goodNight, resets,
                   expired>>

(* The wait for a report ends, with the report or without.                 *)
WaitForUpdateEnds(q, v) ==
    LET t == thread[q].active.t IN
    /\ thread[q].phase = "awaitingUpdate"
    /\ promise' = Settle(promise, {t}, v)
    /\ started' = Unset(started, {t})
    /\ thread' = [thread EXCEPT ![q] = Triggered(status, q, Done(@))]
    /\ UNCHANGED <<serial, delayed, goodNight, resets, expired>>

UpdateArrives(q) ==
    /\ WaitForUpdateEnds(q, "resolved")
    /\ status[thread[q].active.msg.node] # "removed"
    /\ status' = Heard(thread[q].active.msg.node)

UpdateTimeout(q) == WaitForUpdateEnds(q, "rejected") /\ UNCHANGED status

(* The report arrives before the controller reports that the request was   *)
(* transmitted: handleRequest aborts the transmission and the transaction. *)
PrematureUpdate ==
    LET x == thread["normal"].active IN
    /\ "premature" \in Events
    /\ thread["normal"].phase \in {"sending", "waiting"}
    /\ x.msg.kind = "get" /\ status[x.msg.node] # "removed" /\ promise[x.t] = "pending"
    /\ Abort({x.t}, "resolved")
    /\ status' = Heard(x.msg.node)
    /\ UNCHANGED <<thread, serial, delayed, goodNight, resets, expired>>

(* A Wake Up notification.                                                 *)
NodeWakes(n) ==
    LET st == [status EXCEPT ![n] = "awake"] IN
    /\ status[n] = "asleep"
    /\ status' = st
    /\ thread' = Woken(st, thread, n)
    /\ Abort(Numbers(Pings(thread, n)), "resolved")
    /\ UNCHANGED <<serial, delayed, goodNight, resets, expired>>

(* A node information frame resolves the ping that is being sent.          *)
NodeInfoReceived(n) ==
    LET S == {t \in {thread[q].active.t : q \in Queues} :
                \E q \in Queues : /\ thread[q].active.t = t
                                  /\ To(thread[q].active, n)
                                  /\ thread[q].active.msg.kind = "ping"
                                  /\ thread[q].phase # "starting"}
    IN  /\ S # {} /\ status[n] # "removed"
        /\ Abort(S, "resolved")
        /\ status' = Heard(n)
        /\ UNCHANGED <<thread, serial, delayed, goodNight, resets, expired>>

(* debounceSendNodeToSleep: a node without pending messages is told that   *)
(* it may sleep again, and sendNoMoreInformation waits for that.           *)
SendToSleep(n) ==
    LET m == [kind |-> "noMoreInformation", node |-> n] IN
    /\ m \in Messages /\ NodeKind[n] = "sleeping"
    /\ status[n] = "awake" /\ goodNight[n] = 0
    /\ \A i \in DOMAIN thread["normal"].list : ~To(thread["normal"].list[i], n)
    /\ \A q \in Queues : ~To(thread[q].active, n)
    /\ Enqueue(m)
    /\ goodNight' = [goodNight EXCEPT ![n] = Len(promise) + 1]
    /\ UNCHANGED <<serial, status, delayed, resets, expired>>

(* sendNoMoreInformation continues: the node is marked as asleep, whatever *)
(* became of the message.                                                  *)
FallAsleep(n) ==
    LET st == [status EXCEPT ![n] = "asleep"] IN
    /\ goodNight[n] # 0 /\ promise[goodNight[n]] # "pending"
    /\ goodNight' = [goodNight EXCEPT ![n] = 0]
    /\ IF status[n] = "awake"
         THEN /\ status' = st
              /\ thread' = Parked(st, thread, n)
              /\ promise' = Settle(promise, Dropped(thread, n), "rejected")
              /\ started' = Unset(started, Dropped(thread, n) \cup Moved(thread, n))
         ELSE UNCHANGED <<status, thread, promise, started>>
    /\ UNCHANGED <<serial, delayed, resets, expired>>

(* The expiration timer of sendMessage.                                    *)
Expire(t) ==
    LET S == {x \in Visited(thread) : x.t = t /\ x.orig} IN
    /\ "expire" \in Events /\ promise[t] = "pending" /\ t \notin expired
    /\ expired' = expired \cup {t}
    /\ thread' = Rejected(status, thread, S)
    /\ Abort(Numbers(S), "rejected")
    /\ UNCHANGED <<serial, status, delayed, goodNight, resets>>

(* An Application Busy command: delayTransactionsForNode takes the queued  *)
(* transactions away.  One such timer per node is enough to interfere.     *)
NodeBusy(n) ==
    LET found  == Found(thread, n)
        queued == Only(thread["immediate"].list \o thread["normal"].list, found)
    IN  /\ "busy" \in Events /\ status[n] # "removed"
        /\ delayed[n] = <<>> /\ queued # <<>>
        /\ delayed' = [delayed EXCEPT ![n] = queued]
        /\ thread' = [q \in Queues |-> Triggered(status, q,
                        [thread[q] EXCEPT !.list = Only(@, ToSet(@) \ found)])]
        /\ UNCHANGED <<promise, started, serial, status, goodNight, resets, expired>>

(* The timer elapses: clones are queued.                                   *)
DelayEnds(n) ==
    LET clones == [i \in DOMAIN delayed[n] |-> Clone(delayed[n][i])] IN
    /\ delayed[n] # <<>>
    /\ delayed' = [delayed EXCEPT ![n] = <<>>]
    /\ thread' = [q \in Queues |-> Added(status, q, thread[q],
                    Only(clones, {x \in ToSet(clones) : QueueOf(x.msg) = q}))]
    /\ UNCHANGED <<promise, started, serial, status, goodNight, resets, expired>>

(* onNodeRemoved                                                           *)
NodeRemoved(n) ==
    /\ "removal" \in Events /\ status[n] # "removed"
    /\ status' = [status EXCEPT ![n] = "removed"]
    /\ delayed' = [delayed EXCEPT ![n] = <<>>]
    /\ thread' = Rejected(status', thread, Found(thread, n))
    /\ Abort(Numbers(Found(thread, n)), "rejected")
    /\ UNCHANGED <<serial, goodNight, resets, expired>>
-----------------------------------------------------------------------------
Result(q) == Succeeds(q) \/ NotAcknowledged(q) \/ NotSent(q) \/ Fails(q)
             \/ ControllerReset(q)

Loop(q) == Start(q) \/ Result(q) \/ WaitEnds(q) \/ UpdateArrives(q) \/ UpdateTimeout(q)

Next ==
    \/ \E m \in Messages : SendMessage(m)
    \/ \E q \in Queues : Loop(q)
    \/ \E n \in Node : \/ NodeSpeaks(n) \/ NodeWakes(n) \/ NodeInfoReceived(n)
                       \/ SendToSleep(n) \/ FallAsleep(n)
                       \/ NodeBusy(n) \/ DelayEnds(n) \/ NodeRemoved(n)
    \/ PrematureUpdate
    \/ \E t \in DOMAIN promise : Expire(t)

Spec == Init /\ [][Next]_vars

(* The event loop runs continuations and timers, and the Serial API queue  *)
(* finishes every command (SerialAPICommand!EveryCommandSettles).  Nothing *)
(* is assumed of the nodes.                                                *)
FairSpec ==
    /\ Spec
    /\ \A q \in Queues : WF_vars(Loop(q))
    /\ \A n \in Node : WF_vars(DelayEnds(n)) /\ WF_vars(FallAsleep(n))
-----------------------------------------------------------------------------
(* Properties.                                                             *)

Copies == Visited(thread) \cup UNION {ToSet(delayed[n]) : n \in Node}

(* Type invariant.                                                         *)
TypeOK ==
    /\ promise \in Seq({"pending", "resolved", "rejected"})
    /\ started \in Seq(BOOLEAN) /\ Len(started) = Len(promise)
    /\ Copies \subseteq Transaction
    /\ \A q \in Queues :
         /\ thread[q].phase \in {"idle", "starting", "sending", "waiting", "awaitingUpdate"}
         /\ thread[q].phase = "idle" <=> thread[q].active = NoTransaction
         /\ thread[q].sent \in 0..MaxAttempts /\ thread[q].unsent \in 0..MaxQueueAttempts
         /\ thread[q].phase = "sending" <=> \E i \in DOMAIN serial : serial[i] = q
    /\ Len(serial) <= 2
    /\ status \in [Node -> {"unknown", "asleep", "awake", "dead", "alive", "removed"}]
    /\ goodNight \in [Node -> 0..MaxMessages] /\ resets \in 0..MaxResets
    /\ expired \subseteq DOMAIN promise

(* No transaction is forgotten: whoever waits for the promise of           *)
(* sendMessage waits for a transaction that is queued, active or delayed.  *)
PendingIsOwned ==
    \A t \in DOMAIN promise : promise[t] = "pending" => \E x \in Copies : x.t = t

(* "If the first message is for a sleeping node, all messages in the queue *)
(* are" (mayStartTransaction): a message that may be sent is never stuck   *)
(* behind one that may not.                                                *)
HeadOfLine ==
    \A q \in Queues : LET l == thread[q].list IN
      \A i \in DOMAIN l : MayStart(status, q, l[i]) => MayStart(status, q, l[1])

(* The queues stay sorted although the order of two transactions depends   *)
(* on the status of their nodes, which changes while they are queued.      *)
QueueSorted ==
    \A q \in Queues : LET l == thread[q].list IN
      \A i, j \in DOMAIN l : i < j => ~Before(status, l[j], l[i])

(* A transaction that starts has a fresh generator: one that was already   *)
(* started would "simply resolve to undefined when we attempt to continue  *)
(* it" (moveMessagesToWakeupQueue), without anything being sent.           *)
StartsAfresh ==
    \A q \in Queues : thread[q].phase = "starting" => ~started[thread[q].active.t]

(* A settled transaction is handled: it does not stay in a queue, from     *)
(* where it would be sent after its caller got a result.                   *)
HandledWhenSettled ==
    \A q \in Queues : \A i \in DOMAIN thread[q].list :
      promise[thread[q].list[i].t] = "pending"

(* When a node is found dead, every message for it is rejected, except     *)
(* those that are delayed or wait for a report (handleMissingNodeACK).     *)
DeathRejectsAll ==
    [][\A n \in Node : status[n] # "dead" /\ status'[n] = "dead" =>
         \A q \in Queues : \A x \in ToSet(thread[q].list \o Active(thread[q])) :
           To(x, n) => promise'[x.t] # "pending" \/ Runs(x.t)]_vars

(* Every message is settled or waits for a node to wake up, unless nodes   *)
(* say again and again that they are busy: nothing else keeps it queued.   *)
Pending(t) == t \in DOMAIN promise /\ promise[t] = "pending"
Waits(t) == \E q \in Queues : \E i \in DOMAIN thread[q].list :
              thread[q].list[i].t = t /\ Asleep(status, thread[q].list[i])
EveryMessageSettlesOrWaits ==
    <>[][\A n \in Node : ~NodeBusy(n)]_vars =>
      \A t \in 1..MaxMessages : Pending(t) ~> (~Pending(t) \/ Waits(t))
=============================================================================
