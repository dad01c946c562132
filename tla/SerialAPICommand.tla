-------------------------- MODULE SerialAPICommand --------------------------
(***************************************************************************)
(* Execution of Serial API commands: Driver.drainSerialAPIQueue takes the  *)
(* commands of an AsyncQueue one after the other and steps each of them    *)
(* through the machine of SerialAPICommandMachine.ts while the Z-Wave      *)
(* controller on the other side of the serial line answers, answers late,  *)
(* answers something else, or does not answer at all.                      *)
(*                                                                         *)
(* One step of the model is what the driver does in reaction to one event  *)
(* of the JavaScript event loop (a frame, a timer, a call), with all the   *)
(* promise continuations that run before the next event.                   *)
(***************************************************************************)
EXTENDS Naturals, Sequences, SequencesExt

CONSTANTS
    Cmd,          \* the items put on the queue; each is queued once
    NoCmd,        \* the loop executes no command
    Kind,         \* [Cmd -> Kinds]: what kind of message a command is
    MaxAttempts,  \* how often a command that collides is sent (3 in the code)
    MaxAborts,    \* bound: SendDataAborts that wait for their ACK at a time
    MaxResets,    \* bound: spontaneous restarts of the controller
    MaxWire,      \* bound: frames from the controller that are not yet handled
    MayDestroy    \* whether Driver.destroy is called

(* The messages the driver sends differ in what they expect in return.     *)
Kinds == {"noAck",             \* StartWatchdog, EnterBootloader
          "ackOnly",           \* SoftReset
          "response",          \* GetControllerVersion
          "callback",          \* RequestNodeNeighborUpdate: several callbacks
          "responseCallback",  \* RemoveFailedNode
          "sendData"}          \* SendData and its variants

ASSUME ConstantsAssumption ==
    /\ NoCmd \notin Cmd
    /\ Kind \in [Cmd -> Kinds]
    /\ MaxAttempts \in Nat \ {0}
    /\ MaxAborts \in Nat /\ MaxResets \in Nat /\ MaxWire \in Nat
    /\ MayDestroy \in BOOLEAN

ExpectsAck(c)      == Kind[c] # "noAck"
ExpectsResponse(c) == Kind[c] \in {"response", "responseCallback", "sendData"}
ExpectsCallback(c) == Kind[c] \in {"callback", "responseCallback", "sendData"}
IsSendData(c)      == Kind[c] = "sendData"

(* How the promise of a command can settle.  "ok" and "NOK report" resolve *)
(* it, the latter with a SendData callback that reports a failure; all the *)
(* others reject it.                                                       *)
Outcome == {"ok", "NOK report", "ACK timeout", "CAN", "NAK", "response timeout",
            "response NOK", "callback timeout", "callback NOK",
            "not sent", "dropped", "destroyed", "reset"}

VARIABLES
    \* the driver
    outcome,    \* the promise of each command: "none" until it is queued
    backlog,    \* AsyncQueue.backlog
    ended,      \* AsyncQueue.ended
    pc,         \* where the drain loop stands; machine.state while it executes
    cur,        \* the item the drain loop works on
    attempt,    \* its attempt
    timedOut,   \* machine.state.responseTimedOut
    abortDue,   \* sendDataAbortTimeout is armed
    abort,      \* the promise abortSerialAPICommand
    waiters,    \* awaitedMessageHeaders: who waits for an ACK, NAK or CAN
    timer,      \* the timer of the current wait is armed
    down,       \* Driver.destroy closed the port and cleared the timers
    \* the serial line and the controller
    wire,       \* frames on their way to the driver, oldest first
    job,        \* what the controller still has to do for a command
    resets,     \* how often the controller restarted by itself
    \* history
    missed,     \* commands whose response timed out
    answered,   \* commands to which the controller sent an answer that ends them
    resent,     \* commands sent again after a collision
    ignored     \* commands queued after the queue was closed

driverVars == <<outcome, backlog, ended, pc, cur, attempt, timedOut, abortDue,
                abort, waiters, timer, down>>
history == <<missed, answered, resent, ignored>>
vars == <<driverVars, wire, job, resets, history>>

PC == {"listening", "sending", "waitingForACK", "waitingForResponse",
       "waitingForCallback", "backoff", "returned"}
Jobs == {"idle", "accepted", "responded", "progressed"}
Headers == {"ACK", "NAK", "CAN"}
Frame == [type : Headers \cup {"started"}]
         \cup [type : {"response"}, cmd : Cmd, ok : BOOLEAN]
         \cup [type : {"callback"}, cmd : Cmd, ok : BOOLEAN, final : BOOLEAN]

Init ==
    /\ outcome = [c \in Cmd |-> "none"]
    /\ backlog = <<>> /\ ended = FALSE
    /\ pc = "listening" /\ cur = NoCmd /\ attempt = 0
    /\ timedOut = FALSE /\ abortDue = FALSE /\ abort = "unset"
    /\ waiters = <<>> /\ timer = FALSE /\ down = FALSE
    /\ wire = <<>> /\ job = [c \in Cmd |-> "idle"] /\ resets = 0
    /\ missed = {} /\ answered = {} /\ resent = {} /\ ignored = {}
-----------------------------------------------------------------------------
(* The serial line and the controller.                                     *)

(* What the controller replies to a frame of the driver: nothing reaches   *)
(* the driver when the frame or its ACK is lost, NAK answers a corrupted   *)
(* frame, CAN a frame that collided with one of the controller.            *)
Reply == {"ACK", "NAK", "CAN", "ACK lost", "frame lost"}

Accepts(r) == r \in {"ACK", "ACK lost"}

Replied(w, r) == IF r \in Headers THEN Append(w, [type |-> r]) ELSE w

(* A closed port transmits nothing and the receive buffer is finite.       *)
MayReply(r) == /\ down => r = "frame lost"
               /\ r \in Headers => Len(wire) < MaxWire

(* The controller sends the response of a command it accepted.             *)
ControllerResponds(c) ==
    /\ job[c] = "accepted" /\ ExpectsResponse(c) /\ Len(wire) < MaxWire
    /\ \E ok \in BOOLEAN :
         /\ wire' = Append(wire, [type |-> "response", cmd |-> c, ok |-> ok])
         /\ job' = [job EXCEPT ![c] = IF ok /\ ExpectsCallback(c)
                                        THEN "responded" ELSE "idle"]
         /\ answered' = IF ok /\ ~ExpectsCallback(c) THEN answered \cup {c}
                                                     ELSE answered
    /\ UNCHANGED <<driverVars, resets, missed, resent, ignored>>

(* The controller sends a callback: the last one ends the job.  Only       *)
(* commands of kind "callback" report progress, and one such report stands *)
(* for any number.                                                         *)
ControllerCallsBack(c) ==
    /\ ExpectsCallback(c) /\ Len(wire) < MaxWire
    /\ job[c] \in {"responded", "progressed"}
         \/ (job[c] = "accepted" /\ ~ExpectsResponse(c))
    /\ \E ok \in BOOLEAN, final \in BOOLEAN :
         /\ ~final => ok /\ Kind[c] = "callback" /\ job[c] # "progressed"
         /\ wire' = Append(wire, [type |-> "callback", cmd |-> c, ok |-> ok,
                                  final |-> final])
         /\ job' = [job EXCEPT ![c] = IF final THEN "idle" ELSE "progressed"]
         /\ answered' = IF ok /\ final THEN answered \cup {c} ELSE answered
    /\ UNCHANGED <<driverVars, resets, missed, resent, ignored>>

(* The controller never answers, or its answer is lost on the line.        *)
ControllerForgets(c) ==
    /\ job[c] # "idle"
    /\ job' = [job EXCEPT ![c] = "idle"]
    /\ UNCHANGED <<driverVars, wire, resets, history>>

(* The controller restarts by itself and reports it (SerialAPIStarted).    *)
ControllerResets ==
    /\ resets < MaxResets /\ Len(wire) < MaxWire /\ ~down
    /\ resets' = resets + 1
    /\ job' = [c \in Cmd |-> "idle"]
    /\ wire' = Append(wire, [type |-> "started"])
    /\ UNCHANGED <<driverVars, history>>
-----------------------------------------------------------------------------
(* The driver: building blocks of its steps.                               *)

(* executeSerialAPICommand creates a machine and the promise used to abort *)
(* it, and hands the message to the serial port.                           *)
Execute(c, n) ==
    /\ pc' = "sending" /\ cur' = c /\ attempt' = n /\ abort' = "armed"

(* Mutant of NextItem: the newest item is taken first.                     *)
NewestItem ==
    \/ /\ backlog # <<>>
       /\ Execute(backlog[Len(backlog)], 1)
       /\ backlog' = SubSeq(backlog, 1, Len(backlog) - 1)
    \/ /\ backlog = <<>>
       /\ pc' = IF ended THEN "returned" ELSE "listening"
       /\ cur' = NoCmd /\ attempt' = 0 /\ abort' = "unset"
       /\ UNCHANGED backlog

(* The drain loop asks the AsyncQueue for the next item.                   *)
NextItem ==
    \/ /\ backlog # <<>>
       /\ Execute(Head(backlog), 1)
       /\ backlog' = Tail(backlog)
    \/ /\ backlog = <<>>
       /\ pc' = IF ended THEN "returned" ELSE "listening"
       /\ cur' = NoCmd /\ attempt' = 0 /\ abort' = "unset"
       /\ UNCHANGED backlog

(* The command is done: its promise settles and the loop moves on.         *)
Settle(o) ==
    /\ outcome' = [outcome EXCEPT ![cur] = o]
    /\ timedOut' = FALSE /\ abortDue' = FALSE /\ timer' = FALSE
    /\ NextItem

(* Mutant of Await: waiting for a callback has no timeout.                 *)
AwaitForever(state, late) ==
    /\ pc' = state /\ timer' = (state # "waitingForCallback") /\ timedOut' = late
    /\ abortDue' = (state = "waitingForCallback" /\ IsSendData(cur))
    /\ UNCHANGED <<outcome, backlog, cur, attempt, abort>>

(* The machine enters a state in which it waits for the controller.        *)
Await(state, late) ==
    /\ pc' = state /\ timer' = TRUE /\ timedOut' = late
    /\ abortDue' = (state = "waitingForCallback" /\ IsSendData(cur))
    /\ UNCHANGED <<outcome, backlog, cur, attempt, abort>>

(* abortSendData writes a SendDataAbort past the queue and waits for the   *)
(* ACK itself.                                                             *)
WriteAbort ==
    /\ waiters' = Append(waiters, "abort")
    /\ \E r \in Reply \ {"ACK lost"} : MayReply(r) /\ wire' = Replied(wire, r)

(* A frame that reached the driver.  The port delivers none when closed.   *)
Arrived(type) == wire # <<>> /\ Head(wire).type = type /\ ~down

Receive == wire' = Tail(wire) /\ UNCHANGED <<job, resets, history>>
-----------------------------------------------------------------------------
(* The driver: its steps.                                                  *)

(* queueSerialAPICommand: a waiting loop takes the command at once; a      *)
(* closed queue ignores it.                                                *)
Submit(c) ==
    /\ outcome[c] = "none"
    /\ outcome' = [outcome EXCEPT ![c] = "pending"]
    /\ \/ /\ ~ended /\ pc = "listening"
          /\ Execute(c, 1) /\ UNCHANGED <<backlog, ignored>>
       \/ /\ ~ended /\ pc # "listening"
          /\ backlog' = Append(backlog, c)
          /\ UNCHANGED <<pc, cur, attempt, abort, ignored>>
       \/ /\ ended
          /\ ignored' = ignored \cup {c}
          /\ UNCHANGED <<pc, cur, attempt, abort, backlog>>
    /\ UNCHANGED <<ended, timedOut, abortDue, waiters, timer, down, wire, job,
                   resets, missed, answered, resent>>

(* The message was written: "message sent".                                *)
MessageSent ==
    /\ pc = "sending"
    /\ \E r \in Reply :
         /\ MayReply(r)
         /\ ExpectsAck(cur) \/ r \in {"ACK lost", "frame lost"}
         /\ wire' = Replied(wire, r)
         /\ job' = IF Accepts(r) /\ (ExpectsResponse(cur) \/ ExpectsCallback(cur))
                     THEN [job EXCEPT ![cur] = "accepted"] ELSE job
    /\ IF ExpectsAck(cur)
         THEN Await("waitingForACK", FALSE) /\ waiters' = Append(waiters, "command")
         ELSE Settle("ok") /\ UNCHANGED waiters
    /\ UNCHANGED <<ended, down, resets, history>>

(* serialize or writeSerial throws: nothing was sent, and the command is   *)
(* rejected.                                                               *)
WriteFails ==
    /\ pc = "sending"
    /\ Settle("not sent")
    /\ UNCHANGED <<ended, waiters, down, wire, job, resets, history>>

(* A header goes to whoever has been waiting longest, and to nobody else.  *)
HeaderForAbort ==
    /\ \E h \in Headers : Arrived(h)
    /\ waiters # <<>> /\ Head(waiters) = "abort"
    /\ waiters' = Tail(waiters)
    /\ Receive
    /\ UNCHANGED <<outcome, backlog, ended, pc, cur, attempt, timedOut,
                   abortDue, abort, timer, down>>

HeaderForNobody ==
    /\ \E h \in Headers : Arrived(h)
    /\ waiters = <<>>
    /\ Receive
    /\ UNCHANGED driverVars

HeaderForCommand(h) ==
    /\ Arrived(h)
    /\ waiters # <<>> /\ Head(waiters) = "command"
    /\ waiters' = Tail(waiters)
    /\ Receive
    /\ UNCHANGED <<ended, down>>

AckArrives ==
    /\ HeaderForCommand("ACK")
    /\ IF ExpectsResponse(cur) THEN Await("waitingForResponse", FALSE)
       ELSE IF ExpectsCallback(cur) THEN Await("waitingForCallback", FALSE)
       ELSE Settle("ok")

NakArrives == HeaderForCommand("NAK") /\ Settle("NAK")

(* Only a command that collided is tried again, after a pause.             *)
CanArrives ==
    /\ HeaderForCommand("CAN")
    /\ IF attempt < MaxAttempts
         THEN /\ pc' = "backoff" /\ abort' = "unset" /\ timer' = FALSE
              /\ UNCHANGED <<outcome, backlog, cur, attempt, timedOut, abortDue>>
         ELSE Settle("CAN")

(* Mutant of BackoffEnds: the machine is created but never started.        *)
BackoffEndsIdle ==
    /\ pc = "backoff"
    /\ pc' = "initial" /\ attempt' = attempt + 1 /\ abort' = "armed"
    /\ resent' = resent \cup {cur}
    /\ UNCHANGED <<outcome, backlog, ended, cur, timedOut, abortDue, waiters,
                   timer, down, wire, job, resets, missed, answered, ignored>>

BackoffEnds ==
    /\ pc = "backoff"
    /\ Execute(cur, attempt + 1)
    /\ resent' = resent \cup {cur}
    /\ UNCHANGED <<outcome, backlog, ended, timedOut, abortDue, waiters, timer,
                   down, wire, job, resets, missed, answered, ignored>>

(* Mutant of AckTimeout: removeEntry is not called when the wait times out. *)
AckTimeoutKeepsEntry ==
    /\ pc = "waitingForACK" /\ timer
    /\ Settle("ACK timeout")
    /\ UNCHANGED <<ended, waiters, down, wire, job, resets, history>>

AckTimeout ==
    /\ pc = "waitingForACK" /\ timer
    /\ \E i \in DOMAIN waiters : /\ waiters[i] = "command"
                                 /\ waiters' = RemoveAt(waiters, i)
    /\ Settle("ACK timeout")
    /\ UNCHANGED <<ended, down, wire, job, resets, history>>

(* The wait for a response or a callback is raced against the abort of the *)
(* command, which wins when both are there.                                *)
Listens(state) == pc = state /\ abort = "armed"

(* Mutant of ResponseArrives: the callback is not awaited.                 *)
ResponseCompletes ==
    /\ Arrived("response") /\ Receive
    /\ LET r == Head(wire) IN
         IF Listens("waitingForResponse") /\ Kind[r.cmd] = Kind[cur]
           THEN Settle(IF r.ok THEN "ok" ELSE "response NOK")
           ELSE UNCHANGED <<outcome, backlog, pc, cur, attempt, timedOut,
                            abortDue, abort, timer>>
    /\ UNCHANGED <<ended, waiters, down>>

(* Mutant of ResponseArrives: the function type is not compared.           *)
AnyResponseArrives ==
    /\ Arrived("response") /\ Receive
    /\ LET r == Head(wire) IN
         IF Listens("waitingForResponse")
           THEN IF ~r.ok THEN Settle("response NOK")
                ELSE IF ExpectsCallback(cur) THEN Await("waitingForCallback", FALSE)
                ELSE Settle("ok")
           ELSE UNCHANGED <<outcome, backlog, pc, cur, attempt, timedOut,
                            abortDue, abort, timer>>
    /\ UNCHANGED <<ended, waiters, down>>

(* A response is matched by its function type alone.                       *)
ResponseArrives ==
    /\ Arrived("response") /\ Receive
    /\ LET r == Head(wire) IN
         IF Listens("waitingForResponse") /\ Kind[r.cmd] = Kind[cur]
           THEN IF ~r.ok THEN Settle("response NOK")
                ELSE IF ExpectsCallback(cur) THEN Await("waitingForCallback", FALSE)
                ELSE Settle("ok")
           ELSE UNCHANGED <<outcome, backlog, pc, cur, attempt, timedOut,
                            abortDue, abort, timer>>
    /\ UNCHANGED <<ended, waiters, down>>

(* Mutant of ResponseTimeout: the timeout is not remembered.               *)
ResponseTimeoutForgotten ==
    /\ Listens("waitingForResponse") /\ timer
    /\ missed' = missed \cup {cur}
    /\ IF IsSendData(cur)
         THEN WriteAbort /\ Await("waitingForCallback", FALSE)
         ELSE Settle("response timeout") /\ UNCHANGED <<waiters, wire>>
    /\ UNCHANGED <<ended, down, job, resets, answered, resent, ignored>>

(* A SendData command whose response times out is aborted and its callback *)
(* awaited nevertheless; any other command failed.                         *)
ResponseTimeout ==
    /\ Listens("waitingForResponse") /\ timer
    /\ missed' = missed \cup {cur}
    /\ IF IsSendData(cur)
         THEN WriteAbort /\ Await("waitingForCallback", TRUE)
         ELSE Settle("response timeout") /\ UNCHANGED <<waiters, wire>>
    /\ UNCHANGED <<ended, down, job, resets, answered, resent, ignored>>

(* Mutant of CallbackArrives: the callback id is not compared.             *)
AnyCallbackArrives ==
    /\ Arrived("callback") /\ Receive
    /\ LET r == Head(wire) IN
         IF Listens("waitingForCallback")
           THEN IF r.ok /\ r.final THEN Settle("ok")
                ELSE IF r.ok THEN Await("waitingForCallback", FALSE)
                ELSE IF timedOut THEN Settle("response timeout")
                ELSE Settle(IF IsSendData(cur) THEN "NOK report" ELSE "callback NOK")
           ELSE UNCHANGED <<outcome, backlog, pc, cur, attempt, timedOut,
                            abortDue, abort, timer>>
    /\ UNCHANGED <<ended, waiters, down>>

(* A callback is matched by its callback id, which is the command's own.   *)
CallbackArrives ==
    /\ Arrived("callback") /\ Receive
    /\ LET r == Head(wire) IN
         IF Listens("waitingForCallback") /\ r.cmd = cur
           THEN IF r.ok /\ r.final THEN Settle("ok")
                ELSE IF r.ok THEN Await("waitingForCallback", FALSE)
                ELSE IF timedOut THEN Settle("response timeout")
                ELSE Settle(IF IsSendData(cur) THEN "NOK report" ELSE "callback NOK")
           ELSE UNCHANGED <<outcome, backlog, pc, cur, attempt, timedOut,
                            abortDue, abort, timer>>
    /\ UNCHANGED <<ended, waiters, down>>

CallbackTimeout ==
    /\ Listens("waitingForCallback") /\ timer
    /\ Settle("callback timeout")
    /\ UNCHANGED <<ended, waiters, down, wire, job, resets, history>>

(* sendDataAbortTimeout elapses before the wait for the callback does.     *)
SendDataAbortTimeout ==
    /\ Listens("waitingForCallback") /\ abortDue
    /\ abortDue' = FALSE
    /\ WriteAbort
    /\ UNCHANGED <<outcome, backlog, ended, pc, cur, attempt, timedOut, abort,
                   timer, down, job, resets, history>>

(* The send thread gives up on the active transaction (reduceQueue) or has *)
(* its answer already (handleRequest).                                     *)
AbortFromOutside ==
    /\ Len(waiters) < MaxAborts
    /\ WriteAbort
    /\ UNCHANGED <<outcome, backlog, ended, pc, cur, attempt, timedOut, abortDue,
                   abort, timer, down, job, resets, history>>

(* The 500 ms abortSendData waits for its ACK are over: the oldest first.  *)
AbortWaitExpires ==
    /\ ~down
    /\ \E i \in DOMAIN waiters :
         /\ waiters[i] = "abort"
         /\ \A j \in 1..(i - 1) : waiters[j] # "abort"
         /\ waiters' = RemoveAt(waiters, i)
    /\ UNCHANGED <<outcome, backlog, ended, pc, cur, attempt, timedOut, abortDue,
                   abort, timer, down, wire, job, resets, history>>

(* handleSerialAPIStartedUnexpectedly aborts the command being executed.   *)
RestartReported ==
    /\ Arrived("started") /\ Receive
    /\ abort' = IF abort = "armed" THEN "reset" ELSE abort
    /\ UNCHANGED <<outcome, backlog, ended, pc, cur, attempt, timedOut,
                   abortDue, waiters, timer, down>>

(* The wait loses the race against the abort: the command fails with it.   *)
CommandAborted ==
    /\ pc \in {"waitingForResponse", "waitingForCallback"}
    /\ abort \in {"reset", "destroyed"}
    /\ Settle(abort)
    /\ UNCHANGED <<ended, waiters, down, wire, job, resets, history>>

(* Mutant of DestroyQueue: nobody disposes of the items of the backlog.    *)
DestroyQueueForgets ==
    /\ MayDestroy /\ ~ended
    /\ ended' = TRUE
    /\ backlog' = <<>>
    /\ pc' = IF pc = "listening" THEN "returned" ELSE pc
    /\ abort' = IF abort = "armed" THEN "destroyed" ELSE abort
    /\ UNCHANGED <<outcome, cur, attempt, timedOut, abortDue, waiters, timer, down,
                   wire, job, resets, history>>

(* destroySerialAPIQueue, first half of Driver.destroy: the AsyncQueue is  *)
(* aborted, which rejects the backlog and ends a loop that waits for work; *)
(* the command being executed is aborted.                                  *)
DestroyQueue ==
    /\ MayDestroy /\ ~ended
    /\ ended' = TRUE
    /\ outcome' = [c \in Cmd |-> IF c \in ToSet(backlog) THEN "dropped"
                                                         ELSE outcome[c]]
    /\ backlog' = <<>>
    /\ pc' = IF pc = "listening" THEN "returned" ELSE pc
    /\ abort' = IF abort = "armed" THEN "destroyed" ELSE abort
    /\ UNCHANGED <<cur, attempt, timedOut, abortDue, waiters, timer, down, wire,
                   job, resets, history>>

(* Second half: the port is closed and clearAllTimeouts clears the timers  *)
(* of all waits.  Waits that start later have a timer again.               *)
DestroyController ==
    /\ ended /\ ~down
    /\ ~(pc \in {"waitingForResponse", "waitingForCallback"} /\ abort # "armed")
    /\ down' = TRUE /\ timer' = FALSE /\ wire' = <<>>
    /\ UNCHANGED <<outcome, backlog, ended, pc, cur, attempt, timedOut, abortDue,
                   abort, waiters, job, resets, history>>
-----------------------------------------------------------------------------
Controller ==
    \/ \E c \in Cmd : \/ ControllerResponds(c)
                      \/ ControllerCallsBack(c)
                      \/ ControllerForgets(c)
    \/ ControllerResets

(* What the event loop delivers: frames in the order of their arrival.     *)
FrameArrives ==
    \/ HeaderForAbort \/ HeaderForNobody
    \/ AckArrives \/ NakArrives \/ CanArrives
    \/ ResponseArrives \/ CallbackArrives \/ RestartReported

(* What goes on by itself: continuations and timers of the drain loop.     *)
Progress ==
    \/ MessageSent \/ WriteFails \/ BackoffEnds \/ CommandAborted
    \/ AckTimeout \/ ResponseTimeout \/ CallbackTimeout

Next ==
    \/ \E c \in Cmd : Submit(c)
    \/ FrameArrives \/ Progress
    \/ SendDataAbortTimeout \/ AbortFromOutside \/ AbortWaitExpires
    \/ DestroyQueue \/ DestroyController
    \/ Controller

Spec == Init /\ [][Next]_vars

(* Node.js runs every continuation and fires every timer that was not      *)
(* cleared.  Nothing is assumed of the controller and the line.            *)
FairSpec == Spec /\ WF_vars(Progress) /\ WF_vars(DestroyController)
-----------------------------------------------------------------------------
(* Properties.                                                             *)

(* Type invariant of the drain loop, the line and the controller.          *)
LoopTypeOK ==
    /\ outcome \in [Cmd -> Outcome \cup {"none", "pending"}]
    /\ backlog \in Seq(Cmd)
    /\ pc \in PC /\ cur \in Cmd \cup {NoCmd} /\ attempt \in Nat
    /\ timedOut \in BOOLEAN /\ abortDue \in BOOLEAN /\ timer \in BOOLEAN
    /\ abort \in {"unset", "armed", "reset", "destroyed"}
LineTypeOK ==
    /\ ended \in BOOLEAN /\ down \in BOOLEAN
    /\ waiters \in Seq({"command", "abort"})
    /\ wire \in Seq(Frame) /\ job \in [Cmd -> Jobs] /\ resets \in Nat
    /\ missed \in SUBSET Cmd /\ answered \in SUBSET Cmd /\ resent \in SUBSET Cmd
    /\ ignored \in SUBSET Cmd
TypeOK == LoopTypeOK /\ LineTypeOK

(* The loop works on a command exactly while it neither listens nor has    *)
(* returned, nothing waits behind a listening loop, and what waits, waits  *)
(* once and is pending.                                                    *)
LoopAgrees ==
    /\ (cur = NoCmd) <=> pc \in {"listening", "returned"}
    /\ cur = NoCmd => backlog = <<>>
    /\ ended => backlog = <<>> /\ pc # "listening"
    /\ pc = "returned" => ended
    /\ cur # NoCmd => outcome[cur] = "pending"
    /\ \A i \in DOMAIN backlog : backlog[i] # cur /\ outcome[backlog[i]] = "pending"
    /\ \A i, j \in DOMAIN backlog : backlog[i] = backlog[j] => i = j

(* A command whose promise is pending is the current one or waits in the   *)
(* backlog, unless it was queued after the queue had been closed.          *)
NothingLost ==
    /\ \A c \in Cmd : outcome[c] = "pending" =>
         c = cur \/ c \in ToSet(backlog) \/ c \in ignored
    /\ ignored # {} => ended

(* The drain loop and the AsyncQueue agree (drainSerialAPIQueue,           *)
(* AsyncQueue.add, abort and next): every command that was queued in time  *)
(* and is pending is either executed or waits exactly once, and a loop     *)
(* that listens or has returned leaves nothing behind.                     *)
QueueConsistent == LoopAgrees /\ NothingLost

(* awaitedMessageHeaders holds one entry of the drain loop while the loop  *)
(* waits for an ACK and none otherwise, whatever abortSendData adds to and *)
(* removes from the same list (executeSerialAPICommand, abortSendData).    *)
OneHeaderWaiter ==
    /\ pc = "waitingForACK" => \E i \in DOMAIN waiters : waiters[i] = "command"
    /\ \A i \in DOMAIN waiters : waiters[i] = "command" => pc = "waitingForACK"
    /\ \A i, j \in DOMAIN waiters :
         waiters[i] = "command" /\ waiters[j] = "command" => i = j

(* A command that waits for a callback only succeeds when the controller   *)
(* sent a final, positive callback for this very command: callbacks that   *)
(* arrive late, from an earlier command or after a SendDataAbort, are not  *)
(* mistaken for it (Message.isExpectedCallback).                           *)
SuccessWasAnswered ==
    \A c \in Cmd : outcome[c] = "ok" /\ ExpectsCallback(c) => c \in answered

(* Responses carry no id.  A command that only expects a response can take *)
(* a late response for its own, but only that of another command with the  *)
(* same function type, which was given up or sent twice                    *)
(* (Message.isExpectedResponse).                                           *)
GivenUp(c) == outcome[c] \in {"ACK timeout", "response timeout", "callback timeout",
                              "CAN", "NAK", "reset", "destroyed"}
LateResponseFor(c) ==
    \E d \in Cmd : d # c /\ Kind[d] = Kind[c] /\ (GivenUp(d) \/ d \in resent)
ResponseIsOwnOrLate ==
    \A c \in Cmd : outcome[c] = "ok" /\ ExpectsResponse(c) /\ c \notin answered
                     => LateResponseFor(c)

(* A SendData command whose response timed out never passes for one that   *)
(* the node did not acknowledge: "Preserve response timeout errors", which *)
(* decides whether the node or the controller is blamed.                   *)
ResponseTimeoutPreserved ==
    \A c \in missed : outcome[c] \notin {"NOK report", "callback NOK"}

(* The controller never has work to do for a command that the driver       *)
(* believes to have completed, except for a second copy sent after a       *)
(* collision, or when a late response was taken for its own.               *)
OpenJobsWereGivenUp ==
    \A c \in Cmd : job[c] # "idle" =>
      cur = c \/ GivenUp(c) \/ c \in resent \/ LateResponseFor(c)

(* The queue the transactions see: the detailed behaviour implements it.   *)
Queue == INSTANCE SerialQueue WITH running <- cur
ImplementsQueue == Queue!Spec

(* Every queued command is settled, even if the controller stays silent or *)
(* answers nonsense: each wait of executeSerialAPICommand has a timeout.   *)
EveryCommandSettles ==
    \A c \in Cmd : outcome[c] = "pending" ~> outcome[c] # "pending"
=============================================================================
