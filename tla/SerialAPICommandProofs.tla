----------------------- MODULE SerialAPICommandProofs -----------------------
(***************************************************************************)
(* Proofs about SerialAPICommand for every set of commands and every bound: *)
(* the type invariant, the consistency of the drain loop with the queue,   *)
(* the refinement of SerialQueue, and what a settled command tells of what *)
(* went over the wire.                                                     *)
(***************************************************************************)
EXTENDS SerialAPICommand, SequenceTheorems, TLAPS

(* The inductive invariant.  OneHeaderWaiter is needed for the steps in     *)
(* which a header arrives: the entry it resolves shows that the loop waits. *)
Base == TypeOK /\ LoopAgrees
IInv == Base /\ OneHeaderWaiter

(* Removing an element of a sequence leaves a sequence over the same set.  *)
LEMMA RemoveAtType ==
    ASSUME NEW S, NEW s \in Seq(S), NEW i \in DOMAIN s
    PROVE  RemoveAt(s, i) \in Seq(S)
<1>1. i \in 1..Len(s) /\ Len(s) \in Nat
  OBVIOUS
<1>2. SubSeq(s, 1, i - 1) \in Seq(S) /\ SubSeq(s, i + 1, Len(s)) \in Seq(S)
  BY <1>1, SubSeqProperties
<1> QED
  BY <1>2, ConcatProperties DEF RemoveAt

(* Settling the current command keeps the loop well-formed and consistent. *)
LEMMA SettleKeepsLoop ==
    ASSUME LoopTypeOK, LoopAgrees, ended \in BOOLEAN, ended' = ended,
           cur # NoCmd, NEW o \in Outcome, Settle(o)
    PROVE  LoopTypeOK' /\ LoopAgrees'
<1>1. cur \in Cmd /\ outcome' = [outcome EXCEPT ![cur] = o] /\ o # "pending"
  BY DEF LoopTypeOK, Settle, Outcome
<1>2. CASE backlog # <<>>
  <2>1. /\ cur' = Head(backlog) /\ backlog' = Tail(backlog)
        /\ pc' = "sending" /\ attempt' = 1 /\ abort' = "armed"
    BY <1>2 DEF Settle, NextItem, Execute
  <2>2. /\ Len(backlog) \in Nat \ {0} /\ Head(backlog) = backlog[1]
        /\ Head(backlog) \in Cmd /\ Tail(backlog) \in Seq(Cmd)
        /\ Len(Tail(backlog)) = Len(backlog) - 1
        /\ \A i \in DOMAIN Tail(backlog) :
              i + 1 \in DOMAIN backlog /\ Tail(backlog)[i] = backlog[i + 1]
    BY <1>2, HeadTailProperties DEF LoopTypeOK
  <2>3. LoopTypeOK'
    <3>1. outcome' \in [Cmd -> Outcome \cup {"none", "pending"}]
      BY <1>1 DEF LoopTypeOK
    <3>2. pc' \in PC /\ attempt' \in Nat
      BY <2>1 DEF PC
    <3>3. timedOut' \in BOOLEAN /\ abortDue' \in BOOLEAN /\ timer' \in BOOLEAN
      BY DEF LoopTypeOK, Settle
    <3> QED
      BY <2>1, <2>2, <3>1, <3>2, <3>3 DEF LoopTypeOK
  <2>4. ~ended /\ 1 \in DOMAIN backlog
    BY <1>2, <2>2 DEF LoopAgrees, LoopTypeOK
  <2>5. cur' # NoCmd /\ outcome'[cur'] = "pending"
    BY <1>1, <2>1, <2>2, <2>4, ConstantsAssumption
       DEF LoopAgrees, LoopTypeOK, ConstantsAssumption
  <2>6. \A i \in DOMAIN backlog' : backlog'[i] # cur' /\ outcome'[backlog'[i]] = "pending"
    <3> SUFFICES ASSUME NEW i \in DOMAIN backlog'
                 PROVE  backlog'[i] # cur' /\ outcome'[backlog'[i]] = "pending"
      OBVIOUS
    <3>1. i + 1 \in DOMAIN backlog /\ backlog'[i] = backlog[i + 1] /\ i + 1 # 1
      BY <2>1, <2>2
    <3>2. backlog[i + 1] # backlog[1] /\ backlog[i + 1] # cur
          /\ outcome[backlog[i + 1]] = "pending" /\ backlog[i + 1] \in Cmd
      BY <3>1, <2>4 DEF LoopAgrees, LoopTypeOK
    <3> QED
      BY <3>1, <3>2, <2>1, <2>2, <1>1 DEF LoopTypeOK
  <2>7. \A i, j \in DOMAIN backlog' : backlog'[i] = backlog'[j] => i = j
    <3> SUFFICES ASSUME NEW i \in DOMAIN backlog', NEW j \in DOMAIN backlog',
                        backlog'[i] = backlog'[j]
                 PROVE  i = j
      OBVIOUS
    <3>1. /\ i + 1 \in DOMAIN backlog /\ backlog'[i] = backlog[i + 1]
          /\ j + 1 \in DOMAIN backlog /\ backlog'[j] = backlog[j + 1]
          /\ i \in Nat /\ j \in Nat
      BY <2>1, <2>2
    <3>2. i + 1 = j + 1
      BY <3>1 DEF LoopAgrees
    <3> QED
      BY <3>1, <3>2
  <2> QED
    BY <2>1, <2>3, <2>4, <2>5, <2>6, <2>7 DEF LoopAgrees
<1>3. CASE backlog = <<>>
  <2>1. /\ cur' = NoCmd /\ backlog' = <<>> /\ attempt' = 0 /\ abort' = "unset"
        /\ pc' = IF ended THEN "returned" ELSE "listening"
    BY <1>3 DEF Settle, NextItem
  <2>2. LoopTypeOK'
    <3>1. <<>> \in Seq(Cmd)
      OBVIOUS
    <3>2. outcome' \in [Cmd -> Outcome \cup {"none", "pending"}]
      BY <1>1 DEF LoopTypeOK
    <3> QED
      BY <2>1, <3>1, <3>2 DEF Settle, LoopTypeOK, PC
  <2>3. DOMAIN backlog' = {}
    BY <2>1
  <2>4. LoopAgrees'
    BY <2>1, <2>3 DEF LoopAgrees
  <2> QED
    BY <2>2, <2>4
<1> QED
  BY <1>2, <1>3

(* So does waiting for the controller.                                     *)
LEMMA AwaitKeepsLoop ==
    ASSUME LoopTypeOK, LoopAgrees, ended' = ended, cur # NoCmd,
           NEW state \in PC \ {"listening", "returned"}, NEW late \in BOOLEAN,
           Await(state, late)
    PROVE  LoopTypeOK' /\ LoopAgrees'
BY DEF LoopTypeOK, LoopAgrees, Await, IsSendData

(* A step that leaves the variables of the loop alone keeps both.          *)
LEMMA IdleKeepsLoop ==
    ASSUME LoopTypeOK, LoopAgrees,
           UNCHANGED <<outcome, backlog, ended, pc, cur, attempt, timedOut>>,
           abortDue' \in BOOLEAN, timer' \in BOOLEAN,
           abort' \in {"unset", "armed", "reset", "destroyed"}
    PROVE  LoopTypeOK' /\ LoopAgrees'
BY DEF LoopTypeOK, LoopAgrees

(* The current command exists in every state in which the loop waits.      *)
LEMMA BusyLoop ==
    ASSUME Base, pc \notin {"listening", "returned"}
    PROVE  cur \in Cmd /\ cur # NoCmd
BY DEF Base, TypeOK, LoopTypeOK, LoopAgrees

(* Every step of the line and the controller keeps the types.              *)
LEMMA ControllerKeepsBase ==
    ASSUME Base, Controller
    PROVE  Base'
<1> USE DEF Base, TypeOK, LineTypeOK, driverVars, history
<1>1. CASE \E c \in Cmd : ControllerResponds(c)
  <2> PICK c \in Cmd : ControllerResponds(c)
    BY <1>1
  <2>1. UNCHANGED <<driverVars, resets, missed, resent, ignored>>
    BY DEF ControllerResponds
  <2>2. wire' \in Seq(Frame) /\ job' \in [Cmd -> Jobs] /\ answered' \in SUBSET Cmd
    BY DEF ControllerResponds, Frame, Jobs
  <2> QED
    BY <2>1, <2>2, IdleKeepsLoop DEF LoopTypeOK
<1>2. CASE \E c \in Cmd : ControllerCallsBack(c)
  <2> PICK c \in Cmd : ControllerCallsBack(c)
    BY <1>2
  <2>1. UNCHANGED <<driverVars, resets, missed, resent, ignored>>
    BY DEF ControllerCallsBack
  <2>2. wire' \in Seq(Frame) /\ job' \in [Cmd -> Jobs] /\ answered' \in SUBSET Cmd
    BY DEF ControllerCallsBack, Frame, Jobs
  <2> QED
    BY <2>1, <2>2, IdleKeepsLoop DEF LoopTypeOK
<1>3. CASE \E c \in Cmd : ControllerForgets(c)
  BY <1>3, IdleKeepsLoop DEF LoopTypeOK, ControllerForgets, Jobs
<1>4. CASE ControllerResets
  <2>1. UNCHANGED <<driverVars, history>>
    BY <1>4 DEF ControllerResets
  <2>2. wire' \in Seq(Frame) /\ job' \in [Cmd -> Jobs] /\ resets' \in Nat
    BY <1>4 DEF ControllerResets, Frame, Jobs
  <2> QED
    BY <2>1, <2>2, IdleKeepsLoop DEF LoopTypeOK
<1> QED
  BY <1>1, <1>2, <1>3, <1>4 DEF Controller

(* What is read from and written to the line stays well-formed.            *)
LEMMA LineTypes ==
    ASSUME LineTypeOK
    PROVE  /\ \A t : Arrived(t) /\ Receive =>
                 /\ wire' \in Seq(Frame) /\ Head(wire) \in Frame
                 /\ Head(wire).type = t
           /\ \A r \in Reply : Replied(wire, r) \in Seq(Frame)
           /\ waiters # <<>> => Tail(waiters) \in Seq({"command", "abort"})
           /\ \A w \in {"command", "abort"} :
                 Append(waiters, w) \in Seq({"command", "abort"})
<1>1. wire # <<>> => Tail(wire) \in Seq(Frame) /\ Head(wire) \in Frame
  BY HeadTailProperties DEF LineTypeOK
<1>2. waiters # <<>> => Tail(waiters) \in Seq({"command", "abort"})
  BY HeadTailProperties DEF LineTypeOK
<1>3. \A r \in Reply : Replied(wire, r) \in Seq(Frame)
  <2> SUFFICES ASSUME NEW r \in Reply
               PROVE  Replied(wire, r) \in Seq(Frame)
    OBVIOUS
  <2>1. CASE r \in Headers
    <3>1. [type |-> r] \in [type : Headers \cup {"started"}]
      BY <2>1
    <3>2. [type |-> r] \in Frame
      BY <3>1 DEF Frame
    <3> QED
      BY <2>1, <3>2, AppendProperties DEF LineTypeOK, Replied
  <2>2. CASE r \notin Headers
    BY <2>2 DEF LineTypeOK, Replied
  <2> QED
    BY <2>1, <2>2
<1>4. \A w \in {"command", "abort"} : Append(waiters, w) \in Seq({"command", "abort"})
  BY AppendProperties DEF LineTypeOK
<1>5. \A t : Arrived(t) /\ Receive => /\ wire' \in Seq(Frame) /\ Head(wire) \in Frame
                                      /\ Head(wire).type = t
  BY <1>1 DEF Arrived, Receive
<1> QED
  BY <1>2, <1>3, <1>4, <1>5

(* Every step of the driver that the loop takes part in.                   *)
LEMMA ProgressKeepsBase ==
    ASSUME Base, Progress
    PROVE  Base'
<1> USE DEF Base, TypeOK
<1>1. CASE MessageSent
  <2>0. cur \in Cmd /\ cur # NoCmd
    BY <1>1, BusyLoop DEF MessageSent
  <2>1. wire' \in Seq(Frame) /\ job' \in [Cmd -> Jobs]
    BY <1>1, <2>0, LineTypes DEF MessageSent, LineTypeOK, Jobs
  <2>2. waiters' \in Seq({"command", "abort"})
    BY <1>1, LineTypes DEF MessageSent, LineTypeOK
  <2>3. LineTypeOK'
    BY <1>1, <2>1, <2>2 DEF history, MessageSent, LineTypeOK
  <2>4. LoopTypeOK' /\ LoopAgrees'
    <3>1. Await("waitingForACK", FALSE) \/ Settle("ok")
      BY <1>1 DEF MessageSent
    <3> QED
      BY <1>1, <2>0, <3>1, SettleKeepsLoop, AwaitKeepsLoop
         DEF MessageSent, LineTypeOK, PC, Outcome
  <2> QED
    BY <2>3, <2>4
<1>2. CASE BackoffEnds
  BY <1>2, BusyLoop DEF BackoffEnds, Execute, LoopTypeOK, LineTypeOK, LoopAgrees, PC
<1>3. CASE CommandAborted
  <2>0. cur # NoCmd /\ abort \in Outcome
    BY <1>3, BusyLoop DEF CommandAborted, Outcome
  <2> QED
    BY <1>3, <2>0, SettleKeepsLoop DEF history, CommandAborted, LineTypeOK
<1>4. CASE AckTimeout
  <2>0. cur # NoCmd
    BY <1>4, BusyLoop DEF AckTimeout
  <2>1. waiters' \in Seq({"command", "abort"})
    BY <1>4, RemoveAtType DEF AckTimeout, LineTypeOK
  <2>2. LoopTypeOK' /\ LoopAgrees'
    BY <1>4, <2>0, SettleKeepsLoop DEF AckTimeout, LineTypeOK, Outcome
  <2> QED
    BY <1>4, <2>1, <2>2 DEF history, AckTimeout, LineTypeOK
<1>5. CASE ResponseTimeout
  <2>0. cur \in Cmd /\ cur # NoCmd
    BY <1>5, BusyLoop DEF ResponseTimeout, Listens
  <2>1. LineTypeOK'
    BY <1>5, <2>0, LineTypes DEF ResponseTimeout, LineTypeOK, WriteAbort
  <2>2. LoopTypeOK' /\ LoopAgrees'
    BY <1>5, <2>0, SettleKeepsLoop, AwaitKeepsLoop
       DEF ResponseTimeout, LineTypeOK, PC, Outcome
  <2> QED
    BY <2>1, <2>2
<1>6. CASE CallbackTimeout
  <2>0. cur # NoCmd
    BY <1>6, BusyLoop DEF CallbackTimeout, Listens
  <2> QED
    BY <1>6, <2>0, SettleKeepsLoop DEF history, CallbackTimeout, LineTypeOK, Outcome
<1>7. CASE WriteFails
  <2>0. cur # NoCmd
    BY <1>7, BusyLoop DEF WriteFails
  <2> QED
    BY <1>7, <2>0, SettleKeepsLoop DEF history, WriteFails, LineTypeOK, Outcome
<1> QED
  BY <1>1, <1>2, <1>3, <1>4, <1>5, <1>6, <1>7 DEF Progress
-----------------------------------------------------------------------------
(* The entries of awaitedMessageHeaders.                                   *)

NoEntry(w)  == \A i \in DOMAIN w : w[i] # "command"
OneEntry(w) == \E i \in DOMAIN w : /\ w[i] = "command"
                                   /\ \A j \in DOMAIN w : w[j] = "command" => j = i
Waiters == Seq({"command", "abort"})

LEMMA OneHeaderWaiterAlt ==
    OneHeaderWaiter <=> IF pc = "waitingForACK" THEN OneEntry(waiters)
                                                ELSE NoEntry(waiters)
BY DEF OneHeaderWaiter, OneEntry, NoEntry

(* What is left of a sequence after one element was removed.               *)
LEMMA RemoveAtElements ==
    ASSUME NEW S, NEW s \in Seq(S), NEW i \in DOMAIN s
    PROVE  /\ DOMAIN RemoveAt(s, i) = 1..(Len(s) - 1)
           /\ \A j \in 1..(Len(s) - 1) :
                 RemoveAt(s, i)[j] = IF j < i THEN s[j] ELSE s[j + 1]
<1> DEFINE a == SubSeq(s, 1, i - 1)
           b == SubSeq(s, i + 1, Len(s))
<1>1. i \in 1..Len(s) /\ Len(s) \in Nat
  OBVIOUS
<1>2. /\ a \in Seq(S) /\ b \in Seq(S) /\ Len(a) = i - 1 /\ Len(b) = Len(s) - i
      /\ \A j \in 1..(i - 1) : a[j] = s[j]
      /\ \A j \in 1..(Len(s) - i) : b[j] = s[i + j]
  BY <1>1, SubSeqProperties
<1> HIDE DEF a, b
<1>3. /\ a \o b \in Seq(S) /\ Len(a \o b) = Len(s) - 1
      /\ \A j \in 1..(Len(s) - 1) : (a \o b)[j] = IF j <= Len(a) THEN a[j]
                                                  ELSE b[j - Len(a)]
  <2>1. /\ a \o b \in Seq(S) /\ Len(a \o b) = Len(a) + Len(b)
        /\ \A j \in 1..(Len(a) + Len(b)) : (a \o b)[j] = IF j <= Len(a) THEN a[j]
                                                        ELSE b[j - Len(a)]
    BY <1>2, ConcatProperties
  <2>2. Len(a) + Len(b) = Len(s) - 1
    BY <1>1, <1>2
  <2> QED
    BY <2>1, <2>2
<1>4. RemoveAt(s, i) = a \o b
  BY DEF RemoveAt, a, b
<1>5. DOMAIN (a \o b) = 1..(Len(s) - 1)
  BY <1>1, <1>3
<1>6. ASSUME NEW j \in 1..(Len(s) - 1)
      PROVE  (a \o b)[j] = IF j < i THEN s[j] ELSE s[j + 1]
  <2>1. CASE j < i
    BY <2>1, <1>1, <1>2, <1>3
  <2>2. CASE ~(j < i)
    <3>1. j - (i - 1) \in 1..(Len(s) - i) /\ i + (j - (i - 1)) = j + 1
      BY <2>2, <1>1
    <3>2. (a \o b)[j] = b[j - (i - 1)]
      BY <2>2, <1>1, <1>2, <1>3
    <3>3. b[j - (i - 1)] = s[i + (j - (i - 1))]
      BY <3>1, <1>2
    <3> QED
      BY <2>2, <3>1, <3>2, <3>3
  <2> QED
    BY <2>1, <2>2
<1> QED
  BY <1>4, <1>5, <1>6

LEMMA RemoveEntry ==
    ASSUME NEW w \in Waiters, NEW i \in DOMAIN w
    PROVE  /\ OneEntry(w) /\ w[i] = "command" => NoEntry(RemoveAt(w, i))
           /\ NoEntry(w) => NoEntry(RemoveAt(w, i))
           /\ OneEntry(w) /\ w[i] # "command" => OneEntry(RemoveAt(w, i))
<1> DEFINE v == RemoveAt(w, i)
<1>1. /\ DOMAIN v = 1..(Len(w) - 1)
      /\ \A j \in 1..(Len(w) - 1) : v[j] = IF j < i THEN w[j] ELSE w[j + 1]
  <2>1. w \in Seq({"command", "abort"})
    BY DEF Waiters
  <2> QED
    BY <2>1, RemoveAtElements DEF v
<1>2. i \in 1..Len(w) /\ Len(w) \in Nat /\ DOMAIN w = 1..Len(w)
  BY DEF Waiters
<1> HIDE DEF v
<1>3. ASSUME NoEntry(w)
      PROVE  NoEntry(v)
  BY <1>1, <1>2, <1>3 DEF NoEntry
<1>4. ASSUME OneEntry(w), w[i] = "command"
      PROVE  NoEntry(v)
  BY <1>1, <1>2, <1>4 DEF NoEntry, OneEntry
<1>5. ASSUME OneEntry(w), w[i] # "command"
      PROVE  OneEntry(v)
  <2>1. PICK k \in DOMAIN w : /\ w[k] = "command"
                              /\ \A j \in DOMAIN w : w[j] = "command" => j = k
    BY <1>5 DEF OneEntry
  <2>2. k # i
    BY <2>1, <1>5
  <2>3. CASE k < i
    <3>1. k \in DOMAIN v /\ v[k] = "command"
      BY <2>1, <2>3, <1>1, <1>2
    <3>2. ASSUME NEW j \in DOMAIN v, v[j] = "command"
          PROVE  j = k
      BY <2>1, <2>3, <3>2, <1>1, <1>2, SMTT(30)
    <3> QED
      BY <3>1, <3>2 DEF OneEntry
  <2>4. CASE k > i
    <3>1. k - 1 \in DOMAIN v /\ v[k - 1] = "command"
      BY <2>1, <2>4, <1>1, <1>2
    <3>2. ASSUME NEW j \in DOMAIN v, v[j] = "command"
          PROVE  j = k - 1
      BY <2>1, <2>4, <3>2, <1>1, <1>2, SMTT(30)
    <3> QED
      BY <3>1, <3>2 DEF OneEntry
  <2> QED
    BY <2>1, <2>2, <2>3, <2>4, <1>2
<1> QED
  BY <1>3, <1>4, <1>5 DEF v

LEMMA TailEntry ==
    ASSUME NEW w \in Waiters, w # <<>>
    PROVE  /\ OneEntry(w) /\ Head(w) = "command" => NoEntry(Tail(w))
           /\ NoEntry(w) => NoEntry(Tail(w))
           /\ OneEntry(w) /\ Head(w) # "command" => OneEntry(Tail(w))
<1>1. /\ Len(w) \in Nat \ {0} /\ DOMAIN w = 1..Len(w) /\ Head(w) = w[1]
      /\ DOMAIN Tail(w) = 1..(Len(w) - 1)
      /\ \A j \in 1..(Len(w) - 1) : Tail(w)[j] = w[j + 1]
  BY HeadTailProperties DEF Waiters
<1> DEFINE v == Tail(w)
<1> HIDE DEF v
<1>2. DOMAIN v = 1..(Len(w) - 1) /\ \A j \in 1..(Len(w) - 1) : v[j] = w[j + 1]
  BY <1>1 DEF v
<1>3. ASSUME NoEntry(w) PROVE NoEntry(v)
  BY <1>1, <1>2, <1>3 DEF NoEntry
<1>4. ASSUME OneEntry(w), Head(w) = "command" PROVE NoEntry(v)
  BY <1>1, <1>2, <1>4 DEF NoEntry, OneEntry
<1>5. ASSUME OneEntry(w), Head(w) # "command" PROVE OneEntry(v)
  <2>1. PICK k \in DOMAIN w : /\ w[k] = "command"
                              /\ \A j \in DOMAIN w : w[j] = "command" => j = k
    BY <1>5 DEF OneEntry
  <2>2. k - 1 \in DOMAIN v /\ v[k - 1] = "command"
    BY <2>1, <1>1, <1>2, <1>5
  <2>3. ASSUME NEW j \in DOMAIN v, v[j] = "command"
        PROVE  j = k - 1
    BY <2>1, <2>3, <1>1, <1>2
  <2> QED
    BY <2>2, <2>3 DEF OneEntry
<1> QED
  BY <1>3, <1>4, <1>5 DEF v

LEMMA AppendEntry ==
    ASSUME NEW w \in Waiters
    PROVE  /\ NoEntry(w) => OneEntry(Append(w, "command"))
           /\ NoEntry(w) => NoEntry(Append(w, "abort"))
           /\ OneEntry(w) => OneEntry(Append(w, "abort"))
<1>1. ASSUME NEW e \in {"command", "abort"}
      PROVE  /\ DOMAIN Append(w, e) = 1..(Len(w) + 1)
             /\ \A j \in 1..Len(w) : Append(w, e)[j] = w[j]
             /\ Append(w, e)[Len(w) + 1] = e
  BY AppendProperties DEF Waiters
<1>2. Len(w) \in Nat /\ DOMAIN w = 1..Len(w)
  BY DEF Waiters
<1>3. ASSUME NoEntry(w) PROVE OneEntry(Append(w, "command"))
  <2> DEFINE v == Append(w, "command")
  <2>1. DOMAIN v = 1..(Len(w) + 1) /\ v[Len(w) + 1] = "command"
        /\ \A j \in 1..Len(w) : v[j] = w[j]
    BY <1>1
  <2> HIDE DEF v
  <2>2. OneEntry(v)
    BY <2>1, <1>2, <1>3 DEF NoEntry, OneEntry
  <2> QED
    BY <2>2 DEF v
<1>4. (NoEntry(w) => NoEntry(Append(w, "abort"))) /\ (OneEntry(w) => OneEntry(Append(w, "abort")))
  <2> DEFINE v == Append(w, "abort")
  <2>1. DOMAIN v = 1..(Len(w) + 1) /\ v[Len(w) + 1] = "abort"
        /\ \A j \in 1..Len(w) : v[j] = w[j]
    BY <1>1
  <2> HIDE DEF v
  <2>2. NoEntry(w) => NoEntry(v)
    BY <2>1, <1>2 DEF NoEntry
  <2>3. ASSUME OneEntry(w) PROVE OneEntry(v)
    BY <2>1, <2>3, <1>2 DEF OneEntry
  <2> QED
    BY <2>2, <2>3 DEF v
<1> QED
  BY <1>3, <1>4
-----------------------------------------------------------------------------
(* A header that resolves an entry of the loop finds the loop waiting.     *)
LEMMA HeaderMeansBusy ==
    ASSUME IInv, NEW h, HeaderForCommand(h)
    PROVE  /\ pc = "waitingForACK" /\ cur # NoCmd
           /\ waiters \in Waiters /\ waiters # <<>> /\ OneEntry(waiters)
           /\ Head(waiters) = "command" /\ waiters' = Tail(waiters)
<1> USE DEF IInv, Base, TypeOK
<1>1. waiters # <<>> /\ Head(waiters) = waiters[1] /\ 1 \in DOMAIN waiters
  BY HeadTailProperties DEF HeaderForCommand, LineTypeOK
<1>2. pc = "waitingForACK"
  BY <1>1 DEF HeaderForCommand, OneHeaderWaiter
<1> QED
  BY <1>1, <1>2, BusyLoop, OneHeaderWaiterAlt DEF HeaderForCommand, LineTypeOK, Waiters

(* Every arrival of a frame.                                               *)
LEMMA FrameKeepsBase ==
    ASSUME IInv, FrameArrives
    PROVE  Base'
<1> USE DEF IInv, Base, TypeOK
<1>a. UNCHANGED <<ended, down, job, resets, history>>
  BY DEF FrameArrives, HeaderForAbort, HeaderForNobody, AckArrives, NakArrives,
         CanArrives, HeaderForCommand, ResponseArrives, CallbackArrives,
         RestartReported, Receive, driverVars
<1>b. \E t : Arrived(t) /\ Receive
  BY DEF FrameArrives, HeaderForAbort, HeaderForNobody, AckArrives, NakArrives,
         CanArrives, HeaderForCommand, ResponseArrives, CallbackArrives,
         RestartReported
<1>c. waiters' = waiters \/ (waiters # <<>> /\ waiters' = Tail(waiters))
  BY DEF FrameArrives, HeaderForAbort, HeaderForNobody, AckArrives, NakArrives,
         CanArrives, HeaderForCommand, ResponseArrives, CallbackArrives,
         RestartReported, driverVars
<1>d. LineTypeOK'
  <2>1. wire' \in Seq(Frame)
    BY <1>b, LineTypes
  <2>2. waiters' \in Seq({"command", "abort"})
    BY <1>c, LineTypes DEF LineTypeOK
  <2> QED
    BY <1>a, <2>1, <2>2 DEF history, LineTypeOK
<1>e. ASSUME NEW h, HeaderForCommand(h)
      PROVE  cur # NoCmd
  BY <1>e, HeaderMeansBusy
<1>1. CASE HeaderForAbort
  BY <1>1, <1>d, IdleKeepsLoop DEF HeaderForAbort, LoopTypeOK
<1>2. CASE HeaderForNobody
  BY <1>2, <1>d, IdleKeepsLoop DEF HeaderForNobody, LoopTypeOK, driverVars
<1>3. CASE AckArrives
  <2>1. cur # NoCmd /\ ended' = ended
    BY <1>3, <1>e DEF AckArrives, HeaderForCommand
  <2>2. \/ Await("waitingForResponse", FALSE) \/ Await("waitingForCallback", FALSE)
        \/ Settle("ok")
    BY <1>3 DEF AckArrives
  <2> QED
    BY <1>d, <2>1, <2>2, SettleKeepsLoop, AwaitKeepsLoop DEF LineTypeOK, PC, Outcome
<1>4. CASE NakArrives
  <2>1. cur # NoCmd /\ ended' = ended
    BY <1>4, <1>e DEF NakArrives, HeaderForCommand
  <2> QED
    BY <1>4, <1>d, <2>1, SettleKeepsLoop DEF NakArrives, LineTypeOK, Outcome
<1>5. CASE CanArrives
  <2>1. cur # NoCmd /\ ended' = ended
    BY <1>5, <1>e DEF CanArrives, HeaderForCommand
  <2>2. CASE attempt < MaxAttempts
    BY <1>5, <1>d, <2>1, <2>2 DEF CanArrives, LoopTypeOK, LoopAgrees, PC
  <2>3. CASE ~(attempt < MaxAttempts)
    BY <1>5, <1>d, <2>1, <2>3, SettleKeepsLoop DEF CanArrives, LineTypeOK, Outcome
  <2> QED
    BY <2>2, <2>3
<1>6. CASE ResponseArrives
  <2>1. CASE Listens("waitingForResponse") /\ Kind[Head(wire).cmd] = Kind[cur]
    <3>1. cur # NoCmd
      BY <2>1, BusyLoop DEF Listens
    <3>2. \/ Settle("response NOK") \/ Settle("ok")
          \/ Await("waitingForCallback", FALSE)
      BY <1>6, <2>1 DEF ResponseArrives
    <3> QED
      BY <1>a, <1>d, <3>1, <3>2, SettleKeepsLoop, AwaitKeepsLoop
         DEF LineTypeOK, PC, Outcome
  <2>2. CASE ~(Listens("waitingForResponse") /\ Kind[Head(wire).cmd] = Kind[cur])
    BY <1>6, <1>a, <1>d, <2>2, IdleKeepsLoop DEF ResponseArrives, LoopTypeOK
  <2> QED
    BY <2>1, <2>2
<1>7. CASE CallbackArrives
  <2>1. CASE Listens("waitingForCallback") /\ Head(wire).cmd = cur
    <3>1. cur # NoCmd
      BY <2>1, BusyLoop DEF Listens
    <3>2. \/ \E o \in {"ok", "response timeout", "NOK report", "callback NOK"} : Settle(o)
          \/ Await("waitingForCallback", FALSE)
      BY <1>7, <2>1 DEF CallbackArrives
    <3> QED
      BY <1>a, <1>d, <3>1, <3>2, SettleKeepsLoop, AwaitKeepsLoop
         DEF LineTypeOK, PC, Outcome
  <2>2. CASE ~(Listens("waitingForCallback") /\ Head(wire).cmd = cur)
    BY <1>7, <1>a, <1>d, <2>2, IdleKeepsLoop DEF CallbackArrives, LoopTypeOK
  <2> QED
    BY <2>1, <2>2
<1>8. CASE RestartReported
  BY <1>8, <1>a, <1>d, IdleKeepsLoop DEF RestartReported, LoopTypeOK
<1> QED
  BY <1>1, <1>2, <1>3, <1>4, <1>5, <1>6, <1>7, <1>8 DEF FrameArrives

(* A command is queued.                                                    *)
LEMMA SubmitKeepsBase ==
    ASSUME Base, NEW c \in Cmd, Submit(c)
    PROVE  Base'
<1> USE DEF Base, TypeOK
<1>1. LineTypeOK'
  BY DEF Submit, LineTypeOK
<1>2. outcome' \in [Cmd -> Outcome \cup {"none", "pending"}]
  BY DEF Submit, LoopTypeOK
<1>3. \A d \in Cmd : outcome[d] = "pending" => outcome'[d] = "pending" /\ d # c
  BY DEF Submit, LoopTypeOK
<1>4. CASE ~ended /\ pc = "listening"
  <2>1. /\ pc' = "sending" /\ cur' = c /\ attempt' = 1 /\ abort' = "armed"
        /\ UNCHANGED <<backlog, ended, timedOut, abortDue, timer>>
    BY <1>4 DEF Submit, Execute
  <2>2. backlog = <<>> /\ outcome'[c] = "pending" /\ c # NoCmd
    BY <1>4, ConstantsAssumption DEF LoopAgrees, Submit, LoopTypeOK, ConstantsAssumption
  <2>3. DOMAIN backlog' = {}
    BY <2>1, <2>2
  <2>4. LoopTypeOK'
    BY <2>1, <1>2 DEF LoopTypeOK, PC
  <2>5. LoopAgrees'
    BY <2>1, <2>2, <2>3, <1>4 DEF LoopAgrees
  <2> QED
    BY <1>1, <2>4, <2>5
<1>5. CASE ~ended /\ pc # "listening"
  <2>1. /\ backlog' = Append(backlog, c)
        /\ UNCHANGED <<pc, cur, attempt, abort, ended, timedOut, abortDue, timer>>
    BY <1>5 DEF Submit
  <2>2. /\ Len(backlog) \in Nat /\ DOMAIN backlog = 1..Len(backlog)
        /\ backlog' \in Seq(Cmd) /\ DOMAIN backlog' = 1..(Len(backlog) + 1)
        /\ \A i \in 1..Len(backlog) : backlog'[i] = backlog[i]
        /\ backlog'[Len(backlog) + 1] = c
    BY <2>1, AppendProperties DEF LoopTypeOK
  <2>3. LoopTypeOK'
    BY <2>1, <2>2, <1>2 DEF LoopTypeOK
  <2>4. cur # NoCmd /\ cur \in Cmd /\ cur # c /\ outcome'[cur] = "pending"
    BY <1>5, <1>3 DEF LoopAgrees, LoopTypeOK
  <2>5. \A i \in DOMAIN backlog : /\ backlog[i] # c /\ backlog[i] # cur
                                  /\ outcome'[backlog[i]] = "pending"
    BY <1>3, <2>2 DEF LoopAgrees, LoopTypeOK
  <2>6. \A i \in DOMAIN backlog' : backlog'[i] # cur' /\ outcome'[backlog'[i]] = "pending"
    <3>1. outcome'[c] = "pending"
      BY DEF Submit, LoopTypeOK
    <3>2. ASSUME NEW i \in DOMAIN backlog'
          PROVE  backlog'[i] # cur /\ outcome'[backlog'[i]] = "pending"
      BY <3>1, <2>2, <2>4, <2>5
    <3> QED
      BY <2>1, <3>2
  <2>7. \A i, j \in DOMAIN backlog' : backlog'[i] = backlog'[j] => i = j
    BY <2>2, <2>5 DEF LoopAgrees
  <2>8. LoopAgrees'
    BY <1>5, <2>1, <2>4, <2>6, <2>7 DEF LoopAgrees
  <2> QED
    BY <1>1, <2>3, <2>8
<1>6. CASE ended
  <2>1. UNCHANGED <<pc, cur, attempt, abort, backlog, ended, timedOut, abortDue, timer>>
    BY <1>6 DEF Submit
  <2>2. backlog = <<>>
    BY <1>6 DEF LoopAgrees
  <2>3. DOMAIN backlog' = {}
    BY <2>1, <2>2
  <2>4. cur # NoCmd => outcome'[cur] = "pending"
    BY <1>3 DEF LoopAgrees, LoopTypeOK
  <2> QED
    BY <1>1, <1>2, <2>1, <2>2, <2>3, <2>4 DEF LoopTypeOK, LoopAgrees
<1> QED
  BY <1>4, <1>5, <1>6 DEF LineTypeOK

(* The timers and calls the loop takes no part in, and the destruction.    *)
LEMMA RestKeepsBase ==
    ASSUME Base, \/ SendDataAbortTimeout \/ AbortFromOutside \/ AbortWaitExpires
                 \/ DestroyQueue \/ DestroyController
    PROVE  Base'
<1> USE DEF Base, TypeOK
<1>1. CASE SendDataAbortTimeout
  <2>1. LineTypeOK'
    BY <1>1, LineTypes DEF history, SendDataAbortTimeout, WriteAbort, LineTypeOK
  <2> QED
    BY <1>1, <2>1, IdleKeepsLoop DEF SendDataAbortTimeout, LoopTypeOK
<1>2. CASE AbortFromOutside
  <2>1. LineTypeOK'
    BY <1>2, LineTypes DEF history, AbortFromOutside, WriteAbort, LineTypeOK
  <2> QED
    BY <1>2, <2>1, IdleKeepsLoop DEF AbortFromOutside, LoopTypeOK
<1>3. CASE AbortWaitExpires
  <2>1. LineTypeOK'
    BY <1>3, RemoveAtType DEF history, AbortWaitExpires, LineTypeOK
  <2> QED
    BY <1>3, <2>1, IdleKeepsLoop DEF AbortWaitExpires, LoopTypeOK
<1>4. CASE DestroyQueue
  <2>1. LineTypeOK'
    BY <1>4 DEF history, DestroyQueue, LineTypeOK
  <2>2. backlog' = <<>> /\ <<>> \in Seq(Cmd) /\ DOMAIN backlog' = {}
    BY <1>4 DEF DestroyQueue
  <2>3. outcome' \in [Cmd -> Outcome \cup {"none", "pending"}]
    BY <1>4 DEF DestroyQueue, LoopTypeOK, Outcome
  <2>4. LoopTypeOK'
    BY <1>4, <2>2, <2>3 DEF DestroyQueue, LoopTypeOK, PC
  <2>5. cur # NoCmd => outcome'[cur] = "pending"
    <3> SUFFICES ASSUME cur # NoCmd PROVE outcome'[cur] = "pending"
      OBVIOUS
    <3>1. cur \in Cmd /\ outcome[cur] = "pending"
      BY DEF LoopTypeOK, LoopAgrees
    <3>2. cur \notin ToSet(backlog)
      BY DEF ToSet, LoopAgrees
    <3> QED
      BY <1>4, <3>1, <3>2 DEF DestroyQueue
  <2>6. LoopAgrees'
    BY <1>4, <2>2, <2>5 DEF DestroyQueue, LoopAgrees
  <2> QED
    BY <2>1, <2>4, <2>6
<1>5. CASE DestroyController
  <2>1. LineTypeOK'
    <3>1. <<>> \in Seq(Frame)
      OBVIOUS
    <3> QED
      BY <1>5, <3>1 DEF history, DestroyController, LineTypeOK
  <2> QED
    BY <1>5, <2>1, IdleKeepsLoop DEF DestroyController, LoopTypeOK
<1> QED
  BY <1>1, <1>2, <1>3, <1>4, <1>5

(* The entries of the loop and of abortSendData in awaitedMessageHeaders.  *)
LEMMA HeaderWaiterKept ==
    ASSUME IInv, Next
    PROVE  OneHeaderWaiter'
<1> USE DEF IInv, Base, TypeOK
<1>a. waiters \in Waiters /\ IF pc = "waitingForACK" THEN OneEntry(waiters) ELSE NoEntry(waiters)
  BY OneHeaderWaiterAlt DEF LineTypeOK, Waiters
<1>b. SUFFICES IF pc' = "waitingForACK" THEN OneEntry(waiters') ELSE NoEntry(waiters')
  BY DEF OneHeaderWaiter, OneEntry, NoEntry
<1>c. ASSUME NEW o, Settle(o)
      PROVE  pc' # "waitingForACK"
  BY <1>c DEF Settle, NextItem, Execute
<1>d. ASSUME WriteAbort, NoEntry(waiters) \/ OneEntry(waiters)
      PROVE  /\ NoEntry(waiters) => NoEntry(waiters')
             /\ OneEntry(waiters) => OneEntry(waiters')
  BY <1>a, <1>d, AppendEntry DEF WriteAbort
<1>1. CASE UNCHANGED <<pc, waiters>>
  BY <1>1, <1>a
<1>2. CASE pc # "waitingForACK" /\ pc' # "waitingForACK" /\ UNCHANGED waiters
  BY <1>2, <1>a
<1>3. CASE WriteAbort /\ \/ UNCHANGED pc
                         \/ pc # "waitingForACK" /\ pc' # "waitingForACK"
  BY <1>3, <1>a, <1>d
<1>4. CASE MessageSent
  <2>1. CASE ExpectsAck(cur)
    BY <1>4, <2>1, <1>a, AppendEntry DEF MessageSent, Await
  <2>2. CASE ~ExpectsAck(cur)
    BY <1>4, <2>2, <1>a, <1>c DEF MessageSent
  <2> QED
    BY <2>1, <2>2
<1>5. CASE \E h : HeaderForCommand(h) /\ pc' # "waitingForACK"
  BY <1>5, HeaderMeansBusy, TailEntry
<1>6. CASE HeaderForAbort
  BY <1>6, <1>a, TailEntry DEF HeaderForAbort
<1>7. CASE AckTimeout
  <2>1. PICK i \in DOMAIN waiters : waiters[i] = "command" /\ waiters' = RemoveAt(waiters, i)
    BY <1>7 DEF AckTimeout
  <2>2. pc = "waitingForACK" /\ pc' # "waitingForACK"
    BY <1>7, <1>c DEF AckTimeout
  <2> QED
    BY <2>1, <2>2, <1>a, RemoveEntry
<1>8. CASE AbortWaitExpires
  <2>1. PICK i \in DOMAIN waiters : waiters[i] = "abort" /\ waiters' = RemoveAt(waiters, i)
    BY <1>8 DEF AbortWaitExpires
  <2> QED
    BY <1>8, <2>1, <1>a, RemoveEntry DEF AbortWaitExpires
<1>9. CASE \E c \in Cmd : Submit(c)
  <2>1. UNCHANGED waiters /\ (UNCHANGED pc \/ (pc = "listening" /\ pc' = "sending"))
    BY <1>9 DEF Submit, Execute
  <2> QED
    BY <2>1, <1>1, <1>2
<1>10. CASE FrameArrives
  <2>1. CASE AckArrives
    BY <2>1, <1>c, <1>5 DEF AckArrives, Await
  <2>2. CASE NakArrives
    BY <2>2, <1>c, <1>5 DEF NakArrives
  <2>3. CASE CanArrives
    BY <2>3, <1>c, <1>5 DEF CanArrives
  <2>4. CASE ResponseArrives
    BY <2>4, <1>c, <1>1, <1>2 DEF ResponseArrives, Listens, Await
  <2>5. CASE CallbackArrives
    BY <2>5, <1>c, <1>1, <1>2 DEF CallbackArrives, Listens, Await
  <2>6. CASE HeaderForNobody \/ RestartReported
    BY <2>6, <1>1 DEF HeaderForNobody, RestartReported, driverVars
  <2> QED
    BY <1>6, <1>10, <2>1, <2>2, <2>3, <2>4, <2>5, <2>6 DEF FrameArrives
<1>11. CASE Progress
  <2>1. CASE BackoffEnds
    BY <2>1, <1>2 DEF BackoffEnds, Execute
  <2>2. CASE CommandAborted
    BY <2>2, <1>c, <1>2 DEF CommandAborted
  <2>3. CASE ResponseTimeout
    <3>1. pc # "waitingForACK" /\ pc' # "waitingForACK"
      BY <2>3, <1>c DEF ResponseTimeout, Listens, Await
    <3> QED
      BY <2>3, <3>1, <1>2, <1>3 DEF ResponseTimeout
  <2>4. CASE CallbackTimeout
    BY <2>4, <1>c, <1>2 DEF CallbackTimeout, Listens
  <2>5. CASE WriteFails
    BY <2>5, <1>c, <1>2 DEF WriteFails
  <2> QED
    BY <1>4, <1>7, <1>11, <2>1, <2>2, <2>3, <2>4, <2>5 DEF Progress
<1>12. CASE SendDataAbortTimeout \/ AbortFromOutside
  BY <1>12, <1>3 DEF SendDataAbortTimeout, AbortFromOutside
<1>13. CASE DestroyQueue
  BY <1>13, <1>1, <1>2 DEF DestroyQueue
<1>14. CASE DestroyController \/ Controller
  BY <1>14, <1>1 DEF DestroyController, Controller, ControllerResponds,
     ControllerCallsBack, ControllerForgets, ControllerResets, driverVars
<1> QED
  BY <1>8, <1>9, <1>10, <1>11, <1>12, <1>13, <1>14 DEF Next
-----------------------------------------------------------------------------
LEMMA InitIInv == Init => IInv
<1> SUFFICES ASSUME Init PROVE IInv
  OBVIOUS
<1>1. <<>> \in Seq(Cmd) /\ <<>> \in Seq(Frame) /\ <<>> \in Seq({"command", "abort"})
  OBVIOUS
<1>2. LoopTypeOK /\ LineTypeOK
  BY <1>1 DEF Init, LoopTypeOK, LineTypeOK, PC, Jobs
<1>3. LoopAgrees /\ OneHeaderWaiter
  BY DEF Init, LoopAgrees, OneHeaderWaiter
<1> QED
  BY <1>2, <1>3 DEF IInv, Base, TypeOK

LEMMA NextIInv == IInv /\ [Next]_vars => IInv'
<1> SUFFICES ASSUME IInv, [Next]_vars PROVE IInv'
  OBVIOUS
<1>1. CASE Next
  <2>1. Base'
    <3>1. CASE \E c \in Cmd : Submit(c)
      BY <3>1, SubmitKeepsBase DEF IInv
    <3>2. CASE FrameArrives
      BY <3>2, FrameKeepsBase
    <3>3. CASE Progress
      BY <3>3, ProgressKeepsBase DEF IInv
    <3>4. CASE Controller
      BY <3>4, ControllerKeepsBase DEF IInv
    <3> QED
      BY <1>1, <3>1, <3>2, <3>3, <3>4, RestKeepsBase DEF Next, IInv
  <2> QED
    BY <1>1, <2>1, HeaderWaiterKept DEF IInv
<1>2. CASE UNCHANGED vars
  BY <1>2 DEF history, IInv, Base, TypeOK, LoopTypeOK, LineTypeOK, LoopAgrees,
     OneHeaderWaiter, vars, driverVars
<1> QED
  BY <1>1, <1>2

(* The variables keep their types, whatever the controller sends and in    *)
(* whatever order (executeSerialAPICommand).                               *)
THEOREM TypeCorrect == Spec => []TypeOK
BY InitIInv, NextIInv, PTL DEF Spec, IInv, Base

(* The loop has exactly one entry in awaitedMessageHeaders while it waits  *)
(* for an ACK and none otherwise, with any number of SendDataAborts around. *)
THEOREM HeaderWaiterUnique == Spec => []OneHeaderWaiter
BY InitIInv, NextIInv, PTL DEF Spec, IInv

(* The steps of the implementation, sorted by what they do to the queue.   *)
LEMMA StepKinds ==
    ASSUME IInv, Next
    PROVE  \/ \E c \in Cmd : Submit(c)
           \/ DestroyQueue
           \/ /\ cur # NoCmd /\ UNCHANGED <<ended, ignored>>
              /\ \E o \in Outcome : Settle(o)
           \/ UNCHANGED <<outcome, backlog, cur, ended, ignored>>
<1> USE DEF history
<1>1. CASE Progress
  <2>1. cur # NoCmd
    BY <1>1, BusyLoop DEF Progress, IInv, MessageSent, BackoffEnds, CommandAborted,
       WriteFails, AckTimeout, ResponseTimeout, CallbackTimeout, Listens
  <2>2. CASE WriteFails \/ CommandAborted
    BY <2>1, <2>2 DEF WriteFails, CommandAborted, Outcome
  <2>3. CASE Progress /\ ~WriteFails /\ ~CommandAborted
    BY <2>1, <2>3 DEF Progress, MessageSent, BackoffEnds, AckTimeout, Execute,
       ResponseTimeout, CallbackTimeout, Await, Outcome
  <2> QED
    BY <1>1, <2>2, <2>3
<1>2. CASE FrameArrives
  <2>1. CASE AckArrives \/ NakArrives \/ CanArrives
    <3>1. cur # NoCmd
      BY <2>1, HeaderMeansBusy DEF AckArrives, NakArrives, CanArrives
    <3> QED
      BY <2>1, <3>1 DEF AckArrives, NakArrives, CanArrives, HeaderForCommand,
         Receive, Await, Outcome
  <2>2. CASE ResponseArrives
    <3>1. Listens("waitingForResponse") => cur # NoCmd
      BY BusyLoop DEF IInv, Listens
    <3> QED
      BY <2>2, <3>1 DEF ResponseArrives, Receive, Await, Outcome
  <2>3. CASE CallbackArrives
    <3>1. Listens("waitingForCallback") => cur # NoCmd
      BY BusyLoop DEF IInv, Listens
    <3> QED
      BY <2>3, <3>1 DEF CallbackArrives, Receive, Await, Outcome
  <2>4. CASE HeaderForAbort \/ HeaderForNobody \/ RestartReported
    BY <2>4 DEF HeaderForAbort, HeaderForNobody, RestartReported, Receive, driverVars
  <2> QED
    BY <1>2, <2>1, <2>2, <2>3, <2>4 DEF FrameArrives
<1>3. CASE SendDataAbortTimeout \/ AbortFromOutside \/ AbortWaitExpires
           \/ DestroyController \/ Controller
  BY <1>3 DEF SendDataAbortTimeout, AbortFromOutside, AbortWaitExpires,
     DestroyController, Controller, ControllerResponds, ControllerCallsBack,
     ControllerForgets, ControllerResets, driverVars
<1> QED
  BY <1>1, <1>2, <1>3 DEF Next

(* Settling the current command loses none of those that wait.             *)
LEMMA SettleLosesNothing ==
    ASSUME Base, NothingLost, cur # NoCmd, UNCHANGED <<ended, ignored>>,
           NEW o \in Outcome, Settle(o)
    PROVE  NothingLost'
<1> USE DEF Base, TypeOK
<1>1. cur \in Cmd /\ outcome' = [outcome EXCEPT ![cur] = o] /\ o # "pending"
  BY DEF LoopTypeOK, Settle, Outcome
<1>2. ASSUME NEW c \in Cmd, outcome'[c] = "pending"
      PROVE  c = cur' \/ c \in ToSet(backlog') \/ c \in ignored
  <2>1. c # cur /\ outcome[c] = "pending"
    BY <1>1, <1>2 DEF LoopTypeOK
  <2>2. CASE c \in ToSet(backlog)
    <3>1. PICK i \in DOMAIN backlog : c = backlog[i]
      BY <2>2 DEF ToSet
    <3>2. /\ backlog # <<>> /\ Len(backlog) \in Nat /\ DOMAIN backlog = 1..Len(backlog)
          /\ cur' = Head(backlog) /\ backlog' = Tail(backlog)
      BY <3>1 DEF LoopTypeOK, Settle, NextItem, Execute
    <3>3. /\ Head(backlog) = backlog[1]
          /\ Len(Tail(backlog)) = Len(backlog) - 1 /\ Tail(backlog) \in Seq(Cmd)
          /\ \A j \in 1..(Len(backlog) - 1) : Tail(backlog)[j] = backlog[j + 1]
      BY <3>2, HeadTailProperties DEF LoopTypeOK
    <3>4. CASE i = 1
      BY <3>1, <3>2, <3>3, <3>4
    <3>5. CASE i # 1
      <4>1. i - 1 \in 1..(Len(backlog) - 1) /\ (i - 1) + 1 = i
        BY <3>2, <3>5
      <4>2. i - 1 \in DOMAIN Tail(backlog) /\ Tail(backlog)[i - 1] = c
        BY <3>1, <3>3, <4>1
      <4> QED
        BY <3>2, <4>2 DEF ToSet
    <3> QED
      BY <3>4, <3>5
  <2> QED
    BY <2>1, <2>2 DEF NothingLost
<1> QED
  BY <1>2 DEF NothingLost

LEMMA NothingLostKept == IInv /\ NothingLost /\ [Next]_vars => NothingLost'
<1> SUFFICES ASSUME IInv, NothingLost, [Next]_vars PROVE NothingLost'
  OBVIOUS
<1> USE DEF IInv, Base, TypeOK
<1>1. CASE UNCHANGED <<outcome, backlog, cur, ended, ignored>>
  BY <1>1 DEF NothingLost, ToSet
<1>2. ASSUME NEW c \in Cmd, Submit(c)
      PROVE  NothingLost'
  <2>1. /\ ended' = ended /\ ignored \subseteq ignored'
        /\ ignored' # ignored => ended
        /\ \A d \in Cmd \ {c} : outcome'[d] = outcome[d]
    BY <1>2 DEF Submit, LoopTypeOK, history
  <2>2. c = cur' \/ c \in ToSet(backlog') \/ c \in ignored'
    <3>1. CASE ~ended /\ pc # "listening"
      <4>1. /\ backlog' = Append(backlog, c) /\ Len(backlog) + 1 \in DOMAIN Append(backlog, c)
            /\ Append(backlog, c)[Len(backlog) + 1] = c
        BY <1>2, <3>1, AppendProperties DEF Submit, LoopTypeOK
      <4> QED
        BY <4>1 DEF ToSet
    <3>2. CASE ended \/ pc = "listening"
      BY <1>2, <3>2 DEF Submit, Execute
    <3> QED
      BY <3>1, <3>2
  <2>3. ASSUME NEW d \in Cmd, d = cur \/ d \in ToSet(backlog)
        PROVE  d = cur' \/ d \in ToSet(backlog')
    <3>1. CASE ~ended /\ pc = "listening"
      <4>1. cur = NoCmd /\ DOMAIN backlog = {}
        BY <3>1 DEF LoopAgrees
      <4> QED
        BY <2>3, <4>1, ConstantsAssumption DEF ToSet, ConstantsAssumption
    <3>2. CASE ~ended /\ pc # "listening"
      <4>1. /\ cur' = cur /\ backlog' = Append(backlog, c)
            /\ \A i \in DOMAIN backlog : i \in DOMAIN Append(backlog, c)
                                        /\ Append(backlog, c)[i] = backlog[i]
        BY <1>2, <3>2, AppendProperties DEF Submit, LoopTypeOK
      <4> QED
        BY <2>3, <4>1 DEF ToSet
    <3>3. CASE ended
      BY <1>2, <2>3, <3>3 DEF Submit
    <3> QED
      BY <3>1, <3>2, <3>3
  <2> QED
    BY <2>1, <2>2, <2>3 DEF NothingLost
<1>3. CASE DestroyQueue
  <2>1. /\ ended' /\ ignored' = ignored /\ cur' = cur
        /\ \A c \in Cmd : outcome'[c] = "pending" => /\ outcome[c] = "pending"
                                                    /\ c \notin ToSet(backlog)
    BY <1>3 DEF DestroyQueue, LoopTypeOK, history
  <2> QED
    BY <2>1 DEF NothingLost
<1>4. ASSUME NEW o \in Outcome, Settle(o), cur # NoCmd, UNCHANGED <<ended, ignored>>
      PROVE  NothingLost'
  BY <1>4, SettleLosesNothing
<1> QED
  BY <1>1, <1>2, <1>3, <1>4, StepKinds DEF vars, driverVars, history

(* The drain loop and the AsyncQueue agree in every state: every command    *)
(* that was queued before the queue was closed and is still pending is      *)
(* being executed or waits exactly once (drainSerialAPIQueue,               *)
(* AsyncQueue.add, next and abort).                                         *)
THEOREM QueueConsistency == Spec => []QueueConsistent
<1>1. Init => NothingLost
  BY DEF Init, NothingLost
<1>2. IInv /\ NothingLost => QueueConsistent
  BY DEF IInv, Base, QueueConsistent
<1> QED
  BY <1>1, <1>2, InitIInv, NextIInv, NothingLostKept, PTL DEF Spec

LEMMA QueueStep == IInv /\ [Next]_vars => [Queue!Next]_Queue!vars
<1> SUFFICES ASSUME IInv, [Next]_vars
             PROVE  Queue!Next \/ UNCHANGED <<outcome, backlog, cur, ended>>
  BY DEF Queue!vars
<1> USE DEF IInv, Base, TypeOK
<1>1. CASE UNCHANGED vars
  BY <1>1 DEF vars, driverVars
<1>2. ASSUME NEW c \in Cmd, Submit(c)
      PROVE  Queue!Submit(c)
  BY <1>2 DEF Submit, Queue!Submit, Execute, LoopAgrees
<1>3. CASE DestroyQueue
  BY <1>3 DEF DestroyQueue, Queue!Next, Queue!Close, ToSet, Queue!ToSet
<1>4. ASSUME NEW o \in Outcome, Settle(o), cur # NoCmd, UNCHANGED ended
      PROVE  Queue!Finish(o)
  BY <1>4 DEF Settle, NextItem, Execute, Queue!Finish, LoopAgrees
<1> QED
  BY <1>1, <1>2, <1>3, <1>4, StepKinds DEF Queue!Next

(* Commands are executed one at a time in the order in which they were     *)
(* queued and get one outcome each: collisions, late answers, aborts and   *)
(* restarts of the controller do not show (drainSerialAPIQueue).           *)
THEOREM Refinement == Spec => ImplementsQueue
<1>1. Init => Queue!Init
  BY DEF Init, Queue!Init
<1> QED
  BY <1>1, InitIInv, NextIInv, QueueStep, PTL DEF Spec, ImplementsQueue, Queue!Spec
-----------------------------------------------------------------------------
(* What is known of the commands that were settled: which answers are      *)
(* still to come, and for whom.  The invariant relates the frames on the   *)
(* line and the work of the controller to the outcomes.                    *)

Settled(c) == outcome[c] \notin {"none", "pending"}
IsAnswer(f) == f.type \in {"response", "callback"}
FrameOf(c, i) == IsAnswer(wire[i]) /\ wire[i].cmd = c

(* Answers are of the kind the command calls for, and one that ends the    *)
(* command was noted when it was sent.                                     *)
HonestFrame(f) ==
    /\ f.type = "response" => ExpectsResponse(f.cmd)
    /\ f.type = "callback" => ExpectsCallback(f.cmd)
    /\ f.type = "callback" /\ f.ok /\ f.final => f.cmd \in answered
    /\ f.type = "callback" /\ ~f.final => f.ok /\ Kind[f.cmd] = "callback"
    /\ f.type = "response" /\ f.ok /\ ~ExpectsCallback(f.cmd) => f.cmd \in answered
FramesAreHonest == \A i \in DOMAIN wire : HonestFrame(wire[i])

JobsAreOwed ==
    \A c \in Cmd : job[c] # "idle" => ExpectsResponse(c) \/ ExpectsCallback(c)

(* A command that was not sent yet has no trace at the other side.         *)
Unsent(c) ==
    \/ outcome[c] = "none"
    \/ outcome[c] = "pending" /\ c # cur
    \/ c = cur /\ pc = "sending" /\ c \notin resent
UnsentIsUntouched ==
    \A c \in Cmd : Unsent(c) => job[c] = "idle" /\ \A i \in DOMAIN wire : ~FrameOf(c, i)

(* A command that was sent once is answered in order: one response, which  *)
(* comes first, and nothing after what ends it.                            *)
InOrder(c, j) ==
    /\ job[c] # "accepted"
    /\ wire[j].type = "response" /\ (~wire[j].ok \/ ~ExpectsCallback(c)) => job[c] = "idle"
    /\ wire[j].type = "callback" /\ wire[j].final => job[c] = "idle"
    /\ \A i \in 1..(j - 1) : FrameOf(c, i) => wire[j].type # "response"
SentOnceInOrder ==
    \A c \in Cmd \ resent : \A j \in DOMAIN wire : FrameOf(c, j) => InOrder(c, j)

(* What is left of a command that was settled is due to one of its kind    *)
(* that was given up or sent twice.                                        *)
Residue(c) ==
    \/ job[c] # "idle"
    \/ \E i \in DOMAIN wire : wire[i].type = "response" /\ wire[i].cmd = c
Suspect(d) == Settled(d) /\ (GivenUp(d) \/ d \in resent)
ResidueIsExplained ==
    \A c \in Cmd : Settled(c) /\ Residue(c) =>
      \E d \in Cmd : Kind[d] = Kind[c] /\ Suspect(d)

(* A missed response is remembered until the command is settled.           *)
MissedWaits ==
    \A c \in missed :
      \/ outcome[c] \notin {"none", "pending", "NOK report", "callback NOK"}
      \/ c = cur /\ pc = "waitingForCallback" /\ timedOut /\ IsSendData(c)

Line == FramesAreHonest /\ JobsAreOwed /\ UnsentIsUntouched /\ SentOnceInOrder
HInv == /\ IInv /\ Line /\ ResidueIsExplained /\ MissedWaits
        /\ SuccessWasAnswered /\ ResponseIsOwnOrLate

(* The answers on the line are those that were there before: what changed  *)
(* is that one was read, all were dropped, or something else was added.    *)
NoNewAnswers ==
    \E m \in Nat : \A i \in DOMAIN wire' :
      \/ i + m \in DOMAIN wire /\ wire'[i] = wire[i + m]
      \/ ~IsAnswer(wire'[i])

LEMMA WireMoves ==
    ASSUME TypeOK
    PROVE  /\ wire' = wire => NoNewAnswers
           /\ wire' = <<>> => NoNewAnswers
           /\ wire # <<>> /\ wire' = Tail(wire) => NoNewAnswers
           /\ \A r \in Reply : wire' = Replied(wire, r) => NoNewAnswers
<1> USE DEF TypeOK, LineTypeOK
<1>a. DOMAIN wire = 1..Len(wire) /\ Len(wire) \in Nat
  OBVIOUS
<1>1. ASSUME wire' = wire PROVE NoNewAnswers
  <2>1. 0 \in Nat /\ \A i \in DOMAIN wire' : i + 0 \in DOMAIN wire /\ wire'[i] = wire[i + 0]
    BY <1>1, <1>a
  <2> QED
    BY <2>1 DEF NoNewAnswers
<1>2. ASSUME wire' = <<>> PROVE NoNewAnswers
  BY <1>2 DEF NoNewAnswers
<1>3. ASSUME wire # <<>>, wire' = Tail(wire) PROVE NoNewAnswers
  <2>1. 1 \in Nat /\ \A i \in DOMAIN wire' : i + 1 \in DOMAIN wire /\ wire'[i] = wire[i + 1]
    BY <1>3, <1>a, HeadTailProperties
  <2> QED
    BY <2>1 DEF NoNewAnswers
<1>4. ASSUME NEW r \in Reply, wire' = Replied(wire, r) PROVE NoNewAnswers
  <2>1. CASE r \in Headers
    <3>1. wire' = Append(wire, [type |-> r]) /\ ~IsAnswer([type |-> r])
      BY <1>4, <2>1 DEF Replied, Headers, IsAnswer
    <3>2. /\ DOMAIN wire' = 1..(Len(wire) + 1) /\ wire'[Len(wire) + 1] = [type |-> r]
          /\ \A i \in 1..Len(wire) : wire'[i] = wire[i]
      BY <3>1, <1>a, AppendProperties
    <3>3. \A i \in DOMAIN wire' :
            (i + 0 \in DOMAIN wire /\ wire'[i] = wire[i + 0]) \/ ~IsAnswer(wire'[i])
      BY <3>1, <3>2, <1>a
    <3> QED
      BY <3>3 DEF NoNewAnswers
  <2>2. CASE r \notin Headers
    BY <1>1, <1>4, <2>2 DEF Replied
  <2> QED
    BY <2>1, <2>2
<1> QED
  BY <1>1, <1>2, <1>3, <1>4

(* The settled or waiting command makes nothing unsent.                    *)
LEMMA SettleSends ==
    ASSUME Base, cur # NoCmd, NEW o \in Outcome, Settle(o)
    PROVE  \A c \in Cmd : /\ Unsent(c)' => Unsent(c) /\ c # cur
                          /\ c # cur => outcome'[c] = outcome[c]
                          /\ outcome'[cur] = o
<1> USE DEF Base, TypeOK
<1>1. cur \in Cmd /\ outcome' = [outcome EXCEPT ![cur] = o] /\ o \notin {"none", "pending"}
  BY DEF LoopTypeOK, Settle, Outcome
<1>2. \A c \in Cmd : /\ c # cur => outcome'[c] = outcome[c]
                     /\ outcome'[cur] = o
  BY <1>1 DEF LoopTypeOK
<1>3. ASSUME NEW c \in Cmd, c = cur'
      PROVE  c # cur /\ outcome[c] = "pending"
  <2>1. backlog # <<>> /\ cur' = Head(backlog)
    BY <1>3, ConstantsAssumption DEF Settle, NextItem, Execute, ConstantsAssumption
  <2>2. Head(backlog) = backlog[1] /\ 1 \in DOMAIN backlog
    BY <2>1, HeadTailProperties DEF LoopTypeOK
  <2> QED
    BY <1>3, <2>1, <2>2 DEF LoopAgrees
<1> QED
  BY <1>1, <1>2, <1>3 DEF Unsent

LEMMA AwaitSends ==
    ASSUME Base, cur # NoCmd, NEW s \in PC \ {"sending"}, NEW late, Await(s, late)
    PROVE  outcome' = outcome /\ \A c \in Cmd : Unsent(c)' => Unsent(c) /\ c # cur
BY DEF Base, LoopAgrees, Await, Unsent

(* What every step does to the line and to the commands that were not sent *)
(* yet, unless the controller takes it.                                    *)
DriverStep ==
    \/ \E c \in Cmd : Submit(c)
    \/ FrameArrives \/ Progress
    \/ SendDataAbortTimeout \/ AbortFromOutside \/ AbortWaitExpires
    \/ DestroyQueue \/ DestroyController

Sends ==
    /\ MessageSent
    /\ ExpectsResponse(cur) \/ ExpectsCallback(cur)
    /\ job' = [job EXCEPT ![cur] = "accepted"]

LEMMA DriverKeepsAnswers ==
    ASSUME IInv, DriverStep
    PROVE  /\ NoNewAnswers
           /\ answered' = answered /\ resent \subseteq resent'
           /\ job' = job \/ Sends
<1> USE DEF IInv, Base, TypeOK
<1>a. ASSUME NEW t, Arrived(t), Receive
      PROVE  NoNewAnswers /\ answered' = answered /\ resent' = resent /\ job' = job
  BY <1>a, WireMoves DEF history, Arrived, Receive
<1>b. ASSUME WriteAbort PROVE NoNewAnswers
  BY <1>b, WireMoves DEF WriteAbort
<1>c. wire' = wire => NoNewAnswers
  BY WireMoves
<1>1. CASE \E c \in Cmd : Submit(c)
  BY <1>1, <1>c DEF Submit
<1>2. CASE FrameArrives
  BY <1>2, <1>a DEF FrameArrives, HeaderForAbort, HeaderForNobody, AckArrives,
     NakArrives, CanArrives, HeaderForCommand, ResponseArrives, CallbackArrives,
     RestartReported
<1>3. CASE Progress
  <2>1. CASE MessageSent
    BY <2>1, WireMoves DEF history, MessageSent, Sends
  <2>2. CASE BackoffEnds
    BY <2>2, <1>c DEF BackoffEnds
  <2>3. CASE ResponseTimeout
    BY <2>3, <1>b, <1>c DEF ResponseTimeout
  <2>4. CASE WriteFails \/ CommandAborted \/ AckTimeout \/ CallbackTimeout
    BY <2>4, <1>c DEF history, WriteFails, CommandAborted, AckTimeout, CallbackTimeout
  <2> QED
    BY <1>3, <2>1, <2>2, <2>3, <2>4 DEF Progress
<1>4. CASE SendDataAbortTimeout \/ AbortFromOutside
  BY <1>4, <1>b DEF history, SendDataAbortTimeout, AbortFromOutside
<1>5. CASE AbortWaitExpires \/ DestroyQueue
  BY <1>5, <1>c DEF history, AbortWaitExpires, DestroyQueue
<1>6. CASE DestroyController
  BY <1>6, WireMoves DEF history, DestroyController
<1> QED
  BY <1>1, <1>2, <1>3, <1>4, <1>5, <1>6 DEF DriverStep

(* The driver sends nothing but the message of the current command.        *)
LEMMA DriverSends ==
    ASSUME IInv, DriverStep, NEW c \in Cmd, Unsent(c)'
    PROVE  Unsent(c)
<1> USE DEF IInv, Base, TypeOK
<1>a. ASSUME NEW o \in Outcome, Settle(o), cur # NoCmd
      PROVE  Unsent(c) /\ c # cur
  BY <1>a, SettleSends
<1>b. ASSUME NEW s \in PC \ {"sending"}, NEW late, Await(s, late), cur # NoCmd
      PROVE  Unsent(c) /\ c # cur
  BY <1>b, AwaitSends
<1>c. UNCHANGED <<outcome, pc, cur, resent>> => Unsent(c)
  BY DEF Unsent
<1>1. CASE \E d \in Cmd : Submit(d)
  <2> PICK d \in Cmd : Submit(d)
    BY <1>1
  <2>1. /\ outcome[d] = "none" /\ \A e \in Cmd \ {d} : outcome'[e] = outcome[e]
        /\ UNCHANGED <<pc, cur>> \/ (cur' = d /\ cur = NoCmd)
        /\ resent' = resent
    BY DEF Submit, Execute, LoopTypeOK, LoopAgrees
  <2>2. NoCmd \notin Cmd
    BY ConstantsAssumption DEF ConstantsAssumption
  <2> QED
    BY <2>1, <2>2 DEF Unsent
<1>2. CASE FrameArrives
  <2>1. CASE HeaderForAbort \/ HeaderForNobody \/ RestartReported
    BY <1>2, <2>1, <1>c DEF history, HeaderForAbort, HeaderForNobody, RestartReported,
       driverVars, Receive
  <2>2. CASE AckArrives \/ NakArrives
    <3>1. cur # NoCmd
      BY <2>2, HeaderMeansBusy DEF AckArrives, NakArrives
    <3> QED
      BY <1>2, <2>2, <3>1, <1>a, <1>b DEF AckArrives, NakArrives, PC, Outcome
  <2>3. CASE CanArrives
    <3>1. cur # NoCmd
      BY <2>3, HeaderMeansBusy DEF CanArrives
    <3>2. CASE attempt < MaxAttempts
      BY <1>2, <2>3, <3>1, <3>2 DEF CanArrives, HeaderForCommand, Receive, Unsent
    <3>3. CASE ~(attempt < MaxAttempts)
      BY <1>2, <2>3, <3>1, <3>3, <1>a DEF CanArrives, Outcome
    <3> QED
      BY <3>2, <3>3
  <2>4. CASE ResponseArrives
    <3>1. Listens("waitingForResponse") => cur # NoCmd
      BY BusyLoop DEF Listens
    <3> QED
      BY <1>2, <2>4, <3>1, <1>a, <1>b, <1>c DEF history, ResponseArrives, Receive, PC, Outcome
  <2>5. CASE CallbackArrives
    <3>1. Listens("waitingForCallback") => cur # NoCmd
      BY BusyLoop DEF Listens
    <3> QED
      BY <1>2, <2>5, <3>1, <1>a, <1>b, <1>c DEF history, CallbackArrives, Receive, PC, Outcome
  <2> QED
    BY <1>2, <2>1, <2>2, <2>3, <2>4, <2>5 DEF FrameArrives
<1>3. CASE Progress
  <2>0. cur # NoCmd
    BY <1>3, BusyLoop DEF Progress, MessageSent, BackoffEnds, CommandAborted,
       WriteFails, AckTimeout, ResponseTimeout, CallbackTimeout, Listens
  <2>1. CASE MessageSent
    BY <2>0, <2>1, <1>a, <1>b DEF MessageSent, PC, Outcome
  <2>2. CASE BackoffEnds
    BY <2>0, <2>2 DEF BackoffEnds, Execute, Unsent
  <2>3. CASE ResponseTimeout
    BY <2>0, <2>3, <1>a, <1>b DEF ResponseTimeout, PC, Outcome
  <2>4. CASE WriteFails \/ CommandAborted
    BY <2>0, <2>4, <1>a DEF WriteFails, CommandAborted, Outcome
  <2>5. CASE AckTimeout \/ CallbackTimeout
    BY <2>0, <2>5, <1>a DEF AckTimeout, CallbackTimeout, Outcome
  <2> QED
    BY <1>3, <2>1, <2>2, <2>3, <2>4, <2>5 DEF Progress
<1>4. CASE SendDataAbortTimeout \/ AbortFromOutside \/ AbortWaitExpires
  BY <1>4, <1>c DEF history, SendDataAbortTimeout, AbortFromOutside, AbortWaitExpires,
     driverVars
<1>5. CASE DestroyQueue
  <2>1. /\ UNCHANGED <<cur, resent>> /\ (pc' = "sending" => pc = "sending")
        /\ outcome'[c] = outcome[c] \/ (outcome[c] = "pending" /\ outcome'[c] = "dropped")
    BY <1>5 DEF history, DestroyQueue, ToSet, LoopAgrees, LoopTypeOK
  <2> QED
    BY <2>1 DEF Unsent
<1>6. CASE DestroyController
  BY <1>6, <1>c DEF history, DestroyController
<1> QED
  BY <1>1, <1>2, <1>3, <1>4, <1>5, <1>6 DEF DriverStep

LEMMA MessageSends ==
    ASSUME IInv, MessageSent, NEW c \in Cmd, Unsent(c)'
    PROVE  c # cur
<1>1. Base /\ cur # NoCmd
  BY BusyLoop DEF IInv, MessageSent
<1>2. Await("waitingForACK", FALSE) \/ Settle("ok")
  BY DEF MessageSent
<1> QED
  BY <1>1, <1>2, SettleSends, AwaitSends DEF PC, Outcome

(* The line after a step of the driver.                                    *)
LEMMA DriverKeepsLine ==
    ASSUME IInv, Line, DriverStep
    PROVE  Line'
<1> USE DEF Line
<1>a. /\ NoNewAnswers /\ answered' = answered /\ resent \subseteq resent'
      /\ job' = job \/ Sends
  BY DriverKeepsAnswers
<1>b. PICK m \in Nat : \A i \in DOMAIN wire' :
        \/ i + m \in DOMAIN wire /\ wire'[i] = wire[i + m]
        \/ ~IsAnswer(wire'[i])
  BY <1>a DEF NoNewAnswers
<1>c. (cur \in Cmd /\ pc = "sending" /\ Unsent(cur)) \/ cur \in resent \/ ~Sends
  BY BusyLoop DEF Sends, MessageSent, IInv, Unsent
<1>d. wire' \in Seq(Frame) /\ wire \in Seq(Frame) /\ job \in [Cmd -> Jobs]
  BY NextIInv DEF IInv, Base, TypeOK, LineTypeOK, DriverStep, Next
<1>1. FramesAreHonest'
  <2> SUFFICES ASSUME NEW i \in DOMAIN wire'
               PROVE  HonestFrame(wire[i])'
    BY DEF FramesAreHonest
  <2>1. CASE ~IsAnswer(wire'[i])
    BY <2>1 DEF HonestFrame, IsAnswer
  <2>2. CASE i + m \in DOMAIN wire /\ wire'[i] = wire[i + m]
    BY <2>2, <1>a DEF HonestFrame, FramesAreHonest
  <2> QED
    BY <1>b, <2>1, <2>2
<1>2. JobsAreOwed'
  BY <1>a, <1>d DEF JobsAreOwed, Sends
<1>3. UnsentIsUntouched'
  <2> SUFFICES ASSUME NEW c \in Cmd, Unsent(c)'
               PROVE  job'[c] = "idle" /\ \A i \in DOMAIN wire' : ~FrameOf(c, i)'
    BY DEF UnsentIsUntouched
  <2>1. Unsent(c) /\ (Sends => c # cur)
    BY DriverSends, MessageSends DEF Sends
  <2>2. job[c] = "idle" /\ \A i \in DOMAIN wire : ~FrameOf(c, i)
    BY <2>1 DEF UnsentIsUntouched
  <2>3. job'[c] = "idle"
    BY <1>a, <1>d, <2>1, <2>2 DEF Sends
  <2>4. \A i \in DOMAIN wire' : ~FrameOf(c, i)'
    BY <1>b, <2>2 DEF FrameOf
  <2> QED
    BY <2>3, <2>4
<1>4. SentOnceInOrder'
  <2> SUFFICES ASSUME NEW c \in Cmd \ resent', NEW j \in DOMAIN wire', FrameOf(c, j)'
               PROVE  InOrder(c, j)'
    BY DEF SentOnceInOrder
  <2>1. c \in Cmd \ resent /\ j \in Nat \ {0} /\ j + m \in DOMAIN wire
        /\ wire'[j] = wire[j + m] /\ FrameOf(c, j + m)
    BY <1>a, <1>b, <1>d DEF FrameOf
  <2>2. InOrder(c, j + m)
    BY <2>1 DEF SentOnceInOrder
  <2>3. job'[c] = job[c]
    <3>1. CASE Sends
      <4>1. c # cur
        BY <1>c, <2>1, <3>1 DEF UnsentIsUntouched
      <4> QED
        BY <3>1, <4>1, <1>d DEF Sends
    <3> QED
      BY <1>a, <3>1
  <2>4. \A i \in 1..(j - 1) : FrameOf(c, i)' => wire'[j].type # "response"
    <3> SUFFICES ASSUME NEW i \in 1..(j - 1), FrameOf(c, i)'
                 PROVE  wire'[j].type # "response"
      OBVIOUS
    <3>1. i \in DOMAIN wire'
      BY <1>d, <2>1
    <3>2. wire'[i] = wire[i + m] /\ FrameOf(c, i + m) /\ i + m \in 1..(j + m - 1)
      BY <1>b, <2>1, <3>1 DEF FrameOf
    <3> QED
      BY <2>1, <2>2, <3>2 DEF InOrder
  <2> QED
    BY <2>1, <2>2, <2>3, <2>4 DEF InOrder
<1> QED
  BY <1>1, <1>2, <1>3, <1>4

(* The line after a step of the controller.                                *)
LEMMA AppendFrame ==
    ASSUME NEW s, s \in Seq(Frame), NEW f
    PROVE  /\ DOMAIN Append(s, f) = 1..(Len(s) + 1) /\ DOMAIN s = 1..Len(s) /\ Len(s) \in Nat
           /\ \A i \in 1..Len(s) : Append(s, f)[i] = s[i]
           /\ Append(s, f)[Len(s) + 1] = f
BY AppendProperties

LEMMA AnswerKeepsLine ==
    ASSUME Base, Line, NEW c \in Cmd, NEW f, UNCHANGED <<driverVars, resent>>,
           wire' = Append(wire, f), IsAnswer(f), f.cmd = c,
           answered \subseteq answered', HonestFrame(f)',
           job[c] # "idle", NEW s \in Jobs \ {"accepted"}, job' = [job EXCEPT ![c] = s],
           f.type = "response" => job[c] = "accepted",
           f.type = "response" /\ (~f.ok \/ ~ExpectsCallback(c)) => s = "idle",
           f.type = "callback" /\ f.final => s = "idle"
    PROVE  Line'
<1> USE DEF Line, Base, TypeOK, LineTypeOK
<1>1. /\ DOMAIN wire' = 1..(Len(wire) + 1) /\ DOMAIN wire = 1..Len(wire) /\ Len(wire) \in Nat
      /\ \A i \in 1..Len(wire) : wire'[i] = wire[i]
      /\ wire'[Len(wire) + 1] = f
  BY AppendFrame
<1>2. FramesAreHonest'
  BY <1>1 DEF FramesAreHonest, HonestFrame
<1>3. JobsAreOwed'
  BY DEF JobsAreOwed
<1>4. UnsentIsUntouched'
  <2> SUFFICES ASSUME NEW d \in Cmd, Unsent(d)'
               PROVE  job'[d] = "idle" /\ \A i \in DOMAIN wire' : ~FrameOf(d, i)'
    BY DEF UnsentIsUntouched
  <2>1. Unsent(d)
    BY DEF Unsent, driverVars
  <2>2. d # c /\ job[d] = "idle" /\ \A i \in DOMAIN wire : ~FrameOf(d, i)
    BY <2>1 DEF UnsentIsUntouched
  <2> QED
    BY <1>1, <2>2 DEF FrameOf
<1>5. SentOnceInOrder'
  <2> SUFFICES ASSUME NEW d \in Cmd \ resent', NEW j \in DOMAIN wire', FrameOf(d, j)'
               PROVE  InOrder(d, j)'
    BY DEF SentOnceInOrder
  <2>1. d \in Cmd \ resent
    OBVIOUS
  <2>2. CASE j = Len(wire) + 1
    <3>1. d = c /\ wire'[j] = f /\ job'[c] = s
      BY <1>1, <2>2 DEF FrameOf
    <3>2. \A i \in 1..(j - 1) : FrameOf(d, i)' => f.type # "response"
      <4> SUFFICES ASSUME NEW i \in 1..(j - 1), FrameOf(d, i)', f.type = "response"
                   PROVE  FALSE
        OBVIOUS
      <4>1. i \in DOMAIN wire /\ FrameOf(d, i)
        BY <1>1, <2>2 DEF FrameOf
      <4> QED
        BY <2>1, <3>1, <4>1 DEF SentOnceInOrder, InOrder
    <3> QED
      BY <3>1, <3>2 DEF InOrder
  <2>3. CASE j # Len(wire) + 1
    <3>1. j \in DOMAIN wire /\ wire'[j] = wire[j] /\ FrameOf(d, j)
      BY <1>1, <2>3 DEF FrameOf
    <3>2. InOrder(d, j)
      BY <2>1, <3>1 DEF SentOnceInOrder
    <3>3. job'[d] # "accepted" /\ (job[d] = "idle" => job'[d] = "idle")
      BY <3>2 DEF InOrder
    <3>4. \A i \in 1..(j - 1) : FrameOf(d, i)' => FrameOf(d, i)
      BY <1>1, <3>1 DEF FrameOf
    <3> QED
      BY <3>1, <3>2, <3>3, <3>4 DEF InOrder
  <2> QED
    BY <2>2, <2>3
<1> QED
  BY <1>2, <1>3, <1>4, <1>5

LEMMA SilenceKeepsLine ==
    ASSUME Base, Line, UNCHANGED <<driverVars, resent, answered>>,
           NEW r, wire' = wire \/ (~IsAnswer(r) /\ wire' = Append(wire, r)),
           job' \in [Cmd -> Jobs], \A c \in Cmd : job'[c] \in {"idle", job[c]}
    PROVE  Line'
<1> USE DEF Line, Base, TypeOK, LineTypeOK
<1>1. /\ DOMAIN wire \subseteq DOMAIN wire' /\ DOMAIN wire = 1..Len(wire) /\ Len(wire) \in Nat
      /\ \A i \in DOMAIN wire' : IF i \in DOMAIN wire THEN wire'[i] = wire[i]
                                                     ELSE ~IsAnswer(wire'[i])
  <2>1. CASE wire' = wire
    BY <2>1
  <2>2. CASE ~IsAnswer(r) /\ wire' = Append(wire, r)
    BY <2>2, AppendFrame
  <2> QED
    BY <2>1, <2>2
<1>2. FramesAreHonest' /\ JobsAreOwed'
  BY <1>1 DEF FramesAreHonest, HonestFrame, JobsAreOwed, IsAnswer
<1>3. UnsentIsUntouched'
  BY <1>1 DEF UnsentIsUntouched, Unsent, FrameOf, driverVars
<1>4. SentOnceInOrder'
  <2> SUFFICES ASSUME NEW c \in Cmd \ resent', NEW j \in DOMAIN wire', FrameOf(c, j)'
               PROVE  InOrder(c, j)'
    BY DEF SentOnceInOrder
  <2>1. j \in DOMAIN wire /\ wire'[j] = wire[j] /\ FrameOf(c, j)
    BY <1>1 DEF FrameOf
  <2>2. InOrder(c, j) /\ (\A i \in 1..(j - 1) : FrameOf(c, i)' => FrameOf(c, i))
    BY <1>1, <2>1 DEF SentOnceInOrder, FrameOf
  <2> QED
    BY <2>1, <2>2 DEF InOrder
<1> QED
  BY <1>2, <1>3, <1>4

LEMMA ControllerKeepsLine ==
    ASSUME Base, Line, Controller
    PROVE  Line' /\ UNCHANGED <<driverVars, missed, resent>> /\ answered \subseteq answered'
<1> USE DEF Base, TypeOK, LineTypeOK
<1>1. ASSUME NEW c \in Cmd, ControllerResponds(c)
      PROVE  Line' /\ UNCHANGED <<driverVars, missed, resent>> /\ answered \subseteq answered'
  <2>1. PICK ok \in BOOLEAN :
          /\ wire' = Append(wire, [type |-> "response", cmd |-> c, ok |-> ok])
          /\ job' = [job EXCEPT ![c] = IF ok /\ ExpectsCallback(c)
                                        THEN "responded" ELSE "idle"]
          /\ answered' = IF ok /\ ~ExpectsCallback(c) THEN answered \cup {c}
                                                     ELSE answered
    BY <1>1 DEF ControllerResponds
  <2> DEFINE f == [type |-> "response", cmd |-> c, ok |-> ok]
             s == IF ok /\ ExpectsCallback(c) THEN "responded" ELSE "idle"
  <2>2. /\ IsAnswer(f) /\ f.cmd = c /\ f.type = "response" /\ f.ok = ok
        /\ HonestFrame(f)' /\ s \in Jobs \ {"accepted"}
        /\ job[c] = "accepted" /\ UNCHANGED <<driverVars, missed, resent>>
        /\ answered \subseteq answered'
    BY <1>1, <2>1 DEF ControllerResponds, IsAnswer, HonestFrame, Jobs
  <2>3. job' = [job EXCEPT ![c] = s] /\ wire' = Append(wire, f)
        /\ (~f.ok \/ ~ExpectsCallback(c) => s = "idle")
    BY <2>1
  <2> HIDE DEF f, s
  <2> QED
    BY <2>2, <2>3, AnswerKeepsLine
<1>2. ASSUME NEW c \in Cmd, ControllerCallsBack(c)
      PROVE  Line' /\ UNCHANGED <<driverVars, missed, resent>> /\ answered \subseteq answered'
  <2>1. PICK ok \in BOOLEAN, final \in BOOLEAN :
          /\ ~final => ok /\ Kind[c] = "callback" /\ job[c] # "progressed"
          /\ wire' = Append(wire, [type |-> "callback", cmd |-> c, ok |-> ok,
                                   final |-> final])
          /\ job' = [job EXCEPT ![c] = IF final THEN "idle" ELSE "progressed"]
          /\ answered' = IF ok /\ final THEN answered \cup {c} ELSE answered
    BY <1>2 DEF ControllerCallsBack
  <2> DEFINE f == [type |-> "callback", cmd |-> c, ok |-> ok, final |-> final]
             s == IF final THEN "idle" ELSE "progressed"
  <2>2. /\ IsAnswer(f) /\ f.cmd = c /\ f.type = "callback" /\ f.final = final
        /\ HonestFrame(f)' /\ s \in Jobs \ {"accepted"}
        /\ job[c] # "idle" /\ UNCHANGED <<driverVars, missed, resent>>
        /\ answered \subseteq answered'
    BY <1>2, <2>1 DEF ControllerCallsBack, IsAnswer, HonestFrame, Jobs
  <2>3. job' = [job EXCEPT ![c] = s] /\ wire' = Append(wire, f)
        /\ (f.final => s = "idle")
    BY <2>1
  <2> HIDE DEF f, s
  <2> QED
    BY <2>2, <2>3, AnswerKeepsLine
<1>3. ASSUME NEW c \in Cmd, ControllerForgets(c)
      PROVE  Line' /\ UNCHANGED <<driverVars, missed, resent>> /\ answered \subseteq answered'
  <2>1. /\ UNCHANGED <<driverVars, wire, resets, history>>
        /\ job' \in [Cmd -> Jobs] /\ \A d \in Cmd : job'[d] \in {"idle", job[d]}
    BY <1>3 DEF ControllerForgets, Jobs
  <2> QED
    BY <2>1, SilenceKeepsLine DEF history
<1>4. CASE ControllerResets
  <2>1. /\ UNCHANGED <<driverVars, missed, answered, resent>>
        /\ wire' = Append(wire, [type |-> "started"]) /\ ~IsAnswer([type |-> "started"])
        /\ job' \in [Cmd -> Jobs] /\ \A d \in Cmd : job'[d] \in {"idle", job[d]}
    BY <1>4 DEF history, ControllerResets, Jobs, IsAnswer
  <2> QED
    BY <2>1, SilenceKeepsLine
<1> QED
  BY <1>1, <1>2, <1>3, <1>4 DEF Controller

(* What settles the current command leaves its residue explained.          *)
GivesUp == {"ACK timeout", "response timeout", "callback timeout", "CAN", "NAK",
            "reset", "destroyed"}
OtherSuspect(c) == \E d \in Cmd \ {c} : Kind[d] = Kind[c] /\ Suspect(d)
Explained(c, o) == o \in GivesUp \/ c \in resent \/ OtherSuspect(c) \/ ~Residue(c)'
Earned(c, o) == o = "ok" =>
    /\ ExpectsCallback(c) => c \in answered
    /\ ExpectsResponse(c) => c \in answered \/ OtherSuspect(c)

History == ResidueIsExplained /\ SuccessWasAnswered /\ ResponseIsOwnOrLate

(* The residue of a command that is not touched only shrinks.              *)
LEMMA ResidueShrinks ==
    ASSUME IInv, DriverStep, NEW c \in Cmd, Residue(c)', c # cur \/ job' = job
    PROVE  Residue(c)
<1>1. NoNewAnswers /\ (job' = job \/ Sends)
  BY DriverKeepsAnswers
<1>2. (\E i \in DOMAIN wire' : wire'[i].type = "response" /\ wire'[i].cmd = c)
         => \E i \in DOMAIN wire : wire[i].type = "response" /\ wire[i].cmd = c
  BY <1>1 DEF NoNewAnswers, IsAnswer
<1>3. job'[c] = job[c]
  BY <1>1 DEF Sends, IInv, Base, TypeOK, LineTypeOK
<1> QED
  BY <1>2, <1>3 DEF Residue

(* Outcomes are final, so a suspect stays one.                             *)
LEMMA SuspectStays ==
    ASSUME resent \subseteq resent', NEW d \in Cmd, Suspect(d),
           outcome'[d] = outcome[d]
    PROVE  Suspect(d)'
BY DEF Suspect, Settled, GivenUp

LEMMA SettleKeepsHistory ==
    ASSUME IInv, History, DriverStep, NEW e \in Cmd, e = cur,
           NEW o \in Outcome, Settle(o), job' = job, Explained(e, o), Earned(e, o)
    PROVE  History'
<1> USE DEF History
<1>1. /\ outcome[e] = "pending" /\ Settled(e)' /\ outcome'[e] = o
      /\ \A c \in Cmd \ {e} : outcome'[c] = outcome[c]
  <2>1. cur # NoCmd /\ Base
    BY ConstantsAssumption DEF ConstantsAssumption, IInv
  <2> QED
    BY <2>1, SettleSends DEF Base, LoopAgrees, Settled, Outcome
<1>2. resent \subseteq resent' /\ answered' = answered
  BY DriverKeepsAnswers
<1>3. \A d \in Cmd : Suspect(d) => Suspect(d)' /\ d # e
  BY <1>1, <1>2, SuspectStays DEF Suspect, Settled
<1>4. (o \in GivesUp \/ e \in resent) => Suspect(e)'
  BY <1>1, <1>2 DEF Suspect, GivenUp, GivesUp
<1>5. ResidueIsExplained'
  <2> SUFFICES ASSUME NEW c \in Cmd, Settled(c)', Residue(c)'
               PROVE  \E d \in Cmd : Kind[d] = Kind[c] /\ Suspect(d)'
    BY DEF ResidueIsExplained
  <2>1. CASE c = e
    BY <2>1, <1>1, <1>3, <1>4 DEF Explained, OtherSuspect
  <2>2. CASE c # e
    <3>1. Settled(c) /\ Residue(c)
      BY <2>2, <1>1, ResidueShrinks DEF Settled
    <3> QED
      BY <3>1, <1>3 DEF ResidueIsExplained
  <2> QED
    BY <2>1, <2>2
<1>6. SuccessWasAnswered'
  BY <1>1, <1>2 DEF SuccessWasAnswered, Earned
<1>7. ResponseIsOwnOrLate'
  <2> SUFFICES ASSUME NEW c \in Cmd, outcome'[c] = "ok", ExpectsResponse(c),
                      c \notin answered
               PROVE  \E d \in Cmd : d # c /\ Kind[d] = Kind[c]
                                     /\ (GivenUp(d)' \/ d \in resent')
    BY <1>2 DEF ResponseIsOwnOrLate, LateResponseFor
  <2>1. CASE c = e
    BY <2>1, <1>1, <1>3 DEF Earned, OtherSuspect, Suspect
  <2>2. CASE c # e
    <3>1. PICK d \in Cmd : d # c /\ Kind[d] = Kind[c] /\ (GivenUp(d) \/ d \in resent)
      BY <2>2, <1>1 DEF ResponseIsOwnOrLate, LateResponseFor
    <3>2. GivenUp(d) => GivenUp(d)'
      BY <1>1 DEF GivenUp
    <3> QED
      BY <3>1, <3>2, <1>2
  <2> QED
    BY <2>1, <2>2
<1> QED
  BY <1>5, <1>6, <1>7

(* So does a step that settles nothing but what was never sent.            *)
LEMMA OtherKeepsHistory ==
    ASSUME IInv, History, DriverStep,
           \A c \in Cmd : \/ outcome'[c] = outcome[c]
                          \/ ~Settled(c) /\ outcome'[c] \in {"pending", "dropped"},
           \A c \in Cmd : outcome'[c] = "dropped" => outcome[c] = "dropped" \/ ~Residue(c),
           job' = job \/ outcome' = outcome
    PROVE  History'
<1> USE DEF History
<1>2. resent \subseteq resent' /\ answered' = answered /\ (job' = job \/ Sends)
  BY DriverKeepsAnswers
<1>3. \A d \in Cmd : Suspect(d) => Suspect(d)'
  BY <1>2, SuspectStays DEF Suspect
<1>5. ResidueIsExplained'
  <2> SUFFICES ASSUME NEW c \in Cmd, Settled(c)', Residue(c)'
               PROVE  \E d \in Cmd : Kind[d] = Kind[c] /\ Suspect(d)'
    BY DEF ResidueIsExplained
  <2>1. c # cur \/ job' = job
    <3>1. Sends => outcome[cur] = "pending" /\ outcome'[cur] # "dropped"
      BY BusyLoop DEF IInv, Base, Sends, MessageSent, LoopAgrees, Settle, Outcome,
                      Await, TypeOK, LoopTypeOK, ExpectsResponse, ExpectsCallback, ExpectsAck
    <3> QED
      BY <3>1, <1>2 DEF Settled
  <2>2. Residue(c)
    BY <2>1, ResidueShrinks
  <2>3. Settled(c)
    BY <2>2 DEF Settled
  <2> QED
    BY <2>2, <2>3, <1>3 DEF ResidueIsExplained
<1>6. SuccessWasAnswered'
  BY <1>2 DEF SuccessWasAnswered
<1>7. ResponseIsOwnOrLate'
  <2> SUFFICES ASSUME NEW c \in Cmd, outcome'[c] = "ok", ExpectsResponse(c),
                      c \notin answered
               PROVE  \E d \in Cmd : d # c /\ Kind[d] = Kind[c]
                                     /\ (GivenUp(d)' \/ d \in resent')
    BY <1>2 DEF ResponseIsOwnOrLate, LateResponseFor
  <2>1. PICK d \in Cmd : d # c /\ Kind[d] = Kind[c] /\ (GivenUp(d) \/ d \in resent)
    BY DEF ResponseIsOwnOrLate, LateResponseFor
  <2>2. GivenUp(d) => GivenUp(d)'
    BY DEF GivenUp, Settled
  <2> QED
    BY <2>1, <2>2, <1>2
<1> QED
  BY <1>5, <1>6, <1>7

(* A response that is taken while the loop waits for one.                  *)
LEMMA ResponseTaken ==
    ASSUME HInv, ResponseArrives, NEW e \in Cmd, e = cur, pc = "waitingForResponse",
           NEW r, r = Head(wire), Kind[r.cmd] = Kind[cur]
    PROVE  /\ ~ExpectsCallback(e) \/ ~r.ok => Explained(e, "ok")
           /\ ~ExpectsCallback(e) /\ r.ok => Earned(e, "ok")
<1> USE DEF HInv, Line, IInv, Base, TypeOK, LineTypeOK
<1>1. /\ wire # <<>> /\ r.type = "response" /\ wire' = Tail(wire) /\ job' = job
      /\ UNCHANGED <<answered, resent>>
  BY DEF history, ResponseArrives, Arrived, Receive
<1>2. /\ 1 \in DOMAIN wire /\ r = wire[1] /\ r \in Frame /\ Len(wire) \in Nat \ {0}
      /\ \A i \in DOMAIN wire' : i + 1 \in DOMAIN wire /\ wire'[i] = wire[i + 1]
                                 /\ i \in Nat \ {0}
  BY <1>1, HeadTailProperties
<1>3. r.cmd \in Cmd /\ r.ok \in BOOLEAN /\ FrameOf(r.cmd, 1)
  BY <1>1, <1>2 DEF Frame, FrameOf, IsAnswer, Headers
<1>4. CASE r.cmd = e
  <2>1. ~ExpectsCallback(e) /\ r.ok => e \in answered
    BY <1>1, <1>2, <1>4 DEF FramesAreHonest, HonestFrame
  <2>2. ASSUME e \notin resent, ~ExpectsCallback(e) \/ ~r.ok
        PROVE  ~Residue(e)'
    <3>1. job'[e] = "idle"
      BY <1>1, <1>2, <1>3, <1>4, <2>2 DEF SentOnceInOrder, InOrder
    <3>2. ASSUME NEW i \in DOMAIN wire', wire'[i].type = "response", wire'[i].cmd = e
          PROVE  FALSE
      <4>1. i \in Nat \ {0} /\ i + 1 \in DOMAIN wire /\ wire'[i] = wire[i + 1]
        BY <1>2
      <4>2. (i + 1) - 1 = i /\ 1 \in 1..i
        <5>1. \A n \in Nat \ {0} : (n + 1) - 1 = n /\ 1 \in 1..n
          OBVIOUS
        <5> QED
          BY <4>1, <5>1
      <4>3. FrameOf(e, i + 1) /\ wire[i + 1].type = "response"
        BY <3>2, <4>1 DEF FrameOf, IsAnswer
      <4>4. InOrder(e, i + 1)
        BY <4>1, <4>3, <2>2 DEF SentOnceInOrder
      <4> QED
        BY <4>2, <4>3, <4>4, <1>3, <1>4 DEF InOrder
    <3> QED
      BY <3>1, <3>2 DEF Residue
  <2> QED
    BY <2>1, <2>2 DEF Explained, Earned
<1>5. CASE r.cmd # e
  <2>1. ~Unsent(r.cmd)
    BY <1>2, <1>3 DEF UnsentIsUntouched
  <2>2. Settled(r.cmd)
    BY <2>1, <1>3, <1>5 DEF Unsent, Settled
  <2>3. Residue(r.cmd)
    BY <1>1, <1>2 DEF Residue
  <2>4. PICK d \in Cmd : Kind[d] = Kind[r.cmd] /\ Suspect(d)
    BY <2>2, <2>3, <1>3 DEF ResidueIsExplained
  <2>5. d # e
    BY <2>4 DEF Suspect, Settled, LoopAgrees
  <2> QED
    BY <2>4, <2>5 DEF Explained, Earned, OtherSuspect
<1> QED
  BY <1>4, <1>5

(* A callback that is taken while the loop waits for one.                  *)
LEMMA CallbackTaken ==
    ASSUME HInv, CallbackArrives, NEW e \in Cmd, e = cur,
           NEW r, r = Head(wire), r.cmd = e
    PROVE  /\ r.final \/ ~r.ok => Explained(e, "ok")
           /\ r.final /\ r.ok => e \in answered
           /\ ~r.final => r.ok /\ Kind[e] = "callback"
<1> USE DEF HInv, Line, IInv, Base, TypeOK, LineTypeOK
<1>1. /\ wire # <<>> /\ r.type = "callback" /\ wire' = Tail(wire) /\ job' = job
      /\ UNCHANGED <<answered, resent>>
  BY DEF history, CallbackArrives, Arrived, Receive
<1>2. /\ 1 \in DOMAIN wire /\ r = wire[1] /\ r \in Frame /\ Len(wire) \in Nat \ {0}
      /\ \A i \in DOMAIN wire' : i + 1 \in DOMAIN wire /\ wire'[i] = wire[i + 1]
                                 /\ i \in Nat \ {0}
  BY <1>1, HeadTailProperties
<1>3. FrameOf(e, 1)
  BY <1>1, <1>2 DEF FrameOf, IsAnswer
<1>4. /\ r.final /\ r.ok => e \in answered
      /\ ~r.final => r.ok /\ Kind[e] = "callback"
  BY <1>1, <1>2 DEF FramesAreHonest, HonestFrame
<1>5. ASSUME e \notin resent, r.final
      PROVE  ~Residue(e)'
  <2>1. job'[e] = "idle"
    BY <1>1, <1>2, <1>3, <1>5 DEF SentOnceInOrder, InOrder
  <2>2. ASSUME NEW i \in DOMAIN wire', wire'[i].type = "response", wire'[i].cmd = e
        PROVE  FALSE
    <3>1. i \in Nat \ {0} /\ i + 1 \in DOMAIN wire /\ wire'[i] = wire[i + 1]
      BY <1>2
    <3>2. (i + 1) - 1 = i /\ 1 \in 1..i
      BY <3>1
    <3>3. FrameOf(e, i + 1) /\ wire[i + 1].type = "response"
      BY <2>2, <3>1 DEF FrameOf, IsAnswer
    <3>4. InOrder(e, i + 1)
      BY <3>1, <3>3, <1>5 DEF SentOnceInOrder
    <3> QED
      BY <3>2, <3>3, <3>4, <1>3 DEF InOrder
  <2> QED
    BY <2>1, <2>2 DEF Residue
<1> QED
  BY <1>4, <1>5 DEF Explained

LEMMA NothingExpected ==
    ASSUME IInv, Line, NEW e \in Cmd, ~ExpectsResponse(e), ~ExpectsCallback(e),
           DriverStep, e = cur
    PROVE  ~Residue(e)' /\ job' = job /\ Earned(e, "ok")
<1>1. NoNewAnswers /\ (job' = job \/ Sends)
  BY DriverKeepsAnswers
<1>2. job' = job /\ job[e] = "idle"
  BY <1>1 DEF Sends, Line, JobsAreOwed
<1>3. ASSUME NEW i \in DOMAIN wire', wire'[i].type = "response", wire'[i].cmd = e
      PROVE  FALSE
  <2>1. \E j \in DOMAIN wire : wire'[i] = wire[j]
    BY <1>1, <1>3 DEF NoNewAnswers, IsAnswer
  <2> QED
    BY <2>1, <1>3 DEF Line, FramesAreHonest, HonestFrame
<1> QED
  BY <1>2, <1>3 DEF Residue, Earned

LEMMA DriverKeepsHistory ==
    ASSUME HInv, DriverStep
    PROVE  History'
<1> USE DEF HInv, IInv, Base, TypeOK
<1>a. History /\ NoCmd \notin Cmd
  BY ConstantsAssumption DEF History, ConstantsAssumption
<1>b. ASSUME NEW e \in Cmd, e = cur, NEW o \in Outcome, Settle(o), job' = job,
             Explained(e, o), Earned(e, o)
      PROVE  History'
  BY <1>a, <1>b, SettleKeepsHistory
<1>c. ASSUME cur # NoCmd, NEW o \in Outcome, Settle(o), job' = job,
             o \in GivesUp
      PROVE  History'
  BY <1>b, <1>c DEF LoopTypeOK, Explained, Earned, GivesUp
<1>d. ASSUME outcome' = outcome
      PROVE  History'
  BY <1>a, <1>d, OtherKeepsHistory
<1>1. CASE \E c \in Cmd : Submit(c)
  <2>1. job' = job /\ \A c \in Cmd : outcome'[c] = outcome[c]
                                     \/ (outcome[c] = "none" /\ outcome'[c] = "pending")
    BY <1>1 DEF Submit, LoopTypeOK
  <2> QED
    BY <1>a, <2>1, OtherKeepsHistory DEF Settled
<1>2. CASE FrameArrives
  <2>0. job' = job
    BY <1>2 DEF FrameArrives, HeaderForAbort, HeaderForNobody, AckArrives, NakArrives,
       CanArrives, HeaderForCommand, ResponseArrives, CallbackArrives, RestartReported,
       Receive
  <2>1. CASE HeaderForAbort \/ HeaderForNobody \/ RestartReported
    BY <1>d, <2>1 DEF HeaderForAbort, HeaderForNobody, RestartReported, driverVars
  <2>2. CASE AckArrives
    <3>1. cur # NoCmd /\ cur \in Cmd
      BY <2>2, HeaderMeansBusy DEF AckArrives, LoopTypeOK
    <3>2. CASE ExpectsResponse(cur) \/ ExpectsCallback(cur)
      BY <2>2, <3>2, <1>d DEF AckArrives, Await
    <3>3. CASE ~ExpectsResponse(cur) /\ ~ExpectsCallback(cur)
      <4> PICK e \in Cmd : e = cur
        BY <3>1
      <4>1. ~Residue(e)' /\ Earned(e, "ok") /\ Settle("ok")
        BY <2>2, <3>3, NothingExpected DEF AckArrives
      <4> QED
        BY <4>1, <2>0, <1>b DEF Explained, Outcome
    <3> QED
      BY <3>2, <3>3
  <2>3. CASE NakArrives
    <3>1. cur # NoCmd
      BY <2>3, HeaderMeansBusy DEF NakArrives
    <3> QED
      BY <2>0, <2>3, <3>1, <1>c DEF NakArrives, Outcome, GivesUp
  <2>4. CASE CanArrives
    <3>1. cur # NoCmd
      BY <2>4, HeaderMeansBusy DEF CanArrives
    <3> QED
      BY <2>0, <2>4, <3>1, <1>c, <1>d DEF CanArrives, Outcome, GivesUp
  <2>5. CASE ResponseArrives
    <3>1. CASE Listens("waitingForResponse") /\ Kind[Head(wire).cmd] = Kind[cur]
      <4>1. cur \in Cmd
        BY <3>1, BusyLoop DEF Listens
      <4> PICK e \in Cmd, r \in {Head(wire)} : e = cur /\ r = Head(wire)
        BY <4>1
      <4>2. /\ ~ExpectsCallback(e) \/ ~r.ok => Explained(e, "ok")
            /\ ~ExpectsCallback(e) /\ r.ok => Earned(e, "ok")
        BY <2>5, <3>1, ResponseTaken DEF Listens
      <4>3. CASE ~r.ok
        BY <2>0, <2>5, <3>1, <4>2, <4>3, <1>b
           DEF ResponseArrives, Outcome, Explained, Earned, GivesUp
      <4>4. CASE r.ok /\ ExpectsCallback(e)
        BY <2>5, <3>1, <4>4, <1>d DEF ResponseArrives, Await
      <4>5. CASE r.ok /\ ~ExpectsCallback(e)
        BY <2>0, <2>5, <3>1, <4>2, <4>5, <1>b DEF ResponseArrives, Outcome
      <4> QED
        BY <4>3, <4>4, <4>5
    <3>2. CASE ~(Listens("waitingForResponse") /\ Kind[Head(wire).cmd] = Kind[cur])
      BY <2>5, <3>2, <1>d DEF ResponseArrives
    <3> QED
      BY <3>1, <3>2
  <2>6. CASE CallbackArrives
    <3>1. CASE Listens("waitingForCallback") /\ Head(wire).cmd = cur
      <4>1. cur \in Cmd
        BY <3>1, BusyLoop DEF Listens
      <4> PICK e \in Cmd, r \in {Head(wire)} : e = cur /\ r = Head(wire)
        BY <4>1
      <4>2. /\ r.final \/ ~r.ok => Explained(e, "ok")
            /\ r.final /\ r.ok => e \in answered
        BY <2>6, <3>1, CallbackTaken
      <4>3. CASE r.ok /\ r.final
        BY <2>0, <2>6, <3>1, <4>2, <4>3, <1>b DEF CallbackArrives, Outcome, Earned
      <4>4. CASE r.ok /\ ~r.final
        BY <2>6, <3>1, <4>4, <1>d DEF CallbackArrives, Await
      <4>5. CASE ~r.ok
        <5>1. PICK o \in {"response timeout", "NOK report", "callback NOK"} : Settle(o)
          BY <2>6, <3>1, <4>5 DEF CallbackArrives
        <5> QED
          BY <2>0, <4>2, <4>5, <5>1, <1>b DEF Outcome, Explained, Earned, GivesUp
      <4> QED
        BY <4>3, <4>4, <4>5
    <3>2. CASE ~(Listens("waitingForCallback") /\ Head(wire).cmd = cur)
      BY <2>6, <3>2, <1>d DEF CallbackArrives
    <3> QED
      BY <3>1, <3>2
  <2> QED
    BY <1>2, <2>1, <2>2, <2>3, <2>4, <2>5, <2>6 DEF FrameArrives
<1>3. CASE Progress
  <2>0. cur # NoCmd /\ cur \in Cmd
    BY <1>3, BusyLoop DEF Progress, MessageSent, BackoffEnds, CommandAborted,
       WriteFails, AckTimeout, ResponseTimeout, CallbackTimeout, Listens
  <2>1. CASE MessageSent
    <3>1. CASE ExpectsAck(cur)
      BY <2>1, <3>1, <1>d DEF MessageSent, Await
    <3>2. CASE ~ExpectsAck(cur)
      <4> PICK e \in Cmd : e = cur
        BY <2>0
      <4>1. ~ExpectsResponse(e) /\ ~ExpectsCallback(e)
        BY <3>2 DEF ExpectsAck, ExpectsResponse, ExpectsCallback
      <4>2. ~Residue(e)' /\ job' = job /\ Earned(e, "ok") /\ Settle("ok")
        BY <2>1, <3>2, <4>1, NothingExpected DEF MessageSent
      <4> QED
        BY <4>2, <1>b DEF Explained, Outcome
    <3> QED
      BY <3>1, <3>2
  <2>2. CASE BackoffEnds
    BY <2>2, <1>d DEF BackoffEnds
  <2>3. CASE ResponseTimeout
    BY <2>0, <2>3, <1>c, <1>d DEF ResponseTimeout, Await, Outcome, GivesUp
  <2>4. CASE CommandAborted
    BY <2>0, <2>4, <1>c DEF CommandAborted, Outcome, GivesUp
  <2>5. CASE AckTimeout \/ CallbackTimeout
    BY <2>0, <2>5, <1>c DEF AckTimeout, CallbackTimeout, Outcome, GivesUp
  <2>6. CASE WriteFails
    <3> PICK e \in Cmd : e = cur
      BY <2>0
    <3>1. pc = "sending" /\ Settle("not sent") /\ UNCHANGED <<job, wire>>
      BY <2>6 DEF WriteFails
    <3>2. e \in resent \/ ~Residue(e)
      BY <3>1 DEF Unsent, Line, UnsentIsUntouched, Residue, FrameOf, IsAnswer
    <3>3. Explained(e, "not sent") /\ Earned(e, "not sent")
      BY <3>1, <3>2 DEF Explained, Earned, Residue
    <3> QED
      BY <3>1, <3>3, <1>b DEF Outcome
  <2> QED
    BY <1>3, <2>1, <2>2, <2>3, <2>4, <2>5, <2>6 DEF Progress
<1>4. CASE SendDataAbortTimeout \/ AbortFromOutside \/ AbortWaitExpires \/ DestroyController
  BY <1>4, <1>d DEF SendDataAbortTimeout, AbortFromOutside, AbortWaitExpires,
     DestroyController
<1>5. CASE DestroyQueue
  <2>1. \A c \in ToSet(backlog) : Unsent(c) /\ outcome[c] = "pending"
    BY DEF ToSet, LoopAgrees, Unsent
  <2>2. \A c \in ToSet(backlog) \cap Cmd : ~Residue(c)
    BY <2>1 DEF Line, UnsentIsUntouched, Residue, FrameOf, IsAnswer
  <2>3. job' = job /\ \A c \in Cmd : outcome'[c] = outcome[c]
          \/ (outcome[c] = "pending" /\ outcome'[c] = "dropped" /\ ~Residue(c))
    BY <1>5, <2>1, <2>2 DEF DestroyQueue, LoopTypeOK
  <2> QED
    BY <1>a, <2>3, OtherKeepsHistory DEF Settled
<1> QED
  BY <1>1, <1>2, <1>3, <1>4, <1>5 DEF DriverStep

(* Settling a command that did not miss its response, or not with a report *)
(* of the node, keeps the record of the missed responses.                  *)
LEMMA SettleKeepsMissed ==
    ASSUME IInv, MissedWaits, cur # NoCmd, NEW o \in Outcome, Settle(o),
           missed' \subseteq missed \cup {cur},
           o \in {"NOK report", "callback NOK"} => missed' = missed /\ cur \notin missed
    PROVE  MissedWaits'
<1>1. \A c \in Cmd : /\ c # cur => outcome'[c] = outcome[c]
                     /\ outcome'[cur] = o
  BY SettleSends DEF IInv
<1>2. missed \subseteq Cmd /\ cur \in Cmd /\ o \notin {"none", "pending"}
  BY DEF IInv, Base, TypeOK, LoopTypeOK, LineTypeOK, Outcome
<1> SUFFICES ASSUME NEW c \in missed'
             PROVE  outcome'[c] \notin {"none", "pending", "NOK report", "callback NOK"}
  BY DEF MissedWaits
<1>3. CASE c = cur
  BY <1>1, <1>2, <1>3
<1>4. CASE c # cur
  BY <1>1, <1>2, <1>4 DEF MissedWaits
<1> QED
  BY <1>3, <1>4

LEMMA OtherKeepsMissed ==
    ASSUME IInv, MissedWaits, missed' = missed,
           \A c \in Cmd : \/ outcome'[c] = outcome[c]
                          \/ outcome'[c] = "dropped"
                          \/ outcome[c] = "none",
           \A c \in missed : c = cur /\ pc = "waitingForCallback"
             => cur' = cur /\ pc' = pc /\ (timedOut /\ IsSendData(cur) => timedOut')
    PROVE  MissedWaits'
<1>1. missed \subseteq Cmd
  BY DEF IInv, Base, TypeOK, LineTypeOK
<1> QED
  BY <1>1 DEF MissedWaits, IsSendData

LEMMA DriverKeepsMissed ==
    ASSUME HInv, DriverStep
    PROVE  MissedWaits'
<1> USE DEF HInv, IInv, Base, TypeOK
<1>a. ASSUME cur # NoCmd, NEW o \in Outcome, Settle(o), missed' = missed,
             o \notin {"NOK report", "callback NOK"}
      PROVE  MissedWaits'
  BY <1>a, SettleKeepsMissed
<1>b. ASSUME UNCHANGED <<outcome, missed, cur, pc, timedOut>>
      PROVE  MissedWaits'
  BY <1>b DEF MissedWaits
<1>c. ASSUME UNCHANGED <<outcome, missed>>, pc # "waitingForCallback"
      PROVE  MissedWaits'
  BY <1>c DEF MissedWaits
<1>1. CASE \E c \in Cmd : Submit(c)
  <2>1. /\ missed' = missed
        /\ \A c \in Cmd : outcome'[c] = outcome[c] \/ outcome[c] = "none"
        /\ pc = "waitingForCallback" => UNCHANGED <<cur, pc, timedOut>>
    BY <1>1 DEF Submit, LoopTypeOK
  <2> QED
    BY <2>1, OtherKeepsMissed
<1>2. CASE FrameArrives
  <2>0. missed' = missed
    BY <1>2 DEF history, FrameArrives, HeaderForAbort, HeaderForNobody, AckArrives,
       NakArrives, CanArrives, HeaderForCommand, ResponseArrives, CallbackArrives, RestartReported,
       Receive
  <2>1. CASE HeaderForAbort \/ HeaderForNobody \/ RestartReported
    BY <1>b, <2>0, <2>1 DEF HeaderForAbort, HeaderForNobody, RestartReported, driverVars
  <2>2. CASE AckArrives \/ NakArrives \/ CanArrives
    <3>1. cur # NoCmd /\ pc # "waitingForCallback"
      BY <2>2, HeaderMeansBusy DEF AckArrives, NakArrives, CanArrives
    <3> QED
      BY <2>0, <2>2, <3>1, <1>a, <1>c DEF AckArrives, NakArrives, CanArrives, Await, Outcome
  <2>3. CASE ResponseArrives
    <3>1. CASE Listens("waitingForResponse") /\ Kind[Head(wire).cmd] = Kind[cur]
      <4>1. cur # NoCmd /\ pc # "waitingForCallback"
        BY <3>1, BusyLoop DEF Listens
      <4> QED
        BY <2>0, <2>3, <3>1, <4>1, <1>a, <1>c DEF ResponseArrives, Await, Outcome
    <3>2. CASE ~(Listens("waitingForResponse") /\ Kind[Head(wire).cmd] = Kind[cur])
      BY <2>0, <2>3, <3>2, <1>b DEF ResponseArrives
    <3> QED
      BY <3>1, <3>2
  <2>4. CASE CallbackArrives
    <3>1. CASE Listens("waitingForCallback") /\ Head(wire).cmd = cur
      <4>1. cur # NoCmd /\ cur \in Cmd /\ pc = "waitingForCallback"
        BY <3>1, BusyLoop DEF Listens
      <4> PICK e \in Cmd, r \in {Head(wire)} : e = cur /\ r = Head(wire)
        BY <4>1
      <4>2. ~r.final => r.ok /\ Kind[e] = "callback"
        BY <2>4, <3>1, CallbackTaken
      <4>3. CASE r.ok /\ r.final
        BY <2>0, <2>4, <3>1, <4>1, <4>3, <1>a DEF CallbackArrives, Outcome
      <4>4. CASE r.ok /\ ~r.final
        <5>1. UNCHANGED <<outcome, missed, cur>> /\ pc' = pc /\ ~IsSendData(cur)
          BY <2>0, <2>4, <3>1, <4>1, <4>2, <4>4 DEF CallbackArrives, Await, IsSendData
        <5> QED
          BY <5>1, OtherKeepsMissed
      <4>5. CASE ~r.ok /\ timedOut
        BY <2>0, <2>4, <3>1, <4>1, <4>5, <1>a DEF CallbackArrives, Outcome
      <4>6. CASE ~r.ok /\ ~timedOut
        <5>1. PICK o \in {"NOK report", "callback NOK"} : Settle(o)
          BY <2>4, <3>1, <4>6 DEF CallbackArrives
        <5>2. cur \notin missed
          BY <4>1, <4>6 DEF MissedWaits, LoopAgrees
        <5> QED
          BY <2>0, <4>1, <5>1, <5>2, SettleKeepsMissed DEF Outcome
      <4> QED
        BY <4>3, <4>4, <4>5, <4>6
    <3>2. CASE ~(Listens("waitingForCallback") /\ Head(wire).cmd = cur)
      BY <2>0, <2>4, <3>2, <1>b DEF CallbackArrives
    <3> QED
      BY <3>1, <3>2
  <2> QED
    BY <1>2, <2>1, <2>2, <2>3, <2>4 DEF FrameArrives
<1>3. CASE Progress
  <2>0. cur # NoCmd
    BY <1>3, BusyLoop DEF Progress, MessageSent, BackoffEnds, CommandAborted,
       WriteFails, AckTimeout, ResponseTimeout, CallbackTimeout, Listens
  <2>1. CASE MessageSent \/ BackoffEnds
    BY <2>0, <2>1, <1>a, <1>c DEF history, MessageSent, BackoffEnds, Await, Outcome
  <2>2. CASE ResponseTimeout
    <3>1. missed' = missed \cup {cur} /\ pc = "waitingForResponse"
      BY <2>2 DEF ResponseTimeout, Listens
    <3>2. CASE IsSendData(cur)
      BY <2>2, <3>1, <3>2 DEF ResponseTimeout, Await, MissedWaits
    <3>3. CASE ~IsSendData(cur)
      BY <2>0, <2>2, <3>1, <3>3, SettleKeepsMissed DEF ResponseTimeout, Outcome
    <3> QED
      BY <3>2, <3>3
  <2>3. CASE WriteFails \/ CommandAborted \/ AckTimeout \/ CallbackTimeout
    BY <2>0, <2>3, <1>a DEF history, WriteFails, CommandAborted, AckTimeout,
       CallbackTimeout, Outcome
  <2> QED
    BY <1>3, <2>1, <2>2, <2>3 DEF Progress
<1>4. CASE SendDataAbortTimeout \/ AbortFromOutside \/ AbortWaitExpires \/ DestroyController
  BY <1>4, <1>b DEF history, SendDataAbortTimeout, AbortFromOutside, AbortWaitExpires,
     DestroyController
<1>5. CASE DestroyQueue
  <2>1. /\ missed' = missed /\ UNCHANGED <<cur, timedOut>>
        /\ \A c \in Cmd : outcome'[c] = outcome[c] \/ outcome'[c] = "dropped"
        /\ pc = "waitingForCallback" => pc' = pc
    BY <1>5 DEF history, DestroyQueue, LoopTypeOK
  <2> QED
    BY <2>1, OtherKeepsMissed
<1> QED
  BY <1>1, <1>2, <1>3, <1>4, <1>5 DEF DriverStep

(* The controller settles nothing, and answers only what is owed.          *)
LEMMA ControllerKeepsHistory ==
    ASSUME HInv, Controller
    PROVE  History' /\ MissedWaits'
<1> USE DEF HInv
<1>1. UNCHANGED <<driverVars, missed, resent>> /\ answered \subseteq answered'
  BY ControllerKeepsLine DEF IInv
<1>2. MissedWaits' /\ SuccessWasAnswered'
  BY <1>1 DEF MissedWaits, SuccessWasAnswered, driverVars
<1>3. ResponseIsOwnOrLate'
  BY <1>1 DEF ResponseIsOwnOrLate, LateResponseFor, GivenUp, driverVars
<1>4. ASSUME NEW c \in Cmd, Residue(c)'
      PROVE  Residue(c)
  <2>0. wire \in Seq(Frame) /\ job \in [Cmd -> Jobs]
    BY DEF IInv, Base, TypeOK, LineTypeOK
  <2>1. CASE \E d \in Cmd : ControllerResponds(d)
    <3>1. PICK d \in Cmd, ok \in BOOLEAN :
            /\ wire' = Append(wire, [type |-> "response", cmd |-> d, ok |-> ok])
            /\ job[d] # "idle" /\ \A e \in Cmd : e # d => job'[e] = job[e]
      BY <2>0, <2>1 DEF ControllerResponds
    <3>2. c # d => Residue(c)
      <4> DEFINE f == [type |-> "response", cmd |-> d, ok |-> ok]
      <4>1. f.cmd = d /\ wire' = Append(wire, f)
        BY <3>1
      <4> HIDE DEF f
      <4> QED
        BY <1>4, <2>0, <3>1, <4>1, AppendFrame DEF Residue
    <3> QED
      BY <3>1, <3>2 DEF Residue
  <2>2. CASE \E d \in Cmd : ControllerCallsBack(d)
    <3>1. PICK d \in Cmd, ok \in BOOLEAN, final \in BOOLEAN :
            /\ wire' = Append(wire, [type |-> "callback", cmd |-> d, ok |-> ok,
                                     final |-> final])
            /\ job[d] # "idle" /\ \A e \in Cmd : e # d => job'[e] = job[e]
      BY <2>0, <2>2 DEF ControllerCallsBack
    <3> DEFINE f == [type |-> "callback", cmd |-> d, ok |-> ok, final |-> final]
    <3>2. f.type = "callback" /\ wire' = Append(wire, f)
      BY <3>1
    <3> HIDE DEF f
    <3> QED
      BY <1>4, <2>0, <3>1, <3>2, AppendFrame DEF Residue
  <2>3. CASE \E d \in Cmd : ControllerForgets(d)
    BY <1>4, <2>0, <2>3 DEF ControllerForgets, Residue
  <2>4. CASE ControllerResets
    <3> DEFINE f == [type |-> "started"]
    <3>1. f.type = "started" /\ wire' = Append(wire, f) /\ job'[c] = "idle"
      BY <2>4 DEF ControllerResets
    <3> HIDE DEF f
    <3> QED
      BY <1>4, <2>0, <3>1, AppendFrame DEF Residue
  <2> QED
    BY <2>1, <2>2, <2>3, <2>4 DEF Controller
<1>5. ResidueIsExplained'
  <2> SUFFICES ASSUME NEW c \in Cmd, Settled(c)', Residue(c)'
               PROVE  \E d \in Cmd : Kind[d] = Kind[c] /\ Suspect(d)'
    BY DEF ResidueIsExplained
  <2>1. PICK d \in Cmd : Kind[d] = Kind[c] /\ Suspect(d)
    BY <1>1, <1>4 DEF ResidueIsExplained, Settled, driverVars
  <2> QED
    BY <2>1, <1>1, SuspectStays DEF driverVars
<1> QED
  BY <1>2, <1>3, <1>5 DEF History
-----------------------------------------------------------------------------
LEMMA InitHInv == Init => HInv
<1> SUFFICES ASSUME Init PROVE HInv
  OBVIOUS
<1>1. IInv
  BY InitIInv
<1>2. DOMAIN wire = {} /\ missed = {} /\ resent = {}
      /\ \A c \in Cmd : outcome[c] = "none" /\ job[c] = "idle"
  BY DEF Init
<1>3. Line /\ ResidueIsExplained /\ MissedWaits
  BY <1>2 DEF Line, FramesAreHonest, JobsAreOwed, UnsentIsUntouched, SentOnceInOrder,
     ResidueIsExplained, Settled, MissedWaits
<1>4. SuccessWasAnswered /\ ResponseIsOwnOrLate
  BY <1>2 DEF SuccessWasAnswered, ResponseIsOwnOrLate
<1> QED
  BY <1>1, <1>3, <1>4 DEF HInv

LEMMA NextHInv == HInv /\ [Next]_vars => HInv'
<1> SUFFICES ASSUME HInv, [Next]_vars PROVE HInv'
  OBVIOUS
<1>1. IInv'
  BY NextIInv DEF HInv
<1>2. CASE DriverStep
  <2>1. Line'
    BY <1>2, DriverKeepsLine DEF HInv
  <2>2. History' /\ MissedWaits'
    BY <1>2, DriverKeepsHistory, DriverKeepsMissed
  <2> QED
    BY <1>1, <2>1, <2>2 DEF HInv, History
<1>3. CASE Controller
  <2>1. Line'
    BY <1>3, ControllerKeepsLine DEF HInv, IInv
  <2>2. History' /\ MissedWaits'
    BY <1>3, ControllerKeepsHistory
  <2> QED
    BY <1>1, <2>1, <2>2 DEF HInv, History
<1>4. CASE UNCHANGED vars
  <2>1. Line' /\ MissedWaits' /\ SuccessWasAnswered'
    <3>1. FramesAreHonest' /\ JobsAreOwed'
      BY <1>4 DEF HInv, Line, FramesAreHonest, HonestFrame, JobsAreOwed, vars,
         driverVars, history
    <3>2. UnsentIsUntouched'
      BY <1>4 DEF history, HInv, Line, UnsentIsUntouched, Unsent, FrameOf, vars, driverVars
    <3>3. SentOnceInOrder'
      BY <1>4 DEF history, HInv, Line, SentOnceInOrder, InOrder, FrameOf, vars, driverVars
    <3>4. MissedWaits' /\ SuccessWasAnswered'
      BY <1>4 DEF history, HInv, MissedWaits, SuccessWasAnswered, vars, driverVars
    <3> QED
      BY <3>1, <3>2, <3>3, <3>4 DEF Line
  <2>2. ResidueIsExplained' /\ ResponseIsOwnOrLate'
    <3>1. UNCHANGED <<outcome, wire, job, missed, answered, resent, cur>>
      BY <1>4 DEF history, vars, driverVars
    <3>2. \A c : (GivenUp(c) <=> GivenUp(c)') /\ (Suspect(c) <=> Suspect(c)')
      BY <3>1 DEF GivenUp, Suspect, Settled
    <3>3. \A c : (Settled(c) <=> Settled(c)') /\ (Residue(c) <=> Residue(c)')
      BY <3>1 DEF Settled, Residue
    <3> QED
      BY <3>1, <3>2, <3>3 DEF HInv, ResidueIsExplained, ResponseIsOwnOrLate, LateResponseFor
  <2> QED
    BY <1>1, <2>1, <2>2 DEF HInv
<1> QED
  BY <1>2, <1>3, <1>4 DEF Next, DriverStep

(* A job of a command that is not the current one was given up, sent twice, *)
(* or belongs to a command that took a late response for its own.          *)
LEMMA JobsAreExplained == HInv => OpenJobsWereGivenUp
<1> SUFFICES ASSUME HInv, NEW c \in Cmd, job[c] # "idle", c # cur
             PROVE  GivenUp(c) \/ c \in resent \/ LateResponseFor(c)
  BY DEF OpenJobsWereGivenUp
<1>1. ~Unsent(c)
  BY DEF HInv, Line, UnsentIsUntouched
<1>2. Settled(c) /\ Residue(c)
  BY <1>1 DEF Unsent, Settled, Residue
<1>3. PICK d \in Cmd : Kind[d] = Kind[c] /\ Suspect(d)
  BY <1>2 DEF HInv, ResidueIsExplained
<1> QED
  BY <1>3 DEF Suspect, LateResponseFor

(* A command that waits for a callback only succeeds with a final, positive *)
(* callback of its own, however late the callbacks of others arrive         *)
(* (Message.isExpectedCallback, executeSerialAPICommand).                  *)
THEOREM SuccessAnswered == Spec => []SuccessWasAnswered
BY InitHInv, NextHInv, PTL DEF Spec, HInv

(* A command only takes the response of another one for its own when that   *)
(* one has the same function type and was given up or sent twice            *)
(* (Message.isExpectedResponse).                                           *)
THEOREM ResponseOwnOrLate == Spec => []ResponseIsOwnOrLate
BY InitHInv, NextHInv, PTL DEF Spec, HInv

(* The timeout of a response is not replaced by the report of the node that *)
(* the SendDataAbort provokes ("Preserve response timeout errors").        *)
THEOREM TimeoutPreserved == Spec => []ResponseTimeoutPreserved
<1>1. HInv => ResponseTimeoutPreserved
  BY DEF HInv, IInv, Base, LoopAgrees, MissedWaits, ResponseTimeoutPreserved,
         TypeOK, LoopTypeOK
<1> QED
  BY <1>1, InitHInv, NextHInv, PTL DEF Spec

(* The controller works for nobody but the current command, unless the      *)
(* driver gave up on a command, sent it twice, or was deceived by a late    *)
(* response (executeSerialAPICommand).                                     *)
THEOREM JobsGivenUp == Spec => []OpenJobsWereGivenUp
BY InitHInv, NextHInv, JobsAreExplained, PTL DEF Spec
=============================================================================
