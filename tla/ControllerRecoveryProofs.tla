---------------------- MODULE ControllerRecoveryProofs ----------------------
(***************************************************************************)
(* Proofs about ControllerRecovery for every set of messages, every        *)
(* configuration and every bound: the type invariant, that no message is   *)
(* forgotten or in two places, and that an unresponsive controller is      *)
(* being recovered by a procedure that goes on.                            *)
(***************************************************************************)
EXTENDS ControllerRecovery, SequenceTheorems, TLAPS

Tx    == [msg : Messages \cup {SoftReset, Version},
          result : {"pending", "ok", "noAck", "failed"}]
Steps == {"idle", "taken", "sending", "retrying"}
Loop(txs) == [t : 0..Len(txs), step : Steps, acks : 0..MaxAttempts,
              jams : 0..MaxJammed, maxJams : 0..MaxJammed]
Procedures(txs) ==
    [cause : {"ack", "callback", "jammed", "again", "user", "reopen"},
     t : 0..Len(txs), own : 0..Len(txs), polls : 0..MaxPolls,
     step : {"resetting", "starting", "polling", "reopening"}]
Phases == {"none", "ackTimeout", "callbackTimeout", "callbackTimeoutAfterReset",
           "jammed", "jammedAfterReset"}
Statuses == {"ready", "unresponsive", "jammed"}

(* The queues and the loops, before or after they are drained: types, and  *)
(* where a transaction is.                                                 *)
QueuesOK(txs, w, act) ==
    /\ txs \in Seq(Tx)
    /\ w \in [Queues -> SUBSET (1..Len(txs))]
    /\ act \in [Queues -> Loop(txs)]
    /\ \A q \in Queues :
         /\ act[q].step = "idle" <=> act[q].t = 0
         /\ act[q].t # 0 => QueueOf(txs[act[q].t].msg) = q
         /\ \A t \in w[q] : QueueOf(txs[t].msg) = q /\ t # act[q].t

(* The procedures that hold a transaction hold it alone.                   *)
Holds(p) == p.cause \in {"ack", "callback", "jammed"}
HoldersOK(w, act, procs) ==
    \A p \in procs : Holds(p) =>
      /\ p.t # 0
      /\ \A q \in Queues : p.t \notin w[q] /\ p.t # act[q].t
      /\ \A r \in procs : Holds(r) /\ r.t = p.t => r = p

(* A pending transaction is somewhere.                                     *)
Kept(txs, w, act, procs) ==
    \A t \in 1..Len(txs) : txs[t].result = "pending" =>
      \/ \E q \in Queues : t \in w[q] \/ t = act[q].t
      \/ \E p \in procs : Holds(p) /\ p.t = t

(* The loops that send a command are those the Serial API queue serves.    *)
SerialOK(s, act) ==
    /\ s \in Seq(Queues)
    /\ \A i, j \in 1..Len(s) : s[i] = s[j] => i = j
    /\ \A q \in Queues : act[q].step = "sending" <=> \E i \in 1..Len(s) : s[i] = q

(* A port is reopened only after the transaction was rejected.             *)
ProceduresOK(txs, procs) ==
    /\ procs \subseteq Procedures(txs)
    /\ \A p \in procs :
         /\ p.step \in {"resetting", "starting"} => p.polls = 0
         /\ p.step = "reopening" /\ Holds(p) => txs[p.t].result # "pending"
         /\ p.cause = "reopen" => p.step = "reopening"

RestOK ==
    /\ options \in Options
    /\ status \in Statuses /\ phase \in Phases
    /\ driver \in {"running", "destroyed", "portLost"}
    /\ sent \in 0..MaxMessages /\ faults \in 0..MaxFaults

IInv ==
    /\ RestOK
    /\ QueuesOK(tx, waiting, active)
    /\ SerialOK(serial, active)
    /\ ProceduresOK(tx, recovering)
    /\ HoldersOK(waiting, active, recovering)
    /\ options.softReset => Kept(tx, waiting, active, recovering)

-----------------------------------------------------------------------------
(* The operators                                                           *)

(* A loop that waits takes nothing, or one transaction of its queue.       *)
Same(w, act, q) == waiting'[q] = w[q] /\ active'[q] = act[q]
Takes(w, act, q, x) ==
    /\ act[q].t = 0
    /\ waiting'[q] = w[q] \ {x}
    /\ active'[q] = [Idle EXCEPT !.t = x, !.step = "taken"]

LEMMA DrainTakes ==
    ASSUME NEW txs, NEW w, NEW act, NEW st, Drain(txs, w, act, st)
    PROVE  /\ tx' = txs /\ status' = st
           /\ waiting' = [q \in Queues |-> waiting'[q]]
           /\ active' = [q \in Queues |-> active'[q]]
           /\ \A q \in Queues : Same(w, act, q) \/ \E x \in w[q] : Takes(w, act, q, x)
<1> DEFINE mayTake(q) == IF act[q].t # 0 THEN {}
                         ELSE {x \in w[q] : IsFirst(txs, w[q], x) /\ MayStart(q, txs[x].msg, st)}
           next(q) == CHOOSE x \in mayTake(q) : TRUE
<1>1. /\ tx' = txs /\ status' = st
      /\ waiting' = [q \in Queues |->
           IF mayTake(q) # {} THEN w[q] \ {next(q)} ELSE w[q]]
      /\ active' = [q \in Queues |->
           IF mayTake(q) # {} THEN [Idle EXCEPT !.t = next(q), !.step = "taken"]
                              ELSE act[q]]
  BY DEF Drain
<1>2. ASSUME NEW q \in Queues, mayTake(q) # {}
      PROVE  next(q) \in w[q] /\ act[q].t = 0
  <2>1. next(q) \in mayTake(q)
    <3> HIDE DEF mayTake
    <3> QED
      BY <1>2
  <2> QED
    BY <2>1
<1> HIDE DEF mayTake, next
<1>3. ASSUME NEW q \in Queues
      PROVE  Same(w, act, q) \/ \E x \in w[q] : Takes(w, act, q, x)
  <2>1. CASE mayTake(q) = {}
    BY <1>1, <2>1 DEF Same
  <2>2. CASE mayTake(q) # {}
    BY <1>1, <1>2, <2>2 DEF Takes
  <2> QED
    BY <2>1, <2>2
<1> QED
  BY <1>1, <1>3

(* Draining keeps the queues well-formed, and every transaction where the  *)
(* holders and the loops that send expect it.                              *)
LEMMA DrainKeeps ==
    ASSUME RecoveryAssumption,
           NEW txs, NEW w, NEW act, NEW st, NEW procs,
           QueuesOK(txs, w, act), Drain(txs, w, act, st)
    PROVE  /\ tx' = txs /\ status' = st
           /\ QueuesOK(tx', waiting', active')
           /\ HoldersOK(w, act, procs) => HoldersOK(waiting', active', procs)
           /\ Kept(txs, w, act, procs) => Kept(tx', waiting', active', procs)
           /\ \A q \in Queues : active'[q].step = "sending" <=> act[q].step = "sending"
<1>1. /\ tx' = txs /\ status' = st
      /\ waiting' = [q \in Queues |-> waiting'[q]]
      /\ active' = [q \in Queues |-> active'[q]]
      /\ \A q \in Queues : Same(w, act, q) \/ \E x \in w[q] : Takes(w, act, q, x)
  BY DrainTakes
<1>2. ASSUME NEW q \in Queues, NEW x \in w[q], Takes(w, act, q, x)
      PROVE  /\ active'[q] \in Loop(txs) /\ active'[q].t = x /\ active'[q].step = "taken"
             /\ waiting'[q] \subseteq w[q] /\ act[q].step = "idle" /\ x # 0
  <2>1. x \in 1..Len(txs) /\ act[q].step = "idle" /\ waiting'[q] \subseteq w[q]
    BY <1>2 DEF QueuesOK, Takes
  <2>2. active'[q] = [t |-> x, step |-> "taken", acks |-> 0, jams |-> 0, maxJams |-> 0]
    BY <1>2 DEF Takes, Idle
  <2> QED
    BY <2>1, <2>2, RecoveryAssumption DEF Loop, Steps, RecoveryAssumption
<1>3. \A q \in Queues : active'[q].step = "sending" <=> act[q].step = "sending"
  BY <1>1, <1>2 DEF Same
<1>4. QueuesOK(txs, waiting', active')
  <2>1. ASSUME NEW q \in Queues
        PROVE  /\ waiting'[q] \in SUBSET (1..Len(txs))
               /\ active'[q] \in Loop(txs)
               /\ active'[q].step = "idle" <=> active'[q].t = 0
               /\ active'[q].t # 0 => QueueOf(txs[active'[q].t].msg) = q
               /\ \A t \in waiting'[q] : QueueOf(txs[t].msg) = q /\ t # active'[q].t
    <3>1. CASE Same(w, act, q)
      BY <3>1 DEF QueuesOK, Same
    <3>2. ASSUME NEW x \in w[q], Takes(w, act, q, x)
          PROVE  /\ waiting'[q] \in SUBSET (1..Len(txs))
                 /\ active'[q] \in Loop(txs)
                 /\ active'[q].step = "idle" <=> active'[q].t = 0
                 /\ active'[q].t # 0 => QueueOf(txs[active'[q].t].msg) = q
                 /\ \A t \in waiting'[q] : QueueOf(txs[t].msg) = q /\ t # active'[q].t
      <4>1. /\ waiting'[q] = w[q] \ {x} /\ active'[q] \in Loop(txs)
            /\ active'[q].t = x /\ active'[q].step = "taken" /\ x # 0
        BY <3>2, <1>2 DEF Takes
      <4>2. w[q] \in SUBSET (1..Len(txs)) /\ \A t \in w[q] : QueueOf(txs[t].msg) = q
        BY DEF QueuesOK
      <4> QED
        BY <4>1, <4>2
    <3> QED
      BY <3>1, <3>2, <1>1
  <2> QED
    BY <2>1, <1>1 DEF QueuesOK
<1>5. ASSUME HoldersOK(w, act, procs)
      PROVE  HoldersOK(waiting', active', procs)
  <2> SUFFICES ASSUME NEW p \in procs, Holds(p), NEW q \in Queues
               PROVE  p.t \notin waiting'[q] /\ p.t # active'[q].t
    BY <1>5 DEF HoldersOK
  <2>1. p.t \notin w[q] /\ p.t # act[q].t
    BY <1>5 DEF HoldersOK
  <2> QED
    BY <2>1, <1>1, <1>2 DEF Same
<1>6. ASSUME Kept(txs, w, act, procs)
      PROVE  Kept(txs, waiting', active', procs)
  <2> SUFFICES ASSUME NEW t \in 1..Len(txs), NEW q \in Queues, t \in w[q] \/ t = act[q].t
               PROVE  t \in waiting'[q] \/ t = active'[q].t
    BY <1>6 DEF Kept
  <2>1. CASE Same(w, act, q)
    BY <2>1 DEF Same
  <2>2. ASSUME NEW x \in w[q], Takes(w, act, q, x)
        PROVE  t \in waiting'[q] \/ t = active'[q].t
    <3>1. t # 0
      OBVIOUS
    <3> QED
      BY <2>2, <1>2, <3>1 DEF Takes
  <2> QED
    BY <2>1, <2>2, <1>1
<1> QED
  BY <1>1, <1>3, <1>4, <1>5, <1>6

(* txs is tx after messages were settled.                                  *)
Later(old, txs) ==
    /\ txs \in Seq(Tx) /\ Len(txs) = Len(old)
    /\ \A t \in 1..Len(old) :
         /\ txs[t].msg = old[t].msg
         /\ txs[t].result = "pending" => old[t].result = "pending"

LEMMA LaterKeeps ==
    ASSUME NEW old, NEW txs, NEW w, NEW act, NEW procs, Later(old, txs)
    PROVE  /\ QueuesOK(old, w, act) => QueuesOK(txs, w, act)
           /\ Kept(old, w, act, procs) => Kept(txs, w, act, procs)
           /\ ProceduresOK(old, procs) /\ HoldersOK(w, act, procs) => ProceduresOK(txs, procs)
<1>1. ASSUME QueuesOK(old, w, act) PROVE QueuesOK(txs, w, act)
  <2>1. \A q \in Queues : act[q].t \in 0..Len(old) /\ w[q] \subseteq 1..Len(old)
    BY <1>1 DEF QueuesOK, Loop
  <2>2. Loop(txs) = Loop(old) /\ 1..Len(txs) = 1..Len(old) /\ Len(old) \in Nat
    BY <1>1 DEF Later, Loop, QueuesOK
  <2>3. ASSUME NEW q \in Queues
        PROVE  /\ act[q].t # 0 => QueueOf(txs[act[q].t].msg) = q
               /\ \A t \in w[q] : QueueOf(txs[t].msg) = q
    <3>1. act[q].t # 0 => act[q].t \in 1..Len(old)
      BY <2>1, <2>2
    <3> QED
      BY <3>1, <1>1, <2>1 DEF QueuesOK, Later
  <2> QED
    BY <1>1, <2>2, <2>3 DEF QueuesOK, Later
<1>2. ASSUME Kept(old, w, act, procs) PROVE Kept(txs, w, act, procs)
  BY <1>2 DEF Kept, Later
<1>3. ASSUME ProceduresOK(old, procs), HoldersOK(w, act, procs) PROVE ProceduresOK(txs, procs)
  <2>1. procs \subseteq Procedures(txs)
    BY <1>3 DEF ProceduresOK, Procedures, Later
  <2>2. \A p \in procs : Holds(p) => p.t \in 1..Len(old)
    BY <1>3 DEF ProceduresOK, Procedures, HoldersOK
  <2> QED
    BY <1>3, <2>1, <2>2 DEF ProceduresOK, Later
<1> QED
  BY <1>1, <1>2, <1>3

Results == {"ok", "noAck", "failed"}

LEMMA TxSettled ==
    ASSUME NEW x \in Tx, NEW r \in Results
    PROVE  LET y == [x EXCEPT !.result = r]
           IN  y \in Tx /\ y.msg = x.msg /\ y.result = r
<1>1. x = [msg |-> x.msg, result |-> x.result] /\ x.msg \in Messages \cup {SoftReset, Version}
  BY DEF Tx
<1>2. [x EXCEPT !.result = r] = [msg |-> x.msg, result |-> r]
  BY <1>1
<1>3. [msg |-> x.msg, result |-> r] \in Tx
  BY <1>1 DEF Tx, Results
<1> QED
  BY <1>2, <1>3

LEMMA SettledIsLater ==
    ASSUME NEW txs \in Seq(Tx), NEW t \in 1..Len(txs), NEW r \in Results
    PROVE  Later(txs, Settled(txs, t, r)) /\ Settled(txs, t, r)[t].result # "pending"
<1>1. CASE txs[t].result = "pending"
  <2>1. Settled(txs, t, r) = [txs EXCEPT ![t].result = r]
    BY <1>1 DEF Settled
  <2>2. txs[t] \in Tx /\ [txs[t] EXCEPT !.result = r] \in Tx
    BY TxSettled
  <2> DEFINE new == [txs EXCEPT ![t] = [txs[t] EXCEPT !.result = r]]
  <2>3. new \in Seq(Tx) /\ Len(new) = Len(txs)
    BY <2>2
  <2>4. new[t] = [txs[t] EXCEPT !.result = r] /\ \A x \in 1..Len(txs) : x # t => new[x] = txs[x]
    OBVIOUS
  <2>5. new[t].msg = txs[t].msg /\ new[t].result = r
    BY <2>2, <2>4, TxSettled
  <2>6. new = Settled(txs, t, r)
    BY <2>1
  <2> HIDE DEF new
  <2> QED
    BY <1>1, <2>3, <2>4, <2>5, <2>6 DEF Later, Results
<1>2. CASE txs[t].result # "pending"
  BY <1>2 DEF Settled, Later
<1> QED
  BY <1>1, <1>2

LEMMA RejectedIsLater ==
    ASSUME tx \in Seq(Tx), NEW t \in 1..Len(tx)
    PROVE  Later(tx, RejectedWith(t)) /\ RejectedWith(t)[t].result # "pending"
<1> DEFINE new == RejectedWith(t)
<1>1. ASSUME NEW x \in 1..Len(tx)
      PROVE  /\ new[x] \in Tx /\ new[x].msg = tx[x].msg
             /\ new[x].result = "pending" => tx[x].result = "pending" /\ x # t
  <2>1. tx[x] \in Tx /\ [tx[x] EXCEPT !.result = "failed"] \in Tx
        /\ [tx[x] EXCEPT !.result = "failed"].msg = tx[x].msg
        /\ [tx[x] EXCEPT !.result = "failed"].result = "failed"
    <3>1. tx[x] \in Tx /\ "failed" \in Results
      BY DEF Results
    <3> QED
      BY <3>1, TxSettled
  <2>2. DOMAIN tx = 1..Len(tx)
    OBVIOUS
  <2>3. CASE new[x] = tx[x] /\ (x = t => tx[x].result # "pending")
    BY <2>1, <2>3
  <2>4. CASE new[x] = [tx[x] EXCEPT !.result = "failed"]
    BY <2>1, <2>4
  <2> QED
    BY <2>2, <2>3, <2>4 DEF RejectedWith
<1>2. DOMAIN new = 1..Len(tx) /\ Len(tx) \in Nat /\ new = [x \in 1..Len(tx) |-> new[x]]
  BY DEF RejectedWith
<1>3. new \in Seq(Tx) /\ Len(new) = Len(tx)
  <2> HIDE DEF new
  <2> QED
    BY <1>1, <1>2
<1>4. Later(tx, new) /\ new[t].result # "pending"
  <2> HIDE DEF new
  <2> QED
    BY <1>1, <1>3 DEF Later
<1> QED
  BY <1>4

(* Creating a transaction and queueing it.                                 *)
LEMMA CreatedKeeps ==
    ASSUME NEW txs, NEW w, NEW act, QueuesOK(txs, w, act),
           NEW m \in Messages \cup {SoftReset, Version}
    PROVE  LET new == Created(txs, m)
           IN  /\ Len(new) = Len(txs) + 1 /\ new \in Seq(Tx)
               /\ new[Len(new)].msg = m
               /\ \A t \in 1..Len(txs) : new[t] = txs[t]
               /\ QueuesOK(new, With(w, new, Len(new)), act)
               /\ \A procs :
                    (\A p \in procs : Holds(p) => p.t \in 1..Len(txs)) =>
                      /\ HoldersOK(w, act, procs) => HoldersOK(With(w, new, Len(new)), act, procs)
                      /\ Kept(txs, w, act, procs) => Kept(new, With(w, new, Len(new)), act, procs)
<1> DEFINE new == Created(txs, m)
           n == Len(txs) + 1
           w2 == With(w, new, n)
<1>1. /\ Len(new) = n /\ new \in Seq(Tx) /\ new[n] = [msg |-> m, result |-> "pending"]
      /\ \A t \in 1..Len(txs) : new[t] = txs[t]
      /\ Len(txs) \in Nat
  BY DEF Created, Tx, QueuesOK
<1>2. new[n].msg = m
  BY <1>1
<1>3. QueueOf(m) \in Queues
  BY DEF QueueOf, Queues
<1>4. /\ w2 = [w EXCEPT ![QueueOf(m)] = @ \cup {n}] /\ w \in [Queues -> SUBSET (1..Len(txs))]
  BY <1>2 DEF With, QueuesOK
<1>5. \A q \in Queues : w2[q] = IF q = QueueOf(m) THEN w[q] \cup {n} ELSE w[q]
  BY <1>3, <1>4
<1>6. DOMAIN w2 = Queues /\ w2 = [q \in Queues |-> w2[q]]
  BY <1>4
<1> HIDE DEF new, w2
<1>7. QueuesOK(new, w2, act)
  <2>1. ASSUME NEW q \in Queues
        PROVE  w2[q] \in SUBSET (1..n) /\ act[q] \in Loop(new)
    <3>1. w2[q] \in SUBSET (1..n)
      <4>1. w2[q] \subseteq w[q] \cup {n}
        BY <1>5
      <4>2. w[q] \subseteq 1..Len(txs)
        BY DEF QueuesOK
      <4>3. 1..Len(txs) \subseteq 1..n /\ n \in 1..n
        BY <1>1
      <4> HIDE DEF n
      <4> QED
        BY <4>1, <4>2, <4>3
    <3>2. act[q] \in Loop(txs)
      BY DEF QueuesOK
    <3>3. 0..Len(txs) \subseteq 0..Len(new)
      BY <1>1
    <3> QED
      BY <3>1, <3>2, <3>3 DEF Loop
  <2>2. ASSUME NEW q \in Queues
        PROVE  /\ act[q].t # 0 => QueueOf(new[act[q].t].msg) = q
               /\ \A t \in w2[q] : QueueOf(new[t].msg) = q /\ t # act[q].t
    <3>1. act[q].t \in 0..Len(txs) /\ w[q] \subseteq 1..Len(txs)
      BY DEF QueuesOK, Loop
    <3>2. act[q].t # 0 => act[q].t \in 1..Len(txs) /\ new[act[q].t] = txs[act[q].t]
      BY <3>1, <1>1
    <3>3. ASSUME NEW t \in w2[q]
          PROVE  QueueOf(new[t].msg) = q /\ t # act[q].t
      <4>1. CASE t \in w[q]
        BY <4>1, <3>1, <1>1 DEF QueuesOK
      <4>2. CASE t = n /\ q = QueueOf(m)
        BY <4>2, <1>2, <3>1, <1>1
      <4> QED
        BY <4>1, <4>2, <1>5
    <3> QED
      BY <3>2, <3>3 DEF QueuesOK
  <2> QED
    BY <2>1, <2>2, <1>1, <1>6 DEF QueuesOK
<1>8. ASSUME NEW procs, \A p \in procs : Holds(p) => p.t \in 1..Len(txs), HoldersOK(w, act, procs)
      PROVE  HoldersOK(w2, act, procs)
  <2>1. ASSUME NEW p \in procs, Holds(p), NEW q \in Queues
        PROVE  p.t \notin w2[q]
    <3>1. p.t \notin w[q] /\ p.t \in 1..Len(txs)
      BY <1>8, <2>1 DEF HoldersOK
    <3>2. \A t \in 1..Len(txs) : t # n
      BY <1>1
    <3>3. w2[q] \subseteq w[q] \cup {n}
      BY <1>5
    <3> HIDE DEF n
    <3> QED
      BY <3>1, <3>2, <3>3
  <2> QED
    BY <2>1, <1>8 DEF HoldersOK
<1>9. ASSUME NEW procs, Kept(txs, w, act, procs)
      PROVE  Kept(new, w2, act, procs)
  <2> SUFFICES ASSUME NEW t \in 1..n, new[t].result = "pending"
               PROVE  \/ \E q \in Queues : t \in w2[q] \/ t = act[q].t
                      \/ \E p \in procs : Holds(p) /\ p.t = t
    BY <1>1 DEF Kept
  <2>1. CASE t = n
    BY <2>1, <1>3, <1>5
  <2>2. CASE t # n
    <3>1. t \in 1..Len(txs) /\ new[t] = txs[t]
      BY <2>2, <1>1
    <3> QED
      BY <3>1, <1>9, <1>5 DEF Kept
  <2> QED
    BY <2>1, <2>2
<1>10. w2 = With(w, new, Len(new))
  BY <1>1 DEF w2
<1> QED
  BY <1>1, <1>2, <1>7, <1>8, <1>9, <1>10 DEF new

-----------------------------------------------------------------------------
(* The steps                                                               *)

PlacesOK(txs, w, act, procs) ==
    /\ QueuesOK(txs, w, act)
    /\ HoldersOK(w, act, procs)
    /\ ProceduresOK(txs, procs)
    /\ options.softReset => Kept(txs, w, act, procs)

LEMMA DrainKeepsPlaces ==
    ASSUME NEW txs, NEW w, NEW act, NEW st, NEW procs,
           PlacesOK(txs, w, act, procs), Drain(txs, w, act, st),
           recovering' = procs, options' = options
    PROVE  /\ tx' = txs /\ status' = st
           /\ PlacesOK(tx, waiting, active, recovering)'
           /\ \A q \in Queues : active'[q].step = "sending" <=> act[q].step = "sending"
<1>1. QueuesOK(txs, w, act)
  BY DEF PlacesOK
<1>2. /\ tx' = txs /\ status' = st
      /\ QueuesOK(tx', waiting', active')
      /\ HoldersOK(w, act, procs) => HoldersOK(waiting', active', procs)
      /\ Kept(txs, w, act, procs) => Kept(tx', waiting', active', procs)
      /\ \A q \in Queues : active'[q].step = "sending" <=> act[q].step = "sending"
  BY <1>1, DrainKeeps, RecoveryAssumption
<1> QED
  BY <1>2 DEF PlacesOK

(* The loops that do not change keep sending.                              *)
LEMMA SameSerial ==
    ASSUME NEW s, NEW act, NEW act2, SerialOK(s, act),
           \A q \in Queues : act2[q].step = "sending" <=> act[q].step = "sending"
    PROVE  SerialOK(s, act2)
BY DEF SerialOK

(* A loop gets its result: it leaves the Serial API queue.                 *)
LEMMA ServedSerial ==
    ASSUME NEW s, NEW act, NEW act2, SerialOK(s, act),
           NEW q \in Queues, act[q].step = "sending", Head(s) = q, act2[q].step # "sending",
           \A r \in Queues \ {q} : act2[r].step = "sending" <=> act[r].step = "sending"
    PROVE  SerialOK(Tail(s), act2)
<1>1. s \in Seq(Queues) /\ Len(s) \in Nat /\ Len(s) > 0 /\ s[1] = q
  BY DEF SerialOK
<1>2. /\ Tail(s) \in Seq(Queues) /\ Len(Tail(s)) = Len(s) - 1
      /\ \A i \in 1..Len(Tail(s)) : i + 1 \in 1..Len(s) /\ Tail(s)[i] = s[i + 1]
  BY <1>1, HeadTailProperties
<1>3. \A i, j \in 1..Len(Tail(s)) : Tail(s)[i] = Tail(s)[j] => i = j
  <2> SUFFICES ASSUME NEW i \in 1..Len(Tail(s)), NEW j \in 1..Len(Tail(s)),
                      Tail(s)[i] = Tail(s)[j]
               PROVE  i = j
    OBVIOUS
  <2>1. i + 1 = j + 1
    BY <1>2 DEF SerialOK
  <2> QED
    BY <2>1
<1>4. ASSUME NEW r \in Queues
      PROVE  act2[r].step = "sending" <=> \E i \in 1..Len(Tail(s)) : Tail(s)[i] = r
  <2>1. CASE r = q
    <3>1. \A i \in 1..Len(Tail(s)) : Tail(s)[i] # q
      <4> SUFFICES ASSUME NEW i \in 1..Len(Tail(s)), Tail(s)[i] = q PROVE FALSE
        OBVIOUS
      <4>1. i + 1 = 1
        BY <1>1, <1>2 DEF SerialOK
      <4> QED
        BY <4>1
    <3> QED
      BY <2>1, <3>1
  <2>2. CASE r # q
    <3>1. (\E i \in 1..Len(s) : s[i] = r)
             => \E i \in 1..Len(Tail(s)) : Tail(s)[i] = r
      <4> SUFFICES ASSUME NEW i \in 1..Len(s), s[i] = r
                   PROVE  \E j \in 1..Len(Tail(s)) : Tail(s)[j] = r
        OBVIOUS
      <4>1. i # 1 /\ i - 1 \in 1..Len(Tail(s)) /\ (i - 1) + 1 = i
        BY <1>1, <1>2, <2>2
      <4>2. Tail(s)[i - 1] = s[i]
        BY <4>1, <1>2
      <4> QED
        BY <4>1, <4>2
    <3>2. (\E i \in 1..Len(Tail(s)) : Tail(s)[i] = r)
             => \E i \in 1..Len(s) : s[i] = r
      BY <1>2
    <3> QED
      BY <3>1, <3>2, <2>2 DEF SerialOK
  <2> QED
    BY <2>1, <2>2
<1> QED
  BY <1>2, <1>3, <1>4 DEF SerialOK

(* A loop hands a command to the Serial API queue.                         *)
LEMMA QueuedSerial ==
    ASSUME NEW s, NEW act, SerialOK(s, act), NEW q \in Queues, act[q].step # "sending",
           NEW act2, act2[q].step = "sending",
           \A r \in Queues \ {q} : act2[r].step = "sending" <=> act[r].step = "sending"
    PROVE  SerialOK(Append(s, q), act2)
<1> DEFINE n == Len(s) + 1
<1>1. /\ s \in Seq(Queues) /\ Len(s) \in Nat /\ Append(s, q) \in Seq(Queues)
      /\ Len(Append(s, q)) = n /\ Append(s, q)[n] = q
      /\ \A i \in 1..Len(s) : Append(s, q)[i] = s[i] /\ s[i] # q
  BY DEF SerialOK
<1>2. \A i \in 1..n : i = n \/ i \in 1..Len(s)
  BY <1>1
<1>3. \A i \in 1..Len(s) : i \in 1..n /\ i # n
  BY <1>1
<1>4. n \in 1..n
  BY <1>1
<1> HIDE DEF n
<1>5. \A i, j \in 1..n : Append(s, q)[i] = Append(s, q)[j] => i = j
  BY <1>1, <1>2 DEF SerialOK
<1>6. ASSUME NEW r \in Queues
      PROVE  act2[r].step = "sending" <=> \E i \in 1..n : Append(s, q)[i] = r
  <2>1. CASE r = q
    BY <2>1, <1>1, <1>4
  <2>2. CASE r # q
    <3>1. (\E i \in 1..n : Append(s, q)[i] = r) <=> \E i \in 1..Len(s) : s[i] = r
      BY <1>1, <1>2, <1>3, <2>2
    <3> QED
      BY <3>1, <2>2 DEF SerialOK
  <2> QED
    BY <2>1, <2>2
<1> QED
  BY <1>1, <1>5, <1>6 DEF SerialOK

(* The loop of q is done with its transaction.  txs and w are what the     *)
(* reaction to its result made of the transactions and the queues.         *)
LEMMA LoopIsFree ==
    ASSUME IInv, NEW q \in Queues, HasResult(q), NEW txs, Later(tx, txs),
           NEW w, w \in [Queues -> SUBSET (1..Len(tx))],
           \A r \in Queues : w[r] \subseteq waiting[r]
    PROVE  LET act == [active EXCEPT ![q] = Idle]
           IN  /\ active[q].t \in 1..Len(tx)
               /\ \A r \in Queues : active[q].t \notin w[r] /\ active[q].t # act[r].t
               /\ \A p \in recovering : Holds(p) => p.t # active[q].t
               /\ QueuesOK(txs, w, act)
               /\ HoldersOK(w, act, recovering)
               /\ ProceduresOK(txs, recovering)
<1> DEFINE act == [active EXCEPT ![q] = Idle]
           t == active[q].t
<1>1. QueuesOK(tx, waiting, active) /\ HoldersOK(waiting, active, recovering)
      /\ ProceduresOK(tx, recovering)
  BY DEF IInv
<1>2. active \in [Queues -> Loop(tx)] /\ Idle \in Loop(tx) /\ Len(tx) \in Nat
  <2>1. active \in [Queues -> Loop(tx)] /\ Len(tx) \in Nat
    BY <1>1 DEF QueuesOK
  <2>2. Idle \in Loop(tx)
    BY <2>1, RecoveryAssumption DEF Loop, Idle, Steps, RecoveryAssumption
  <2> QED
    BY <2>1, <2>2
<1>3. /\ \A r \in Queues : act[r] = IF r = q THEN Idle ELSE active[r]
      /\ act \in [Queues -> Loop(tx)]
  BY <1>2
<1>4. t \in 1..Len(tx) /\ QueueOf(tx[t].msg) = q
  <2>1. t \in 0..Len(tx) /\ t # 0
    BY <1>1, <1>2 DEF HasResult, QueuesOK, Loop
  <2> QED
    BY <2>1, <1>1, <1>2 DEF QueuesOK
<1> HIDE DEF act
<1>5. Idle.t = 0 /\ Idle.step = "idle"
  BY DEF Idle
<1>6. ASSUME NEW r \in Queues PROVE t \notin w[r] /\ t # act[r].t
  <2>1. t \notin waiting[r]
    BY <1>1, <1>4 DEF QueuesOK
  <2>2. r # q => active[r].t # t
    BY <1>1, <1>4 DEF QueuesOK
  <2> QED
    BY <2>1, <2>2, <1>3, <1>4, <1>5
<1>7. QueuesOK(tx, w, act)
  BY <1>1, <1>2, <1>3, <1>5 DEF QueuesOK
<1>8. HoldersOK(w, act, recovering)
  BY <1>1, <1>3, <1>5 DEF HoldersOK
<1>9. \A p \in recovering : Holds(p) => p.t # t
  BY <1>1 DEF HoldersOK
<1>10. QueuesOK(txs, w, act) /\ ProceduresOK(txs, recovering)
  BY <1>1, <1>7, <1>8, LaterKeeps
<1> QED
  BY <1>4, <1>6, <1>8, <1>9, <1>10 DEF act

(* What is dropped from the queues was rejected, the transaction of q is   *)
(* settled or held.                                                        *)
LEMMA LoopLosesNone ==
    ASSUME IInv, options.softReset, NEW q \in Queues, NEW txs, Later(tx, txs), NEW w,
           \A r \in Queues : \A t \in waiting[r] : t \in w[r] \/ txs[t].result # "pending",
           NEW procs, recovering \subseteq procs,
           \/ txs[active[q].t].result # "pending"
           \/ \E p \in procs : Holds(p) /\ p.t = active[q].t
    PROVE  Kept(txs, w, [active EXCEPT ![q] = Idle], procs)
<1> DEFINE act == [active EXCEPT ![q] = Idle]
<1>1. \A r \in Queues : r # q => act[r] = active[r]
  BY DEF IInv, QueuesOK
<1>2. Kept(txs, waiting, active, recovering)
  BY LaterKeeps DEF IInv
<1> HIDE DEF act
<1>3. Kept(txs, w, act, procs)
  <2> SUFFICES ASSUME NEW t \in 1..Len(txs), txs[t].result = "pending"
               PROVE  \/ \E r \in Queues : t \in w[r] \/ t = act[r].t
                      \/ \E p \in procs : Holds(p) /\ p.t = t
    BY DEF Kept
  <2>1. CASE \E r \in Queues : t \in waiting[r]
    BY <2>1
  <2>2. CASE \E r \in Queues : t = active[r].t
    BY <2>2, <1>1
  <2>3. CASE \E p \in recovering : Holds(p) /\ p.t = t
    BY <2>3
  <2> QED
    BY <2>1, <2>2, <2>3, <1>2 DEF Kept
<1> QED
  BY <1>3 DEF act

LEMMA EndedKeeps ==
    ASSUME IInv, NEW q \in Queues, HasResult(q), NEW txs, NEW w, NEW st, NEW procs,
           PlacesOK(txs, w, [active EXCEPT ![q] = Idle], procs),
           Ended(q, txs, w, st), recovering' = procs, options' = options
    PROVE  /\ tx' = txs /\ status' = st
           /\ PlacesOK(tx, waiting, active, recovering)'
           /\ SerialOK(serial, active)'
<1> DEFINE act == [active EXCEPT ![q] = Idle]
<1>1. serial' = Tail(serial) /\ Drain(txs, w, act, st)
  BY DEF Ended
<1>2. act[q].step = "idle" /\ \A r \in Queues : r # q => act[r] = active[r]
  BY DEF IInv, QueuesOK, Idle
<1>3. PlacesOK(txs, w, act, procs)
  OBVIOUS
<1> HIDE DEF act
<1>4. /\ tx' = txs /\ status' = st
      /\ PlacesOK(tx, waiting, active, recovering)'
      /\ \A r \in Queues : active'[r].step = "sending" <=> act[r].step = "sending"
  BY <1>1, <1>3, DrainKeepsPlaces
<1>5. SerialOK(serial, active)'
  <2>1. \A r \in Queues \ {q} : active'[r].step = "sending" <=> active[r].step = "sending"
    BY <1>2, <1>4
  <2>2. active'[q].step # "sending"
    BY <1>2, <1>4
  <2> QED
    BY <1>1, <2>1, <2>2, ServedSerial DEF IInv, HasResult
<1> QED
  BY <1>4, <1>5

LEMMA RejectedKeeps ==
    ASSUME IInv, NEW q \in Queues, HasResult(q), NEW why \in Results, NEW st, NEW ph,
           Rejected(q, why, st, ph), options' = options
    PROVE  /\ status' = st /\ phase' = ph
           /\ PlacesOK(tx, waiting, active, recovering)'
           /\ SerialOK(serial, active)'
<1> DEFINE t == active[q].t
           txs == Settled(tx, t, why)
<1>1. tx \in Seq(Tx) /\ waiting \in [Queues -> SUBSET (1..Len(tx))] /\ Later(tx, tx)
  BY DEF IInv, QueuesOK, Later
<1>2. t \in 1..Len(tx)
  BY <1>1, LoopIsFree
<1>3. Later(tx, txs) /\ txs[t].result # "pending"
  BY <1>1, <1>2, SettledIsLater
<1>4. Ended(q, txs, waiting, st) /\ phase' = ph /\ recovering' = recovering
  BY DEF Rejected
<1> HIDE DEF txs
<1>5. /\ QueuesOK(txs, waiting, [active EXCEPT ![q] = Idle])
      /\ HoldersOK(waiting, [active EXCEPT ![q] = Idle], recovering)
      /\ ProceduresOK(txs, recovering)
  BY <1>1, <1>3, LoopIsFree
<1>6. options.softReset => Kept(txs, waiting, [active EXCEPT ![q] = Idle], recovering)
  BY <1>3, LoopLosesNone
<1>7. PlacesOK(txs, waiting, [active EXCEPT ![q] = Idle], recovering)
  BY <1>5, <1>6 DEF PlacesOK
<1> QED
  BY <1>4, <1>7, EndedKeeps

(* Everything for the node of the transaction of q is rejected.            *)
LEMMA NodeRejected ==
    ASSUME IInv, NEW q \in Queues, HasResult(q)
    PROVE  LET txs == RejectedWith(active[q].t)
               w == WaitingWithout(Msg(q).node)
           IN  /\ Later(tx, txs) /\ txs[active[q].t].result # "pending"
               /\ w \in [Queues -> SUBSET (1..Len(tx))]
               /\ \A r \in Queues :
                    /\ w[r] \subseteq waiting[r]
                    /\ \A t \in waiting[r] : t \in w[r] \/ txs[t].result # "pending"
<1> DEFINE w == WaitingWithout(Msg(q).node)
           txs == RejectedWith(active[q].t)
<1>1. tx \in Seq(Tx) /\ waiting \in [Queues -> SUBSET (1..Len(tx))] /\ Later(tx, tx)
  BY DEF IInv, QueuesOK, Later
<1>2. active[q].t \in 1..Len(tx)
  BY <1>1, LoopIsFree
<1>3. Later(tx, txs) /\ txs[active[q].t].result # "pending"
  BY <1>1, <1>2, RejectedIsLater
<1>4. /\ w \in [Queues -> SUBSET (1..Len(tx))]
      /\ \A r \in Queues : w[r] = {t \in waiting[r] : tx[t].msg.node # Msg(q).node}
  BY <1>1 DEF WaitingWithout
<1>5. ASSUME NEW r \in Queues, NEW t \in waiting[r], t \notin w[r]
      PROVE  txs[t].result # "pending"
  <2>1. t \in DOMAIN tx /\ tx[t] \in Tx /\ tx[t].msg.node = tx[active[q].t].msg.node
    BY <1>1, <1>4, <1>5 DEF Msg
  <2>2. CASE tx[t].result = "pending"
    <3>1. txs[t] = [tx[t] EXCEPT !.result = "failed"]
      BY <2>1, <2>2 DEF RejectedWith
    <3> QED
      BY <2>1, <3>1, TxSettled DEF Results
  <2>3. CASE tx[t].result # "pending"
    BY <2>1, <2>3 DEF RejectedWith
  <2> QED
    BY <2>2, <2>3
<1> QED
  BY <1>3, <1>4, <1>5

LEMMA NodeRejectedKeeps ==
    ASSUME IInv, NEW q \in Queues, HasResult(q), NEW st,
           Ended(q, RejectedWith(active[q].t), WaitingWithout(Msg(q).node), st),
           recovering' = recovering, options' = options
    PROVE  /\ status' = st
           /\ PlacesOK(tx, waiting, active, recovering)'
           /\ SerialOK(serial, active)'
<1> DEFINE w == WaitingWithout(Msg(q).node)
           txs == RejectedWith(active[q].t)
<1>1. /\ Later(tx, txs) /\ txs[active[q].t].result # "pending"
      /\ w \in [Queues -> SUBSET (1..Len(tx))]
      /\ \A r \in Queues :
           /\ w[r] \subseteq waiting[r]
           /\ \A t \in waiting[r] : t \in w[r] \/ txs[t].result # "pending"
  BY NodeRejected
<1>2. Ended(q, txs, w, st)
  OBVIOUS
<1> HIDE DEF txs, w
<1>3. /\ QueuesOK(txs, w, [active EXCEPT ![q] = Idle])
      /\ HoldersOK(w, [active EXCEPT ![q] = Idle], recovering)
      /\ ProceduresOK(txs, recovering)
  BY <1>1, LoopIsFree
<1>4. options.softReset => Kept(txs, w, [active EXCEPT ![q] = Idle], recovering)
  BY <1>1, LoopLosesNone
<1>5. PlacesOK(txs, w, [active EXCEPT ![q] = Idle], recovering)
  BY <1>3, <1>4 DEF PlacesOK
<1> QED
  BY <1>2, <1>5, EndedKeeps

(* A transaction that is nowhere is queued.                                *)
LEMMA RequeuedKeeps ==
    ASSUME NEW txs, NEW w, NEW act, QueuesOK(txs, w, act), NEW t \in 1..Len(txs),
           \A q \in Queues : t \notin w[q] /\ t # act[q].t
    PROVE  /\ QueuesOK(txs, With(w, txs, t), act)
           /\ \A procs :
                /\ HoldersOK(w, act, procs) /\ (\A p \in procs : Holds(p) => p.t # t)
                     => HoldersOK(With(w, txs, t), act, procs)
                /\ (\A x \in 1..Len(txs) : txs[x].result = "pending" =>
                       \/ x = t
                       \/ \E q \in Queues : x \in w[q] \/ x = act[q].t
                       \/ \E p \in procs : Holds(p) /\ p.t = x)
                     => Kept(txs, With(w, txs, t), act, procs)
<1> DEFINE w2 == With(w, txs, t)
           own == QueueOf(txs[t].msg)
<1>1. own \in Queues
  BY DEF QueueOf, Queues
<1>2. w2 = [w EXCEPT ![own] = @ \cup {t}] /\ w \in [Queues -> SUBSET (1..Len(txs))]
  BY DEF With, QueuesOK
<1>3. /\ w2 \in [Queues -> SUBSET (1..Len(txs))]
      /\ \A q \in Queues : w2[q] = IF q = own THEN w[q] \cup {t} ELSE w[q]
  BY <1>1, <1>2
<1> HIDE DEF w2
<1>4. QueuesOK(txs, w2, act)
  <2>1. ASSUME NEW q \in Queues, NEW x \in w2[q]
        PROVE  QueueOf(txs[x].msg) = q /\ x # act[q].t
    <3>1. CASE x \in w[q]
      BY <3>1 DEF QueuesOK
    <3>2. CASE x = t /\ q = own
      BY <3>2
    <3> QED
      BY <3>1, <3>2, <1>3
  <2> QED
    BY <1>3, <2>1 DEF QueuesOK
<1>5. ASSUME NEW procs, HoldersOK(w, act, procs), \A p \in procs : Holds(p) => p.t # t
      PROVE  HoldersOK(w2, act, procs)
  BY <1>3, <1>5 DEF HoldersOK
<1>6. ASSUME NEW procs,
             \A x \in 1..Len(txs) : txs[x].result = "pending" =>
               \/ x = t
               \/ \E q \in Queues : x \in w[q] \/ x = act[q].t
               \/ \E p \in procs : Holds(p) /\ p.t = x
      PROVE  Kept(txs, w2, act, procs)
  <2> SUFFICES ASSUME NEW x \in 1..Len(txs), txs[x].result = "pending"
               PROVE  \/ \E q \in Queues : x \in w2[q] \/ x = act[q].t
                      \/ \E p \in procs : Holds(p) /\ p.t = x
    BY DEF Kept
  <2>1. CASE x = t
    BY <2>1, <1>1, <1>3
  <2>2. CASE \E q \in Queues : x \in w[q] \/ x = act[q].t
    BY <2>2, <1>3
  <2> QED
    BY <2>1, <2>2, <1>6
<1> QED
  BY <1>4, <1>5, <1>6 DEF w2

(* A procedure takes over the transaction of q, or leaves it settled.      *)
LEMMA RecoverKeeps ==
    ASSUME IInv, NEW q \in Queues, HasResult(q), NEW txs, Later(tx, txs), NEW w,
           w \in [Queues -> SUBSET (1..Len(tx))],
           \A r \in Queues :
             /\ w[r] \subseteq waiting[r]
             /\ \A t \in waiting[r] : t \in w[r] \/ txs[t].result # "pending",
           NEW cause \in {"ack", "callback", "jammed", "again"},
           cause = "again" => txs[active[q].t].result # "pending",
           NEW st, NEW ph, Recover(q, cause, txs, w, st, ph), options' = options
    PROVE  /\ status' = st /\ phase' = ph
           /\ PlacesOK(tx, waiting, active, recovering)'
           /\ SerialOK(serial, active)'
<1> DEFINE act == [active EXCEPT ![q] = Idle]
           new == Created(txs, SoftReset)
           n == Len(new)
           p == Procedure(cause, active[q].t, n)
           procs == recovering \cup {p}
           w2 == With(w, new, n)
<1>1. /\ active[q].t \in 1..Len(tx)
      /\ \A r \in Queues : active[q].t \notin w[r] /\ active[q].t # act[r].t
      /\ \A r \in recovering : Holds(r) => r.t # active[q].t
      /\ QueuesOK(txs, w, act)
      /\ HoldersOK(w, act, recovering)
      /\ ProceduresOK(txs, recovering)
  BY LoopIsFree
<1>2. p = [cause |-> cause, t |-> active[q].t, own |-> n, step |-> "resetting", polls |-> 0]
  BY DEF Procedure
<1>3. recovering' = procs /\ Ended(q, new, w2, st) /\ phase' = ph
  BY DEF Recover
<1>4. Len(txs) = Len(tx) /\ Len(tx) \in Nat
  BY DEF Later, IInv, QueuesOK
<1> HIDE DEF p, act
<1>5. HoldersOK(w, act, procs)
  <2>1. ASSUME NEW r \in procs, Holds(r)
        PROVE  /\ r.t # 0
               /\ \A k \in Queues : r.t \notin w[k] /\ r.t # act[k].t
               /\ \A r2 \in procs : Holds(r2) /\ r2.t = r.t => r2 = r
    <3>1. CASE r = p
      BY <3>1, <1>1, <1>2, <1>4
    <3>2. CASE r # p
      BY <3>2, <2>1, <1>1, <1>2 DEF HoldersOK
    <3> QED
      BY <3>1, <3>2
  <2> QED
    BY <2>1 DEF HoldersOK
<1>6. options.softReset => Kept(txs, w, act, procs)
  <2> SUFFICES ASSUME options.softReset PROVE Kept(txs, w, act, procs)
    OBVIOUS
  <2>1. \/ txs[active[q].t].result # "pending"
        \/ \E r \in procs : Holds(r) /\ r.t = active[q].t
    <3>1. CASE cause = "again"
      BY <3>1
    <3>2. CASE cause # "again"
      <4>1. Holds(p) /\ p.t = active[q].t /\ p \in procs
        BY <3>2, <1>2 DEF Holds
      <4> QED
        BY <4>1
    <3> QED
      BY <3>1, <3>2
  <2> QED
    BY <2>1, LoopLosesNone DEF act
<1>7. \A r \in procs : Holds(r) => r.t \in 1..Len(txs)
  <2>1. \A r \in recovering : Holds(r) => r.t \in 1..Len(txs)
    BY <1>1, <1>4 DEF ProceduresOK, Procedures, HoldersOK
  <2> QED
    BY <2>1, <1>1, <1>2, <1>4
<1>8. SoftReset \in Messages \cup {SoftReset, Version}
  OBVIOUS
<1> HIDE DEF procs
<1>9. /\ n = Len(txs) + 1
      /\ \A t \in 1..Len(txs) : new[t] = txs[t]
      /\ QueuesOK(new, w2, act)
      /\ HoldersOK(w2, act, procs)
      /\ options.softReset => Kept(new, w2, act, procs)
  <2>1. /\ n = Len(txs) + 1
        /\ \A t \in 1..Len(txs) : new[t] = txs[t]
        /\ QueuesOK(new, w2, act)
        /\ \A ps :
             (\A r \in ps : Holds(r) => r.t \in 1..Len(txs)) =>
               /\ HoldersOK(w, act, ps) => HoldersOK(w2, act, ps)
               /\ Kept(txs, w, act, ps) => Kept(new, w2, act, ps)
    BY <1>1, <1>8, CreatedKeeps
  <2> HIDE DEF new, w2, n
  <2> QED
    BY <2>1, <1>5, <1>6, <1>7
<1>10. ProceduresOK(new, procs)
  <2>1. p \in Procedures(new)
    BY <1>1, <1>2, <1>4, <1>9, RecoveryAssumption DEF Procedures, RecoveryAssumption
  <2>2. Procedures(txs) \subseteq Procedures(new)
    <3>1. 0..Len(txs) \subseteq 0..Len(new)
      BY <1>4, <1>9
    <3> QED
      BY <3>1 DEF Procedures
  <2>3. procs \subseteq Procedures(new)
    BY <2>1, <2>2, <1>1 DEF ProceduresOK, procs
  <2>4. ASSUME NEW r \in procs
        PROVE  /\ r.step \in {"resetting", "starting"} => r.polls = 0
               /\ r.step = "reopening" /\ Holds(r) => new[r.t].result # "pending"
               /\ r.cause = "reopen" => r.step = "reopening"
    <3>1. CASE r = p
      BY <3>1, <1>2
    <3>2. CASE r \in recovering
      BY <3>2, <2>4, <1>1, <1>7, <1>9 DEF ProceduresOK
    <3> QED
      BY <3>1, <3>2 DEF procs
  <2> HIDE DEF new
  <2> QED
    BY <2>3, <2>4 DEF ProceduresOK
<1> HIDE DEF new, w2
<1>11. PlacesOK(new, w2, act, procs)
  BY <1>9, <1>10 DEF PlacesOK
<1>12. PlacesOK(new, w2, [active EXCEPT ![q] = Idle], procs)
  BY <1>11 DEF act
<1> QED
  BY <1>3, <1>12, EndedKeeps

(* A procedure goes on to its next step.                                   *)
LEMMA BecomesKeeps ==
    ASSUME NEW txs, NEW w, NEW act, HoldersOK(w, act, recovering), ProceduresOK(txs, recovering),
           NEW p \in recovering, NEW p2 \in Procedures(txs), p2.cause = p.cause, p2.t = p.t,
           p2.step \in {"resetting", "starting"} => p2.polls = 0,
           p2.step = "reopening" /\ Holds(p2) => txs[p2.t].result # "pending",
           p2.cause = "reopen" => p2.step = "reopening"
    PROVE  LET procs == (recovering \ {p}) \cup {p2}
           IN  /\ HoldersOK(w, act, procs) /\ ProceduresOK(txs, procs)
               /\ Kept(txs, w, act, recovering) => Kept(txs, w, act, procs)
<1> DEFINE procs == (recovering \ {p}) \cup {p2}
<1>1. Holds(p2) <=> Holds(p)
  BY DEF Holds
<1>2. ASSUME NEW r \in procs, Holds(r)
      PROVE  /\ r.t # 0
             /\ \A k \in Queues : r.t \notin w[k] /\ r.t # act[k].t
             /\ \A r2 \in procs : Holds(r2) /\ r2.t = r.t => r2 = r
  <2>1. CASE r = p2
    BY <2>1, <1>1, <1>2 DEF HoldersOK
  <2>2. CASE r # p2
    BY <2>2, <1>1, <1>2 DEF HoldersOK
  <2> QED
    BY <2>1, <2>2
<1>3. HoldersOK(w, act, procs)
  BY <1>2 DEF HoldersOK
<1>4. ProceduresOK(txs, procs)
  BY DEF ProceduresOK
<1>5. ASSUME Kept(txs, w, act, recovering) PROVE Kept(txs, w, act, procs)
  <2>1. \A t : (\E r \in recovering : Holds(r) /\ r.t = t) => \E r \in procs : Holds(r) /\ r.t = t
    BY <1>1
  <2> HIDE DEF procs
  <2> QED
    BY <2>1, <1>5 DEF Kept
<1> QED
  BY <1>3, <1>4, <1>5

(* A procedure ends.  If it held a transaction that is pending, that is    *)
(* somewhere else now.                                                     *)
LEMMA ReleasedKeeps ==
    ASSUME NEW txs, NEW w, NEW act, ProceduresOK(txs, recovering), NEW p \in recovering
    PROVE  /\ ProceduresOK(txs, recovering \ {p})
           /\ HoldersOK(w, act, recovering) => HoldersOK(w, act, recovering \ {p})
           /\ /\ Kept(txs, w, act, recovering)
              /\ Holds(p) => txs[p.t].result # "pending"
              => Kept(txs, w, act, recovering \ {p})
<1>1. ProceduresOK(txs, recovering \ {p})
  BY DEF ProceduresOK
<1>2. HoldersOK(w, act, recovering) => HoldersOK(w, act, recovering \ {p})
  BY DEF HoldersOK
<1>3. ASSUME Kept(txs, w, act, recovering), Holds(p) => txs[p.t].result # "pending"
      PROVE  Kept(txs, w, act, recovering \ {p})
  BY <1>3 DEF Kept
<1> QED
  BY <1>1, <1>2, <1>3

(* A new message is queued beside what goes on.                            *)
LEMMA CreatedPlaces ==
    ASSUME NEW txs, NEW w, NEW act, NEW procs, PlacesOK(txs, w, act, procs),
           NEW m \in Messages \cup {SoftReset, Version}
    PROVE  LET new == Created(txs, m)
           IN  /\ Len(new) = Len(txs) + 1 /\ Len(txs) \in Nat
               /\ PlacesOK(new, With(w, new, Len(new)), act, procs)
<1> DEFINE new == Created(txs, m)
           w2 == With(w, new, Len(new))
<1>1. \A p \in procs : Holds(p) => p.t \in 1..Len(txs)
  BY DEF PlacesOK, ProceduresOK, Procedures, HoldersOK
<1>2. /\ Len(new) = Len(txs) + 1
      /\ \A t \in 1..Len(txs) : new[t] = txs[t]
      /\ QueuesOK(new, w2, act)
      /\ \A ps :
           (\A p \in ps : Holds(p) => p.t \in 1..Len(txs)) =>
             /\ HoldersOK(w, act, ps) => HoldersOK(w2, act, ps)
             /\ Kept(txs, w, act, ps) => Kept(new, w2, act, ps)
  BY CreatedKeeps DEF PlacesOK
<1>3. Len(txs) \in Nat
  BY DEF PlacesOK, QueuesOK
<1> HIDE DEF new, w2
<1>4. ProceduresOK(new, procs)
  <2>1. 0..Len(txs) \subseteq 0..Len(new)
    BY <1>2, <1>3
  <2>2. Procedures(txs) \subseteq Procedures(new)
    BY <2>1 DEF Procedures
  <2> QED
    BY <1>1, <1>2, <2>2 DEF PlacesOK, ProceduresOK
<1>5. PlacesOK(new, w2, act, procs)
  BY <1>1, <1>2, <1>4 DEF PlacesOK
<1> QED
  BY <1>2, <1>3, <1>5 DEF new, w2

(* A loop goes on with its transaction.                                    *)
LEMMA LoopGoesOn ==
    ASSUME IInv, NEW q \in Queues, NEW l \in Loop(tx), l.t = active[q].t, l.step # "idle",
           active[q].step # "idle"
    PROVE  PlacesOK(tx, waiting, [active EXCEPT ![q] = l], recovering)
<1> DEFINE act == [active EXCEPT ![q] = l]
<1>1. QueuesOK(tx, waiting, active) /\ PlacesOK(tx, waiting, active, recovering)
  BY DEF IInv, PlacesOK
<1>2. act \in [Queues -> Loop(tx)] /\ \A r \in Queues : act[r] = IF r = q THEN l ELSE active[r]
  BY <1>1 DEF QueuesOK
<1> HIDE DEF act
<1>3. \A r \in Queues : /\ act[r].t = active[r].t
                        /\ act[r].step = "idle" <=> active[r].step = "idle"
  BY <1>2
<1>4. QueuesOK(tx, waiting, act)
  BY <1>1, <1>2, <1>3 DEF QueuesOK
<1>5. HoldersOK(waiting, active, recovering) => HoldersOK(waiting, act, recovering)
  BY <1>3 DEF HoldersOK
<1>6. Kept(tx, waiting, active, recovering) => Kept(tx, waiting, act, recovering)
  BY <1>3 DEF Kept
<1>7. PlacesOK(tx, waiting, act, recovering)
  BY <1>1, <1>4, <1>5, <1>6 DEF PlacesOK
<1> QED
  BY <1>7 DEF act

(* The state of a loop, written out.                                       *)
State(t, step, acks, jams, maxJams) ==
    [t |-> t, step |-> step, acks |-> acks, jams |-> jams, maxJams |-> maxJams]

LEMMA LoopState ==
    ASSUME IInv, NEW q \in Queues
    PROVE  LET a == active[q]
           IN  /\ a = State(a.t, a.step, a.acks, a.jams, a.maxJams)
               /\ a.t \in 0..Len(tx) /\ a.step \in Steps /\ a.acks \in 0..MaxAttempts
               /\ a.jams \in 0..MaxJammed /\ a.maxJams \in 0..MaxJammed
<1>1. active[q] \in Loop(tx)
  BY DEF IInv, QueuesOK
<1> QED
  BY <1>1 DEF Loop, State

LEMMA StateIsLoop ==
    ASSUME NEW t \in 0..Len(tx), NEW step \in Steps, NEW acks \in 0..MaxAttempts,
           NEW jams \in 0..MaxJammed, NEW maxJams \in 0..MaxJammed
    PROVE  LET l == State(t, step, acks, jams, maxJams)
           IN  l \in Loop(tx) /\ l.t = t /\ l.step = step
BY DEF Loop, State

LEMMA ExecuteKeeps ==
    ASSUME IInv, NEW q \in Queues, Execute(q)
    PROVE  IInv'
<1> DEFINE max == IF phase = "jammedAfterReset" THEN 1 ELSE MaxJammed
           a == active[q]
           l == State(a.t, "sending", a.acks, a.jams, max)
           b == [active EXCEPT ![q].step = "sending"]
<1>1. /\ a = State(a.t, a.step, a.acks, a.jams, a.maxJams) /\ a.t \in 0..Len(tx)
      /\ a.acks \in 0..MaxAttempts /\ a.jams \in 0..MaxJammed
  BY LoopState
<1>2. a.step = "taken" /\ "sending" \in Steps /\ max \in 0..MaxJammed
  BY RecoveryAssumption DEF Execute, Steps, RecoveryAssumption
<1>3. active \in [Queues -> Loop(tx)]
  BY DEF IInv, QueuesOK
<1>4. /\ b[q] = State(a.t, "sending", a.acks, a.jams, a.maxJams)
      /\ DOMAIN b = Queues /\ \A r \in Queues \ {q} : b[r] = active[r]
  BY <1>1, <1>3 DEF State
<1> HIDE DEF max
<1>5. active' = [b EXCEPT ![q].maxJams = max]
  BY DEF Execute, max
<1> HIDE DEF b
<1>6. active'[q] = l /\ \A r \in Queues \ {q} : active'[r] = active[r]
  BY <1>4, <1>5 DEF State
<1>7. l \in Loop(tx) /\ l.t = a.t /\ l.step = "sending"
  BY <1>1, <1>2, StateIsLoop
<1> HIDE DEF l
<1>8. active' = [active EXCEPT ![q] = l]
  BY <1>3, <1>4, <1>5, <1>6
<1>9. UNCHANGED <<options, tx, waiting, status, phase, recovering, driver, sent, faults>>
      /\ serial' = Append(serial, q)
  BY DEF Execute
<1>10. PlacesOK(tx, waiting, active, recovering)'
  <2>1. PlacesOK(tx, waiting, [active EXCEPT ![q] = l], recovering)
    BY <1>2, <1>7, LoopGoesOn
  <2> QED
    BY <2>1, <1>8, <1>9 DEF PlacesOK
<1>11. SerialOK(serial, active)'
  BY <1>2, <1>6, <1>7, <1>9, QueuedSerial DEF IInv
<1> QED
  BY <1>9, <1>10, <1>11 DEF IInv, PlacesOK, RestOK

LEMMA AckMissingOnceKeeps ==
    ASSUME IInv, NEW q \in Queues, AckMissingOnce(q)
    PROVE  IInv'
<1> DEFINE a == active[q]
           l == State(a.t, "sending", a.acks + 1, a.jams, a.maxJams)
           free == [active EXCEPT ![q] = Idle]
<1>1. /\ a = State(a.t, a.step, a.acks, a.jams, a.maxJams) /\ a.t \in 0..Len(tx)
      /\ a.acks \in 0..MaxAttempts /\ a.jams \in 0..MaxJammed /\ a.maxJams \in 0..MaxJammed
  BY LoopState
<1>2. a.step = "sending" /\ "sending" \in Steps /\ a.acks + 1 \in 0..MaxAttempts
  BY <1>1, RecoveryAssumption DEF AckMissingOnce, HasResult, Steps, RecoveryAssumption
<1>3. active \in [Queues -> Loop(tx)]
  BY DEF IInv, QueuesOK
<1>4. active' = [active EXCEPT ![q].acks = @ + 1]
  BY DEF AckMissingOnce
<1>5. active'[q] = l /\ \A r \in Queues \ {q} : active'[r] = active[r]
  BY <1>1, <1>2, <1>3, <1>4 DEF State
<1>6. l \in Loop(tx) /\ l.t = a.t /\ l.step = "sending"
  BY <1>1, <1>2, StateIsLoop, SMTT(30)
<1> HIDE DEF l
<1>7. active' = [active EXCEPT ![q] = l]
  BY <1>3, <1>4, <1>5
<1>8. /\ UNCHANGED <<options, tx, waiting, status, phase, recovering, driver, sent>>
      /\ faults < MaxFaults /\ faults' = faults + 1
      /\ serial' = Append(Tail(serial), q) /\ Head(serial) = q
  BY DEF AckMissingOnce, Fault, HasResult
<1>9. PlacesOK(tx, waiting, active, recovering)'
  <2>1. PlacesOK(tx, waiting, [active EXCEPT ![q] = l], recovering)
    BY <1>2, <1>6, LoopGoesOn
  <2> QED
    BY <2>1, <1>7, <1>8 DEF PlacesOK
<1>10. SerialOK(serial, active)'
  <2>1. free[q].step = "idle" /\ \A r \in Queues \ {q} : free[r] = active[r]
    BY <1>3 DEF Idle
  <2> HIDE DEF free
  <2>2. SerialOK(Tail(serial), free)
    BY <1>2, <1>8, <2>1, ServedSerial DEF IInv
  <2> QED
    BY <1>5, <1>6, <1>8, <2>1, <2>2, QueuedSerial
<1>11. RestOK'
  <2>1. faults' \in 0..MaxFaults
    BY <1>8, RecoveryAssumption DEF IInv, RestOK, RecoveryAssumption
  <2> QED
    BY <1>8, <2>1 DEF IInv, RestOK
<1> QED
  BY <1>8, <1>9, <1>10, <1>11 DEF IInv, PlacesOK

LEMMA JammedOnceKeeps ==
    ASSUME IInv, NEW q \in Queues, JammedOnce(q)
    PROVE  IInv'
<1> DEFINE a == active[q]
           l == State(a.t, "retrying", a.acks, a.jams + 1, a.maxJams)
           b == [active EXCEPT ![q].jams = @ + 1]
           act == [active EXCEPT ![q].jams = @ + 1, ![q].step = "retrying"]
<1>1. /\ a = State(a.t, a.step, a.acks, a.jams, a.maxJams) /\ a.t \in 0..Len(tx)
      /\ a.acks \in 0..MaxAttempts /\ a.jams \in 0..MaxJammed /\ a.maxJams \in 0..MaxJammed
  BY LoopState
<1>2. a.step = "sending" /\ "retrying" \in Steps /\ a.jams + 1 \in 0..MaxJammed
  BY <1>1, RecoveryAssumption, SMTT(30) DEF JammedOnce, HasResult, Steps, RecoveryAssumption
<1>3. active \in [Queues -> Loop(tx)]
  BY DEF IInv, QueuesOK
<1>4. /\ b[q] = State(a.t, "sending", a.acks, a.jams + 1, a.maxJams)
      /\ DOMAIN b = Queues /\ \A r \in Queues \ {q} : b[r] = active[r]
  BY <1>1, <1>2, <1>3 DEF State
<1>5. act = [b EXCEPT ![q].step = "retrying"]
  OBVIOUS
<1>6. /\ UNCHANGED <<options, phase, recovering, driver, sent>>
      /\ faults < MaxFaults /\ faults' = faults + 1
      /\ serial' = Tail(serial) /\ Head(serial) = q
      /\ Drain(tx, waiting, act, "jammed")
  BY DEF JammedOnce, Fault, HasResult
<1> HIDE DEF b, act
<1>7. act[q] = l /\ \A r \in Queues \ {q} : act[r] = active[r]
  BY <1>4, <1>5 DEF State
<1>8. l \in Loop(tx) /\ l.t = a.t /\ l.step = "retrying"
  BY <1>1, <1>2, StateIsLoop, SMTT(30)
<1> HIDE DEF l
<1>9. act = [active EXCEPT ![q] = l]
  BY <1>3, <1>4, <1>5, <1>7
<1>10. PlacesOK(tx, waiting, act, recovering)
  <2>1. PlacesOK(tx, waiting, [active EXCEPT ![q] = l], recovering)
    BY <1>2, <1>8, LoopGoesOn
  <2> QED
    BY <2>1, <1>9
<1>11. /\ tx' = tx /\ status' = "jammed"
       /\ PlacesOK(tx, waiting, active, recovering)'
       /\ \A r \in Queues : active'[r].step = "sending" <=> act[r].step = "sending"
  BY <1>6, <1>10, DrainKeepsPlaces
<1>12. SerialOK(serial, active)'
  <2>1. SerialOK(Tail(serial), act)
    BY <1>2, <1>6, <1>7, <1>8, ServedSerial DEF IInv
  <2> QED
    BY <1>6, <1>11, <2>1, SameSerial
<1>13. RestOK'
  <2>1. faults' \in 0..MaxFaults
    BY <1>6, RecoveryAssumption DEF IInv, RestOK, RecoveryAssumption
  <2> QED
    BY <1>6, <1>11, <2>1 DEF IInv, RestOK, Statuses
<1> QED
  BY <1>6, <1>11, <1>12, <1>13 DEF IInv, PlacesOK

LEMMA JamWaitEndsKeeps ==
    ASSUME IInv, NEW q \in Queues, JamWaitEnds(q)
    PROVE  IInv'
<1> DEFINE a == active[q]
           l == State(a.t, "sending", a.acks, a.jams, a.maxJams)
<1>1. /\ a = State(a.t, a.step, a.acks, a.jams, a.maxJams) /\ a.t \in 0..Len(tx)
      /\ a.acks \in 0..MaxAttempts /\ a.jams \in 0..MaxJammed /\ a.maxJams \in 0..MaxJammed
  BY LoopState
<1>2. a.step = "retrying" /\ "sending" \in Steps
  BY DEF JamWaitEnds, Steps
<1>3. active \in [Queues -> Loop(tx)]
  BY DEF IInv, QueuesOK
<1>4. active' = [active EXCEPT ![q].step = "sending"]
  BY DEF JamWaitEnds
<1>5. active'[q] = l /\ \A r \in Queues \ {q} : active'[r] = active[r]
  BY <1>1, <1>3, <1>4 DEF State
<1>6. l \in Loop(tx) /\ l.t = a.t /\ l.step = "sending"
  BY <1>1, <1>2, StateIsLoop
<1> HIDE DEF l
<1>7. active' = [active EXCEPT ![q] = l]
  BY <1>3, <1>4, <1>5
<1>8. /\ UNCHANGED <<options, tx, waiting, status, phase, recovering, driver, sent, faults>>
      /\ serial' = Append(serial, q)
  BY DEF JamWaitEnds
<1>9. PlacesOK(tx, waiting, active, recovering)'
  <2>1. PlacesOK(tx, waiting, [active EXCEPT ![q] = l], recovering)
    BY <1>2, <1>6, LoopGoesOn
  <2> QED
    BY <2>1, <1>7, <1>8 DEF PlacesOK
<1>10. SerialOK(serial, active)'
  BY <1>2, <1>5, <1>6, <1>8, QueuedSerial DEF IInv
<1> QED
  BY <1>8, <1>9, <1>10 DEF IInv, PlacesOK, RestOK

(* What the other variables are.                                           *)
LEMMA IInvParts ==
    ASSUME IInv
    PROVE  /\ PlacesOK(tx, waiting, active, recovering)
           /\ tx \in Seq(Tx) /\ Len(tx) \in Nat
           /\ waiting \in [Queues -> SUBSET (1..Len(tx))]
           /\ Later(tx, tx)
           /\ SerialOK(serial, active) /\ RestOK
BY DEF IInv, PlacesOK, QueuesOK, Later

LEMMA SendMessageKeeps ==
    ASSUME IInv, NEW m \in Messages, SendMessage(m)
    PROVE  IInv'
<1> DEFINE new == Created(tx, m)
           w == With(waiting, new, Len(new))
<1>1. /\ Drain(new, w, active, status)
      /\ sent < MaxMessages /\ sent' = sent + 1
      /\ UNCHANGED <<options, serial, phase, recovering, driver, faults>>
  BY DEF SendMessage
<1>2. PlacesOK(new, w, active, recovering)
  BY IInvParts, CreatedPlaces
<1> HIDE DEF new, w
<1>3. /\ status' = status /\ PlacesOK(tx, waiting, active, recovering)'
      /\ \A q \in Queues : active'[q].step = "sending" <=> active[q].step = "sending"
  BY <1>1, <1>2, DrainKeepsPlaces
<1>4. SerialOK(serial, active)'
  BY <1>1, <1>3, IInvParts, SameSerial
<1>5. sent' \in 0..MaxMessages
  BY <1>1, RecoveryAssumption DEF IInv, RestOK, RecoveryAssumption
<1> QED
  BY <1>1, <1>3, <1>4, <1>5 DEF IInv, PlacesOK, RestOK

LEMMA UserSoftResetKeeps ==
    ASSUME IInv, UserSoftReset
    PROVE  IInv'
<1> DEFINE new == Created(tx, SoftReset)
           w == With(waiting, new, Len(new))
           p == Procedure("user", 0, Len(new))
           procs == recovering \cup {p}
<1>1. /\ Drain(new, w, active, status) /\ recovering' = procs
      /\ faults < MaxFaults /\ faults' = faults + 1
      /\ UNCHANGED <<options, serial, phase, driver, sent>>
  BY DEF UserSoftReset, Fault
<1>2. /\ PlacesOK(new, w, active, recovering)
      /\ Len(new) = Len(tx) + 1 /\ Len(tx) \in Nat
  BY IInvParts, CreatedPlaces
<1> HIDE DEF new, w
<1>3. p = [cause |-> "user", t |-> 0, own |-> Len(new), step |-> "resetting", polls |-> 0]
  BY DEF Procedure
<1>4. p \in Procedures(new) /\ ~Holds(p)
  BY <1>2, <1>3, RecoveryAssumption DEF Procedures, Holds, RecoveryAssumption
<1> HIDE DEF p
<1>5. PlacesOK(new, w, active, procs)
  <2>1. ProceduresOK(new, procs)
    BY <1>2, <1>3, <1>4 DEF PlacesOK, ProceduresOK
  <2>2. HoldersOK(w, active, procs)
    BY <1>2, <1>4 DEF PlacesOK, HoldersOK
  <2>3. Kept(new, w, active, recovering) => Kept(new, w, active, procs)
    BY DEF Kept
  <2> QED
    BY <1>2, <2>1, <2>2, <2>3 DEF PlacesOK
<1> HIDE DEF procs
<1>6. /\ status' = status /\ PlacesOK(tx, waiting, active, recovering)'
      /\ \A q \in Queues : active'[q].step = "sending" <=> active[q].step = "sending"
  BY <1>1, <1>5, DrainKeepsPlaces
<1>7. SerialOK(serial, active)'
  BY <1>1, <1>6, IInvParts, SameSerial
<1>8. faults' \in 0..MaxFaults
  BY <1>1, RecoveryAssumption DEF IInv, RestOK, RecoveryAssumption
<1> QED
  BY <1>1, <1>6, <1>7, <1>8 DEF IInv, PlacesOK, RestOK

(* What follows from a reaction to a result.                               *)
LEMMA Assembled ==
    ASSUME IInv, PlacesOK(tx, waiting, active, recovering)', SerialOK(serial, active)',
           status' \in Statuses, phase' \in Phases,
           UNCHANGED <<options, sent>>,
           driver' \in {"running", "destroyed", "portLost"},
           faults' = faults \/ \E e : Fault(e)
    PROVE  IInv'
<1>1. faults' \in 0..MaxFaults
  <2>1. CASE faults' = faults
    BY <2>1 DEF IInv, RestOK
  <2>2. CASE \E e : Fault(e)
    BY <2>2, RecoveryAssumption DEF IInv, RestOK, Fault, RecoveryAssumption
  <2> QED
    BY <2>1, <2>2
<1> QED
  BY <1>1 DEF IInv, PlacesOK, RestOK

LEMMA TransmittedType ==
    ASSUME IInv, NEW q
    PROVE  Transmitted(q).status \in Statuses /\ Transmitted(q).phase \in Phases
BY DEF IInv, RestOK, Transmitted, Statuses, Phases

LEMMA SucceedsKeeps ==
    ASSUME IInv, NEW q \in Queues, Succeeds(q)
    PROVE  IInv'
<1>1. /\ HasResult(q) /\ UNCHANGED <<options, recovering, driver, sent, faults>>
      /\ Rejected(q, "ok", Transmitted(q).status, Transmitted(q).phase) /\ "ok" \in Results
  BY DEF Succeeds, Rejected, Results
<1>2. /\ status' = Transmitted(q).status /\ phase' = Transmitted(q).phase
      /\ PlacesOK(tx, waiting, active, recovering)' /\ SerialOK(serial, active)'
  BY <1>1, RejectedKeeps
<1> QED
  BY <1>1, <1>2, TransmittedType, Assembled DEF IInv, RestOK

LEMMA NodeSilentKeeps ==
    ASSUME IInv, NEW q \in Queues, NodeSilent(q)
    PROVE  IInv'
<1>1. /\ HasResult(q) /\ Fault("node") /\ UNCHANGED <<options, recovering, driver, sent>>
      /\ Ended(q, RejectedWith(active[q].t), WaitingWithout(Msg(q).node), Transmitted(q).status)
      /\ phase' = Transmitted(q).phase
  BY DEF NodeSilent
<1>2. /\ status' = Transmitted(q).status
      /\ PlacesOK(tx, waiting, active, recovering)' /\ SerialOK(serial, active)'
  BY <1>1, NodeRejectedKeeps
<1> QED
  BY <1>1, <1>2, TransmittedType, Assembled DEF IInv, RestOK

(* Without soft reset the transaction is not held: see HandledOrRejected.  *)
LEMMA ReopenKeeps ==
    ASSUME IInv, NEW q \in Queues, HasResult(q), ~options.softReset,
           recovering' = recovering \cup
             {[Procedure("reopen", active[q].t, 0) EXCEPT !.step = "reopening"]},
           Ended(q, tx, waiting, status), options' = options
    PROVE  /\ status' = status
           /\ PlacesOK(tx, waiting, active, recovering)' /\ SerialOK(serial, active)'
<1> DEFINE act == [active EXCEPT ![q] = Idle]
           p == [Procedure("reopen", active[q].t, 0) EXCEPT !.step = "reopening"]
           procs == recovering \cup {p}
<1>1. /\ active[q].t \in 1..Len(tx) /\ QueuesOK(tx, waiting, act)
      /\ HoldersOK(waiting, act, recovering) /\ ProceduresOK(tx, recovering)
  BY IInvParts, LoopIsFree
<1>2. p = [cause |-> "reopen", t |-> active[q].t, own |-> 0, step |-> "reopening", polls |-> 0]
  BY DEF Procedure
<1>3. p \in Procedures(tx) /\ ~Holds(p)
  BY <1>1, <1>2, IInvParts, RecoveryAssumption DEF Procedures, Holds, RecoveryAssumption
<1> HIDE DEF p
<1>4. ProceduresOK(tx, procs) /\ HoldersOK(waiting, act, procs)
  <2>1. ProceduresOK(tx, procs)
    BY <1>1, <1>2, <1>3 DEF ProceduresOK
  <2>2. HoldersOK(waiting, act, procs)
    BY <1>1, <1>3 DEF HoldersOK
  <2> QED
    BY <2>1, <2>2
<1>5. PlacesOK(tx, waiting, act, procs)
  BY <1>1, <1>4 DEF PlacesOK
<1>6. recovering' = procs
  BY DEF p
<1> HIDE DEF procs
<1> QED
  BY <1>5, <1>6, EndedKeeps

LEMMA AckMissingKeeps ==
    ASSUME IInv, NEW q \in Queues, AckMissing(q)
    PROVE  IInv'
<1>1. HasResult(q) /\ Fault("ack") /\ UNCHANGED <<options, driver, sent>>
  BY DEF AckMissing
<1>2. /\ PlacesOK(tx, waiting, active, recovering)' /\ SerialOK(serial, active)'
      /\ status' \in Statuses /\ phase' \in Phases
  <2>1. status \in Statuses /\ phase \in Phases
    BY DEF IInv, RestOK
  <2>2. CASE Rejected(q, "noAck", status, phase)
    BY <1>1, <2>1, <2>2, RejectedKeeps DEF Results
  <2>3. CASE /\ ~options.softReset
             /\ recovering' = recovering \cup
                  {[Procedure("reopen", active[q].t, 0) EXCEPT !.step = "reopening"]}
             /\ Ended(q, tx, waiting, status)
             /\ UNCHANGED phase
    BY <1>1, <2>1, <2>3, ReopenKeeps
  <2>4. CASE Recover(q, "ack", tx, waiting, "unresponsive", "ackTimeout")
    <3>1. "ack" \in {"ack", "callback", "jammed", "again"} /\ "ack" # "again"
      OBVIOUS
    <3>2. \A r \in Queues :
            /\ waiting[r] \subseteq waiting[r]
            /\ \A t \in waiting[r] : t \in waiting[r] \/ tx[t].result # "pending"
      OBVIOUS
    <3>3. /\ status' = "unresponsive" /\ phase' = "ackTimeout"
          /\ PlacesOK(tx, waiting, active, recovering)' /\ SerialOK(serial, active)'
      BY <1>1, <2>4, <3>1, <3>2, IInvParts, RecoverKeeps
    <3> QED
      BY <3>3 DEF Statuses, Phases
  <2> QED
    BY <2>2, <2>3, <2>4 DEF AckMissing
<1> QED
  BY <1>1, <1>2, Assembled DEF IInv, RestOK

(* A procedure takes over the transaction of q as it is.                   *)
LEMMA TakenOver ==
    ASSUME IInv, NEW q \in Queues, HasResult(q), NEW cause \in {"callback", "jammed"},
           NEW st \in Statuses, NEW ph \in Phases, Recover(q, cause, tx, waiting, st, ph),
           options' = options
    PROVE  /\ PlacesOK(tx, waiting, active, recovering)' /\ SerialOK(serial, active)'
           /\ status' \in Statuses /\ phase' \in Phases
<1>1. cause \in {"ack", "callback", "jammed", "again"} /\ cause # "again"
  OBVIOUS
<1>2. \A r \in Queues :
        /\ waiting[r] \subseteq waiting[r]
        /\ \A t \in waiting[r] : t \in waiting[r] \/ tx[t].result # "pending"
  OBVIOUS
<1>3. /\ status' = st /\ phase' = ph
      /\ PlacesOK(tx, waiting, active, recovering)' /\ SerialOK(serial, active)'
  BY <1>1, <1>2, IInvParts, RecoverKeeps
<1> QED
  BY <1>3

LEMMA RequeuedNow ==
    ASSUME IInv, NEW q \in Queues, HasResult(q),
           Ended(q, tx, With(waiting, tx, active[q].t), status),
           UNCHANGED <<phase, recovering, options>>
    PROVE  /\ status' = status
           /\ PlacesOK(tx, waiting, active, recovering)' /\ SerialOK(serial, active)'
<1> DEFINE act == [active EXCEPT ![q] = Idle]
           t == active[q].t
           w == With(waiting, tx, t)
<1>1. /\ t \in 1..Len(tx)
      /\ \A r \in Queues : t \notin waiting[r] /\ t # act[r].t
      /\ \A p \in recovering : Holds(p) => p.t # t
      /\ QueuesOK(tx, waiting, act) /\ HoldersOK(waiting, act, recovering)
      /\ ProceduresOK(tx, recovering)
  BY IInvParts, LoopIsFree
<1>2. \A r \in Queues : r # q => act[r] = active[r]
  BY DEF IInv, QueuesOK
<1> HIDE DEF act
<1>3. /\ QueuesOK(tx, w, act)
      /\ HoldersOK(w, act, recovering)
      /\ (\A x \in 1..Len(tx) : tx[x].result = "pending" =>
            \/ x = t
            \/ \E r \in Queues : x \in waiting[r] \/ x = act[r].t
            \/ \E p \in recovering : Holds(p) /\ p.t = x)
           => Kept(tx, w, act, recovering)
  BY <1>1, RequeuedKeeps
<1>4. options.softReset => Kept(tx, w, act, recovering)
  <2> HIDE DEF w
  <2> QED
    BY <1>2, <1>3 DEF IInv, Kept
<1>5. PlacesOK(tx, w, act, recovering)
  BY <1>1, <1>3, <1>4 DEF PlacesOK
<1>6. PlacesOK(tx, w, [active EXCEPT ![q] = Idle], recovering)
  BY <1>5 DEF act
<1> HIDE DEF w
<1>7. Ended(q, tx, w, status)
  BY DEF w
<1> QED
  BY <1>6, <1>7, EndedKeeps

LEMMA FailsKeeps ==
    ASSUME IInv, NEW q \in Queues, NEW error, Fails(q, error)
    PROVE  IInv'
<1> DEFINE Good == /\ PlacesOK(tx, waiting, active, recovering)' /\ SerialOK(serial, active)'
                   /\ status' \in Statuses /\ phase' \in Phases
<1>1. HasResult(q) /\ Fault(error) /\ HandleFailed(q, error) /\ UNCHANGED <<options, driver, sent>>
  BY DEF Fails
<1>2. /\ status \in Statuses /\ phase \in Phases
      /\ "ready" \in Statuses /\ "unresponsive" \in Statuses /\ "none" \in Phases
      /\ "jammed" \in Phases /\ "callbackTimeout" \in Phases /\ "failed" \in Results
  BY DEF IInv, RestOK, Statuses, Phases, Results
<1>3. ASSUME NEW st \in Statuses, NEW ph \in Phases, Rejected(q, "failed", st, ph)
      PROVE  Good
  BY <1>1, <1>2, <1>3, RejectedKeeps
<1>4. ASSUME JammedController(q) PROVE Good
  <2>1. CASE Rejected(q, "failed", "ready", "none") \/ Rejected(q, "failed", "ready", phase)
    BY <1>2, <1>3, <2>1
  <2>2. CASE Recover(q, "jammed", tx, waiting, status, "jammed")
    BY <1>1, <1>2, <2>2, TakenOver
  <2> QED
    BY <1>4, <2>1, <2>2 DEF JammedController
<1>5. ASSUME MissingAnswer(q, error) PROVE Good
  <2>1. CASE NodeBlamed(q)
    BY <1>1, <1>2, <2>1, NodeRejectedKeeps DEF NodeBlamed
  <2>2. CASE NodeBlamedAndReset(q)
    <3> DEFINE txs == RejectedWith(active[q].t)
               w == WaitingWithout(Msg(q).node)
    <3>1. Recover(q, "again", txs, w, status, phase)
      BY <2>2 DEF NodeBlamedAndReset
    <3>2. /\ Later(tx, txs) /\ txs[active[q].t].result # "pending"
          /\ w \in [Queues -> SUBSET (1..Len(tx))]
          /\ \A r \in Queues :
               /\ w[r] \subseteq waiting[r]
               /\ \A t \in waiting[r] : t \in w[r] \/ txs[t].result # "pending"
      BY <1>1, NodeRejected
    <3> HIDE DEF txs, w
    <3>3. "again" \in {"ack", "callback", "jammed", "again"}
      OBVIOUS
    <3> QED
      BY <1>1, <1>2, <3>1, <3>2, <3>3, RecoverKeeps
  <2>3. CASE Rejected(q, "failed", status, phase)
    BY <1>2, <1>3, <2>3
  <2>4. CASE Recover(q, "callback", tx, waiting, "unresponsive", "callbackTimeout")
    BY <1>1, <1>2, <2>4, TakenOver
  <2> QED
    BY <1>5, <2>1, <2>2, <2>3, <2>4 DEF MissingAnswer
<1>6. ASSUME /\ Ended(q, tx, With(waiting, tx, active[q].t), status)
             /\ UNCHANGED <<phase, recovering>>
      PROVE  Good
  BY <1>1, <1>2, <1>6, RequeuedNow
<1>7. Good
  <2>1. \/ JammedController(q) \/ MissingAnswer(q, error)
        \/ Rejected(q, "failed", status, phase)
        \/ /\ Ended(q, tx, With(waiting, tx, active[q].t), status)
           /\ UNCHANGED <<phase, recovering>>
    <3>1. Handler(q, error) \in {"jammed", "missing", "reject", "requeue"}
      BY DEF Handler
    <3>2. HandleFailed(q, error)
      BY <1>1
    <3>3. CASE Handler(q, error) = "jammed"
      BY <3>2, <3>3 DEF HandleFailed
    <3>4. CASE Handler(q, error) = "missing"
      BY <3>2, <3>4 DEF HandleFailed
    <3>5. CASE Handler(q, error) = "reject"
      BY <3>2, <3>5 DEF HandleFailed
    <3>6. CASE Handler(q, error) = "requeue"
      BY <3>2, <3>6 DEF HandleFailed
    <3> QED
      BY <3>1, <3>3, <3>4, <3>5, <3>6
  <2> HIDE DEF Good
  <2> QED
    BY <1>2, <1>3, <1>4, <1>5, <1>6, <2>1
<1> QED
  BY <1>1, <1>7, Assembled DEF IInv, RestOK

-----------------------------------------------------------------------------
(* The steps of the procedures                                             *)

(* The record of a procedure, and what its place in the invariant says.    *)
LEMMA ProcedureType ==
    ASSUME IInv, NEW p \in recovering
    PROVE  /\ p = [cause |-> p.cause, t |-> p.t, own |-> p.own, step |-> p.step, polls |-> p.polls]
           /\ p.cause \in {"ack", "callback", "jammed", "again", "user", "reopen"}
           /\ p.t \in 0..Len(tx) /\ p.own \in 0..Len(tx) /\ p.polls \in 0..MaxPolls
           /\ p.step \in {"resetting", "starting", "polling", "reopening"}
           /\ p.step \in {"resetting", "starting"} => p.polls = 0
           /\ p.step = "reopening" /\ Holds(p) => tx[p.t].result # "pending"
           /\ p.cause = "reopen" => p.step = "reopening"
           /\ Holds(p) => p.t \in 1..Len(tx)
<1>1. p \in Procedures(tx)
  BY DEF IInv, ProceduresOK
<1>2. /\ p = [cause |-> p.cause, t |-> p.t, own |-> p.own, step |-> p.step, polls |-> p.polls]
      /\ p.cause \in {"ack", "callback", "jammed", "again", "user", "reopen"}
      /\ p.t \in 0..Len(tx) /\ p.own \in 0..Len(tx) /\ p.polls \in 0..MaxPolls
      /\ p.step \in {"resetting", "starting", "polling", "reopening"}
  BY <1>1 DEF Procedures
<1>3. Holds(p) => p.t # 0
  BY DEF IInv, HoldersOK
<1>4. Holds(p) => p.t \in 1..Len(tx)
  BY <1>2, <1>3, IInvParts
<1> QED
  BY <1>2, <1>4 DEF IInv, ProceduresOK

(* The queues are drained, the loops and the Serial API queue go on.       *)
LEMMA DrainedStep ==
    ASSUME IInv, NEW txs, NEW w, NEW st \in Statuses, NEW procs,
           PlacesOK(txs, w, active, procs), Drain(txs, w, active, st), recovering' = procs,
           UNCHANGED <<options, serial>>
    PROVE  /\ PlacesOK(tx, waiting, active, recovering)' /\ SerialOK(serial, active)'
           /\ status' \in Statuses
<1>1. /\ status' = st
      /\ PlacesOK(tx, waiting, active, recovering)'
      /\ \A q \in Queues : active'[q].step = "sending" <=> active[q].step = "sending"
  BY DrainKeepsPlaces
<1> QED
  BY <1>1, IInvParts, SameSerial

(* A transaction is queued again when its procedure ends.                  *)
LEMMA RequeuedByProcedure ==
    ASSUME IInv, NEW p \in recovering, Holds(p)
    PROVE  PlacesOK(tx, Requeued(p.t), active, recovering \ {p})
<1> DEFINE t == p.t
           w == With(waiting, tx, t)
           procs == recovering \ {p}
<1>1. /\ t \in 1..Len(tx)
      /\ \A q \in Queues : t \notin waiting[q] /\ t # active[q].t
      /\ \A r \in procs : Holds(r) => r.t # t
  BY ProcedureType DEF IInv, HoldersOK
<1>2. /\ QueuesOK(tx, waiting, active) /\ ProceduresOK(tx, procs)
      /\ HoldersOK(waiting, active, procs)
  BY IInvParts, ReleasedKeeps DEF PlacesOK
<1> HIDE DEF procs
<1>3. /\ QueuesOK(tx, w, active) /\ HoldersOK(w, active, procs)
      /\ (\A x \in 1..Len(tx) : tx[x].result = "pending" =>
            \/ x = t
            \/ \E q \in Queues : x \in waiting[q] \/ x = active[q].t
            \/ \E r \in procs : Holds(r) /\ r.t = x)
           => Kept(tx, w, active, procs)
  BY <1>1, <1>2, RequeuedKeeps
<1>4. ASSUME options.softReset
      PROVE  \A x \in 1..Len(tx) : tx[x].result = "pending" =>
               \/ x = t
               \/ \E q \in Queues : x \in waiting[q] \/ x = active[q].t
               \/ \E r \in procs : Holds(r) /\ r.t = x
  <2>1. \A r \in recovering : r = p \/ r \in procs
    BY DEF procs
  <2> QED
    BY <1>4, <2>1 DEF IInv, Kept
<1>5. options.softReset => Kept(tx, w, active, procs)
  BY <1>3, <1>4
<1>6. PlacesOK(tx, w, active, procs)
  BY <1>2, <1>3, <1>5 DEF PlacesOK
<1> QED
  BY <1>6 DEF Requeued, procs

(* A procedure that holds nothing ends.                                    *)
LEMMA ReleasedPlaces ==
    ASSUME NEW txs, NEW w, NEW act, PlacesOK(txs, w, act, recovering), NEW p \in recovering,
           Holds(p) => txs[p.t].result # "pending"
    PROVE  PlacesOK(txs, w, act, recovering \ {p})
BY ReleasedKeeps DEF PlacesOK

LEMMA RecoveredKeeps ==
    ASSUME IInv, NEW p \in recovering, p.step # "reopening", Recovered(p),
           UNCHANGED <<options, serial>>
    PROVE  /\ PlacesOK(tx, waiting, active, recovering)' /\ SerialOK(serial, active)'
           /\ status' \in Statuses /\ phase' \in Phases
<1>1. /\ recovering' = recovering \ {p}
      /\ status \in Statuses /\ phase \in Phases /\ "ready" \in Statuses /\ "none" \in Phases
      /\ "callbackTimeoutAfterReset" \in Phases /\ "jammedAfterReset" \in Phases
  BY DEF Recovered, IInv, RestOK, Statuses, Phases
<1>2. p.cause \in {"ack", "callback", "jammed", "again", "user"}
  BY ProcedureType
<1>3. CASE p.cause \in {"ack", "callback", "jammed"}
  <2>1. PlacesOK(tx, Requeued(p.t), active, recovering \ {p})
    BY <1>3, RequeuedByProcedure DEF Holds
  <2>2. \E st \in Statuses : Drain(tx, Requeued(p.t), active, st)
    BY <1>1, <1>3 DEF Recovered
  <2>3. phase' \in Phases
    BY <1>1, <1>3 DEF Recovered
  <2> QED
    BY <1>1, <2>1, <2>2, <2>3, DrainedStep
<1>4. CASE p.cause \in {"again", "user"}
  <2>1. PlacesOK(tx, waiting, active, recovering \ {p})
    BY <1>4, IInvParts, ReleasedPlaces DEF Holds
  <2>2. \E st \in Statuses : Drain(tx, waiting, active, st)
    BY <1>1, <1>4 DEF Recovered
  <2>3. phase' \in Phases
    BY <1>1, <1>4 DEF Recovered
  <2> QED
    BY <1>1, <2>1, <2>2, <2>3, DrainedStep
<1> QED
  BY <1>2, <1>3, <1>4

LEMMA NotRecoveredKeeps ==
    ASSUME IInv, NEW p \in recovering, p.step # "reopening", NotRecovered(p),
           UNCHANGED <<options, serial>>
    PROVE  /\ PlacesOK(tx, waiting, active, recovering)' /\ SerialOK(serial, active)'
           /\ status' \in Statuses /\ phase' \in Phases
<1> DEFINE txs == Settled(tx, p.t, IF p.cause = "ack" THEN "noAck" ELSE "failed")
<1>1. /\ status \in Statuses /\ phase \in Phases /\ "ready" \in Statuses /\ "none" \in Phases
      /\ "failed" \in Results /\ "noAck" \in Results
  BY DEF IInv, RestOK, Statuses, Phases, Results
<1>2. p.cause \in {"ack", "callback", "jammed", "again", "user"}
  BY ProcedureType
<1>3. ASSUME Holds(p)
      PROVE  PlacesOK(txs, waiting, active, recovering) /\ txs[p.t].result # "pending"
             /\ Len(txs) = Len(tx)
  <2>1. Later(tx, txs) /\ txs[p.t].result # "pending"
    BY <1>1, <1>3, ProcedureType, IInvParts, SettledIsLater
  <2> HIDE DEF txs
  <2>2. PlacesOK(txs, waiting, active, recovering)
    BY <2>1, IInvParts, LaterKeeps DEF PlacesOK
  <2> QED
    BY <2>1, <2>2 DEF Later
<1>4. CASE p.cause = "ack"
  <2> DEFINE p2 == [p EXCEPT !.step = "reopening"]
             procs == (recovering \ {p}) \cup {p2}
  <2>1. Holds(p)
    BY <1>4 DEF Holds
  <2>2. recovering' = procs /\ Drain(txs, waiting, active, status) /\ phase' = phase
    BY <1>4 DEF NotRecovered, Becomes
  <2>3. p2 = [cause |-> p.cause, t |-> p.t, own |-> p.own, step |-> "reopening", polls |-> p.polls]
    BY ProcedureType
  <2> HIDE DEF p2
  <2>4. p2 \in Procedures(txs)
    BY <1>3, <2>1, <2>3, ProcedureType DEF Procedures
  <2> HIDE DEF txs
  <2>5. PlacesOK(txs, waiting, active, procs)
    BY <1>3, <2>1, <2>3, <2>4, BecomesKeeps, ZenonT(30) DEF PlacesOK
  <2> HIDE DEF procs
  <2> QED
    BY <1>1, <2>2, <2>5, DrainedStep
<1>5. CASE p.cause \in {"callback", "jammed"}
  <2>1. Holds(p)
    BY <1>5 DEF Holds
  <2>2. recovering' = recovering \ {p} /\ Drain(txs, waiting, active, "ready") /\ phase' = "none"
    BY <1>5 DEF NotRecovered
  <2> HIDE DEF txs
  <2>3. PlacesOK(txs, waiting, active, recovering \ {p})
    BY <1>3, <2>1, ReleasedPlaces
  <2> QED
    BY <1>1, <2>2, <2>3, DrainedStep
<1>6. CASE p.cause \in {"again", "user"}
  <2>1. PlacesOK(tx, waiting, active, recovering \ {p})
    BY <1>6, IInvParts, ReleasedPlaces DEF Holds
  <2>2. /\ recovering' = recovering \ {p} /\ phase' \in Phases
        /\ \E st \in Statuses : Drain(tx, waiting, active, st)
    BY <1>1, <1>6 DEF NotRecovered
  <2> QED
    BY <2>1, <2>2, DrainedStep
<1> QED
  BY <1>2, <1>4, <1>5, <1>6

LEMMA ResetSentKeeps ==
    ASSUME IInv, NEW p \in recovering, ResetSent(p)
    PROVE  IInv'
<1>1. /\ p.step = "resetting" /\ UNCHANGED <<options, serial, driver, sent, faults>>
      /\ \/ NotRecovered(p)
         \/ /\ Becomes(p, [p EXCEPT !.step = "starting"])
            /\ UNCHANGED <<tx, waiting, active, status, phase>>
  BY DEF ResetSent
<1>2. CASE NotRecovered(p)
  BY <1>1, <1>2, NotRecoveredKeeps, Assembled DEF IInv, RestOK
<1>3. CASE /\ Becomes(p, [p EXCEPT !.step = "starting"])
           /\ UNCHANGED <<tx, waiting, active, status, phase>>
  <2> DEFINE p2 == [p EXCEPT !.step = "starting"]
             procs == (recovering \ {p}) \cup {p2}
  <2>1. recovering' = procs
    BY <1>3 DEF Becomes
  <2>2. p2 = [cause |-> p.cause, t |-> p.t, own |-> p.own, step |-> "starting", polls |-> p.polls]
    BY ProcedureType
  <2> HIDE DEF p2
  <2>3. p2 \in Procedures(tx) /\ p2.polls = 0 /\ p.cause # "reopen"
    BY <1>1, <2>2, ProcedureType DEF Procedures
  <2>4. PlacesOK(tx, waiting, active, procs)
    BY <2>2, <2>3, IInvParts, BecomesKeeps DEF PlacesOK
  <2> HIDE DEF procs
  <2>5. PlacesOK(tx, waiting, active, recovering)' /\ SerialOK(serial, active)'
    BY <1>1, <1>3, <2>1, <2>4, IInvParts DEF PlacesOK
  <2> QED
    BY <1>1, <1>3, <2>5, Assembled DEF IInv, RestOK
<1> QED
  BY <1>1, <1>2, <1>3

LEMMA StartedKeeps ==
    ASSUME IInv, NEW p \in recovering, Started(p)
    PROVE  IInv'
<1>1. /\ p.step = "starting" /\ Recovered(p)
      /\ UNCHANGED <<options, serial, driver, sent, faults>>
  BY DEF Started
<1> QED
  BY <1>1, RecoveredKeeps, Assembled DEF IInv, RestOK

(* Asking for the version: a message of the procedure's own.               *)
LEMMA PollKeeps ==
    ASSUME IInv, NEW p \in recovering, p.step # "reopening", p.polls < MaxPolls, Poll(p),
           UNCHANGED <<options, serial, phase>>
    PROVE  /\ PlacesOK(tx, waiting, active, recovering)' /\ SerialOK(serial, active)'
           /\ status' \in Statuses
<1> DEFINE new == Created(tx, Version)
           w == With(waiting, new, Len(new))
           p2 == [p EXCEPT !.step = "polling", !.polls = @ + 1, !.own = Len(new)]
           procs == (recovering \ {p}) \cup {p2}
<1>1. recovering' = procs /\ Drain(new, w, active, status)
  BY DEF Poll, Becomes
<1>2. /\ PlacesOK(new, w, active, recovering)
      /\ Len(new) = Len(tx) + 1 /\ Len(tx) \in Nat
  BY IInvParts, CreatedPlaces
<1> HIDE DEF new, w
<1>3. p2 = [cause |-> p.cause, t |-> p.t, own |-> Len(new), step |-> "polling", polls |-> p.polls + 1]
  <2> DEFINE a == [p EXCEPT !.step = "polling"]
             b == [a EXCEPT !.polls = @ + 1]
  <2>1. a = [cause |-> p.cause, t |-> p.t, own |-> p.own, step |-> "polling", polls |-> p.polls]
    BY ProcedureType
  <2> HIDE DEF a
  <2>2. b = [cause |-> p.cause, t |-> p.t, own |-> p.own, step |-> "polling", polls |-> p.polls + 1]
    BY <2>1
  <2> HIDE DEF b
  <2>3. [b EXCEPT !.own = Len(new)]
          = [cause |-> p.cause, t |-> p.t, own |-> Len(new), step |-> "polling", polls |-> p.polls + 1]
    BY <2>2
  <2>4. p2 = [b EXCEPT !.own = Len(new)]
    BY DEF a, b
  <2> QED
    BY <2>3, <2>4
<1> HIDE DEF p2
<1>4. p2 \in Procedures(new) /\ p.cause # "reopen"
  BY <1>2, <1>3, ProcedureType, RecoveryAssumption DEF Procedures, RecoveryAssumption
<1>5. PlacesOK(new, w, active, procs)
  BY <1>2, <1>3, <1>4, BecomesKeeps DEF PlacesOK
<1> HIDE DEF procs
<1> QED
  BY <1>1, <1>5, DrainedStep DEF IInv, RestOK

LEMMA NotStartedKeeps ==
    ASSUME IInv, NEW p \in recovering, NotStarted(p)
    PROVE  IInv'
<1>1. /\ p.step = "starting" /\ Fault("silent") /\ Poll(p)
      /\ UNCHANGED <<options, serial, phase, driver, sent>>
  BY DEF NotStarted
<1>2. p.polls < MaxPolls
  BY <1>1, ProcedureType, RecoveryAssumption DEF RecoveryAssumption
<1> QED
  BY <1>1, <1>2, PollKeeps, Assembled DEF IInv, RestOK

(* The driver has given up, nothing else changes.                          *)
LEMMA GivenUp ==
    ASSUME IInv, UNCHANGED <<options, tx, waiting, active, serial, status, phase, recovering, sent>>,
           driver' \in {"running", "destroyed", "portLost"}, faults' = faults \/ \E e : Fault(e)
    PROVE  IInv'
<1>1. PlacesOK(tx, waiting, active, recovering)' /\ SerialOK(serial, active)'
  BY IInvParts DEF PlacesOK
<1> QED
  BY <1>1, Assembled DEF IInv, RestOK

LEMMA PolledKeeps ==
    ASSUME IInv, NEW p \in recovering, Polled(p)
    PROVE  IInv'
<1>1. /\ p.step = "polling" /\ UNCHANGED <<options, serial, sent, faults>>
      /\ \/ Recovered(p) /\ UNCHANGED driver
         \/ p.polls < MaxPolls /\ Poll(p) /\ UNCHANGED <<phase, driver>>
         \/ driver' = "destroyed"
            /\ UNCHANGED <<tx, waiting, active, status, phase, recovering>>
  BY DEF Polled
<1>2. CASE Recovered(p) /\ UNCHANGED driver
  BY <1>1, <1>2, RecoveredKeeps, Assembled DEF IInv, RestOK
<1>3. CASE p.polls < MaxPolls /\ Poll(p) /\ UNCHANGED <<phase, driver>>
  BY <1>1, <1>3, PollKeeps, Assembled DEF IInv, RestOK
<1>4. CASE driver' = "destroyed" /\ UNCHANGED <<tx, waiting, active, status, phase, recovering>>
  BY <1>1, <1>4, GivenUp
<1> QED
  BY <1>1, <1>2, <1>3, <1>4

LEMMA ReopenedKeeps ==
    ASSUME IInv, NEW p \in recovering, Reopened(p)
    PROVE  IInv'
<1>1. /\ p.step = "reopening" /\ recovering' = recovering \ {p}
      /\ Drain(tx, waiting, active, "ready") /\ phase' = "none"
      /\ UNCHANGED <<options, serial, driver, sent, faults>>
  BY DEF Reopened
<1>2. PlacesOK(tx, waiting, active, recovering \ {p})
  BY <1>1, IInvParts, ProcedureType, ReleasedPlaces
<1>3. "ready" \in Statuses /\ "none" \in Phases
  BY DEF Statuses, Phases
<1>4. PlacesOK(tx, waiting, active, recovering)' /\ SerialOK(serial, active)' /\ status' \in Statuses
  BY <1>1, <1>2, <1>3, DrainedStep
<1> QED
  BY <1>1, <1>3, <1>4, Assembled DEF IInv, RestOK

-----------------------------------------------------------------------------
(* The theorems                                                            *)

LEMMA InitIInv == Init => IInv
<1> SUFFICES ASSUME Init PROVE IInv
  OBVIOUS
<1>1. tx = <<>> /\ Len(tx) = 0 /\ tx \in Seq(Tx) /\ serial = <<>> /\ Len(serial) = 0
      /\ serial \in Seq(Queues) /\ recovering = {}
  BY DEF Init
<1>2. \A q \in Queues : /\ waiting[q] = {} /\ active[q].t = 0 /\ active[q].step = "idle"
                        /\ active[q] \in Loop(tx)
  BY <1>1, RecoveryAssumption DEF Init, Idle, Loop, Steps, RecoveryAssumption
<1>3. QueuesOK(tx, waiting, active)
  BY <1>1, <1>2 DEF Init, QueuesOK
<1>4. SerialOK(serial, active)
  BY <1>1, <1>2 DEF SerialOK
<1>5. RestOK
  BY RecoveryAssumption DEF Init, RestOK, Statuses, Phases, RecoveryAssumption
<1> QED
  BY <1>1, <1>3, <1>4, <1>5 DEF IInv, ProceduresOK, HoldersOK, Kept

LEMMA NextIInv == IInv /\ [Next]_vars => IInv'
<1> SUFFICES ASSUME IInv, [Next]_vars PROVE IInv'
  OBVIOUS
<1>1. CASE \E m \in Messages : SendMessage(m)
  BY <1>1, SendMessageKeeps
<1>2. CASE UserSoftReset
  BY <1>2, UserSoftResetKeeps
<1>3. ASSUME NEW q \in Queues, LoopStep(q) PROVE IInv'
  BY <1>3, ExecuteKeeps, SucceedsKeeps, NodeSilentKeeps, AckMissingOnceKeeps, AckMissingKeeps,
     JammedOnceKeeps, JamWaitEndsKeeps, FailsKeeps DEF LoopStep
<1>4. ASSUME NEW p \in recovering, RecoveryStep(p) PROVE IInv'
  <2>1. CASE PortGone(p)
    BY <2>1, GivenUp DEF PortGone
  <2>2. CASE NotReopened(p)
    BY <2>2, GivenUp DEF NotReopened
  <2> QED
    BY <1>4, <2>1, <2>2, ResetSentKeeps, StartedKeeps, NotStartedKeeps, PolledKeeps, ReopenedKeeps
       DEF RecoveryStep
<1>5. CASE UNCHANGED vars
  <2>1. faults' = faults /\ driver' \in {"running", "destroyed", "portLost"}
    BY <1>5 DEF vars, IInv, RestOK
  <2> QED
    BY <1>5, <2>1, GivenUp DEF vars
<1> QED
  BY <1>1, <1>2, <1>3, <1>4, <1>5 DEF Next

(* Whatever the handlers of failed transactions (Driver.handleFailed-      *)
(* Transaction and what it calls) and the recoveries do, queues, loops,    *)
(* the Serial API queue and the procedures agree about every transaction.  *)
THEOREM Invariance == Spec => []IInv
<1> QED
  BY InitIInv, NextIInv, PTL DEF Spec

(* The type invariant: transactions, queues, loops and procedures keep     *)
(* their types in every step of Driver.ts, so that no handler refers to a  *)
(* transaction that does not exist or to a loop that waits.                *)
THEOREM TypeCorrect == Spec => []TypeOK
<1>1. IInv => TypeOK
  <2> SUFFICES ASSUME IInv PROVE TypeOK
    OBVIOUS
  <2>1. DOMAIN tx = 1..Len(tx)
    BY IInvParts
  <2> QED
    BY <2>1 DEF IInv, TypeOK, RestOK, QueuesOK, SerialOK, ProceduresOK, Procedures, Loop, Tx,
                Steps, Statuses, Phases
<1> QED
  BY <1>1, Invariance, PTL

(* A message that is not settled is in exactly one place, whatever fails   *)
(* in whatever order: driver and recoveries neither forget it nor send it  *)
(* twice (handleMissingControllerACK, handleMissingSendDataResponseOr-       *)
(* Callback, handleJammedController).  With soft reset only.               *)
THEOREM OneOwner == Spec => []PendingHasOneOwner
<1>1. IInv => PendingHasOneOwner
  <2> SUFFICES ASSUME IInv, options.softReset, NEW t \in DOMAIN tx, tx[t].result = "pending"
               PROVE  \E o \in Owners(t) : Owners(t) = {o}
    BY DEF PendingHasOneOwner
  <2>1. t \in 1..Len(tx) /\ t # 0
    BY IInvParts
  <2> DEFINE Queued == {q \in Queues : t \in waiting[q]}
             Looped == {q \in Queues : active[q].t = t}
             Held == {p \in recovering : p.t = t /\ p.cause \in {"ack", "callback", "jammed"}}
  <2>2. Owners(t) = {<<"queue", q>> : q \in Queued} \cup {<<"loop", q>> : q \in Looped}
                      \cup {<<"recovery", p.cause>> : p \in Held}
    BY DEF Owners
  <2>3. \A q \in Queued : q = QueueOf(tx[t].msg) /\ q \notin Looped
    BY DEF IInv, QueuesOK
  <2>4. \A q \in Looped : q = QueueOf(tx[t].msg)
    BY <2>1 DEF IInv, QueuesOK
  <2>5. \A p \in Held : Queued = {} /\ Looped = {} /\ \A r \in Held : r = p
    BY DEF IInv, HoldersOK, Holds
  <2>6. (\E q : q \in Queued) \/ (\E q : q \in Looped) \/ (\E p : p \in Held)
    BY <2>1 DEF IInv, Kept, Holds
  <2> HIDE DEF Queued, Looped, Held
  <2>7. CASE \E q : q \in Queued
    <3>1. PICK q : q \in Queued
      BY <2>7
    <3>2. Queued = {q} /\ Looped = {} /\ Held = {}
      BY <3>1, <2>3, <2>4, <2>5
    <3>3. Owners(t) = {<<"queue", q>>}
      BY <2>2, <3>2
    <3> QED
      BY <3>3
  <2>8. CASE \E q : q \in Looped
    <3>1. PICK q : q \in Looped
      BY <2>8
    <3>2. Looped = {q} /\ Queued = {} /\ Held = {}
      BY <3>1, <2>3, <2>4, <2>5
    <3>3. Owners(t) = {<<"loop", q>>}
      BY <2>2, <3>2
    <3> QED
      BY <3>3
  <2>9. CASE \E p : p \in Held
    <3>1. PICK p : p \in Held
      BY <2>9
    <3>2. Held = {p} /\ Queued = {} /\ Looped = {}
      BY <3>1, <2>5
    <3>3. Owners(t) = {<<"recovery", p.cause>>}
      BY <2>2, <3>2
    <3> QED
      BY <3>3
  <2> QED
    BY <2>6, <2>7, <2>8, <2>9
<1> QED
  BY <1>1, Invariance, PTL
-----------------------------------------------------------------------------
(* An unresponsive controller is attended to by a procedure that goes on   *)

(* Transaction t is settled, or with the immediate queue or its loop.      *)
InFlight(t, txs, w, act) ==
    \/ txs[t].result # "pending"
    \/ t \in w["immediate"] \/ act["immediate"].t = t

Own(t, txs) == t \in 1..Len(txs) /\ txs[t].msg \in {SoftReset, Version}

(* The strengthening: what a procedure waits for is a message of its own.  *)
AInv ==
    /\ \A p \in recovering : p.step \in {"resetting", "polling"} => Own(p.own, tx)
    /\ UnresponsiveIsRecovered

(* Transactions are created and settled, and nothing else.                 *)
Grown(old, txs) ==
    \A t \in 1..Len(old) :
      /\ t \in 1..Len(txs) /\ txs[t].msg = old[t].msg
      /\ txs[t].result = "pending" => old[t].result = "pending"

(* No message of a procedure is taken away from the immediate queue.       *)
FlightKept ==
    \A t \in 1..Len(tx) :
      Own(t, tx) /\ InFlight(t, tx, waiting, active) => InFlight(t, tx', waiting', active')

Attending(p) == p.cause \in {"ack", "callback"} /\ GoesOn(p)

LEMMA GoesOnInFlight ==
    ASSUME IInv, AInv, NEW p \in recovering, GoesOn(p), FlightKept
    PROVE  GoesOn(p)'
<1>1. p.step \in {"resetting", "starting", "polling", "reopening"}
  BY ProcedureType
<1>2. CASE p.step \in {"resetting", "polling"}
  <2>1. Own(p.own, tx) /\ p.own \in 1..Len(tx)
    BY <1>2 DEF AInv, Own
  <2>2. InFlight(p.own, tx, waiting, active)
    BY <1>2 DEF GoesOn, InFlight
  <2> QED
    BY <2>1, <2>2 DEF FlightKept, InFlight, GoesOn
<1> QED
  BY <1>1, <1>2 DEF GoesOn

(* What each step has to show.                                             *)
LEMMA StillAttended ==
    ASSUME AInv, Grown(tx, tx'),
           \A p \in recovering' :
             p \in recovering \/ (p.step \in {"resetting", "polling"} => Own(p.own, tx')),
           \/ status' # "unresponsive"
           \/ \E r \in recovering' : Attending(r)'
           \/ /\ status' = status
              /\ \A p \in recovering : Attending(p) => \E r \in recovering' : Attending(r)'
    PROVE  AInv'
<1>1. \A t : Own(t, tx) => Own(t, tx')
  BY DEF Own, Grown
<1>2. \A p \in recovering' : p.step \in {"resetting", "polling"} => Own(p.own, tx')
  BY <1>1 DEF AInv
<1>3. status' = "unresponsive" => \E r \in recovering' : Attending(r)'
  BY DEF AInv, UnresponsiveIsRecovered, Attending
<1> QED
  BY <1>2, <1>3 DEF AInv, UnresponsiveIsRecovered, Attending

(* No procedure begins or ends.                                            *)
LEMMA SameProcedures ==
    ASSUME IInv, AInv, Grown(tx, tx'), recovering' = recovering,
           status' # "unresponsive" \/ (status' = status /\ FlightKept)
    PROVE  AInv'
<1>1. CASE status' # "unresponsive"
  BY <1>1, StillAttended
<1>2. CASE status' = status /\ FlightKept
  <2>1. \A p \in recovering : Attending(p) => Attending(p)'
    BY <1>2, GoesOnInFlight DEF Attending
  <2> QED
    BY <1>2, <2>1, StillAttended
<1> QED
  BY <1>1, <1>2

LEMMA Unchanged ==
    ASSUME IInv
    PROVE  /\ Grown(tx, tx)
           /\ UNCHANGED tx => Grown(tx, tx')
           /\ UNCHANGED <<tx, waiting, active>> => FlightKept
  BY DEF Grown, FlightKept

LEMMA LaterIsGrown ==
    ASSUME NEW txs, IInv, Later(tx, txs)
    PROVE  Grown(tx, txs)
  BY IInvParts DEF Later, Grown

LEMMA CreatedIsGrown ==
    ASSUME IInv, NEW txs, Later(tx, txs), NEW m \in {SoftReset, Version} \cup Messages
    PROVE  LET new == Created(txs, m)
           IN  /\ Grown(tx, new) /\ Len(new) = Len(tx) + 1
               /\ Len(new) \in 1..Len(new) /\ new[Len(new)].msg = m
<1> DEFINE new == Created(txs, m)
           n == Len(txs) + 1
<1>1. /\ Len(new) = n /\ new[n].msg = m /\ Len(txs) = Len(tx) /\ Len(tx) \in Nat
      /\ \A t \in 1..Len(txs) : new[t] = txs[t]
  BY IInvParts DEF Created, Later
<1> HIDE DEF new
<1>2. Grown(tx, new)
  BY <1>1 DEF Later, Grown
<1> QED
  BY <1>1, <1>2 DEF new

LEMMA DrainInFlight ==
    ASSUME NEW txs, NEW w, NEW act, NEW st, Drain(txs, w, act, st), NEW t, t # 0,
           InFlight(t, txs, w, act)
    PROVE  InFlight(t, tx', waiting', active')
<1>1. /\ tx' = txs
      /\ \A q \in Queues : Same(w, act, q) \/ \E x \in w[q] : Takes(w, act, q, x)
  BY DrainTakes
<1>2. CASE Same(w, act, "immediate")
  BY <1>1, <1>2 DEF Same, InFlight
<1>3. ASSUME NEW x, Takes(w, act, "immediate", x)
      PROVE  InFlight(t, tx', waiting', active')
  <2>1. /\ act["immediate"].t = 0 /\ waiting'["immediate"] = w["immediate"] \ {x}
        /\ active'["immediate"].t = x
    BY <1>3 DEF Takes, Idle
  <2> QED
    BY <1>1, <2>1 DEF InFlight
<1> QED
  BY <1>1, <1>2, <1>3 DEF Queues

(* The queues are drained after something was added to them.               *)
LEMMA DrainAttended ==
    ASSUME IInv, NEW txs, NEW w, NEW st, Drain(txs, w, active, st), Grown(tx, txs),
           waiting["immediate"] \subseteq w["immediate"]
    PROVE  /\ tx' = txs /\ status' = st
           /\ Grown(tx, tx') /\ FlightKept
<1>1. tx' = txs /\ status' = st
  BY DEF Drain
<1>2. ASSUME NEW t \in 1..Len(tx), InFlight(t, tx, waiting, active)
      PROVE  InFlight(t, tx', waiting', active')
  <2>1. InFlight(t, txs, w, active) /\ t # 0
    BY <1>2 DEF InFlight, Grown
  <2> QED
    BY <2>1, DrainInFlight
<1> QED
  BY <1>1, <1>2 DEF FlightKept

LEMMA Queued ==
    ASSUME IInv, NEW txs, NEW t
    PROVE  /\ \A w \in [Queues -> SUBSET (1..Len(tx))] :
                w["immediate"] \subseteq With(w, txs, t)["immediate"]
           /\ \A w \in [Queues -> SUBSET (1..Len(tx))] :
                QueueOf(txs[t].msg) = "immediate" => t \in With(w, txs, t)["immediate"]
<1> SUFFICES ASSUME NEW w \in [Queues -> SUBSET (1..Len(tx))]
             PROVE  /\ w["immediate"] \subseteq With(w, txs, t)["immediate"]
                    /\ QueueOf(txs[t].msg) = "immediate" => t \in With(w, txs, t)["immediate"]
  OBVIOUS
<1>1. QueueOf(txs[t].msg) \in Queues /\ "immediate" \in Queues
  BY DEF QueueOf, Queues
<1> QED
  BY <1>1 DEF With

LEMMA OwnQueue ==
    ASSUME NEW m \in {SoftReset, Version}
    PROVE  QueueOf(m) = "immediate" /\ ~IsSendData(m)
  BY DEF SoftReset, Version, Internal, QueueOf, IsSendData

(* The loop of q is done; only its own transaction may be out of sight.    *)
LEMMA EndedInFlight ==
    ASSUME IInv, NEW q \in Queues, HasResult(q), NEW txs, NEW w, NEW st,
           Ended(q, txs, w, st), Grown(tx, txs),
           \A t \in waiting["immediate"] : t \in w["immediate"] \/ txs[t].result # "pending",
           Own(active[q].t, tx) =>
             txs[active[q].t].result # "pending" \/ active[q].t \in w["immediate"]
    PROVE  /\ tx' = txs /\ status' = st
           /\ Grown(tx, tx') /\ FlightKept
<1> DEFINE act == [active EXCEPT ![q] = Idle]
<1>1. Drain(txs, w, act, st) /\ tx' = txs /\ status' = st
  BY DEF Ended, Drain
<1>2. act["immediate"].t = active["immediate"].t \/ q = "immediate"
  BY DEF IInv, QueuesOK, Queues
<1> HIDE DEF act
<1>3. ASSUME NEW t \in 1..Len(tx), Own(t, tx), InFlight(t, tx, waiting, active)
      PROVE  InFlight(t, tx', waiting', active')
  <2>1. InFlight(t, txs, w, act)
    BY <1>2, <1>3 DEF InFlight, Grown
  <2> QED
    BY <1>1, <2>1, DrainInFlight
<1> QED
  BY <1>1, <1>3 DEF FlightKept

LEMMA RejectedAttended ==
    ASSUME IInv, AInv, NEW q \in Queues, HasResult(q), NEW why \in Results, NEW st, NEW ph,
           Rejected(q, why, st, ph), st \in {status, "ready"}
    PROVE  AInv'
<1> DEFINE txs == Settled(tx, active[q].t, why)
<1>1. active[q].t \in 1..Len(tx)
  BY IInvParts, LoopIsFree
<1>2. Later(tx, txs) /\ txs[active[q].t].result # "pending"
  BY <1>1, IInvParts, SettledIsLater
<1>3. Ended(q, txs, waiting, st) /\ recovering' = recovering
  BY DEF Rejected
<1> HIDE DEF txs
<1>4. status' = st /\ Grown(tx, tx') /\ FlightKept
  BY <1>2, <1>3, LaterIsGrown, EndedInFlight
<1> QED
  BY <1>3, <1>4, SameProcedures

LEMMA NodeRejectedAttended ==
    ASSUME IInv, AInv, NEW q \in Queues, HasResult(q), NEW st \in {status, "ready"},
           Ended(q, RejectedWith(active[q].t), WaitingWithout(Msg(q).node), st),
           recovering' = recovering
    PROVE  AInv'
<1> DEFINE txs == RejectedWith(active[q].t)
           w == WaitingWithout(Msg(q).node)
<1>1. /\ Later(tx, txs) /\ txs[active[q].t].result # "pending"
      /\ \A r \in Queues : \A t \in waiting[r] : t \in w[r] \/ txs[t].result # "pending"
  BY NodeRejected
<1> HIDE DEF txs, w
<1>2. Ended(q, txs, w, st)
  BY DEF txs, w
<1>3. status' = st /\ Grown(tx, tx') /\ FlightKept
  BY <1>1, <1>2, LaterIsGrown, EndedInFlight DEF Queues
<1> QED
  BY <1>3, SameProcedures

(* A soft reset begins: its message is queued.                             *)
LEMMA RecoverAttended ==
    ASSUME IInv, AInv, NEW q \in Queues, HasResult(q), NEW cause, NEW txs, Later(tx, txs),
           NEW w, w \in [Queues -> SUBSET (1..Len(tx))],
           \A r \in Queues : \A t \in waiting[r] : t \in w[r] \/ txs[t].result # "pending",
           NEW st, NEW ph, Recover(q, cause, txs, w, st, ph),
           \/ cause \in {"ack", "callback"}
           \/ st = status /\ (IsSendData(Msg(q)) \/ txs[active[q].t].result # "pending")
    PROVE  AInv'
<1> DEFINE new == Created(txs, SoftReset)
           n == Len(new)
           w2 == With(w, new, n)
<1>1. Grown(tx, new) /\ n \in 1..n /\ new[n].msg = SoftReset
  BY CreatedIsGrown
<1>2. PICK p : /\ p = Procedure(cause, active[q].t, n)
               /\ recovering' = recovering \cup {p} /\ Ended(q, new, w2, st)
  BY DEF Recover
<1>3. p.cause = cause /\ p.own = n /\ p.step = "resetting"
  BY <1>2 DEF Procedure
<1>4. w["immediate"] \subseteq w2["immediate"] /\ n \in w2["immediate"]
  <2>1. QueueOf(new[n].msg) = "immediate"
    BY <1>1, OwnQueue
  <2> HIDE DEF new, n
  <2> QED
    BY <2>1, Queued
<1>5. \A t \in 1..Len(tx) : new[t] = txs[t]
  BY IInvParts DEF Created, Later
<1> HIDE DEF new, w2
<1>6. tx' = new /\ status' = st /\ Drain(new, w2, [active EXCEPT ![q] = Idle], st)
  BY <1>2 DEF Ended, Drain
<1>7. n # 0 /\ Own(n, new)
  BY <1>1 DEF Own, new
<1>8. InFlight(n, new, w2, [active EXCEPT ![q] = Idle])
  BY <1>4 DEF InFlight
<1>9. InFlight(p.own, tx', waiting', active')
  BY <1>3, <1>6, <1>7, <1>8, DrainInFlight
<1>10. \A r \in recovering' :
         r \in recovering \/ (r.step \in {"resetting", "polling"} => Own(r.own, tx'))
  BY <1>2, <1>3, <1>6, <1>7
<1>11. CASE cause \in {"ack", "callback"}
  <2>1. Attending(p)'
    BY <1>3, <1>9, <1>11 DEF Attending, GoesOn, InFlight
  <2> QED
    BY <1>1, <1>2, <1>6, <1>10, <2>1, StillAttended
<1>12. CASE st = status /\ (IsSendData(Msg(q)) \/ txs[active[q].t].result # "pending")
  <2>1. active[q].t \in 1..Len(tx)
    BY IInvParts, LoopIsFree
  <2>2. Own(active[q].t, tx) => new[active[q].t].result # "pending"
    BY <1>5, <1>12, <2>1, OwnQueue DEF Own, Msg
  <2>3. \A t \in waiting["immediate"] : t \in w2["immediate"] \/ new[t].result # "pending"
    BY <1>4, <1>5, IInvParts DEF Queues
  <2>4. FlightKept
    BY <1>1, <1>2, <2>2, <2>3, EndedInFlight
  <2>5. \A r \in recovering : Attending(r) => Attending(r)'
    BY <2>4, GoesOnInFlight DEF Attending
  <2> QED
    BY <1>1, <1>2, <1>6, <1>10, <1>12, <2>5, StillAttended
<1> QED
  BY <1>11, <1>12

LEMMA TransmittedAttends ==
    ASSUME NEW q
    PROVE  Transmitted(q).status \in {status, "ready"}
  BY DEF Transmitted

LEMMA AckMissingAttended ==
    ASSUME IInv, AInv, NEW q \in Queues, AckMissing(q)
    PROVE  AInv'
<1>1. HasResult(q)
  BY DEF AckMissing
<1>2. CASE Rejected(q, "noAck", status, phase)
  BY <1>1, <1>2, RejectedAttended DEF Results
<1>3. CASE Recover(q, "ack", tx, waiting, "unresponsive", "ackTimeout")
  BY <1>1, <1>3, IInvParts, RecoverAttended
<1>4. CASE /\ status # "unresponsive"
           /\ recovering' = recovering \cup
                {[Procedure("reopen", active[q].t, 0) EXCEPT !.step = "reopening"]}
           /\ Ended(q, tx, waiting, status)
  <2> DEFINE r == [Procedure("reopen", active[q].t, 0) EXCEPT !.step = "reopening"]
  <2>1. tx' = tx /\ status' # "unresponsive" /\ recovering' = recovering \cup {r}
    BY <1>4 DEF Ended, Drain
  <2>2. r.step = "reopening"
    BY DEF Procedure
  <2> HIDE DEF r
  <2> QED
    BY <2>1, <2>2, Unchanged, StillAttended
<1> QED
  BY <1>2, <1>3, <1>4 DEF AckMissing

LEMMA FailsAttended ==
    ASSUME IInv, AInv, NEW q \in Queues, NEW e, Fails(q, e)
    PROVE  AInv'
<1>1. Handler(q, e) \in {"jammed", "missing", "reject", "requeue"}
  BY DEF Handler
<1>2. HasResult(q) /\ HandleFailed(q, e) /\ "failed" \in Results
  BY DEF Fails, Results
<1>3. CASE Handler(q, e) = "jammed"
  <2>1. JammedController(q) /\ IsSendData(Msg(q))
    BY <1>2, <1>3 DEF HandleFailed, Handler
  <2>2. CASE Rejected(q, "failed", "ready", "none") \/ Rejected(q, "failed", "ready", phase)
    BY <1>2, <2>2, RejectedAttended
  <2>3. CASE Recover(q, "jammed", tx, waiting, status, "jammed")
    BY <1>2, <2>1, <2>3, IInvParts, RecoverAttended
  <2> QED
    BY <2>1, <2>2, <2>3 DEF JammedController
<1>4. CASE Handler(q, e) = "missing"
  <2>1. MissingAnswer(q, e)
    BY <1>2, <1>4 DEF HandleFailed
  <2>2. CASE NodeBlamed(q)
    BY <1>2, <2>2, NodeRejectedAttended DEF NodeBlamed
  <2>3. CASE NodeBlamedAndReset(q)
    <3> DEFINE txs == RejectedWith(active[q].t)
               w == WaitingWithout(Msg(q).node)
    <3>1. Recover(q, "again", txs, w, status, phase)
      BY <2>3 DEF NodeBlamedAndReset
    <3>2. /\ Later(tx, txs) /\ txs[active[q].t].result # "pending"
          /\ w \in [Queues -> SUBSET (1..Len(tx))]
          /\ \A r \in Queues : \A t \in waiting[r] : t \in w[r] \/ txs[t].result # "pending"
      BY <1>2, NodeRejected
    <3> HIDE DEF txs, w
    <3> QED
      BY <1>2, <3>1, <3>2, RecoverAttended
  <2>4. CASE Rejected(q, "failed", status, phase)
    BY <1>2, <2>4, RejectedAttended
  <2>5. CASE Recover(q, "callback", tx, waiting, "unresponsive", "callbackTimeout")
    BY <1>2, <2>5, IInvParts, RecoverAttended
  <2> QED
    BY <2>1, <2>2, <2>3, <2>4, <2>5 DEF MissingAnswer
<1>5. CASE Handler(q, e) = "reject"
  <2>1. Rejected(q, "failed", status, phase)
    BY <1>2, <1>5 DEF HandleFailed
  <2> QED
    BY <1>2, <2>1, RejectedAttended
<1>6. CASE Handler(q, e) = "requeue"
  <2> DEFINE w == With(waiting, tx, active[q].t)
  <2>1. Ended(q, tx, w, status) /\ recovering' = recovering
    BY <1>2, <1>6 DEF HandleFailed
  <2>2. /\ waiting["immediate"] \subseteq w["immediate"]
        /\ Own(active[q].t, tx) => active[q].t \in w["immediate"]
    BY IInvParts, Queued, OwnQueue DEF Own
  <2> HIDE DEF w
  <2>3. status' = status /\ Grown(tx, tx') /\ FlightKept
    BY <1>2, <2>1, <2>2, Unchanged, EndedInFlight
  <2> QED
    BY <2>1, <2>3, SameProcedures
<1> QED
  BY <1>1, <1>3, <1>4, <1>5, <1>6

(* A loop goes on with its transaction.                                    *)
LEMMA SameTransaction ==
    ASSUME IInv, UNCHANGED <<tx, waiting>>, \A r \in Queues : active'[r].t = active[r].t
    PROVE  FlightKept
  BY DEF FlightKept, InFlight, Queues

LEMMA LoopStepAttended ==
    ASSUME IInv, AInv, NEW q \in Queues, LoopStep(q)
    PROVE  AInv'
<1>0. active \in [Queues -> Loop(tx)]
  BY DEF IInv, QueuesOK
<1>1. CASE Execute(q)
  <2>1. UNCHANGED <<tx, waiting, status, recovering>> /\ \A r \in Queues : active'[r].t = active[r].t
    BY <1>0, <1>1 DEF Execute, Loop
  <2> QED
    BY <2>1, Unchanged, SameTransaction, SameProcedures
<1>2. CASE AckMissingOnce(q)
  <2>1. UNCHANGED <<tx, waiting, status, recovering>> /\ \A r \in Queues : active'[r].t = active[r].t
    BY <1>0, <1>2 DEF AckMissingOnce, Loop
  <2> QED
    BY <2>1, Unchanged, SameTransaction, SameProcedures
<1>3. CASE JamWaitEnds(q)
  <2>1. UNCHANGED <<tx, waiting, status, recovering>> /\ \A r \in Queues : active'[r].t = active[r].t
    BY <1>0, <1>3 DEF JamWaitEnds, Loop
  <2> QED
    BY <2>1, Unchanged, SameTransaction, SameProcedures
<1>4. CASE Succeeds(q)
  <2>1. HasResult(q) /\ Rejected(q, "ok", Transmitted(q).status, Transmitted(q).phase)
    BY <1>4 DEF Succeeds, Rejected
  <2> QED
    BY <2>1, TransmittedAttends, RejectedAttended DEF Results
<1>5. CASE NodeSilent(q)
  BY <1>5, TransmittedAttends, NodeRejectedAttended DEF NodeSilent
<1>6. CASE JammedOnce(q)
  <2>1. tx' = tx /\ status' = "jammed" /\ recovering' = recovering
    BY <1>6 DEF JammedOnce, Drain
  <2> QED
    BY <2>1, Unchanged, SameProcedures
<1> QED
  BY <1>1, <1>2, <1>3, <1>4, <1>5, <1>6, AckMissingAttended, FailsAttended DEF LoopStep

(* A procedure ends.                                                       *)
LEMMA EndsAttended ==
    ASSUME IInv, AInv, NEW p \in recovering, recovering' = recovering \ {p},
           NEW txs, Grown(tx, txs), NEW w, waiting["immediate"] \subseteq w["immediate"], NEW st,
           Drain(txs, w, active, st),
           st = "ready" \/ (st = status /\ p.cause \notin {"ack", "callback"})
    PROVE  AInv'
<1>1. tx' = txs /\ status' = st /\ Grown(tx, tx') /\ FlightKept
  BY DrainAttended
<1>2. CASE st = "ready"
  BY <1>1, <1>2, StillAttended
<1>3. CASE st = status /\ p.cause \notin {"ack", "callback"}
  <2>1. \A r \in recovering : Attending(r) => r \in recovering' /\ Attending(r)'
    BY <1>1, <1>3, GoesOnInFlight DEF Attending
  <2> QED
    BY <1>1, <1>3, <2>1, StillAttended
<1> QED
  BY <1>2, <1>3

LEMMA RecoveredAttended ==
    ASSUME IInv, AInv, NEW p \in recovering, Recovered(p),
           p.cause \in {"ack", "callback", "jammed", "again", "user"}
    PROVE  AInv'
<1> DEFINE w == Requeued(p.t)
<1>1. recovering' = recovering \ {p} /\ Grown(tx, tx)
  BY Unchanged DEF Recovered
<1>2. waiting["immediate"] \subseteq w["immediate"]
  BY IInvParts, Queued DEF Requeued
<1> HIDE DEF w
<1>3. CASE p.cause \in {"ack", "callback"}
  <2>1. Drain(tx, w, active, "ready")
    BY <1>3 DEF Recovered, w
  <2> QED
    BY <1>1, <1>2, <2>1, EndsAttended
<1>4. CASE p.cause = "jammed"
  <2>1. Drain(tx, w, active, status)
    BY <1>4 DEF Recovered, w
  <2> QED
    BY <1>1, <1>2, <1>4, <2>1, EndsAttended
<1>5. CASE p.cause = "again"
  BY <1>1, <1>5, EndsAttended DEF Recovered
<1>6. CASE p.cause = "user"
  BY <1>1, <1>6, EndsAttended DEF Recovered
<1> QED
  BY <1>3, <1>4, <1>5, <1>6

(* A procedure goes on to its next step.                                   *)
LEMMA BecomesAttended ==
    ASSUME IInv, AInv, NEW p \in recovering, NEW p2, Becomes(p, p2), p2.cause = p.cause,
           status' = status, Grown(tx, tx'), FlightKept, GoesOn(p2)',
           p2.step \in {"resetting", "polling"} => Own(p2.own, tx')
    PROVE  AInv'
<1>1. \A r \in recovering : Attending(r) => r = p \/ (r \in recovering' /\ Attending(r)')
  BY GoesOnInFlight DEF Attending, Becomes
<1>2. p2 \in recovering' /\ (Attending(p) => Attending(p2)')
  BY DEF Becomes, Attending
<1>3. \A r \in recovering' :
        r \in recovering \/ (r.step \in {"resetting", "polling"} => Own(r.own, tx'))
  BY DEF Becomes
<1>4. \A r \in recovering : Attending(r) => \E x \in recovering' : Attending(x)'
  BY <1>1, <1>2
<1> QED
  BY <1>3, <1>4, StillAttended

LEMMA NextStep ==
    ASSUME IInv, NEW p \in recovering, NEW s \in {"starting", "reopening"}
    PROVE  [p EXCEPT !.step = s].cause = p.cause /\ [p EXCEPT !.step = s].step = s
  BY ProcedureType

LEMMA NotRecoveredAttended ==
    ASSUME IInv, AInv, NEW p \in recovering, NotRecovered(p),
           p.cause \in {"ack", "callback", "jammed", "again", "user"}
    PROVE  AInv'
<1>1. ASSUME Holds(p), NEW r \in Results
      PROVE  Grown(tx, Settled(tx, p.t, r))
  BY <1>1, ProcedureType, IInvParts, SettledIsLater, LaterIsGrown
<1>2. Grown(tx, tx) /\ "failed" \in Results /\ "noAck" \in Results
  BY Unchanged DEF Results
<1>3. CASE p.cause = "ack"
  <2> DEFINE p2 == [p EXCEPT !.step = "reopening"]
             txs == Settled(tx, p.t, "noAck")
  <2>1. Becomes(p, p2) /\ Drain(txs, waiting, active, status)
    BY <1>3 DEF NotRecovered
  <2>2. p2.cause = p.cause /\ p2.step = "reopening"
    BY NextStep
  <2>3. Grown(tx, txs)
    BY <1>1, <1>2, <1>3 DEF Holds
  <2> HIDE DEF p2, txs
  <2>4. status' = status /\ Grown(tx, tx') /\ FlightKept
    BY <2>1, <2>3, DrainAttended
  <2>5. GoesOn(p2)'
    BY <2>2 DEF GoesOn
  <2> QED
    BY <2>1, <2>2, <2>4, <2>5, BecomesAttended
<1>4. CASE p.cause \in {"callback", "jammed"}
  <2> DEFINE txs == Settled(tx, p.t, "failed")
  <2>1. recovering' = recovering \ {p} /\ Drain(txs, waiting, active, "ready")
    BY <1>4 DEF NotRecovered
  <2>2. Grown(tx, txs)
    BY <1>1, <1>2, <1>4 DEF Holds
  <2> HIDE DEF txs
  <2> QED
    BY <2>1, <2>2, EndsAttended
<1>5. CASE p.cause = "again"
  BY <1>2, <1>5, EndsAttended DEF NotRecovered
<1>6. CASE p.cause = "user"
  BY <1>2, <1>6, EndsAttended DEF NotRecovered
<1> QED
  BY <1>3, <1>4, <1>5, <1>6

LEMMA PollAttended ==
    ASSUME IInv, AInv, NEW p \in recovering, Poll(p)
    PROVE  AInv'
<1> DEFINE new == Created(tx, Version)
           n  == Len(new)
           w  == With(waiting, new, n)
           p2 == [p EXCEPT !.step = "polling", !.polls = @ + 1, !.own = n]
<1>1. PICK r : r = p2 /\ Becomes(p, r) /\ Drain(new, w, active, status)
  BY DEF Poll
<1>2. Grown(tx, new) /\ n \in 1..n /\ new[n].msg = Version
  BY IInvParts, CreatedIsGrown
<1>3. Own(n, new) /\ n # 0
  BY <1>2 DEF Own
<1>4. waiting["immediate"] \subseteq w["immediate"] /\ n \in w["immediate"]
  <2>1. QueueOf(new[n].msg) = "immediate"
    BY <1>2, OwnQueue
  <2> HIDE DEF new, n
  <2> QED
    BY <2>1, IInvParts, Queued
<1>5. r.cause = p.cause /\ r.own = n /\ r.step = "polling"
  <2> HIDE DEF n
  <2> QED
    BY <1>1, ProcedureType
<1> HIDE DEF new, w, p2, n
<1>6. tx' = new /\ status' = status /\ Grown(tx, tx') /\ FlightKept
  BY <1>1, <1>2, <1>4, DrainAttended
<1>7. InFlight(r.own, tx', waiting', active')
  <2>1. InFlight(n, new, w, active)
    BY <1>4 DEF InFlight
  <2> QED
    BY <1>1, <1>3, <1>5, <2>1, DrainInFlight
<1>8. GoesOn(r)'
  BY <1>5, <1>7 DEF GoesOn, InFlight
<1> QED
  BY <1>1, <1>3, <1>5, <1>6, <1>8, BecomesAttended

LEMMA RecoveryStepAttended ==
    ASSUME IInv, AInv, NEW p \in recovering, RecoveryStep(p)
    PROVE  AInv'
<1>1. p.step # "reopening" => p.cause \in {"ack", "callback", "jammed", "again", "user"}
  BY ProcedureType
<1>2. CASE ResetSent(p)
  <2>1. CASE NotRecovered(p)
    BY <1>1, <1>2, <2>1, NotRecoveredAttended DEF ResetSent
  <2>2. CASE /\ Becomes(p, [p EXCEPT !.step = "starting"])
             /\ UNCHANGED <<tx, waiting, active, status, phase>>
    <3> DEFINE p2 == [p EXCEPT !.step = "starting"]
    <3>1. p2.cause = p.cause /\ p2.step = "starting"
      BY NextStep
    <3> HIDE DEF p2
    <3>2. Becomes(p, p2) /\ GoesOn(p2)'
      BY <2>2, <3>1 DEF p2, GoesOn
    <3> QED
      BY <2>2, <3>1, <3>2, Unchanged, BecomesAttended
  <2> QED
    BY <1>2, <2>1, <2>2 DEF ResetSent
<1>3. CASE Started(p)
  BY <1>1, <1>3, RecoveredAttended DEF Started
<1>4. CASE NotStarted(p)
  BY <1>4, PollAttended DEF NotStarted
<1>5. CASE PortGone(p) \/ NotReopened(p)
  <2>1. UNCHANGED <<tx, waiting, active, status, recovering>>
    BY <1>5 DEF PortGone, NotReopened
  <2> QED
    BY <2>1, Unchanged, SameProcedures
<1>6. CASE Polled(p)
  <2>1. CASE Recovered(p)
    BY <1>1, <1>6, <2>1, RecoveredAttended DEF Polled
  <2>2. CASE Poll(p)
    BY <2>2, PollAttended
  <2>3. CASE UNCHANGED <<tx, waiting, active, status, phase, recovering>>
    BY <2>3, Unchanged, SameProcedures
  <2> QED
    BY <1>6, <2>1, <2>2, <2>3 DEF Polled
<1>7. CASE Reopened(p)
  BY <1>7, Unchanged, EndsAttended DEF Reopened
<1> QED
  BY <1>2, <1>3, <1>4, <1>5, <1>6, <1>7 DEF RecoveryStep

LEMMA NextAttended == IInv /\ AInv /\ [Next]_vars => AInv'
<1> SUFFICES ASSUME IInv, AInv, [Next]_vars
             PROVE  AInv'
  OBVIOUS
<1>1. ASSUME NEW m \in Messages, SendMessage(m) PROVE AInv'
  <2> DEFINE new == Created(tx, m)
             w == With(waiting, new, Len(new))
  <2>1. Drain(new, w, active, status) /\ recovering' = recovering
    BY <1>1 DEF SendMessage
  <2>2. Grown(tx, new)
    BY IInvParts, CreatedIsGrown
  <2> HIDE DEF new
  <2>3. waiting["immediate"] \subseteq w["immediate"]
    BY IInvParts, Queued
  <2> HIDE DEF w
  <2> QED
    BY <2>1, <2>2, <2>3, DrainAttended, SameProcedures
<1>2. CASE UserSoftReset
  <2> DEFINE new == Created(tx, SoftReset)
             n == Len(new)
             w == With(waiting, new, n)
             p == Procedure("user", 0, n)
  <2>1. Drain(new, w, active, status) /\ recovering' = recovering \cup {p}
    BY <1>2 DEF UserSoftReset
  <2>2. Grown(tx, new) /\ n \in 1..n /\ new[n].msg = SoftReset
    BY IInvParts, CreatedIsGrown
  <2>3. p.own = n /\ Own(n, new)
    BY <2>2 DEF Procedure, Own
  <2> HIDE DEF new, p, n
  <2>4. waiting["immediate"] \subseteq w["immediate"]
    BY IInvParts, Queued
  <2> HIDE DEF w
  <2>5. tx' = new /\ status' = status /\ Grown(tx, tx') /\ FlightKept
    BY <2>1, <2>2, <2>4, DrainAttended
  <2>6. \A r \in recovering : Attending(r) => r \in recovering' /\ Attending(r)'
    BY <2>1, <2>5, GoesOnInFlight DEF Attending
  <2> QED
    BY <2>1, <2>3, <2>5, <2>6, StillAttended
<1>3. CASE UNCHANGED vars
  <2>1. UNCHANGED <<tx, waiting, active, status, recovering>>
    BY <1>3 DEF vars
  <2> QED
    BY <2>1, Unchanged, SameProcedures
<1> QED
  BY <1>1, <1>2, <1>3, LoopStepAttended, RecoveryStepAttended DEF Next

(* While the controller counts as unresponsive, mayStartNextTransaction    *)
(* holds back what the application sends.  In every reachable state some   *)
(* procedure of Driver.ts is then at work that ends this, and it is at a   *)
(* wait of its own or its message is settled, queued or in execution,      *)
(* although a soft reset that is not acknowledged starts another one that  *)
(* takes the first one's message away.                                     *)
THEOREM Attended == Spec => []UnresponsiveIsRecovered
<1>1. Init => AInv
  BY DEF Init, AInv, UnresponsiveIsRecovered
<1>2. AInv => UnresponsiveIsRecovered
  BY DEF AInv
<1> QED
  BY <1>1, <1>2, NextAttended, Invariance, PTL DEF Spec
=============================================================================
