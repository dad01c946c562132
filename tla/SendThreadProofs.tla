--------------------------- MODULE SendThreadProofs ---------------------------
(***************************************************************************)
(* Proofs about SendThread for every set of nodes and messages and every   *)
(* bound: the queues, loops and nodes keep their types, no transaction is  *)
(* forgotten, none starts with a generator that was started before, the    *)
(* death of a node rejects its messages, no message that may be sent is    *)
(* stuck behind one that may not, and the queues stay sorted.              *)
(*                                                                         *)
(* After lemmas about lists (Inserted, InsertedAll) and about one loop     *)
(* (Triggered, Added, Reduced, Done) comes the inductive invariant         *)
(* Core with a lemma per action, then the theorems.  The last two need     *)
(* the invariant Lined on top of Core.                                     *)
(***************************************************************************)
EXTENDS SendThread, SharedFacts, SequenceTheorems

-----------------------------------------------------------------------------
(* Lists.                                                                  *)

(* Where SortedList.add puts an element: before the first greater one.     *)
LEMMA InsertedFacts ==
    ASSUME NEW T, NEW list \in Seq(T), NEW x \in T, NEW st
    PROVE  LET r == Inserted(st, list, x)
           IN  /\ r \in Seq(T) /\ Len(r) = Len(list) + 1
               /\ \E k \in 1..(Len(list) + 1) :
                    /\ r[k] = x
                    /\ \A i \in 1..(k - 1) : r[i] = list[i] /\ ~Before(st, x, list[i])
                    /\ \A i \in k..Len(list) : r[i + 1] = list[i]
                    /\ k <= Len(list) => Before(st, x, list[k])
<1> DEFINE S == {i \in DOMAIN list : Before(st, x, list[i])} \cup {Len(list) + 1}
           k == Min(S)
           r == Inserted(st, list, x)
<1>1. S \in SUBSET Nat /\ S # {} /\ S \subseteq 1..(Len(list) + 1)
  OBVIOUS
<1> HIDE DEF S
<1>2. PICK j \in S : \A i \in S : j <= i
  BY <1>1, LeastNumber
<1>3. k \in S /\ \A i \in S : k <= i
  BY <1>2 DEF Min
<1>4. r = InsertAt(list, k, x)
  BY DEF Inserted, S
<1> HIDE DEF k, r
<1>5. k \in 1..(Len(list) + 1)
  BY <1>1, <1>3
<1>6. \A i \in 1..(k - 1) : ~Before(st, x, list[i])
  BY <1>3, <1>5 DEF S
<1>7. k <= Len(list) => Before(st, x, list[k])
  BY <1>3, <1>5 DEF S
<1> DEFINE front == SubSeq(list, 1, k - 1)
           back == SubSeq(list, k, Len(list))
<1>8. /\ front \in Seq(T) /\ Len(front) = k - 1
      /\ \A i \in 1..(k - 1) : front[i] = list[i]
  BY <1>5, SubSeqProperties
<1>9. /\ back \in Seq(T) /\ Len(back) = Len(list) - k + 1
      /\ \A i \in 1..(Len(list) - k + 1) : back[i] = list[k + i - 1]
  BY <1>5, SubSeqProperties
<1>10. r = front \o <<x>> \o back
  BY <1>4 DEF InsertAt
<1> HIDE DEF front, back
<1>11. /\ front \o <<x>> \in Seq(T) /\ Len(front \o <<x>>) = k
       /\ (front \o <<x>>)[k] = x
       /\ \A i \in 1..(k - 1) : (front \o <<x>>)[i] = list[i]
  BY <1>5, <1>8
<1> DEFINE upTo == front \o <<x>>
<1>12. r = upTo \o back
  BY <1>10
<1>13. upTo \in Seq(T) /\ Len(upTo) = k /\ upTo[k] = x
       /\ \A i \in 1..(k - 1) : upTo[i] = list[i]
  BY <1>11
<1> HIDE DEF upTo
<1>14. /\ r \in Seq(T) /\ Len(r) = Len(list) + 1
       /\ \A i \in 1..k : r[i] = upTo[i]
       /\ \A i \in 1..Len(back) : r[k + i] = back[i]
  BY <1>5, <1>9, <1>12, <1>13, ConcatProperties
<1>15. \A i \in k..Len(list) : r[i + 1] = list[i]
  <2> SUFFICES ASSUME NEW i \in k..Len(list) PROVE r[i + 1] = list[i]
    OBVIOUS
  <2>1. i - k + 1 \in 1..Len(back) /\ i - k + 1 \in 1..(Len(list) - k + 1)
    BY <1>5, <1>9
  <2>2. r[k + (i - k + 1)] = back[i - k + 1]
    BY <1>14, <2>1
  <2>3. back[i - k + 1] = list[k + (i - k + 1) - 1]
    BY <1>9, <2>1
  <2>4. k + (i - k + 1) = i + 1 /\ k + (i - k + 1) - 1 = i
    BY <1>5
  <2> QED
    BY <2>2, <2>3, <2>4
<1>16. r[k] = x /\ \A i \in 1..(k - 1) : r[i] = list[i]
  BY <1>5, <1>13, <1>14
<1> QED
  BY <1>5, <1>6, <1>7, <1>14, <1>15, <1>16 DEF r

LEMMA InsertedSet ==
    ASSUME NEW T, NEW list \in Seq(T), NEW x \in T, NEW st
    PROVE  ToSet(Inserted(st, list, x)) = ToSet(list) \cup {x}
<1> DEFINE r == Inserted(st, list, x)
<1>1. r \in Seq(T) /\ Len(r) = Len(list) + 1
  BY InsertedFacts
<1>2. PICK k \in 1..(Len(list) + 1) :
        /\ r[k] = x
        /\ \A i \in 1..(k - 1) : r[i] = list[i]
        /\ \A i \in k..Len(list) : r[i + 1] = list[i]
  BY InsertedFacts
<1> HIDE DEF r
<1>3. ToSet(r) = {r[i] : i \in 1..Len(r)} /\ ToSet(list) = {list[i] : i \in 1..Len(list)}
  BY <1>1 DEF ToSet
<1>4. ASSUME NEW i \in 1..Len(r) PROVE r[i] \in ToSet(list) \cup {x}
  <2>1. CASE i \in 1..(k - 1)
    BY <1>2, <1>3, <2>1
  <2>2. CASE i = k
    BY <1>2, <2>2
  <2>3. CASE i > k
    <3>1. i - 1 \in k..Len(list) /\ i - 1 \in 1..Len(list) /\ (i - 1) + 1 = i
      BY <1>1, <2>3
    <3>2. r[(i - 1) + 1] = list[i - 1]
      BY <1>2, <3>1
    <3> QED
      BY <1>3, <3>1, <3>2
  <2> QED
    BY <2>1, <2>2, <2>3
<1>5. ASSUME NEW i \in 1..Len(list) PROVE list[i] \in ToSet(r)
  <2>1. CASE i \in 1..(k - 1)
    BY <1>1, <1>2, <1>3, <2>1
  <2>2. CASE i \in k..Len(list)
    <3>1. i + 1 \in 1..Len(r) /\ r[i + 1] = list[i]
      BY <1>1, <1>2, <2>2
    <3> QED
      BY <1>3, <3>1
  <2> QED
    BY <2>1, <2>2
<1>6. x \in ToSet(r)
  BY <1>1, <1>2, <1>3
<1> QED
  BY <1>3, <1>4, <1>5, <1>6 DEF r

InsertStep(st, list, xs, f, i) ==
    IF i = 0 THEN list ELSE Inserted(st, f[i - 1], xs[i])

InsertSteps(st, list, xs, n) ==
    \E f : f = [i \in 0..n |-> InsertStep(st, list, xs, f, i)]

(* The recursive definition of InsertedAll is one.                         *)
LEMMA InsertExists ==
    ASSUME NEW st, NEW list, NEW xs, NEW n \in Nat
    PROVE  InsertSteps(st, list, xs, n)
<1> DEFINE G == {i \in 0..n : InsertSteps(st, list, xs, i)}
<1>1. 0 \in G
  <2> DEFINE f == [i \in 0..0 |-> list]
  <2>1. f = [i \in 0..0 |-> InsertStep(st, list, xs, f, i)]
    BY DEF InsertStep
  <2> QED
    BY <2>1 DEF InsertSteps
<1>2. ASSUME NEW i \in 1..n, i - 1 \in G PROVE i \in G
  <2>1. PICK f : f = [j \in 0..(i - 1) |-> InsertStep(st, list, xs, f, j)]
    BY <1>2 DEF InsertSteps
  <2> DEFINE g == [j \in 0..i |-> InsertStep(st, list, xs, f, j)]
  <2>2. ASSUME NEW j \in 0..(i - 1) PROVE g[j] = f[j]
    <3>1. f[j] = InsertStep(st, list, xs, f, j)
      BY <2>1
    <3> QED
      BY <3>1
  <2> HIDE DEF G
  <2>3. \A j \in 0..i : InsertStep(st, list, xs, g, j) = InsertStep(st, list, xs, f, j)
    <3> HIDE DEF g
    <3> QED
      BY <2>2 DEF InsertStep
  <2>4. g = [j \in 0..i |-> InsertStep(st, list, xs, g, j)]
    BY <2>3
  <2> HIDE DEF g
  <2>5. InsertSteps(st, list, xs, i)
    BY <2>4 DEF InsertSteps
  <2> QED
    BY <2>5 DEF G
<1> HIDE DEF G
<1>3. n \in G
  BY <1>1, <1>2, InductionUpTo
<1> QED
  BY <1>3 DEF G

LEMMA InsertRecursion ==
    ASSUME NEW st, NEW list, NEW T, NEW xs \in Seq(T)
    PROVE  \E f : /\ f[0] = list
                  /\ \A i \in 1..Len(xs) : f[i] = Inserted(st, f[i - 1], xs[i])
                  /\ InsertedAll(st, list, xs) = f[Len(xs)]
<1> DEFINE f == CHOOSE g : g = [i \in 0..Len(xs) |-> InsertStep(st, list, xs, g, i)]
<1>1. f = [i \in 0..Len(xs) |-> InsertStep(st, list, xs, f, i)]
  BY InsertExists DEF InsertSteps
<1>2. InsertedAll(st, list, xs) = f[Len(xs)]
  BY DEF InsertedAll, InsertStep
<1> HIDE DEF f
<1>3. \A i \in 0..Len(xs) : f[i] = InsertStep(st, list, xs, f, i)
  BY <1>1
<1> QED
  BY <1>2, <1>3 DEF InsertStep

LEMMA InsertedAllFacts ==
    ASSUME NEW T, NEW list \in Seq(T), NEW xs \in Seq(T), NEW st
    PROVE  /\ InsertedAll(st, list, xs) \in Seq(T)
           /\ ToSet(InsertedAll(st, list, xs)) = ToSet(list) \cup ToSet(xs)
<1>1. PICK f : /\ f[0] = list
               /\ \A i \in 1..Len(xs) : f[i] = Inserted(st, f[i - 1], xs[i])
               /\ InsertedAll(st, list, xs) = f[Len(xs)]
  BY InsertRecursion
<1> DEFINE Good(i) == f[i] \in Seq(T) /\ ToSet(f[i]) = ToSet(list) \cup {xs[j] : j \in 1..i}
           G == {i \in 0..Len(xs) : Good(i)}
<1>2. 0 \in G
  BY <1>1
<1>3. ASSUME NEW i \in 1..Len(xs), i - 1 \in G PROVE i \in G
  <2>1. Good(i - 1) /\ xs[i] \in T
    BY <1>3
  <2>2. f[i] = Inserted(st, f[i - 1], xs[i])
    BY <1>1
  <2>3. f[i] \in Seq(T) /\ ToSet(f[i]) = ToSet(f[i - 1]) \cup {xs[i]}
    BY <2>1, <2>2, InsertedFacts, InsertedSet
  <2>4. {xs[j] : j \in 1..i} = {xs[j] : j \in 1..(i - 1)} \cup {xs[i]}
    OBVIOUS
  <2> QED
    BY <2>1, <2>3, <2>4
<1> HIDE DEF G
<1>4. Len(xs) \in G
  <2>1. Len(xs) \in Nat
    OBVIOUS
  <2>2. \A i \in 0..Len(xs) : i \in G
    <3> HIDE DEF Good
    <3> QED
      BY <1>2, <1>3, <2>1, InductionUpTo
  <2> QED
    BY <2>1, <2>2
<1>5. Good(Len(xs))
  BY <1>4 DEF G
<1>6. ToSet(xs) = {xs[j] : j \in 1..Len(xs)}
  BY DEF ToSet
<1> QED
  BY <1>1, <1>5, <1>6
-----------------------------------------------------------------------------
(* The loop of a queue.  m are the messages of the transactions so far: a  *)
(* transaction and its clones have the same one.                           *)

Phases == {"idle", "starting", "sending", "waiting", "awaitingUpdate", "failed"}
AtWork == {"sending", "waiting", "awaitingUpdate"}

Known(m) == {x \in Transaction : x.t \in 1..Len(m) /\ x.msg = m[x.t]}
In(q, m) == {x \in Known(m) : QueueOf(x.msg) = q}
Threads(q, m) ==
    [list : Seq(In(q, m)), active : In(q, m) \cup {NoTransaction}, phase : Phases,
     sent : 0..MaxAttempts, unsent : 0..MaxQueueAttempts]
ThreadOK(q, m, th) ==
    /\ th \in Threads(q, m)
    /\ th.active = NoTransaction <=> th.phase \in {"idle", "failed"}

(* The transactions that have not been started from this thread, and all.  *)
Fresh(th) == ToSet(th.list) \cup (IF th.phase = "starting" THEN {th.active} ELSE {})
Elements(th) == ToSet(th.list \o Active(th))

(* What happens to the queue leaves a loop that is busy alone.             *)
SameWork(th, th2) ==
    /\ th2.sent = th.sent /\ th2.unsent = th.unsent
    /\ th.phase # "idle" => th2.phase = th.phase /\ th2.active = th.active
    /\ th.phase = "idle" => th2.phase \in {"idle", "starting"}

LEMMA NoTransactionIsNone ==
    ASSUME NEW q, NEW m
    PROVE  /\ \A x \in In(q, m) : x.t \in Nat \ {0} /\ x # NoTransaction /\ x.t # 0
           /\ NoTransaction.t = 0
BY DEF In, Known, NoTransaction

LEMMA ThreadFields ==
    ASSUME NEW q, NEW m, NEW th, ThreadOK(q, m, th)
    PROVE  /\ th = [list |-> th.list, active |-> th.active, phase |-> th.phase,
                    sent |-> th.sent, unsent |-> th.unsent]
           /\ th.list \in Seq(In(q, m)) /\ th.active \in In(q, m) \cup {NoTransaction}
           /\ th.phase \in Phases
           /\ th.sent \in 0..MaxAttempts /\ th.unsent \in 0..MaxQueueAttempts
           /\ th.active = NoTransaction <=> th.phase \in {"idle", "failed"}
BY DEF ThreadOK, Threads

LEMMA ToSetType ==
    ASSUME NEW T, NEW s \in Seq(T)
    PROVE  ToSet(s) \subseteq T /\ ToSet(s) = {s[i] : i \in 1..Len(s)}
BY DEF ToSet

LEMMA HeadAndTail ==
    ASSUME NEW T, NEW s \in Seq(T), s # <<>>
    PROVE  /\ Head(s) \in T /\ Tail(s) \in Seq(T) /\ Head(s) = s[1]
           /\ Len(Tail(s)) = Len(s) - 1
           /\ \A i \in 1..(Len(s) - 1) : Tail(s)[i] = s[i + 1]
           /\ ToSet(s) = ToSet(Tail(s)) \cup {Head(s)}
<1>1. /\ Head(s) \in T /\ Tail(s) \in Seq(T) /\ Head(s) = s[1] /\ Len(s) \in Nat \ {0}
      /\ Len(Tail(s)) = Len(s) - 1
      /\ \A i \in 1..(Len(s) - 1) : Tail(s)[i] = s[i + 1]
  BY HeadTailProperties
<1> DEFINE r == Tail(s)
<1> HIDE DEF r
<1>2. /\ ToSet(s) = {s[i] : i \in 1..Len(s)}
      /\ ToSet(r) = {r[i] : i \in 1..(Len(s) - 1)}
  BY <1>1, ToSetType DEF r
<1>3. \A i \in 1..Len(s) : i = 1 \/ (i - 1 \in 1..(Len(s) - 1) /\ r[i - 1] = s[i])
  <2> SUFFICES ASSUME NEW i \in 1..Len(s), i # 1
               PROVE  i - 1 \in 1..(Len(s) - 1) /\ r[i - 1] = s[i]
    OBVIOUS
  <2>1. i - 1 \in 1..(Len(s) - 1) /\ (i - 1) + 1 = i
    BY <1>1
  <2> QED
    BY <1>1, <2>1 DEF r
<1>4. \A i \in 1..(Len(s) - 1) : i + 1 \in 1..Len(s) /\ r[i] = s[i + 1]
  BY <1>1 DEF r
<1>5. ToSet(s) = ToSet(r) \cup {s[1]}
  <2>1. ToSet(s) \subseteq ToSet(r) \cup {s[1]}
    BY <1>2, <1>3
  <2>2. ToSet(r) \cup {s[1]} \subseteq ToSet(s)
    BY <1>1, <1>2, <1>4
  <2> QED
    BY <2>1, <2>2
<1> QED
  BY <1>1, <1>5 DEF r

LEMMA ElementsAre ==
    ASSUME NEW q, NEW m, NEW th, ThreadOK(q, m, th)
    PROVE  /\ Elements(th) = Fresh(th) \cup (IF th.phase \in AtWork THEN {th.active} ELSE {})
           /\ Elements(th) \subseteq In(q, m)
           /\ Elements(th) = ToSet(th.list) \cup (IF th.active.t = 0 THEN {} ELSE {th.active})
<1>1. th.list \in Seq(In(q, m)) /\ th.active \in In(q, m) \cup {NoTransaction}
      /\ th.phase \in Phases /\ (th.active = NoTransaction <=> th.phase \in {"idle", "failed"})
  BY ThreadFields
<1>2. Active(th) \in Seq(In(q, m))
      /\ ToSet(Active(th)) = IF th.active.t = 0 THEN {} ELSE {th.active}
  <2>1. CASE th.active = NoTransaction
    BY <2>1, NoTransactionIsNone DEF Active, ToSet
  <2>2. CASE th.active \in In(q, m)
    <3>1. Active(th) = <<th.active>>
      BY <2>2, NoTransactionIsNone DEF Active
    <3>2. ToSet(<<th.active>>) = {th.active} /\ <<th.active>> \in Seq(In(q, m))
      BY <2>2 DEF ToSet
    <3> QED
      BY <2>2, <3>1, <3>2, NoTransactionIsNone
  <2> QED
    BY <1>1, <2>1, <2>2
<1> DEFINE l == th.list
           a == Active(th)
<1> HIDE DEF l, a
<1>3. ToSet(l \o a) = ToSet(l) \cup ToSet(a)
  <2>1. l \in Seq(In(q, m)) /\ a \in Seq(In(q, m))
    BY <1>1, <1>2 DEF l, a
  <2>2. /\ ToSet(l) = {l[i] : i \in 1..Len(l)} /\ ToSet(a) = {a[i] : i \in 1..Len(a)}
        /\ ToSet(l \o a) = {(l \o a)[i] : i \in 1..(Len(l) + Len(a))}
    <3>1. l \o a \in Seq(In(q, m)) /\ Len(l \o a) = Len(l) + Len(a)
      BY <2>1
    <3>2. ToSet(l \o a) = {(l \o a)[i] : i \in 1..Len(l \o a)}
      BY <3>1, ToSetType
    <3>3. ToSet(l) = {l[i] : i \in 1..Len(l)} /\ ToSet(a) = {a[i] : i \in 1..Len(a)}
      BY <2>1, ToSetType
    <3> QED
      BY <3>1, <3>2, <3>3
  <2>3. /\ \A i \in 1..Len(l) : (l \o a)[i] = l[i] /\ i \in 1..(Len(l) + Len(a))
        /\ \A i \in 1..Len(a) : (l \o a)[Len(l) + i] = a[i] /\ Len(l) + i \in 1..(Len(l) + Len(a))
        /\ \A i \in 1..(Len(l) + Len(a)) : i \in 1..Len(l) \/
             (i - Len(l) \in 1..Len(a) /\ (l \o a)[i] = a[i - Len(l)])
    BY <2>1
  <2>4. ToSet(l \o a) \subseteq ToSet(l) \cup ToSet(a)
    BY <2>2, <2>3
  <2>5. ToSet(l) \cup ToSet(a) \subseteq ToSet(l \o a)
    BY <2>2, <2>3
  <2> QED
    BY <2>4, <2>5
<1>4. Elements(th) = ToSet(th.list) \cup (IF th.active.t = 0 THEN {} ELSE {th.active})
  BY <1>2, <1>3 DEF Elements, l, a
<1>5. ToSet(th.list) \subseteq In(q, m)
  BY <1>1, ToSetType
<1>6. th.active.t = 0 <=> th.phase \in {"idle", "failed"}
  BY <1>1, NoTransactionIsNone
<1> QED
  BY <1>1, <1>4, <1>5, <1>6 DEF Fresh, Phases, AtWork

LEMMA TriggeredKeeps ==
    ASSUME NEW q, NEW m, NEW th, ThreadOK(q, m, th), NEW st
    PROVE  LET th2 == Triggered(st, q, th)
           IN  ThreadOK(q, m, th2) /\ SameWork(th, th2) /\ Fresh(th2) = Fresh(th)
<1> DEFINE th2 == Triggered(st, q, th)
           T == In(q, m)
<1>1. th = [list |-> th.list, active |-> th.active, phase |-> th.phase,
            sent |-> th.sent, unsent |-> th.unsent]
      /\ th.list \in Seq(T) /\ th.phase \in Phases
      /\ th.sent \in 0..MaxAttempts /\ th.unsent \in 0..MaxQueueAttempts
  BY ThreadFields
<1>2. CASE th2 = th
  <2>1. SameWork(th, th)
    BY DEF SameWork
  <2> QED
    BY <1>2, <2>1
<1>3. CASE th.phase = "idle" /\ th.list # <<>>
           /\ th2 = [th EXCEPT !.list = Tail(@), !.active = Head(th.list), !.phase = "starting"]
  <2> DEFINE h == Head(th.list)
             r == Tail(th.list)
  <2>1. h \in T /\ r \in Seq(T) /\ ToSet(th.list) = ToSet(r) \cup {h}
    BY <1>1, <1>3, HeadAndTail
  <2>2. th2 = [list |-> r, active |-> h, phase |-> "starting",
               sent |-> th.sent, unsent |-> th.unsent]
    BY <1>1, <1>3
  <2> HIDE DEF h, r, th2
  <2>3. th2 \in Threads(q, m)
    BY <1>1, <2>1, <2>2 DEF Threads, Phases
  <2>4. ThreadOK(q, m, th2)
    BY <2>1, <2>2, <2>3, NoTransactionIsNone DEF ThreadOK
  <2>5. SameWork(th, th2)
    BY <1>3, <2>2 DEF SameWork
  <2>6. Fresh(th2) = Fresh(th)
    <3>1. Fresh(th) = ToSet(th.list)
      BY <1>3 DEF Fresh
    <3>2. Fresh(th2) = ToSet(r) \cup {h}
      BY <2>2 DEF Fresh
    <3> QED
      BY <2>1, <3>1, <3>2
  <2> QED
    BY <2>4, <2>5, <2>6 DEF th2
<1>4. \/ th2 = th
      \/ /\ th.phase = "idle" /\ th.list # <<>>
         /\ th2 = [th EXCEPT !.list = Tail(@), !.active = Head(th.list), !.phase = "starting"]
  BY DEF Triggered
<1> QED
  BY <1>2, <1>3, <1>4

(* The list is replaced.                                                   *)
LEMMA ListKeeps ==
    ASSUME NEW q, NEW m, NEW th, ThreadOK(q, m, th), NEW l \in Seq(In(q, m)),
           NEW th2, th2 = [th EXCEPT !.list = l]
    PROVE  /\ ThreadOK(q, m, th2) /\ SameWork(th, th2) /\ th2.list = l
           /\ th2.active = th.active /\ th2.phase = th.phase
           /\ Fresh(th2) = ToSet(l) \cup (IF th.phase = "starting" THEN {th.active} ELSE {})
<1>1. th2 = [list |-> l, active |-> th.active, phase |-> th.phase,
             sent |-> th.sent, unsent |-> th.unsent]
  BY ThreadFields
<1>2. th2 \in Threads(q, m)
  BY <1>1, ThreadFields DEF Threads
<1>3. ThreadOK(q, m, th2)
  BY <1>1, <1>2, ThreadFields DEF ThreadOK
<1>4. SameWork(th, th2) /\ Fresh(th2) = ToSet(l) \cup (IF th.phase = "starting" THEN {th.active} ELSE {})
  BY <1>1 DEF SameWork, Fresh
<1> QED
  BY <1>1, <1>3, <1>4

LEMMA SameWorkTwice ==
    ASSUME NEW a, NEW b, NEW c, SameWork(a, b), SameWork(b, c)
    PROVE  SameWork(a, c)
<1>1. CASE a.phase # "idle"
  BY <1>1 DEF SameWork
<1>2. CASE a.phase = "idle"
  BY <1>2 DEF SameWork
<1> QED
  BY <1>1, <1>2

LEMMA AddedKeeps ==
    ASSUME NEW q, NEW m, NEW th, ThreadOK(q, m, th), NEW xs \in Seq(In(q, m)), NEW st,
           NEW r, r = Added(st, q, th, xs)
    PROVE  /\ ThreadOK(q, m, r) /\ SameWork(th, r)
           /\ Fresh(r) = Fresh(th) \cup ToSet(xs)
<1> DEFINE l == InsertedAll(st, th.list, xs)
           with == [th EXCEPT !.list = l]
           th2 == Triggered(st, q, with)
<1>1. r = th2
  BY DEF Added
<1>2. l \in Seq(In(q, m)) /\ ToSet(l) = ToSet(th.list) \cup ToSet(xs)
  <2> DEFINE T == In(q, m)
             old == th.list
  <2>1. old \in Seq(T) /\ xs \in Seq(T)
    BY ThreadFields
  <2> HIDE DEF T, old
  <2>2. /\ InsertedAll(st, old, xs) \in Seq(T)
        /\ ToSet(InsertedAll(st, old, xs)) = ToSet(old) \cup ToSet(xs)
    BY <2>1, InsertedAllFacts
  <2> QED
    BY <2>2 DEF T, old
<1> HIDE DEF l
<1>3. /\ ThreadOK(q, m, with) /\ SameWork(th, with)
      /\ Fresh(with) = ToSet(l) \cup (IF th.phase = "starting" THEN {th.active} ELSE {})
  BY <1>2, ListKeeps
<1> HIDE DEF with
<1>4. ThreadOK(q, m, th2) /\ SameWork(with, th2) /\ Fresh(th2) = Fresh(with)
  BY <1>3, TriggeredKeeps
<1>5. SameWork(th, th2)
  BY <1>3, <1>4, SameWorkTwice
<1> QED
  BY <1>1, <1>2, <1>3, <1>4, <1>5 DEF Fresh

CloneWith(x, p) == [Clone(x) EXCEPT !.prio = p]

LEMMA CloneType ==
    ASSUME NEW q, NEW m, NEW x \in In(q, m), NEW p \in 0..6
    PROVE  /\ CloneWith(x, p) \in In(q, m) /\ CloneWith(x, p).t = x.t
           /\ CloneWith(x, p).msg = x.msg /\ CloneWith(x, p).prio = p
BY DEF CloneWith, Clone, In, Known, Transaction

(* What reduceQueues leaves in the queues.                                 *)
Remains(th, th2, drop, prio) ==
    Fresh(th2) = (ToSet(th.list) \ (drop \cup DOMAIN prio))
                   \cup {CloneWith(x, prio[x]) : x \in Elements(th) \cap DOMAIN prio}
                   \cup (IF th.phase = "starting" THEN {th.active} ELSE {})

LEMMA ReducedKeeps ==
    ASSUME NEW q, NEW m, NEW th, ThreadOK(q, m, th), NEW drop, NEW prio,
           \A x \in DOMAIN prio : prio[x] \in 0..6, NEW st,
           NEW r, r = Reduced(st, q, th, drop, prio)
    PROVE  ThreadOK(q, m, r) /\ SameWork(th, r) /\ Remains(th, r, drop, prio)
<1> DEFINE T == In(q, m)
           kept == Only(th.list, ToSet(th.list) \ (drop \cup DOMAIN prio))
           all == th.list \o Active(th)
           again == Only(all, DOMAIN prio)
           clones == [i \in DOMAIN again |-> CloneWith(again[i], prio[again[i]])]
           th1 == [th EXCEPT !.list = kept]
           th2 == Triggered(st, q, th1)
           th3 == Added(st, q, th2, clones)
<1>1. r = th3
  BY DEF Reduced, CloneWith
<1>2. th.list \in Seq(T) /\ all \in Seq(T)
  <2>1. th.list \in Seq(T) /\ th.active \in T \cup {NoTransaction}
    BY ThreadFields
  <2>2. Active(th) \in Seq(T)
    BY <2>1, NoTransactionIsNone DEF Active
  <2> QED
    BY <2>1, <2>2
<1>3. kept \in Seq(T) /\ ToSet(kept) = ToSet(th.list) \ (drop \cup DOMAIN prio)
  <2> DEFINE old == th.list
             S == ToSet(th.list) \ (drop \cup DOMAIN prio)
  <2>1. old \in Seq(T)
    BY <1>2
  <2> HIDE DEF T, old, S
  <2>2. Only(old, S) \in Seq(T) /\ ToSet(Only(old, S)) = ToSet(old) \cap S
    BY <2>1, OnlyFacts
  <2> QED
    BY <2>2 DEF old, S, T
<1>4. again \in Seq(T) /\ ToSet(again) = Elements(th) \cap DOMAIN prio
  <2> HIDE DEF T, all
  <2>1. Only(all, DOMAIN prio) \in Seq(T) /\ ToSet(Only(all, DOMAIN prio)) = ToSet(all) \cap DOMAIN prio
    BY <1>2, OnlyFacts
  <2> QED
    BY <2>1 DEF Elements, all
<1> HIDE DEF kept, again
<1>5. /\ clones \in Seq(T)
      /\ ToSet(clones) = {CloneWith(x, prio[x]) : x \in Elements(th) \cap DOMAIN prio}
  <2>1. \A i \in 1..Len(again) : again[i] \in T /\ again[i] \in DOMAIN prio
    <3>1. ToSet(again) = {again[i] : i \in 1..Len(again)}
      BY <1>4, ToSetType
    <3> QED
      BY <1>4, <3>1
  <2>2. \A i \in 1..Len(again) : CloneWith(again[i], prio[again[i]]) \in T
    BY <2>1, CloneType
  <2>3. DOMAIN again = 1..Len(again) /\ Len(again) \in Nat
    BY <1>4
  <2>4. clones \in Seq(T) /\ Len(clones) = Len(again)
    BY <2>2, <2>3
  <2>5. ToSet(clones) = {clones[i] : i \in 1..Len(again)}
    <3> HIDE DEF clones, T
    <3> QED
      BY <2>4, ToSetType
  <2>6. \A i \in 1..Len(again) : clones[i] = CloneWith(again[i], prio[again[i]])
    BY <2>3
  <2>7. ToSet(again) = {again[i] : i \in 1..Len(again)}
    BY <1>4, ToSetType
  <2> HIDE DEF clones
  <2>8. ToSet(clones) \subseteq {CloneWith(x, prio[x]) : x \in ToSet(again)}
    BY <2>5, <2>6, <2>7
  <2>9. {CloneWith(x, prio[x]) : x \in ToSet(again)} \subseteq ToSet(clones)
    BY <2>5, <2>6, <2>7
  <2> QED
    BY <1>4, <2>4, <2>8, <2>9
<1> HIDE DEF clones
<1>6. /\ ThreadOK(q, m, th1) /\ SameWork(th, th1)
      /\ Fresh(th1) = ToSet(kept) \cup (IF th.phase = "starting" THEN {th.active} ELSE {})
  BY <1>3, ListKeeps
<1> HIDE DEF th1
<1>7. ThreadOK(q, m, th2) /\ SameWork(th1, th2) /\ Fresh(th2) = Fresh(th1)
  BY <1>6, TriggeredKeeps
<1> HIDE DEF th2
<1>8. ThreadOK(q, m, th3) /\ SameWork(th2, th3) /\ Fresh(th3) = Fresh(th2) \cup ToSet(clones)
  BY <1>5, <1>7, AddedKeeps
<1>9. SameWork(th, th3)
  <2> HIDE DEF th3
  <2> QED
    BY <1>6, <1>7, <1>8, SameWorkTwice
<1>10. Fresh(th3) = ToSet(kept) \cup ToSet(clones)
         \cup (IF th.phase = "starting" THEN {th.active} ELSE {})
  <2> HIDE DEF th3
  <2> QED
    BY <1>6, <1>7, <1>8
<1>11. Remains(th, th3, drop, prio)
  <2> HIDE DEF th3
  <2> QED
    BY <1>3, <1>5, <1>10 DEF Remains
<1> QED
  BY <1>1, <1>8, <1>9, <1>11

(* The loop is done with its transaction: phase idle, or failed as long as *)
(* its failure is handled.                                                 *)
LEMMA DoneKeeps ==
    ASSUME NEW q, NEW m, NEW th, ThreadOK(q, m, th)
    PROVE  /\ ThreadOK(q, m, Done(th)) /\ Done(th).phase = "idle"
           /\ Fresh(Done(th)) = ToSet(th.list) /\ Done(th).list = th.list
           /\ ThreadOK(q, m, [Done(th) EXCEPT !.phase = "failed"])
           /\ [Done(th) EXCEPT !.phase = "failed"].phase = "failed"
           /\ [Done(th) EXCEPT !.phase = "failed"].list = th.list
           /\ Fresh([Done(th) EXCEPT !.phase = "failed"]) = ToSet(th.list)
<1> DEFINE d(p) == [list |-> th.list, active |-> NoTransaction, phase |-> p,
                    sent |-> 0, unsent |-> 0]
<1>1. Done(th) = d("idle") /\ [Done(th) EXCEPT !.phase = "failed"] = d("failed")
  <2>1. th = [list |-> th.list, active |-> th.active, phase |-> th.phase,
              sent |-> th.sent, unsent |-> th.unsent]
    BY ThreadFields
  <2>2. Done(th) = d("idle")
    <3> DEFINE r1 == [th EXCEPT !.active = NoTransaction]
               r2 == [r1 EXCEPT !.phase = "idle"]
               r3 == [r2 EXCEPT !.sent = 0]
               r4 == [r3 EXCEPT !.unsent = 0]
    <3>1. r1 = [list |-> th.list, active |-> NoTransaction, phase |-> th.phase,
                sent |-> th.sent, unsent |-> th.unsent]
      BY <2>1
    <3>2. Done(th) = r4
      BY DEF Done
    <3> HIDE DEF r1
    <3>3. r2 = [list |-> th.list, active |-> NoTransaction, phase |-> "idle",
                sent |-> th.sent, unsent |-> th.unsent]
      BY <3>1
    <3> HIDE DEF r2
    <3>4. r3 = [list |-> th.list, active |-> NoTransaction, phase |-> "idle",
                sent |-> 0, unsent |-> th.unsent]
      BY <3>3
    <3> HIDE DEF r3
    <3>5. r4 = d("idle")
      BY <3>4
    <3> QED
      BY <3>2, <3>5
  <2>3. [d("idle") EXCEPT !.phase = "failed"] = d("failed")
    OBVIOUS
  <2> QED
    BY <2>2, <2>3
<1>2. ASSUME NEW p \in {"idle", "failed"}
      PROVE  ThreadOK(q, m, d(p)) /\ d(p).phase = p /\ d(p).list = th.list
             /\ Fresh(d(p)) = ToSet(th.list)
  <2>1. d(p) \in Threads(q, m)
    BY <1>2, ThreadFields, ConstantsAssumption DEF ConstantsAssumption, Threads, Phases
  <2>2. ThreadOK(q, m, d(p))
    BY <1>2, <2>1 DEF ThreadOK
  <2> QED
    BY <1>2, <2>2 DEF Fresh
<1> QED
  BY <1>1, <1>2

(* The loop asks for the next transaction.                                 *)
LEMMA ListeningKeeps ==
    ASSUME NEW q, NEW m, NEW th, ThreadOK(q, m, th), th.phase = "failed", NEW st
    PROVE  LET th2 == Triggered(st, q, [th EXCEPT !.phase = "idle"])
           IN  /\ ThreadOK(q, m, th2) /\ th2.phase \in {"idle", "starting"}
               /\ Fresh(th2) = Fresh(th)
<1> DEFINE th1 == [th EXCEPT !.phase = "idle"]
<1>1. th1 = [list |-> th.list, active |-> NoTransaction, phase |-> "idle",
             sent |-> th.sent, unsent |-> th.unsent]
  BY ThreadFields
<1> HIDE DEF th1
<1>2. th1 \in Threads(q, m)
  BY <1>1, ThreadFields DEF Threads, Phases
<1>3. ThreadOK(q, m, th1) /\ Fresh(th1) = Fresh(th) /\ th1.phase = "idle"
  BY <1>1, <1>2 DEF ThreadOK, Fresh
<1>4. LET th2 == Triggered(st, q, th1)
      IN  ThreadOK(q, m, th2) /\ SameWork(th1, th2) /\ Fresh(th2) = Fresh(th1)
  BY <1>3, TriggeredKeeps
<1>5. Triggered(st, q, th1).phase \in {"idle", "starting"}
  BY <1>3, <1>4 DEF SameWork
<1> QED
  BY <1>3, <1>4, <1>5 DEF th1
-----------------------------------------------------------------------------
(* Both threads.                                                           *)

Machine(m, th) ==
    /\ th = [q \in Queues |-> th[q]]
    /\ \A q \in Queues : ThreadOK(q, m, th[q])
Arranged(th, th2) == \A q \in Queues : SameWork(th[q], th2[q])
Works(th, t) == \E q \in Queues : th[q].active.t = t /\ th[q].phase \in AtWork

(* Two objects with one number are copies of one transaction.              *)
LEMMA OneQueue ==
    ASSUME NEW m, NEW p, NEW q, NEW x \in In(p, m), NEW y \in In(q, m), x.t = y.t
    PROVE  p = q /\ x.msg = y.msg
BY DEF In, Known

LEMMA SameWorkPhase ==
    ASSUME NEW th, NEW th2, SameWork(th, th2)
    PROVE  /\ th2.phase \in AtWork <=> th.phase \in AtWork
           /\ th.phase \in AtWork \cup {"starting"} => th2.phase = th.phase /\ th2.active = th.active
           /\ th2.phase = "sending" <=> th.phase = "sending"
           /\ th2.phase = "failed" <=> th.phase = "failed"
           /\ th2.phase = "awaitingUpdate" <=> th.phase = "awaitingUpdate"
BY DEF SameWork, AtWork

LEMMA ArrangedWorks ==
    ASSUME NEW th, NEW th2, Arranged(th, th2), NEW t
    PROVE  Works(th2, t) <=> Works(th, t)
<1>1. ASSUME NEW q \in Queues
      PROVE  /\ th2[q].phase \in AtWork <=> th[q].phase \in AtWork
             /\ th[q].phase \in AtWork => th2[q].active = th[q].active
  <2>1. SameWork(th[q], th2[q])
    BY DEF Arranged
  <2> QED
    BY <2>1, SameWorkPhase
<1> QED
  BY <1>1 DEF Works

LEMMA ArrangedSelf ==
    ASSUME NEW th
    PROVE  Arranged(th, th)
BY DEF Arranged, SameWork

LEMMA ReducedAll ==
    ASSUME NEW m, NEW th, Machine(m, th), NEW drop, NEW prio,
           \A x \in DOMAIN prio : prio[x] \in 0..6, NEW st, NEW th2,
           th2 = [q \in Queues |-> Reduced(st, q, th[q], drop, prio)]
    PROVE  /\ Machine(m, th2) /\ Arranged(th, th2)
           /\ \A q \in Queues : Remains(th[q], th2[q], drop, prio)
<1>1. ASSUME NEW q \in Queues
      PROVE  /\ ThreadOK(q, m, th2[q]) /\ SameWork(th[q], th2[q])
             /\ Remains(th[q], th2[q], drop, prio)
  <2>1. ThreadOK(q, m, th[q])
    BY DEF Machine
  <2>2. th2[q] = Reduced(st, q, th[q], drop, prio)
    OBVIOUS
  <2> DEFINE old == th[q]
             new == th2[q]
  <2> HIDE DEF old, new
  <2>3. ThreadOK(q, m, new) /\ SameWork(old, new) /\ Remains(old, new, drop, prio)
    BY <2>1, <2>2, ReducedKeeps DEF old, new
  <2> QED
    BY <2>3 DEF old, new
<1>2. th2 = [q \in Queues |-> th2[q]]
  OBVIOUS
<1> QED
  BY <1>1, <1>2 DEF Machine, Arranged

(* A transaction that is not dropped is still there, itself or as a clone. *)
LEMMA RemainsThere ==
    ASSUME NEW q, NEW m, NEW th, ThreadOK(q, m, th), NEW th2, NEW drop, NEW prio,
           \A x \in DOMAIN prio : prio[x] \in 0..6, Remains(th, th2, drop, prio)
    PROVE  /\ \A x \in Fresh(th) : (x \in drop => x \in DOMAIN prio) =>
                \E y \in Fresh(th2) : y.t = x.t
           /\ \A x \in Elements(th) \cap DOMAIN prio : \E y \in Fresh(th2) : y.t = x.t
<1>1. ASSUME NEW x \in Elements(th) \cap DOMAIN prio PROVE \E y \in Fresh(th2) : y.t = x.t
  <2>1. CloneWith(x, prio[x]) \in Fresh(th2)
    BY DEF Remains
  <2>2. x \in In(q, m)
    BY ElementsAre
  <2>3. CloneWith(x, prio[x]).t = x.t
    BY <2>2, CloneType
  <2> QED
    BY <2>1, <2>3
<1>2. ASSUME NEW x \in Fresh(th), x \in drop => x \in DOMAIN prio
      PROVE  \E y \in Fresh(th2) : y.t = x.t
  <2>1. CASE x \in DOMAIN prio
    <3>1. x \in Elements(th)
      BY ElementsAre
    <3> QED
      BY <1>1, <2>1, <3>1
  <2>2. CASE x \notin DOMAIN prio
    <3>1. x \in Fresh(th2)
      BY <1>2, <2>2 DEF Fresh, Remains
    <3> QED
      BY <3>1
  <2> QED
    BY <2>1, <2>2
<1> QED
  BY <1>1, <1>2

LEMMA FoundAre ==
    ASSUME NEW m, NEW th, Machine(m, th), NEW n \in Node
    PROVE  /\ \A x : x \in Found(th, n) <=>
                \E q \in Queues : x \in Elements(th[q]) /\ x.msg.node = n
           /\ \A x \in Found(th, n) : x \in Known(m)
<1>1. \A x : x \in Visited(th) <=> \E q \in Queues : x \in Elements(th[q])
  BY DEF Visited, Elements
<1>2. \A q \in Queues : Elements(th[q]) \subseteq In(q, m)
  BY ElementsAre DEF Machine
<1>3. \A q \in Queues : \A x \in In(q, m) : x.t # 0 /\ x \in Known(m)
  BY NoTransactionIsNone DEF In
<1> QED
  BY <1>1, <1>2, <1>3 DEF Found, To

LEMMA WokenKeeps ==
    ASSUME NEW m, NEW th, Machine(m, th), NEW n \in Node, NEW st
    PROVE  LET th2 == Woken(st, th, n)
               prio == [x \in Found(th, n) \ Pings(th, n) |-> x.prio]
           IN  /\ Machine(m, th2) /\ Arranged(th, th2)
               /\ \A q \in Queues : Remains(th[q], th2[q], Pings(th, n), prio)
               /\ \A x \in DOMAIN prio : prio[x] \in 0..6
<1> DEFINE prio == [x \in Found(th, n) \ Pings(th, n) |-> x.prio]
           drop == Pings(th, n)
           th2 == Woken(st, th, n)
<1>1. \A x \in DOMAIN prio : prio[x] \in 0..6
  BY FoundAre DEF Known, Transaction
<1>2. th2 = [q \in Queues |-> Reduced(st, q, th[q], drop, prio)]
  BY DEF Woken
<1> HIDE DEF prio, drop, th2
<1>3. /\ Machine(m, th2) /\ Arranged(th, th2)
      /\ \A q \in Queues : Remains(th[q], th2[q], drop, prio)
  BY <1>1, <1>2, ReducedAll
<1> QED
  BY <1>1, <1>3 DEF prio, drop, th2

LEMMA ParkedKeeps ==
    ASSUME NEW m, NEW th, Machine(m, th), NEW n \in Node, NEW st
    PROVE  LET th2 == Parked(st, th, n)
               drop == Found(th, n) \ Movable(th, n)
               prio == [x \in Movable(th, n) |-> WakeUp]
           IN  /\ Machine(m, th2) /\ Arranged(th, th2)
               /\ \A q \in Queues : Remains(th[q], th2[q], drop, prio)
               /\ \A x \in DOMAIN prio : prio[x] \in 0..6
<1> DEFINE prio == [x \in Movable(th, n) |-> WakeUp]
           drop == Found(th, n) \ Movable(th, n)
           th2 == Parked(st, th, n)
<1>1. \A x \in DOMAIN prio : prio[x] \in 0..6
  BY DEF WakeUp
<1>2. th2 = [q \in Queues |-> Reduced(st, q, th[q], drop, prio)]
  BY DEF Parked
<1> HIDE DEF prio, drop, th2
<1>3. /\ Machine(m, th2) /\ Arranged(th, th2)
      /\ \A q \in Queues : Remains(th[q], th2[q], drop, prio)
  BY <1>1, <1>2, ReducedAll
<1> QED
  BY <1>1, <1>3 DEF prio, drop, th2

LEMMA RejectedKeeps ==
    ASSUME NEW m, NEW th, Machine(m, th), NEW st, NEW S
    PROVE  LET th2 == Rejected(st, th, S)
           IN  /\ Machine(m, th2) /\ Arranged(th, th2)
               /\ \A q \in Queues : Remains(th[q], th2[q], S, <<>>)
               /\ DOMAIN <<>> = {}
<1> DEFINE th2 == Rejected(st, th, S)
<1>1. DOMAIN <<>> = {}
  OBVIOUS
<1>2. th2 = [q \in Queues |-> Reduced(st, q, th[q], S, <<>>)]
  BY DEF Rejected
<1> HIDE DEF th2
<1>3. /\ Machine(m, th2) /\ Arranged(th, th2)
      /\ \A q \in Queues : Remains(th[q], th2[q], S, <<>>)
  BY <1>1, <1>2, ReducedAll
<1> QED
  BY <1>1, <1>3 DEF th2
-----------------------------------------------------------------------------
(* The inductive invariant.                                                *)

Outcomes == {"pending", "resolved", "rejected"}
Statuses == {"unknown", "asleep", "awake", "dead", "alive", "removed"}

(* m are the messages of the transactions created so far.                  *)
Typed(m) ==
    /\ m \in Seq(Messages) /\ Len(m) = Len(promise) /\ Len(m) <= MaxMessages
    /\ promise \in Seq(Outcomes)
    /\ started \in Seq(BOOLEAN) /\ Len(started) = Len(promise)
Around(m) ==
    /\ status \in [Node -> Statuses]
    /\ delayed \in [Node -> Seq(Known(m))]
    /\ \A n \in Node : \A x \in ToSet(delayed[n]) : x.msg.node = n
    /\ "busy" \notin Events => \A n \in Node : delayed[n] = <<>>
    /\ goodNight \in [Node -> 0..MaxMessages] /\ resets \in 0..MaxResets
    /\ expired \subseteq 1..Len(m)

NoneFailed(th) == \A q \in Queues : th[q].phase # "failed"

(* A thread that sends is in the Serial API queue, once.                   *)
SerialOK(ser, th) ==
    /\ ser \in Seq(Queues)
    /\ \A i, j \in 1..Len(ser) : ser[i] = ser[j] => i = j
    /\ \A q \in Queues : th[q].phase = "sending" <=> \E i \in 1..Len(ser) : ser[i] = q

(* A generator that was started belongs to a transaction that is at work:  *)
(* whenever a loop lets go of one, its generator is reset.                 *)
StartedOK(s, th) == \A t \in 1..Len(s) : s[t] => Works(th, t)

(* A transaction that nobody settled is queued, delayed, about to start,   *)
(* or at work with a generator that will settle it.  A transaction at work *)
(* whose generator was reset has a clone in one of the first three places. *)
HeldBy(t, s, th, d) ==
    \/ \E q \in Queues : \E x \in Fresh(th[q]) : x.t = t
    \/ \E n \in Node : \E x \in ToSet(d[n]) : x.t = t
    \/ s[t] /\ Works(th, t)

(* onNodeRemoved forgets what delayTransactionsForNode has put aside.      *)
BusyOrRemoval == ~({"busy", "removal"} \subseteq Events)
PendingHeld ==
    BusyOrRemoval => \A t \in 1..Len(promise) :
      promise[t] = "pending" => HeldBy(t, started, thread, delayed)

Core(m) ==
    /\ Typed(m) /\ Around(m)
    /\ Machine(m, thread) /\ NoneFailed(thread)
    /\ SerialOK(serial, thread) /\ StartedOK(started, thread)
    /\ PendingHeld

LEMMA SettleFacts ==
    ASSUME NEW p \in Seq(Outcomes), NEW S, NEW v \in Outcomes
    PROVE  /\ Settle(p, S, v) \in Seq(Outcomes) /\ Len(Settle(p, S, v)) = Len(p)
           /\ \A t \in 1..Len(p) : Settle(p, S, v)[t] =
                IF t \in S /\ p[t] = "pending" THEN v ELSE p[t]
<1>1. DOMAIN p = 1..Len(p) /\ Len(p) \in Nat /\ \A t \in 1..Len(p) : p[t] \in Outcomes
  OBVIOUS
<1>2. Settle(p, S, v) = [t \in 1..Len(p) |-> IF t \in S /\ p[t] = "pending" THEN v ELSE p[t]]
  BY <1>1 DEF Settle
<1>3. \A t \in 1..Len(p) : (IF t \in S /\ p[t] = "pending" THEN v ELSE p[t]) \in Outcomes
  BY <1>1
<1> HIDE DEF Outcomes
<1> QED
  BY <1>1, <1>2, <1>3

LEMMA UnsetFacts ==
    ASSUME NEW g \in Seq(BOOLEAN), NEW S
    PROVE  /\ Unset(g, S) \in Seq(BOOLEAN) /\ Len(Unset(g, S)) = Len(g)
           /\ \A t \in 1..Len(g) : Unset(g, S)[t] <=> g[t] /\ t \notin S
<1>1. DOMAIN g = 1..Len(g) /\ Len(g) \in Nat
  OBVIOUS
<1>2. Unset(g, S) = [t \in 1..Len(g) |-> g[t] /\ t \notin S]
  BY <1>1 DEF Unset
<1>3. \A t \in 1..Len(g) : (g[t] /\ t \notin S) \in BOOLEAN
  BY Zenon
<1>4. Unset(g, S) \in [1..Len(g) -> BOOLEAN]
  BY <1>2, <1>3, Zenon
<1>5. \A t \in 1..Len(g) : Unset(g, S)[t] <=> g[t] /\ t \notin S
  BY <1>2, Zenon
<1> DEFINE r == Unset(g, S)
<1> HIDE DEF r
<1>6. r \in Seq(BOOLEAN) /\ Len(r) = Len(g)
  BY <1>1, <1>4 DEF r
<1> QED
  BY <1>5, <1>6 DEF r

LEMMA CoreParts ==
    ASSUME NEW m, Core(m)
    PROVE  /\ Typed(m) /\ Around(m) /\ Machine(m, thread) /\ NoneFailed(thread)
           /\ SerialOK(serial, thread) /\ StartedOK(started, thread) /\ PendingHeld
           /\ \A q \in Queues : ThreadOK(q, m, thread[q])
           /\ \A n \in Node : delayed[n] \in Seq(Known(m))
BY DEF Core, Machine, Around

(* More transactions were created.                                         *)
LEMMA KnownGrows ==
    ASSUME NEW m \in Seq(Messages), NEW e \in Messages
    PROVE  /\ Known(m) \subseteq Known(Append(m, e))
           /\ \A q : In(q, m) \subseteq In(q, Append(m, e))
<1>1. Known(m) \subseteq Known(Append(m, e))
  BY DEF Known
<1> QED
  BY <1>1 DEF In

LEMMA SeqGrows ==
    ASSUME NEW S, NEW T, S \subseteq T
    PROVE  Seq(S) \subseteq Seq(T)
OBVIOUS

LEMMA ThreadGrows ==
    ASSUME NEW q, NEW m \in Seq(Messages), NEW e \in Messages, NEW th, ThreadOK(q, m, th)
    PROVE  ThreadOK(q, Append(m, e), th)
<1> DEFINE m2 == Append(m, e)
<1> HIDE DEF m2
<1>1. In(q, m) \subseteq In(q, m2) /\ Seq(In(q, m)) \subseteq Seq(In(q, m2))
  BY KnownGrows, SeqGrows DEF m2
<1>2. th \in Threads(q, m2)
  BY <1>1 DEF ThreadOK, Threads
<1> QED
  BY <1>2 DEF ThreadOK, m2

(* The number t is in a queue, or put aside for a busy node.               *)
There(t, th, d) ==
    \/ \E q \in Queues : \E x \in Fresh(th[q]) : x.t = t
    \/ \E n \in Node : \E x \in ToSet(d[n]) : x.t = t

(* A step that settles the promises in P and resets the generators in S.   *)
LEMMA SettlingStep ==
    ASSUME NEW m, Core(m), NEW P, NEW S, NEW v \in Outcomes \ {"pending"},
           promise' = Settle(promise, P, v), started' = Unset(started, S),
           Around(m)', Machine(m, thread'), NoneFailed(thread'), SerialOK(serial', thread'),
           \A t : started[t] /\ Works(thread, t) /\ t \notin S => Works(thread', t),
           \A t \in 1..Len(promise) :
             BusyOrRemoval /\ There(t, thread, delayed) /\ t \notin P =>
               There(t, thread', delayed') \/ (started[t] /\ Works(thread, t)),
           \A t \in 1..Len(promise) :
             t \in S \ P /\ started[t] /\ Works(thread, t) => There(t, thread', delayed')
    PROVE  Core(m)'
<1>1. /\ m \in Seq(Messages) /\ Len(m) = Len(promise) /\ Len(m) <= MaxMessages
      /\ promise \in Seq(Outcomes) /\ started \in Seq(BOOLEAN)
      /\ Len(started) = Len(promise)
  BY CoreParts DEF Typed
<1>2. /\ promise' \in Seq(Outcomes) /\ Len(promise') = Len(promise)
      /\ \A t \in 1..Len(promise) : promise'[t] =
           IF t \in P /\ promise[t] = "pending" THEN v ELSE promise[t]
  BY <1>1, SettleFacts
<1>3. /\ started' \in Seq(BOOLEAN) /\ Len(started') = Len(started)
      /\ \A t \in 1..Len(started) : started'[t] <=> started[t] /\ t \notin S
  BY <1>1, UnsetFacts
<1>4. Typed(m)'
  BY <1>1, <1>2, <1>3 DEF Typed
<1>5. StartedOK(started', thread')
  <2>1. \A t \in 1..Len(started) : started[t] => Works(thread, t)
    BY CoreParts DEF StartedOK
  <2> QED
    BY <1>3, <2>1 DEF StartedOK
<1>6. PendingHeld'
  <2> SUFFICES ASSUME BusyOrRemoval, NEW t \in 1..Len(promise), promise'[t] = "pending"
               PROVE  HeldBy(t, started, thread, delayed)'
    BY <1>2 DEF PendingHeld
  <2>1. promise[t] = "pending" /\ t \notin P
    BY <1>2
  <2>2. There(t, thread, delayed) \/ (started[t] /\ Works(thread, t))
    BY <2>1, CoreParts DEF PendingHeld, HeldBy, There
  <2>3. There(t, thread', delayed') \/ (started[t] /\ Works(thread, t))
    BY <2>1, <2>2
  <2>4. CASE There(t, thread', delayed')
    BY <2>4 DEF HeldBy, There
  <2>5. CASE started[t] /\ Works(thread, t)
    <3>1. CASE t \in S
      BY <2>1, <2>4, <2>5, <3>1
    <3>2. CASE t \notin S
      <4>1. started'[t] /\ Works(thread', t)
        BY <1>1, <1>3, <2>5, <3>2
      <4> QED
        BY <4>1 DEF HeldBy
    <3> QED
      BY <3>1, <3>2
  <2> QED
    BY <2>3, <2>4, <2>5
<1> QED
  BY <1>4, <1>5, <1>6 DEF Core

LEMMA NothingSettled ==
    ASSUME NEW m, Core(m)
    PROVE  promise = Settle(promise, {}, "resolved") /\ started = Unset(started, {})
<1>1. promise \in Seq(Outcomes) /\ started \in Seq(BOOLEAN)
  BY CoreParts DEF Typed
<1>2. promise = [t \in DOMAIN promise |-> promise[t]]
  BY <1>1
<1>3. promise = Settle(promise, {}, "resolved")
  BY <1>2 DEF Settle
<1>4. started \in [DOMAIN started -> BOOLEAN]
  BY <1>1
<1>5. Unset(started, {}) = [t \in DOMAIN started |-> started[t]]
  BY <1>4, Zenon DEF Unset
<1>6. started = [t \in DOMAIN started |-> started[t]]
  BY <1>4
<1> QED
  BY <1>3, <1>5, <1>6

LEMMA Aborted ==
    ASSUME NEW S, NEW v, Abort(S, v)
    PROVE  LET T == {t \in S : ~Runs(t)}
           IN  promise' = Settle(promise, T, v) /\ started' = Unset(started, T)
BY DEF Abort

(* A generator that runs is at work.                                       *)
LEMMA RunsWorks ==
    ASSUME NEW t, Runs(t)
    PROVE  started[t] /\ Works(thread, t)
BY DEF Runs, Works, AtWork

(* Both loops go on with what they work on.                                *)
LEMMA ArrangedStep ==
    ASSUME NEW m, Core(m), NEW P, NEW S, NEW v \in Outcomes \ {"pending"},
           promise' = Settle(promise, P, v), started' = Unset(started, S),
           Around(m)', Machine(m, thread'), Arranged(thread, thread'), serial' = serial,
           \A t \in 1..Len(promise) :
             BusyOrRemoval /\ There(t, thread, delayed) /\ t \notin P =>
               There(t, thread', delayed') \/ (started[t] /\ Works(thread, t)),
           \A t \in 1..Len(promise) :
             t \in S \ P /\ started[t] /\ Works(thread, t) => There(t, thread', delayed')
    PROVE  Core(m)'
<1>1. ASSUME NEW p \in Queues
      PROVE  /\ thread'[p].phase = "failed" <=> thread[p].phase = "failed"
             /\ thread'[p].phase = "sending" <=> thread[p].phase = "sending"
  <2>1. SameWork(thread[p], thread'[p])
    BY DEF Arranged
  <2> QED
    BY <2>1, SameWorkPhase
<1>2. NoneFailed(thread') /\ SerialOK(serial', thread')
  BY <1>1, CoreParts DEF NoneFailed, SerialOK
<1>3. \A t : Works(thread, t) => Works(thread', t)
  BY ArrangedWorks
<1> QED
  BY <1>2, <1>3, SettlingStep

LEMMA StatusOnly ==
    ASSUME NEW m, Core(m), UNCHANGED <<delayed, goodNight, resets, expired>>,
           status' \in [Node -> Statuses]
    PROVE  Around(m)'
BY CoreParts DEF Around

LEMMA StatusIs ==
    ASSUME NEW m, Core(m)
    PROVE  /\ status \in [Node -> Statuses]
           /\ \A n, s : s \in Statuses => [status EXCEPT ![n] = s] \in [Node -> Statuses]
           /\ \A n : Heard(n) \in [Node -> Statuses]
<1>1. status \in [Node -> Statuses]
  BY CoreParts DEF Around
<1>2. \A n, s : s \in Statuses => [status EXCEPT ![n] = s] \in [Node -> Statuses]
  BY <1>1
<1>3. "alive" \in Statuses
  BY DEF Statuses
<1> QED
  BY <1>1, <1>2, <1>3 DEF Heard
-----------------------------------------------------------------------------
(* sendMessage                                                             *)

LEMMA EnqueueKeeps ==
    ASSUME NEW m, Core(m), NEW e \in Messages, Enqueue(e),
           UNCHANGED <<serial, status, delayed, resets, expired>>,
           goodNight' \in [Node -> 0..MaxMessages]
    PROVE  Core(Append(m, e))'
<1> DEFINE m2 == Append(m, e)
           n == Len(promise) + 1
           x == [t |-> n, msg |-> e, prio |-> Priority(e), orig |-> TRUE]
           q == QueueOf(e)
           old == thread[q]
           new == Added(status, q, old, <<x>>)
<1>1. /\ m \in Seq(Messages) /\ Len(m) = Len(promise) /\ promise \in Seq(Outcomes)
      /\ started \in Seq(BOOLEAN) /\ Len(started) = Len(promise)
  BY CoreParts DEF Typed
<1>2. /\ Len(promise) < MaxMessages /\ promise' = Append(promise, "pending")
      /\ started' = Append(started, FALSE)
      /\ thread' = [thread EXCEPT ![q] = new]
  BY DEF Enqueue
<1>3. /\ m2 \in Seq(Messages) /\ Len(m2) = n /\ m2[n] = e
      /\ \A t \in 1..Len(m) : m2[t] = m[t]
  BY <1>1
<1>4. Priority(e) \in 0..6
  BY ConstantsAssumption DEF Priority, WakeUp, ConstantsAssumption
<1>5. q \in Queues
  BY DEF QueueOf, Queues
<1>6. x \in In(q, m2)
  BY <1>1, <1>3, <1>4 DEF In, Known, Transaction
<1>7. \A p \in Queues : ThreadOK(p, m2, thread[p])
  BY <1>1, CoreParts, ThreadGrows
<1> HIDE DEF m2, x, q
<1>8. <<x>> \in Seq(In(q, m2)) /\ ToSet(<<x>>) = {x}
  BY <1>6 DEF ToSet
<1>9. ThreadOK(q, m2, new) /\ SameWork(old, new) /\ Fresh(new) = Fresh(old) \cup {x}
  <2>1. ThreadOK(q, m2, old)
    BY <1>5, <1>7
  <2> HIDE DEF old
  <2>2. new = Added(status, q, old, <<x>>)
    OBVIOUS
  <2> HIDE DEF new
  <2> DEFINE xs == <<x>>
  <2>3. xs \in Seq(In(q, m2)) /\ ToSet(xs) = {x} /\ new = Added(status, q, old, xs)
    BY <1>8, <2>2
  <2> HIDE DEF xs
  <2>4. ThreadOK(q, m2, new) /\ SameWork(old, new) /\ Fresh(new) = Fresh(old) \cup ToSet(xs)
    BY <2>1, <2>3, AddedKeeps
  <2> QED
    BY <2>3, <2>4 DEF old
<1> HIDE DEF new
<1>10. thread = [p \in Queues |-> thread[p]]
  BY CoreParts DEF Machine
<1>11. /\ thread'[q] = new /\ \A p \in Queues \ {q} : thread'[p] = thread[p]
       /\ thread' = [p \in Queues |-> thread'[p]]
  BY <1>2, <1>5, <1>10
<1>12. Machine(m2, thread') /\ Arranged(thread, thread')
  BY <1>7, <1>9, <1>11 DEF Machine, Arranged, SameWork
<1>13. Typed(m2)'
  <2>1. Len(promise') = n /\ promise' \in Seq(Outcomes)
    BY <1>1, <1>2 DEF Outcomes
  <2>2. Len(started') = n /\ started' \in Seq(BOOLEAN)
    BY <1>1, <1>2
  <2>3. n <= MaxMessages
    BY <1>1, <1>2, ConstantsAssumption DEF ConstantsAssumption
  <2> QED
    BY <1>3, <2>1, <2>2, <2>3 DEF Typed
<1>14. Around(m2)'
  <2>1. Known(m) \subseteq Known(m2) /\ Seq(Known(m)) \subseteq Seq(Known(m2))
    BY <1>1, KnownGrows, SeqGrows DEF m2
  <2>2. delayed' \in [Node -> Seq(Known(m2))]
    BY <2>1, CoreParts DEF Around
  <2>3. expired' \subseteq 1..Len(m2)
    BY <1>1, <1>3, CoreParts DEF Around
  <2> QED
    BY <2>2, <2>3, CoreParts DEF Around
<1>15. ASSUME NEW p \in Queues
       PROVE  /\ thread'[p].phase = "failed" <=> thread[p].phase = "failed"
              /\ thread'[p].phase = "sending" <=> thread[p].phase = "sending"
  <2>1. SameWork(thread[p], thread'[p])
    BY <1>12 DEF Arranged
  <2> QED
    BY <2>1, SameWorkPhase
<1>16. NoneFailed(thread') /\ SerialOK(serial', thread')
  BY <1>15, CoreParts DEF NoneFailed, SerialOK
<1>17. /\ \A t \in 1..Len(promise) : started'[t] = started[t] /\ promise'[t] = promise[t]
       /\ ~started'[n] /\ Len(started') = n /\ Len(promise') = n /\ n \in Nat
  <2>1. /\ \A t \in 1..Len(promise) : promise'[t] = promise[t]
        /\ Len(promise') = n /\ n \in Nat
    <3> HIDE DEF Outcomes
    <3>1. promise \in Seq({"pending", "resolved", "rejected"})
      BY <1>1 DEF Outcomes
    <3> QED
      BY <1>2, <3>1
  <2>2. Append(started, FALSE)[Len(started) + 1] = FALSE
    BY <1>1
  <2>3. Len(started') = n
    BY <1>1, <1>2
  <2>4. \A t \in 1..Len(started) : Append(started, FALSE)[t] = started[t]
    <3> DEFINE T == BOOLEAN
               no == FALSE
    <3>1. started \in Seq(T) /\ no \in T
      BY <1>1
    <3> HIDE DEF T, no
    <3>2. \A t \in 1..Len(started) : Append(started, no)[t] = started[t]
      BY <3>1, AppendProperties
    <3> QED
      BY <3>2, Zenon DEF no
  <2> QED
    BY <1>1, <1>2, <2>1, <2>2, <2>3, <2>4, Zenon
<1>18. StartedOK(started', thread')
  <2>1. ASSUME NEW t \in 1..n, started'[t] PROVE Works(thread', t)
    <3>1. t \in 1..Len(promise) /\ started[t]
      BY <1>17, <2>1
    <3>2. Works(thread, t)
      BY <1>1, <3>1, CoreParts DEF StartedOK
    <3> QED
      BY <1>12, <3>2, ArrangedWorks
  <2> QED
    BY <1>17, <2>1 DEF StartedOK
<1>19. PendingHeld'
  <2> SUFFICES ASSUME BusyOrRemoval, NEW t \in 1..n, promise'[t] = "pending"
               PROVE  HeldBy(t, started, thread, delayed)'
    BY <1>17 DEF PendingHeld
  <2>1. CASE t = n
    <3>1. x \in Fresh(thread'[q]) /\ x.t = n
      BY <1>9, <1>11 DEF x
    <3> QED
      BY <1>5, <2>1, <3>1 DEF HeldBy
  <2>2. CASE t \in 1..Len(promise)
    <3>1. HeldBy(t, started, thread, delayed)
      BY <1>17, <2>2, CoreParts DEF PendingHeld
    <3>2. \A p \in Queues : Fresh(thread[p]) \subseteq Fresh(thread'[p])
      BY <1>9, <1>11
    <3>3. Works(thread, t) => Works(thread', t)
      BY <1>12, ArrangedWorks
    <3> QED
      BY <1>17, <2>2, <3>1, <3>2, <3>3 DEF HeldBy
  <2> QED
    BY <1>17, <2>1, <2>2
<1>20. Core(m2)'
  BY <1>12, <1>13, <1>14, <1>16, <1>18, <1>19 DEF Core
<1> QED
  BY <1>20 DEF m2
-----------------------------------------------------------------------------
(* Steps that leave the queues alone.                                      *)

LEMMA QuietStep ==
    ASSUME NEW m, Core(m), NEW P, NEW v \in Outcomes \ {"pending"},
           promise' = Settle(promise, P, v), started' = Unset(started, P),
           status' \in [Node -> Statuses],
           UNCHANGED <<thread, serial, delayed, goodNight, resets, expired>>
    PROVE  Core(m)'
<1>1. Around(m)'
  BY StatusOnly
<1>2. Machine(m, thread') /\ Arranged(thread, thread')
  BY ArrangedSelf DEF Core
<1>3. \A t \in 1..Len(promise) : There(t, thread, delayed) => There(t, thread', delayed')
  OBVIOUS
<1>4. \A t \in 1..Len(promise) :
        BusyOrRemoval /\ There(t, thread, delayed) /\ t \notin P =>
          There(t, thread', delayed') \/ (started[t] /\ Works(thread, t))
  BY <1>3
<1>5. \A t \in 1..Len(promise) :
        t \in P \ P /\ started[t] /\ Works(thread, t) => There(t, thread', delayed')
  OBVIOUS
<1>6. serial' = serial
  OBVIOUS
<1> QED
  BY <1>1, <1>2, <1>4, <1>5, <1>6, ArrangedStep

LEMMA NodeSpeaksKeeps ==
    ASSUME NEW m, Core(m), NEW n \in Node, NodeSpeaks(n)
    PROVE  Core(m)'
<1>1. promise' = Settle(promise, {}, "resolved") /\ started' = Unset(started, {})
  BY NothingSettled DEF NodeSpeaks
<1>2. status' \in [Node -> Statuses]
  BY StatusIs DEF NodeSpeaks
<1>3. "resolved" \in Outcomes \ {"pending"}
  BY DEF Outcomes
<1> QED
  BY <1>1, <1>2, <1>3, QuietStep DEF NodeSpeaks

LEMMA PrematureUpdateKeeps ==
    ASSUME NEW m, Core(m), PrematureUpdate
    PROVE  Core(m)'
<1> DEFINE t == thread["normal"].active.t
           T == {u \in {t} : ~Runs(u)}
<1>1. Abort({t}, "resolved")
  BY DEF PrematureUpdate
<1>2. promise' = Settle(promise, T, "resolved") /\ started' = Unset(started, T)
  BY <1>1, Aborted
<1>3. status' \in [Node -> Statuses]
  BY StatusIs DEF PrematureUpdate
<1>4. "resolved" \in Outcomes \ {"pending"}
  BY DEF Outcomes
<1> HIDE DEF T
<1> QED
  BY <1>2, <1>3, <1>4, QuietStep DEF PrematureUpdate

LEMMA NodeInfoReceivedKeeps ==
    ASSUME NEW m, Core(m), NEW n \in Node, NodeInfoReceived(n)
    PROVE  Core(m)'
<1>1. PICK S : Abort(S, "resolved")
  BY DEF NodeInfoReceived
<1> DEFINE T == {u \in S : ~Runs(u)}
<1>2. promise' = Settle(promise, T, "resolved") /\ started' = Unset(started, T)
  BY <1>1, Aborted
<1>3. status' \in [Node -> Statuses]
  BY StatusIs DEF NodeInfoReceived
<1>4. "resolved" \in Outcomes \ {"pending"}
  BY DEF Outcomes
<1> HIDE DEF T
<1> QED
  BY <1>2, <1>3, <1>4, QuietStep DEF NodeInfoReceived
-----------------------------------------------------------------------------
(* Steps that rearrange the queues.                                        *)

(* What was fresh is still there unless it is dropped.                     *)
LEMMA ReducedThere ==
    ASSUME NEW m, NEW th, Machine(m, th), NEW th2, NEW drop, NEW prio,
           \A x \in DOMAIN prio : prio[x] \in 0..6,
           \A q \in Queues : Remains(th[q], th2[q], drop, prio), NEW d
    PROVE  /\ \A t : There(t, th, d) => There(t, th2, d) \/ t \in Numbers(drop \ DOMAIN prio)
           /\ \A q \in Queues : \A x \in Elements(th[q]) \cap DOMAIN prio : There(x.t, th2, d)
<1>1. ASSUME NEW q \in Queues
      PROVE  /\ \A x \in Fresh(th[q]) : (x \in drop => x \in DOMAIN prio) =>
                  There(x.t, th2, d)
             /\ \A x \in Elements(th[q]) \cap DOMAIN prio : There(x.t, th2, d)
  <2> DEFINE old == th[q]
             new == th2[q]
  <2>1. ThreadOK(q, m, old) /\ Remains(old, new, drop, prio)
    BY DEF Machine
  <2>2. \A x : (\E y \in Fresh(new) : y.t = x.t) => There(x.t, th2, d)
    BY DEF There
  <2> HIDE DEF old, new
  <2>3. /\ \A x \in Fresh(old) : (x \in drop => x \in DOMAIN prio) =>
             \E y \in Fresh(new) : y.t = x.t
        /\ \A x \in Elements(old) \cap DOMAIN prio : \E y \in Fresh(new) : y.t = x.t
    BY <2>1, RemainsThere
  <2> QED
    BY <2>2, <2>3 DEF old
<1>2. ASSUME NEW t, There(t, th, d)
      PROVE  There(t, th2, d) \/ t \in Numbers(drop \ DOMAIN prio)
  <2>1. CASE \E n \in Node : \E x \in ToSet(d[n]) : x.t = t
    BY <2>1 DEF There
  <2>2. CASE \E q \in Queues : \E x \in Fresh(th[q]) : x.t = t
    <3>1. PICK q \in Queues : \E x \in Fresh(th[q]) : x.t = t
      BY <2>2
    <3>2. PICK x \in Fresh(th[q]) : x.t = t
      BY <3>1
    <3>3. CASE x \in drop \ DOMAIN prio
      BY <3>2, <3>3 DEF Numbers
    <3>4. CASE x \in drop => x \in DOMAIN prio
      BY <1>1, <3>2, <3>4
    <3> QED
      BY <3>3, <3>4
  <2> QED
    BY <1>2, <2>1, <2>2 DEF There
<1> QED
  BY <1>1, <1>2

LEMMA NodeWakesKeeps ==
    ASSUME NEW m, Core(m), NEW n \in Node, NodeWakes(n)
    PROVE  Core(m)'
<1> DEFINE drop == Pings(thread, n)
           prio == [x \in Found(thread, n) \ Pings(thread, n) |-> x.prio]
           T == {t \in Numbers(drop) : ~Runs(t)}
           st == [status EXCEPT ![n] = "awake"]
<1>1. Machine(m, thread)
  BY DEF Core
<1>2. /\ thread' = Woken(st, thread, n) /\ status' = st
      /\ Abort(Numbers(drop), "resolved")
      /\ UNCHANGED <<serial, delayed, goodNight, resets, expired>>
  BY DEF NodeWakes
<1>3. promise' = Settle(promise, T, "resolved") /\ started' = Unset(started, T)
  BY <1>2, Aborted
<1>4. status' \in [Node -> Statuses]
  BY <1>2, StatusIs DEF Statuses
<1>5. "resolved" \in Outcomes \ {"pending"}
  BY DEF Outcomes
<1> HIDE DEF st
<1>6. /\ Machine(m, thread') /\ Arranged(thread, thread')
      /\ \A q \in Queues : Remains(thread[q], thread'[q], drop, prio)
      /\ \A x \in DOMAIN prio : prio[x] \in 0..6
  BY <1>1, <1>2, WokenKeeps
<1> HIDE DEF prio, drop
<1>7. \A t : There(t, thread, delayed) => There(t, thread', delayed) \/ t \in Numbers(drop)
  <2>1. \A t : There(t, thread, delayed) =>
          There(t, thread', delayed) \/ t \in Numbers(drop \ DOMAIN prio)
    BY <1>1, <1>6, ReducedThere
  <2> QED
    BY <2>1 DEF Numbers
<1>8. \A t \in 1..Len(promise) :
        BusyOrRemoval /\ There(t, thread, delayed) /\ t \notin T =>
          There(t, thread', delayed') \/ (started[t] /\ Works(thread, t))
  BY <1>2, <1>7, RunsWorks
<1> HIDE DEF T
<1>9. Around(m)'
  BY <1>2, <1>4, StatusOnly
<1> QED
  BY <1>2, <1>3, <1>5, <1>6, <1>8, <1>9, ArrangedStep

LEMMA RejectingStep ==
    ASSUME NEW m, Core(m), NEW S, NEW st, thread' = Rejected(st, thread, S),
           Abort(Numbers(S), "rejected"), serial' = serial, Around(m)',
           BusyOrRemoval => delayed' = delayed
    PROVE  Core(m)'
<1> DEFINE T == {t \in Numbers(S) : ~Runs(t)}
<1>1. Machine(m, thread)
  BY DEF Core
<1>2. promise' = Settle(promise, T, "rejected") /\ started' = Unset(started, T)
  BY Aborted
<1>3. "rejected" \in Outcomes \ {"pending"}
  BY DEF Outcomes
<1>4. /\ Machine(m, thread') /\ Arranged(thread, thread')
      /\ \A q \in Queues : Remains(thread[q], thread'[q], S, <<>>)
  BY <1>1, RejectedKeeps
<1>5. \A t : There(t, thread, delayed) => There(t, thread', delayed) \/ t \in Numbers(S)
  <2> DEFINE none == <<>>
  <2>1. DOMAIN none = {} /\ \A q \in Queues : Remains(thread[q], thread'[q], S, none)
    BY <1>4
  <2> HIDE DEF none
  <2>2. \A t : There(t, thread, delayed) =>
          There(t, thread', delayed) \/ t \in Numbers(S \ DOMAIN none)
    BY <1>1, <2>1, ReducedThere
  <2> QED
    BY <2>1, <2>2
<1>6. \A t \in 1..Len(promise) :
        BusyOrRemoval /\ There(t, thread, delayed) /\ t \notin T =>
          There(t, thread', delayed') \/ (started[t] /\ Works(thread, t))
  BY <1>5, RunsWorks
<1> HIDE DEF T
<1> QED
  BY <1>2, <1>3, <1>4, <1>6, ArrangedStep

LEMMA ExpireKeeps ==
    ASSUME NEW m, Core(m), NEW t \in DOMAIN promise, Expire(t)
    PROVE  Core(m)'
<1>1. PICK S : /\ thread' = Rejected(status, thread, S)
               /\ Abort(Numbers(S), "rejected")
  BY DEF Expire
<1>2. expired' \subseteq 1..Len(m)
  BY CoreParts DEF Expire, Around, Typed
<1>3. Around(m)'
  BY <1>2, CoreParts DEF Expire, Around
<1>4. serial' = serial /\ delayed' = delayed
  BY DEF Expire
<1> QED
  BY <1>1, <1>3, <1>4, RejectingStep

LEMMA NodeRemovedKeeps ==
    ASSUME NEW m, Core(m), NEW n \in Node, NodeRemoved(n)
    PROVE  Core(m)'
<1> DEFINE S == Found(thread, n)
<1>1. thread' = Rejected(status', thread, S) /\ Abort(Numbers(S), "rejected")
  BY DEF NodeRemoved
<1>2. status' \in [Node -> Statuses]
  BY StatusIs DEF NodeRemoved, Statuses
<1>3. delayed' = [delayed EXCEPT ![n] = <<>>] /\ delayed \in [Node -> Seq(Known(m))]
  BY CoreParts DEF NodeRemoved, Around
<1>4. delayed' \in [Node -> Seq(Known(m))]
  <2>1. <<>> \in Seq(Known(m))
    OBVIOUS
  <2> QED
    BY <1>3, <2>1
<1>5. \A k \in Node : delayed'[k] = delayed[k] \/ delayed'[k] = <<>>
  BY <1>3
<1>6. \A k \in Node : \A x \in ToSet(delayed'[k]) : x.msg.node = k
  <2>1. ToSet(<<>>) = {}
    BY DEF ToSet
  <2>2. \A k \in Node : \A x \in ToSet(delayed[k]) : x.msg.node = k
    BY CoreParts DEF Around
  <2> QED
    BY <1>5, <2>1, <2>2
<1>7. "busy" \notin Events => \A k \in Node : delayed[k] = <<>>
  BY CoreParts DEF Around
<1>8. Around(m)'
  BY <1>2, <1>4, <1>5, <1>6, <1>7, CoreParts DEF NodeRemoved, Around
<1>9. BusyOrRemoval => delayed' = delayed
  BY <1>3, <1>7 DEF BusyOrRemoval, NodeRemoved
<1>10. serial' = serial
  BY DEF NodeRemoved
<1> HIDE DEF S
<1> QED
  BY <1>1, <1>8, <1>9, <1>10, RejectingStep

(* What moveMessagesToWakeupQueue keeps has a clone.                       *)
LEMMA ParkedThere ==
    ASSUME NEW m, NEW th, Machine(m, th), NEW n \in Node, NEW st, NEW d,
           NEW th2, th2 = Parked(st, th, n)
    PROVE  /\ Machine(m, th2) /\ Arranged(th, th2)
           /\ \A t : There(t, th, d) =>
                There(t, th2, d) \/ t \in Numbers(Found(th, n) \ Movable(th, n))
           /\ \A t \in Moved(th, n) : There(t, th2, d)
<1> DEFINE drop == Found(th, n) \ Movable(th, n)
           prio == [x \in Movable(th, n) |-> WakeUp]
<1>1. /\ Machine(m, th2) /\ Arranged(th, th2)
      /\ \A q \in Queues : Remains(th[q], th2[q], drop, prio)
      /\ \A x \in DOMAIN prio : prio[x] \in 0..6
  BY ParkedKeeps
<1>2. DOMAIN prio = Movable(th, n)
  OBVIOUS
<1>3. \A x \in Movable(th, n) : \E q \in Queues : x \in Elements(th[q])
  BY FoundAre DEF Movable
<1> HIDE DEF drop, prio
<1>4. /\ \A t : There(t, th, d) => There(t, th2, d) \/ t \in Numbers(drop \ DOMAIN prio)
      /\ \A q \in Queues : \A x \in Elements(th[q]) \cap DOMAIN prio : There(x.t, th2, d)
  BY <1>1, ReducedThere
<1>5. \A t \in Moved(th, n) : There(t, th2, d)
  BY <1>2, <1>3, <1>4 DEF Moved, Numbers
<1>6. Numbers(drop \ DOMAIN prio) \subseteq Numbers(drop)
  BY DEF Numbers
<1>7. \A t : There(t, th, d) => There(t, th2, d) \/ t \in Numbers(drop)
  BY <1>4, <1>6
<1> QED
  BY <1>1, <1>5, <1>7 DEF drop

LEMMA FallAsleepKeeps ==
    ASSUME NEW m, Core(m), NEW n \in Node, FallAsleep(n)
    PROVE  Core(m)'
<1>1. "rejected" \in Outcomes \ {"pending"} /\ "resolved" \in Outcomes \ {"pending"}
  BY DEF Outcomes
<1>2. goodNight' \in [Node -> 0..MaxMessages] /\ UNCHANGED <<serial, delayed, resets, expired>>
  BY CoreParts, ConstantsAssumption DEF FallAsleep, Around, ConstantsAssumption
<1>3. CASE status[n] = "awake"
  <2> DEFINE P == Dropped(thread, n)
             S == P \cup Moved(thread, n)
             st == [status EXCEPT ![n] = "asleep"]
  <2>1. /\ status' = st /\ thread' = Parked(st, thread, n)
        /\ promise' = Settle(promise, P, "rejected") /\ started' = Unset(started, S)
    BY <1>3 DEF FallAsleep
  <2>2. status' \in [Node -> Statuses]
    BY <2>1, StatusIs DEF Statuses
  <2>3. Around(m)'
    BY <1>2, <2>2, CoreParts DEF Around
  <2>4. Machine(m, thread)
    BY DEF Core
  <2> HIDE DEF st
  <2>5. /\ Machine(m, thread') /\ Arranged(thread, thread')
        /\ \A t : There(t, thread, delayed) => There(t, thread', delayed)
             \/ t \in Numbers(Found(thread, n) \ Movable(thread, n))
        /\ \A t \in Moved(thread, n) : There(t, thread', delayed)
    BY <2>1, <2>4, ParkedThere
  <2>6. \A t \in 1..Len(promise) :
          BusyOrRemoval /\ There(t, thread, delayed) /\ t \notin P =>
            There(t, thread', delayed') \/ (started[t] /\ Works(thread, t))
    BY <1>2, <2>5, RunsWorks DEF Dropped
  <2>7. \A t \in 1..Len(promise) :
          t \in S \ P /\ started[t] /\ Works(thread, t) => There(t, thread', delayed')
    BY <1>2, <2>5
  <2> HIDE DEF P, S
  <2> QED
    BY <1>1, <1>2, <2>1, <2>3, <2>5, <2>6, <2>7, ArrangedStep
<1>4. CASE status[n] # "awake"
  <2>1. UNCHANGED <<status, thread, promise, started>>
    BY <1>4 DEF FallAsleep
  <2>2. Around(m)'
    BY <1>2, <2>1, CoreParts DEF Around
  <2>3. promise' = Settle(promise, {}, "resolved") /\ started' = Unset(started, {})
    BY <2>1, NothingSettled
  <2>4. Machine(m, thread') /\ Arranged(thread, thread')
    BY <2>1, ArrangedSelf DEF Core
  <2>5. \A t \in 1..Len(promise) :
          BusyOrRemoval /\ There(t, thread, delayed) /\ t \notin {} =>
            There(t, thread', delayed') \/ (started[t] /\ Works(thread, t))
    BY <1>2, <2>1
  <2>6. \A t \in 1..Len(promise) :
          t \in {} \ {} /\ started[t] /\ Works(thread, t) => There(t, thread', delayed')
    OBVIOUS
  <2> QED
    BY <1>1, <1>2, <2>2, <2>3, <2>4, <2>5, <2>6, ArrangedStep
<1> QED
  BY <1>3, <1>4

LEMMA BothLists ==
    ASSUME NEW T, NEW a \in Seq(T), NEW b \in Seq(T)
    PROVE  a \o b \in Seq(T) /\ ToSet(a \o b) = ToSet(a) \cup ToSet(b)
<1>1. /\ a \o b \in Seq(T) /\ Len(a \o b) = Len(a) + Len(b)
      /\ \A i \in 1..Len(a) : (a \o b)[i] = a[i]
      /\ \A i \in 1..Len(b) : (a \o b)[Len(a) + i] = b[i]
      /\ \A i \in 1..(Len(a) + Len(b)) : i \in 1..Len(a) \/
           (i - Len(a) \in 1..Len(b) /\ (a \o b)[i] = b[i - Len(a)])
  OBVIOUS
<1> DEFINE c == a \o b
<1> HIDE DEF c
<1>2. ToSet(c) = {c[i] : i \in 1..(Len(a) + Len(b))}
  BY <1>1, ToSetType DEF c
<1>3. ToSet(a) = {a[i] : i \in 1..Len(a)} /\ ToSet(b) = {b[i] : i \in 1..Len(b)}
  BY ToSetType
<1>4. ToSet(c) \subseteq ToSet(a) \cup ToSet(b)
  BY <1>1, <1>2, <1>3 DEF c
<1>5. \A i \in 1..Len(b) : Len(a) + i \in 1..(Len(a) + Len(b))
  OBVIOUS
<1>6. \A i \in 1..Len(a) : i \in 1..(Len(a) + Len(b))
  OBVIOUS
<1>7. ToSet(a) \subseteq ToSet(c)
  BY <1>1, <1>2, <1>3, <1>6 DEF c
<1>8. ToSet(b) \subseteq ToSet(c)
  BY <1>1, <1>2, <1>3, <1>5 DEF c
<1> QED
  BY <1>1, <1>4, <1>7, <1>8 DEF c

LEMMA SubType ==
    ASSUME NEW T, NEW s \in Seq(T), NEW U, ToSet(s) \subseteq U
    PROVE  s \in Seq(U)
<1>1. \A i \in 1..Len(s) : s[i] \in U
  BY ToSetType
<1> QED
  BY <1>1

LEMMA NodeBusyKeeps ==
    ASSUME NEW m, Core(m), NEW n \in Node, NodeBusy(n)
    PROVE  Core(m)'
<1> DEFINE found == Found(thread, n)
           a == thread["immediate"].list
           b == thread["normal"].list
           queued == Only(a \o b, found)
           left(q) == Only(thread[q].list, ToSet(thread[q].list) \ found)
           th1(q) == [thread[q] EXCEPT !.list = left(q)]
<1>1. /\ delayed[n] = <<>> /\ delayed' = [delayed EXCEPT ![n] = queued]
      /\ thread' = [q \in Queues |-> Triggered(status, q, th1(q))]
      /\ "busy" \in Events
      /\ UNCHANGED <<promise, started, serial, status, goodNight, resets, expired>>
  BY DEF NodeBusy
<1>2. Machine(m, thread) /\ \A q \in Queues : ThreadOK(q, m, thread[q])
  BY CoreParts
<1>3. ASSUME NEW q \in Queues
      PROVE  /\ thread[q].list \in Seq(In(q, m)) /\ left(q) \in Seq(In(q, m))
             /\ ToSet(left(q)) = ToSet(thread[q].list) \ found
  <2>1. thread[q].list \in Seq(In(q, m))
    BY <1>2, ThreadFields
  <2> DEFINE old == thread[q].list
             keep == ToSet(old) \ found
  <2> HIDE DEF old, keep, found
  <2>2. Only(old, keep) \in Seq(In(q, m)) /\ ToSet(Only(old, keep)) = ToSet(old) \cap keep
    BY <2>1, OnlyFacts DEF old
  <2> QED
    BY <2>1, <2>2 DEF old, keep
<1>4. ASSUME NEW q \in Queues
      PROVE  /\ ThreadOK(q, m, thread'[q]) /\ SameWork(thread[q], thread'[q])
             /\ Fresh(thread'[q]) = (ToSet(thread[q].list) \ found)
                  \cup (IF thread[q].phase = "starting" THEN {thread[q].active} ELSE {})
  <2> DEFINE old == thread[q]
             l == left(q)
             mid == [old EXCEPT !.list = l]
             new == Triggered(status, q, mid)
  <2>1. thread'[q] = new
    BY <1>1
  <2>2. ThreadOK(q, m, old) /\ l \in Seq(In(q, m))
    BY <1>2, <1>3
  <2> HIDE DEF old, l
  <2>3. /\ ThreadOK(q, m, mid) /\ SameWork(old, mid)
        /\ Fresh(mid) = ToSet(l) \cup (IF old.phase = "starting" THEN {old.active} ELSE {})
    BY <2>2, ListKeeps
  <2> HIDE DEF mid
  <2>4. ThreadOK(q, m, new) /\ SameWork(mid, new) /\ Fresh(new) = Fresh(mid)
    BY <2>3, TriggeredKeeps
  <2> HIDE DEF new
  <2>5. SameWork(old, new)
    BY <2>3, <2>4, SameWorkTwice
  <2> QED
    BY <1>3, <2>1, <2>3, <2>4, <2>5 DEF old, l
<1>5. thread' = [q \in Queues |-> thread'[q]]
  BY <1>1
<1>6. Machine(m, thread') /\ Arranged(thread, thread')
  BY <1>4, <1>5 DEF Machine, Arranged
<1>7. \A q \in Queues : Seq(In(q, m)) \subseteq Seq(Known(m))
  BY SeqGrows DEF In
<1>8. a \in Seq(Known(m)) /\ b \in Seq(Known(m))
  BY <1>3, <1>7 DEF Queues
<1>9. /\ queued \in Seq(Known(m))
      /\ ToSet(queued) = (ToSet(a) \cup ToSet(b)) \cap found
  <2> DEFINE both == a \o b
  <2> HIDE DEF a, b
  <2>1. both \in Seq(Known(m)) /\ ToSet(both) = ToSet(a) \cup ToSet(b)
    BY <1>8, BothLists
  <2> HIDE DEF both, found
  <2>2. Only(both, found) \in Seq(Known(m)) /\ ToSet(Only(both, found)) = ToSet(both) \cap found
    BY <2>1, OnlyFacts
  <2> QED
    BY <2>1, <2>2 DEF both
<1>10. delayed \in [Node -> Seq(Known(m))]
  BY CoreParts DEF Around
<1> HIDE DEF queued
<1>11. /\ delayed' \in [Node -> Seq(Known(m))] /\ delayed'[n] = queued
       /\ \A k \in Node \ {n} : delayed'[k] = delayed[k]
  BY <1>1, <1>9, <1>10
<1>12. \A x \in found : x.msg.node = n
  BY <1>2, FoundAre
<1>13. \A k \in Node : \A x \in ToSet(delayed'[k]) : x.msg.node = k
  BY <1>9, <1>11, <1>12, CoreParts DEF Around
<1>14. Around(m)'
  BY <1>1, <1>11, <1>13, CoreParts DEF Around
<1>15. ASSUME NEW t, There(t, thread, delayed)
       PROVE  There(t, thread', delayed')
  <2>1. CASE \E k \in Node : \E x \in ToSet(delayed[k]) : x.t = t
    <3>1. ToSet(<<>>) = {}
      BY DEF ToSet
    <3>2. \E k \in Node \ {n} : \E x \in ToSet(delayed[k]) : x.t = t
      BY <1>1, <2>1, <3>1
    <3> QED
      BY <1>11, <3>2 DEF There
  <2>2. CASE \E q \in Queues : \E x \in Fresh(thread[q]) : x.t = t
    <3>1. PICK q \in Queues : \E x \in Fresh(thread[q]) : x.t = t
      BY <2>2
    <3>2. PICK x \in Fresh(thread[q]) : x.t = t
      BY <3>1
    <3>3. CASE x \in Fresh(thread'[q])
      BY <3>2, <3>3 DEF There
    <3>4. CASE x \notin Fresh(thread'[q])
      <4>1. x \in ToSet(thread[q].list) \cap found
        BY <1>4, <3>4 DEF Fresh
      <4>2. x \in ToSet(queued)
        BY <1>9, <4>1 DEF Queues
      <4> QED
        BY <1>11, <3>2, <4>2 DEF There
    <3> QED
      BY <3>3, <3>4
  <2> QED
    BY <1>15, <2>1, <2>2 DEF There
<1>16. promise' = Settle(promise, {}, "resolved") /\ started' = Unset(started, {})
  BY <1>1, NothingSettled
<1>17. \A t \in 1..Len(promise) :
         BusyOrRemoval /\ There(t, thread, delayed) /\ t \notin {} =>
           There(t, thread', delayed') \/ (started[t] /\ Works(thread, t))
  BY <1>15
<1>18. \A t \in 1..Len(promise) :
         t \in {} \ {} /\ started[t] /\ Works(thread, t) => There(t, thread', delayed')
  OBVIOUS
<1>19. "resolved" \in Outcomes \ {"pending"}
  BY DEF Outcomes
<1> QED
  BY <1>1, <1>6, <1>14, <1>16, <1>17, <1>18, <1>19, ArrangedStep

(* The clones of what was put aside.                                       *)
LEMMA ClonesFacts ==
    ASSUME NEW m, NEW d \in Seq(Known(m)), NEW c, c = [i \in DOMAIN d |-> Clone(d[i])]
    PROVE  /\ c \in Seq(Known(m)) /\ Len(c) = Len(d)
           /\ \A i \in 1..Len(d) : c[i].t = d[i].t /\ c[i].msg = d[i].msg
                                   /\ c[i].prio = d[i].prio
<1>1. DOMAIN d = 1..Len(d) /\ Len(d) \in Nat /\ \A i \in 1..Len(d) : d[i] \in Known(m)
  OBVIOUS
<1>2. \A x \in Known(m) : /\ Clone(x) \in Known(m) /\ Clone(x).t = x.t
                          /\ Clone(x).msg = x.msg /\ Clone(x).prio = x.prio
  BY DEF Known, Clone, Transaction
<1>3. c = [i \in 1..Len(d) |-> Clone(d[i])] /\ \A i \in 1..Len(d) : Clone(d[i]) \in Known(m)
  BY <1>1, <1>2
<1>4. c \in Seq(Known(m)) /\ Len(c) = Len(d) /\ \A i \in 1..Len(d) : c[i] = Clone(d[i])
  BY <1>1, <1>3
<1> QED
  BY <1>1, <1>2, <1>4

LEMMA DelayEndsKeeps ==
    ASSUME NEW m, Core(m), NEW n \in Node, DelayEnds(n)
    PROVE  Core(m)'
<1> DEFINE d == delayed[n]
           clones == [i \in DOMAIN d |-> Clone(d[i])]
           S(q) == {x \in ToSet(clones) : QueueOf(x.msg) = q}
           xs(q) == Only(clones, S(q))
<1>1. /\ delayed' = [delayed EXCEPT ![n] = <<>>]
      /\ thread' = [q \in Queues |-> Added(status, q, thread[q], xs(q))]
      /\ UNCHANGED <<promise, started, serial, status, goodNight, resets, expired>>
  BY DEF DelayEnds
<1>2. Machine(m, thread) /\ \A q \in Queues : ThreadOK(q, m, thread[q])
  BY CoreParts
<1>3. delayed \in [Node -> Seq(Known(m))] /\ d \in Seq(Known(m))
  BY CoreParts DEF Around
<1> HIDE DEF d
<1>4. /\ clones \in Seq(Known(m)) /\ Len(clones) = Len(d)
      /\ \A i \in 1..Len(d) : clones[i].t = d[i].t /\ clones[i].msg = d[i].msg
  BY <1>3, ClonesFacts
<1> HIDE DEF clones
<1>5. ASSUME NEW q \in Queues
      PROVE  /\ xs(q) \in Seq(In(q, m)) /\ ToSet(xs(q)) = S(q)
  <2> DEFINE U == S(q)
             r == Only(clones, U)
  <2>1. U \subseteq ToSet(clones) /\ \A x \in U : QueueOf(x.msg) = q
    OBVIOUS
  <2> HIDE DEF U
  <2>2. r \in Seq(Known(m)) /\ ToSet(r) = ToSet(clones) \cap U
    BY <1>4, OnlyFacts
  <2> HIDE DEF r
  <2>3. ToSet(clones) \subseteq Known(m)
    BY <1>4, ToSetType
  <2>4. ToSet(r) \subseteq In(q, m)
    BY <2>1, <2>2, <2>3 DEF In
  <2>5. r \in Seq(In(q, m))
    BY <2>2, <2>4, SubType
  <2> QED
    BY <2>1, <2>2, <2>5 DEF r, U
<1>6. ASSUME NEW q \in Queues
      PROVE  /\ ThreadOK(q, m, thread'[q]) /\ SameWork(thread[q], thread'[q])
             /\ Fresh(thread'[q]) = Fresh(thread[q]) \cup S(q)
  <2> DEFINE old == thread[q]
             more == xs(q)
             new == Added(status, q, old, more)
  <2>1. thread'[q] = new
    BY <1>1
  <2>2. ThreadOK(q, m, old) /\ more \in Seq(In(q, m))
    BY <1>2, <1>5
  <2> HIDE DEF old, more
  <2>3. new = Added(status, q, old, more)
    OBVIOUS
  <2> HIDE DEF new
  <2>4. ThreadOK(q, m, new) /\ SameWork(old, new) /\ Fresh(new) = Fresh(old) \cup ToSet(more)
    BY <2>2, <2>3, AddedKeeps
  <2> QED
    BY <1>5, <2>1, <2>4 DEF old, more
<1>7. thread' = [q \in Queues |-> thread'[q]]
  BY <1>1
<1>8. Machine(m, thread') /\ Arranged(thread, thread')
  BY <1>6, <1>7 DEF Machine, Arranged
<1>9. delayed' \in [Node -> Seq(Known(m))]
  <2>1. <<>> \in Seq(Known(m))
    OBVIOUS
  <2> QED
    BY <1>1, <1>3, <2>1
<1>10. \A k \in Node : delayed'[k] = <<>> \/ (k # n /\ delayed'[k] = delayed[k])
  BY <1>1, <1>3
<1>11. \A k \in Node : \A x \in ToSet(delayed'[k]) : x.msg.node = k
  <2>1. ToSet(<<>>) = {}
    BY DEF ToSet
  <2> QED
    BY <1>10, <2>1, CoreParts DEF Around
<1>12. "busy" \notin Events => \A k \in Node : delayed'[k] = <<>>
  BY <1>10, CoreParts DEF Around
<1>13. Around(m)'
  BY <1>1, <1>9, <1>11, <1>12, CoreParts DEF Around
<1>14. ASSUME NEW t, There(t, thread, delayed)
       PROVE  There(t, thread', delayed')
  <2>1. CASE \E q \in Queues : \E x \in Fresh(thread[q]) : x.t = t
    BY <1>6, <2>1 DEF There
  <2>2. CASE \E k \in Node : \E x \in ToSet(delayed[k]) : x.t = t
    <3>1. PICK k \in Node : \E x \in ToSet(delayed[k]) : x.t = t
      BY <2>2
    <3>2. CASE k # n
      <4>1. delayed'[k] = delayed[k]
        BY <1>1, <1>3, <3>2
      <4> QED
        BY <3>1, <4>1 DEF There
    <3>3. CASE k = n
      <4>1. ToSet(d) = {d[i] : i \in 1..Len(d)}
        BY <1>3, ToSetType
      <4>2. PICK i \in 1..Len(d) : d[i].t = t
        BY <3>1, <3>3, <4>1 DEF d
      <4>3. clones[i] \in ToSet(clones) /\ clones[i] \in Known(m) /\ clones[i].t = t
        <5>1. ToSet(clones) = {clones[j] : j \in 1..Len(d)} /\ ToSet(clones) \subseteq Known(m)
          BY <1>4, ToSetType
        <5> QED
          BY <1>4, <4>2, <5>1
      <4>4. QueueOf(clones[i].msg) \in Queues
        BY DEF QueueOf, Queues
      <4>5. clones[i] \in S(QueueOf(clones[i].msg))
        BY <4>3
      <4> QED
        BY <1>6, <4>3, <4>4, <4>5 DEF There
    <3> QED
      BY <3>2, <3>3
  <2> QED
    BY <1>14, <2>1, <2>2 DEF There
<1>15. promise' = Settle(promise, {}, "resolved") /\ started' = Unset(started, {})
  BY <1>1, NothingSettled
<1>16. \A t \in 1..Len(promise) :
         BusyOrRemoval /\ There(t, thread, delayed) /\ t \notin {} =>
           There(t, thread', delayed') \/ (started[t] /\ Works(thread, t))
  BY <1>14
<1>17. \A t \in 1..Len(promise) :
         t \in {} \ {} /\ started[t] /\ Works(thread, t) => There(t, thread', delayed')
  OBVIOUS
<1>18. "resolved" \in Outcomes \ {"pending"}
  BY DEF Outcomes
<1> QED
  BY <1>1, <1>8, <1>13, <1>15, <1>16, <1>17, <1>18, ArrangedStep
-----------------------------------------------------------------------------
(* The loop of a queue goes from one phase to the next.                    *)

(* A step of one loop that is no longer in the Serial API queue.           *)
Turn(q, th, th2) == \A p \in Queues \ {q} : SameWork(th[p], th2[p])

LEMMA SerialGets ==
    ASSUME NEW q \in Queues, NoneFailed(thread), SerialOK(serial, thread),
           thread[q].phase # "sending", NEW th2, Turn(q, thread, th2),
           th2[q].phase = "sending"
    PROVE  NoneFailed(th2) /\ SerialOK(Append(serial, q), th2)
<1>1. \A p \in Queues \ {q} : /\ th2[p].phase = "failed" <=> thread[p].phase = "failed"
                              /\ th2[p].phase = "sending" <=> thread[p].phase = "sending"
  BY SameWorkPhase DEF Turn
<1>2. /\ serial \in Seq(Queues)
      /\ \A i, j \in 1..Len(serial) : serial[i] = serial[j] => i = j
      /\ \A p \in Queues : thread[p].phase = "sending" <=> \E i \in 1..Len(serial) : serial[i] = p
  BY DEF SerialOK
<1> DEFINE s == Append(serial, q)
<1>3. /\ s \in Seq(Queues) /\ Len(s) = Len(serial) + 1 /\ s[Len(serial) + 1] = q
      /\ \A i \in 1..Len(serial) : s[i] = serial[i]
  BY <1>2
<1>4. \A i \in 1..Len(s) : i \in 1..Len(serial) \/ i = Len(serial) + 1
  BY <1>2, <1>3
<1>5. \A i \in 1..Len(serial) : i \in 1..Len(s) /\ Len(s) \in 1..Len(s)
  BY <1>2, <1>3
<1>6. \A i \in 1..Len(serial) : serial[i] # q
  BY <1>2
<1> HIDE DEF s
<1>7. \A i, j \in 1..Len(s) : s[i] = s[j] => i = j
  BY <1>2, <1>3, <1>4, <1>6
<1>8. \A p \in Queues : th2[p].phase = "sending" <=> \E i \in 1..Len(s) : s[i] = p
  <2>1. ASSUME NEW p \in Queues \ {q}
        PROVE  (\E i \in 1..Len(s) : s[i] = p) <=> (\E i \in 1..Len(serial) : serial[i] = p)
    BY <1>3, <1>4, <1>5
  <2>2. \E i \in 1..Len(s) : s[i] = q
    <3>1. Len(serial) + 1 \in 1..Len(s)
      BY <1>2, <1>3
    <3> QED
      BY <1>3, <3>1
  <2> QED
    BY <1>1, <1>2, <2>1, <2>2
<1>9. NoneFailed(th2)
  BY <1>1 DEF NoneFailed
<1> QED
  BY <1>3, <1>7, <1>8, <1>9 DEF SerialOK, s

LEMMA SerialAnswers ==
    ASSUME NEW q \in Queues, NEW th, NoneFailed(th), SerialOK(serial, th),
           th[q].phase = "sending", Head(serial) = q, NEW th2, Turn(q, th, th2),
           th2[q].phase \notin {"sending", "failed"}
    PROVE  /\ NoneFailed(th2) /\ SerialOK(Tail(serial), th2)
           /\ \A t : Works(th, t) /\ t # th[q].active.t => Works(th2, t)
<1>1. \A p \in Queues \ {q} : /\ th2[p].phase = "failed" <=> th[p].phase = "failed"
                              /\ th2[p].phase = "sending" <=> th[p].phase = "sending"
                              /\ th2[p].phase \in AtWork <=> th[p].phase \in AtWork
                              /\ th[p].phase \in AtWork => th2[p].active = th[p].active
  BY SameWorkPhase DEF Turn
<1>2. /\ serial \in Seq(Queues)
      /\ \A i, j \in 1..Len(serial) : serial[i] = serial[j] => i = j
      /\ \A p \in Queues : th[p].phase = "sending" <=> \E i \in 1..Len(serial) : serial[i] = p
  BY DEF SerialOK
<1>3. serial # <<>>
  BY <1>2
<1> DEFINE s == Tail(serial)
<1>4. /\ s \in Seq(Queues) /\ Len(s) = Len(serial) - 1 /\ serial[1] = q
      /\ \A i \in 1..Len(s) : s[i] = serial[i + 1]
      /\ Len(serial) \in Nat \ {0}
  BY <1>2, <1>3, HeadTailProperties
<1> HIDE DEF s
<1>5. \A i \in 1..Len(s) : i + 1 \in 1..Len(serial) /\ i + 1 # 1
  BY <1>4
<1>6. \A i \in 1..Len(serial) : i = 1 \/ (i - 1 \in 1..Len(s) /\ s[i - 1] = serial[i])
  BY <1>4
<1>7. \A i, j \in 1..Len(s) : s[i] = s[j] => i = j
  <2> SUFFICES ASSUME NEW i \in 1..Len(s), NEW j \in 1..Len(s), s[i] = s[j]
               PROVE  i = j
    OBVIOUS
  <2>1. i + 1 = j + 1
    BY <1>2, <1>4, <1>5
  <2> QED
    BY <1>4, <2>1
<1>8. \A i \in 1..Len(s) : s[i] # q
  BY <1>2, <1>4, <1>5
<1>9. \A p \in Queues : th2[p].phase = "sending" <=> \E i \in 1..Len(s) : s[i] = p
  <2>1. ASSUME NEW p \in Queues \ {q}
        PROVE  (\E i \in 1..Len(s) : s[i] = p) <=> (\E i \in 1..Len(serial) : serial[i] = p)
    BY <1>4, <1>5, <1>6
  <2> QED
    BY <1>1, <1>2, <1>8, <2>1
<1>10. NoneFailed(th2)
  BY <1>1 DEF NoneFailed
<1>11. ASSUME NEW t, Works(th, t), t # th[q].active.t PROVE Works(th2, t)
  BY <1>1, <1>11 DEF Works
<1> QED
  BY <1>4, <1>7, <1>9, <1>10, <1>11 DEF SerialOK, s

(* A loop at work has taken its transaction out of the queue.              *)
LEMMA PhaseChanges ==
    ASSUME NEW q, NEW m, NEW th, ThreadOK(q, m, th), th.phase \notin {"idle", "failed"},
           NEW ph \in AtWork, NEW sent \in 0..MaxAttempts, NEW unsent \in 0..MaxQueueAttempts,
           NEW r, r = [list |-> th.list, active |-> th.active, phase |-> ph,
                       sent |-> sent, unsent |-> unsent]
    PROVE  ThreadOK(q, m, r) /\ Fresh(r) = ToSet(th.list) /\ r.active = th.active
           /\ r.phase = ph /\ r.list = th.list
<1>1. r \in Threads(q, m)
  BY ThreadFields DEF Threads, AtWork, Phases
<1>2. ThreadOK(q, m, r)
  BY <1>1, ThreadFields DEF ThreadOK, AtWork
<1> QED
  BY <1>2 DEF Fresh, AtWork

(* A transaction that starts has no generator yet.                         *)
LEMMA StartIsFresh ==
    ASSUME NEW m, Core(m), NEW q \in Queues, thread[q].phase = "starting"
    PROVE  /\ thread[q].active \in In(q, m)
           /\ thread[q].active.t \in 1..Len(promise)
           /\ ~started[thread[q].active.t]
<1> DEFINE x == thread[q].active
<1>1. \A p \in Queues : ThreadOK(p, m, thread[p])
  BY CoreParts
<1>2. x \in In(q, m)
  BY <1>1, ThreadFields
<1>3. x.t \in 1..Len(promise) /\ Len(started) = Len(promise)
  BY <1>2, CoreParts DEF In, Known, Typed
<1>4. ASSUME started[x.t] PROVE FALSE
  <2>1. Works(thread, x.t)
    BY <1>3, <1>4, CoreParts DEF StartedOK
  <2>2. PICK p \in Queues : thread[p].active.t = x.t /\ thread[p].phase \in AtWork
    BY <2>1 DEF Works
  <2>3. thread[p].active \in In(p, m)
    BY <1>1, <2>2, ThreadFields DEF AtWork
  <2>4. p = q
    BY <1>2, <2>2, <2>3, OneQueue
  <2> QED
    BY <2>2, <2>4 DEF AtWork
<1> QED
  BY <1>2, <1>3, <1>4

LEMMA StartKeeps ==
    ASSUME NEW m, Core(m), NEW q \in Queues, Start(q)
    PROVE  Core(m)'
<1> DEFINE old == thread[q]
           x == old.active
           new == [old EXCEPT !.phase = "sending"]
<1>1. /\ old.phase = "starting" /\ ~started[x.t] /\ x \in In(q, m)
      /\ x.t \in 1..Len(promise)
  BY StartIsFresh DEF Start
<1>2. /\ started' = [started EXCEPT ![x.t] = TRUE]
      /\ thread' = [thread EXCEPT ![q] = new]
      /\ serial' = Append(serial, q)
      /\ UNCHANGED <<promise, status, delayed, goodNight, resets, expired>>
  BY <1>1 DEF Start, Sends
<1>3. ThreadOK(q, m, old) /\ Machine(m, thread)
  BY CoreParts
<1> HIDE DEF old, x
<1>4. new = [list |-> old.list, active |-> old.active, phase |-> "sending",
             sent |-> old.sent, unsent |-> old.unsent]
  BY <1>3, ThreadFields
<1> HIDE DEF new
<1>5. ThreadOK(q, m, new) /\ Fresh(new) = ToSet(old.list) /\ new.active = x
      /\ new.phase = "sending"
  <2>1. "sending" \in AtWork /\ old.phase \notin {"idle", "failed"}
    BY <1>1 DEF AtWork
  <2> QED
    BY <1>3, <1>4, <2>1, ThreadFields, PhaseChanges DEF x
<1>6. Machine(m, thread') /\ thread'[q] = new /\ \A p \in Queues \ {q} : thread'[p] = thread[p]
  <2>1. thread = [p \in Queues |-> thread[p]]
    BY <1>3 DEF Machine
  <2>2. /\ thread'[q] = new /\ \A p \in Queues \ {q} : thread'[p] = thread[p]
        /\ thread' = [p \in Queues |-> thread'[p]]
    BY <1>2, <2>1
  <2> QED
    BY <1>3, <1>5, <2>2 DEF Machine
<1>7. Turn(q, thread, thread')
  BY <1>6 DEF Turn, SameWork
<1>8. NoneFailed(thread') /\ SerialOK(serial', thread')
  <2>1. NoneFailed(thread) /\ SerialOK(serial, thread) /\ thread[q].phase # "sending"
    BY <1>1, CoreParts DEF old
  <2> QED
    BY <1>2, <1>5, <1>6, <1>7, <2>1, SerialGets
<1>9. /\ started \in Seq(BOOLEAN) /\ Len(started) = Len(promise)
  BY CoreParts DEF Typed
<1>10. /\ started' \in Seq(BOOLEAN) /\ Len(started') = Len(started) /\ started'[x.t]
       /\ \A t \in 1..Len(promise) : t # x.t => started'[t] = started[t]
  BY <1>1, <1>2, <1>9
<1>11. Typed(m)'
  BY <1>2, <1>10, CoreParts DEF Typed
<1>12. Around(m)'
  BY <1>2, CoreParts DEF Around
<1>13. Works(thread', x.t) /\ \A t : Works(thread, t) => Works(thread', t)
  <2>1. Works(thread', x.t)
    BY <1>5, <1>6 DEF Works, AtWork
  <2>2. ASSUME NEW t, Works(thread, t) PROVE Works(thread', t)
    <3>1. PICK p \in Queues : thread[p].active.t = t /\ thread[p].phase \in AtWork
      BY <2>2 DEF Works
    <3>2. p # q
      BY <1>1, <3>1 DEF AtWork, old
    <3> QED
      BY <1>6, <3>1, <3>2 DEF Works
  <2> QED
    BY <2>1, <2>2
<1>14. StartedOK(started', thread')
  <2> SUFFICES ASSUME NEW t \in 1..Len(promise), started'[t] PROVE Works(thread', t)
    BY <1>9, <1>10 DEF StartedOK
  <2>1. CASE t = x.t
    BY <1>13, <2>1
  <2>2. CASE t # x.t
    <3>1. started[t]
      BY <1>10, <2>2
    <3>2. Works(thread, t)
      BY <1>9, <3>1, CoreParts DEF StartedOK
    <3> QED
      BY <1>13, <3>2
  <2> QED
    BY <2>1, <2>2
<1>15. PendingHeld'
  <2> SUFFICES ASSUME BusyOrRemoval, NEW t \in 1..Len(promise), promise[t] = "pending"
               PROVE  HeldBy(t, started', thread', delayed')
    BY <1>2 DEF PendingHeld
  <2>1. HeldBy(t, started, thread, delayed)
    BY CoreParts DEF PendingHeld
  <2>2. CASE t = x.t
    BY <1>10, <1>13, <2>2 DEF HeldBy
  <2>3. CASE t # x.t
    <3>1. ASSUME NEW p \in Queues, NEW y \in Fresh(thread[p]), y.t = t
          PROVE  y \in Fresh(thread'[p])
      <4>1. CASE p = q
        BY <1>1, <1>5, <1>6, <2>3, <3>1, <4>1 DEF Fresh, old, x
      <4>2. CASE p # q
        BY <1>6, <3>1, <4>2
      <4> QED
        BY <4>1, <4>2
    <3>2. started[t] => started'[t]
      BY <1>10, <2>3
    <3> QED
      BY <1>2, <1>13, <2>1, <3>1, <3>2 DEF HeldBy
  <2> QED
    BY <2>2, <2>3
<1> QED
  BY <1>6, <1>8, <1>11, <1>12, <1>14, <1>15 DEF Core

LEMMA WaitEndsKeeps ==
    ASSUME NEW m, Core(m), NEW q \in Queues, WaitEnds(q)
    PROVE  Core(m)'
<1> DEFINE old == thread[q]
           new == [old EXCEPT !.phase = "sending"]
<1>1. /\ old.phase = "waiting"
      /\ thread' = [thread EXCEPT ![q] = new]
      /\ serial' = Append(serial, q)
      /\ UNCHANGED <<promise, started, status, delayed, goodNight, resets, expired>>
  BY DEF WaitEnds, Sends
<1>2. ThreadOK(q, m, old) /\ Machine(m, thread)
  BY CoreParts
<1> HIDE DEF old
<1>3. new = [list |-> old.list, active |-> old.active, phase |-> "sending",
             sent |-> old.sent, unsent |-> old.unsent]
  BY <1>2, ThreadFields
<1> HIDE DEF new
<1>4. ThreadOK(q, m, new) /\ Fresh(new) = ToSet(old.list) /\ new.active = old.active
      /\ new.phase = "sending"
  <2>1. "sending" \in AtWork /\ old.phase \notin {"idle", "failed"}
    BY <1>1 DEF AtWork
  <2> QED
    BY <1>2, <1>3, <2>1, ThreadFields, PhaseChanges
<1>5. Machine(m, thread') /\ thread'[q] = new /\ \A p \in Queues \ {q} : thread'[p] = thread[p]
  <2>1. thread = [p \in Queues |-> thread[p]]
    BY <1>2 DEF Machine
  <2>2. /\ thread'[q] = new /\ \A p \in Queues \ {q} : thread'[p] = thread[p]
        /\ thread' = [p \in Queues |-> thread'[p]]
    BY <1>1, <2>1
  <2> QED
    BY <1>2, <1>4, <2>2 DEF Machine
<1>6. Turn(q, thread, thread')
  BY <1>5 DEF Turn, SameWork
<1>7. NoneFailed(thread') /\ SerialOK(serial', thread')
  <2>1. NoneFailed(thread) /\ SerialOK(serial, thread) /\ thread[q].phase # "sending"
    BY <1>1, CoreParts DEF old
  <2> QED
    BY <1>1, <1>4, <1>5, <1>6, <2>1, SerialGets
<1>8. \A t : Works(thread, t) => Works(thread', t)
  BY <1>4, <1>5 DEF Works, old, AtWork
<1>9. \A p \in Queues : Fresh(thread'[p]) = Fresh(thread[p])
  <2>1. Fresh(new) = Fresh(old)
    BY <1>1, <1>4 DEF Fresh
  <2> QED
    BY <1>5, <2>1 DEF old
<1>10. \A t \in 1..Len(promise) :
         BusyOrRemoval /\ There(t, thread, delayed) /\ t \notin {} =>
           There(t, thread', delayed') \/ (started[t] /\ Works(thread, t))
  BY <1>1, <1>9 DEF There
<1>11. \A t \in 1..Len(promise) :
         t \in {} \ {} /\ started[t] /\ Works(thread, t) => There(t, thread', delayed')
  OBVIOUS
<1>12. promise' = Settle(promise, {}, "resolved") /\ started' = Unset(started, {})
  BY <1>1, NothingSettled
<1>13. "resolved" \in Outcomes \ {"pending"}
  BY DEF Outcomes
<1>14. Around(m)'
  BY <1>1, CoreParts DEF Around
<1>15. \A t : started[t] /\ Works(thread, t) /\ t \notin {} => Works(thread', t)
  BY <1>8
<1> QED
  BY <1>5, <1>7, <1>10, <1>11, <1>12, <1>13, <1>14, <1>15, SettlingStep

LEMMA DoneTriggered ==
    ASSUME NEW q, NEW m, NEW th, ThreadOK(q, m, th), NEW st,
           NEW r, r = Triggered(st, q, Done(th))
    PROVE  ThreadOK(q, m, r) /\ r.phase \in {"idle", "starting"} /\ Fresh(r) = ToSet(th.list)
<1> DEFINE d == Done(th)
<1>1. ThreadOK(q, m, d) /\ d.phase = "idle" /\ Fresh(d) = ToSet(th.list)
  BY DoneKeeps
<1>2. r = Triggered(st, q, d)
  OBVIOUS
<1> HIDE DEF d
<1>3. ThreadOK(q, m, r) /\ SameWork(d, r) /\ Fresh(r) = Fresh(d)
  BY <1>1, <1>2, TriggeredKeeps
<1> QED
  BY <1>1, <1>3 DEF SameWork

(* The wait for the report ends.                                           *)
LEMMA WaitForUpdateEndsKeeps ==
    ASSUME NEW m, Core(m), NEW q \in Queues, NEW v \in Outcomes \ {"pending"},
           WaitForUpdateEnds(q, v), status' \in [Node -> Statuses]
    PROVE  Core(m)'
<1> DEFINE old == thread[q]
           t == old.active.t
           new == Triggered(status, q, Done(old))
<1>1. /\ old.phase = "awaitingUpdate"
      /\ promise' = Settle(promise, {t}, v) /\ started' = Unset(started, {t})
      /\ thread' = [thread EXCEPT ![q] = new]
      /\ UNCHANGED <<serial, delayed, goodNight, resets, expired>>
  BY DEF WaitForUpdateEnds
<1>2. ThreadOK(q, m, old) /\ Machine(m, thread)
  BY CoreParts
<1> HIDE DEF old
<1>3. new = Triggered(status, q, Done(old))
  OBVIOUS
<1> HIDE DEF new
<1>4. ThreadOK(q, m, new) /\ new.phase \in {"idle", "starting"} /\ Fresh(new) = ToSet(old.list)
  BY <1>2, <1>3, DoneTriggered
<1>5. thread = [p \in Queues |-> thread[p]]
  BY <1>2 DEF Machine
<1>6. /\ thread'[q] = new /\ \A p \in Queues \ {q} : thread'[p] = thread[p]
      /\ thread' = [p \in Queues |-> thread'[p]]
  BY <1>1, <1>5
<1>7. Machine(m, thread')
  BY <1>2, <1>4, <1>6 DEF Machine
<1>8. NoneFailed(thread') /\ SerialOK(serial', thread')
  BY <1>1, <1>4, <1>6, CoreParts DEF NoneFailed, SerialOK, old
<1>9. \A u : Works(thread, u) /\ u # t => Works(thread', u)
  BY <1>6 DEF Works, old
<1>10. \A p \in Queues : Fresh(thread'[p]) = Fresh(thread[p])
  <2>1. Fresh(old) = ToSet(old.list)
    BY <1>1 DEF Fresh
  <2> QED
    BY <1>4, <1>6, <2>1 DEF old
<1> HIDE DEF t
<1>11. \A u : started[u] /\ Works(thread, u) /\ u \notin {t} => Works(thread', u)
  BY <1>9
<1>12. \A u \in 1..Len(promise) :
         BusyOrRemoval /\ There(u, thread, delayed) /\ u \notin {t} =>
           There(u, thread', delayed') \/ (started[u] /\ Works(thread, u))
  BY <1>1, <1>10 DEF There
<1>13. \A u \in 1..Len(promise) :
         u \in {t} \ {t} /\ started[u] /\ Works(thread, u) => There(u, thread', delayed')
  OBVIOUS
<1>14. Around(m)'
  BY <1>1, StatusOnly
<1> QED
  BY <1>1, <1>7, <1>8, <1>11, <1>12, <1>13, <1>14, SettlingStep

LEMMA UpdateArrivesKeeps ==
    ASSUME NEW m, Core(m), NEW q \in Queues, UpdateArrives(q)
    PROVE  Core(m)'
<1>1. "resolved" \in Outcomes \ {"pending"}
  BY DEF Outcomes
<1>2. status' \in [Node -> Statuses]
  BY StatusIs DEF UpdateArrives
<1> QED
  BY <1>1, <1>2, WaitForUpdateEndsKeeps DEF UpdateArrives

LEMMA UpdateTimeoutKeeps ==
    ASSUME NEW m, Core(m), NEW q \in Queues, UpdateTimeout(q)
    PROVE  Core(m)'
<1>1. "rejected" \in Outcomes \ {"pending"}
  BY DEF Outcomes
<1>2. status' \in [Node -> Statuses]
  BY StatusIs DEF UpdateTimeout
<1> QED
  BY <1>1, <1>2, WaitForUpdateEndsKeeps DEF UpdateTimeout
-----------------------------------------------------------------------------
(* The command of a thread has a result.                                   *)

LEMMA ResultIs ==
    ASSUME NEW m, Core(m), NEW q \in Queues, HasResult(q)
    PROVE  /\ thread[q].phase = "sending" /\ Head(serial) = q
           /\ thread[q].active \in In(q, m) /\ thread[q].active.t \in 1..Len(promise)
           /\ Fresh(thread[q]) = ToSet(thread[q].list)
           /\ ~Runs(thread[q].active.t)
           /\ \A p \in Queues : thread[p].phase # "idle" /\ thread[p].active.t = thread[q].active.t => p = q
<1> DEFINE x == thread[q].active
<1>1. thread[q].phase = "sending" /\ Head(serial) = q
  BY DEF HasResult
<1>2. \A p \in Queues : ThreadOK(p, m, thread[p]) /\ thread[p].phase # "failed"
  BY CoreParts DEF NoneFailed
<1>3. \A p \in Queues : thread[p].phase # "idle" => thread[p].active \in In(p, m)
  BY <1>2, ThreadFields
<1>4. x \in In(q, m)
  BY <1>1, <1>3
<1>5. x.t \in 1..Len(promise)
  BY <1>4, CoreParts DEF In, Known, Typed
<1>6. \A p \in Queues : thread[p].phase # "idle" /\ thread[p].active.t = x.t => p = q
  BY <1>3, <1>4, OneQueue
<1>7. ~Runs(x.t)
  BY <1>1, <1>6 DEF Runs
<1> QED
  BY <1>1, <1>4, <1>5, <1>6, <1>7 DEF Fresh

(* The failed transaction is dealt with while the loop does not work, then *)
(* the loop asks for the next one.  ths is what is left of the queues.     *)
LEMMA FinalizedIs ==
    ASSUME NEW m, Core(m), NEW q \in Queues, HasResult(q)
    PROVE  /\ Machine(m, Finalized(q)) /\ Finalized(q)[q].phase = "failed"
           /\ \A p \in Queues \ {q} : Finalized(q)[p] = thread[p]
           /\ \A p \in Queues : Fresh(Finalized(q)[p]) = Fresh(thread[p])
           /\ Finalized(q)[q].list = thread[q].list
<1> DEFINE f == Finalized(q)
           old == thread[q]
           new == [Done(old) EXCEPT !.phase = "failed"]
<1>1. ThreadOK(q, m, old) /\ Machine(m, thread) /\ Fresh(old) = ToSet(old.list)
  BY CoreParts, ResultIs
<1>2. f = [thread EXCEPT ![q] = new]
  BY DEF Finalized
<1> HIDE DEF old, f
<1>3. ThreadOK(q, m, new) /\ new.phase = "failed" /\ Fresh(new) = ToSet(old.list)
      /\ new.list = old.list
  BY <1>1, DoneKeeps
<1> HIDE DEF new
<1>4. thread = [p \in Queues |-> thread[p]]
  BY <1>1 DEF Machine
<1>5. /\ f[q] = new /\ \A p \in Queues \ {q} : f[p] = thread[p]
      /\ f = [p \in Queues |-> f[p]]
  BY <1>2, <1>4
<1>6. Machine(m, f)
  BY <1>1, <1>3, <1>5 DEF Machine
<1>7. \A p \in Queues : Fresh(f[p]) = Fresh(thread[p])
  BY <1>1, <1>3, <1>5 DEF old
<1> QED
  BY <1>3, <1>5, <1>6, <1>7 DEF f, old

LEMMA FailedStep ==
    ASSUME NEW m, Core(m), NEW q \in Queues, HasResult(q), serial' = Tail(serial),
           NEW ths, NEW st, Machine(m, ths), ths[q].phase = "failed", Turn(q, thread, ths),
           thread' = Listening(st, ths, q)
    PROVE  /\ Machine(m, thread') /\ NoneFailed(thread') /\ SerialOK(serial', thread')
           /\ \A t : Works(thread, t) /\ t # thread[q].active.t => Works(thread', t)
           /\ \A p \in Queues : Fresh(thread'[p]) = Fresh(ths[p])
<1> DEFINE old == ths[q]
           new == Triggered(st, q, [old EXCEPT !.phase = "idle"])
<1>1. ThreadOK(q, m, old) /\ old.phase = "failed" /\ ths = [p \in Queues |-> ths[p]]
  BY DEF Machine
<1>2. thread' = [ths EXCEPT ![q] = new]
  BY DEF Listening
<1> HIDE DEF old
<1>3. ThreadOK(q, m, new) /\ new.phase \in {"idle", "starting"} /\ Fresh(new) = Fresh(old)
  BY <1>1, ListeningKeeps
<1> HIDE DEF new
<1>4. /\ thread'[q] = new /\ \A p \in Queues \ {q} : thread'[p] = ths[p]
      /\ thread' = [p \in Queues |-> thread'[p]]
  BY <1>1, <1>2
<1>5. Machine(m, thread')
  BY <1>3, <1>4 DEF Machine
<1>6. Turn(q, thread, thread')
  BY <1>4 DEF Turn
<1>7. /\ NoneFailed(thread') /\ SerialOK(serial', thread')
      /\ \A t : Works(thread, t) /\ t # thread[q].active.t => Works(thread', t)
  <2>1. NoneFailed(thread) /\ SerialOK(serial, thread)
    BY CoreParts
  <2>2. thread'[q].phase \notin {"sending", "failed"}
    BY <1>3, <1>4
  <2>3. thread[q].phase = "sending" /\ Head(serial) = q
    BY ResultIs
  <2> QED
    BY <1>6, <2>1, <2>2, <2>3, SerialAnswers
<1>8. \A p \in Queues : Fresh(thread'[p]) = Fresh(ths[p])
  BY <1>3, <1>4 DEF old
<1> QED
  BY <1>5, <1>7, <1>8

LEMMA RejectActiveKeeps ==
    ASSUME NEW m, Core(m), NEW q \in Queues, HasResult(q), serial' = Tail(serial),
           RejectActive(q), UNCHANGED <<delayed, goodNight, resets, expired>>
    PROVE  Core(m)'
<1> DEFINE t == thread[q].active.t
           f == Finalized(q)
           T == {u \in {t} : ~Runs(u)}
<1>1. thread' = Listening(status, f, q) /\ Abort({t}, "rejected") /\ status' = status
  BY DEF RejectActive
<1>2. promise' = Settle(promise, T, "rejected") /\ started' = Unset(started, T)
  BY <1>1, Aborted
<1>3. T = {t}
  BY ResultIs
<1>4. "rejected" \in Outcomes \ {"pending"}
  BY DEF Outcomes
<1>5. /\ Machine(m, f) /\ f[q].phase = "failed" /\ \A p \in Queues \ {q} : f[p] = thread[p]
      /\ \A p \in Queues : Fresh(f[p]) = Fresh(thread[p])
  BY FinalizedIs
<1> HIDE DEF f
<1>6. Turn(q, thread, f)
  BY <1>5 DEF Turn, SameWork
<1>7. /\ Machine(m, thread') /\ NoneFailed(thread') /\ SerialOK(serial', thread')
      /\ \A u : Works(thread, u) /\ u # t => Works(thread', u)
      /\ \A p \in Queues : Fresh(thread'[p]) = Fresh(f[p])
  BY <1>1, <1>5, <1>6, FailedStep
<1> HIDE DEF T
<1>8. \A u : started[u] /\ Works(thread, u) /\ u \notin T => Works(thread', u)
  BY <1>3, <1>7
<1>9. \A u \in 1..Len(promise) :
        BusyOrRemoval /\ There(u, thread, delayed) /\ u \notin T =>
          There(u, thread', delayed') \/ (started[u] /\ Works(thread, u))
  BY <1>5, <1>7 DEF There
<1>10. Around(m)'
  BY <1>1, StatusIs, StatusOnly
<1>11. \A u \in 1..Len(promise) :
         u \in T \ T /\ started[u] /\ Works(thread, u) => There(u, thread', delayed')
  OBVIOUS
<1> QED
  BY <1>2, <1>4, <1>7, <1>8, <1>9, <1>10, <1>11, SettlingStep

LEMMA ListeningNodeMissingKeeps ==
    ASSUME NEW m, Core(m), NEW q \in Queues, HasResult(q), serial' = Tail(serial),
           ListeningNodeMissing(q), UNCHANGED <<delayed, goodNight, resets, expired>>
    PROVE  Core(m)'
<1> DEFINE x == thread[q].active
           n == x.msg.node
           st == [status EXCEPT ![n] = "dead"]
           f == Finalized(q)
           S == Found(f, n)
           ths == Rejected(st, f, S)
           T == {u \in Numbers(S) \cup {x.t} : ~Runs(u)}
<1>1. /\ status' = st /\ thread' = Listening(st, ths, q)
      /\ Abort(Numbers(S) \cup {x.t}, "rejected")
  BY DEF ListeningNodeMissing
<1>2. promise' = Settle(promise, T, "rejected") /\ started' = Unset(started, T)
  BY <1>1, Aborted
<1>3. x.t \in T /\ \A u \in Numbers(S) : u \in T \/ Runs(u)
  BY ResultIs
<1>4. "rejected" \in Outcomes \ {"pending"}
  BY DEF Outcomes
<1>5. /\ Machine(m, f) /\ f[q].phase = "failed" /\ \A p \in Queues \ {q} : f[p] = thread[p]
      /\ \A p \in Queues : Fresh(f[p]) = Fresh(thread[p])
  BY FinalizedIs
<1>6. status' \in [Node -> Statuses]
  BY <1>1, StatusIs DEF Statuses
<1>7. Around(m)'
  BY <1>6, StatusOnly
<1> HIDE DEF f, S, st
<1>8. /\ Machine(m, ths) /\ Arranged(f, ths)
      /\ \A p \in Queues : Remains(f[p], ths[p], S, <<>>)
  BY <1>5, RejectedKeeps
<1>9. ASSUME NEW u, There(u, f, delayed) PROVE There(u, ths, delayed) \/ u \in Numbers(S)
  <2> DEFINE none == <<>>
  <2>1. DOMAIN none = {} /\ \A p \in Queues : Remains(f[p], ths[p], S, none)
    BY <1>8
  <2> HIDE DEF none, ths
  <2>2. There(u, ths, delayed) \/ u \in Numbers(S \ DOMAIN none)
    BY <1>5, <1>9, <2>1, ReducedThere
  <2> QED
    BY <2>1, <2>2
<1> HIDE DEF ths
<1>10. ths[q].phase = "failed" /\ Turn(q, thread, ths)
  <2>1. SameWork(f[q], ths[q])
    BY <1>8 DEF Arranged
  <2> QED
    BY <1>5, <1>8, <2>1, SameWorkPhase DEF Arranged, Turn
<1>11. /\ Machine(m, thread') /\ NoneFailed(thread') /\ SerialOK(serial', thread')
       /\ \A u : Works(thread, u) /\ u # x.t => Works(thread', u)
       /\ \A p \in Queues : Fresh(thread'[p]) = Fresh(ths[p])
  BY <1>1, <1>8, <1>10, FailedStep
<1> HIDE DEF T
<1>12. \A u : started[u] /\ Works(thread, u) /\ u \notin T => Works(thread', u)
  BY <1>3, <1>11
<1>13. \A u \in 1..Len(promise) :
         BusyOrRemoval /\ There(u, thread, delayed) /\ u \notin T =>
           There(u, thread', delayed') \/ (started[u] /\ Works(thread, u))
  <2> SUFFICES ASSUME NEW u, There(u, thread, delayed), u \notin T
               PROVE  There(u, thread', delayed) \/ (started[u] /\ Works(thread, u))
    OBVIOUS
  <2>1. There(u, f, delayed)
    BY <1>5 DEF There
  <2>2. There(u, ths, delayed) \/ u \in Numbers(S)
    BY <1>9, <2>1
  <2>3. There(u, ths, delayed) => There(u, thread', delayed)
    BY <1>11 DEF There
  <2> QED
    BY <1>3, <2>2, <2>3, RunsWorks
<1>14. \A u \in 1..Len(promise) :
         u \in T \ T /\ started[u] /\ Works(thread, u) => There(u, thread', delayed')
  OBVIOUS
<1> QED
  BY <1>2, <1>4, <1>7, <1>11, <1>12, <1>13, <1>14, SettlingStep

(* The failed transaction, added again if it may be moved.                 *)
LEMMA ReaddedIs ==
    ASSUME NEW m, Core(m), NEW q \in Queues, HasResult(q)
    PROVE  LET x == thread[q].active
               ths == Readded(q)
           IN  /\ Machine(m, ths) /\ ths[q].phase = "failed" /\ Turn(q, thread, ths)
               /\ \A p \in Queues \ {q} : ths[p] = thread[p]
               /\ Fresh(ths[q]) = Fresh(thread[q]) \cup (IF MayMove(x.msg) THEN {x} ELSE {})
<1> DEFINE x == thread[q].active
           f == Finalized(q)
           ths == Readded(q)
<1>1. /\ Machine(m, f) /\ f[q].phase = "failed" /\ \A p \in Queues \ {q} : f[p] = thread[p]
      /\ \A p \in Queues : Fresh(f[p]) = Fresh(thread[p])
  BY FinalizedIs
<1>2. x \in In(q, m)
  BY ResultIs
<1>3. Turn(q, thread, f)
  BY <1>1 DEF Turn, SameWork
<1>4. CASE ~MayMove(x.msg)
  <2>1. ths = f
    BY <1>4 DEF Readded
  <2> QED
    BY <1>1, <1>3, <1>4, <2>1
<1>5. CASE MayMove(x.msg)
  <2> DEFINE old == f[q]
             xs == <<x>>
             new == Added(status, q, old, xs)
  <2>1. q = "normal"
    BY <1>2, <1>5 DEF MayMove, In, QueueOf
  <2>2. ths = [f EXCEPT ![q] = new]
    BY <1>5, <2>1 DEF Readded
  <2>3. xs \in Seq(In(q, m)) /\ ToSet(xs) = {x}
    BY <1>2 DEF ToSet
  <2>4. ThreadOK(q, m, old) /\ old.phase = "failed" /\ Fresh(old) = Fresh(thread[q])
        /\ f = [p \in Queues |-> f[p]]
    BY <1>1 DEF Machine
  <2> HIDE DEF old, xs, f, ths, x
  <2>5. new = Added(status, q, old, xs)
    OBVIOUS
  <2> HIDE DEF new
  <2>6. ThreadOK(q, m, new) /\ SameWork(old, new) /\ Fresh(new) = Fresh(old) \cup ToSet(xs)
    BY <2>3, <2>4, <2>5, AddedKeeps
  <2>7. /\ ths[q] = new /\ \A p \in Queues \ {q} : ths[p] = f[p]
        /\ ths = [p \in Queues |-> ths[p]]
    BY <2>2, <2>4
  <2>8. Machine(m, ths)
    BY <1>1, <2>6, <2>7 DEF Machine
  <2>9. ths[q].phase = "failed"
    BY <2>4, <2>6, <2>7, SameWorkPhase
  <2>10. Turn(q, thread, ths)
    BY <1>3, <2>7 DEF Turn
  <2>11. Fresh(ths[q]) = Fresh(thread[q]) \cup {x}
    BY <2>3, <2>4, <2>6, <2>7
  <2> QED
    BY <1>1, <1>5, <2>7, <2>8, <2>9, <2>10, <2>11 DEF ths, x
<1> QED
  BY <1>4, <1>5

LEMMA SleepingNodeMissingKeeps ==
    ASSUME NEW m, Core(m), NEW q \in Queues, HasResult(q), serial' = Tail(serial),
           thread[q].active.msg.node # Controller,
           SleepingNodeMissing(q), UNCHANGED <<delayed, goodNight, resets, expired>>
    PROVE  Core(m)'
<1> DEFINE x == thread[q].active
           n == x.msg.node
           st == [status EXCEPT ![n] = "asleep"]
           ths == Readded(q)
           left == Parked(st, ths, n)
           P == Dropped(ths, n) \cup (IF MayMove(x.msg) THEN {} ELSE {x.t})
           S == P \cup Moved(ths, n)
<1>1. /\ status' = st /\ thread' = Listening(st, left, q)
      /\ promise' = Settle(promise, P, "rejected") /\ started' = Unset(started, S)
  BY DEF SleepingNodeMissing
<1>2. "rejected" \in Outcomes \ {"pending"}
  BY DEF Outcomes
<1>3. status' \in [Node -> Statuses]
  BY <1>1, StatusIs DEF Statuses
<1>4. Around(m)'
  BY <1>3, StatusOnly
<1>5. x \in In(q, m) /\ n \in Node
  BY ResultIs, ConstantsAssumption DEF In, Known, Transaction, ConstantsAssumption
<1>6. /\ Machine(m, ths) /\ ths[q].phase = "failed" /\ Turn(q, thread, ths)
      /\ \A p \in Queues \ {q} : ths[p] = thread[p]
      /\ Fresh(ths[q]) = Fresh(thread[q]) \cup (IF MayMove(x.msg) THEN {x} ELSE {})
  BY ReaddedIs
<1>7. MayMove(x.msg) => x.t \in Moved(ths, n)
  <2> SUFFICES ASSUME MayMove(x.msg) PROVE x.t \in Moved(ths, n)
    OBVIOUS
  <2>1. x \in Fresh(ths[q]) /\ ThreadOK(q, m, ths[q])
    BY <1>6 DEF Machine
  <2>2. x \in Elements(ths[q])
    BY <2>1, ElementsAre
  <2>3. x \in Found(ths, n)
    BY <1>5, <1>6, <2>2, FoundAre
  <2> QED
    BY <2>3 DEF Moved, Movable, Numbers
<1> HIDE DEF ths, st, n
<1>8. /\ Machine(m, left) /\ Arranged(ths, left)
      /\ \A t : There(t, ths, delayed) =>
           There(t, left, delayed) \/ t \in Numbers(Found(ths, n) \ Movable(ths, n))
      /\ \A t \in Moved(ths, n) : There(t, left, delayed)
  BY <1>5, <1>6, ParkedThere
<1> HIDE DEF left
<1>9. left[q].phase = "failed" /\ Turn(q, thread, left)
  <2>1. SameWork(ths[q], left[q])
    BY <1>8 DEF Arranged
  <2>2. \A p \in Queues \ {q} : SameWork(thread[p], left[p])
    BY <1>6, <1>8 DEF Arranged
  <2> QED
    BY <1>6, <2>1, <2>2, SameWorkPhase DEF Turn
<1>10. /\ Machine(m, thread') /\ NoneFailed(thread') /\ SerialOK(serial', thread')
       /\ \A u : Works(thread, u) /\ u # x.t => Works(thread', u)
       /\ \A p \in Queues : Fresh(thread'[p]) = Fresh(left[p])
  <2>1. /\ thread' = Listening(st, left, q) /\ serial' = Tail(serial)
        /\ Machine(m, left) /\ left[q].phase = "failed" /\ Turn(q, thread, left)
    BY <1>1, <1>8, <1>9
  <2> HIDE DEF P, S, x
  <2>2. /\ Machine(m, thread') /\ NoneFailed(thread') /\ SerialOK(serial', thread')
        /\ \A u : Works(thread, u) /\ u # thread[q].active.t => Works(thread', u)
        /\ \A p \in Queues : Fresh(thread'[p]) = Fresh(left[p])
    BY <2>1, FailedStep
  <2> QED
    BY <2>2 DEF x
<1>11. x.t \in S
  BY <1>7
<1>12. \A u : u \notin P => (u \in Numbers(Found(ths, n) \ Movable(ths, n)) => Runs(u))
  BY DEF Dropped
<1>13. S \ P \subseteq Moved(ths, n)
  OBVIOUS
<1> HIDE DEF P, S, x
<1>14. \A u : started[u] /\ Works(thread, u) /\ u \notin S => Works(thread', u)
  BY <1>10, <1>11
<1>15. \A u : There(u, left, delayed) => There(u, thread', delayed')
  BY <1>10 DEF There
<1>16. \A u \in 1..Len(promise) :
         BusyOrRemoval /\ There(u, thread, delayed) /\ u \notin P =>
           There(u, thread', delayed') \/ (started[u] /\ Works(thread, u))
  <2> SUFFICES ASSUME NEW u, There(u, thread, delayed), u \notin P
               PROVE  There(u, thread', delayed') \/ (started[u] /\ Works(thread, u))
    OBVIOUS
  <2>1. \A p \in Queues : Fresh(thread[p]) \subseteq Fresh(ths[p])
    BY <1>6
  <2>2. There(u, ths, delayed)
    BY <2>1 DEF There
  <2>3. There(u, left, delayed) \/ u \in Numbers(Found(ths, n) \ Movable(ths, n))
    BY <1>8, <2>2
  <2> QED
    BY <1>12, <1>15, <2>3, RunsWorks
<1>17. \A u \in 1..Len(promise) :
         u \in S \ P /\ started[u] /\ Works(thread, u) => There(u, thread', delayed')
  BY <1>8, <1>13, <1>15
<1> QED
  BY <1>1, <1>2, <1>4, <1>10, <1>14, <1>16, <1>17, SettlingStep

(* The command joins the Serial API queue again, or the loop waits.        *)
LEMMA AgainStep ==
    ASSUME NEW m, Core(m), NEW q \in Queues, HasResult(q),
           UNCHANGED <<promise, started, status, delayed, goodNight, resets, expired>>,
           NEW new, thread' = [thread EXCEPT ![q] = new], ThreadOK(q, m, new),
           new.active = thread[q].active, Fresh(new) = Fresh(thread[q]),
           \/ new.phase = "sending" /\ serial' = Append(Tail(serial), q)
           \/ new.phase = "waiting" /\ serial' = Tail(serial)
    PROVE  Core(m)'
<1>1. Machine(m, thread) /\ NoneFailed(thread) /\ SerialOK(serial, thread)
  BY CoreParts
<1>2. thread = [p \in Queues |-> thread[p]]
  BY <1>1 DEF Machine
<1>3. /\ thread'[q] = new /\ \A p \in Queues \ {q} : thread'[p] = thread[p]
      /\ thread' = [p \in Queues |-> thread'[p]]
  BY <1>2
<1>4. Machine(m, thread')
  BY <1>1, <1>3 DEF Machine
<1>5. Turn(q, thread, thread')
  BY <1>3 DEF Turn, SameWork
<1>6. thread[q].phase = "sending" /\ Head(serial) = q
  BY ResultIs
<1>7. NoneFailed(thread') /\ SerialOK(serial', thread')
  <2>1. CASE new.phase = "waiting" /\ serial' = Tail(serial)
    BY <1>1, <1>3, <1>5, <1>6, <2>1, SerialAnswers
  <2>2. CASE new.phase = "sending" /\ serial' = Append(Tail(serial), q)
    <3>1. serial \in Seq(Queues) /\ serial # <<>>
      BY <1>1, <1>6 DEF SerialOK
    <3> DEFINE s == Append(Tail(serial), q)
    <3>2. /\ s \in Seq(Queues) /\ Len(s) = Len(serial) /\ serial[1] = q
          /\ Len(serial) \in Nat \ {0} /\ s[Len(serial)] = q
          /\ \A i \in 1..(Len(serial) - 1) : s[i] = serial[i + 1]
      BY <1>6, <3>1, HeadTailProperties
    <3> HIDE DEF s
    <3>3. /\ \A i, j \in 1..Len(serial) : serial[i] = serial[j] => i = j
          /\ \A p \in Queues : thread[p].phase = "sending" <=>
               \E i \in 1..Len(serial) : serial[i] = p
      BY <1>1 DEF SerialOK
    <3>4. \A i \in 1..Len(s) : i = Len(serial) \/
            (i \in 1..(Len(serial) - 1) /\ i + 1 \in 1..Len(serial) /\ i + 1 # 1)
      BY <3>2
    <3>5. \A i \in 1..(Len(serial) - 1) : s[i] # q
      BY <3>2, <3>3, <3>4
    <3>6. \A i, j \in 1..Len(s) : s[i] = s[j] => i = j
      <4> SUFFICES ASSUME NEW i \in 1..Len(s), NEW j \in 1..Len(s), s[i] = s[j]
                   PROVE  i = j
        OBVIOUS
      <4>1. CASE i = Len(serial) \/ j = Len(serial)
        BY <3>2, <3>4, <3>5, <4>1
      <4>2. CASE i # Len(serial) /\ j # Len(serial)
        <5>1. serial[i + 1] = serial[j + 1] /\ i + 1 \in 1..Len(serial) /\ j + 1 \in 1..Len(serial)
          BY <3>2, <3>4, <4>2
        <5>2. i + 1 = j + 1
          BY <3>3, <5>1
        <5> QED
          BY <3>2, <5>2
      <4> QED
        BY <4>1, <4>2
    <3>7. \A p \in Queues \ {q} :
            (\E i \in 1..Len(s) : s[i] = p) <=> (\E i \in 1..Len(serial) : serial[i] = p)
      <4> SUFFICES ASSUME NEW p \in Queues \ {q}
                   PROVE  (\E i \in 1..Len(s) : s[i] = p) <=> (\E i \in 1..Len(serial) : serial[i] = p)
        OBVIOUS
      <4>1. ASSUME NEW i \in 1..Len(s), s[i] = p PROVE \E k \in 1..Len(serial) : serial[k] = p
        BY <3>2, <3>4, <4>1
      <4>2. ASSUME NEW i \in 1..Len(serial), serial[i] = p PROVE \E k \in 1..Len(s) : s[k] = p
        <5>1. i # 1 /\ i - 1 \in 1..(Len(serial) - 1) /\ i - 1 \in 1..Len(s)
          BY <3>2, <4>2
        <5>2. s[i - 1] = p
          BY <3>2, <4>2, <5>1
        <5> QED
          BY <5>1, <5>2
      <4> QED
        BY <4>1, <4>2
    <3>8. \A p \in Queues : thread'[p].phase = "sending" <=> \E i \in 1..Len(s) : s[i] = p
      <4>1. Len(serial) \in 1..Len(s)
        BY <3>2
      <4> QED
        BY <1>3, <2>2, <3>2, <3>3, <3>7, <4>1
    <3>9. NoneFailed(thread')
      BY <1>1, <1>3, <2>2 DEF NoneFailed
    <3>10. serial' = s
      BY <2>2 DEF s
    <3> QED
      BY <3>2, <3>6, <3>8, <3>9, <3>10 DEF SerialOK
  <2> QED
    BY <2>1, <2>2
<1>8. \A u : Works(thread, u) => Works(thread', u)
  BY <1>3 DEF Works, AtWork
<1>9. \A p \in Queues : Fresh(thread'[p]) = Fresh(thread[p])
  BY <1>3
<1>10. \A u : There(u, thread, delayed) => There(u, thread', delayed')
  BY <1>9 DEF There
<1>11. promise' = Settle(promise, {}, "resolved") /\ started' = Unset(started, {})
  BY NothingSettled
<1>12. "resolved" \in Outcomes \ {"pending"}
  BY DEF Outcomes
<1>13. Around(m)'
  BY StatusIs, StatusOnly
<1>14. \A u : started[u] /\ Works(thread, u) /\ u \notin {} => Works(thread', u)
  BY <1>8
<1>15. \A u \in 1..Len(promise) :
         BusyOrRemoval /\ There(u, thread, delayed) /\ u \notin {} =>
           There(u, thread', delayed') \/ (started[u] /\ Works(thread, u))
  BY <1>10
<1>16. \A u \in 1..Len(promise) :
         u \in {} \ {} /\ started[u] /\ Works(thread, u) => There(u, thread', delayed')
  OBVIOUS
<1> QED
  BY <1>4, <1>7, <1>11, <1>12, <1>13, <1>14, <1>15, <1>16, SettlingStep

LEMMA NotAcknowledgedKeeps ==
    ASSUME NEW m, Core(m), NEW q \in Queues, NotAcknowledged(q)
    PROVE  Core(m)'
<1> DEFINE x == thread[q].active
           n == x.msg.node
<1>1. /\ HasResult(q) /\ n # Controller
      /\ UNCHANGED <<delayed, goodNight, resets, expired>>
  BY DEF NotAcknowledged
<1>2. CASE thread[q].sent + 1 < Attempts(x.msg)
  <2> DEFINE old == thread[q]
             new == [old EXCEPT !.sent = @ + 1]
  <2>1. /\ thread' = [thread EXCEPT ![q] = new] /\ serial' = Append(Tail(serial), q)
        /\ UNCHANGED <<promise, started, status>>
    BY <1>2 DEF NotAcknowledged, Sends
  <2>2. ThreadOK(q, m, old) /\ old.phase = "sending" /\ Fresh(old) = ToSet(old.list)
    BY <1>1, CoreParts, ResultIs
  <2>3. Attempts(x.msg) <= MaxAttempts /\ Attempts(x.msg) \in Nat /\ MaxAttempts \in Nat \ {0}
    BY ConstantsAssumption DEF Attempts, ConstantsAssumption
  <2> DEFINE more == old.sent + 1
  <2>4. more \in 0..MaxAttempts
    BY <1>2, <2>2, <2>3, ThreadFields DEF x
  <2> HIDE DEF old, more
  <2>5. new = [list |-> old.list, active |-> old.active, phase |-> "sending",
               sent |-> more, unsent |-> old.unsent]
    BY <2>2, ThreadFields DEF more
  <2> HIDE DEF new
  <2>6. ThreadOK(q, m, new) /\ Fresh(new) = Fresh(old) /\ new.active = old.active
        /\ new.phase = "sending"
    <3>1. "sending" \in AtWork /\ old.phase \notin {"idle", "failed"}
      BY <2>2 DEF AtWork
    <3> QED
      BY <2>2, <2>4, <2>5, <3>1, ThreadFields, PhaseChanges
  <2> QED
    BY <1>1, <2>1, <2>6, AgainStep DEF old
<1>3. CASE ~(thread[q].sent + 1 < Attempts(x.msg))
  <2>1. /\ serial' = Tail(serial)
        /\ RejectActive(q) \/ SleepingNodeMissing(q) \/ ListeningNodeMissing(q)
    BY <1>3 DEF NotAcknowledged
  <2> QED
    BY <1>1, <2>1, RejectActiveKeeps, SleepingNodeMissingKeeps, ListeningNodeMissingKeeps
<1> QED
  BY <1>2, <1>3

LEMMA NotSentKeeps ==
    ASSUME NEW m, Core(m), NEW q \in Queues, NotSent(q)
    PROVE  Core(m)'
<1>1. /\ HasResult(q) /\ serial' = Tail(serial)
      /\ UNCHANGED <<delayed, goodNight, resets, expired>>
  BY DEF NotSent
<1>2. CASE thread[q].unsent + 1 < MaxQueueAttempts
  <2> DEFINE old == thread[q]
             mid == [old EXCEPT !.phase = "waiting"]
             new == [mid EXCEPT !.unsent = @ + 1]
  <2>1. /\ thread' = [thread EXCEPT ![q].phase = "waiting", ![q].unsent = @ + 1]
        /\ UNCHANGED <<promise, started, status>>
    BY <1>2 DEF NotSent
  <2>2. ThreadOK(q, m, old) /\ old.phase = "sending" /\ Fresh(old) = ToSet(old.list)
        /\ thread = [p \in Queues |-> thread[p]]
    BY <1>1, CoreParts, ResultIs DEF Machine
  <2>3. thread' = [thread EXCEPT ![q] = new]
    <3> DEFINE one == [thread EXCEPT ![q].phase = "waiting"]
    <3>1. thread' = [one EXCEPT ![q].unsent = @ + 1]
      BY <2>1
    <3>2. one = [thread EXCEPT ![q] = mid]
      OBVIOUS
    <3>3. one[q] = mid /\ DOMAIN one = Queues /\ \A p \in Queues \ {q} : one[p] = thread[p]
      BY <2>2, <3>2
    <3> HIDE DEF one, mid
    <3>4. thread' = [one EXCEPT ![q] = new]
      BY <3>1, <3>3
    <3> HIDE DEF new
    <3>5. thread' = [p \in Queues |-> IF p = q THEN new ELSE thread[p]]
      BY <3>3, <3>4
    <3> QED
      BY <2>2, <3>5
  <2> DEFINE more == old.unsent + 1
  <2>4. more \in 0..MaxQueueAttempts
    BY <1>2, <2>2, ThreadFields, ConstantsAssumption DEF ConstantsAssumption
  <2> HIDE DEF old, more
  <2>5. mid = [list |-> old.list, active |-> old.active, phase |-> "waiting",
               sent |-> old.sent, unsent |-> old.unsent]
    BY <2>2, ThreadFields
  <2> HIDE DEF mid
  <2>6. new = [list |-> old.list, active |-> old.active, phase |-> "waiting",
               sent |-> old.sent, unsent |-> more]
    BY <2>5 DEF more
  <2> HIDE DEF new
  <2>7. ThreadOK(q, m, new) /\ Fresh(new) = Fresh(old) /\ new.active = old.active
        /\ new.phase = "waiting"
    <3>1. "waiting" \in AtWork /\ old.phase \notin {"idle", "failed"}
      BY <2>2 DEF AtWork
    <3> QED
      BY <2>2, <2>4, <2>6, <3>1, ThreadFields, PhaseChanges
  <2> QED
    BY <1>1, <2>1, <2>3, <2>7, AgainStep DEF old
<1>3. CASE ~(thread[q].unsent + 1 < MaxQueueAttempts)
  <2>1. RejectActive(q)
    BY <1>3 DEF NotSent
  <2> QED
    BY <1>1, <2>1, RejectActiveKeeps
<1> QED
  BY <1>2, <1>3

LEMMA FailsKeeps ==
    ASSUME NEW m, Core(m), NEW q \in Queues, Fails(q)
    PROVE  Core(m)'
BY RejectActiveKeeps DEF Fails

LEMMA ControllerResetKeeps ==
    ASSUME NEW m, Core(m), NEW q \in Queues, ControllerReset(q)
    PROVE  Core(m)'
<1> DEFINE x == thread[q].active
           f == Finalized(q)
           old == f[q]
           xs == <<Clone(x)>>
           new == Added(status, q, old, xs)
           ths == [f EXCEPT ![q] = new]
<1>1. /\ HasResult(q) /\ resets < MaxResets /\ resets' = resets + 1
      /\ serial' = Tail(serial) /\ started' = Unset(started, {x.t})
      /\ thread' = Listening(status, ths, q)
      /\ UNCHANGED <<promise, status, delayed, goodNight, expired>>
  BY DEF ControllerReset
<1>2. /\ Machine(m, f) /\ f[q].phase = "failed" /\ \A p \in Queues \ {q} : f[p] = thread[p]
      /\ \A p \in Queues : Fresh(f[p]) = Fresh(thread[p])
  BY <1>1, FinalizedIs
<1>3. x \in In(q, m)
  BY <1>1, ResultIs
<1>4. xs \in Seq(In(q, m)) /\ ToSet(xs) = {Clone(x)} /\ Clone(x).t = x.t
  <2>1. Clone(x) \in In(q, m) /\ Clone(x).t = x.t
    BY <1>3 DEF Clone, In, Known, Transaction
  <2> QED
    BY <2>1 DEF ToSet
<1>5. ThreadOK(q, m, old) /\ old.phase = "failed" /\ Fresh(old) = Fresh(thread[q])
      /\ f = [p \in Queues |-> f[p]]
  BY <1>2 DEF Machine
<1> HIDE DEF f, xs, old
<1>6. new = Added(status, q, old, xs)
  OBVIOUS
<1> HIDE DEF new
<1>7. ThreadOK(q, m, new) /\ SameWork(old, new) /\ Fresh(new) = Fresh(old) \cup ToSet(xs)
  BY <1>4, <1>5, <1>6, AddedKeeps
<1>8. /\ ths[q] = new /\ \A p \in Queues \ {q} : ths[p] = f[p]
      /\ ths = [p \in Queues |-> ths[p]]
  BY <1>5
<1> HIDE DEF ths
<1>9. Machine(m, ths)
  BY <1>2, <1>7, <1>8 DEF Machine
<1>10. ths[q].phase = "failed" /\ Turn(q, thread, ths)
  BY <1>2, <1>5, <1>7, <1>8, SameWorkPhase DEF Turn, SameWork
<1>11. /\ Machine(m, thread') /\ NoneFailed(thread') /\ SerialOK(serial', thread')
       /\ \A u : Works(thread, u) /\ u # x.t => Works(thread', u)
       /\ \A p \in Queues : Fresh(thread'[p]) = Fresh(ths[p])
  BY <1>1, <1>9, <1>10, FailedStep
<1>12. promise' = Settle(promise, {}, "resolved")
  BY <1>1, NothingSettled
<1>13. "resolved" \in Outcomes \ {"pending"}
  BY DEF Outcomes
<1>14. resets' \in 0..MaxResets
  BY <1>1, CoreParts, ConstantsAssumption DEF Around, ConstantsAssumption
<1>15. Around(m)'
  BY <1>1, <1>14, CoreParts DEF Around
<1>16. There(x.t, thread', delayed')
  BY <1>4, <1>7, <1>8, <1>11 DEF There
<1>17. \A u : There(u, thread, delayed) => There(u, thread', delayed')
  <2>1. \A p \in Queues : Fresh(thread[p]) \subseteq Fresh(thread'[p])
    BY <1>2, <1>5, <1>7, <1>8, <1>11
  <2> QED
    BY <1>1, <2>1 DEF There
<1> HIDE DEF x
<1>18. \A u : started[u] /\ Works(thread, u) /\ u \notin {x.t} => Works(thread', u)
  BY <1>11
<1>19. \A u \in 1..Len(promise) :
         BusyOrRemoval /\ There(u, thread, delayed) /\ u \notin {} =>
           There(u, thread', delayed') \/ (started[u] /\ Works(thread, u))
  BY <1>17
<1>20. \A u \in 1..Len(promise) :
         u \in {x.t} \ {} /\ started[u] /\ Works(thread, u) => There(u, thread', delayed')
  BY <1>16
<1> QED
  BY <1>1, <1>11, <1>12, <1>13, <1>15, <1>18, <1>19, <1>20, SettlingStep

Except(ths, q, new) == [ths EXCEPT ![q] = new]

LEMMA AnsweredStep ==
    ASSUME NEW m, Core(m), NEW q \in Queues, HasResult(q), serial' = Tail(serial),
           NEW ths, Machine(m, ths), Arranged(thread, ths), NEW new, ThreadOK(q, m, new),
           new.phase \in {"awaitingUpdate", "idle", "starting"},
           Fresh(new) = ToSet(ths[q].list), thread' = Except(ths, q, new)
    PROVE  /\ Machine(m, thread') /\ NoneFailed(thread') /\ SerialOK(serial', thread')
           /\ \A t : Works(thread, t) /\ t # thread[q].active.t => Works(thread', t)
           /\ \A p \in Queues : Fresh(thread'[p]) = Fresh(ths[p])
           /\ thread'[q] = new /\ \A p \in Queues \ {q} : thread'[p] = ths[p]
<1>1. ths = [p \in Queues |-> ths[p]]
  BY DEF Machine
<1>2. /\ thread'[q] = new /\ \A p \in Queues \ {q} : thread'[p] = ths[p]
      /\ thread' = [p \in Queues |-> thread'[p]]
  BY <1>1 DEF Except
<1>3. Machine(m, thread')
  BY <1>2 DEF Machine
<1>4. Turn(q, thread, thread')
  BY <1>2 DEF Turn, Arranged
<1>5. thread[q].phase = "sending" /\ Head(serial) = q
  BY ResultIs
<1>6. /\ NoneFailed(thread') /\ SerialOK(serial', thread')
      /\ \A t : Works(thread, t) /\ t # thread[q].active.t => Works(thread', t)
  BY <1>2, <1>4, <1>5, CoreParts, SerialAnswers
<1>7. Fresh(ths[q]) = ToSet(ths[q].list)
  <2>1. SameWork(thread[q], ths[q])
    BY DEF Arranged
  <2> QED
    BY <1>5, <2>1, SameWorkPhase DEF Fresh
<1> QED
  BY <1>2, <1>3, <1>6, <1>7

LEMMA SucceedsKeeps ==
    ASSUME NEW m, Core(m), NEW q \in Queues, Succeeds(q)
    PROVE  Core(m)'
<1> DEFINE x      == thread[q].active
           n      == x.msg.node
           known  == n # Controller /\ status[n] # "removed"
           wakes  == known /\ CanSleep(n) /\ x.msg.kind # "report" /\ status[n] = "asleep"
           st     == IF wakes THEN [status EXCEPT ![n] = "awake"]
                     ELSE IF known /\ ~CanSleep(n) THEN [status EXCEPT ![n] = "alive"]
                     ELSE status
           ths    == IF wakes THEN Woken(st, thread, n) ELSE thread
           pings  == IF wakes THEN Numbers(Pings(thread, n)) ELSE {}
           waits  == x.msg.kind = "get"
           solved == pings \cup (IF waits THEN {} ELSE {x.t})
<1>1. HasResult(q) /\ serial' = Tail(serial) /\ UNCHANGED <<delayed, goodNight, resets, expired>>
  BY DEF Succeeds
<1>2. x \in In(q, m) /\ thread[q].phase = "sending" /\ Fresh(thread[q]) = ToSet(thread[q].list)
  BY <1>1, ResultIs
<1>3. Machine(m, thread)
  BY CoreParts
<1>4. "resolved" \in Outcomes \ {"pending"}
  BY DEF Outcomes
<1>5. CASE started[x.t]
  <2> DEFINE new == IF waits THEN [ths[q] EXCEPT !.phase = "awaitingUpdate"]
                    ELSE Triggered(st, q, Done(ths[q]))
  <2>1. /\ status' = st /\ thread' = Except(ths, q, new)
        /\ promise' = Settle(promise, solved, "resolved") /\ started' = Unset(started, solved)
    BY <1>5 DEF Succeeds, Except
  <2>2. status' \in [Node -> Statuses]
    BY <2>1, StatusIs DEF Statuses
  <2>3. Around(m)'
    BY <1>1, <2>2, StatusOnly
  <2> HIDE DEF st
  <2>4. /\ Machine(m, ths) /\ Arranged(thread, ths)
        /\ \A t : There(t, thread, delayed) => There(t, ths, delayed) \/ t \in pings
    <3>1. CASE ~wakes
      BY <1>3, <3>1, ArrangedSelf
    <3>2. CASE wakes
      <4>1. n \in Node
        BY <1>2, <3>2, ConstantsAssumption DEF In, Known, Transaction, ConstantsAssumption
      <4> DEFINE woken == Woken(st, thread, n)
                 prio == [y \in Found(thread, n) \ Pings(thread, n) |-> y.prio]
                 drop == Pings(thread, n)
      <4> HIDE DEF n
      <4>2. /\ Machine(m, woken) /\ Arranged(thread, woken)
            /\ \A p \in Queues : Remains(thread[p], woken[p], drop, prio)
            /\ \A y \in DOMAIN prio : prio[y] \in 0..6
        BY <1>3, <4>1, WokenKeeps
      <4> HIDE DEF woken, prio, drop
      <4>3. \A t : There(t, thread, delayed) =>
              There(t, woken, delayed) \/ t \in Numbers(drop \ DOMAIN prio)
        BY <1>3, <4>2, ReducedThere
      <4>4. Numbers(drop \ DOMAIN prio) \subseteq Numbers(drop)
        BY DEF Numbers
      <4> QED
        BY <3>2, <4>2, <4>3, <4>4 DEF woken, drop
    <3> QED
      BY <3>1, <3>2
  <2> HIDE DEF ths
  <2>5. SameWork(thread[q], ths[q]) /\ ThreadOK(q, m, ths[q])
    BY <2>4 DEF Arranged, Machine
  <2>6. ths[q].phase = "sending" /\ ths[q].active = x
    BY <1>2, <2>5 DEF SameWork
  <2>7. /\ ThreadOK(q, m, new) /\ Fresh(new) = ToSet(ths[q].list)
        /\ new.phase \in {"awaitingUpdate", "idle", "starting"}
        /\ waits => new.phase = "awaitingUpdate" /\ new.active = x
    <3> DEFINE old == ths[q]
    <3> HIDE DEF old
    <3>1. CASE waits
      <4>1. new = [old EXCEPT !.phase = "awaitingUpdate"]
        BY <3>1 DEF old
      <4> HIDE DEF new
      <4>2. new = [list |-> old.list, active |-> old.active, phase |-> "awaitingUpdate",
                   sent |-> old.sent, unsent |-> old.unsent]
        BY <2>5, <4>1, ThreadFields DEF old
      <4>3. "awaitingUpdate" \in AtWork /\ old.phase \notin {"idle", "failed"}
        BY <2>6 DEF AtWork, old
      <4>4. ThreadOK(q, m, old)
        BY <2>5 DEF old
      <4>5. ThreadOK(q, m, new) /\ Fresh(new) = ToSet(old.list) /\ new.active = old.active
            /\ new.phase = "awaitingUpdate"
        BY <4>2, <4>3, <4>4, ThreadFields, PhaseChanges
      <4> QED
        BY <2>6, <4>5 DEF old
    <3>2. CASE ~waits
      <4>1. new = Triggered(st, q, Done(old)) /\ ThreadOK(q, m, old)
        BY <2>5, <3>2 DEF old
      <4> HIDE DEF new
      <4>2. ThreadOK(q, m, new) /\ new.phase \in {"idle", "starting"} /\ Fresh(new) = ToSet(old.list)
        BY <4>1, DoneTriggered
      <4> QED
        BY <3>2, <4>2 DEF old
    <3> QED
      BY <3>1, <3>2
  <2> HIDE DEF new
  <2>8. /\ Machine(m, thread') /\ NoneFailed(thread') /\ SerialOK(serial', thread')
        /\ \A t : Works(thread, t) /\ t # x.t => Works(thread', t)
        /\ \A p \in Queues : Fresh(thread'[p]) = Fresh(ths[p])
        /\ thread'[q] = new
    <3>1. /\ HasResult(q) /\ serial' = Tail(serial) /\ thread' = Except(ths, q, new)
          /\ Machine(m, ths) /\ Arranged(thread, ths) /\ ThreadOK(q, m, new)
          /\ new.phase \in {"awaitingUpdate", "idle", "starting"}
          /\ Fresh(new) = ToSet(ths[q].list)
      BY <1>1, <2>1, <2>4, <2>7
    <3> HIDE DEF ths
    <3> QED
      BY <3>1, AnsweredStep
  <2>9. \A t : t = x.t /\ t \notin solved => Works(thread', t)
    BY <2>7, <2>8 DEF Works, AtWork
  <2>10. pings \subseteq solved
    OBVIOUS
  <2> HIDE DEF solved, pings, x
  <2>11. \A t : started[t] /\ Works(thread, t) /\ t \notin solved => Works(thread', t)
    BY <2>8, <2>9
  <2>12. \A t \in 1..Len(promise) :
           BusyOrRemoval /\ There(t, thread, delayed) /\ t \notin solved =>
             There(t, thread', delayed') \/ (started[t] /\ Works(thread, t))
    <3>1. \A t : There(t, ths, delayed) => There(t, thread', delayed')
      BY <1>1, <2>8 DEF There
    <3> QED
      BY <2>4, <2>10, <3>1
  <2>13. \A t \in 1..Len(promise) :
           t \in solved \ solved /\ started[t] /\ Works(thread, t) => There(t, thread', delayed')
    OBVIOUS
  <2> QED
    BY <1>4, <2>1, <2>3, <2>8, <2>11, <2>12, <2>13, SettlingStep
<1>6. CASE ~started[x.t]
  <2> DEFINE old == thread[q]
             new == Triggered(status, q, Done(old))
  <2>1. /\ thread' = Except(thread, q, new)
        /\ UNCHANGED <<status, promise, started>>
    BY <1>6 DEF Succeeds, Except
  <2>2. ThreadOK(q, m, old)
    BY CoreParts
  <2> HIDE DEF old
  <2>3. new = Triggered(status, q, Done(old))
    OBVIOUS
  <2> HIDE DEF new
  <2>4. ThreadOK(q, m, new) /\ new.phase \in {"idle", "starting"} /\ Fresh(new) = ToSet(old.list)
    BY <2>2, <2>3, DoneTriggered
  <2>5. Arranged(thread, thread)
    BY ArrangedSelf
  <2>6. /\ Machine(m, thread') /\ NoneFailed(thread') /\ SerialOK(serial', thread')
        /\ \A t : Works(thread, t) /\ t # x.t => Works(thread', t)
        /\ \A p \in Queues : Fresh(thread'[p]) = Fresh(thread[p])
    BY <1>1, <1>3, <2>1, <2>4, <2>5, AnsweredStep DEF old
  <2>7. Around(m)'
    BY <1>1, <2>1, StatusIs, StatusOnly
  <2> HIDE DEF x
  <2>8. \A t : started[t] /\ Works(thread, t) /\ t \notin {} => Works(thread', t)
    BY <1>6, <2>6
  <2>9. \A t \in 1..Len(promise) :
          BusyOrRemoval /\ There(t, thread, delayed) /\ t \notin {} =>
            There(t, thread', delayed') \/ (started[t] /\ Works(thread, t))
    BY <1>1, <2>6 DEF There
  <2>10. \A t \in 1..Len(promise) :
           t \in {} \ {} /\ started[t] /\ Works(thread, t) => There(t, thread', delayed')
    OBVIOUS
  <2>11. promise' = Settle(promise, {}, "resolved") /\ started' = Unset(started, {})
    BY <2>1, NothingSettled
  <2> QED
    BY <1>4, <2>6, <2>7, <2>8, <2>9, <2>10, <2>11, SettlingStep
<1> QED
  BY <1>5, <1>6
-----------------------------------------------------------------------------
(* Every step.                                                             *)

IInv == \E m \in Seq(Messages) : Core(m)

LEMMA SendMessageKeeps ==
    ASSUME NEW m, Core(m), NEW e \in Messages, SendMessage(e)
    PROVE  Core(Append(m, e))'
<1>1. goodNight' \in [Node -> 0..MaxMessages] /\ Enqueue(e)
      /\ UNCHANGED <<serial, status, delayed, resets, expired>>
  BY CoreParts DEF SendMessage, Around
<1> QED
  BY <1>1, EnqueueKeeps

LEMMA SendToSleepKeeps ==
    ASSUME NEW m, Core(m), NEW n \in Node, SendToSleep(n)
    PROVE  \E e \in Messages : Core(Append(m, e))'
<1> DEFINE e == [kind |-> "noMoreInformation", node |-> n]
<1>1. /\ e \in Messages /\ Enqueue(e)
      /\ goodNight' = [goodNight EXCEPT ![n] = Len(promise) + 1]
      /\ UNCHANGED <<serial, status, delayed, resets, expired>>
  BY DEF SendToSleep
<1>2. Len(promise) \in Nat /\ Len(promise) < MaxMessages
  BY <1>1, CoreParts DEF Typed, Enqueue, Outcomes
<1>3. goodNight' \in [Node -> 0..MaxMessages]
  BY <1>1, <1>2, CoreParts, ConstantsAssumption DEF Around, ConstantsAssumption
<1> HIDE DEF e
<1>4. Core(Append(m, e))'
  BY <1>1, <1>3, EnqueueKeeps
<1> QED
  BY <1>1, <1>4

LEMMA StutterKeeps ==
    ASSUME NEW m, Core(m), UNCHANGED vars
    PROVE  Core(m)'
BY DEF vars, Core, Typed, Around, PendingHeld

LEMMA InitCore ==
    ASSUME Init
    PROVE  Core(<<>>)
<1> DEFINE m == <<>>
<1>1. m \in Seq(Messages) /\ Len(m) = 0 /\ MaxMessages \in Nat /\ MaxResets \in Nat
      /\ MaxAttempts \in Nat /\ MaxQueueAttempts \in Nat
  BY ConstantsAssumption DEF ConstantsAssumption
<1>2. /\ promise = <<>> /\ started = <<>> /\ serial = <<>>
      /\ thread = [q \in Queues |-> Idle]
      /\ status = [n \in Node |-> IF CanSleep(n) THEN "asleep" ELSE "unknown"]
      /\ delayed = [n \in Node |-> <<>>] /\ goodNight = [n \in Node |-> 0]
      /\ resets = 0 /\ expired = {}
  BY DEF Init
<1> HIDE DEF m
<1>3. Typed(m)
  BY <1>1, <1>2 DEF Typed, Outcomes
<1>4. Around(m)
  <2>1. ToSet(<<>>) = {}
    BY DEF ToSet
  <2>2. status \in [Node -> Statuses]
    BY <1>2 DEF Statuses
  <2>3. /\ delayed \in [Node -> Seq(Known(m))]
        /\ \A n \in Node : delayed[n] = <<>>
    <3>1. <<>> \in Seq(Known(m))
      OBVIOUS
    <3> QED
      BY <1>2, <3>1
  <2>4. goodNight \in [Node -> 0..MaxMessages] /\ resets \in 0..MaxResets
    BY <1>1, <1>2
  <2> QED
    BY <1>2, <2>1, <2>2, <2>3, <2>4 DEF Around
<1>5. \A q \in Queues : ThreadOK(q, m, Idle)
  <2> SUFFICES ASSUME NEW q \in Queues PROVE ThreadOK(q, m, Idle)
    OBVIOUS
  <2>1. <<>> \in Seq(In(q, m))
    OBVIOUS
  <2>2. Idle \in Threads(q, m)
    BY <1>1, <2>1 DEF Idle, Threads, Phases
  <2> QED
    BY <2>2 DEF ThreadOK, Idle
<1>6. Machine(m, thread) /\ \A q \in Queues : thread[q].phase = "idle"
  BY <1>2, <1>5 DEF Machine, Idle
<1>7. NoneFailed(thread) /\ SerialOK(serial, thread)
  BY <1>2, <1>6 DEF NoneFailed, SerialOK
<1>8. StartedOK(started, thread) /\ PendingHeld
  BY <1>2 DEF StartedOK, PendingHeld
<1> QED
  BY <1>3, <1>4, <1>6, <1>7, <1>8 DEF Core, m

LEMMA LoopKeeps ==
    ASSUME NEW m, Core(m), NEW q \in Queues, Loop(q)
    PROVE  Core(m)'
<1>1. CASE Start(q)
  BY <1>1, StartKeeps
<1>2. CASE Succeeds(q)
  BY <1>2, SucceedsKeeps
<1>3. CASE NotAcknowledged(q)
  BY <1>3, NotAcknowledgedKeeps
<1>4. CASE NotSent(q)
  BY <1>4, NotSentKeeps
<1>5. CASE Fails(q)
  BY <1>5, FailsKeeps
<1>6. CASE ControllerReset(q)
  BY <1>6, ControllerResetKeeps
<1>7. CASE WaitEnds(q)
  BY <1>7, WaitEndsKeeps
<1>8. CASE UpdateArrives(q)
  BY <1>8, UpdateArrivesKeeps
<1>9. CASE UpdateTimeout(q)
  BY <1>9, UpdateTimeoutKeeps
<1> QED
  BY <1>1, <1>2, <1>3, <1>4, <1>5, <1>6, <1>7, <1>8, <1>9 DEF Loop, Result

LEMMA NextKeeps ==
    ASSUME NEW m \in Seq(Messages), Core(m), [Next]_vars
    PROVE  IInv'
<1>1. ASSUME NEW e \in Messages PROVE Append(m, e) \in Seq(Messages)
  OBVIOUS
<1>2. ASSUME NEW e \in Messages, SendMessage(e) PROVE IInv'
  BY <1>1, <1>2, SendMessageKeeps DEF IInv
<1>3. ASSUME NEW n \in Node, SendToSleep(n) PROVE IInv'
  <2>1. PICK e \in Messages : Core(Append(m, e))'
    BY <1>3, SendToSleepKeeps
  <2> QED
    BY <1>1, <2>1 DEF IInv
<1>4. ASSUME NEW q \in Queues, Loop(q) PROVE Core(m)'
  BY <1>4, LoopKeeps
<1>5. ASSUME NEW n \in Node,
             NodeSpeaks(n) \/ NodeWakes(n) \/ NodeInfoReceived(n) \/ FallAsleep(n)
               \/ NodeBusy(n) \/ DelayEnds(n) \/ NodeRemoved(n)
      PROVE  Core(m)'
  BY <1>5, NodeSpeaksKeeps, NodeWakesKeeps, NodeInfoReceivedKeeps, FallAsleepKeeps,
     NodeBusyKeeps, DelayEndsKeeps, NodeRemovedKeeps
<1>6. ASSUME PrematureUpdate PROVE Core(m)'
  BY <1>6, PrematureUpdateKeeps
<1>7. ASSUME NEW t \in DOMAIN promise, Expire(t) PROVE Core(m)'
  BY <1>7, ExpireKeeps
<1>8. ASSUME UNCHANGED vars PROVE Core(m)'
  BY <1>8, StutterKeeps
<1>9. Core(m)' => IInv'
  BY DEF IInv
<1> QED
  BY <1>2, <1>3, <1>4, <1>5, <1>6, <1>7, <1>8, <1>9 DEF Next

LEMMA Invariance == Spec => []IInv
<1>1. Init => IInv
  <2>1. <<>> \in Seq(Messages)
    OBVIOUS
  <2> QED
    BY <2>1, InitCore DEF IInv
<1>2. IInv /\ [Next]_vars => IInv'
  BY NextKeeps DEF IInv
<1> QED
  BY <1>1, <1>2, PTL DEF Spec
-----------------------------------------------------------------------------
(* Type correctness: at every moment the queues, the loops, what the       *)
(* Serial API queue holds and the status of the nodes are what Driver.ts   *)
(* and Transaction.ts declare.                                             *)
THEOREM TypeCorrect == Spec => []TypeOK
<1>1. IInv => TypeOK
  <2> SUFFICES ASSUME NEW m \in Seq(Messages), Core(m) PROVE TypeOK
    BY DEF IInv
  <2>1. /\ promise \in Seq({"pending", "resolved", "rejected"})
        /\ started \in Seq(BOOLEAN) /\ Len(started) = Len(promise)
        /\ Len(m) = Len(promise)
    BY CoreParts DEF Typed, Outcomes
  <2>2. \A q \in Queues : ThreadOK(q, m, thread[q]) /\ thread[q].phase # "failed"
    BY CoreParts DEF NoneFailed
  <2>3. Copies \subseteq Transaction
    <3>1. \A q \in Queues : Elements(thread[q]) \subseteq In(q, m)
      BY <2>2, ElementsAre
    <3>2. \A n \in Node : ToSet(delayed[n]) \subseteq Known(m)
      BY CoreParts, ToSetType
    <3> QED
      BY <3>1, <3>2 DEF Copies, Visited, Elements, In, Known
  <2>4. ASSUME NEW q \in Queues
        PROVE  /\ thread[q].phase \in {"idle", "starting", "sending", "waiting", "awaitingUpdate"}
               /\ thread[q].phase = "idle" <=> thread[q].active = NoTransaction
               /\ thread[q].sent \in 0..MaxAttempts /\ thread[q].unsent \in 0..MaxQueueAttempts
    BY <2>2, ThreadFields DEF Phases
  <2>5. /\ serial \in Seq(Queues)
        /\ \A i, j \in 1..Len(serial) : serial[i] = serial[j] => i = j
        /\ \A q \in Queues : thread[q].phase = "sending" <=> \E i \in 1..Len(serial) : serial[i] = q
    BY CoreParts DEF SerialOK
  <2>6. DOMAIN serial = 1..Len(serial) /\ Len(serial) \in Nat
    BY <2>5
  <2>7. Len(serial) <= 2
    <3> SUFFICES ASSUME 3 <= Len(serial) PROVE FALSE
      BY <2>6
    <3>1. 1 \in 1..Len(serial) /\ 2 \in 1..Len(serial) /\ 3 \in 1..Len(serial)
      BY <2>6
    <3>2. serial[1] \in Queues /\ serial[2] \in Queues /\ serial[3] \in Queues
      BY <2>5, <3>1
    <3>3. serial[1] # serial[2] /\ serial[1] # serial[3] /\ serial[2] # serial[3]
      BY <2>5, <3>1
    <3> QED
      BY <3>2, <3>3 DEF Queues
  <2>8. /\ status \in [Node -> {"unknown", "asleep", "awake", "dead", "alive", "removed"}]
        /\ goodNight \in [Node -> 0..MaxMessages] /\ resets \in 0..MaxResets
        /\ expired \subseteq 1..Len(m)
    BY CoreParts DEF Around, Statuses
  <2>9. DOMAIN promise = 1..Len(m)
    BY <2>1
  <2> QED
    BY <2>1, <2>3, <2>4, <2>5, <2>6, <2>7, <2>8, <2>9 DEF TypeOK
<1> QED
  BY <1>1, Invariance, PTL

(* The loop of a queue never continues a message generator that was        *)
(* started before: moveMessagesToWakeupQueue and the requeueing of         *)
(* handleSerialAPICommandResult reset it, whatever happens around them.    *)
THEOREM StartsWithFreshGenerator == Spec => []StartsAfresh
<1>1. IInv => StartsAfresh
  BY StartIsFresh DEF IInv, StartsAfresh
<1> QED
  BY <1>1, Invariance, PTL

(* No transaction is forgotten, if nodes are not removed while messages    *)
(* for them are put aside because they were busy: onNodeRemoved rejects    *)
(* what is queued, and forgets what delayTransactionsForNode took away.    *)
THEOREM PendingNotForgotten == BusyOrRemoval => (Spec => []PendingIsOwned)
<1> SUFFICES ASSUME BusyOrRemoval PROVE Spec => []PendingIsOwned
  OBVIOUS
<1>1. IInv => PendingIsOwned
  <2> SUFFICES ASSUME NEW m \in Seq(Messages), Core(m), NEW t \in DOMAIN promise,
                      promise[t] = "pending"
               PROVE  \E x \in Copies : x.t = t
    BY DEF IInv, PendingIsOwned
  <2>1. t \in 1..Len(promise) /\ \A q \in Queues : ThreadOK(q, m, thread[q])
    BY CoreParts DEF Typed
  <2>2. HeldBy(t, started, thread, delayed)
    BY <2>1, CoreParts DEF PendingHeld
  <2>3. \A q \in Queues : /\ Elements(thread[q]) \subseteq Copies
                          /\ Fresh(thread[q]) \subseteq Elements(thread[q])
                          /\ thread[q].phase \in AtWork => thread[q].active \in Elements(thread[q])
    BY <2>1, ElementsAre DEF Copies, Visited, Elements
  <2>4. \A n \in Node : ToSet(delayed[n]) \subseteq Copies
    BY DEF Copies
  <2> QED
    BY <2>2, <2>3, <2>4 DEF HeldBy, Works
<1> QED
  BY <1>1, Invariance, PTL

(* Only handleMissingNodeACK marks a node as dead.                         *)
Dies(n) == status[n] # "dead" /\ status'[n] = "dead"

LEMMA DeathIsMissedAck ==
    ASSUME NEW m, Core(m), [Next]_vars, NEW n \in Node, Dies(n)
    PROVE  \E q \in Queues : /\ HasResult(q) /\ ListeningNodeMissing(q)
                             /\ thread[q].active.msg.node = n
<1>1. status \in [Node -> Statuses]
  BY StatusIs
<1>2. status' # status
  BY DEF Dies
<1>3. \A k : status' # Heard(k)
  BY <1>1 DEF Dies, Heard
<1>4. \A k, s : s # "dead" => status' # [status EXCEPT ![k] = s]
  BY <1>1 DEF Dies
<1>5. ASSUME NEW q \in Queues, Loop(q) PROVE HasResult(q) /\ ListeningNodeMissing(q)
  <2>1. ~Succeeds(q)
    <3> SUFFICES ASSUME Succeeds(q) PROVE FALSE
      OBVIOUS
    <3> DEFINE x == thread[q].active
               k == x.msg.node
    <3>1. \/ status' = [status EXCEPT ![k] = "awake"]
          \/ status' = [status EXCEPT ![k] = "alive"]
          \/ status' = status
      BY DEF Succeeds
    <3> QED
      BY <1>2, <1>4, <3>1
  <2>2. ~Start(q) /\ ~NotSent(q) /\ ~Fails(q) /\ ~ControllerReset(q) /\ ~WaitEnds(q)
        /\ ~UpdateTimeout(q) /\ ~RejectActive(q)
    BY <1>2 DEF Start, NotSent, Fails, ControllerReset, WaitEnds, UpdateTimeout, RejectActive
  <2>3. ~UpdateArrives(q)
    BY <1>3 DEF UpdateArrives
  <2>4. ~SleepingNodeMissing(q)
    BY <1>4 DEF SleepingNodeMissing
  <2>5. NotAcknowledged(q)
    BY <1>5, <2>1, <2>2, <2>3 DEF Loop, Result
  <2> QED
    BY <1>2, <2>2, <2>4, <2>5 DEF NotAcknowledged
<1>6. \E q \in Queues : HasResult(q) /\ ListeningNodeMissing(q)
  <2>1. \A e \in Messages : ~SendMessage(e)
    BY <1>2 DEF SendMessage
  <2>2. \A k \in Node : ~NodeSpeaks(k) /\ ~NodeInfoReceived(k)
    BY <1>3 DEF NodeSpeaks, NodeInfoReceived
  <2>3. \A k \in Node : ~NodeWakes(k) /\ ~NodeRemoved(k)
    BY <1>4 DEF NodeWakes, NodeRemoved
  <2>4. \A k \in Node : ~FallAsleep(k)
    BY <1>2, <1>4 DEF FallAsleep
  <2>5. \A k \in Node : ~SendToSleep(k) /\ ~NodeBusy(k) /\ ~DelayEnds(k)
    BY <1>2 DEF SendToSleep, NodeBusy, DelayEnds
  <2>6. ~PrematureUpdate
    BY <1>3 DEF PrematureUpdate
  <2>7. \A t \in DOMAIN promise : ~Expire(t)
    BY <1>2 DEF Expire
  <2>8. ~UNCHANGED vars
    BY <1>2 DEF vars
  <2> QED
    BY <1>5, <2>1, <2>2, <2>3, <2>4, <2>5, <2>6, <2>7, <2>8 DEF Next
<1>7. PICK q \in Queues : HasResult(q) /\ ListeningNodeMissing(q)
  BY <1>6
<1>8. thread[q].active.msg.node = n
  <2>1. status' = [status EXCEPT ![thread[q].active.msg.node] = "dead"]
    BY <1>7 DEF ListeningNodeMissing
  <2> QED
    BY <1>1, <2>1 DEF Dies
<1> QED
  BY <1>7, <1>8

LEMMA DeathStep ==
    ASSUME NEW m, Core(m), [Next]_vars, NEW n \in Node, Dies(n),
           NEW p \in Queues, NEW y \in Elements(thread[p]), To(y, n)
    PROVE  promise'[y.t] # "pending" \/ Runs(y.t)
<1>1. PICK q \in Queues : /\ HasResult(q) /\ ListeningNodeMissing(q)
                          /\ thread[q].active.msg.node = n
  BY DeathIsMissedAck
<1> DEFINE x == thread[q].active
           f == Finalized(q)
           S == Numbers(Found(f, n)) \cup {x.t}
           T == {t \in S : ~Runs(t)}
<1>2. Abort(S, "rejected")
  BY <1>1 DEF ListeningNodeMissing
<1>3. promise' = Settle(promise, T, "rejected")
  BY <1>2, Aborted
<1>4. /\ Machine(m, f) /\ f[q].list = thread[q].list
      /\ \A r \in Queues \ {q} : f[r] = thread[r]
  BY <1>1, FinalizedIs
<1>5. \A r \in Queues : ThreadOK(r, m, thread[r]) /\ ThreadOK(r, m, f[r])
  BY <1>4, CoreParts DEF Machine
<1>6. y \in In(p, m) /\ y.t \in 1..Len(promise) /\ promise \in Seq(Outcomes)
  BY <1>5, ElementsAre, CoreParts DEF In, Known, Typed
<1>7. y.t \in S
  <2>1. CASE p = q /\ y = x
    BY <2>1
  <2>2. CASE ~(p = q /\ y = x)
    <3>1. y \in Elements(f[p])
      <4>1. CASE p # q
        BY <1>4, <4>1
      <4>2. CASE p = q
        <5>1. y \in ToSet(thread[p].list) \cup {x}
          BY <1>5, <4>2, ElementsAre
        <5>2. y \in ToSet(f[p].list)
          BY <1>4, <2>2, <4>2, <5>1
        <5> QED
          BY <1>5, <5>2, ElementsAre
      <4> QED
        BY <4>1, <4>2
    <3>2. y \in Found(f, n)
      BY <1>4, <3>1, FoundAre DEF To
    <3> QED
      BY <3>2 DEF Numbers
  <2> QED
    BY <2>1, <2>2
<1>8. "rejected" \in Outcomes
  BY DEF Outcomes
<1>9. promise'[y.t] = IF y.t \in T /\ promise[y.t] = "pending" THEN "rejected" ELSE promise[y.t]
  <2> HIDE DEF T
  <2> QED
    BY <1>3, <1>6, <1>8, SettleFacts
<1> QED
  BY <1>7, <1>9

(* When a node is found dead, no message for it is left waiting in the     *)
(* queues or in a loop, whichever queue it is in and whatever it waits     *)
(* for: handleMissingNodeACK and rejectAllTransactionsForNode settle them  *)
(* all, except one whose generator runs and settles it itself.             *)
THEOREM DeathIsTold == Spec => DeathRejectsAll
<1> DEFINE Rejects == \A n \in Node : status[n] # "dead" /\ status'[n] = "dead" =>
             \A q \in Queues : \A x \in ToSet(thread[q].list \o Active(thread[q])) :
               To(x, n) => promise'[x.t] # "pending" \/ Runs(x.t)
<1>1. IInv /\ [Next]_vars => Rejects
  BY DeathStep DEF IInv, Dies, Elements
<1> QED
  <2> HIDE DEF Rejects
  <2>1. Spec => [][Rejects]_vars
    BY <1>1, Invariance, PTL DEF Spec
  <2> QED
    BY <2>1 DEF Rejects, DeathRejectsAll
-----------------------------------------------------------------------------
(* Messages that may be sent are not stuck behind those that may not.      *)

NoManual == \A n \in Node : NodeKind[n] # "manual"

(* Listening nodes are never asleep or awake.                              *)
Listens(st) == \A n \in Node : NodeKind[n] = "listening" => st[n] \notin {"asleep", "awake"}

Blocked(st, x) == Asleep(st, x) /\ x.msg.kind # "ping"
Orderly(st, l) == \A i, j \in 1..Len(l) : i < j /\ Blocked(st, l[i]) => Blocked(st, l[j])
Ranked(S) == \A x \in S : x.prio = Priority(x.msg)
Sorted(st, l) == \A i, j \in 1..Len(l) : i < j => ~Before(st, l[j], l[i])

(* No pings to a node that can sleep beside pings to another node: of two  *)
(* pings, both or none are for a sleeping node.                            *)
PingsAgree ==
    \A a, b \in Messages :
      a.kind = "ping" /\ b.kind = "ping" /\ CanSleep(a.node) => b.node = a.node

LEMMA AsleepPriority ==
    ASSUME NoManual, NEW st, Listens(st), NEW m, NEW x \in In("normal", m),
           x.prio = Priority(x.msg), Asleep(st, x)
    PROVE  x.prio = IF Blocked(st, x) THEN 5 ELSE 4
<1>1. /\ x.msg \in Messages /\ x.msg.node # Controller /\ st[x.msg.node] = "asleep"
      /\ x.msg.kind # "report"
  BY DEF In, Known, Transaction, Asleep, QueueOf
<1>2. x.msg.node \in Node /\ x.msg.kind # "controller" /\ x.msg.kind \in MessageKinds
  BY <1>1, ConstantsAssumption DEF ConstantsAssumption
<1>3. NodeKind[x.msg.node] = "sleeping"
  BY <1>1, <1>2, ConstantsAssumption DEF ConstantsAssumption, NoManual, Listens, NodeKinds
<1> QED
  BY <1>1, <1>2, <1>3 DEF Priority, Blocked, WakeUp

LEMMA BeforeBlocked ==
    ASSUME NoManual, NEW st, Listens(st), NEW m, NEW x \in In("normal", m),
           NEW y \in In("normal", m), Ranked({x, y})
    PROVE  /\ Blocked(st, x) /\ Before(st, x, y) => Blocked(st, y)
           /\ ~Blocked(st, x) /\ Blocked(st, y) => Before(st, x, y)
<1>1. /\ Asleep(st, x) => x.prio = IF Blocked(st, x) THEN 5 ELSE 4
      /\ Asleep(st, y) => y.prio = IF Blocked(st, y) THEN 5 ELSE 4
  BY AsleepPriority DEF Ranked
<1>2. Blocked(st, x) => Asleep(st, x)
  BY DEF Blocked
<1>3. Blocked(st, y) => Asleep(st, y)
  BY DEF Blocked
<1>4. x.t \in Nat /\ y.t \in Nat /\ Asleep(st, x) \in BOOLEAN /\ Asleep(st, y) \in BOOLEAN
  BY DEF In, Known, Transaction, Asleep
<1> QED
  BY <1>1, <1>2, <1>3, <1>4 DEF Before, WakeUp

(* compareTo is a strict order: the transactions in a queue that are for   *)
(* awake nodes or the controller come by priority, those of priority       *)
(* WakeUp for sleeping nodes come last, and pings to sleeping nodes come   *)
(* after what is for awake nodes that sleep at times and before what is    *)
(* for nodes that never do.                                                *)
LEMMA BeforeIsOrder ==
    ASSUME NoManual, PingsAgree, NEW st, Listens(st), NEW q \in Queues, NEW m,
           NEW x \in In(q, m), NEW y \in In(q, m), NEW z \in In(q, m), Ranked({x, y, z})
    PROVE  /\ ~Before(st, x, x)
           /\ Before(st, x, y) => ~Before(st, y, x)
           /\ Before(st, x, y) /\ Before(st, y, z) => Before(st, x, z)
<1> DEFINE U == {x, y, z}
<1>1. \A u \in U : u \in In(q, m) /\ u.prio = Priority(u.msg)
  BY DEF Ranked
<1> HIDE DEF U
<1>2. \A u \in U : u.t \in Nat /\ u.prio \in 0..6 /\ Asleep(st, u) \in BOOLEAN
  BY <1>1 DEF In, Known, Transaction, Asleep
<1>3. x \in U /\ y \in U /\ z \in U
  BY DEF U
<1>4. CASE q = "immediate"
  <2>1. \A u \in U : u.prio = 2
    BY <1>1, <1>4 DEF In, QueueOf, Priority
  <2> QED
    BY <1>2, <1>3, <2>1 DEF Before, WakeUp
<1>5. CASE q = "normal"
  <2>1. ASSUME NEW u \in U, Asleep(st, u)
        PROVE  u.prio \in {4, 5}
    BY <1>1, <1>5, <2>1, AsleepPriority
  <2>2. ASSUME NEW u \in U, NEW v \in U, u.prio = 4, v.prio = 4, Asleep(st, u)
        PROVE  Asleep(st, v)
    <3>1. /\ u.msg \in Messages /\ v.msg \in Messages
          /\ u.prio = Priority(u.msg) /\ v.prio = Priority(v.msg)
      BY <1>1 DEF In, Known, Transaction
    <3>2. u.msg.kind = "ping" /\ v.msg.kind = "ping"
      BY <2>2, <3>1 DEF Priority, WakeUp
    <3>3. u.msg.node \in Node /\ st[u.msg.node] = "asleep"
      BY <2>2, <3>1, <3>2, ConstantsAssumption DEF ConstantsAssumption, Asleep
    <3>4. CanSleep(u.msg.node)
      BY <3>3 DEF Listens, CanSleep
    <3>5. v.msg.node = u.msg.node
      BY <3>1, <3>2, <3>4 DEF PingsAgree
    <3> QED
      BY <2>2, <3>5 DEF Asleep
  <2> QED
    BY <1>2, <1>3, <2>1, <2>2 DEF Before, WakeUp
<1> QED
  BY <1>4, <1>5 DEF Queues

LEMMA InsertedOrderly ==
    ASSUME NoManual, NEW m, NEW list \in Seq(In("normal", m)), NEW x \in In("normal", m),
           NEW st, Listens(st), Ranked(ToSet(list)), x.prio = Priority(x.msg),
           Orderly(st, list)
    PROVE  Orderly(st, Inserted(st, list, x))
<1> DEFINE T == In("normal", m)
           r == Inserted(st, list, x)
<1> HIDE DEF T, r
<1>1. list \in Seq(T) /\ x \in T
  BY DEF T
<1>2. /\ Len(r) = Len(list) + 1 /\ Len(list) \in Nat
      /\ \E k \in 1..(Len(list) + 1) :
           /\ r[k] = x
           /\ \A i \in 1..(k - 1) : r[i] = list[i] /\ ~Before(st, x, list[i])
           /\ \A i \in k..Len(list) : r[i + 1] = list[i]
           /\ k <= Len(list) => Before(st, x, list[k])
  BY <1>1, InsertedFacts, SMTT(30) DEF r
<1>3. PICK k \in 1..(Len(list) + 1) :
           /\ r[k] = x
           /\ \A i \in 1..(k - 1) : r[i] = list[i] /\ ~Before(st, x, list[i])
           /\ \A i \in k..Len(list) : r[i + 1] = list[i]
           /\ k <= Len(list) => Before(st, x, list[k])
  BY <1>2
<1>4. \A i \in 1..Len(list) : /\ Blocked(st, x) /\ Before(st, x, list[i]) => Blocked(st, list[i])
                              /\ ~Blocked(st, x) /\ Blocked(st, list[i]) => Before(st, x, list[i])
  <2> SUFFICES ASSUME NEW i \in 1..Len(list)
               PROVE  /\ Blocked(st, x) /\ Before(st, x, list[i]) => Blocked(st, list[i])
                      /\ ~Blocked(st, x) /\ Blocked(st, list[i]) => Before(st, x, list[i])
    OBVIOUS
  <2> DEFINE y == list[i]
  <2>1. y \in ToSet(list) /\ y \in In("normal", m)
    BY ToSetType
  <2> HIDE DEF y
  <2>2. Ranked({x, y})
    BY <2>1 DEF Ranked
  <2>3. /\ Blocked(st, x) /\ Before(st, x, y) => Blocked(st, y)
        /\ ~Blocked(st, x) /\ Blocked(st, y) => Before(st, x, y)
    BY <2>1, <2>2, BeforeBlocked
  <2> QED
    BY <2>3 DEF y
<1>5. \A i \in 1..(k - 1) : i \in 1..Len(list) /\ (Blocked(st, list[i]) => Blocked(st, x))
  BY <1>2, <1>3, <1>4
<1>6. Blocked(st, x) => \A i \in k..Len(list) : i \in 1..Len(list) /\ Blocked(st, list[i])
  <2> SUFFICES ASSUME Blocked(st, x), NEW i \in k..Len(list)
               PROVE  i \in 1..Len(list) /\ Blocked(st, list[i])
    OBVIOUS
  <2>1. i \in 1..Len(list) /\ k \in 1..Len(list)
    BY <1>2, <1>3
  <2>2. Blocked(st, list[k])
    BY <1>3, <1>4, <2>1
  <2>3. i = k \/ k < i
    BY <2>1
  <2> QED
    BY <2>1, <2>2, <2>3 DEF Orderly
<1>7. \A i \in 1..Len(r) : \/ i \in 1..(k - 1) /\ r[i] = list[i]
                           \/ i = k /\ r[i] = x
                           \/ i - 1 \in k..Len(list) /\ r[i] = list[i - 1] /\ i > k
  <2> SUFFICES ASSUME NEW i \in 1..Len(r)
               PROVE  \/ i \in 1..(k - 1) /\ r[i] = list[i]
                      \/ i = k /\ r[i] = x
                      \/ i - 1 \in k..Len(list) /\ r[i] = list[i - 1] /\ i > k
    OBVIOUS
  <2>1. CASE i < k
    BY <1>2, <1>3, <2>1
  <2>2. CASE i = k
    BY <1>3, <2>2
  <2>3. CASE i > k
    <3>1. i - 1 \in k..Len(list)
      BY <1>2, <2>3
    <3>2. r[(i - 1) + 1] = list[i - 1]
      BY <1>3, <3>1
    <3> QED
      BY <2>3, <3>1, <3>2
  <2> QED
    BY <2>1, <2>2, <2>3
<1>8. ASSUME NEW i \in 1..Len(r), NEW j \in 1..Len(r), i < j, Blocked(st, r[i])
      PROVE  Blocked(st, r[j])
  <2>1. CASE i \in 1..(k - 1) /\ r[i] = list[i]
    <3>1. Blocked(st, list[i]) /\ Blocked(st, x)
      BY <1>5, <1>8, <2>1
    <3>2. CASE j \in 1..(k - 1) /\ r[j] = list[j]
      BY <1>5, <1>8, <2>1, <3>1, <3>2 DEF Orderly
    <3>3. CASE j = k /\ r[j] = x
      BY <3>1, <3>3
    <3>4. CASE j - 1 \in k..Len(list) /\ r[j] = list[j - 1]
      BY <1>6, <3>1, <3>4
    <3> QED
      BY <1>7, <3>2, <3>3, <3>4
  <2>2. CASE i = k /\ r[i] = x
    <3>1. j - 1 \in k..Len(list) /\ r[j] = list[j - 1]
      BY <1>7, <1>8, <2>2
    <3> QED
      BY <1>6, <1>8, <2>2, <3>1
  <2>3. CASE i - 1 \in k..Len(list) /\ r[i] = list[i - 1] /\ i > k
    <3>1. j - 1 \in k..Len(list) /\ r[j] = list[j - 1]
      BY <1>7, <1>8, <2>3
    <3>2. i - 1 \in 1..Len(list) /\ j - 1 \in 1..Len(list) /\ i - 1 < j - 1
      BY <1>2, <1>3, <1>8, <2>3, <3>1
    <3> QED
      BY <1>8, <2>3, <3>1, <3>2 DEF Orderly
  <2> QED
    BY <1>7, <2>1, <2>2, <2>3
<1> QED
  BY <1>8 DEF Orderly, r

LEMMA InsertedAllOrderly ==
    ASSUME NoManual, NEW m, NEW list \in Seq(In("normal", m)),
           NEW xs \in Seq(In("normal", m)), NEW st, Listens(st),
           Ranked(ToSet(list)), Ranked(ToSet(xs)), Orderly(st, list)
    PROVE  Orderly(st, InsertedAll(st, list, xs))
<1> DEFINE T == In("normal", m)
<1>1. PICK f : /\ f[0] = list
               /\ \A i \in 1..Len(xs) : f[i] = Inserted(st, f[i - 1], xs[i])
               /\ InsertedAll(st, list, xs) = f[Len(xs)]
  BY InsertRecursion
<1> DEFINE Good(i) == f[i] \in Seq(T) /\ Ranked(ToSet(f[i])) /\ Orderly(st, f[i])
           G == {i \in 0..Len(xs) : Good(i)}
<1>2. 0 \in G
  BY <1>1
<1>3. ASSUME NEW i \in 1..Len(xs), i - 1 \in G PROVE i \in G
  <2> DEFINE l == f[i - 1]
             x == xs[i]
  <2>1. l \in Seq(T) /\ Ranked(ToSet(l)) /\ Orderly(st, l)
    BY <1>3
  <2>2. x \in ToSet(xs) /\ x \in T
    BY ToSetType
  <2>3. x.prio = Priority(x.msg)
    BY <2>2 DEF Ranked
  <2>4. f[i] = Inserted(st, l, x)
    BY <1>1
  <2> HIDE DEF l, x, T
  <2>5. f[i] \in Seq(T) /\ ToSet(f[i]) = ToSet(l) \cup {x}
    BY <2>1, <2>2, <2>4, InsertedFacts, InsertedSet
  <2>6. Orderly(st, f[i])
    BY <2>1, <2>2, <2>3, <2>4, InsertedOrderly DEF T
  <2>7. Ranked(ToSet(f[i]))
    BY <2>1, <2>3, <2>5 DEF Ranked
  <2>8. Good(i) /\ i \in 0..Len(xs)
    BY <2>5, <2>6, <2>7
  <2> QED
    BY <2>8
<1> HIDE DEF G
<1>4. Len(xs) \in G
  <2>1. Len(xs) \in Nat
    OBVIOUS
  <2>2. \A i \in 0..Len(xs) : i \in G
    <3> HIDE DEF Good
    <3> QED
      BY <1>2, <1>3, <2>1, InductionUpTo
  <2> QED
    BY <2>1, <2>2
<1> QED
  BY <1>1, <1>4 DEF G

LEMMA InsertedSorted ==
    ASSUME NoManual, PingsAgree, NEW st, Listens(st), NEW q \in Queues, NEW m,
           NEW list \in Seq(In(q, m)), NEW x \in In(q, m), Ranked(ToSet(list)),
           x.prio = Priority(x.msg), Sorted(st, list)
    PROVE  Sorted(st, Inserted(st, list, x))
<1> DEFINE T == In(q, m)
           r == Inserted(st, list, x)
<1> HIDE DEF T, r
<1>1. list \in Seq(T) /\ x \in T
  BY DEF T
<1>2. /\ Len(r) = Len(list) + 1 /\ Len(list) \in Nat
      /\ \E k \in 1..(Len(list) + 1) :
           /\ r[k] = x
           /\ \A i \in 1..(k - 1) : r[i] = list[i] /\ ~Before(st, x, list[i])
           /\ \A i \in k..Len(list) : r[i + 1] = list[i]
           /\ k <= Len(list) => Before(st, x, list[k])
  BY <1>1, InsertedFacts, SMTT(30) DEF r
<1>3. PICK k \in 1..(Len(list) + 1) :
           /\ r[k] = x
           /\ \A i \in 1..(k - 1) : r[i] = list[i] /\ ~Before(st, x, list[i])
           /\ \A i \in k..Len(list) : r[i + 1] = list[i]
           /\ k <= Len(list) => Before(st, x, list[k])
  BY <1>2
<1>4. \A i \in 1..Len(list) : list[i] \in In(q, m) /\ list[i].prio = Priority(list[i].msg)
  BY ToSetType DEF Ranked
<1>5. ASSUME NEW i \in k..Len(list) PROVE ~Before(st, list[i], x)
  <2> DEFINE y == list[i]
             z == list[k]
  <2>1. i \in 1..Len(list) /\ k \in 1..Len(list) /\ (i = k \/ k < i)
    BY <1>2, <1>3
  <2>2. Before(st, x, z) /\ (y = z \/ ~Before(st, y, z))
    BY <1>3, <2>1 DEF Sorted
  <2>3. y \in In(q, m) /\ z \in In(q, m) /\ Ranked({x, y, z})
    BY <1>4, <2>1 DEF Ranked
  <2> HIDE DEF y, z
  <2>4. /\ Before(st, x, z) => ~Before(st, z, x)
        /\ Before(st, y, x) /\ Before(st, x, z) => Before(st, y, z)
    <3>1. Ranked({y, x, z}) /\ Ranked({x, z, z})
      BY <2>3 DEF Ranked
    <3>2. Before(st, x, z) => ~Before(st, z, x)
      BY <2>3, <3>1, BeforeIsOrder
    <3>3. Before(st, y, x) /\ Before(st, x, z) => Before(st, y, z)
      BY <2>3, <3>1, BeforeIsOrder
    <3> QED
      BY <3>2, <3>3
  <2>5. ~Before(st, y, x)
    BY <2>2, <2>4
  <2> QED
    BY <2>5 DEF y
<1>6. ASSUME NEW i \in 1..Len(r), NEW j \in 1..Len(r), i < j
      PROVE  ~Before(st, r[j], r[i])
  <2>1. CASE j < k
    <3>1. i \in 1..(k - 1) /\ j \in 1..(k - 1) /\ i \in 1..Len(list) /\ j \in 1..Len(list)
      BY <1>2, <1>3, <1>6, <2>1
    <3> QED
      BY <1>3, <1>6, <3>1 DEF Sorted
  <2>2. CASE j = k
    <3>1. i \in 1..(k - 1)
      BY <1>6, <2>2
    <3> QED
      BY <1>3, <2>2, <3>1
  <2>3. CASE j > k
    <3>1. j - 1 \in k..Len(list) /\ j - 1 \in 1..Len(list)
      BY <1>2, <1>3, <2>3
    <3>2. r[(j - 1) + 1] = list[j - 1]
      BY <1>3, <3>1
    <3>3. r[j] = list[j - 1]
      BY <3>2
    <3>4. CASE i < k
      <4>1. i \in 1..(k - 1) /\ i \in 1..Len(list) /\ i < j - 1
        BY <1>2, <1>3, <2>3, <3>4
      <4> QED
        BY <1>3, <3>1, <3>3, <4>1 DEF Sorted
    <3>5. CASE i = k
      BY <1>3, <1>5, <3>1, <3>3, <3>5
    <3>6. CASE i > k
      <4>1. i - 1 \in k..Len(list) /\ i - 1 \in 1..Len(list) /\ i - 1 < j - 1
        BY <1>2, <1>3, <1>6, <3>6
      <4>2. r[(i - 1) + 1] = list[i - 1]
        BY <1>3, <4>1
      <4>3. r[i] = list[i - 1]
        BY <4>2
      <4> QED
        BY <3>1, <3>3, <4>1, <4>3 DEF Sorted
    <3> QED
      BY <1>3, <3>4, <3>5, <3>6
  <2> QED
    BY <1>3, <2>1, <2>2, <2>3
<1> QED
  BY <1>6 DEF Sorted, r

LEMMA InsertedAllSorted ==
    ASSUME NoManual, PingsAgree, NEW st, Listens(st), NEW q \in Queues, NEW m,
           NEW list \in Seq(In(q, m)), NEW xs \in Seq(In(q, m)),
           Ranked(ToSet(list)), Ranked(ToSet(xs)), Sorted(st, list)
    PROVE  Sorted(st, InsertedAll(st, list, xs))
<1> DEFINE T == In(q, m)
<1>1. PICK f : /\ f[0] = list
               /\ \A i \in 1..Len(xs) : f[i] = Inserted(st, f[i - 1], xs[i])
               /\ InsertedAll(st, list, xs) = f[Len(xs)]
  BY InsertRecursion
<1> DEFINE Good(i) == f[i] \in Seq(T) /\ Ranked(ToSet(f[i])) /\ Sorted(st, f[i])
           G == {i \in 0..Len(xs) : Good(i)}
<1>2. 0 \in G
  BY <1>1
<1>3. ASSUME NEW i \in 1..Len(xs), i - 1 \in G PROVE i \in G
  <2> DEFINE l == f[i - 1]
             x == xs[i]
  <2>1. l \in Seq(T) /\ Ranked(ToSet(l)) /\ Sorted(st, l)
    BY <1>3
  <2>2. x \in ToSet(xs) /\ x \in T
    BY ToSetType
  <2>3. x.prio = Priority(x.msg)
    BY <2>2 DEF Ranked
  <2>4. f[i] = Inserted(st, l, x)
    BY <1>1
  <2> HIDE DEF l, x, T
  <2>5. f[i] \in Seq(T) /\ ToSet(f[i]) = ToSet(l) \cup {x}
    BY <2>1, <2>2, <2>4, InsertedFacts, InsertedSet
  <2>6. Sorted(st, f[i])
    BY <2>1, <2>2, <2>3, <2>4, InsertedSorted DEF T
  <2>7. Ranked(ToSet(f[i]))
    BY <2>1, <2>3, <2>5 DEF Ranked
  <2>8. Good(i) /\ i \in 0..Len(xs)
    BY <2>5, <2>6, <2>7
  <2> QED
    BY <2>8
<1> HIDE DEF G
<1>4. Len(xs) \in G
  <2>1. Len(xs) \in Nat
    OBVIOUS
  <2>2. \A i \in 0..Len(xs) : i \in G
    <3> HIDE DEF Good
    <3> QED
      BY <1>2, <1>3, <2>1, InductionUpTo
  <2> QED
    BY <2>1, <2>2
<1> QED
  BY <1>1, <1>4 DEF G

(* The loop of a queue whose transactions have the priority of their       *)
(* message, the blocked ones of the normal queue last, and all of them     *)
(* sorted if pings agree.                                                  *)
Lines(st, q, th) ==
    /\ Ranked(Elements(th))
    /\ q = "normal" => Orderly(st, th.list)
    /\ PingsAgree => Sorted(st, th.list)

LEMMA SameElements ==
    ASSUME NEW q, NEW m, NEW th, ThreadOK(q, m, th), NEW th2, ThreadOK(q, m, th2),
           SameWork(th, th2)
    PROVE  /\ Fresh(th2) = Fresh(th) => Elements(th2) = Elements(th)
           /\ \A S : Fresh(th2) \subseteq Fresh(th) \cup S => Elements(th2) \subseteq Elements(th) \cup S
<1>1. /\ Elements(th) = Fresh(th) \cup (IF th.phase \in AtWork THEN {th.active} ELSE {})
      /\ Elements(th2) = Fresh(th2) \cup (IF th2.phase \in AtWork THEN {th2.active} ELSE {})
  BY ElementsAre
<1>2. /\ th2.phase \in AtWork <=> th.phase \in AtWork
      /\ th.phase \in AtWork => th2.active = th.active
  BY SameWorkPhase
<1> QED
  BY <1>1, <1>2

LEMMA TriggeredLines ==
    ASSUME NEW q, NEW m, NEW th, ThreadOK(q, m, th), NEW st, Lines(st, q, th), NEW st2,
           NEW r, r = Triggered(st2, q, th)
    PROVE  Lines(st, q, r)
<1>1. ThreadOK(q, m, r) /\ SameWork(th, r) /\ Fresh(r) = Fresh(th)
  BY TriggeredKeeps
<1>2. Ranked(Elements(r))
  BY <1>1, SameElements DEF Lines
<1>3. ASSUME q = "normal" PROVE Orderly(st, r.list)
  <2>1. CASE r = th
    BY <1>3, <2>1 DEF Lines
  <2>2. CASE r # th
    <3> DEFINE l == th.list
               k == Tail(l)
    <3>1. l # <<>> /\ r = [th EXCEPT !.list = Tail(@), !.active = Head(th.list), !.phase = "starting"]
      BY <2>2 DEF Triggered
    <3>2. l \in Seq(In(q, m)) /\ Orderly(st, l)
      BY <1>3, ThreadFields DEF Lines
    <3>3. r.list = k
      BY <3>1, ThreadFields
    <3> HIDE DEF l
    <3>4. Len(k) = Len(l) - 1 /\ Len(l) \in Nat /\ \A i \in 1..(Len(l) - 1) : k[i] = l[i + 1]
      BY <3>1, <3>2, HeadAndTail
    <3> HIDE DEF k
    <3>5. ASSUME NEW i \in 1..Len(k), NEW j \in 1..Len(k), i < j, Blocked(st, k[i])
          PROVE  Blocked(st, k[j])
      <4>1. /\ i + 1 \in 1..Len(l) /\ j + 1 \in 1..Len(l) /\ i + 1 < j + 1
            /\ k[i] = l[i + 1] /\ k[j] = l[j + 1]
        BY <3>4, <3>5
      <4> QED
        BY <3>2, <3>5, <4>1 DEF Orderly
    <3> QED
      BY <3>3, <3>5 DEF Orderly
  <2> QED
    BY <2>1, <2>2
<1>4. ASSUME PingsAgree PROVE Sorted(st, r.list)
  <2>1. CASE r = th
    BY <1>4, <2>1 DEF Lines
  <2>2. CASE r # th
    <3> DEFINE l == th.list
               k == Tail(l)
    <3>1. l # <<>> /\ r = [th EXCEPT !.list = Tail(@), !.active = Head(th.list), !.phase = "starting"]
      BY <2>2 DEF Triggered
    <3>2. l \in Seq(In(q, m)) /\ Sorted(st, l)
      BY <1>4, ThreadFields DEF Lines
    <3>3. r.list = k
      BY <3>1, ThreadFields
    <3> HIDE DEF l
    <3>4. Len(k) = Len(l) - 1 /\ Len(l) \in Nat /\ \A i \in 1..(Len(l) - 1) : k[i] = l[i + 1]
      BY <3>1, <3>2, HeadAndTail
    <3> HIDE DEF k
    <3>5. ASSUME NEW i \in 1..Len(k), NEW j \in 1..Len(k), i < j
          PROVE  ~Before(st, k[j], k[i])
      <4>1. /\ i + 1 \in 1..Len(l) /\ j + 1 \in 1..Len(l) /\ i + 1 < j + 1
            /\ k[i] = l[i + 1] /\ k[j] = l[j + 1]
        BY <3>4, <3>5
      <4> QED
        BY <3>2, <4>1 DEF Sorted
    <3> QED
      BY <3>3, <3>5 DEF Sorted
  <2> QED
    BY <2>1, <2>2
<1> QED
  BY <1>2, <1>3, <1>4 DEF Lines

(* The list is replaced by an orderly one.                                 *)
LEMMA ListLines ==
    ASSUME NEW q, NEW m, NEW th, ThreadOK(q, m, th), NEW l \in Seq(In(q, m)),
           NEW st, NEW st2, Lines(st2, q, th), Ranked(ToSet(l)),
           q = "normal" => Orderly(st, l), PingsAgree => Sorted(st, l), NEW r, r = [th EXCEPT !.list = l]
    PROVE  ThreadOK(q, m, r) /\ Lines(st, q, r) /\ SameWork(th, r) /\ r.list = l
<1>1. /\ ThreadOK(q, m, r) /\ SameWork(th, r) /\ r.list = l /\ r.active = th.active
  BY ListKeeps
<1>2. /\ Elements(th) = ToSet(th.list) \cup (IF th.active.t = 0 THEN {} ELSE {th.active})
      /\ Elements(r) = ToSet(r.list) \cup (IF r.active.t = 0 THEN {} ELSE {r.active})
  BY <1>1, ElementsAre
<1>3. Ranked(Elements(r))
  BY <1>1, <1>2 DEF Lines, Ranked
<1> QED
  BY <1>1, <1>3 DEF Lines

LEMMA AddedLines ==
    ASSUME NoManual, NEW q \in Queues, NEW m, NEW th, ThreadOK(q, m, th),
           NEW xs \in Seq(In(q, m)), NEW st, Listens(st), Lines(st, q, th), Ranked(ToSet(xs)),
           NEW r, r = Added(st, q, th, xs)
    PROVE  Lines(st, q, r)
<1> DEFINE old == th.list
           l == InsertedAll(st, old, xs)
           with == [th EXCEPT !.list = l]
<1>1. r = Triggered(st, q, with)
  BY DEF Added
<1>2. old \in Seq(In(q, m)) /\ ToSet(old) \subseteq Elements(th)
  BY ThreadFields, ElementsAre
<1>3. /\ Ranked(ToSet(old)) /\ (q = "normal" => Orderly(st, old))
      /\ PingsAgree => Sorted(st, old)
  BY <1>2 DEF Lines, Ranked
<1> HIDE DEF old
<1>4. l \in Seq(In(q, m)) /\ ToSet(l) = ToSet(old) \cup ToSet(xs)
  <2> DEFINE T == In(q, m)
  <2>1. old \in Seq(T) /\ xs \in Seq(T)
    BY <1>2
  <2> HIDE DEF T
  <2>2. InsertedAll(st, old, xs) \in Seq(T)
        /\ ToSet(InsertedAll(st, old, xs)) = ToSet(old) \cup ToSet(xs)
    BY <2>1, InsertedAllFacts
  <2> QED
    BY <2>2 DEF T
<1>5. Ranked(ToSet(l))
  BY <1>3, <1>4 DEF Ranked
<1>6. /\ q = "normal" => Orderly(st, l)
      /\ PingsAgree => Sorted(st, l)
  <2>1. q = "normal" => Orderly(st, l)
    BY <1>2, <1>3, InsertedAllOrderly
  <2>2. PingsAgree => Sorted(st, l)
    BY <1>2, <1>3, InsertedAllSorted
  <2> QED
    BY <2>1, <2>2
<1> HIDE DEF l
<1>7. with = [th EXCEPT !.list = l]
  OBVIOUS
<1> HIDE DEF with
<1>8. ThreadOK(q, m, with) /\ Lines(st, q, with)
  BY <1>4, <1>5, <1>6, <1>7, ListLines
<1> QED
  BY <1>1, <1>8, TriggeredLines

LEMMA OnlyOrderly ==
    ASSUME NEW T, NEW list \in Seq(T), NEW S, NEW st, NEW st2, Orderly(st, list),
           \A x \in ToSet(list) \cap S : Blocked(st2, x) <=> Blocked(st, x)
    PROVE  Orderly(st2, Only(list, S))
<1> DEFINE r == Only(list, S)
<1>1. r \in Seq(T) /\ ToSet(r) = ToSet(list) \cap S /\ InOrder(r, list)
  BY OnlyFacts
<1> HIDE DEF r
<1>2. ASSUME NEW i \in 1..Len(r), NEW j \in 1..Len(r), i < j, Blocked(st2, r[i])
      PROVE  Blocked(st2, r[j])
  <2>1. PICK c \in 1..Len(list), d \in 1..Len(list) : c < d /\ r[i] = list[c] /\ r[j] = list[d]
    BY <1>1, <1>2 DEF InOrder
  <2>2. r[i] \in ToSet(list) \cap S /\ r[j] \in ToSet(list) \cap S
    <3>1. ToSet(r) = {r[a] : a \in 1..Len(r)}
      BY <1>1, ToSetType
    <3> QED
      BY <1>1, <3>1
  <2>3. Blocked(st, list[c])
    BY <1>2, <2>1, <2>2
  <2>4. Blocked(st, list[d])
    BY <2>1, <2>3 DEF Orderly
  <2> QED
    BY <2>1, <2>2, <2>4
<1> QED
  BY <1>2 DEF Orderly, r

LEMMA OnlySorted ==
    ASSUME NEW T, NEW list \in Seq(T), NEW S, NEW st, NEW st2, Sorted(st, list),
           \A x \in ToSet(list) \cap S : Asleep(st2, x) <=> Asleep(st, x)
    PROVE  Sorted(st2, Only(list, S))
<1> DEFINE r == Only(list, S)
<1>1. r \in Seq(T) /\ ToSet(r) = ToSet(list) \cap S /\ InOrder(r, list)
  BY OnlyFacts
<1> HIDE DEF r
<1>2. ASSUME NEW i \in 1..Len(r), NEW j \in 1..Len(r), i < j
      PROVE  ~Before(st2, r[j], r[i])
  <2> DEFINE x == r[i]
             y == r[j]
  <2>1. PICK c \in 1..Len(list), d \in 1..Len(list) : c < d /\ x = list[c] /\ y = list[d]
    BY <1>1, <1>2 DEF InOrder
  <2>2. x \in ToSet(list) \cap S /\ y \in ToSet(list) \cap S
    <3>1. ToSet(r) = {r[a] : a \in 1..Len(r)}
      BY <1>1, ToSetType
    <3> QED
      BY <1>1, <3>1
  <2>3. ~Before(st, y, x)
    BY <2>1 DEF Sorted
  <2> HIDE DEF x, y
  <2>4. Before(st2, y, x) <=> Before(st, y, x)
    <3>1. Asleep(st2, x) = Asleep(st, x) /\ Asleep(st2, y) = Asleep(st, y)
      BY <2>2 DEF Asleep
    <3> QED
      BY <3>1 DEF Before
  <2>5. ~Before(st2, y, x)
    BY <2>3, <2>4
  <2> QED
    BY <2>5 DEF x, y
<1> QED
  BY <1>2 DEF Sorted, r

LEMMA ReducedLines ==
    ASSUME NoManual, NEW q \in Queues, NEW m, NEW th, ThreadOK(q, m, th), NEW drop, NEW prio,
           \A x \in DOMAIN prio : prio[x] \in 0..6,
           \A x \in Elements(th) \cap DOMAIN prio : prio[x] = Priority(x.msg),
           NEW st, Listens(st), NEW old, Lines(old, q, th),
           \A x \in Elements(th) \ (drop \cup DOMAIN prio) : Asleep(st, x) <=> Asleep(old, x),
           NEW r, r = Reduced(st, q, th, drop, prio)
    PROVE  Lines(st, q, r)
<1> DEFINE T == In(q, m)
           list == th.list
           stay == ToSet(list) \ (drop \cup DOMAIN prio)
           kept == Only(list, stay)
           all == list \o Active(th)
           again == Only(all, DOMAIN prio)
           clones == [i \in DOMAIN again |-> CloneWith(again[i], prio[again[i]])]
           th1 == [th EXCEPT !.list = kept]
           th2 == Triggered(st, q, th1)
           th3 == Added(st, q, th2, clones)
<1>1. r = th3
  BY DEF Reduced, CloneWith
<1>2. list \in Seq(T) /\ Active(th) \in Seq(T) /\ all \in Seq(T)
  <2>1. list \in Seq(T) /\ th.active \in T \cup {NoTransaction}
    BY ThreadFields
  <2>2. Active(th) \in Seq(T)
    BY <2>1, NoTransactionIsNone DEF Active
  <2> QED
    BY <2>1, <2>2
<1>3. ToSet(list) \subseteq Elements(th) /\ ToSet(all) = Elements(th)
  BY ElementsAre DEF Elements
<1>4. kept \in Seq(T) /\ ToSet(kept) = stay
  <2> HIDE DEF T, list, stay
  <2>1. Only(list, stay) \in Seq(T) /\ ToSet(Only(list, stay)) = ToSet(list) \cap stay
    BY <1>2, OnlyFacts
  <2>2. stay \subseteq ToSet(list)
    BY DEF stay
  <2> QED
    BY <2>1, <2>2
<1>5. q = "normal" => Orderly(st, kept)
  <2> SUFFICES ASSUME q = "normal" PROVE Orderly(st, kept)
    OBVIOUS
  <2>1. Orderly(old, list)
    BY DEF Lines
  <2>2. \A x \in ToSet(list) \cap stay : Blocked(st, x) <=> Blocked(old, x)
    BY <1>3 DEF Blocked
  <2> HIDE DEF T, list, stay
  <2> QED
    BY <1>2, <2>1, <2>2, OnlyOrderly
<1>6. /\ Ranked(ToSet(kept))
      /\ PingsAgree => Sorted(st, kept)
  <2>1. Ranked(ToSet(kept))
    BY <1>3, <1>4 DEF Lines, Ranked
  <2>2. \A x \in ToSet(list) \cap stay : Asleep(st, x) <=> Asleep(old, x)
    BY <1>3
  <2>3. PingsAgree => Sorted(old, list)
    BY DEF Lines
  <2> HIDE DEF T, list, stay
  <2>4. PingsAgree => Sorted(st, kept)
    BY <1>2, <2>2, <2>3, OnlySorted
  <2> QED
    BY <2>1, <2>4
<1>7. again \in Seq(T) /\ ToSet(again) = Elements(th) \cap DOMAIN prio
  <2> HIDE DEF T, all
  <2>1. Only(all, DOMAIN prio) \in Seq(T) /\ ToSet(Only(all, DOMAIN prio)) = ToSet(all) \cap DOMAIN prio
    BY <1>2, OnlyFacts
  <2> QED
    BY <1>3, <2>1
<1> HIDE DEF kept, again, list, all
<1>8. \A i \in 1..Len(again) : /\ again[i] \in T /\ again[i] \in DOMAIN prio
                               /\ prio[again[i]] = Priority(again[i].msg)
  <2>1. ToSet(again) = {again[i] : i \in 1..Len(again)}
    BY <1>7, ToSetType
  <2> QED
    BY <1>7, <2>1
<1>9. DOMAIN again = 1..Len(again) /\ Len(again) \in Nat
  BY <1>7
<1>10. \A i \in 1..Len(again) :
         /\ CloneWith(again[i], prio[again[i]]) \in T
         /\ CloneWith(again[i], prio[again[i]]).prio = prio[again[i]]
         /\ CloneWith(again[i], prio[again[i]]).msg = again[i].msg
  <2> SUFFICES ASSUME NEW i \in 1..Len(again)
               PROVE  /\ CloneWith(again[i], prio[again[i]]) \in T
                      /\ CloneWith(again[i], prio[again[i]]).prio = prio[again[i]]
                      /\ CloneWith(again[i], prio[again[i]]).msg = again[i].msg
    OBVIOUS
  <2> DEFINE x == again[i]
             p == prio[x]
  <2>1. x \in In(q, m) /\ p \in 0..6
    BY <1>8
  <2> HIDE DEF x, p
  <2>2. /\ CloneWith(x, p) \in In(q, m)
        /\ CloneWith(x, p).prio = p /\ CloneWith(x, p).msg = x.msg
    BY <2>1, CloneType
  <2> QED
    BY <2>2 DEF x, p
<1>11. clones \in Seq(T) /\ Len(clones) = Len(again)
       /\ \A i \in 1..Len(again) : clones[i] = CloneWith(again[i], prio[again[i]])
  BY <1>9, <1>10
<1> HIDE DEF clones
<1>12. Ranked(ToSet(clones))
  <2>1. ToSet(clones) = {clones[i] : i \in 1..Len(again)}
    BY <1>11, ToSetType
  <2> QED
    BY <1>8, <1>10, <1>11, <2>1 DEF Ranked
<1>13. th1 = [th EXCEPT !.list = kept]
  OBVIOUS
<1> HIDE DEF th1
<1>14. ThreadOK(q, m, th1) /\ Lines(st, q, th1)
  BY <1>4, <1>5, <1>6, <1>13, ListLines
<1>15. th2 = Triggered(st, q, th1)
  OBVIOUS
<1> HIDE DEF th2
<1>16. ThreadOK(q, m, th2) /\ Lines(st, q, th2)
  BY <1>14, <1>15, TriggeredKeeps, TriggeredLines
<1> HIDE DEF th3
<1>17. th3 = Added(st, q, th2, clones)
  BY DEF th3
<1> QED
  BY <1>1, <1>11, <1>12, <1>16, <1>17, AddedLines

LEMMA DoneLines ==
    ASSUME NEW q, NEW m, NEW th, ThreadOK(q, m, th), NEW st, Lines(st, q, th),
           NEW r, r = Done(th) \/ r = [Done(th) EXCEPT !.phase = "failed"]
    PROVE  ThreadOK(q, m, r) /\ Lines(st, q, r)
<1>1. ThreadOK(q, m, r) /\ r.list = th.list /\ Fresh(r) = ToSet(th.list)
      /\ r.phase \in {"idle", "failed"}
  <2>1. CASE r = Done(th)
    BY <2>1, DoneKeeps
  <2>2. CASE r = [Done(th) EXCEPT !.phase = "failed"]
    BY <2>2, DoneKeeps
  <2> QED
    BY <2>1, <2>2
<1>2. /\ Elements(r) = Fresh(r) \cup (IF r.phase \in AtWork THEN {r.active} ELSE {})
      /\ ToSet(th.list) \subseteq Elements(th)
  BY <1>1, ElementsAre
<1>3. Elements(r) \subseteq Elements(th)
  BY <1>1, <1>2 DEF AtWork
<1> QED
  BY <1>1, <1>3 DEF Lines, Ranked

LEMMA SameLists ==
    ASSUME NEW q, NEW th, NEW st, Lines(st, q, th), NEW r,
           r.list = th.list, r.active = th.active
    PROVE  Lines(st, q, r)
BY DEF Lines, Elements, Active

(* Both queues.                                                            *)
AllLines(st, th) == \A q \in Queues : Lines(st, q, th[q])

LEMMA OthersAsleep ==
    ASSUME NEW m, NEW th, Machine(m, th), NEW n \in Node, NEW st, NEW old,
           \A k \in Node \ {n} : st[k] = old[k]
    PROVE  \A q \in Queues : \A x \in Elements(th[q]) :
             x \notin Found(th, n) => (Asleep(st, x) <=> Asleep(old, x))
<1> SUFFICES ASSUME NEW q \in Queues, NEW x \in Elements(th[q]), x \notin Found(th, n)
             PROVE  Asleep(st, x) <=> Asleep(old, x)
  OBVIOUS
<1>1. x \in In(q, m)
  BY ElementsAre DEF Machine
<1>2. x.msg.node \in Node \cup {Controller}
  BY <1>1, ConstantsAssumption DEF ConstantsAssumption, In, Known, Transaction
<1>3. x.msg.node # n
  BY FoundAre
<1> QED
  BY <1>2, <1>3 DEF Asleep

LEMMA ReducedAllLines ==
    ASSUME NoManual, NEW m, NEW th, Machine(m, th), NEW drop, NEW prio,
           \A x \in DOMAIN prio : prio[x] \in 0..6,
           \A q \in Queues : \A x \in Elements(th[q]) \cap DOMAIN prio : prio[x] = Priority(x.msg),
           NEW st, Listens(st), NEW old, AllLines(old, th),
           \A q \in Queues : \A x \in Elements(th[q]) \ (drop \cup DOMAIN prio) :
             Asleep(st, x) <=> Asleep(old, x),
           NEW th2, th2 = [q \in Queues |-> Reduced(st, q, th[q], drop, prio)]
    PROVE  AllLines(st, th2)
<1> SUFFICES ASSUME NEW q \in Queues PROVE Lines(st, q, th2[q])
  BY DEF AllLines
<1> DEFINE a == th[q]
           r == th2[q]
<1>1. ThreadOK(q, m, a) /\ Lines(old, q, a)
  BY DEF Machine, AllLines
<1>2. r = Reduced(st, q, a, drop, prio)
  OBVIOUS
<1>3. \A x \in Elements(a) \cap DOMAIN prio : prio[x] = Priority(x.msg)
  OBVIOUS
<1>4. \A x \in Elements(a) \ (drop \cup DOMAIN prio) : Asleep(st, x) <=> Asleep(old, x)
  OBVIOUS
<1> HIDE DEF a, r
<1>5. Lines(st, q, r)
  BY <1>1, <1>2, <1>3, <1>4, ReducedLines
<1> QED
  BY <1>5 DEF r

LEMMA WokenLines ==
    ASSUME NoManual, NEW m, NEW th, Machine(m, th), NEW n \in Node, NEW st, Listens(st),
           NEW old, AllLines(old, th), \A k \in Node \ {n} : st[k] = old[k],
           NEW th2, th2 = Woken(st, th, n)
    PROVE  AllLines(st, th2)
<1> DEFINE drop == Pings(th, n)
           prio == [x \in Found(th, n) \ Pings(th, n) |-> x.prio]
<1>1. th2 = [q \in Queues |-> Reduced(st, q, th[q], drop, prio)]
  BY DEF Woken
<1>2. \A x \in DOMAIN prio : prio[x] \in 0..6
  BY FoundAre DEF Known, Transaction
<1>3. \A q \in Queues : \A x \in Elements(th[q]) \cap DOMAIN prio : prio[x] = Priority(x.msg)
  BY DEF AllLines, Lines, Ranked
<1>4. \A q \in Queues : \A x \in Elements(th[q]) \ (drop \cup DOMAIN prio) :
        Asleep(st, x) <=> Asleep(old, x)
  BY OthersAsleep
<1> HIDE DEF drop, prio
<1> QED
  BY <1>1, <1>2, <1>3, <1>4, ReducedAllLines

LEMMA ParkedLines ==
    ASSUME NoManual, NEW m, NEW th, Machine(m, th), NEW n \in Node, CanSleep(n),
           NEW st, Listens(st),
           NEW old, AllLines(old, th), \A k \in Node \ {n} : st[k] = old[k],
           NEW th2, th2 = Parked(st, th, n)
    PROVE  AllLines(st, th2)
<1> DEFINE drop == Found(th, n) \ Movable(th, n)
           prio == [x \in Movable(th, n) |-> WakeUp]
<1>1. th2 = [q \in Queues |-> Reduced(st, q, th[q], drop, prio)]
  BY DEF Parked
<1>2. \A x \in DOMAIN prio : prio[x] \in 0..6
  BY DEF WakeUp
<1>3. \A q \in Queues : \A x \in Elements(th[q]) \cap DOMAIN prio : prio[x] = Priority(x.msg)
  <2> SUFFICES ASSUME NEW q \in Queues, NEW x \in Elements(th[q]) \cap DOMAIN prio
               PROVE  WakeUp = Priority(x.msg)
    OBVIOUS
  <2>1. x \in Found(th, n) /\ MayMove(x.msg)
    BY DEF Movable
  <2>2. x.msg.node = n /\ x \in Known(m)
    BY <2>1, FoundAre
  <2>3. x.msg \in Messages /\ n # Controller
    BY <2>2, ConstantsAssumption DEF Known, Transaction, ConstantsAssumption
  <2>4. x.msg.kind # "controller"
    BY <2>2, <2>3, ConstantsAssumption DEF ConstantsAssumption
  <2>5. NodeKind[n] = "sleeping"
    BY ConstantsAssumption DEF CanSleep, NoManual, NodeKinds, ConstantsAssumption
  <2> QED
    BY <2>1, <2>2, <2>4, <2>5 DEF Priority, MayMove
<1>4. \A q \in Queues : \A x \in Elements(th[q]) \ (drop \cup DOMAIN prio) :
        Asleep(st, x) <=> Asleep(old, x)
  BY OthersAsleep
<1> HIDE DEF drop, prio
<1> QED
  BY <1>1, <1>2, <1>3, <1>4, ReducedAllLines

LEMMA RejectedLines ==
    ASSUME NoManual, NEW m, NEW th, Machine(m, th), NEW S, NEW st, Listens(st),
           NEW old, AllLines(old, th),
           \A q \in Queues : \A x \in Elements(th[q]) \ S : Asleep(st, x) <=> Asleep(old, x),
           NEW th2, th2 = Rejected(st, th, S)
    PROVE  AllLines(st, th2)
<1> DEFINE prio == <<>>
<1>1. th2 = [q \in Queues |-> Reduced(st, q, th[q], S, prio)]
  BY DEF Rejected
<1>2. DOMAIN prio = {}
  OBVIOUS
<1>3. \A x \in DOMAIN prio : prio[x] \in 0..6
  BY <1>2
<1>4. \A q \in Queues : \A x \in Elements(th[q]) \cap DOMAIN prio : prio[x] = Priority(x.msg)
  BY <1>2
<1>5. \A q \in Queues : \A x \in Elements(th[q]) \ (S \cup DOMAIN prio) :
        Asleep(st, x) <=> Asleep(old, x)
  BY <1>2
<1> HIDE DEF prio
<1> QED
  BY <1>1, <1>3, <1>4, <1>5, ReducedAllLines

(* Nobody fell asleep or woke up.                                          *)
LEMMA StatusLines ==
    ASSUME NEW m, NEW th, Machine(m, th), NEW old, AllLines(old, th), NEW st,
           \A n \in Node : st[n] = "asleep" <=> old[n] = "asleep"
    PROVE  AllLines(st, th)
<1> SUFFICES ASSUME NEW q \in Queues PROVE Lines(st, q, th[q])
  BY DEF AllLines
<1> DEFINE a == th[q]
<1>1. ThreadOK(q, m, a) /\ Lines(old, q, a)
  BY DEF Machine, AllLines
<1> HIDE DEF a
<1>2. \A x \in Elements(a) : Asleep(st, x) = Asleep(old, x)
  <2>1. \A x \in Elements(a) : x.msg.node \in Node \cup {Controller}
    BY <1>1, ElementsAre, ConstantsAssumption DEF ConstantsAssumption, In, Known, Transaction
  <2> QED
    BY <2>1 DEF Asleep
<1>3. a.list \in Seq(In(q, m)) /\ ToSet(a.list) \subseteq Elements(a)
  BY <1>1, ThreadFields, ElementsAre
<1>4. \A i \in 1..Len(a.list) : a.list[i] \in Elements(a)
  BY <1>3, ToSetType
<1>5. Lines(st, q, a)
  <2>1. q = "normal" => Orderly(st, a.list)
    BY <1>1, <1>2, <1>4 DEF Lines, Orderly, Blocked
  <2>2. \A x, y \in Elements(a) : Before(st, x, y) <=> Before(old, x, y)
    BY <1>2 DEF Before
  <2>3. PingsAgree => Sorted(st, a.list)
    BY <1>1, <1>4, <2>2 DEF Lines, Sorted
  <2> QED
    BY <1>1, <2>1, <2>3 DEF Lines
<1> QED
  BY <1>5 DEF a

(* One loop changed.                                                       *)
LEMMA TurnLines ==
    ASSUME NEW st, NEW th, AllLines(st, th), NEW q \in Queues, NEW th2,
           \A p \in Queues \ {q} : th2[p] = th[p], Lines(st, q, th2[q])
    PROVE  AllLines(st, th2)
BY DEF AllLines

LEMMA FinalizedLines ==
    ASSUME NEW m, Core(m), NEW q \in Queues, HasResult(q), AllLines(status, thread)
    PROVE  AllLines(status, Finalized(q))
<1> DEFINE f == Finalized(q)
           old == thread[q]
           new == [Done(old) EXCEPT !.phase = "failed"]
<1>1. ThreadOK(q, m, old) /\ Lines(status, q, old) /\ Machine(m, thread)
  BY CoreParts DEF AllLines
<1>2. f = [thread EXCEPT ![q] = new] /\ thread = [p \in Queues |-> thread[p]]
  BY <1>1 DEF Finalized, Machine
<1> HIDE DEF old, f
<1>3. new = [Done(old) EXCEPT !.phase = "failed"]
  OBVIOUS
<1> HIDE DEF new
<1>4. Lines(status, q, new)
  BY <1>1, <1>3, DoneLines
<1>5. f[q] = new /\ \A p \in Queues \ {q} : f[p] = thread[p]
  BY <1>2
<1>6. AllLines(status, f)
  BY <1>4, <1>5, TurnLines
<1> QED
  BY <1>6 DEF f

LEMMA ListeningLines ==
    ASSUME NEW m, NEW ths, Machine(m, ths), NEW q \in Queues, ths[q].phase = "failed",
           NEW st, AllLines(st, ths), NEW st2, NEW th2, th2 = Listening(st2, ths, q)
    PROVE  AllLines(st, th2)
<1> DEFINE old == ths[q]
           idle == [old EXCEPT !.phase = "idle"]
           new == Triggered(st2, q, idle)
<1>1. ThreadOK(q, m, old) /\ Lines(st, q, old) /\ ths = [p \in Queues |-> ths[p]]
  BY DEF Machine, AllLines
<1>2. th2 = [ths EXCEPT ![q] = new]
  BY DEF Listening
<1>3. old.phase = "failed"
  OBVIOUS
<1> HIDE DEF old
<1>4. idle = [list |-> old.list, active |-> NoTransaction, phase |-> "idle",
              sent |-> old.sent, unsent |-> old.unsent]
  BY <1>1, <1>3, ThreadFields
<1>5. old.active = NoTransaction
  BY <1>1, <1>3, ThreadFields
<1> HIDE DEF idle
<1>6. idle \in Threads(q, m)
  BY <1>1, <1>4, ThreadFields DEF Threads, Phases
<1>7. ThreadOK(q, m, idle) /\ idle.list = old.list /\ idle.active = old.active
  BY <1>4, <1>5, <1>6 DEF ThreadOK
<1>8. Lines(st, q, idle)
  BY <1>1, <1>7, SameLists
<1>9. new = Triggered(st2, q, idle)
  OBVIOUS
<1> HIDE DEF new
<1>10. Lines(st, q, new)
  BY <1>7, <1>8, <1>9, TriggeredLines
<1>11. th2[q] = new /\ \A p \in Queues \ {q} : th2[p] = ths[p]
  BY <1>1, <1>2
<1> QED
  BY <1>10, <1>11, TurnLines
-----------------------------------------------------------------------------
(* Every step keeps the blocked transactions last.                         *)

Lined == Listens(status) /\ AllLines(status, thread) /\ \A n \in Node : Ranked(ToSet(delayed[n]))

LEMMA ListensIs ==
    ASSUME NEW m, Core(m), Listens(status)
    PROVE  /\ \A n, s : s \notin {"asleep", "awake"} => Listens([status EXCEPT ![n] = s])
           /\ \A n, s : CanSleep(n) => Listens([status EXCEPT ![n] = s])
           /\ \A n : Listens(Heard(n))
           /\ \A n, s : \A k \in Node \ {n} : [status EXCEPT ![n] = s][k] = status[k]
           /\ \A n \in Node : status[n] \in {"asleep", "awake"} => CanSleep(n)
           /\ \A n : \A k \in Node : Heard(n)[k] = "asleep" <=> status[k] = "asleep"
<1>1. status \in [Node -> Statuses]
  BY StatusIs
<1>2. \A n, s : \A k \in Node : [status EXCEPT ![n] = s][k] = IF k = n THEN s ELSE status[k]
  BY <1>1
<1>3. \A n \in Node : status[n] \in {"asleep", "awake"} => CanSleep(n)
  BY DEF Listens, CanSleep
<1>4. \A n, s : s \notin {"asleep", "awake"} => Listens([status EXCEPT ![n] = s])
  BY <1>2 DEF Listens
<1>5. \A n, s : CanSleep(n) => Listens([status EXCEPT ![n] = s])
  BY <1>2 DEF Listens, CanSleep
<1>6. \A n : Listens(Heard(n))
  BY <1>4 DEF Heard
<1>7. \A n : \A k \in Node : Heard(n)[k] = "asleep" <=> status[k] = "asleep"
  BY <1>2 DEF Heard
<1>8. \A n, s : \A k \in Node \ {n} : [status EXCEPT ![n] = s][k] = status[k]
  BY <1>2
<1> QED
  BY <1>3, <1>4, <1>5, <1>6, <1>7, <1>8, Zenon

LEMMA QuietLined ==
    ASSUME NEW m, Core(m), Lined, UNCHANGED <<thread, delayed>>,
           NEW n, status' = status \/ status' = Heard(n)
    PROVE  Lined'
<1>1. Listens(status') /\ \A k \in Node : status'[k] = "asleep" <=> status[k] = "asleep"
  BY ListensIs DEF Lined
<1>2. AllLines(status', thread)
  BY <1>1, CoreParts, StatusLines DEF Lined
<1> QED
  BY <1>1, <1>2 DEF Lined

LEMMA EnqueueLined ==
    ASSUME NoManual, NEW m, Core(m), Lined, NEW e \in Messages, Enqueue(e),
           UNCHANGED <<status, delayed>>
    PROVE  Lined'
<1> DEFINE m2 == Append(m, e)
           n == Len(promise) + 1
           x == [t |-> n, msg |-> e, prio |-> Priority(e), orig |-> TRUE]
           q == QueueOf(e)
           old == thread[q]
           new == Added(status, q, old, <<x>>)
<1>1. m \in Seq(Messages) /\ Len(m) = Len(promise)
  BY CoreParts DEF Typed
<1>2. thread' = [thread EXCEPT ![q] = new] /\ q \in Queues
  BY DEF Enqueue, QueueOf, Queues
<1>3. m2 \in Seq(Messages) /\ Len(m2) = n /\ m2[n] = e
  BY <1>1
<1>4. Priority(e) \in 0..6
  BY ConstantsAssumption DEF Priority, WakeUp, ConstantsAssumption
<1>5. x \in In(q, m2) /\ x.prio = Priority(x.msg)
  BY <1>1, <1>3, <1>4 DEF In, Known, Transaction
<1>6. ThreadOK(q, m2, old) /\ Lines(status, q, old) /\ Listens(status)
  BY <1>1, <1>2, CoreParts, ThreadGrows DEF Lined, AllLines
<1>7. thread = [p \in Queues |-> thread[p]]
  BY CoreParts DEF Machine
<1> DEFINE xs == <<x>>
<1>8. new = Added(status, q, old, xs)
  OBVIOUS
<1> HIDE DEF x, q, m2, old
<1>9. xs \in Seq(In(q, m2)) /\ Ranked(ToSet(xs))
  BY <1>5 DEF ToSet, Ranked
<1> HIDE DEF xs, new
<1>10. Lines(status, q, new)
  BY <1>2, <1>6, <1>8, <1>9, AddedLines
<1>11. thread'[q] = new /\ \A p \in Queues \ {q} : thread'[p] = thread[p]
  BY <1>2, <1>7
<1>12. Lines(status, q, thread'[q])
  BY <1>10, <1>11
<1>13. AllLines(status, thread) /\ q \in Queues
  BY <1>2 DEF Lined
<1>14. AllLines(status, thread')
  BY <1>11, <1>12, <1>13, TurnLines
<1> QED
  BY <1>14 DEF Lined

(* What is put aside does not change, or is forgotten.                     *)
LEMMA ForgottenRanked ==
    ASSUME NEW m, Core(m), Lined, NEW n,
           delayed' = delayed \/ delayed' = [delayed EXCEPT ![n] = <<>>]
    PROVE  \A k \in Node : Ranked(ToSet(delayed'[k]))
<1>1. delayed \in [Node -> Seq(Known(m))]
  BY CoreParts DEF Around
<1>2. \A k \in Node : delayed'[k] = delayed[k] \/ delayed'[k] = <<>>
  BY <1>1
<1>3. Ranked(ToSet(<<>>))
  BY DEF Ranked, ToSet
<1> QED
  BY <1>2, <1>3 DEF Lined

LEMMA NodeWakesLined ==
    ASSUME NoManual, NEW m, Core(m), Lined, NEW n \in Node, NodeWakes(n)
    PROVE  Lined'
<1> DEFINE st == [status EXCEPT ![n] = "awake"]
<1>1. /\ status[n] = "asleep" /\ status' = st /\ thread' = Woken(st, thread, n)
      /\ delayed' = delayed
  BY DEF NodeWakes
<1>2. Listens(st) /\ \A k \in Node \ {n} : st[k] = status[k]
  <2>1. Listens(status)
    BY DEF Lined
  <2>2. CanSleep(n)
    BY <1>1, <2>1, ListensIs
  <2> QED
    BY <2>1, <2>2, ListensIs
<1>3. Machine(m, thread) /\ AllLines(status, thread)
  BY CoreParts DEF Lined
<1> HIDE DEF st
<1>4. AllLines(st, thread')
  BY <1>1, <1>2, <1>3, WokenLines
<1> QED
  BY <1>1, <1>2, <1>4 DEF Lined

LEMMA FallAsleepLined ==
    ASSUME NoManual, NEW m, Core(m), Lined, NEW n \in Node, FallAsleep(n)
    PROVE  Lined'
<1> DEFINE st == [status EXCEPT ![n] = "asleep"]
<1>1. CASE status[n] = "awake"
  <2>1. status' = st /\ thread' = Parked(st, thread, n) /\ delayed' = delayed
    BY <1>1 DEF FallAsleep
  <2>2. CanSleep(n) /\ Listens(st) /\ \A k \in Node \ {n} : st[k] = status[k]
    BY <1>1, ListensIs DEF Lined
  <2>3. Machine(m, thread) /\ AllLines(status, thread)
    BY CoreParts DEF Lined
  <2> HIDE DEF st
  <2>4. AllLines(st, thread')
    BY <2>1, <2>2, <2>3, ParkedLines
  <2> QED
    BY <2>1, <2>2, <2>4 DEF Lined
<1>2. CASE status[n] # "awake"
  BY <1>2 DEF FallAsleep, Lined
<1> QED
  BY <1>1, <1>2

LEMMA ExpireLined ==
    ASSUME NoManual, NEW m, Core(m), Lined, NEW t, Expire(t)
    PROVE  Lined'
<1>1. PICK S : thread' = Rejected(status, thread, S) /\ UNCHANGED <<status, delayed>>
  BY DEF Expire
<1>2. Machine(m, thread) /\ AllLines(status, thread) /\ Listens(status)
  BY CoreParts DEF Lined
<1>3. \A q \in Queues : \A x \in Elements(thread[q]) \ S : Asleep(status, x) <=> Asleep(status, x)
  OBVIOUS
<1>4. AllLines(status, thread')
  BY <1>1, <1>2, <1>3, RejectedLines
<1> QED
  BY <1>1, <1>2, <1>4 DEF Lined

LEMMA NodeRemovedLined ==
    ASSUME NoManual, NEW m, Core(m), Lined, NEW n \in Node, NodeRemoved(n)
    PROVE  Lined'
<1> DEFINE st == [status EXCEPT ![n] = "removed"]
           S == Found(thread, n)
<1>1. /\ status' = st /\ thread' = Rejected(st, thread, S)
      /\ delayed' = [delayed EXCEPT ![n] = <<>>]
  BY DEF NodeRemoved
<1>2. Listens(st) /\ \A k \in Node \ {n} : st[k] = status[k]
  BY ListensIs, ZenonT(30) DEF Lined
<1>3. Machine(m, thread) /\ AllLines(status, thread)
  BY CoreParts DEF Lined
<1> HIDE DEF st
<1>4. \A q \in Queues : \A x \in Elements(thread[q]) \ S : Asleep(st, x) <=> Asleep(status, x)
  BY <1>2, <1>3, OthersAsleep
<1> HIDE DEF S
<1>5. AllLines(st, thread')
  BY <1>1, <1>2, <1>3, <1>4, RejectedLines
<1> QED
  BY <1>1, <1>2, <1>5, ForgottenRanked DEF Lined

LEMMA NodeBusyLined ==
    ASSUME NoManual, NEW m, Core(m), Lined, NEW n \in Node, NodeBusy(n)
    PROVE  Lined'
<1> DEFINE found == Found(thread, n)
           a == thread["immediate"].list
           b == thread["normal"].list
           queued == Only(a \o b, found)
           left(q) == Only(thread[q].list, ToSet(thread[q].list) \ found)
<1>1. /\ delayed' = [delayed EXCEPT ![n] = queued] /\ status' = status
      /\ thread' = [q \in Queues |-> Triggered(status, q, [thread[q] EXCEPT !.list = left(q)])]
  BY DEF NodeBusy
<1>2. \A q \in Queues : ThreadOK(q, m, thread[q]) /\ Lines(status, q, thread[q])
  BY CoreParts DEF Lined, AllLines
<1>3. ASSUME NEW q \in Queues PROVE Lines(status, q, thread'[q])
  <2> DEFINE old == thread[q]
             keep == ToSet(old.list) \ found
             l == Only(old.list, keep)
             mid == [old EXCEPT !.list = l]
             new == Triggered(status, q, mid)
  <2>1. thread'[q] = new
    BY <1>1
  <2>2. ThreadOK(q, m, old) /\ Lines(status, q, old)
    BY <1>2
  <2> HIDE DEF old, found
  <2>3. old.list \in Seq(In(q, m)) /\ ToSet(old.list) \subseteq Elements(old)
    BY <2>2, ThreadFields, ElementsAre
  <2> HIDE DEF keep
  <2>4. l \in Seq(In(q, m)) /\ ToSet(l) \subseteq ToSet(old.list)
    BY <2>3, OnlyFacts
  <2>5. /\ q = "normal" => Orderly(status, l)
        /\ PingsAgree => Sorted(status, l)
    <3>1. q = "normal" => Orderly(status, l)
      BY <2>2, <2>3, OnlyOrderly DEF Lines
    <3>2. PingsAgree => Sorted(status, l)
      BY <2>2, <2>3, OnlySorted DEF Lines
    <3> QED
      BY <3>1, <3>2
  <2>6. Ranked(ToSet(l))
    BY <2>2, <2>3, <2>4 DEF Lines, Ranked
  <2> HIDE DEF l
  <2>7. mid = [old EXCEPT !.list = l]
    OBVIOUS
  <2> HIDE DEF mid
  <2>8. ThreadOK(q, m, mid) /\ Lines(status, q, mid)
    BY <2>2, <2>4, <2>5, <2>6, <2>7, ListLines
  <2>9. new = Triggered(status, q, mid)
    OBVIOUS
  <2> HIDE DEF new
  <2>10. Lines(status, q, new)
    BY <2>8, <2>9, TriggeredLines
  <2> QED
    BY <2>1, <2>10
<1>4. Ranked(ToSet(queued))
  <2> DEFINE T == Known(m)
  <2>1. "immediate" \in Queues /\ "normal" \in Queues
    BY DEF Queues
  <2>2. /\ a \in Seq(In("immediate", m)) /\ ToSet(a) \subseteq Elements(thread["immediate"])
        /\ b \in Seq(In("normal", m)) /\ ToSet(b) \subseteq Elements(thread["normal"])
    BY <1>2, <2>1, ThreadFields, ElementsAre
  <2>3. Ranked(ToSet(a)) /\ Ranked(ToSet(b))
    BY <1>2, <2>1, <2>2 DEF Lines, Ranked
  <2>4. a \in Seq(T) /\ b \in Seq(T)
    BY <2>2, SeqGrows DEF In
  <2> HIDE DEF a, b, T, found
  <2>5. a \o b \in Seq(T) /\ ToSet(a \o b) = ToSet(a) \cup ToSet(b)
    BY <2>4, BothLists
  <2> DEFINE both == a \o b
  <2>6. both \in Seq(T) /\ ToSet(both) = ToSet(a) \cup ToSet(b) /\ queued = Only(both, found)
    BY <2>5
  <2> HIDE DEF both, queued
  <2>7. ToSet(queued) \subseteq ToSet(both)
    BY <2>6, OnlyFacts
  <2> QED
    BY <2>3, <2>6, <2>7 DEF Ranked
<1> HIDE DEF queued
<1>5. delayed \in [Node -> Seq(Known(m))]
  BY CoreParts DEF Around
<1>6. \A k \in Node : delayed'[k] = queued \/ delayed'[k] = delayed[k]
  BY <1>1, <1>5
<1>7. \A k \in Node : Ranked(ToSet(delayed'[k]))
  BY <1>4, <1>6 DEF Lined
<1> QED
  BY <1>1, <1>3, <1>7 DEF Lined, AllLines

LEMMA DelayEndsLined ==
    ASSUME NoManual, NEW m, Core(m), Lined, NEW n \in Node, DelayEnds(n)
    PROVE  Lined'
<1> DEFINE d == delayed[n]
           clones == [i \in DOMAIN d |-> Clone(d[i])]
           S(q) == {x \in ToSet(clones) : QueueOf(x.msg) = q}
           xs(q) == Only(clones, S(q))
<1>1. /\ delayed' = [delayed EXCEPT ![n] = <<>>] /\ status' = status
      /\ thread' = [q \in Queues |-> Added(status, q, thread[q], xs(q))]
  BY DEF DelayEnds
<1>2. \A q \in Queues : ThreadOK(q, m, thread[q]) /\ Lines(status, q, thread[q])
  BY CoreParts DEF Lined, AllLines
<1>3. d \in Seq(Known(m)) /\ Ranked(ToSet(d))
  BY CoreParts DEF Around, Lined
<1> HIDE DEF d
<1>4. /\ clones \in Seq(Known(m)) /\ Len(clones) = Len(d)
      /\ \A i \in 1..Len(d) : clones[i].msg = d[i].msg /\ clones[i].prio = d[i].prio
  BY <1>3, ClonesFacts
<1> HIDE DEF clones
<1>5. ToSet(clones) \subseteq Known(m) /\ Ranked(ToSet(clones))
  <2>1. ToSet(clones) = {clones[i] : i \in 1..Len(d)} /\ ToSet(clones) \subseteq Known(m)
    BY <1>4, ToSetType
  <2>2. \A i \in 1..Len(d) : d[i] \in ToSet(d)
    BY <1>3, ToSetType
  <2> QED
    BY <1>3, <1>4, <2>1, <2>2 DEF Ranked
<1>6. ASSUME NEW q \in Queues PROVE Lines(status, q, thread'[q])
  <2> DEFINE old == thread[q]
             U == S(q)
             more == Only(clones, U)
             new == Added(status, q, old, more)
  <2>1. thread'[q] = new
    BY <1>1
  <2>2. ThreadOK(q, m, old) /\ Lines(status, q, old) /\ Listens(status)
    BY <1>2 DEF Lined
  <2>3. U \subseteq ToSet(clones) /\ \A x \in U : QueueOf(x.msg) = q
    OBVIOUS
  <2> HIDE DEF old, U
  <2>4. more \in Seq(Known(m)) /\ ToSet(more) = ToSet(clones) \cap U
    BY <1>4, OnlyFacts
  <2> HIDE DEF more
  <2>5. ToSet(more) \subseteq In(q, m) /\ Ranked(ToSet(more))
    BY <1>5, <2>3, <2>4 DEF In, Ranked
  <2>6. more \in Seq(In(q, m))
    BY <2>4, <2>5, SubType
  <2>7. new = Added(status, q, old, more)
    OBVIOUS
  <2> HIDE DEF new
  <2>8. Lines(status, q, new)
    BY <2>2, <2>5, <2>6, <2>7, AddedLines
  <2> QED
    BY <2>1, <2>8
<1>7. \A k \in Node : Ranked(ToSet(delayed'[k]))
  BY <1>1, ForgottenRanked
<1> QED
  BY <1>1, <1>6, <1>7 DEF Lined, AllLines
-----------------------------------------------------------------------------
(* The loop of one queue.                                                  *)

LEMMA OneLoop ==
    ASSUME NEW m, NEW ths, Machine(m, ths), NEW q \in Queues, NEW st, AllLines(st, ths),
           NEW new, Lines(st, q, new), NEW th2, th2 = Except(ths, q, new)
    PROVE  AllLines(st, th2)
<1>1. ths = [p \in Queues |-> ths[p]]
  BY DEF Machine
<1>2. th2[q] = new /\ \A p \in Queues \ {q} : th2[p] = ths[p]
  BY <1>1 DEF Except
<1>3. Lines(st, q, th2[q])
  BY <1>2
<1> QED
  BY <1>2, <1>3, TurnLines

LEMMA GoesOn ==
    ASSUME NEW q, NEW m, NEW th, ThreadOK(q, m, th), NEW st, Lines(st, q, th), NEW st2,
           NEW r, r = Triggered(st2, q, Done(th))
    PROVE  Lines(st, q, r)
<1> DEFINE done == Done(th)
<1>1. r = Triggered(st2, q, done)
  OBVIOUS
<1>2. done = Done(th)
  OBVIOUS
<1> HIDE DEF done
<1>3. ThreadOK(q, m, done) /\ Lines(st, q, done)
  BY <1>2, DoneLines
<1> QED
  BY <1>1, <1>3, TriggeredLines

(* The same transaction, the same list.                                    *)
LEMMA SameTransaction ==
    ASSUME NEW m, Core(m), Lined, NEW q \in Queues, UNCHANGED <<status, delayed>>,
           NEW new, new.list = thread[q].list, new.active = thread[q].active,
           thread' = Except(thread, q, new)
    PROVE  Lined'
<1>1. Machine(m, thread) /\ AllLines(status, thread)
  BY CoreParts DEF Lined
<1>2. Lines(status, q, thread[q])
  BY <1>1 DEF AllLines
<1>3. Lines(status, q, new)
  BY <1>2, SameLists
<1>4. AllLines(status, thread')
  BY <1>1, <1>3, OneLoop
<1> QED
  BY <1>4 DEF Lined

LEMMA StartLined ==
    ASSUME NEW m, Core(m), Lined, NEW q \in Queues, Start(q)
    PROVE  Lined'
<1> DEFINE old == thread[q]
           new == [old EXCEPT !.phase = "sending"]
<1>1. thread' = Except(thread, q, new) /\ UNCHANGED <<status, delayed>>
  BY StartIsFresh DEF Start, Except
<1>2. ThreadOK(q, m, old)
  BY CoreParts
<1> HIDE DEF old
<1>3. new.list = old.list /\ new.active = old.active
  BY <1>2, ThreadFields
<1> HIDE DEF new
<1> QED
  BY <1>1, <1>3, SameTransaction DEF old

LEMMA WaitEndsLined ==
    ASSUME NEW m, Core(m), Lined, NEW q \in Queues, WaitEnds(q)
    PROVE  Lined'
<1> DEFINE old == thread[q]
           new == [old EXCEPT !.phase = "sending"]
<1>1. thread' = Except(thread, q, new) /\ UNCHANGED <<status, delayed>>
  BY DEF WaitEnds, Except
<1>2. ThreadOK(q, m, old)
  BY CoreParts
<1> HIDE DEF old
<1>3. new.list = old.list /\ new.active = old.active
  BY <1>2, ThreadFields
<1> HIDE DEF new
<1> QED
  BY <1>1, <1>3, SameTransaction DEF old

LEMMA WaitForUpdateEndsLined ==
    ASSUME NEW m, Core(m), Lined, NEW q \in Queues, NEW v, WaitForUpdateEnds(q, v),
           NEW n, status' = status \/ status' = Heard(n)
    PROVE  Lined'
<1> DEFINE old == thread[q]
           new == Triggered(status, q, Done(old))
<1>1. thread' = Except(thread, q, new) /\ delayed' = delayed
  BY DEF WaitForUpdateEnds, Except
<1>2. Listens(status') /\ \A k \in Node : status'[k] = "asleep" <=> status[k] = "asleep"
  BY ListensIs DEF Lined
<1>3. Machine(m, thread) /\ AllLines(status, thread) /\ ThreadOK(q, m, old)
  BY CoreParts DEF Lined
<1>4. AllLines(status', thread)
  BY <1>2, <1>3, StatusLines
<1>5. Lines(status', q, old)
  BY <1>4 DEF AllLines
<1> HIDE DEF old
<1>6. new = Triggered(status, q, Done(old))
  OBVIOUS
<1> HIDE DEF new
<1>7. Lines(status', q, new)
  BY <1>3, <1>5, <1>6, GoesOn
<1>8. AllLines(status', thread')
  BY <1>1, <1>3, <1>4, <1>7, OneLoop
<1> QED
  BY <1>1, <1>2, <1>8 DEF Lined

LEMMA RejectActiveLined ==
    ASSUME NEW m, Core(m), Lined, NEW q \in Queues, HasResult(q), RejectActive(q),
           delayed' = delayed
    PROVE  Lined'
<1> DEFINE f == Finalized(q)
<1>1. thread' = Listening(status, f, q) /\ status' = status
  BY DEF RejectActive
<1>2. Machine(m, f) /\ f[q].phase = "failed"
  BY FinalizedIs
<1>3. AllLines(status, f)
  BY FinalizedLines DEF Lined
<1> HIDE DEF f
<1>4. AllLines(status, thread')
  BY <1>1, <1>2, <1>3, ListeningLines
<1> QED
  BY <1>1, <1>4 DEF Lined

LEMMA ListeningNodeMissingLined ==
    ASSUME NoManual, NEW m, Core(m), Lined, NEW q \in Queues, HasResult(q),
           thread[q].active.msg.node # Controller, ListeningNodeMissing(q), delayed' = delayed
    PROVE  Lined'
<1> DEFINE n == thread[q].active.msg.node
           st == [status EXCEPT ![n] = "dead"]
           f == Finalized(q)
           S == Found(f, n)
           ths == Rejected(st, f, S)
<1>1. status' = st /\ thread' = Listening(st, ths, q)
  BY DEF ListeningNodeMissing
<1>2. Machine(m, f) /\ f[q].phase = "failed"
  BY FinalizedIs
<1>3. AllLines(status, f)
  BY FinalizedLines DEF Lined
<1>4. Listens(st) /\ \A k \in Node \ {n} : st[k] = status[k]
  <2>1. "dead" \notin {"asleep", "awake"} /\ Listens(status)
    BY DEF Lined
  <2> HIDE DEF n
  <2>2. Listens([status EXCEPT ![n] = "dead"])
    BY <2>1, ListensIs
  <2>3. \A k \in Node \ {n} : [status EXCEPT ![n] = "dead"][k] = status[k]
    BY <2>1, ListensIs
  <2> QED
    BY <2>2, <2>3
<1>5. n \in Node
  BY ResultIs, ConstantsAssumption DEF In, Known, Transaction, ConstantsAssumption
<1> HIDE DEF n, st, f
<1>6. \A p \in Queues : \A x \in Elements(f[p]) \ S : Asleep(st, x) <=> Asleep(status, x)
  BY <1>2, <1>4, <1>5, OthersAsleep
<1> HIDE DEF S
<1>7. ths = Rejected(st, f, S)
  OBVIOUS
<1> HIDE DEF ths
<1>8. AllLines(st, ths)
  BY <1>2, <1>3, <1>4, <1>6, <1>7, RejectedLines
<1>9. Machine(m, ths) /\ SameWork(f[q], ths[q])
  BY <1>2, <1>7, RejectedKeeps DEF Arranged
<1>10. ths[q].phase = "failed"
  BY <1>2, <1>9, SameWorkPhase
<1>11. AllLines(st, thread')
  BY <1>1, <1>8, <1>9, <1>10, ListeningLines
<1> QED
  BY <1>1, <1>4, <1>11 DEF Lined

LEMMA ReaddedLines ==
    ASSUME NoManual, NEW m, Core(m), Lined, NEW q \in Queues, HasResult(q)
    PROVE  AllLines(status, Readded(q))
<1> DEFINE x == thread[q].active
           f == Finalized(q)
           ths == Readded(q)
<1>1. Machine(m, f) /\ f[q].phase = "failed"
  BY FinalizedIs
<1>2. AllLines(status, f)
  BY FinalizedLines DEF Lined
<1>3. x \in In(q, m)
  BY ResultIs
<1>4. x.prio = Priority(x.msg)
  <2>1. thread[q].phase = "sending" /\ ThreadOK(q, m, thread[q]) /\ Lines(status, q, thread[q])
    BY ResultIs, CoreParts DEF Lined, AllLines
  <2>2. x \in Elements(thread[q])
    BY <2>1, ElementsAre DEF AtWork
  <2> QED
    BY <2>1, <2>2 DEF Lines, Ranked
<1>5. CASE ~MayMove(x.msg)
  BY <1>2, <1>5 DEF Readded
<1>6. CASE MayMove(x.msg)
  <2> DEFINE old == f[q]
             xs == <<x>>
             new == Added(status, q, old, xs)
  <2>1. q = "normal"
    BY <1>3, <1>6 DEF MayMove, In, QueueOf
  <2>2. ths = Except(f, q, new)
    BY <1>6, <2>1 DEF Readded, Except
  <2>3. ThreadOK(q, m, old) /\ Lines(status, q, old) /\ Listens(status)
    BY <1>1, <1>2 DEF Machine, AllLines, Lined
  <2> HIDE DEF old, f, ths, x
  <2>4. xs \in Seq(In(q, m)) /\ Ranked(ToSet(xs))
    BY <1>3, <1>4 DEF ToSet, Ranked
  <2> HIDE DEF xs
  <2>5. new = Added(status, q, old, xs)
    OBVIOUS
  <2> HIDE DEF new
  <2>6. Lines(status, q, new)
    BY <2>3, <2>4, <2>5, AddedLines
  <2>7. AllLines(status, ths)
    BY <1>1, <1>2, <2>2, <2>6, OneLoop
  <2> QED
    BY <2>7 DEF ths
<1> QED
  BY <1>5, <1>6

LEMMA SleepingNodeMissingLined ==
    ASSUME NoManual, NEW m, Core(m), Lined, NEW q \in Queues, HasResult(q),
           thread[q].active.msg.node # Controller, CanSleep(thread[q].active.msg.node),
           SleepingNodeMissing(q), delayed' = delayed
    PROVE  Lined'
<1> DEFINE n == thread[q].active.msg.node
           st == [status EXCEPT ![n] = "asleep"]
           ths == Readded(q)
           left == Parked(st, ths, n)
<1>1. status' = st /\ thread' = Listening(st, left, q)
  BY DEF SleepingNodeMissing
<1>2. Machine(m, ths) /\ ths[q].phase = "failed"
  BY ReaddedIs
<1>3. AllLines(status, ths)
  BY ReaddedLines
<1>4. Listens(st) /\ \A k \in Node \ {n} : st[k] = status[k]
  BY ListensIs DEF Lined
<1>5. n \in Node /\ CanSleep(n)
  BY ResultIs, ConstantsAssumption DEF In, Known, Transaction, ConstantsAssumption
<1> HIDE DEF n, st, ths
<1>6. left = Parked(st, ths, n)
  OBVIOUS
<1> HIDE DEF left
<1>7. AllLines(st, left)
  BY <1>2, <1>3, <1>4, <1>5, <1>6, ParkedLines
<1>8. Machine(m, left) /\ SameWork(ths[q], left[q])
  BY <1>2, <1>5, <1>6, ParkedKeeps DEF Arranged
<1>9. left[q].phase = "failed"
  BY <1>2, <1>8, SameWorkPhase
<1>10. AllLines(st, thread')
  BY <1>1, <1>7, <1>8, <1>9, ListeningLines
<1> QED
  BY <1>1, <1>4, <1>10 DEF Lined

LEMMA NotAcknowledgedLined ==
    ASSUME NoManual, NEW m, Core(m), Lined, NEW q \in Queues, NotAcknowledged(q)
    PROVE  Lined'
<1> DEFINE x == thread[q].active
           n == x.msg.node
           old == thread[q]
           new == [old EXCEPT !.sent = @ + 1]
<1>1. HasResult(q) /\ n # Controller /\ delayed' = delayed
  BY DEF NotAcknowledged
<1>2. CASE old.sent + 1 < Attempts(x.msg)
  <2>1. thread' = Except(thread, q, new) /\ UNCHANGED <<status, delayed>>
    BY <1>2 DEF NotAcknowledged, Except
  <2>2. ThreadOK(q, m, old)
    BY CoreParts
  <2> HIDE DEF old
  <2>3. new.list = old.list /\ new.active = old.active
    BY <2>2, ThreadFields
  <2> HIDE DEF new
  <2> QED
    BY <2>1, <2>3, SameTransaction DEF old
<1>3. CASE ~(old.sent + 1 < Attempts(x.msg))
  <2>1. \/ RejectActive(q)
        \/ CanSleep(n) /\ SleepingNodeMissing(q)
        \/ ListeningNodeMissing(q)
    BY <1>3 DEF NotAcknowledged
  <2> QED
    BY <1>1, <2>1, RejectActiveLined, SleepingNodeMissingLined, ListeningNodeMissingLined
<1> QED
  BY <1>2, <1>3

LEMMA NotSentLined ==
    ASSUME NEW m, Core(m), Lined, NEW q \in Queues, NotSent(q)
    PROVE  Lined'
<1> DEFINE old == thread[q]
           new == [[old EXCEPT !.phase = "waiting"] EXCEPT !.unsent = @ + 1]
<1>1. HasResult(q) /\ delayed' = delayed
  BY DEF NotSent
<1>2. CASE old.unsent + 1 < MaxQueueAttempts
  <2>1. /\ thread' = [thread EXCEPT ![q].phase = "waiting", ![q].unsent = @ + 1]
        /\ UNCHANGED <<status, delayed>>
    BY <1>2 DEF NotSent
  <2>2. ThreadOK(q, m, old) /\ thread = [p \in Queues |-> thread[p]]
    BY CoreParts DEF Machine
  <2>3. thread' = Except(thread, q, new)
    BY <2>1, <2>2 DEF Except
  <2> HIDE DEF old
  <2>4. new.list = old.list /\ new.active = old.active
    BY <2>2, ThreadFields
  <2> HIDE DEF new
  <2> QED
    BY <2>1, <2>3, <2>4, SameTransaction DEF old
<1>3. CASE ~(old.unsent + 1 < MaxQueueAttempts)
  <2>1. RejectActive(q)
    BY <1>3 DEF NotSent
  <2> QED
    BY <1>1, <2>1, RejectActiveLined
<1> QED
  BY <1>2, <1>3

LEMMA ControllerResetLined ==
    ASSUME NoManual, NEW m, Core(m), Lined, NEW q \in Queues, ControllerReset(q)
    PROVE  Lined'
<1> DEFINE x == thread[q].active
           f == Finalized(q)
           old == f[q]
           xs == <<Clone(x)>>
           new == Added(status, q, old, xs)
           ths == Except(f, q, new)
<1>1. HasResult(q) /\ thread' = Listening(status, ths, q) /\ UNCHANGED <<status, delayed>>
  BY DEF ControllerReset, Except
<1>2. /\ Machine(m, f) /\ f[q].phase = "failed" /\ ThreadOK(q, m, old)
      /\ f = [p \in Queues |-> f[p]]
  BY <1>1, FinalizedIs DEF Machine
<1>3. AllLines(status, f) /\ Listens(status)
  BY <1>1, FinalizedLines DEF Lined
<1>4. Lines(status, q, old)
  BY <1>3 DEF AllLines
<1>5. x \in In(q, m) /\ x.prio = Priority(x.msg)
  <2>1. /\ x \in In(q, m) /\ thread[q].phase = "sending" /\ ThreadOK(q, m, thread[q])
        /\ Lines(status, q, thread[q])
    BY <1>1, ResultIs, CoreParts DEF Lined, AllLines
  <2>2. x \in Elements(thread[q])
    BY <2>1, ElementsAre DEF AtWork
  <2> QED
    BY <2>1, <2>2 DEF Lines, Ranked
<1>6. xs \in Seq(In(q, m)) /\ Ranked(ToSet(xs))
  <2>1. Clone(x) \in In(q, m) /\ Clone(x).msg = x.msg /\ Clone(x).prio = x.prio
    BY <1>5 DEF Clone, In, Known, Transaction
  <2> QED
    BY <1>5, <2>1 DEF ToSet, Ranked
<1> HIDE DEF f, xs
<1>7. old.phase = "failed"
  BY <1>2
<1> HIDE DEF old
<1>8. new = Added(status, q, old, xs)
  OBVIOUS
<1> HIDE DEF new
<1>9. Lines(status, q, new)
  BY <1>2, <1>3, <1>4, <1>6, <1>8, AddedLines
<1>10. ths = Except(f, q, new)
  OBVIOUS
<1>11. ThreadOK(q, m, new) /\ new.phase = "failed"
  BY <1>2, <1>6, <1>7, <1>8, AddedKeeps, SameWorkPhase
<1>12. ths[q] = new /\ Machine(m, ths)
  <2>1. /\ ths[q] = new /\ \A p \in Queues \ {q} : ths[p] = f[p]
        /\ ths = [p \in Queues |-> ths[p]]
    BY <1>2 DEF Except
  <2> QED
    BY <1>2, <1>11, <2>1 DEF Machine
<1> HIDE DEF ths
<1>13. AllLines(status, ths)
  BY <1>2, <1>3, <1>9, <1>10, OneLoop
<1>14. ths[q].phase = "failed"
  BY <1>11, <1>12
<1>15. AllLines(status, thread')
  BY <1>1, <1>12, <1>13, <1>14, ListeningLines
<1> QED
  BY <1>1, <1>15 DEF Lined

LEMMA SucceedsLined ==
    ASSUME NoManual, NEW m, Core(m), Lined, NEW q \in Queues, Succeeds(q)
    PROVE  Lined'
<1> DEFINE x      == thread[q].active
           n      == x.msg.node
           known  == n # Controller /\ status[n] # "removed"
           wakes  == known /\ CanSleep(n) /\ x.msg.kind # "report" /\ status[n] = "asleep"
           st     == IF wakes THEN [status EXCEPT ![n] = "awake"]
                     ELSE IF known /\ ~CanSleep(n) THEN [status EXCEPT ![n] = "alive"]
                     ELSE status
           ths    == IF wakes THEN Woken(st, thread, n) ELSE thread
           waits  == x.msg.kind = "get"
<1>1. HasResult(q) /\ delayed' = delayed
  BY DEF Succeeds
<1>2. Machine(m, thread) /\ AllLines(status, thread) /\ Listens(status)
  BY CoreParts DEF Lined
<1>3. x \in In(q, m) /\ (n # Controller => n \in Node)
  BY <1>1, ResultIs, ConstantsAssumption DEF In, Known, Transaction, ConstantsAssumption
<1>4. CASE started[x.t]
  <2> DEFINE old == ths[q]
             new == IF waits THEN [old EXCEPT !.phase = "awaitingUpdate"]
                    ELSE Triggered(st, q, Done(old))
  <2>1. status' = st /\ thread' = Except(ths, q, new)
    BY <1>4 DEF Succeeds, Except
  <2>2. Listens(st) /\ Machine(m, ths) /\ AllLines(st, ths)
    <3>1. CASE wakes
      <4> DEFINE woken == [status EXCEPT ![n] = "awake"]
                 th2 == Woken(woken, thread, n)
      <4>1. st = woken /\ ths = th2 /\ CanSleep(n) /\ n \in Node
        BY <1>3, <3>1
      <4> HIDE DEF n, st, ths
      <4>2. Listens(woken) /\ \A k \in Node \ {n} : woken[k] = status[k]
        <5>1. Listens(woken)
          BY <1>2, <4>1, ListensIs
        <5>2. \A k \in Node \ {n} : woken[k] = status[k]
          BY <1>2, ListensIs
        <5> QED
          BY <5>1, <5>2
      <4> HIDE DEF woken
      <4>3. th2 = Woken(woken, thread, n)
        OBVIOUS
      <4> HIDE DEF th2
      <4>4. Machine(m, th2)
        BY <1>2, <4>1, <4>3, WokenKeeps
      <4>5. AllLines(woken, th2)
        BY <1>2, <4>1, <4>2, <4>3, WokenLines
      <4> QED
        BY <4>1, <4>2, <4>4, <4>5
    <3>2. CASE ~wakes /\ known /\ ~CanSleep(n)
      <4> DEFINE alive == [status EXCEPT ![n] = "alive"]
      <4>1. st = alive /\ ths = thread /\ n \in Node /\ ~CanSleep(n)
        BY <1>3, <3>2
      <4>2. status[n] # "asleep"
        <5>1. status[n] = "asleep" => CanSleep(n)
          BY <1>2, <4>1, ListensIs
        <5> QED
          BY <4>1, <5>1
      <4>3. alive[n] = "alive" /\ \A k \in Node \ {n} : alive[k] = status[k]
        BY <4>1, StatusIs
      <4>4. \A k \in Node : alive[k] = "asleep" <=> status[k] = "asleep"
        BY <4>2, <4>3
      <4>5. Listens(alive)
        BY <1>2, ListensIs
      <4> HIDE DEF n, st, ths, alive
      <4>6. AllLines(alive, thread)
        BY <1>2, <4>4, StatusLines
      <4> QED
        BY <1>2, <4>1, <4>5, <4>6
    <3>3. CASE ~wakes /\ ~(known /\ ~CanSleep(n))
      BY <1>2, <3>3
    <3> QED
      BY <3>1, <3>2, <3>3
  <2> HIDE DEF ths, st
  <2>3. ThreadOK(q, m, old) /\ Lines(st, q, old)
    BY <2>2 DEF Machine, AllLines
  <2> HIDE DEF old
  <2>4. Lines(st, q, new)
    <3>1. CASE waits
      <4>1. new = [old EXCEPT !.phase = "awaitingUpdate"]
        BY <3>1
      <4> HIDE DEF new
      <4>2. new.list = old.list /\ new.active = old.active
        BY <2>3, <4>1, ThreadFields
      <4> QED
        BY <2>3, <4>2, SameLists
    <3>2. CASE ~waits
      <4>1. new = Triggered(st, q, Done(old))
        BY <3>2
      <4> HIDE DEF new
      <4> QED
        BY <2>3, <4>1, GoesOn
    <3> QED
      BY <3>1, <3>2
  <2> HIDE DEF new
  <2>5. AllLines(st, thread')
    BY <2>1, <2>2, <2>4, OneLoop
  <2> QED
    BY <1>1, <2>1, <2>2, <2>5 DEF Lined
<1>5. CASE ~started[x.t]
  <2> DEFINE old == thread[q]
             new == Triggered(status, q, Done(old))
  <2>1. thread' = Except(thread, q, new) /\ status' = status
    BY <1>5 DEF Succeeds, Except
  <2>2. ThreadOK(q, m, old) /\ Lines(status, q, old)
    BY <1>2 DEF Machine, AllLines
  <2> HIDE DEF old
  <2>3. new = Triggered(status, q, Done(old))
    OBVIOUS
  <2> HIDE DEF new
  <2>4. Lines(status, q, new)
    BY <2>2, <2>3, GoesOn
  <2>5. AllLines(status, thread')
    BY <1>2, <2>1, <2>4, OneLoop
  <2> QED
    BY <1>1, <2>1, <2>5 DEF Lined
<1> QED
  BY <1>4, <1>5

LEMMA NextLined ==
    ASSUME NoManual, NEW m \in Seq(Messages), Core(m), Lined, [Next]_vars
    PROVE  Lined'
<1>1. ASSUME NEW e \in Messages, SendMessage(e) PROVE Lined'
  BY <1>1, EnqueueLined DEF SendMessage
<1>2. ASSUME NEW n \in Node, SendToSleep(n) PROVE Lined'
  <2>1. PICK e \in Messages : Enqueue(e) /\ UNCHANGED <<status, delayed>>
    BY <1>2 DEF SendToSleep
  <2> QED
    BY <2>1, EnqueueLined
<1>3. ASSUME NEW q \in Queues, Loop(q) PROVE Lined'
  <2>1. CASE Start(q)
    BY <2>1, StartLined
  <2>2. CASE Succeeds(q)
    BY <2>2, SucceedsLined
  <2>3. CASE NotAcknowledged(q)
    BY <2>3, NotAcknowledgedLined
  <2>4. CASE NotSent(q)
    BY <2>4, NotSentLined
  <2>5. CASE Fails(q)
    BY <2>5, RejectActiveLined DEF Fails
  <2>6. CASE ControllerReset(q)
    BY <2>6, ControllerResetLined
  <2>7. CASE WaitEnds(q)
    BY <2>7, WaitEndsLined
  <2>8. CASE UpdateArrives(q)
    BY <2>8, WaitForUpdateEndsLined DEF UpdateArrives
  <2>9. CASE UpdateTimeout(q)
    BY <2>9, WaitForUpdateEndsLined DEF UpdateTimeout
  <2> QED
    BY <1>3, <2>1, <2>2, <2>3, <2>4, <2>5, <2>6, <2>7, <2>8, <2>9 DEF Loop, Result
<1>4. ASSUME NEW n \in Node, NodeSpeaks(n) \/ NodeInfoReceived(n) PROVE Lined'
  BY <1>4, QuietLined DEF NodeSpeaks, NodeInfoReceived
<1>5. ASSUME PrematureUpdate PROVE Lined'
  BY <1>5, QuietLined DEF PrematureUpdate
<1>6. ASSUME NEW n \in Node,
             NodeWakes(n) \/ FallAsleep(n) \/ NodeBusy(n) \/ DelayEnds(n) \/ NodeRemoved(n)
      PROVE  Lined'
  BY <1>6, NodeWakesLined, FallAsleepLined, NodeBusyLined, DelayEndsLined, NodeRemovedLined
<1>7. ASSUME NEW t \in DOMAIN promise, Expire(t) PROVE Lined'
  BY <1>7, ExpireLined
<1>8. ASSUME UNCHANGED vars PROVE Lined'
  BY <1>8 DEF vars, Lined
<1> QED
  BY <1>1, <1>2, <1>3, <1>4, <1>5, <1>6, <1>7, <1>8 DEF Next

LEMMA InitLined ==
    ASSUME Init
    PROVE  Lined
<1>1. /\ thread = [q \in Queues |-> Idle]
      /\ status = [n \in Node |-> IF CanSleep(n) THEN "asleep" ELSE "unknown"]
      /\ delayed = [n \in Node |-> <<>>]
  BY DEF Init
<1>2. Listens(status)
  BY <1>1 DEF Listens, CanSleep
<1>3. Ranked(ToSet(<<>>))
  BY DEF Ranked, ToSet
<1>4. \A q : Lines(status, q, Idle)
  <2>1. Elements(Idle) = ToSet(<<>>)
    BY DEF Elements, Active, Idle, NoTransaction
  <2>2. Orderly(status, Idle.list) /\ Sorted(status, Idle.list)
    BY DEF Orderly, Sorted, Idle
  <2> QED
    BY <1>3, <2>1, <2>2 DEF Lines
<1> QED
  BY <1>1, <1>2, <1>3, <1>4 DEF Lined, AllLines

(* A message that may be sent is never stuck in a queue behind one that    *)
(* may not: "if the first message is for a sleeping node, all messages in  *)
(* the queue are" (mayStartTransaction).  A node that can sleep and does   *)
(* not support Wake Up breaks this: its messages may start although it is  *)
(* asleep, and are queued behind those for other sleeping nodes.           *)
THEOREM FirstBlocksNone == NoManual => (Spec => []HeadOfLine)
<1> SUFFICES ASSUME NoManual PROVE Spec => []HeadOfLine
  OBVIOUS
<1>1. Init => Lined
  BY InitLined
<1>2. IInv /\ Lined /\ [Next]_vars => Lined'
  BY NextLined DEF IInv
<1>3. IInv /\ Lined => HeadOfLine
  <2> SUFFICES ASSUME NEW m \in Seq(Messages), Core(m), Lined, NEW q \in Queues,
                      NEW i \in DOMAIN thread[q].list, MayStart(status, q, thread[q].list[i])
               PROVE  MayStart(status, q, thread[q].list[1])
    BY DEF IInv, HeadOfLine
  <2> DEFINE l == thread[q].list
  <2>1. q = "immediate" \/ q = "normal"
    BY DEF Queues
  <2>2. CASE q = "immediate"
    BY <2>2 DEF MayStart
  <2>3. CASE q = "normal"
    <3>1. l \in Seq(In(q, m)) /\ Orderly(status, l)
      BY <2>3, CoreParts, ThreadFields DEF Lined, AllLines, Lines
    <3>2. i \in 1..Len(l) /\ 1 \in 1..Len(l) /\ (i = 1 \/ 1 < i)
      BY <3>1
    <3>3. \A j \in 1..Len(l) : MayStart(status, q, l[j]) <=> ~Blocked(status, l[j])
      <4> SUFFICES ASSUME NEW j \in 1..Len(l)
                   PROVE  MayStart(status, q, l[j]) <=> ~Blocked(status, l[j])
        OBVIOUS
      <4>1. l[j] \in In(q, m)
        BY <3>1
      <4> DEFINE x == l[j]
      <4> HIDE DEF x, l
      <4>2. x.msg.node # Controller => NodeKind[x.msg.node] # "manual"
        BY <4>1, ConstantsAssumption
           DEF In, Known, Transaction, ConstantsAssumption, NoManual, x
      <4>3. MayStart(status, q, x) <=> ~Blocked(status, x)
        BY <2>3, <4>2 DEF MayStart, Blocked, Asleep
      <4> QED
        BY <4>3 DEF x
    <3> HIDE DEF l
    <3>4. MayStart(status, q, l[i])
      BY DEF l
    <3>5. ~Blocked(status, l[1])
      BY <3>1, <3>2, <3>3, <3>4 DEF Orderly
    <3>6. MayStart(status, q, l[1])
      BY <3>2, <3>3, <3>5
    <3> QED
      BY <3>6 DEF l
  <2> QED
    BY <2>1, <2>2, <2>3
<1> QED
  BY <1>1, <1>2, <1>3, Invariance, PTL DEF Spec

(* The queues stay sorted although the order of two transactions depends   *)
(* on the status of their nodes, which changes while they are queued: what *)
(* falls asleep or wakes up leaves the list and is inserted again.  If     *)
(* pings for sleeping nodes and for others are queued together, compareTo  *)
(* has no order to sort by: a ping to an awake node comes before a command *)
(* to a node that is awake, that before a ping to a sleeping node, and     *)
(* that before the first ping if it is older.                              *)
THEOREM QueuesAreSorted == NoManual /\ PingsAgree => (Spec => []QueueSorted)
<1> SUFFICES ASSUME NoManual, PingsAgree PROVE Spec => []QueueSorted
  OBVIOUS
<1>1. Init => Lined
  BY InitLined
<1>2. IInv /\ Lined /\ [Next]_vars => Lined'
  BY NextLined DEF IInv
<1>3. IInv /\ Lined => QueueSorted
  <2> SUFFICES ASSUME NEW m \in Seq(Messages), Core(m), Lined, NEW q \in Queues
               PROVE  LET l == thread[q].list
                      IN  \A i, j \in DOMAIN l : i < j => ~Before(status, l[j], l[i])
    BY DEF IInv, QueueSorted
  <2> DEFINE l == thread[q].list
  <2>1. l \in Seq(In(q, m)) /\ Sorted(status, l)
    BY CoreParts, ThreadFields DEF Lined, AllLines, Lines
  <2> HIDE DEF l
  <2>2. \A i, j \in DOMAIN l : i < j => ~Before(status, l[j], l[i])
    BY <2>1 DEF Sorted
  <2> QED
    BY <2>2 DEF l
<1> QED
  BY <1>1, <1>2, <1>3, Invariance, PTL DEF Spec
=============================================================================
