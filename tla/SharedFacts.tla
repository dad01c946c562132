---------------------------- MODULE SharedFacts -----------------------------
(***************************************************************************)
(* What several proofs rest on: least numbers, induction and lists.        *)
(*                                                                         *)
(* Every non-empty set of natural numbers has a least element.  Stated for *)
(* sets it needs no operator parameter, so that induction over the natural *)
(* numbers becomes an argument about the least counterexample.  It follows *)
(* from the well-foundedness of the finite subsets of Nat: x is the least  *)
(* number of S if no 1..y for a y in S is a smaller set than 1..x.         *)
(***************************************************************************)
EXTENDS Lists, SequencesExt, FiniteSets, FiniteSetTheorems, SequenceTheorems, TLAPS

LEMMA LeastNumber ==
    ASSUME NEW S \in SUBSET Nat, S # {}
    PROVE  \E x \in S : \A y \in S : x <= y
<1> DEFINE Up(x) == 1..x
<1> DEFINE T == {Up(x) : x \in S}
<1>1. T \subseteq FiniteSubsetsOf(Nat)
  <2> SUFFICES ASSUME NEW x \in S PROVE Up(x) \in FiniteSubsetsOf(Nat)
    OBVIOUS
  <2>1. IsFiniteSet(Up(x))
    BY FS_Interval, x \in Int, 1 \in Int
  <2> QED
    BY <2>1 DEF FiniteSubsetsOf
<1>2. T # {}
  OBVIOUS
<1>3. IsWellFoundedOn(StrictSubsetOrdering(Nat), FiniteSubsetsOf(Nat))
  BY FS_StrictSubsetOrderingWellFounded
<1>4. PICK t \in T : \A u \in T : ~ (<<u, t>> \in StrictSubsetOrdering(Nat))
  <2> HIDE DEF T
  <2> QED BY <1>1, <1>2, <1>3, WFMin, Zenon
<1>5. PICK x \in S : t = Up(x)
  OBVIOUS
<1>6. ASSUME NEW y \in S, ~ (x <= y)
      PROVE  FALSE
  <2>1. y < x
    BY <1>6
  <2>2. Up(y) \subseteq Up(x) /\ Up(y) # Up(x)
    <3>1. x \in Up(x) /\ x \notin Up(y)
      BY <2>1
    <3> QED BY <2>1, <3>1
  <2>3. Up(x) \subseteq Nat
    OBVIOUS
  <2> HIDE DEF Up
  <2>4. <<Up(y), Up(x)>> \in StrictSubsetOrdering(Nat)
    BY <2>2, <2>3 DEF StrictSubsetOrdering
  <2> QED
    BY <1>4, <1>5, <2>4
<1> QED
  BY <1>5, <1>6

(* Induction up to n, over the set of the numbers for which it is shown.   *)
LEMMA InductionUpTo ==
    ASSUME NEW n \in Nat, NEW G, 0 \in G, \A i \in 1..n : i - 1 \in G => i \in G
    PROVE  \A i \in 0..n : i \in G
<1> DEFINE Bad == {i \in 0..n : i \notin G}
<1>1. SUFFICES ASSUME Bad # {} PROVE FALSE
  OBVIOUS
<1>2. PICK i \in Bad : \A j \in Bad : i <= j
  <2>1. Bad \in SUBSET Nat
    OBVIOUS
  <2> HIDE DEF Bad
  <2> QED
    BY <1>1, <2>1, LeastNumber
<1>3. i \in 1..n /\ i - 1 \in 0..n
  BY <1>2
<1>4. i - 1 \in G
  BY <1>2, <1>3
<1> QED
  BY <1>2, <1>3, <1>4

-----------------------------------------------------------------------------
(* What Only keeps of a list.                                              *)

OnlyStep(list, S, f, i) ==
    IF i = 0 THEN <<>>
    ELSE IF list[i] \in S THEN Append(f[i - 1], list[i]) ELSE f[i - 1]

OnlySteps(list, S, n) == \E f : f = [i \in 0..n |-> OnlyStep(list, S, f, i)]

(* The recursive definition of Only is one: a function like that exists.   *)
LEMMA OnlyExists ==
    ASSUME NEW list, NEW S, NEW n \in Nat
    PROVE  OnlySteps(list, S, n)
<1> DEFINE G == {i \in 0..n : OnlySteps(list, S, i)}
<1>1. 0 \in G
  <2> DEFINE f == [i \in 0..0 |-> <<>>]
  <2>1. f = [i \in 0..0 |-> OnlyStep(list, S, f, i)]
    BY DEF OnlyStep
  <2> QED
    BY <2>1 DEF OnlySteps
<1>2. ASSUME NEW i \in 1..n, i - 1 \in G PROVE i \in G
  <2>1. PICK f : f = [j \in 0..(i - 1) |-> OnlyStep(list, S, f, j)]
    BY <1>2 DEF OnlySteps
  <2> DEFINE g == [j \in 0..i |-> OnlyStep(list, S, f, j)]
  <2>2. ASSUME NEW j \in 0..(i - 1) PROVE g[j] = f[j]
    <3>1. f[j] = OnlyStep(list, S, f, j)
      BY <2>1
    <3> QED
      BY <3>1
  <2> HIDE DEF G
  <2>3. \A j \in 0..i : OnlyStep(list, S, g, j) = OnlyStep(list, S, f, j)
    <3> HIDE DEF g
    <3> QED
      BY <2>2 DEF OnlyStep
  <2>4. g = [j \in 0..i |-> OnlyStep(list, S, g, j)]
    BY <2>3
  <2> HIDE DEF g
  <2>5. OnlySteps(list, S, i)
    BY <2>4 DEF OnlySteps
  <2> QED
    BY <2>5 DEF G
<1> HIDE DEF G
<1>3. n \in G
  BY <1>1, <1>2, InductionUpTo
<1> QED
  BY <1>3 DEF G

LEMMA OnlyRecursion ==
    ASSUME NEW T, NEW list \in Seq(T), NEW S
    PROVE  \E f : /\ f[0] = <<>>
                  /\ \A i \in 1..Len(list) : f[i] = IF list[i] \in S
                       THEN Append(f[i - 1], list[i]) ELSE f[i - 1]
                  /\ Only(list, S) = f[Len(list)]
<1> DEFINE f == CHOOSE g : g = [i \in 0..Len(list) |-> OnlyStep(list, S, g, i)]
<1>1. f = [i \in 0..Len(list) |-> OnlyStep(list, S, f, i)]
  BY OnlyExists DEF OnlySteps
<1>2. Only(list, S) = f[Len(list)]
  BY DEF Only, OnlyStep
<1> HIDE DEF f
<1>3. \A i \in 0..Len(list) : f[i] = OnlyStep(list, S, f, i)
  BY <1>1
<1> QED
  BY <1>2, <1>3 DEF OnlyStep

(* r has elements of l, in their order.                                    *)
InOrder(r, l) ==
    \A a, b \in 1..Len(r) : a < b =>
      \E c, d \in 1..Len(l) : c < d /\ r[a] = l[c] /\ r[b] = l[d]

(* What Only leaves: the elements of S, in the order they had.             *)
LEMMA OnlyFacts ==
    ASSUME NEW T, NEW list \in Seq(T), NEW S
    PROVE  /\ Only(list, S) \in Seq(T)
           /\ ToSet(Only(list, S)) = ToSet(list) \cap S
           /\ InOrder(Only(list, S), list)
<1>1. PICK f : /\ f[0] = <<>>
               /\ \A i \in 1..Len(list) : f[i] = IF list[i] \in S
                    THEN Append(f[i - 1], list[i]) ELSE f[i - 1]
               /\ Only(list, S) = f[Len(list)]
  BY OnlyRecursion
<1> DEFINE Good(i) ==
      /\ f[i] \in Seq(T)
      /\ \A a \in 1..Len(f[i]) : \E c \in 1..i : f[i][a] = list[c] /\ list[c] \in S
      /\ \A c \in 1..i : list[c] \in S => \E a \in 1..Len(f[i]) : f[i][a] = list[c]
      /\ \A a, b \in 1..Len(f[i]) : a < b =>
           \E c, d \in 1..i : c < d /\ f[i][a] = list[c] /\ f[i][b] = list[d]
    G == {i \in 0..Len(list) : Good(i)}
<1>2. 0 \in G
  <2>1. Good(0)
    BY <1>1
  <2> QED
    BY <2>1
<1>3. ASSUME NEW i \in 1..Len(list), i - 1 \in G PROVE i \in G
  <2> DEFINE r == f[i - 1]
             s == f[i]
  <2>1. Good(i - 1)
    BY <1>3
  <2>2. CASE list[i] \notin S
    <3>1. s = r
      BY <1>1, <2>2
    <3>2. Good(i)
      BY <2>1, <2>2, <3>1
    <3> QED
      BY <3>2
  <2>3. CASE list[i] \in S
    <3>1. s = Append(r, list[i]) /\ list[i] \in T /\ r \in Seq(T)
      <4>1. r \in Seq(T)
        BY <2>1
      <4>2. s = Append(r, list[i])
        BY <1>1, <2>3
      <4> QED
        BY <4>1, <4>2
    <3> HIDE DEF s, r, G
    <3>2. /\ s \in Seq(T) /\ Len(s) = Len(r) + 1 /\ s[Len(r) + 1] = list[i]
          /\ \A a \in 1..Len(r) : s[a] = r[a]
      BY <3>1
    <3>3. ASSUME NEW a \in 1..Len(s) PROVE \E c \in 1..i : s[a] = list[c] /\ list[c] \in S
      <4>1. CASE a \in 1..Len(r)
        <5>1. PICK c \in 1..(i - 1) : r[a] = list[c] /\ list[c] \in S
          BY <2>1, <4>1 DEF r
        <5> QED
          BY <3>2, <4>1, <5>1
      <4>2. CASE a = Len(r) + 1
        BY <2>3, <3>2, <4>2
      <4> QED
        BY <3>2, <4>1, <4>2
    <3>4. ASSUME NEW c \in 1..i, list[c] \in S PROVE \E a \in 1..Len(s) : s[a] = list[c]
      <4>1. CASE c = i
        BY <3>2, <4>1
      <4>2. CASE c \in 1..(i - 1)
        <5>1. PICK a \in 1..Len(r) : r[a] = list[c]
          BY <2>1, <3>4, <4>2 DEF r
        <5> QED
          BY <3>2, <5>1
      <4> QED
        BY <4>1, <4>2
    <3>5. ASSUME NEW a \in 1..Len(s), NEW b \in 1..Len(s), a < b
          PROVE  \E c, d \in 1..i : c < d /\ s[a] = list[c] /\ s[b] = list[d]
      <4>1. CASE b \in 1..Len(r)
        <5>1. a \in 1..Len(r)
          BY <3>2, <3>5, <4>1
        <5>2. PICK c \in 1..(i - 1), d \in 1..(i - 1) : c < d /\ r[a] = list[c] /\ r[b] = list[d]
          BY <2>1, <3>5, <4>1, <5>1 DEF r
        <5> QED
          BY <3>2, <4>1, <5>1, <5>2
      <4>2. CASE b = Len(r) + 1
        <5>1. a \in 1..Len(r)
          BY <3>5, <4>2
        <5>2. PICK c \in 1..(i - 1) : r[a] = list[c]
          BY <2>1, <5>1 DEF r
        <5> QED
          BY <3>2, <4>2, <5>1, <5>2
      <4>3. b \in 1..Len(r) \/ b = Len(r) + 1
        BY <3>2
      <4> QED
        BY <4>1, <4>2, <4>3, Zenon
    <3>6. Good(i)
      BY <3>2, <3>3, <3>4, <3>5 DEF s
    <3> QED
      BY <3>6 DEF G
  <2> QED
    BY <2>2, <2>3
<1> HIDE DEF G
<1>4. Len(list) \in G
  <2>1. \A i \in 0..Len(list) : i \in G
    <3>1. Len(list) \in Nat
      OBVIOUS
    <3> HIDE DEF Good
    <3> QED
      BY <1>2, <1>3, <3>1, InductionUpTo
  <2> QED
    BY <2>1
<1>5. Good(Len(list))
  BY <1>4 DEF G
<1> DEFINE r == Only(list, S)
<1>6. r = f[Len(list)]
  BY <1>1
<1> HIDE DEF r
<1>7. r \in Seq(T) /\ InOrder(r, list)
  BY <1>5, <1>6 DEF InOrder
<1>8. ToSet(r) = ToSet(list) \cap S
  <2>1. ToSet(r) = {r[a] : a \in 1..Len(r)} /\ ToSet(list) = {list[c] : c \in 1..Len(list)}
    BY <1>7 DEF ToSet
  <2>2. /\ \A a \in 1..Len(r) : \E c \in 1..Len(list) : r[a] = list[c] /\ list[c] \in S
        /\ \A c \in 1..Len(list) : list[c] \in S => \E a \in 1..Len(r) : r[a] = list[c]
    BY <1>5, <1>6
  <2> HIDE DEF Good
  <2>3. ToSet(r) \subseteq ToSet(list) \cap S
    BY <2>1, <2>2
  <2>4. ToSet(list) \cap S \subseteq ToSet(r)
    BY <2>1, <2>2
  <2> QED
    BY <2>3, <2>4
<1> QED
  BY <1>7, <1>8 DEF r
=============================================================================
