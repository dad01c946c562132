------------------------ MODULE NodeInterviewProofs -------------------------
(***************************************************************************)
(* Proofs about NodeInterview for every network, every cache and every     *)
(* bound: the type invariant, that an interview that is complete has been  *)
(* through all command classes, that "all nodes ready" is announced, and   *)
(* that no node is forgotten as long as its interviews find a slot.        *)
(***************************************************************************)
EXTENDS NodeInterview, SharedFacts, TLAPS

Run == [at : Points, cc : 0..CCs]

(* What a run of an interview relies on: the command classes before its    *)
(* own have been interviewed, a node that is pinged does not sleep.        *)
RunsOK(n, r) ==
    \A i \in Slots :
      /\ r.runs[i].at = "ccs" =>
           /\ r.runs[i].cc \in 1..CCs
           /\ 1 .. (r.runs[i].cc - 1) \subseteq r.interviewed
      /\ r.runs[i].at = "ping" => n \notin Sleeping /\ r.stage # "None"

Known(r) == r.stage \in {"CommandClasses", "Complete"} => r.interviewed = 1..CCs

Good(n, r) ==
    /\ r \in NodeRecord
    /\ r.tracked => r.timers > 0
    /\ r.refreshing => n \in Sleeping
    /\ Known(r)
    /\ RunsOK(n, r)

IInv ==
    /\ phase \in {"booting", "controller", "started"}
    /\ network \subseteq Nodes /\ nodesReady \subseteq Nodes
    /\ node \in [Nodes -> NodeRecord]
    /\ \A n \in Nodes : Good(n, node[n])
    /\ announced \in BOOLEAN
    /\ faults \in 0..MaxFaults /\ refreshes \in 0..MaxRefreshes
    /\ removed \subseteq Nodes

-----------------------------------------------------------------------------
(* The operators on a node's record *)

LEMMA AtFields ==
    ASSUME NEW r \in NodeRecord, NEW i, NEW p \in Points
    PROVE  /\ At(r, i, p) \in NodeRecord
           /\ At(r, i, p).stage = r.stage
           /\ At(r, i, p).status = r.status
           /\ At(r, i, p).readiness = r.readiness
           /\ At(r, i, p).known = r.known
           /\ At(r, i, p).interviewed = r.interviewed
           /\ At(r, i, p).attempts = r.attempts
           /\ At(r, i, p).timers = r.timers
           /\ At(r, i, p).tracked = r.tracked
           /\ At(r, i, p).refreshing = r.refreshing
           /\ At(r, i, p).failed = r.failed
           /\ \A j \in Slots : At(r, i, p).runs[j] =
                 IF j = i THEN [at |-> p, cc |-> 0] ELSE r.runs[j]
<1> DEFINE runs == [r.runs EXCEPT ![i] = [at |-> p, cc |-> 0]]
<1>1. At(r, i, p) = [r EXCEPT !.runs = runs]
  BY DEF At
<1>2. /\ r.runs \in [Slots -> Run]
      /\ [at |-> p, cc |-> 0] \in Run
  BY NodesAssumption DEF NodeRecord, Run
<1>3. /\ runs \in [Slots -> Run]
      /\ \A j \in Slots : runs[j] = IF j = i THEN [at |-> p, cc |-> 0] ELSE r.runs[j]
  BY <1>2
<1> HIDE DEF runs
<1> QED
  BY <1>1, <1>3 DEF NodeRecord, Run

(* Moving a run to a point that relies on nothing, or only on the node      *)
(* being one to ping.                                                      *)
LEMMA AtGood ==
    ASSUME NEW n \in Nodes, NEW r, Good(n, r), NEW i, NEW p \in Points \ {"ccs"},
           p = "ping" => n \notin Sleeping /\ r.stage # "None"
    PROVE  Good(n, At(r, i, p))
<1> DEFINE a == At(r, i, p)
<1>1. r \in NodeRecord
  BY DEF Good
<1>2. /\ a \in NodeRecord
      /\ a.stage = r.stage /\ a.interviewed = r.interviewed
      /\ a.timers = r.timers /\ a.tracked = r.tracked
      /\ a.refreshing = r.refreshing
      /\ \A j \in Slots : a.runs[j] =
            IF j = i THEN [at |-> p, cc |-> 0] ELSE r.runs[j]
  BY <1>1, AtFields
<1> HIDE DEF a
<1>3. RunsOK(n, a)
  BY <1>2 DEF RunsOK, Good
<1>4. Good(n, a)
  BY <1>2, <1>3 DEF Good, Known
<1> QED
  BY <1>4 DEF a

(* The next command class is one that is not interviewed, and those before *)
(* it are.                                                                 *)
LEMMA NextCCFields ==
    ASSUME NEW n \in Nodes, NEW r, Good(n, r), NEW i, NEW cc \in 0..CCs,
           1..cc \subseteq r.interviewed
    PROVE  /\ Good(n, NextCC(r, i, cc))
           /\ \/ NextCC(r, i, cc).stage = "Complete"
              \/ i \in Slots => NextCC(r, i, cc).runs[i].at = "ccs"
           /\ NextCC(r, i, cc).status = r.status
           /\ \A j \in Slots : j # i => NextCC(r, i, cc).runs[j] = r.runs[j]
           /\ r.stage # "None" => NextCC(r, i, cc).stage # "None"
<1> DEFINE rest == (cc + 1 .. CCs) \ r.interviewed
<1> CCs \in Nat
  BY NodesAssumption
<1>1. r \in NodeRecord /\ r.interviewed \subseteq 1..CCs /\ r.runs \in [Slots -> Run]
  BY DEF Good, NodeRecord, Run
<1>2. CASE rest = {}
  <2> DEFINE s == [r EXCEPT !.stage = "CommandClasses"]
      t == [s EXCEPT !.stage = "Complete",
                     !.readiness = IF @ = "notReady" THEN "ready" ELSE @]
  <2>1. r.interviewed = 1..CCs
    <3>1. ASSUME NEW c \in 1..CCs  PROVE c \in r.interviewed
      <4>1. CASE c \in 1..cc
        BY <4>1
      <4>2. CASE c \notin 1..cc
        BY <4>2, <1>2
      <4> QED BY <4>1, <4>2
    <3> QED BY <3>1, <1>1
  <2>2. /\ t \in NodeRecord /\ t.stage = "Complete" /\ t.status = r.status
        /\ t.interviewed = r.interviewed /\ t.runs = r.runs
        /\ t.timers = r.timers /\ t.tracked = r.tracked
        /\ t.refreshing = r.refreshing
    BY <1>1 DEF NodeRecord, Stages
  <2>3. NextCC(r, i, cc) = At(t, i, "idle")
    BY <1>2 DEF NextCC, Complete
  <2> HIDE DEF t
  <2>4. Good(n, t)
    BY <2>1, <2>2 DEF Good, Known, RunsOK
  <2> QED
    BY <2>2, <2>3, <2>4, AtGood, AtFields DEF Points
<1>3. CASE rest # {}
  <2> DEFINE m == Min(rest)
  <2>1. rest \subseteq Nat
    OBVIOUS
  <2>2. m \in rest /\ \A c \in rest : m <= c
    BY <1>3, <2>1, LeastNumber DEF Min
  <2> HIDE DEF m
  <2>3. m \in 1..CCs /\ 1 .. (m - 1) \subseteq r.interviewed
    <3>1. m \in 1..CCs
      BY <2>2
    <3>2. ASSUME NEW c \in 1 .. (m - 1)  PROVE c \in r.interviewed
      <4>1. CASE c \in 1..cc
        BY <4>1
      <4>2. CASE c \notin 1..cc
        BY <4>2, <2>2, <3>1
      <4> QED BY <4>1, <4>2
    <3> QED BY <3>1, <3>2
  <2> DEFINE runs == [r.runs EXCEPT ![i] = [at |-> "ccs", cc |-> m]]
      t == [r EXCEPT !.runs = runs]
  <2>4. NextCC(r, i, cc) = t
    BY <1>3 DEF NextCC, m
  <2>5. [at |-> "ccs", cc |-> m] \in Run
    BY <2>3 DEF Run, Points
  <2>6. /\ runs \in [Slots -> Run]
        /\ \A j \in Slots : runs[j] =
              IF j = i THEN [at |-> "ccs", cc |-> m] ELSE r.runs[j]
    BY <1>1, <2>5
  <2> HIDE DEF runs
  <2>7. /\ t \in NodeRecord
        /\ t.stage = r.stage /\ t.interviewed = r.interviewed /\ t.status = r.status
        /\ t.timers = r.timers /\ t.tracked = r.tracked
        /\ t.refreshing = r.refreshing
        /\ t.runs = runs
    BY <1>1, <2>6 DEF NodeRecord, Run
  <2> HIDE DEF t
  <2>8. RunsOK(n, t)
    BY <2>3, <2>6, <2>7 DEF RunsOK, Good
  <2> QED
    BY <2>4, <2>6, <2>7, <2>8 DEF Good, Known
<1> QED
  BY <1>2, <1>3

(* The interview in slot i is under way, or the node's interview is complete. *)
Goes(r, i) ==
    \/ r.stage = "Complete"
    \/ r.runs[i].at \in Points \ {"idle", "status"}

LEMMA CompleteGood ==
    ASSUME NEW n \in Nodes, NEW r, Good(n, r), NEW i,
           r.stage \in {"CommandClasses", "Complete"}
    PROVE  /\ Good(n, Complete(r, i))
           /\ Complete(r, i).stage = "Complete"
           /\ Complete(r, i).status = r.status
           /\ \A j \in Slots : j # i => Complete(r, i).runs[j] = r.runs[j]
           /\ r.stage # "None" => Complete(r, i).stage # "None"
<1> DEFINE t == [r EXCEPT !.stage = "Complete",
                          !.readiness = IF @ = "notReady" THEN "ready" ELSE @]
<1>1. r \in NodeRecord
  BY DEF Good
<1>2. /\ t \in NodeRecord /\ t.stage = "Complete" /\ t.status = r.status
      /\ t.interviewed = r.interviewed /\ t.runs = r.runs
      /\ t.timers = r.timers /\ t.tracked = r.tracked
      /\ t.refreshing = r.refreshing
  BY <1>1 DEF NodeRecord, Stages
<1>3. Complete(r, i) = At(t, i, "idle")
  BY DEF Complete
<1> HIDE DEF t
<1>4. Good(n, t)
  BY <1>2 DEF Good, Known, RunsOK
<1> QED
  BY <1>2, <1>3, <1>4, AtGood, AtFields DEF Points

LEMMA AdvanceGood ==
    ASSUME NEW n \in Nodes, NEW r, Good(n, r), NEW i, r.stage # "None"
    PROVE  /\ Good(n, Advance(r, i))
           /\ i \in Slots => Goes(Advance(r, i), i)
           /\ Advance(r, i).status = r.status
           /\ \A j \in Slots : j # i => Advance(r, i).runs[j] = r.runs[j]
           /\ r.stage # "None" => Advance(r, i).stage # "None"
<1>1. r \in NodeRecord /\ r.stage \in Stages
  BY DEF Good, NodeRecord
<1>2. CASE r.stage = "ProtocolInfo"
  <2>1. Advance(r, i) = At(r, i, "nodeinfo")
    BY <1>2 DEF Advance
  <2>2. /\ Good(n, At(r, i, "nodeinfo")) /\ At(r, i, "nodeinfo").status = r.status
        /\ \A j \in Slots : j # i => At(r, i, "nodeinfo").runs[j] = r.runs[j]
        /\ At(r, i, "nodeinfo").stage = r.stage
        /\ i \in Slots => At(r, i, "nodeinfo").runs[i] = [at |-> "nodeinfo", cc |-> 0]
    BY <1>1, AtGood, AtFields DEF Points
  <2> QED
    BY <2>1, <2>2 DEF Goes, Points
<1>3. CASE r.stage = "NodeInfo"
  <2>1. Advance(r, i) = NextCC(r, i, 0)
    BY <1>3 DEF Advance
  <2>2. 0 \in 0..CCs /\ 1..0 \subseteq r.interviewed
    BY NodesAssumption
  <2> QED
    BY <2>1, <2>2, NextCCFields DEF Goes, Points
<1>4. CASE r.stage \in {"CommandClasses", "Complete"}
  <2>1. Advance(r, i) = Complete(r, i)
    BY <1>4 DEF Advance
  <2> QED
    BY <2>1, <1>4, CompleteGood DEF Goes
<1> QED
  BY <1>1, <1>2, <1>3, <1>4 DEF Stages

LEMMA CheckAliveGood ==
    ASSUME NEW n \in Nodes, NEW r, Good(n, r), NEW i, r.stage # "None"
    PROVE  /\ Good(n, CheckAlive(n, r, i))
           /\ i \in Slots => Goes(CheckAlive(n, r, i), i)
           /\ CheckAlive(n, r, i).status = r.status
           /\ \A j \in Slots : j # i => CheckAlive(n, r, i).runs[j] = r.runs[j]
           /\ r.stage # "None" => CheckAlive(n, r, i).stage # "None"
<1>1. r \in NodeRecord
  BY DEF Good
<1>2. CASE Listens(n, r) /\ r.status # "alive"
  <2>1. CheckAlive(n, r, i) = At(r, i, "ping")
    BY <1>2 DEF CheckAlive
  <2>2. n \notin Sleeping
    BY <1>2 DEF Listens
  <2>3. /\ Good(n, At(r, i, "ping")) /\ At(r, i, "ping").status = r.status
        /\ \A j \in Slots : j # i => At(r, i, "ping").runs[j] = r.runs[j]
        /\ At(r, i, "ping").stage = r.stage
        /\ i \in Slots => At(r, i, "ping").runs[i] = [at |-> "ping", cc |-> 0]
    BY <1>1, <2>2, AtGood, AtFields DEF Points
  <2> QED
    BY <2>1, <2>3 DEF Goes, Points
<1>3. CASE ~(Listens(n, r) /\ r.status # "alive")
  BY <1>3, AdvanceGood DEF CheckAlive
<1> QED
  BY <1>2, <1>3

LEMMA StartGood ==
    ASSUME NEW n \in Nodes, NEW r, Good(n, r), NEW i
    PROVE  /\ Good(n, Start(n, r, i))
           /\ i \in Slots => Goes(Start(n, r, i), i)
           /\ Start(n, r, i).status = r.status
           /\ \A j \in Slots : j # i => Start(n, r, i).runs[j] = r.runs[j]
           /\ r.stage # "None" => Start(n, r, i).stage # "None"
<1> DEFINE t == [r EXCEPT !.attempts = @ + 1]
<1>1. r \in NodeRecord /\ r.stage \in Stages
  BY DEF Good, NodeRecord
<1>2. /\ t \in NodeRecord /\ t.stage = r.stage /\ t.status = r.status
      /\ t.interviewed = r.interviewed /\ t.runs = r.runs
      /\ t.timers = r.timers /\ t.tracked = r.tracked
      /\ t.refreshing = r.refreshing
  BY <1>1 DEF NodeRecord
<1>3. /\ r.stage = "Complete" => Start(n, r, i) = At(r, i, "idle")
      /\ r.stage = "None" => Start(n, r, i) = At(t, i, "protocol")
      /\ r.stage \notin {"None", "Complete"} => Start(n, r, i) = CheckAlive(n, t, i)
  BY DEF Start
<1> HIDE DEF t
<1>4. Good(n, t)
  BY <1>2 DEF Good, Known, RunsOK
<1>5. CASE r.stage = "Complete"
  BY <1>1, <1>3, <1>5, AtGood, AtFields DEF Points, Goes
<1>6. CASE r.stage = "None"
  <2>1. /\ Good(n, At(t, i, "protocol")) /\ At(t, i, "protocol").status = t.status
        /\ \A j \in Slots : j # i => At(t, i, "protocol").runs[j] = r.runs[j]
        /\ At(t, i, "protocol").stage = r.stage
        /\ i \in Slots => At(t, i, "protocol").runs[i] = [at |-> "protocol", cc |-> 0]
    BY <1>2, <1>4, AtGood, AtFields DEF Points
  <2> QED
    BY <1>2, <1>3, <1>6, <2>1 DEF Goes, Points
<1>7. CASE r.stage \notin {"None", "Complete"}
  BY <1>2, <1>3, <1>4, <1>7, CheckAliveGood
<1> QED
  BY <1>5, <1>6, <1>7

(* A slot is free, for one more interview or for two.                      *)
Free(r) == \E i \in Slots : r.runs[i] = Idle
FreeTwice(r) ==
    \E i, j \in Slots : i # j /\ r.runs[i] = Idle /\ r.runs[j] = Idle

(* What NoNodeForgotten says of one node.                                  *)
Attended(r) ==
    \/ r.stage = "Complete" \/ r.status = "dead" \/ r.failed
    \/ Busy(r, Points \ {"idle", "status"}) # {}
    \/ r.timers > 0
    \/ r.attempts >= MaxAttempts

LEMMA GoesAttended ==
    ASSUME NEW r, NEW i \in Slots, Goes(r, i)
    PROVE  Attended(r)
BY DEF Goes, Attended, Busy

(* What is true of the node while its runs may be about classes that are   *)
(* forgotten already: those are rejected next.                             *)
Pinged(n, r) ==
    \A i \in Slots : r.runs[i].at = "ping" => n \notin Sleeping /\ r.stage # "None"

Sound(n, r) ==
    /\ r \in NodeRecord
    /\ r.tracked => r.timers > 0
    /\ r.refreshing => n \in Sleeping
    /\ Known(r)
    /\ Pinged(n, r)

LEMMA GoodIsSound ==
    ASSUME NEW n \in Nodes, NEW r, Good(n, r)
    PROVE  Sound(n, r)
BY DEF Good, Sound, RunsOK, Pinged

(* A ping of a node that was known already goes on.                        *)
KeepsPings(r, s) ==
    \A i \in Slots : r.runs[i].at = "status" => s.runs[i].at = "status"

(* interviewNodeInternal leaves the node with an interview.                *)
LEMMA InterviewGood ==
    ASSUME NEW n \in Nodes, NEW r, Sound(n, r), r.stage = "Complete" => Good(n, r)
    PROVE  /\ Good(n, Interview(n, r))
           /\ Interview(n, r).status = r.status
           /\ r.stage # "None" => Interview(n, r).stage # "None"
           /\ Free(r) => KeepsPings(r, Interview(n, r))
           /\ Free(r) => Attended(Interview(n, r))
           /\ FreeTwice(r) => Free(Interview(n, r))
<1>1. /\ r \in NodeRecord
      /\ r.runs \in [Slots -> Run]
      /\ Idle \in Run
  BY NodesAssumption DEF Sound, NodeRecord, Run, Idle, Points
<1>2. CASE r.stage = "Complete"
  <2>1. Interview(n, r) = r
    BY <1>2 DEF Interview
  <2>2. FreeTwice(r) => Free(r)
    BY DEF FreeTwice, Free
  <2> QED
    BY <1>2, <2>1, <2>2 DEF Attended, KeepsPings
<1>3. CASE r.stage # "Complete"
  <2> DEFINE rest == [i \in Slots |->
                        IF r.runs[i].at \in Rejectable THEN Idle ELSE r.runs[i]]
             slot == CHOOSE i \in Slots : rest[i] = Idle
             left == IF r.tracked THEN r.timers - 1 ELSE r.timers
             cleared == [r EXCEPT !.timers = left,
                                  !.tracked = FALSE, !.runs = rest]
  <2>1. Interview(n, r) = IF Busy(r, {"ccs"}) # {} THEN At(cleared, slot, "rejecting")
                          ELSE Start(n, cleared, slot)
    BY <1>3 DEF Interview, left
  <2>2. /\ rest \in [Slots -> Run]
        /\ \A i \in Slots : rest[i] = IF r.runs[i].at \in Rejectable
                                      THEN Idle ELSE r.runs[i]
        /\ \A i \in Slots : r.runs[i] = Idle => rest[i] = Idle
    BY <1>1
  <2>3. Free(r) => slot \in Slots /\ rest[slot] = Idle
    BY <2>2 DEF Free
  <2>11. /\ \A i \in Slots : r.runs[i].at = "status" => rest[i].at = "status"
         /\ Idle.at # "status"
    BY <2>2 DEF Rejectable, Idle
  <2>4. FreeTwice(r) => \E j \in Slots : j # slot /\ rest[j] = Idle
    BY <2>2 DEF FreeTwice
  <2> HIDE DEF rest
  <2>10. left \in Nat
    <3>1. r.timers \in Nat /\ (r.tracked => r.timers > 0)
      BY <1>1 DEF Sound, NodeRecord
    <3> QED BY <3>1
  <2> HIDE DEF left
  <2>5. /\ cleared \in NodeRecord /\ cleared.stage = r.stage
        /\ cleared.interviewed = r.interviewed /\ cleared.status = r.status
        /\ cleared.refreshing = r.refreshing /\ cleared.tracked = FALSE
        /\ cleared.runs = rest
    BY <1>1, <2>2, <2>10 DEF NodeRecord, Run
  <2> HIDE DEF cleared, slot
  <2>6. Good(n, cleared)
    <3>1. RunsOK(n, cleared)
      BY <2>2, <2>5 DEF Sound, Pinged, RunsOK, Idle, Rejectable
    <3> QED
      BY <2>5, <3>1 DEF Sound, Good, Known
  <2>7. FreeTwice(r) => Free(r)
    BY DEF FreeTwice, Free
  <2>8. CASE Busy(r, {"ccs"}) # {}
    <3> DEFINE a == At(cleared, slot, "rejecting")
    <3>1. /\ Good(n, a) /\ a.status = r.status /\ a.stage = r.stage
          /\ \A j \in Slots : a.runs[j] =
                IF j = slot THEN [at |-> "rejecting", cc |-> 0] ELSE rest[j]
      BY <2>5, <2>6, AtGood, AtFields DEF Points
    <3>2. a = Interview(n, r)
      BY <2>1, <2>8
    <3> HIDE DEF a
    <3>3. Free(r) => Goes(a, slot)
      BY <2>3, <3>1 DEF Goes, Points
    <3>4. FreeTwice(r) => Free(a)
      BY <2>4, <3>1 DEF Free
    <3>5. Free(r) => KeepsPings(r, a)
      BY <2>3, <2>11, <3>1 DEF KeepsPings
    <3> QED
      BY <2>3, <3>1, <3>2, <3>3, <3>4, <3>5, GoesAttended
  <2>9. CASE ~(Busy(r, {"ccs"}) # {})
    <3> DEFINE a == Start(n, cleared, slot)
    <3>1. /\ Good(n, a) /\ a.status = r.status
          /\ r.stage # "None" => a.stage # "None"
          /\ (slot \in Slots => Goes(a, slot))
          /\ \A j \in Slots : j # slot => a.runs[j] = rest[j]
      BY <2>5, <2>6, StartGood
    <3>2. a = Interview(n, r)
      BY <2>1, <2>9
    <3> HIDE DEF a
    <3>3. FreeTwice(r) => Free(a)
      BY <2>4, <3>1 DEF Free
    <3>4. Free(r) => KeepsPings(r, a)
      BY <2>3, <2>11, <3>1 DEF KeepsPings
    <3> QED
      BY <2>3, <3>1, <3>2, <3>3, <3>4, GoesAttended
  <2> QED
    BY <2>8, <2>9
<1> QED
  BY <1>2, <1>3

LEMMA FailedGood ==
    ASSUME NEW n \in Nodes, NEW r, Good(n, r), NEW i
    PROVE  Good(n, Failed(r, i)) /\ Attended(Failed(r, i))
<1> DEFINE a == At(r, i, "idle")
           t == [a EXCEPT !.timers = @ + 1, !.tracked = TRUE]
<1>1. /\ r \in NodeRecord /\ r.attempts \in Nat /\ MaxAttempts \in Nat
  BY NodesAssumption DEF Good, NodeRecord
<1>2. /\ Good(n, a) /\ a \in NodeRecord /\ a.status = r.status /\ a.attempts = r.attempts
  BY <1>1, AtGood, AtFields DEF Points
<1>3. Failed(r, i) = IF r.status # "dead" /\ r.attempts < MaxAttempts THEN t ELSE a
  BY DEF Failed
<1> HIDE DEF a
<1>4. /\ t \in NodeRecord /\ t.timers > 0 /\ t.stage = a.stage /\ t.runs = a.runs
      /\ t.interviewed = a.interviewed /\ t.refreshing = a.refreshing
  <2>1. a.timers \in Nat /\ a.timers + 1 \in Nat /\ a.timers + 1 > 0
    <3>1. a.timers \in Nat
      BY <1>2 DEF NodeRecord
    <3> QED BY <3>1
  <2> QED
    BY <1>2, <2>1 DEF NodeRecord
<1> HIDE DEF t
<1>5. Good(n, t)
  BY <1>2, <1>4 DEF Good, Known, RunsOK
<1> QED
  BY <1>1, <1>2, <1>3, <1>4, <1>5 DEF Attended

LEMMA NextStatusFacts ==
    ASSUME NEW n \in Nodes, NEW r \in NodeRecord, NEW input
    PROVE  /\ NextStatus(n, r, input) \in Statuses
           /\ r.status = "dead" => NextStatus(n, r, input) \in {"dead", "alive"}
BY DEF NextStatus, Statuses, NodeRecord

Revives(n, r, input) == r.status = "dead" /\ NextStatus(n, r, input) = "alive"

(* A change of status that does not revive the node changes nothing else but *)
(* its readiness.                                                          *)
LEMMA StatusFields ==
    ASSUME NEW n \in Nodes, NEW r \in NodeRecord, NEW input, ~Revives(n, r, input)
    PROVE  LET c == ChangeStatus(n, r, input) IN
           /\ c \in NodeRecord
           /\ c.status = NextStatus(n, r, input)
           /\ c.stage = r.stage /\ c.interviewed = r.interviewed
           /\ c.attempts = r.attempts /\ c.timers = r.timers
           /\ c.tracked = r.tracked /\ c.refreshing = r.refreshing
           /\ c.failed = r.failed /\ c.runs = r.runs /\ c.known = r.known
<1> DEFINE new == NextStatus(n, r, input)
           moved == [r EXCEPT !.status = new]
           done == [moved EXCEPT !.readiness = Readiness(moved)]
<1>1. new \in Statuses
  BY NextStatusFacts
<1>2. ChangeStatus(n, r, input) = IF new = r.status THEN r ELSE done
  BY DEF ChangeStatus, Revives
<1> HIDE DEF new
<1>3. /\ moved \in NodeRecord /\ moved.status = new /\ moved.stage = r.stage
      /\ moved.interviewed = r.interviewed /\ moved.attempts = r.attempts
      /\ moved.timers = r.timers /\ moved.tracked = r.tracked
      /\ moved.refreshing = r.refreshing /\ moved.failed = r.failed
      /\ moved.runs = r.runs /\ moved.known = r.known
  BY <1>1 DEF NodeRecord
<1> HIDE DEF moved
<1>4. Readiness(moved) \in {"notReady", "readyIfNotDead", "ready"}
  BY <1>3 DEF Readiness, NodeRecord
<1>5. /\ done \in NodeRecord /\ done.status = new /\ done.stage = moved.stage
      /\ done.interviewed = moved.interviewed /\ done.attempts = moved.attempts
      /\ done.timers = moved.timers /\ done.tracked = moved.tracked
      /\ done.refreshing = moved.refreshing /\ done.failed = moved.failed
      /\ done.runs = moved.runs /\ done.known = moved.known
  BY <1>3, <1>4 DEF NodeRecord
<1> HIDE DEF done
<1>6. CASE new = r.status
  BY <1>2, <1>6 DEF new
<1>7. CASE new # r.status
  BY <1>2, <1>3, <1>5, <1>7 DEF new
<1> QED
  BY <1>6, <1>7

(* A node that is revived is interviewed, if its events are listened to.   *)
LEMMA StatusGood ==
    ASSUME NEW n \in Nodes, NEW r, Good(n, r), NEW input
    PROVE  LET c == ChangeStatus(n, r, input) IN
           /\ Good(n, c)
           /\ c.status = NextStatus(n, r, input)
           /\ r.stage # "None" => c.stage # "None"
           /\ Free(r) => KeepsPings(r, c)
           /\ phase # "booting" /\ Attended(r) /\ Free(r) => Attended(c)
           /\ FreeTwice(r) => Free(c)
<1> DEFINE c == ChangeStatus(n, r, input)
<1>1. r \in NodeRecord
  BY DEF Good
<1>2. FreeTwice(r) => Free(r)
  BY DEF FreeTwice, Free
<1>3. CASE ~Revives(n, r, input)
  <2>1. /\ c \in NodeRecord
        /\ c.status = NextStatus(n, r, input)
        /\ c.stage = r.stage /\ c.interviewed = r.interviewed
        /\ c.attempts = r.attempts /\ c.timers = r.timers
        /\ c.tracked = r.tracked /\ c.refreshing = r.refreshing
        /\ c.failed = r.failed /\ c.runs = r.runs /\ c.known = r.known
    BY <1>1, <1>3, StatusFields
  <2> HIDE DEF c
  <2>2. Good(n, c)
    BY <2>1 DEF Good, Known, RunsOK
  <2>3. Attended(r) => Attended(c)
    BY <1>1, <1>3, <2>1, NextStatusFacts DEF Attended, Busy, Revives
  <2>4. Free(r) => Free(c)
    BY <2>1 DEF Free
  <2> QED
    BY <1>2, <2>1, <2>2, <2>3, <2>4 DEF c, KeepsPings
<1>4. CASE Revives(n, r, input)
  <2> DEFINE moved == [r EXCEPT !.status = "alive"]
             heard == IF phase # "booting" THEN Interview(n, moved) ELSE moved
             done == [heard EXCEPT !.readiness = Readiness(heard)]
  <2>1. c = done /\ NextStatus(n, r, input) = "alive"
    BY <1>4 DEF ChangeStatus, Revives
  <2>2. /\ moved \in NodeRecord /\ moved.status = "alive" /\ moved.stage = r.stage
        /\ moved.interviewed = r.interviewed /\ moved.timers = r.timers
        /\ moved.tracked = r.tracked /\ moved.refreshing = r.refreshing
        /\ moved.runs = r.runs
    BY <1>1 DEF NodeRecord, Statuses
  <2> HIDE DEF moved
  <2>3. Good(n, moved)
    BY <2>2 DEF Good, Known, RunsOK
  <2>4. /\ Free(r) => Free(moved)
        /\ FreeTwice(r) => FreeTwice(moved)
        /\ KeepsPings(r, moved)
    BY <2>2 DEF Free, FreeTwice, KeepsPings
  <2>5. /\ Good(n, heard) /\ heard.status = "alive"
        /\ phase # "booting" /\ Free(r) => Attended(heard)
        /\ FreeTwice(r) => Free(heard)
        /\ r.stage # "None" => heard.stage # "None"
        /\ Free(r) => KeepsPings(moved, heard)
    BY <1>2, <2>2, <2>3, <2>4, InterviewGood, GoodIsSound DEF KeepsPings
  <2>6. heard \in NodeRecord
    BY <2>5 DEF Good
  <2> HIDE DEF heard
  <2>7. Readiness(heard) \in {"notReady", "readyIfNotDead", "ready"}
    BY <2>6 DEF Readiness, NodeRecord
  <2>8. /\ done \in NodeRecord /\ done.status = heard.status
        /\ done.stage = heard.stage
        /\ done.interviewed = heard.interviewed /\ done.attempts = heard.attempts
        /\ done.timers = heard.timers /\ done.tracked = heard.tracked
        /\ done.refreshing = heard.refreshing /\ done.failed = heard.failed
        /\ done.runs = heard.runs /\ done.known = heard.known
    BY <2>6, <2>7 DEF NodeRecord
  <2> HIDE DEF done
  <2>9. Good(n, done)
    BY <2>5, <2>8 DEF Good, Known, RunsOK
  <2>10. /\ phase # "booting" /\ Free(r) => Attended(done)
         /\ FreeTwice(r) => Free(done)
    BY <2>5, <2>8 DEF Attended, Busy, Free
  <2>11. Free(r) => KeepsPings(r, done)
    BY <2>4, <2>5, <2>8 DEF KeepsPings
  <2> QED
    BY <2>1, <2>5, <2>8, <2>9, <2>10, <2>11
<1> QED
  BY <1>3, <1>4

(* A reset forgets everything, and leaves the node with an interview.      *)
LEMMA ResetGood ==
    ASSUME NEW n \in Nodes, NEW r, Good(n, r), NEW awake \in BOOLEAN,
           \A i \in Slots : r.runs[i].at # "ping"
    PROVE  /\ Good(n, Reset(n, r, awake))
           /\ Free(r) => Attended(Reset(n, r, awake))
           /\ FreeTwice(r) => Free(Reset(n, r, awake))
           /\ Free(r) => KeepsPings(r, Reset(n, r, awake))
<1> DEFINE forgotten == [r EXCEPT
               !.stage = "None", !.status = "unknown", !.readiness = "notReady",
               !.known = awake, !.interviewed = {}, !.attempts = 0,
               !.refreshing = FALSE, !.failed = FALSE]
           told == IF awake THEN ChangeStatus(n, forgotten, "AWAKE") ELSE forgotten
<1>1. r \in NodeRecord
  BY DEF Good
<1>2. /\ forgotten \in NodeRecord /\ forgotten.stage = "None"
      /\ forgotten.status = "unknown" /\ forgotten.interviewed = {}
      /\ forgotten.timers = r.timers /\ forgotten.tracked = r.tracked
      /\ ~forgotten.refreshing
      /\ forgotten.runs = r.runs
  BY <1>1 DEF NodeRecord, Stages, Statuses
<1>3. Reset(n, r, awake) = Interview(n, told)
  BY DEF Reset
<1> HIDE DEF forgotten
<1>4. ~Revives(n, forgotten, "AWAKE")
  BY <1>2 DEF Revives
<1>5. /\ told \in NodeRecord /\ told.stage = "None" /\ told.runs = r.runs
      /\ told.timers = r.timers /\ told.tracked = r.tracked /\ ~told.refreshing
  BY <1>2, <1>4, StatusFields
<1> HIDE DEF told
<1>6. Sound(n, told)
  <2>1. Pinged(n, told)
    BY <1>5 DEF Pinged
  <2>2. r.tracked => r.timers > 0
    BY DEF Good
  <2> QED
    BY <1>5, <2>1, <2>2 DEF Sound, Known
<1>7. (Free(r) => Free(told)) /\ (FreeTwice(r) => FreeTwice(told))
  BY <1>5 DEF Free, FreeTwice
<1> QED
  BY <1>3, <1>5, <1>6, <1>7, InterviewGood DEF KeepsPings

LEMMA MarkGood ==
    ASSUME NEW n \in Nodes, NEW r, Good(n, r), NEW input
    PROVE  /\ Good(n, Mark(n, r, input))
           /\ phase # "booting" /\ Attended(r) /\ Free(r) => Attended(Mark(n, r, input))
           /\ FreeTwice(r) => Free(Mark(n, r, input))
           /\ Free(r) => KeepsPings(r, Mark(n, r, input))
           /\ ~r.refreshing /\ r.stage # "None" => Mark(n, r, input).stage # "None"
<1> DEFINE marked == ChangeStatus(n, r, input)
<1>1. /\ Good(n, marked)
      /\ marked.status = NextStatus(n, r, input)
      /\ phase # "booting" /\ Attended(r) /\ Free(r) => Attended(marked)
      /\ FreeTwice(r) => Free(marked)
      /\ r.stage # "None" => marked.stage # "None"
      /\ Free(r) => KeepsPings(r, marked)
  BY StatusGood
<1>2. Mark(n, r, input) =
        IF marked.status = "awake" /\ r.status # "awake" /\ r.refreshing
        THEN Reset(n, marked, TRUE) ELSE marked
  BY DEF Mark
<1>3. CASE marked.status = "awake" /\ r.status # "awake" /\ r.refreshing
  <2>1. r \in NodeRecord /\ n \in Sleeping
    BY <1>3 DEF Good
  <2>2. ~Revives(n, r, input)
    BY <1>1, <1>3 DEF Revives
  <2>3. marked.runs = r.runs
    BY <2>1, <2>2, StatusFields
  <2>4. \A i \in Slots : marked.runs[i].at # "ping"
    BY <1>1, <2>1 DEF Good, RunsOK
  <2>5. (Free(r) => Free(marked)) /\ (FreeTwice(r) => FreeTwice(marked))
    BY <2>3 DEF Free, FreeTwice
  <2> HIDE DEF marked
  <2>6. /\ Good(n, Reset(n, marked, TRUE))
        /\ Free(marked) => Attended(Reset(n, marked, TRUE))
        /\ FreeTwice(marked) => Free(Reset(n, marked, TRUE))
        /\ Free(marked) => KeepsPings(marked, Reset(n, marked, TRUE))
    BY <1>1, <2>4, ResetGood
  <2>7. Free(r) => KeepsPings(r, Reset(n, marked, TRUE))
    BY <2>3, <2>5, <2>6 DEF KeepsPings
  <2> QED
    BY <1>2, <1>3, <2>5, <2>6, <2>7
<1>4. CASE ~(marked.status = "awake" /\ r.status # "awake" /\ r.refreshing)
  BY <1>1, <1>2, <1>4
<1> QED
  BY <1>3, <1>4

(* A node interviewed for its command classes either goes on unchanged, or *)
(* this interview has been rejected.                                       *)
LEMMA InterviewRejects ==
    ASSUME NEW n \in Nodes, NEW r \in NodeRecord, NEW i \in Slots, r.runs[i].at = "ccs"
    PROVE  \/ r.stage = "Complete" /\ Interview(n, r) = r
           \/ Interview(n, r).runs[i].at # "ccs"
<1>1. CASE r.stage = "Complete"
  BY <1>1 DEF Interview
<1>2. CASE r.stage # "Complete"
  <2> DEFINE rest == [j \in Slots |->
                        IF r.runs[j].at \in Rejectable THEN Idle ELSE r.runs[j]]
             slot == CHOOSE j \in Slots : rest[j] = Idle
             cleared == [r EXCEPT !.timers = IF r.tracked THEN @ - 1 ELSE @,
                                  !.tracked = FALSE, !.runs = rest]
             runs == [rest EXCEPT ![slot] = [at |-> "rejecting", cc |-> 0]]
  <2>1. Interview(n, r) = At(cleared, slot, "rejecting")
    BY <1>2 DEF Interview, Busy
  <2>2. cleared.runs = rest /\ rest[i] = Idle
    BY DEF NodeRecord, Rejectable
  <2> HIDE DEF slot
  <2>3. Interview(n, r).runs = runs
    BY <2>1 DEF At, NodeRecord
  <2>4. runs[i].at # "ccs"
    BY <2>2 DEF Idle
  <2> QED
    BY <2>3, <2>4
<1> QED
  BY <1>1, <1>2

LEMMA MarkRejects ==
    ASSUME NEW n \in Nodes, NEW r, Good(n, r), NEW input, NEW i \in Slots,
           r.runs[i].at = "ccs", Mark(n, r, input).runs[i].at = "ccs"
    PROVE  /\ Mark(n, r, input).interviewed = r.interviewed
           /\ Mark(n, r, input).runs[i] = r.runs[i]
<1> DEFINE marked == ChangeStatus(n, r, input)
<1>1. r \in NodeRecord
  BY DEF Good
<1>2. CASE Revives(n, r, input)
  <2> DEFINE moved == [r EXCEPT !.status = "alive"]
             heard == IF phase # "booting" THEN Interview(n, moved) ELSE moved
             done == [heard EXCEPT !.readiness = Readiness(heard)]
  <2>1. marked = done
    BY <1>2 DEF ChangeStatus, Revives
  <2>2. moved \in NodeRecord /\ moved.runs = r.runs /\ moved.interviewed = r.interviewed
    BY <1>1 DEF NodeRecord, Statuses
  <2>3. Good(n, moved)
    BY <1>1, <2>2 DEF Good, Known, RunsOK, NodeRecord
  <2> HIDE DEF moved
  <2>4. heard \in NodeRecord /\ (heard = moved \/ heard.runs[i].at # "ccs")
    BY <2>2, <2>3, InterviewRejects, InterviewGood, GoodIsSound DEF Good
  <2> HIDE DEF heard
  <2>5. done.runs = heard.runs /\ done.interviewed = heard.interviewed
    BY <2>4 DEF NodeRecord
  <2>6. marked.status # "awake" => Mark(n, r, input) = marked
    BY DEF Mark
  <2>7. marked.status = "alive"
    BY <1>2, StatusGood DEF Revives
  <2> QED
    BY <2>1, <2>2, <2>4, <2>5, <2>6, <2>7
<1>3. CASE ~Revives(n, r, input)
  <2>1. /\ marked \in NodeRecord
        /\ marked.interviewed = r.interviewed /\ marked.runs = r.runs
    BY <1>1, <1>3, StatusFields
  <2>2. Mark(n, r, input) # marked => Mark(n, r, input) = Reset(n, marked, TRUE)
    BY DEF Mark
  <2> HIDE DEF marked
  <2>3. Reset(n, marked, TRUE).runs[i].at # "ccs"
    <3> DEFINE forgotten == [marked EXCEPT
                  !.stage = "None", !.status = "unknown", !.readiness = "notReady",
                  !.known = TRUE, !.interviewed = {}, !.attempts = 0,
                  !.refreshing = FALSE, !.failed = FALSE]
               told == ChangeStatus(n, forgotten, "AWAKE")
    <3>1. /\ forgotten \in NodeRecord /\ forgotten.stage = "None"
          /\ forgotten.status = "unknown" /\ forgotten.runs = r.runs
      BY <2>1 DEF NodeRecord, Stages, Statuses
    <3>2. Reset(n, marked, TRUE) = Interview(n, told)
      BY DEF Reset
    <3> HIDE DEF forgotten
    <3>3. ~Revives(n, forgotten, "AWAKE")
      BY <3>1 DEF Revives
    <3>4. told \in NodeRecord /\ told.stage = "None" /\ told.runs = r.runs
      BY <3>1, <3>3, StatusFields
    <3> HIDE DEF told
    <3> QED
      BY <3>2, <3>4, InterviewRejects
  <2> QED
    BY <2>1, <2>2, <2>3
<1> QED
  BY <1>2, <1>3

-----------------------------------------------------------------------------
(* The actions.  Each keeps the invariant, and keeps NoNodeForgotten if the *)
(* interviews of a node find a slot: Slots bounds something the code does  *)
(* not bound, and an interview that finds none is lost.                    *)

SlotsSuffice == \A n \in Nodes : FreeTwice(node[n])

Kept == IInv' /\ (SlotsSuffice /\ NoNodeForgotten => NoNodeForgotten')

LEMMA ForgottenNodes ==
    NoNodeForgotten <=> (phase = "started" => \A n \in network : Attended(node[n]))
BY DEF NoNodeForgotten, Attended

LEMMA FreeTwiceIsFree ==
    ASSUME NEW r, FreeTwice(r)
    PROVE  Free(r)
BY DEF FreeTwice, Free

LEMMA PutKeeps ==
    ASSUME IInv, NEW n \in Nodes, NEW r, Put(n, r), Good(n, r),
           removed' = removed, faults' \in 0..MaxFaults,
           refreshes' \in 0..MaxRefreshes,
           phase = "started" /\ FreeTwice(node[n]) /\ (n \in network => Attended(node[n]))
              => (n \in network => Attended(r))
    PROVE  Kept
<1>1. /\ node' = [node EXCEPT ![n] = r]
      /\ phase' = phase /\ network' = network
      /\ nodesReady' \subseteq nodesReady \cup {n}
      /\ announced' \in BOOLEAN
  BY DEF Put, IInv
<1>2. r \in NodeRecord
  BY DEF Good
<1>3. /\ node' \in [Nodes -> NodeRecord]
      /\ node'[n] = r
      /\ \A m \in Nodes : m # n => node'[m] = node[m]
  BY <1>1, <1>2 DEF IInv
<1>4. \A m \in Nodes : Good(m, node'[m])
  BY <1>3 DEF IInv
<1>5. IInv'
  BY <1>1, <1>3, <1>4 DEF IInv, Good, Known, RunsOK
<1>6. ASSUME SlotsSuffice, NoNodeForgotten, phase = "started", NEW m \in network
      PROVE  Attended(node'[m])
  <2>1. m \in Nodes /\ FreeTwice(node[n]) /\ \A k \in network : Attended(node[k])
    BY <1>6, ForgottenNodes DEF IInv, SlotsSuffice
  <2> QED
    BY <2>1, <1>3, <1>6
<1>7. SlotsSuffice /\ NoNodeForgotten => NoNodeForgotten'
  <2>1. NoNodeForgotten' <=>
          (phase' = "started" => \A m \in network' : Attended(node'[m]))
    BY DEF NoNodeForgotten, Attended, Busy
  <2> QED
    BY <1>1, <1>6, <2>1
<1> QED
  BY <1>5, <1>7 DEF Kept

LEMMA BeginKeeps ==
    ASSUME IInv, NEW n \in Nodes, NEW i \in Slots, Begin(n, i)
    PROVE  Kept
<1>1. Good(n, node[n])
  BY DEF IInv
<1>2. Good(n, Start(n, node[n], i)) /\ Attended(Start(n, node[n], i))
  BY <1>1, StartGood, GoesAttended
<1> QED
  BY <1>2, PutKeeps DEF Begin, bounds, IInv

LEMMA ProtocolInfoKeeps ==
    ASSUME IInv, NEW n \in Nodes, NEW i \in Slots, ProtocolInfo(n, i)
    PROVE  Kept
<1> DEFINE r == [node[n] EXCEPT !.known = TRUE]
           slept == IF ~CanSleep(n, r) THEN r
                    ELSE IF r.status = "alive" THEN Mark(n, r, "AWAKE")
                    ELSE IF r.status # "awake" THEN Mark(n, r, "ASLEEP")
                    ELSE r
           told == [slept EXCEPT !.stage = "ProtocolInfo"]
<1>1. Good(n, node[n]) /\ node[n] \in NodeRecord
  BY DEF IInv
<1>2. /\ r \in NodeRecord /\ r.stage = node[n].stage /\ r.interviewed = node[n].interviewed
      /\ r.runs = node[n].runs /\ r.timers = node[n].timers
      /\ r.tracked = node[n].tracked /\ r.refreshing = node[n].refreshing
  BY <1>1 DEF NodeRecord
<1>3. Put(n, CheckAlive(n, told, i)) /\ UNCHANGED bounds
  BY DEF ProtocolInfo
<1> HIDE DEF r
<1>4. Good(n, r)
  BY <1>1, <1>2 DEF Good, Known, RunsOK
<1>5. Good(n, slept) /\ slept \in NodeRecord
  BY <1>4, MarkGood DEF Good
<1> HIDE DEF slept
<1>6. /\ told \in NodeRecord /\ told.stage = "ProtocolInfo"
      /\ told.interviewed = slept.interviewed
      /\ told.runs = slept.runs /\ told.timers = slept.timers
      /\ told.tracked = slept.tracked /\ told.refreshing = slept.refreshing
  BY <1>5 DEF NodeRecord, Stages
<1> HIDE DEF told
<1>7. Good(n, told)
  BY <1>5, <1>6 DEF Good, Known, RunsOK
<1>8. Good(n, CheckAlive(n, told, i)) /\ Attended(CheckAlive(n, told, i))
  BY <1>6, <1>7, CheckAliveGood, GoesAttended
<1> QED
  BY <1>3, <1>8, PutKeeps DEF bounds, IInv

LEMMA InterviewThrowsKeeps ==
    ASSUME IInv, NEW n \in Nodes, NEW i \in Slots, InterviewThrows(n, i)
    PROVE  Kept
<1> DEFINE r == [node[n] EXCEPT !.failed = TRUE]
<1>1. Good(n, node[n]) /\ node[n] \in NodeRecord
  BY DEF IInv
<1>2. /\ r \in NodeRecord /\ r.stage = node[n].stage /\ r.interviewed = node[n].interviewed
      /\ r.runs = node[n].runs /\ r.timers = node[n].timers /\ r.failed
      /\ r.tracked = node[n].tracked /\ r.refreshing = node[n].refreshing
  BY <1>1 DEF NodeRecord
<1>3. Put(n, At(r, i, "idle")) /\ faults' \in 0..MaxFaults
      /\ removed' = removed /\ refreshes' = refreshes
  BY NodesAssumption DEF InterviewThrows, IInv
<1> HIDE DEF r
<1>4. Good(n, r)
  BY <1>1, <1>2 DEF Good, Known, RunsOK
<1>5. Good(n, At(r, i, "idle")) /\ At(r, i, "idle").failed
  BY <1>2, <1>4, AtGood, AtFields DEF Points
<1>6. Attended(At(r, i, "idle"))
  BY <1>5 DEF Attended
<1> QED
  BY <1>3, <1>5, <1>6, PutKeeps DEF IInv

(* A node that loses the ping that finds out its status is attended as     *)
(* before.                                                                 *)
LEMMA PingEnds ==
    ASSUME NEW n \in Nodes, NEW r, Good(n, r), NEW i \in Slots, r.runs[i].at = "status"
    PROVE  /\ Good(n, At(r, i, "idle"))
           /\ Attended(r) => Attended(At(r, i, "idle"))
<1> DEFINE a == At(r, i, "idle")
<1>1. r \in NodeRecord
  BY DEF Good
<1>2. /\ Good(n, a)
      /\ a.stage = r.stage /\ a.status = r.status /\ a.attempts = r.attempts
      /\ a.timers = r.timers /\ a.failed = r.failed
      /\ \A j \in Slots : a.runs[j] =
            IF j = i THEN [at |-> "idle", cc |-> 0] ELSE r.runs[j]
  BY <1>1, AtGood, AtFields DEF Points
<1> HIDE DEF a
<1>3. Attended(r) => Attended(a)
  BY <1>2 DEF Attended, Busy
<1> QED
  BY <1>2, <1>3 DEF a

LEMMA PingOkKeeps ==
    ASSUME IInv, NEW n \in Nodes, NEW i \in Slots, PingOk(n, i)
    PROVE  Kept
<1> DEFINE r == Mark(n, node[n], "ALIVE")
           at == node[n].runs[i].at
<1>1. Good(n, node[n])
  BY DEF IInv
<1>2. /\ at \in {"ping", "status"}
      /\ Put(n, IF at = "ping" THEN Advance(r, i) ELSE At(r, i, "idle"))
      /\ UNCHANGED bounds
  BY DEF PingOk
<1>3. /\ Good(n, r)
      /\ phase # "booting" /\ Attended(node[n]) /\ Free(node[n]) => Attended(r)
      /\ Free(node[n]) => KeepsPings(node[n], r)
      /\ ~node[n].refreshing /\ node[n].stage # "None" => r.stage # "None"
  BY <1>1, MarkGood
<1> HIDE DEF r
<1>4. CASE at = "ping"
  <2>1. ~node[n].refreshing /\ node[n].stage # "None"
    BY <1>1, <1>4 DEF Good, RunsOK
  <2>2. Good(n, Advance(r, i)) /\ Attended(Advance(r, i))
    BY <1>3, <2>1, AdvanceGood, GoesAttended
  <2> QED
    BY <1>2, <1>4, <2>2, PutKeeps DEF bounds, IInv
<1>5. CASE at = "status"
  <2>1. Good(n, At(r, i, "idle"))
    BY <1>3, AtGood DEF Points
  <2>2. ASSUME phase = "started", FreeTwice(node[n]), Attended(node[n])
        PROVE  Attended(At(r, i, "idle"))
    <3>1. Free(node[n])
      BY <2>2, FreeTwiceIsFree
    <3>2. Attended(r) /\ r.runs[i].at = "status"
      BY <1>3, <1>5, <2>2, <3>1 DEF KeepsPings
    <3> QED
      BY <1>3, <3>2, PingEnds
  <2>3. Put(n, At(r, i, "idle"))
    BY <1>2, <1>5
  <2> QED
    BY <1>2, <2>1, <2>2, <2>3, PutKeeps DEF bounds, IInv
<1> QED
  BY <1>2, <1>4, <1>5

LEMMA NodeInfoKeeps ==
    ASSUME IInv, NEW n \in Nodes, NEW i \in Slots, NodeInfo(n, i)
    PROVE  Kept
<1> DEFINE r == Mark(n, node[n], "AWAKE")
           t == [r EXCEPT !.stage = "NodeInfo"]
<1>1. Put(n, NextCC(t, i, 0)) /\ UNCHANGED bounds
  BY DEF NodeInfo
<1>2. Good(n, r) /\ r \in NodeRecord
  BY MarkGood DEF IInv, Good
<1> HIDE DEF r
<1>3. /\ t \in NodeRecord /\ t.stage = "NodeInfo" /\ t.interviewed = r.interviewed
      /\ t.runs = r.runs /\ t.timers = r.timers
      /\ t.tracked = r.tracked /\ t.refreshing = r.refreshing
  BY <1>2 DEF NodeRecord, Stages
<1> HIDE DEF t
<1>4. Good(n, t)
  BY <1>2, <1>3 DEF Good, Known, RunsOK
<1>5. 0 \in 0..CCs /\ 1..0 \subseteq t.interviewed
  BY NodesAssumption
<1>6. Good(n, NextCC(t, i, 0)) /\ Goes(NextCC(t, i, 0), i)
  BY <1>4, <1>5, NextCCFields DEF Goes, Points
<1> QED
  BY <1>1, <1>6, GoesAttended, PutKeeps DEF bounds, IInv

LEMMA CommandClassKeeps ==
    ASSUME IInv, NEW n \in Nodes, NEW i \in Slots, CommandClass(n, i)
    PROVE  Kept
<1> DEFINE cc == node[n].runs[i].cc
           input == IF CanSleep(n, node[n]) THEN "AWAKE" ELSE "ALIVE"
           r == Mark(n, node[n], input)
           t == [r EXCEPT !.interviewed = @ \cup {cc}]
<1>1. /\ node[n].runs[i].at = "ccs"
      /\ Put(n, IF r.runs[i].at # "ccs" THEN r ELSE NextCC(t, i, cc))
      /\ UNCHANGED bounds
  BY DEF CommandClass
<1>2. Good(n, node[n]) /\ cc \in 1..CCs
  BY <1>1 DEF IInv, Good, RunsOK
<1>3. /\ Good(n, r) /\ r \in NodeRecord
      /\ phase # "booting" /\ Attended(node[n]) /\ Free(node[n]) => Attended(r)
  BY <1>2, MarkGood DEF Good
<1>4. r.runs[i].at = "ccs" => r.runs[i].cc = cc
  BY <1>1, <1>2, MarkRejects
<1> HIDE DEF r, cc
<1>5. CASE r.runs[i].at # "ccs"
  <2>1. Put(n, r)
    BY <1>1, <1>5
  <2> QED
    BY <1>1, <1>3, <2>1, FreeTwiceIsFree, PutKeeps DEF bounds, IInv
<1>6. CASE r.runs[i].at = "ccs"
  <2>1. 1 .. (cc - 1) \subseteq r.interviewed
    BY <1>3, <1>4, <1>6 DEF Good, RunsOK
  <2>2. CCs \in Nat /\ cc \in Nat /\ cc \in 0..CCs
    BY <1>2, NodesAssumption
  <2>3. r.interviewed \subseteq 1..CCs
    BY <1>3 DEF NodeRecord
  <2>4. /\ t \in NodeRecord /\ t.stage = r.stage
        /\ t.interviewed = r.interviewed \cup {cc}
        /\ t.runs = r.runs /\ t.timers = r.timers
        /\ t.tracked = r.tracked /\ t.refreshing = r.refreshing
    BY <1>2, <1>3, <2>3 DEF NodeRecord
  <2> HIDE DEF t
  <2>5. Good(n, t)
    <3>1. Known(t)
      BY <1>2, <1>3, <2>4 DEF Good, Known
    <3>2. RunsOK(n, t)
      BY <1>3, <2>4 DEF Good, RunsOK
    <3> QED
      BY <1>3, <2>4, <3>1, <3>2 DEF Good
  <2>6. 1..cc \subseteq t.interviewed
    <3>1. ASSUME NEW c \in 1..cc, c # cc  PROVE c \in 1 .. (cc - 1)
      BY <2>2, <3>1
    <3> QED
      BY <2>1, <2>4, <3>1
  <2>7. Good(n, NextCC(t, i, cc)) /\ Goes(NextCC(t, i, cc), i)
    BY <2>2, <2>5, <2>6, NextCCFields DEF Goes, Points
  <2>8. Put(n, NextCC(t, i, cc))
    BY <1>1, <1>6
  <2> QED
    BY <1>1, <2>7, <2>8, GoesAttended, PutKeeps DEF bounds, IInv
<1> QED
  BY <1>5, <1>6

LEMMA CommandFailsKeeps ==
    ASSUME IInv, NEW n \in Nodes, NEW i \in Slots, CommandFails(n, i)
    PROVE  Kept
<1> DEFINE r == node[n]
           f == IF r.runs[i].at = "status" THEN At(r, i, "idle") ELSE Failed(r, i)
<1>1. Put(n, f) /\ removed' = removed /\ refreshes' = refreshes
      /\ faults' \in 0..MaxFaults
  BY NodesAssumption DEF CommandFails, IInv
<1>2. Good(n, r)
  BY DEF IInv
<1>3. Good(n, f) /\ (Attended(r) => Attended(f))
  BY <1>2, FailedGood, PingEnds
<1> HIDE DEF f
<1> QED
  BY <1>1, <1>3, PutKeeps DEF IInv

LEMMA FallsAsleepKeeps ==
    ASSUME IInv, NEW n \in Nodes, NEW i \in Slots, FallsAsleep(n, i)
    PROVE  Kept
<1> DEFINE s == Mark(n, node[n], "ASLEEP")
<1>1. Put(n, At(s, i, "again")) /\ removed' = removed /\ refreshes' = refreshes
      /\ faults' \in 0..MaxFaults
  BY NodesAssumption DEF FallsAsleep, IInv
<1>2. Good(n, node[n])
  BY DEF IInv
<1>3. Good(n, s) /\ s \in NodeRecord
  BY <1>2, MarkGood DEF Good
<1> HIDE DEF s
<1>4. /\ Good(n, At(s, i, "again"))
      /\ At(s, i, "again").runs[i] = [at |-> "again", cc |-> 0]
  BY <1>3, AtGood, AtFields DEF Points
<1>5. Attended(At(s, i, "again"))
  BY <1>4, GoesAttended DEF Goes, Points
<1> QED
  BY <1>1, <1>4, <1>5, PutKeeps DEF IInv

LEMMA NoAckKeeps ==
    ASSUME IInv, NEW n \in Nodes, NoAck(n)
    PROVE  Kept
<1> DEFINE input == IF CanSleep(n, node[n]) THEN "ASLEEP" ELSE "DEAD"
           r == Mark(n, node[n], input)
           runs == [i \in Slots |-> IF r.runs[i].at \in Waiting THEN Idle ELSE r.runs[i]]
           ended == [r EXCEPT !.runs = runs]
<1>1. /\ Put(n, IF r.status = "dead" THEN ended ELSE r)
      /\ removed' = removed /\ refreshes' = refreshes
      /\ faults' \in 0..MaxFaults
  BY NodesAssumption DEF NoAck, IInv
<1>2. Good(n, node[n])
  BY DEF IInv
<1>3. /\ Good(n, r) /\ r \in NodeRecord
      /\ phase # "booting" /\ Attended(node[n]) /\ Free(node[n]) => Attended(r)
  BY <1>2, MarkGood DEF Good
<1> HIDE DEF r
<1>4. /\ Idle \in Run
      /\ r.runs \in [Slots -> Run]
  BY <1>3, NodesAssumption DEF NodeRecord, Run, Idle, Points
<1>5. /\ runs \in [Slots -> Run]
      /\ \A i \in Slots : runs[i] = Idle \/ runs[i] = r.runs[i]
  BY <1>4
<1> HIDE DEF runs
<1>6. /\ ended \in NodeRecord /\ ended.stage = r.stage /\ ended.status = r.status
      /\ ended.interviewed = r.interviewed
      /\ ended.runs = runs /\ ended.timers = r.timers
      /\ ended.tracked = r.tracked /\ ended.refreshing = r.refreshing
  BY <1>3, <1>5 DEF NodeRecord, Run
<1> HIDE DEF ended
<1>7. Good(n, ended)
  <2>1. RunsOK(n, ended)
    BY <1>3, <1>5, <1>6 DEF Good, RunsOK, Idle
  <2> QED
    BY <1>3, <1>6, <2>1 DEF Good, Known
<1>8. CASE r.status = "dead"
  <2>1. Attended(ended) /\ Put(n, ended)
    BY <1>1, <1>6, <1>8 DEF Attended
  <2> QED
    BY <1>1, <1>7, <2>1, PutKeeps DEF IInv
<1>9. CASE r.status # "dead"
  <2>1. Put(n, r)
    BY <1>1, <1>9
  <2> QED
    BY <1>1, <1>3, <2>1, FreeTwiceIsFree, PutKeeps DEF IInv
<1> QED
  BY <1>8, <1>9

LEMMA RetryTimerKeeps ==
    ASSUME IInv, NEW n \in Nodes, RetryTimer(n)
    PROVE  Kept
<1> DEFINE r == [node[n] EXCEPT !.timers = @ - 1, !.tracked = FALSE]
<1>1. node[n].timers > 0 /\ Put(n, Interview(n, r)) /\ UNCHANGED bounds
  BY DEF RetryTimer
<1>2. Good(n, node[n]) /\ node[n] \in NodeRecord
  BY DEF IInv
<1>3. node[n].timers - 1 \in Nat
  <2>1. node[n].timers \in Nat
    BY <1>2 DEF NodeRecord
  <2> QED BY <1>1, <2>1
<1>4. /\ r \in NodeRecord /\ r.stage = node[n].stage /\ r.interviewed = node[n].interviewed
      /\ r.runs = node[n].runs /\ ~r.tracked /\ r.refreshing = node[n].refreshing
  BY <1>2, <1>3 DEF NodeRecord
<1> HIDE DEF r
<1>5. Good(n, r)
  BY <1>2, <1>4 DEF Good, Known, RunsOK
<1>6. FreeTwice(node[n]) => Free(r)
  BY <1>4 DEF FreeTwice, Free
<1>7. Good(n, Interview(n, r)) /\ (Free(r) => Attended(Interview(n, r)))
  BY <1>5, GoodIsSound, InterviewGood
<1> QED
  BY <1>1, <1>6, <1>7, PutKeeps DEF bounds, IInv

LEMMA FrameKeeps ==
    ASSUME IInv, NEW n \in Nodes, Frame(n)
    PROVE  Kept
<1> DEFINE r == node[n]
           revived == IF r.status = "dead" THEN Mark(n, r, "ALIVE") ELSE r
           woken == IF CanSleep(n, revived) THEN Mark(n, revived, "AWAKE") ELSE revived
<1>1. Put(n, woken) /\ UNCHANGED bounds
  BY DEF Frame
<1>2. Good(n, r)
  BY DEF IInv
<1>3. /\ Good(n, revived)
      /\ phase # "booting" /\ Attended(r) /\ Free(r) => Attended(revived)
      /\ FreeTwice(r) => Free(revived)
  BY <1>2, MarkGood, FreeTwiceIsFree
<1> HIDE DEF revived
<1>4. /\ Good(n, woken)
      /\ phase # "booting" /\ Attended(revived) /\ Free(revived) => Attended(woken)
  BY <1>3, MarkGood
<1> HIDE DEF woken
<1> QED
  BY <1>1, <1>3, <1>4, FreeTwiceIsFree, PutKeeps DEF bounds, IInv

LEMMA SendToSleepKeeps ==
    ASSUME IInv, NEW n \in Nodes, SendToSleep(n)
    PROVE  Kept
<1>1. Good(n, node[n])
  BY DEF IInv
<1>2. /\ Good(n, Mark(n, node[n], "ASLEEP"))
      /\ phase # "booting" /\ Attended(node[n]) /\ Free(node[n])
            => Attended(Mark(n, node[n], "ASLEEP"))
  BY <1>1, MarkGood
<1>3. Put(n, Mark(n, node[n], "ASLEEP")) /\ UNCHANGED bounds
  BY DEF SendToSleep
<1> QED
  BY <1>2, <1>3, FreeTwiceIsFree, PutKeeps DEF bounds, IInv

LEMMA RefreshInfoKeeps ==
    ASSUME IInv, NEW n \in Nodes, NEW wait \in BOOLEAN, RefreshInfo(n, wait)
    PROVE  Kept
<1> DEFINE r == node[n]
           t == [r EXCEPT !.refreshing = TRUE]
<1>1. /\ Put(n, IF wait THEN t ELSE Reset(n, r, r.status = "awake"))
      /\ removed' = removed /\ faults' = faults
      /\ refreshes' \in 0..MaxRefreshes
      /\ \A i \in Slots : r.runs[i].at \notin Points \ {"idle", "status"}
      /\ wait => CanSleep(n, r)
  BY NodesAssumption DEF RefreshInfo, IInv, Busy
<1>2. Good(n, r) /\ r \in NodeRecord
  BY DEF IInv
<1>3. CASE wait
  <2>1. /\ t \in NodeRecord /\ t.stage = r.stage /\ t.interviewed = r.interviewed
        /\ t.runs = r.runs /\ t.timers = r.timers /\ t.tracked = r.tracked
        /\ t.status = r.status /\ t.failed = r.failed /\ t.attempts = r.attempts
    BY <1>2 DEF NodeRecord
  <2>2. n \in Sleeping /\ Put(n, t)
    BY <1>1, <1>3 DEF CanSleep
  <2> HIDE DEF t
  <2>3. Good(n, t) /\ (Attended(r) => Attended(t))
    BY <1>2, <2>1, <2>2 DEF Good, Known, RunsOK, Attended, Busy
  <2> QED
    BY <1>1, <2>2, <2>3, PutKeeps DEF IInv
<1>4. CASE ~wait
  <2>1. \A i \in Slots : r.runs[i].at # "ping"
    BY <1>1 DEF Points
  <2>2. /\ Good(n, Reset(n, r, r.status = "awake"))
        /\ Free(r) => Attended(Reset(n, r, r.status = "awake"))
    BY <1>2, <2>1, ResetGood
  <2>3. Put(n, Reset(n, r, r.status = "awake"))
    BY <1>1, <1>4
  <2> QED
    BY <1>1, <2>2, <2>3, FreeTwiceIsFree, PutKeeps DEF IInv
<1> QED
  BY <1>3, <1>4

LEMMA NewGood ==
    ASSUME NEW n \in Nodes, NEW s \in Statuses
    PROVE  /\ Good(n, New)
           /\ Good(n, [New EXCEPT !.status = s])
           /\ \A i \in Slots : [New EXCEPT !.status = s].runs[i] = Idle
<1> DEFINE t == [New EXCEPT !.status = s]
<1>1. Idle \in Run /\ Idle.at = "idle"
  BY NodesAssumption DEF Idle, Run, Points
<1> DEFINE runs == [i \in Slots |-> Idle]
<1>2. runs \in [Slots -> Run] /\ \A i \in Slots : runs[i] = Idle
  BY <1>1
<1> HIDE DEF runs
<1>3. /\ New \in NodeRecord /\ New.stage = "None" /\ New.runs = runs
      /\ ~New.tracked /\ ~New.refreshing
      /\ t \in NodeRecord /\ t.stage = "None" /\ t.runs = runs
      /\ ~t.tracked /\ ~t.refreshing
  BY <1>2 DEF New, NodeRecord, Run, Stages, Statuses, runs
<1> HIDE DEF t
<1>4. Good(n, New) /\ Good(n, t)
  BY <1>1, <1>2, <1>3 DEF Good, Known, RunsOK
<1> QED
  BY <1>2, <1>3, <1>4 DEF t

LEMMA RestoredGood ==
    ASSUME NEW n \in Nodes, NEW stage \in Stages
    PROVE  Good(n, Restored(stage))
<1> DEFINE t == Restored(stage)
           runs == [i \in Slots |-> Idle]
<1>1. Idle \in Run /\ Idle.at = "idle"
  BY NodesAssumption DEF Idle, Run, Points
<1>2. runs \in [Slots -> Run] /\ \A i \in Slots : runs[i] = Idle
  BY <1>1
<1> HIDE DEF runs
<1>3. /\ t \in NodeRecord /\ t.stage = stage /\ t.runs = runs
      /\ ~t.tracked /\ ~t.refreshing
      /\ stage \in {"CommandClasses", "Complete"} => t.interviewed = 1..CCs
  BY <1>2 DEF Restored, New, NodeRecord, Run, Stages, Statuses, runs
<1> HIDE DEF t
<1>4. Good(n, t)
  BY <1>1, <1>2, <1>3 DEF Good, Known, RunsOK
<1> QED
  BY <1>4 DEF t

LEMMA InitOK ==
    ASSUME Init
    PROVE  IInv /\ NoNodeForgotten
<1>1. PICK cache \in Caches :
        /\ network = DOMAIN cache
        /\ node = [n \in Nodes |-> IF n \in DOMAIN cache
                                  THEN Restored(cache[n]) ELSE New]
  BY DEF Init
<1>2. DOMAIN cache \subseteq Nodes /\ \A n \in DOMAIN cache : cache[n] \in Stages
  BY CacheAssumption
<1>3. ASSUME NEW n \in Nodes PROVE Good(n, node[n])
  <2>1. CASE n \in DOMAIN cache
    BY <1>1, <1>2, <2>1, RestoredGood
  <2>2. CASE n \notin DOMAIN cache
    BY <1>1, <2>2, NewGood DEF Statuses
  <2> QED BY <2>1, <2>2
<1>4. node \in [Nodes -> NodeRecord]
  BY <1>1, <1>3 DEF Good
<1>5. /\ phase = "booting" /\ nodesReady = {} /\ removed = {}
      /\ announced \in BOOLEAN
      /\ faults \in 0..MaxFaults /\ refreshes \in 0..MaxRefreshes
  <2>1. announced \in BOOLEAN
    BY Zenon DEF Init
  <2>2. faults \in 0..MaxFaults /\ refreshes \in 0..MaxRefreshes
    BY NodesAssumption DEF Init
  <2> QED
    BY <2>1, <2>2 DEF Init
<1>6. NoNodeForgotten
  BY <1>5 DEF NoNodeForgotten
<1>7. network \subseteq Nodes
  BY <1>1, <1>2
<1>8. IInv
  BY <1>3, <1>4, <1>5, <1>7 DEF IInv
<1> QED
  BY <1>6, <1>8

LEMMA ResumedGood ==
    ASSUME NEW n \in Nodes, Good(n, node[n])
    PROVE  /\ Good(n, Resumed(n))
           /\ FreeTwice(node[n]) => Attended(Resumed(n))
<1> DEFINE r == node[n]
           r1 == IF CanSleep(n, r) THEN ChangeStatus(n, r, "ASLEEP") ELSE r
           a == At(r1, CHOOSE i \in Slots : r1.runs[i] = Idle, "status")
<1>1. Good(n, r1) /\ r1 \in NodeRecord /\ (FreeTwice(r) => Free(r1))
  BY StatusGood, FreeTwiceIsFree DEF Good
<1>2. Resumed(n) = IF r1.stage # "Complete" THEN Interview(n, r1)
                   ELSE IF Listens(n, r1) THEN a ELSE r1
  BY DEF Resumed
<1> HIDE DEF r1
<1>3. Good(n, Interview(n, r1)) /\ (Free(r1) => Attended(Interview(n, r1)))
  BY <1>1, GoodIsSound, InterviewGood
<1>4. Good(n, a) /\ a.stage = r1.stage
  BY <1>1, AtGood, AtFields DEF Points
<1> HIDE DEF a
<1> QED
  BY <1>1, <1>2, <1>3, <1>4 DEF Attended

LEMMA StartInterviewsKeeps ==
    ASSUME IInv, StartInterviews
    PROVE  Kept
<1>1. /\ node' = [n \in Nodes |-> IF n \in network THEN Resumed(n) ELSE node[n]]
      /\ phase' = "started" /\ network' = network /\ UNCHANGED bounds
      /\ nodesReady' \subseteq nodesReady \cup network
      /\ announced' \in BOOLEAN
  BY DEF StartInterviews, AllReady
<1>2. ASSUME NEW n \in Nodes
      PROVE  Good(n, node'[n]) /\ (n \in network /\ SlotsSuffice => Attended(node'[n]))
  BY <1>1, ResumedGood DEF IInv, SlotsSuffice
<1>3. node' \in [Nodes -> NodeRecord]
  BY <1>1, <1>2 DEF Good
<1>4. IInv'
  BY <1>1, <1>2, <1>3 DEF IInv, bounds, Good, Known, RunsOK
<1>5. NoNodeForgotten' <=>
          (phase' = "started" => \A m \in network' : Attended(node'[m]))
  BY DEF NoNodeForgotten, Attended, Busy
<1> QED
  BY <1>1, <1>2, <1>4, <1>5 DEF Kept, IInv

LEMMA NodeAddedKeeps ==
    ASSUME IInv, NEW n \in Nodes, NodeAdded(n)
    PROVE  Kept
<1> DEFINE r == [New EXCEPT !.status = "alive"]
<1>1. /\ node' = [node EXCEPT ![n] = Interview(n, r)]
      /\ network' = network \cup {n}
      /\ phase = "started"
      /\ UNCHANGED <<phase, nodesReady, announced, bounds>>
  BY DEF NodeAdded
<1>2. Good(n, r) /\ \A i \in Slots : r.runs[i] = Idle
  BY NewGood DEF Statuses
<1> HIDE DEF r
<1>3. SlotsSuffice => Free(r)
  BY <1>2 DEF SlotsSuffice, FreeTwice, Free
<1>4. /\ Good(n, Interview(n, r))
      /\ SlotsSuffice => Attended(Interview(n, r))
  BY <1>2, <1>3, GoodIsSound, InterviewGood
<1>5. /\ node' \in [Nodes -> NodeRecord]
      /\ node'[n] = Interview(n, r)
      /\ \A m \in Nodes : m # n => node'[m] = node[m]
  BY <1>1, <1>4 DEF IInv, Good
<1>6. \A m \in Nodes : Good(m, node'[m])
  BY <1>4, <1>5 DEF IInv
<1>7. IInv'
  BY <1>1, <1>5, <1>6 DEF IInv, bounds, Good, Known, RunsOK
<1>8. NoNodeForgotten' <=>
          (phase' = "started" => \A m \in network' : Attended(node'[m]))
  BY DEF NoNodeForgotten, Attended, Busy
<1>9. ASSUME SlotsSuffice, NoNodeForgotten, NEW m \in network'
      PROVE  Attended(node'[m])
  <2>1. m \in Nodes
    BY <1>1 DEF IInv
  <2>2. CASE m = n
    BY <1>4, <1>5, <1>9, <2>2
  <2>3. CASE m # n
    BY <1>1, <1>5, <1>9, <2>1, <2>3, ForgottenNodes
  <2> QED BY <2>2, <2>3
<1> QED
  BY <1>7, <1>8, <1>9 DEF Kept

LEMMA NodeRemovedKeeps ==
    ASSUME IInv, NEW n \in Nodes, NodeRemoved(n)
    PROVE  Kept
<1>1. /\ node' = [node EXCEPT ![n] = New]
      /\ network' = network \ {n}
      /\ removed' = removed \cup {n}
      /\ phase = "started" /\ announced' \in BOOLEAN
      /\ UNCHANGED <<phase, nodesReady, faults, refreshes>>
  BY DEF NodeRemoved, IInv, AllReady
<1>2. Good(n, New)
  BY NewGood DEF Statuses
<1>3. /\ node' \in [Nodes -> NodeRecord]
      /\ node'[n] = New
      /\ \A m \in Nodes : m # n => node'[m] = node[m]
  BY <1>1, <1>2 DEF IInv, Good
<1>4. \A m \in Nodes : Good(m, node'[m])
  BY <1>2, <1>3 DEF IInv
<1>5. IInv'
  BY <1>1, <1>3, <1>4 DEF IInv, Good, Known, RunsOK
<1>6. NoNodeForgotten' <=>
          (phase' = "started" => \A m \in network' : Attended(node'[m]))
  BY DEF NoNodeForgotten, Attended, Busy
<1> QED
  BY <1>1, <1>3, <1>5, <1>6, ForgottenNodes DEF Kept, IInv

LEMMA NextKeeps ==
    ASSUME IInv, [Next]_vars
    PROVE  Kept
<1>1. CASE DriverReady
  <2>1. IInv'
    BY <1>1 DEF DriverReady, IInv, bounds, Good, Known, RunsOK
  <2>2. NoNodeForgotten'
    BY <1>1 DEF DriverReady, NoNodeForgotten
  <2> QED
    BY <2>1, <2>2 DEF Kept
<1>2. CASE StartInterviews
  BY <1>2, StartInterviewsKeeps
<1>3. ASSUME NEW n \in Nodes, NEW i \in Slots,
             \/ Step(n, i)
             \/ CommandFails(n, i) \/ FallsAsleep(n, i) \/ InterviewThrows(n, i)
      PROVE  Kept
  BY <1>3, BeginKeeps, ProtocolInfoKeeps, PingOkKeeps, NodeInfoKeeps,
     CommandClassKeeps, InterviewThrowsKeeps, CommandFailsKeeps, FallsAsleepKeeps
  DEF Step
<1>4. ASSUME NEW n \in Nodes,
             \/ NoAck(n) \/ RetryTimer(n) \/ Frame(n) \/ SendToSleep(n)
             \/ NodeAdded(n) \/ NodeRemoved(n)
      PROVE  Kept
  BY <1>4, NoAckKeeps, RetryTimerKeeps, FrameKeeps, SendToSleepKeeps,
     NodeAddedKeeps, NodeRemovedKeeps
<1>5. ASSUME NEW n \in Nodes, NEW wait \in BOOLEAN, RefreshInfo(n, wait)
      PROVE  Kept
  BY <1>5, RefreshInfoKeeps
<1>6. CASE UNCHANGED vars
  <2>1. IInv'
    BY <1>6 DEF vars, driver, bounds, IInv, Good, Known, RunsOK
  <2>2. NoNodeForgotten => NoNodeForgotten'
    BY <1>6 DEF vars, driver, bounds, NoNodeForgotten, Busy
  <2> QED
    BY <2>1, <2>2 DEF Kept
<1> QED
  BY <1>1, <1>2, <1>3, <1>4, <1>5, <1>6 DEF Next

-----------------------------------------------------------------------------
(* "All nodes ready" *)

(* What a node goes through is checked against all the others: if nobody   *)
(* is outstanding afterwards, the event has been emitted.                  *)
LEMMA PutAnnounces ==
    ASSUME NEW n \in Nodes, NEW r, Put(n, r), node \in [Nodes -> NodeRecord],
           network \subseteq Nodes,
           phase = "started", Outstanding # {}, Outstanding' = {}
    PROVE  announced'
<1>1. PICK m \in network : node[m].status # "dead" /\ m \notin nodesReady
  BY DEF Outstanding
<1>2. /\ \A k \in network : node'[k].status = "dead" \/ k \in nodesReady'
      /\ node' = [node EXCEPT ![n] = r]
      /\ node'[n] = r
      /\ \A k \in Nodes : k # n => node'[k] = node[k]
  BY DEF Put, Outstanding
<1>3. m = n
  BY <1>1, <1>2 DEF Put
<1>4. \/ r.readiness = "ready" /\ node[n].readiness # "ready"
      \/ r.status = "dead" /\ node[n].status # "dead"
  BY <1>1, <1>2, <1>3 DEF Put
<1>5. AllReady(phase = "started", network, nodesReady', node')
  BY <1>2 DEF AllReady
<1> QED
  BY <1>4, <1>5 DEF Put
-----------------------------------------------------------------------------
(* The theorems *)

LEMMA Invariance == Spec => []IInv
<1>1. Init => IInv
  BY InitOK
<1>2. IInv /\ [Next]_vars => IInv'
  BY NextKeeps DEF Kept
<1> QED
  BY <1>1, <1>2, PTL DEF Spec

(* Every record of a node has its type: no retry timer is counted as       *)
(* cleared that was not armed, however interviews, timers and refreshes    *)
(* follow each other.                                                      *)
THEOREM TypeCorrect == Spec => []TypeOK
<1>1. IInv => TypeOK
  BY DEF IInv, TypeOK
<1> QED
  BY <1>1, Invariance, PTL

(* However many interviews of a node run at the same time, it is complete  *)
(* only if all of its command classes have been interviewed since its      *)
(* information was last reset (Node.interviewInternal).                    *)
THEOREM InterviewIsWhole == Spec => []CompleteIsInterviewed
<1>1. IInv => CompleteIsInterviewed
  BY DEF IInv, CompleteIsInterviewed, Good, Known
<1> QED
  BY <1>1, Invariance, PTL

(* As long as a slot is free for the interviews a step may start, every    *)
(* node that is neither known nor dead is being interviewed, or will be, or *)
(* has used up its attempts (Driver.interviewNodeInternal, onNodeAlive).   *)
THEOREM NodesAttended == Spec /\ []SlotsSuffice => []NoNodeForgotten
<1>1. Init => NoNodeForgotten
  BY InitOK
<1>2. IInv /\ SlotsSuffice /\ NoNodeForgotten /\ [Next]_vars => NoNodeForgotten'
  BY NextKeeps DEF Kept
<1> QED
  BY <1>1, <1>2, Invariance, PTL DEF Spec

(* When the last node that "all nodes ready" waited for becomes ready or   *)
(* dies, the event is emitted in the same step (Driver.checkAllNodesReady). *)
THEOREM ReadinessAnnounced == Spec => ReadyIsAnnounced
<1> DEFINE Announces ==
      (/\ phase = "started" /\ network' = network
       /\ Outstanding # {} /\ Outstanding' = {}) => announced'
<1>1. ASSUME IInv, Next
      PROVE  Announces
  <2> SUFFICES ASSUME phase = "started", network' = network,
                      Outstanding # {}, Outstanding' = {}
               PROVE  announced'
    OBVIOUS
  <2>1. ASSUME NEW n \in Nodes, NEW r, Put(n, r)
        PROVE  announced'
    BY <1>1, <2>1, PutAnnounces DEF IInv
  <2>2. CASE DriverReady \/ StartInterviews
    BY <2>2 DEF DriverReady, StartInterviews
  <2>3. ASSUME NEW n \in Nodes, NEW i \in Slots,
               \/ Step(n, i)
               \/ CommandFails(n, i) \/ FallsAsleep(n, i) \/ InterviewThrows(n, i)
        PROVE  announced'
    <3>1. \E r : Put(n, r)
      BY <2>3 DEF Step, Begin, ProtocolInfo, PingOk, NodeInfo, CommandClass,
                  CommandFails, FallsAsleep, InterviewThrows
    <3> QED BY <2>1, <3>1
  <2>4. ASSUME NEW n \in Nodes,
               NoAck(n) \/ RetryTimer(n) \/ Frame(n) \/ SendToSleep(n)
        PROVE  announced'
    <3>1. \E r : Put(n, r)
      BY <2>4 DEF NoAck, RetryTimer, Frame, SendToSleep
    <3> QED BY <2>1, <3>1
  <2>5. ASSUME NEW n \in Nodes, NodeAdded(n) \/ NodeRemoved(n)
        PROVE  announced'
    BY <2>5 DEF NodeAdded, NodeRemoved
  <2>6. ASSUME NEW n \in Nodes, NEW wait \in BOOLEAN, RefreshInfo(n, wait)
        PROVE  announced'
    <3>1. \E r : Put(n, r)
      BY <2>6 DEF RefreshInfo
    <3> QED BY <2>1, <3>1
  <2> QED
    BY <1>1, <2>2, <2>3, <2>4, <2>5, <2>6 DEF Next
<1>2. IInv /\ [Next]_vars => [Announces]_vars
  <2> HIDE DEF Announces
  <2> QED BY <1>1
<1> QED
  BY <1>2, Invariance, PTL DEF Spec, ReadyIsAnnounced
=============================================================================
