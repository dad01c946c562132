--------------------------- MODULE InclusionProofs ----------------------------
(***************************************************************************)
(* Proofs about Inclusion for every set of nodes and every bound.          *)
(***************************************************************************)
EXTENDS Inclusion, SharedFacts, SequenceTheorems, FiniteSetTheorems, TLAPS

-----------------------------------------------------------------------------
(* Types                                                                   *)

Maybe(S) == S \cup {None}

PCs == {"ended", "queued", "pausing", "starting", "pinging", "aborting", "finishing",
        "stopping", "bootstraps", "blocked", "leaving", "removing"} \cup Awaits
(* A task in one of these waits for the answer to its own command.         *)
Working  == {"pausing", "starting", "aborting", "finishing", "stopping", "leaving", "removing"}
StartOps == {"add", "addDSK", "remove", "replaceFailed"}
Ops      == StartOps \cup {"listen", "stopListen", "stopAdd", "stopRemove", "finish",
                           "stopNoCallback", "removeFailed"}
States   == {"idle", "smartStart", "including", "excluding", "busy"}

Tasks  == [id : Nat, kind : Maybe(Kinds), node : Maybe(Nodes), pc : PCs,
           found : Maybe(Nodes), strategy : Maybe(Strategies)]
Orders == [op : Ops, by : {"task", "caller", "enable", "disable", None}, for : Nat,
           node : Maybe(Nodes)]
Modes  == [k : {"off", "listen", "add", "remove", "replace"},
           stage : {"ready", "found", "node", "done", "asked"}, node : Maybe(Nodes)]

Types ==
    /\ inclusionState \in States
    /\ smartStartEnabled \in BOOLEAN /\ crossed \in BOOLEAN
    /\ provisioning \in [DSKs -> {None, "active", "inactive"}]
    /\ failedAttempts \in [DSKs -> Nat]
    /\ nodes \subseteq Nodes /\ withDSK \subseteq nodes \cap DSKs
    /\ network \subseteq Nodes /\ missed \subseteq Nodes
    /\ running \in Tasks /\ queue \in Seq(Tasks) /\ commands \in Seq(Orders)
    /\ mode \in Modes
    /\ made \in Nat /\ calls \in Nat /\ faults \in Nat

(* Where a task of each kind may be.                                       *)
Joins == {"pausing", "starting", "awaitsFound", "awaitsNode", "awaitsDone", "aborting",
          "finishing", "stopping", "bootstraps"}
PCsOf(kind) ==
    CASE kind = "classic"    -> Joins
      [] kind = "smartStart" -> Joins \cup {"blocked", "leaving", "pinging", "removing"}
      [] kind = "exclude"    -> Joins \ {"finishing", "bootstraps"}
      [] kind = "remove"     -> {"pausing", "pinging", "removing"}
      [] OTHER -> {"pausing", "pinging", "starting", "awaitsReplace", "awaitsDone", "bootstraps"}

(* What a task knows of its node.                                          *)
Suits(t) ==
    /\ t.id # 0 /\ t.kind \in Kinds
    /\ t.kind = "smartStart" => t.node \in DSKs /\ t.found \in Maybe({t.node})
    /\ t.kind \in {"remove", "replace"} => t.node \in Nodes

QueueOK == \A t \in ToSet(queue) : Suits(t) /\ t.pc = "queued" /\ t.found = None

RunsOK(t) ==
    /\ t # NoTask => Suits(t) /\ t.pc \in PCsOf(t.kind)
    /\ t.pc = "finishing" => t.found \in Nodes

(* The node of these has been added.                                       *)
HasNode(t) ==
    \/ t.pc \in {"bootstraps", "blocked", "leaving"}
    \/ t.pc \in {"pinging", "removing"} /\ t.kind = "smartStart"
RunOK == RunsOK(running) /\ (HasNode(running) => running.found \in nodes)

-----------------------------------------------------------------------------
(* Commands                                                                *)

OwnOp(t) ==
    CASE t.pc \in {"pausing", "leaving"} -> "stopListen"
      [] t.pc = "starting"  -> IF t.kind = "replace" THEN "replaceFailed" ELSE StartOf(t.kind).op
      [] t.pc = "aborting"  -> IF t.kind = "exclude" THEN "stopRemove" ELSE "stopAdd"
      [] t.pc = "finishing" -> "finish"
      [] t.pc = "stopping"  -> "stopNoCallback"
      [] OTHER              -> "removeFailed"
FailingOf(t) == IF t.kind = "remove" THEN t.node ELSE t.found
IsOwn(t, c) ==
    /\ t.pc \in Working /\ c.by = "task" /\ c.op = OwnOp(t) /\ c.for = t.id
    /\ c.node = IF t.pc = "removing" THEN FailingOf(t) ELSE t.node

(* Who sends what.                                                         *)
Decent(c) ==
    /\ c.op = "listen" <=> c.by = "enable"
    /\ c.by = "disable" => c.op = "stopListen"
    /\ c.by = "caller" => c.op \in {"stopAdd", "stopRemove"}
    /\ c.op = "removeFailed" => c.by = "task"
    /\ c.op = "replaceFailed" => c.node \in Nodes
    /\ c.op = "addDSK" => c.node \in DSKs

AllDecent(cs) == \A i \in 1..Len(cs) : Decent(cs[i])
NoOwn(cs)     == \A i \in 1..Len(cs) : cs[i].by # "task"
NoStarts(cs)  == \A i \in 1..Len(cs) : cs[i].op \notin StartOps
NoCallers(cs) == \A i \in 1..Len(cs) : cs[i].by # "caller"

(* The one command of the task, and what it has to be alone with.          *)
OwnAt(t, cs, j) ==
    /\ IsOwn(t, cs[j])
    /\ \A i \in 1..Len(cs) : i # j => cs[i].by # "task"
    /\ t.pc = "starting" => \A i \in (j + 1)..Len(cs) : cs[i].op \notin StartOps
    /\ t.pc \in {"aborting", "finishing", "stopping"} => NoStarts(cs)
    /\ t.pc = "removing" => NoCallers(cs)
Served(t, cs) ==
    /\ AllDecent(cs)
    /\ t.pc \in Working => \E j \in 1..Len(cs) : OwnAt(t, cs, j)
    /\ t.pc \notin Working => NoOwn(cs)
    /\ t.pc \in Awaits => NoStarts(cs)

LEMMA AppendFacts ==
    ASSUME NEW T, NEW s \in Seq(T), NEW x \in T
    PROVE  /\ Append(s, x) \in Seq(T) /\ Len(Append(s, x)) = Len(s) + 1 /\ Len(s) \in Nat
           /\ \A i \in 1..Len(s) : Append(s, x)[i] = s[i]
           /\ Append(s, x)[Len(s) + 1] = x
OBVIOUS

LEMMA TailFacts ==
    ASSUME NEW T, NEW s \in Seq(T), s # <<>>
    PROVE  /\ Head(s) \in T /\ Head(s) = s[1] /\ Tail(s) \in Seq(T)
           /\ Len(s) \in Nat \ {0} /\ Len(Tail(s)) = Len(s) - 1
           /\ \A i \in 1..(Len(s) - 1) : Tail(s)[i] = s[i + 1]
OBVIOUS

(* A task sends its command.                                               *)
LEMMA OwnAdded ==
    ASSUME NEW cs \in Seq(Orders), NEW t \in Tasks, NEW x \in Orders,
           AllDecent(cs), NoOwn(cs), Decent(x), IsOwn(t, x),
           t.pc \in {"aborting", "finishing", "stopping"} => NoStarts(cs),
           t.pc = "removing" => NoCallers(cs)
    PROVE  Append(cs, x) \in Seq(Orders) /\ Served(t, Append(cs, x))
<1> DEFINE r == Append(cs, x)
           n == Len(cs) + 1
<1>1. /\ r \in Seq(Orders) /\ Len(r) = n /\ Len(cs) \in Nat /\ r[n] = x
      /\ \A i \in 1..Len(cs) : r[i] = cs[i]
  BY AppendFacts
<1>2. 1..Len(r) = (1..Len(cs)) \cup {n} /\ n \in 1..Len(r)
  BY <1>1
<1> HIDE DEF r, n
<1>3. AllDecent(r) /\ \A i \in 1..Len(r) : i # n => r[i].by # "task"
  BY <1>1, <1>2 DEF AllDecent, NoOwn
<1>4. x.op \notin StartOps \/ t.pc = "starting"
  BY DEF IsOwn, OwnOp, StartOps, Working
<1>5. x.by # "caller" /\ t.pc \in Working /\ t.pc \notin Awaits
  BY DEF IsOwn, Working, Awaits
<1>6. t.pc \in {"aborting", "finishing", "stopping"} => NoStarts(r)
  BY <1>1, <1>2, <1>4 DEF NoStarts
<1>7. t.pc = "removing" => NoCallers(r)
  BY <1>1, <1>2, <1>5 DEF NoCallers
<1>8. (n + 1)..Len(r) = {}
  BY <1>1 DEF n
<1>9. OwnAt(t, r, n)
  BY <1>1, <1>3, <1>6, <1>7, <1>8 DEF OwnAt
<1> QED
  BY <1>1, <1>2, <1>3, <1>5, <1>9 DEF Served, r

(* Somebody else does.                                                     *)
LEMMA OtherAdded ==
    ASSUME NEW cs \in Seq(Orders), NEW t \in Tasks, NEW x \in Orders,
           Served(t, cs), Decent(x), x.by # "task", x.op \notin StartOps,
           t.pc = "removing" => x.by # "caller"
    PROVE  Append(cs, x) \in Seq(Orders) /\ Served(t, Append(cs, x))
<1> DEFINE r == Append(cs, x)
           n == Len(cs) + 1
<1>1. /\ r \in Seq(Orders) /\ Len(r) = n /\ Len(cs) \in Nat /\ r[n] = x
      /\ \A i \in 1..Len(cs) : r[i] = cs[i]
  BY AppendFacts
<1>2. 1..Len(r) = (1..Len(cs)) \cup {n}
  BY <1>1
<1> HIDE DEF r
<1>3. AllDecent(r) /\ (NoOwn(cs) => NoOwn(r)) /\ (NoStarts(cs) => NoStarts(r))
      /\ (t.pc = "removing" /\ NoCallers(cs) => NoCallers(r))
  BY <1>1, <1>2 DEF Served, AllDecent, NoOwn, NoStarts, NoCallers
<1>4. ASSUME NEW j \in 1..Len(cs), OwnAt(t, cs, j)
      PROVE  OwnAt(t, r, j)
  <2>1. \A i \in (j + 1)..Len(r) : i \in (j + 1)..Len(cs) \/ i = n
    BY <1>1
  <2>2. \A i \in (j + 1)..Len(cs) : i \in 1..Len(cs)
    OBVIOUS
  <2> HIDE DEF n
  <2> QED
    BY <1>1, <1>2, <1>3, <1>4, <2>1, <2>2 DEF OwnAt
<1> HIDE DEF n
<1> QED
  BY <1>1, <1>2, <1>3, <1>4 DEF Served, r

(* The task is answered.                                                   *)
LEMMA OwnTaken ==
    ASSUME NEW cs \in Seq(Orders), NEW t \in Tasks, Served(t, cs), cs # <<>>,
           Head(cs).by = "task"
    PROVE  /\ Tail(cs) \in Seq(Orders) /\ AllDecent(Tail(cs)) /\ NoOwn(Tail(cs))
           /\ IsOwn(t, Head(cs))
           /\ t.pc \in {"starting", "aborting", "finishing", "stopping"} => NoStarts(Tail(cs))
           /\ t.pc = "removing" => NoCallers(Tail(cs))
<1> DEFINE r == Tail(cs)
<1>1. /\ Head(cs) = cs[1] /\ r \in Seq(Orders) /\ Len(cs) \in Nat \ {0} /\ Len(r) = Len(cs) - 1
      /\ \A i \in 1..(Len(cs) - 1) : r[i] = cs[i + 1]
  BY TailFacts
<1>2. /\ 1 \in 1..Len(cs)
      /\ \A i \in 1..Len(r) : i + 1 \in 2..Len(cs) /\ i + 1 \in 1..Len(cs) /\ r[i] = cs[i + 1]
  BY <1>1
<1> HIDE DEF r
<1>3. t.pc \in Working
  BY <1>1, <1>2 DEF Served, NoOwn
<1>4. PICK j \in 1..Len(cs) : OwnAt(t, cs, j)
  BY <1>3 DEF Served
<1>5. j = 1
  BY <1>1, <1>2, <1>4 DEF OwnAt
<1>6. 1 + 1 = 2 /\ \A i \in 1..Len(r) : i + 1 # 1
  OBVIOUS
<1>7. IsOwn(t, cs[1]) /\ NoOwn(r) /\ AllDecent(r)
  BY <1>2, <1>4, <1>5, <1>6 DEF OwnAt, NoOwn, Served, AllDecent
<1>8. t.pc = "starting" => NoStarts(r)
  BY <1>2, <1>4, <1>5, <1>6 DEF OwnAt, NoStarts
<1>9. t.pc \in {"aborting", "finishing", "stopping"} => NoStarts(r)
  BY <1>2, <1>4 DEF OwnAt, NoStarts
<1>10. t.pc = "removing" => NoCallers(r)
  BY <1>2, <1>4 DEF OwnAt, NoCallers
<1> QED
  BY <1>1, <1>7, <1>8, <1>9, <1>10 DEF r

(* Somebody else is.                                                       *)
LEMMA OtherTaken ==
    ASSUME NEW cs \in Seq(Orders), NEW t \in Tasks, Served(t, cs), cs # <<>>,
           Head(cs).by # "task"
    PROVE  Tail(cs) \in Seq(Orders) /\ Served(t, Tail(cs))
<1> DEFINE r == Tail(cs)
<1>1. /\ Head(cs) = cs[1] /\ r \in Seq(Orders) /\ Len(cs) \in Nat \ {0} /\ Len(r) = Len(cs) - 1
      /\ \A i \in 1..(Len(cs) - 1) : r[i] = cs[i + 1]
  BY TailFacts
<1>2. \A i \in 1..Len(r) : i + 1 \in 1..Len(cs) /\ r[i] = cs[i + 1]
  BY <1>1
<1>3. \A j \in 1..Len(cs) : j # 1 => j - 1 \in 1..Len(r) /\ r[j - 1] = cs[j]
  BY <1>1
<1> HIDE DEF r
<1>4. AllDecent(r) /\ (NoOwn(cs) => NoOwn(r)) /\ (NoStarts(cs) => NoStarts(r))
      /\ (NoCallers(cs) => NoCallers(r))
  BY <1>2 DEF Served, AllDecent, NoOwn, NoStarts, NoCallers
<1>5. ASSUME NEW j \in 1..Len(cs), OwnAt(t, cs, j)
      PROVE  j - 1 \in 1..Len(r) /\ OwnAt(t, r, j - 1)
  <2>1. j # 1
    BY <1>1, <1>5 DEF OwnAt, IsOwn
  <2>2. \A i \in 1..Len(r) : i # j - 1 => i + 1 # j
    OBVIOUS
  <2>3. \A i \in ((j - 1) + 1)..Len(r) : i \in 1..Len(r) /\ i + 1 \in (j + 1)..Len(cs)
    BY <1>1
  <2> QED
    BY <1>2, <1>3, <1>4, <1>5, <2>1, <2>2, <2>3 DEF OwnAt
<1> QED
  BY <1>1, <1>4, <1>5 DEF Served, r

(* Nobody waits for the answers of a task that was dropped.                *)
LEMMA OrphanedFacts ==
    ASSUME NEW cs \in Seq(Orders), NEW t \in Tasks, Served(t, cs), t.pc # "removing"
    PROVE  LET r == Orphaned(cs)
           IN  /\ r \in Seq(Orders) /\ Len(r) = Len(cs) /\ AllDecent(r) /\ NoOwn(r)
               /\ \A i \in 1..Len(cs) :
                    r[i] = IF cs[i].by = "task" THEN [cs[i] EXCEPT !.by = None] ELSE cs[i]
<1> DEFINE r == Orphaned(cs)
<1>1. DOMAIN cs = 1..Len(cs) /\ Len(cs) \in Nat /\ \A i \in 1..Len(cs) : cs[i] \in Orders
  OBVIOUS
<1>2. r = [i \in 1..Len(cs) |-> IF cs[i].by = "task" THEN [cs[i] EXCEPT !.by = None] ELSE cs[i]]
  BY <1>1 DEF Orphaned
<1>3. \A i \in 1..Len(cs) :
         r[i] = IF cs[i].by = "task" THEN [cs[i] EXCEPT !.by = None] ELSE cs[i]
  BY <1>2
<1>4. \A i \in 1..Len(cs) : r[i] \in Orders /\ r[i].by # "task"
  BY <1>1, <1>3 DEF Orders, None
<1> DEFINE n == Len(cs)
           g(i) == IF cs[i].by = "task" THEN [cs[i] EXCEPT !.by = None] ELSE cs[i]
<1>5. r \in Seq(Orders) /\ Len(r) = Len(cs)
  <2>1. n \in Nat /\ r = [i \in 1..n |-> g(i)] /\ \A i \in 1..n : g(i) \in Orders
    BY <1>1, <1>2, <1>3, <1>4
  <2> HIDE DEF r, n, g
  <2>2. r \in [1..n -> Orders]
    BY <2>1
  <2> QED
    BY <2>1, <2>2 DEF n
<1> HIDE DEF r
<1>6. ASSUME NEW i \in 1..Len(cs) PROVE Decent(r[i])
  <2>1. CASE cs[i].by # "task"
    BY <1>3, <2>1 DEF Served, AllDecent
  <2>2. CASE cs[i].by = "task"
    <3>1. t.pc \in Working
      BY <2>2 DEF Served, NoOwn
    <3>2. PICK j \in 1..Len(cs) : OwnAt(t, cs, j)
      BY <3>1 DEF Served
    <3>3. IsOwn(t, cs[i])
      BY <2>2, <3>2 DEF OwnAt
    <3>4. cs[i].op \notin {"removeFailed", "listen"}
      <4>1. StartOf(t.kind).op \notin {"removeFailed", "listen"}
        BY DEF StartOf, None
      <4> QED
        BY <3>3, <4>1 DEF IsOwn, OwnOp, Working
    <3>5. r[i].op = cs[i].op /\ r[i].node = cs[i].node /\ r[i].by = None
      BY <1>1, <1>3, <2>2 DEF Orders
    <3> QED
      BY <3>4, <3>5 DEF Served, AllDecent, Decent, None
  <2> QED
    BY <2>1, <2>2
<1> QED
  BY <1>3, <1>4, <1>5, <1>6 DEF r, AllDecent, NoOwn

-----------------------------------------------------------------------------
(* The invariant                                                           *)

(* While a failed node is dealt with nothing can be stopped.               *)
Apart == running.pc \in {"pinging", "removing"} => inclusionState \notin {"including", "excluding"}

ModeOK ==
    /\ mode.stage = "node" \/ mode.k = "replace" => mode.node \in Nodes
    /\ mode.k \in {"off", "listen"} => mode.stage = "ready"
    /\ mode.k \in {"add", "remove"} => mode.stage # "asked"
    /\ mode.k = "replace" => mode.stage \in {"asked", "ready"}

(* A task that hears reports is where the controller is.                   *)
Hears(k) ==
    \/ k = "add" /\ running.kind \in Adds
    \/ k = "remove" /\ running.kind = "exclude"
    \/ k = "replace" /\ running.kind = "replace"
StageOf(t) ==
    CASE t.pc = "awaitsReplace" -> "asked"
      [] t.pc = "awaitsFound"   -> "ready"
      [] t.pc = "awaitsNode"    -> "found"
      [] OTHER -> IF t.kind = "replace" THEN "ready" ELSE "node"
Linked ==
    running.pc \in Awaits /\ Hears(mode.k) =>
      /\ mode.stage = StageOf(running)
      /\ mode.stage = "node" => running.found = mode.node
      /\ running.kind = "smartStart" => mode.node = running.node
      /\ running.kind = "replace" => mode.node = running.node /\ mode.node \in network

(* What a task is about to make known, or was not told of.                 *)
Learns(t) == t.pc \in {"finishing", "stopping"}
Heard ==
    /\ \A n \in (nodes \ network) \cup (network \ nodes) :
         n \in missed \/ (n = running.found /\ Learns(running))
    /\ Learns(running) /\ running.found \in Nodes =>
         \/ running.found \in missed
         \/ running.kind \in Adds /\ running.found \in network
         \/ running.kind = "exclude" /\ running.found \notin network

Base ==
    /\ Types /\ RunOK /\ QueueOK /\ Served(running, commands)
    /\ Apart /\ ModeOK /\ Linked /\ Heard

LEMMA NoTaskFacts ==
    /\ NoTask \in Tasks /\ RunsOK(NoTask) /\ ~HasNode(NoTask) /\ ~Learns(NoTask)
    /\ NoTask.pc = "ended" /\ NoTask.pc \notin Working /\ NoTask.pc \notin Awaits
    /\ NoTask.id = 0 /\ NoTask.kind \notin Kinds /\ NoTask.found \notin Nodes
<1>1. NoTask.pc = "ended" /\ NoTask.id = 0 /\ NoTask.kind = None /\ NoTask.found = None
  BY DEF NoTask
<1>2. NoTask \in Tasks
  BY DEF NoTask, Tasks, PCs, Maybe
<1> QED
  BY <1>1, <1>2, NodesAssumption
     DEF RunsOK, HasNode, Learns, Working, Awaits, Kinds, None

(* A task goes on.                                                         *)
LEMMA GoesFacts ==
    ASSUME NEW t \in Tasks, NEW pc \in PCs
    PROVE  LET r == [t EXCEPT !.pc = pc]
           IN  /\ r \in Tasks /\ r.pc = pc /\ r.id = t.id /\ r.kind = t.kind
               /\ r.node = t.node /\ r.found = t.found /\ r.strategy = t.strategy
               /\ (Suits(r) <=> Suits(t))
BY DEF Tasks, Suits

LEMMA CommandFacts ==
    ASSUME NEW op \in Ops, NEW by \in {"task", "caller", "enable", "disable", None},
           NEW t \in Tasks
    PROVE  LET c == Command(op, by, t)
           IN  /\ c \in Orders /\ c.op = op /\ c.by = by /\ c.for = t.id /\ c.node = t.node
BY DEF Command, Orders, Tasks

(* SmartStart is switched on: somebody else's command.                     *)
LEMMA Listens ==
    ASSUME NEW cs \in Seq(Orders), NEW t \in Tasks, Served(t, cs)
    PROVE  LET r == Append(cs, Command("listen", "enable", NoTask))
           IN  r \in Seq(Orders) /\ Served(t, r)
<1> DEFINE c == Command("listen", "enable", NoTask)
<1>1. c \in Orders /\ c.op = "listen" /\ c.by = "enable"
  <2>1. "listen" \in Ops /\ NoTask \in Tasks
    BY NoTaskFacts DEF Ops
  <2> QED
    BY <2>1, CommandFacts
<1> HIDE DEF c
<1>2. Decent(c) /\ c.by # "task" /\ c.op \notin StartOps /\ c.by # "caller"
  BY <1>1 DEF Decent, StartOps
<1>3. Append(cs, c) \in Seq(Orders) /\ Served(t, Append(cs, c))
  BY <1>1, <1>2, OtherAdded
<1> QED
  BY <1>3 DEF c

LEMMA EntersFacts ==
    ASSUME NEW s \in States, NEW cs \in Seq(Orders), NEW t \in Tasks, NEW e,
           Served(t, cs), Enters(s, cs, e)
    PROVE  /\ inclusionState' \in States
           /\ inclusionState' = s \/ (s = "idle" /\ inclusionState' = "smartStart")
           /\ commands' \in Seq(Orders) /\ Served(t, commands')
<1>1. CASE s = "idle" /\ inclusionState # "idle" /\ e
  <2>1. /\ inclusionState' = "smartStart"
        /\ commands' = Append(cs, Command("listen", "enable", NoTask))
    BY <1>1 DEF Enters
  <2> QED
    BY <1>1, <2>1, Listens DEF States
<1>2. CASE ~(s = "idle" /\ inclusionState # "idle" /\ e)
  BY <1>2 DEF Enters
<1> QED
  BY <1>1, <1>2

(* The task has ended, or the next state of it waits for no command.       *)
LEMMA ServedFree ==
    ASSUME NEW cs \in Seq(Orders), NEW t \in Tasks, AllDecent(cs), NoOwn(cs),
           t.pc \notin Working, t.pc \in Awaits => NoStarts(cs)
    PROVE  Served(t, cs)
BY DEF Served

(* What a task that waits for no command may rely on.                      *)
LEMMA FreeServed ==
    ASSUME NEW cs, NEW t, Served(t, cs), t.pc \notin Working
    PROVE  AllDecent(cs) /\ NoOwn(cs) /\ (t.pc \in Awaits => NoStarts(cs))
BY DEF Served

(* It sends a command of its own.                                          *)
LEMMA OwnSent ==
    ASSUME NEW cs \in Seq(Orders), NEW t \in Tasks, NEW r \in Tasks, NEW op,
           AllDecent(cs), NoOwn(cs), r.pc \in Working, r.pc # "removing",
           op = OwnOp(r), r.id = t.id, r.node = t.node, op \in Ops \ {"removeFailed"},
           op # "listen", op = "replaceFailed" => t.node \in Nodes,
           op = "addDSK" => t.node \in DSKs,
           r.pc \in {"aborting", "finishing", "stopping"} => NoStarts(cs)
    PROVE  LET q == Append(cs, Command(op, "task", t))
           IN  q \in Seq(Orders) /\ Served(r, q)
<1> DEFINE c == Command(op, "task", t)
<1>1. c \in Orders /\ c.op = op /\ c.by = "task" /\ c.for = t.id /\ c.node = t.node
  BY CommandFacts
<1> HIDE DEF c
<1>2. Decent(c)
  BY <1>1 DEF Decent
<1>3. IsOwn(r, c)
  BY <1>1 DEF IsOwn
<1>4. Append(cs, c) \in Seq(Orders) /\ Served(r, Append(cs, c))
  BY <1>1, <1>2, <1>3, OwnAdded
<1> QED
  BY <1>4 DEF c

-----------------------------------------------------------------------------
(* Calls of the application                                                *)

LEMMA NothingNew ==
    ASSUME Base, UNCHANGED <<running, mode, network, nodes, missed>>
    PROVE  RunOK' /\ ModeOK' /\ Linked' /\ Heard'
BY DEF Base, RunOK, RunsOK, HasNode, ModeOK, Linked, Hears, StageOf, Heard, Learns

LEMMA AutoProvisionFacts ==
    ASSUME Base, NEW list, AutoProvision(list)
    PROVE  /\ inclusionState' \in States /\ smartStartEnabled' \in BOOLEAN
           /\ inclusionState' \in {"idle", "smartStart", inclusionState}
           /\ commands' \in Seq(Orders) /\ Served(running, commands')
<1>0. /\ running \in Tasks /\ commands \in Seq(Orders) /\ Served(running, commands)
      /\ inclusionState \in States
  BY DEF Base, Types
<1> DEFINE off == Command("stopListen", "disable", NoTask)
<1>1. Append(commands, off) \in Seq(Orders) /\ Served(running, Append(commands, off))
  <2>1. "stopListen" \in Ops /\ NoTask \in Tasks
    BY NoTaskFacts DEF Ops
  <2>2. off \in Orders /\ off.op = "stopListen" /\ off.by = "disable"
    BY <2>1, CommandFacts
  <2> HIDE DEF off
  <2>3. Decent(off) /\ off.op \notin StartOps
    BY <2>2 DEF Decent, StartOps
  <2> QED
    BY <1>0, <2>2, <2>3, OtherAdded
<1> HIDE DEF off
<1>2. CASE HasPlannedEntries(list)
  <2>1. EnableSmartStart
    BY <1>2 DEF AutoProvision
  <2> QED
    BY <1>0, <2>1, Listens DEF EnableSmartStart, States
<1>3. CASE ~HasPlannedEntries(list)
  <2>1. DisableSmartStart
    BY <1>3 DEF AutoProvision
  <2> QED
    BY <1>0, <1>1, <2>1 DEF DisableSmartStart, States, off
<1> QED
  BY <1>2, <1>3

LEMMA EntryStep ==
    ASSUME Base, NEW d \in DSKs, NEW v \in {None, "active", "inactive"}, SetEntry(d, v), Call,
           UNCHANGED <<known, tasks, mode, network, missed, crossed, made, faults>>
    PROVE  Base'
<1>1. /\ inclusionState' \in States /\ smartStartEnabled' \in BOOLEAN
      /\ inclusionState' \in {"idle", "smartStart", inclusionState}
      /\ commands' \in Seq(Orders) /\ Served(running, commands')
  BY AutoProvisionFacts DEF SetEntry
<1>2. /\ provisioning' \in [DSKs -> {None, "active", "inactive"}]
      /\ failedAttempts' \in [DSKs -> Nat]
  BY DEF SetEntry, Base, Types
<1>3. UNCHANGED <<nodes, withDSK, running, queue>> /\ calls' \in Nat
  BY DEF known, tasks, Call, Base, Types
<1>4. Types'
  BY <1>1, <1>2, <1>3 DEF Base, Types
<1>5. Apart'
  BY <1>1, <1>3 DEF Base, Apart
<1>6. QueueOK'
  BY <1>3 DEF Base, QueueOK
<1> QED
  BY <1>1, <1>3, <1>4, <1>5, <1>6, NothingNew DEF Base

LEMMA ProvisionStep ==
    ASSUME Base, NEW d \in DSKs, Provision(d) \/ Unprovision(d)
    PROVE  Base'
BY EntryStep DEF Provision, Unprovision

(* What is queued.                                                         *)
LEMMA QueueTaskFacts ==
    ASSUME Base, NEW t \in Tasks, QueueTask(t)
    PROVE  queue' \in Seq(Tasks) /\ ToSet(queue') = ToSet(queue) \cup {t} /\ made' \in Nat
<1>1. queue \in Seq(Tasks) /\ made' \in Nat
  BY DEF QueueTask, Base, Types
<1> DEFINE R == Removals(queue)
           a == Only(queue, R)
           b == Only(queue, ToSet(queue) \ R)
<1>2. /\ a \in Seq(Tasks) /\ ToSet(a) = ToSet(queue) \cap R
      /\ b \in Seq(Tasks) /\ ToSet(b) = ToSet(queue) \cap (ToSet(queue) \ R)
  BY <1>1, OnlyFacts
<1>3. R \subseteq ToSet(queue)
  BY DEF Removals
<1>4. queue' = IF t.kind = "remove" THEN a \o <<t>> \o b ELSE Append(queue, t)
  BY DEF QueueTask
<1> HIDE DEF a, b, R
<1>5. ASSUME NEW x \in Seq(Tasks), NEW y \in Seq(Tasks)
      PROVE  x \o y \in Seq(Tasks) /\ ToSet(x \o y) = ToSet(x) \cup ToSet(y)
  <2> DEFINE z == x \o y
  <2>1. /\ z \in Seq(Tasks) /\ Len(z) = Len(x) + Len(y) /\ Len(x) \in Nat /\ Len(y) \in Nat
        /\ \A i \in 1..Len(x) : z[i] = x[i]
        /\ \A i \in 1..Len(y) : z[Len(x) + i] = y[i]
    OBVIOUS
  <2> HIDE DEF z
  <2>2. \A i \in 1..Len(z) : i \in 1..Len(x) \/ (i - Len(x) \in 1..Len(y) /\ z[i] = y[i - Len(x)])
    BY <2>1
  <2>3. /\ \A i \in 1..Len(x) : i \in 1..Len(z)
        /\ \A i \in 1..Len(y) : Len(x) + i \in 1..Len(z)
    BY <2>1
  <2>4. /\ ToSet(z) = {z[i] : i \in 1..Len(z)}
        /\ ToSet(x) = {x[i] : i \in 1..Len(x)} /\ ToSet(y) = {y[i] : i \in 1..Len(y)}
    <3>1. DOMAIN z = 1..Len(z) /\ DOMAIN x = 1..Len(x) /\ DOMAIN y = 1..Len(y)
      BY <2>1
    <3> QED
      BY <3>1 DEF ToSet
  <2>5. ToSet(z) \subseteq ToSet(x) \cup ToSet(y)
    BY <2>1, <2>2, <2>4
  <2>6. ToSet(x) \subseteq ToSet(z)
    BY <2>1, <2>3, <2>4
  <2>7. ToSet(y) \subseteq ToSet(z)
    BY <2>1, <2>3, <2>4
  <2> QED
    BY <2>1, <2>5, <2>6, <2>7 DEF z
<1>6. <<t>> \in Seq(Tasks) /\ ToSet(<<t>>) = {t}
  <2>1. <<t>> \in Seq(Tasks) /\ DOMAIN <<t>> = {1} /\ <<t>>[1] = t
    OBVIOUS
  <2> QED
    BY <2>1 DEF ToSet
<1>7. Append(queue, t) = queue \o <<t>>
  BY <1>1
<1>8. CASE t.kind = "remove"
  <2>1. a \o <<t>> \in Seq(Tasks) /\ ToSet(a \o <<t>>) = ToSet(a) \cup {t}
    BY <1>2, <1>5, <1>6
  <2>2. /\ (a \o <<t>>) \o b \in Seq(Tasks)
        /\ ToSet((a \o <<t>>) \o b) = ToSet(a \o <<t>>) \cup ToSet(b)
    BY <1>2, <1>5, <2>1
  <2>3. ToSet(a) \cup ToSet(b) = ToSet(queue)
    BY <1>2, <1>3
  <2>4. queue' = (a \o <<t>>) \o b
    BY <1>4, <1>8
  <2> QED
    BY <1>1, <2>1, <2>2, <2>3, <2>4
<1>9. CASE t.kind # "remove"
  BY <1>1, <1>4, <1>5, <1>6, <1>7, <1>9
<1> QED
  BY <1>8, <1>9

LEMMA TaskFacts ==
    ASSUME Base, NEW kind \in Kinds, NEW n \in Maybe(Nodes), NEW st \in Maybe(Strategies),
           kind = "smartStart" => n \in DSKs, kind \in {"remove", "replace"} => n \in Nodes
    PROVE  LET t == Task(kind, n, st)
           IN  /\ t \in Tasks /\ Suits(t) /\ t.pc = "queued" /\ t.found = None
               /\ t.id = made + 1 /\ t.kind = kind
BY DEF Task, Tasks, Suits, Base, Types, Maybe, PCs

LEMMA QueuedStep ==
    ASSUME Base, NEW t \in Tasks, Suits(t), t.pc = "queued", t.found = None, QueueTask(t),
           UNCHANGED <<inclusionState, settings, known, running, commands, mode, network,
                       missed, crossed, faults>>, calls' \in Nat
    PROVE  Base'
<1>1. queue' \in Seq(Tasks) /\ ToSet(queue') = ToSet(queue) \cup {t} /\ made' \in Nat
  BY QueueTaskFacts
<1>2. UNCHANGED <<smartStartEnabled, provisioning, failedAttempts, nodes, withDSK>>
  BY DEF settings, known
<1>3. Types' /\ Apart'
  BY <1>1, <1>2 DEF Base, Types, Apart
<1>4. QueueOK'
  BY <1>1 DEF Base, QueueOK
<1> QED
  BY <1>2, <1>3, <1>4, NothingNew DEF Base

LEMMA BeginsStep ==
    ASSUME Base, NEW kind \in Kinds, NEW n \in Maybe(Nodes), NEW st \in Maybe(Strategies),
           kind = "smartStart" => n \in DSKs, kind \in {"remove", "replace"} => n \in Nodes,
           Begins(Task(kind, n, st)), calls' \in Nat
    PROVE  Base'
BY TaskFacts, QueuedStep DEF Begins

LEMMA TaskQueued ==
    ASSUME Base,
           \/ BeginInclusion \/ BeginExclusion
           \/ \E n \in Nodes : ReplaceFailedNode(n) \/ RemoveFailedNode(n)
           \/ \E d \in DSKs : SmartStartRequest(d)
    PROVE  Base'
<1>0. calls \in Nat /\ nodes \subseteq Nodes /\ DSKs \subseteq Nodes /\ None \in Maybe(Nodes)
      /\ None \in Maybe(Strategies) /\ Nodes \subseteq Maybe(Nodes)
      /\ Strategies \subseteq Maybe(Strategies)
  BY NodesAssumption DEF Base, Types, Maybe
<1>1. CASE BeginInclusion
  BY <1>0, <1>1, BeginsStep DEF BeginInclusion, Call, Kinds
<1>2. CASE BeginExclusion
  BY <1>0, <1>2, BeginsStep DEF BeginExclusion, Call, Kinds
<1>3. ASSUME NEW n \in Nodes, ReplaceFailedNode(n) PROVE Base'
  BY <1>0, <1>3, BeginsStep DEF ReplaceFailedNode, Call, Kinds
<1>4. ASSUME NEW n \in Nodes, RemoveFailedNode(n) PROVE Base'
  <2> DEFINE t == Task("remove", n, None)
  <2>1. t \in Tasks /\ Suits(t) /\ t.pc = "queued" /\ t.found = None
    BY <1>0, TaskFacts DEF Kinds
  <2>2. /\ QueueTask(t) /\ calls' \in Nat
        /\ UNCHANGED <<inclusionState, settings, known, running, commands, mode, network,
                       missed, crossed, faults>>
    BY <1>0, <1>4 DEF RemoveFailedNode, Call
  <2> HIDE DEF t
  <2> QED
    BY <2>1, <2>2, QueuedStep
<1>5. ASSUME NEW d \in DSKs, SmartStartRequest(d) PROVE Base'
  BY <1>0, <1>5, BeginsStep DEF SmartStartRequest, Kinds
<1> QED
  BY <1>1, <1>2, <1>3, <1>4, <1>5

(* A stop is sent: the state says that there is something to stop.         *)
LEMMA StopSent ==
    ASSUME Base, StopInclusion \/ StopExclusion
    PROVE  Base'
<1>0. /\ running \in Tasks /\ commands \in Seq(Orders) /\ Served(running, commands)
      /\ running.pc # "removing"
  BY DEF StopInclusion, StopExclusion, Base, Types, Apart
<1>1. PICK op \in {"stopAdd", "stopRemove"} :
        commands' = Append(commands, Command(op, "caller", running))
  BY DEF StopInclusion, StopExclusion
<1> DEFINE c == Command(op, "caller", running)
<1>2. c \in Orders /\ c.op = op /\ c.by = "caller"
  <2>1. op \in Ops
    BY DEF Ops
  <2> QED
    BY <1>0, <2>1, CommandFacts
<1> HIDE DEF c
<1>3. Decent(c) /\ c.op \notin StartOps
  BY <1>2 DEF Decent, StartOps
<1>4. commands' \in Seq(Orders) /\ Served(running, commands')
  <2>1. Append(commands, c) \in Seq(Orders) /\ Served(running, Append(commands, c))
    BY <1>0, <1>2, <1>3, OtherAdded
  <2> QED
    BY <1>1, <2>1 DEF c
<1>5. /\ UNCHANGED <<inclusionState, settings, known, tasks, mode, network, missed, crossed,
                     made, faults>>
      /\ calls' \in Nat
  BY DEF StopInclusion, StopExclusion, Call, Base, Types
<1>6. UNCHANGED <<smartStartEnabled, provisioning, failedAttempts, nodes, withDSK, running, queue>>
  BY <1>5 DEF settings, known, tasks
<1>7. Types' /\ Apart' /\ QueueOK'
  BY <1>4, <1>5, <1>6 DEF Base, Types, Apart, QueueOK
<1> QED
  BY <1>4, <1>5, <1>6, <1>7, NothingNew DEF Base

-----------------------------------------------------------------------------
(* Reports of the controller                                               *)

(* What the driver has after it handled a report or an answer.             *)
Sound ==
    /\ inclusionState' \in States /\ running' \in Tasks /\ commands' \in Seq(Orders)
    /\ RunOK' /\ Served(running', commands') /\ Apart'
    /\ nodes' \subseteq Nodes /\ withDSK' \subseteq nodes' \cap DSKs

LEMMA BaseFacts ==
    ASSUME Base
    PROVE  /\ inclusionState \in States /\ running \in Tasks /\ commands \in Seq(Orders)
           /\ smartStartEnabled \in BOOLEAN /\ mode \in Modes
           /\ nodes \subseteq Nodes /\ withDSK \subseteq nodes \cap DSKs
           /\ network \subseteq Nodes /\ missed \subseteq Nodes
           /\ RunsOK(running) /\ (HasNode(running) => running.found \in nodes)
           /\ Served(running, commands)
           /\ running.pc \notin Working => AllDecent(commands) /\ NoOwn(commands)
           /\ running.pc \in Awaits => AllDecent(commands) /\ NoOwn(commands) /\ NoStarts(commands)
<1>1. Types /\ RunOK /\ Served(running, commands)
  BY DEF Base
<1>2. running.pc \in Awaits => running.pc \notin Working
  BY DEF Awaits, Working
<1> QED
  BY <1>1, <1>2 DEF Types, RunOK, Served

LEMMA HeardFacts ==
    ASSUME Base, IsHeard
    PROVE  /\ running # NoTask /\ Suits(running) /\ running.pc \in Awaits
           /\ running.pc \in PCsOf(running.kind) /\ Hears(mode.k)
           /\ running.kind \in Adds \cup {"exclude", "replace"}
           /\ running.pc \notin Working /\ ~HasNode(running) /\ ~Learns(running)
           /\ mode.stage = StageOf(running)
           /\ mode.stage = "node" => running.found = mode.node
           /\ running.kind = "smartStart" => mode.node = running.node
           /\ running.kind = "replace" => mode.node = running.node /\ mode.node \in network
           /\ (nodes \ network) \cup (network \ nodes) \subseteq missed
<1>1. running.pc \in Awaits /\ Hears(mode.k)
  BY DEF IsHeard, Hears
<1>2. running # NoTask
  BY <1>1, NoTaskFacts
<1>3. Suits(running) /\ running.pc \in PCsOf(running.kind)
  BY <1>2 DEF Base, RunOK, RunsOK
<1>4. running.pc \notin Working /\ ~HasNode(running) /\ ~Learns(running)
  BY <1>1 DEF Working, HasNode, Learns, Awaits
<1>5. running.kind \in Adds \cup {"exclude", "replace"}
  BY <1>1 DEF Hears
<1>6. Linked /\ Heard
  BY DEF Base
<1> QED
  BY <1>1, <1>2, <1>3, <1>4, <1>5, <1>6 DEF Linked, Heard

(* A task of one of the kinds that wait for reports, at pc.                *)
LEMMA Reached ==
    ASSUME NEW t \in Tasks, Suits(t), t.pc \in PCsOf(t.kind), t.pc # "finishing"
    PROVE  RunsOK(t)
BY DEF RunsOK

(* The commands that end an inclusion or exclusion.                        *)
LEMMA ClosingSent ==
    ASSUME NEW cs \in Seq(Orders), NEW t \in Tasks, NEW r \in Tasks, NEW op \in Ops,
           AllDecent(cs), NoOwn(cs), NoStarts(cs), r.id = t.id, r.node = t.node,
           r.pc \in {"aborting", "finishing", "stopping"}, op = OwnOp(r)
    PROVE  LET q == Append(cs, Command(op, "task", t))
           IN  q \in Seq(Orders) /\ Served(r, q)
<1>1. op \in {"stopAdd", "stopRemove", "finish", "stopNoCallback"}
  BY DEF OwnOp
<1>2. /\ r.pc \in Working /\ r.pc # "removing" /\ op # "removeFailed" /\ op # "listen"
      /\ op # "replaceFailed" /\ op # "addDSK"
  BY <1>1 DEF Working
<1> QED
  BY <1>1, <1>2, OwnSent

LEMMA EndsSound ==
    ASSUME Base, NEW cs \in Seq(Orders), AllDecent(cs), NoOwn(cs),
           running' = NoTask, inclusionState' \in States,
           commands' = cs, UNCHANGED <<nodes, withDSK>>
    PROVE  Sound
<1>1. Served(NoTask, cs)
  BY NoTaskFacts, ServedFree
<1>2. Apart'
  BY NoTaskFacts DEF Apart
<1>3. RunOK'
  BY NoTaskFacts DEF RunOK
<1> QED
  BY <1>1, <1>2, <1>3, NoTaskFacts, BaseFacts DEF Sound

(* The task is over, and the state is idle again.                          *)
LEMMA FinishesSound ==
    ASSUME NEW cs \in Seq(Orders), AllDecent(cs), NoOwn(cs), NEW e,
           running' = NoTask, Enters("idle", cs, e),
           nodes' \subseteq Nodes, withDSK' \subseteq nodes' \cap DSKs
    PROVE  Sound
<1>1. Served(NoTask, cs)
  BY NoTaskFacts, ServedFree
<1>2. inclusionState' \in States /\ commands' \in Seq(Orders) /\ Served(NoTask, commands')
  <2>1. "idle" \in States /\ NoTask \in Tasks
    BY NoTaskFacts DEF States
  <2> QED
    BY <1>1, <2>1, EntersFacts
<1>3. Apart'
  BY NoTaskFacts DEF Apart
<1>4. RunOK'
  BY NoTaskFacts DEF RunOK
<1> QED
  BY <1>2, <1>3, <1>4, NoTaskFacts DEF Sound

(* The task goes on to r, and the commands are known.                      *)
LEMMA GoesSound ==
    ASSUME Base, NEW r \in Tasks, running' = r, RunsOK(r), ~HasNode(r),
           r.pc \notin {"pinging", "removing"}, inclusionState' \in States,
           commands' \in Seq(Orders), Served(r, commands'), UNCHANGED <<nodes, withDSK>>
    PROVE  Sound
<1>1. RunOK' /\ Apart'
  BY DEF RunOK, Apart
<1> QED
  BY <1>1, BaseFacts DEF Sound

LEMMA AbortsSound ==
    ASSUME Base, IsHeard, running.kind # "replace", Aborts, UNCHANGED known
    PROVE  Sound /\ running'.pc \notin Awaits /\ ~Learns(running')
<1>0. UNCHANGED <<nodes, withDSK>> /\ UNCHANGED inclusionState
  BY DEF known, Aborts
<1> DEFINE r == [running EXCEPT !.pc = "aborting"]
           op == IF running.kind = "exclude" THEN "stopRemove" ELSE "stopAdd"
<1>1. CASE Ends /\ UNCHANGED commands
  <2>1. Sound
    BY <1>0, <1>1, BaseFacts, HeardFacts, EndsSound DEF Ends
  <2> QED
    BY <1>1, <2>1, NoTaskFacts DEF Ends
<1>2. CASE Sends(op, "aborting")
  <2>1. running' = r /\ commands' = Append(commands, Command(op, "task", running))
    BY <1>2 DEF Sends, Goes
  <2>2. /\ r \in Tasks /\ r.pc = "aborting" /\ r.id = running.id /\ r.kind = running.kind
        /\ r.node = running.node /\ Suits(r)
    <3>1. "aborting" \in PCs
      BY DEF PCs
    <3> QED
      BY <3>1, GoesFacts, BaseFacts, HeardFacts
  <2>3. op = OwnOp(r) /\ op \in Ops
    BY <2>2 DEF OwnOp, Ops
  <2> HIDE DEF r, op
  <2>4. commands' \in Seq(Orders) /\ Served(r, commands')
    BY <2>1, <2>2, <2>3, ClosingSent, BaseFacts, HeardFacts
  <2>5. r.pc \in PCsOf(r.kind)
    BY <2>2, HeardFacts DEF PCsOf, Joins, Adds
  <2>6. RunsOK(r) /\ ~HasNode(r) /\ ~Learns(r) /\ r.pc \notin Awaits
    BY <2>2, <2>5, Reached DEF HasNode, Learns, Awaits
  <2>7. Sound
    BY <1>0, <2>1, <2>2, <2>4, <2>6, GoesSound, BaseFacts
  <2> QED
    BY <2>1, <2>6, <2>7
<1> QED
  BY <1>1, <1>2 DEF Aborts

LEMMA FailedSound ==
    ASSUME Base, IsHeard, NEW st \in {"failed", "unexpected"}, NEW n, Handles(st, n)
    PROVE  Sound /\ running'.pc \notin Awaits /\ ~Learns(running') /\ UNCHANGED nodes
<1>1. CASE running.kind = "replace"
  <2>1. /\ running' = NoTask /\ UNCHANGED <<nodes, withDSK>>
        /\ \/ Enters("idle", commands, smartStartEnabled)
           \/ UNCHANGED <<inclusionState, commands>>
    BY <1>1 DEF Handles, Ends, SetInclusionState, known
  <2>2. Sound
    <3>1. CASE Enters("idle", commands, smartStartEnabled)
      <4>1. nodes' \subseteq Nodes /\ withDSK' \subseteq nodes' \cap DSKs
        BY <2>1, BaseFacts
      <4> QED
        BY <2>1, <3>1, <4>1, BaseFacts, HeardFacts, FinishesSound
    <3>2. CASE UNCHANGED <<inclusionState, commands>>
      BY <2>1, <3>2, BaseFacts, HeardFacts, EndsSound
    <3> QED
      BY <2>1, <3>1, <3>2
  <2> QED
    BY <2>1, <2>2, NoTaskFacts
<1>2. CASE running.kind # "replace"
  <2>1. Aborts /\ UNCHANGED known
    BY <1>2 DEF Handles
  <2> QED
    BY <1>2, <2>1, AbortsSound DEF known
<1> QED
  BY <1>1, <1>2

(* The task waits for the next report.                                     *)
LEMMA WaitsSound ==
    ASSUME Base, IsHeard, NEW r \in Tasks, running' = r, Suits(r), r.pc \in Awaits,
           r.pc \in PCsOf(r.kind), inclusionState' \in States, UNCHANGED commands,
           UNCHANGED <<nodes, withDSK>>
    PROVE  Sound
<1>1. r.pc \notin Working /\ r.pc # "finishing" /\ ~HasNode(r) /\ r.pc \notin {"pinging", "removing"}
  BY DEF Awaits, Working, HasNode
<1>2. Served(r, commands)
  BY <1>1, BaseFacts, HeardFacts, ServedFree
<1> QED
  BY <1>1, <1>2, BaseFacts, Reached, GoesSound

LEMMA FoundSound ==
    ASSUME Base, IsHeard, mode.k \in {"add", "remove"}, Handles("found", None)
    PROVE  /\ Sound /\ UNCHANGED nodes
           /\ running' = [running EXCEPT !.pc = "awaitsNode"]
<1> DEFINE r == [running EXCEPT !.pc = "awaitsNode"]
<1>1. running' = r /\ UNCHANGED <<inclusionState, commands, nodes, withDSK>>
  BY DEF Handles, Goes, known
<1>2. /\ r \in Tasks /\ r.pc = "awaitsNode" /\ r.kind = running.kind /\ Suits(r)
  <2>1. "awaitsNode" \in PCs
    BY DEF PCs, Awaits
  <2> QED
    BY <2>1, GoesFacts, BaseFacts, HeardFacts
<1> HIDE DEF r
<1>3. r.pc \in Awaits /\ r.pc \in PCsOf(r.kind)
  BY <1>2, HeardFacts DEF Awaits, PCsOf, Joins, Adds, Hears
<1>4. Sound
  BY <1>1, <1>2, <1>3, BaseFacts, WaitsSound
<1> QED
  BY <1>1, <1>4 DEF r

LEMMA NodeSound ==
    ASSUME Base, IsHeard, mode.k \in {"add", "remove"}, NEW n \in Nodes, Handles("node", n),
           running.kind = "smartStart" => n = running.node
    PROVE  /\ Sound /\ UNCHANGED nodes
           /\ running' = [running EXCEPT !.pc = "awaitsDone", !.found = n]
<1> DEFINE r == [running EXCEPT !.pc = "awaitsDone", !.found = n]
<1>1. running' = r /\ UNCHANGED <<inclusionState, commands, nodes, withDSK>>
  BY DEF Handles, known
<1>2. /\ r \in Tasks /\ r.pc = "awaitsDone" /\ r.kind = running.kind /\ Suits(r)
  <2>1. "awaitsDone" \in PCs /\ n \in Maybe(Nodes)
    BY DEF PCs, Awaits, Maybe
  <2>2. running.kind = "smartStart" => n \in Maybe({running.node})
    BY DEF Maybe
  <2>3. running \in Tasks /\ Suits(running)
    BY BaseFacts, HeardFacts
  <2> QED
    BY <2>1, <2>2, <2>3 DEF Tasks, Suits, Maybe
<1> HIDE DEF r
<1>3. r.pc \in Awaits /\ r.pc \in PCsOf(r.kind)
  BY <1>2, HeardFacts DEF Awaits, PCsOf, Joins, Adds, Hears
<1>4. Sound
  BY <1>1, <1>2, <1>3, BaseFacts, WaitsSound
<1> QED
  BY <1>1, <1>4 DEF r

LEMMA MayReplaceSound ==
    ASSUME Base, IsHeard, mode.k = "replace", Handles("replace", None)
    PROVE  /\ Sound /\ UNCHANGED nodes
           /\ running' = [running EXCEPT !.pc = "awaitsDone"]
<1> DEFINE r == [running EXCEPT !.pc = "awaitsDone"]
<1>1. running' = r /\ Enters("including", commands, smartStartEnabled)
      /\ UNCHANGED <<nodes, withDSK>>
  BY DEF Handles, Goes, known, SetInclusionState
<1>2. inclusionState' = "including" /\ UNCHANGED commands
  BY <1>1 DEF Enters
<1>3. /\ r \in Tasks /\ r.pc = "awaitsDone" /\ r.kind = running.kind /\ Suits(r)
  <2>1. "awaitsDone" \in PCs
    BY DEF PCs, Awaits
  <2> QED
    BY <2>1, GoesFacts, BaseFacts, HeardFacts
<1> HIDE DEF r
<1>4. r.pc \in Awaits /\ r.pc \in PCsOf(r.kind)
  BY <1>3, HeardFacts DEF Awaits, PCsOf, Joins, Adds, Hears
<1>5. Sound
  BY <1>1, <1>2, <1>3, <1>4, BaseFacts, WaitsSound DEF States
<1> QED
  BY <1>1, <1>5 DEF r

(* The last report of the controller: the task sends a command.            *)
LEMMA DoneSound ==
    ASSUME Base, IsHeard, mode.k \in {"add", "remove"}, mode.stage = "node", NEW n,
           Handles("done", n)
    PROVE  /\ Sound /\ UNCHANGED nodes /\ Learns(running') /\ running'.kind = running.kind
           /\ running'.found = running.found /\ running'.pc \notin Awaits
<1> DEFINE pc == IF running.kind = "exclude" THEN "stopping" ELSE "finishing"
           op == IF running.kind = "exclude" THEN "stopNoCallback" ELSE "finish"
           r == [running EXCEPT !.pc = pc]
<1>1. running.kind \in Adds \/ running.kind = "exclude"
  BY HeardFacts DEF Hears
<1>2. /\ running' = r /\ commands' = Append(commands, Command(op, "task", running))
      /\ UNCHANGED <<inclusionState, nodes, withDSK>>
  BY <1>1 DEF Handles, Sends, Goes, known, Adds
<1>3. /\ r \in Tasks /\ r.pc = pc /\ r.id = running.id /\ r.kind = running.kind
      /\ r.node = running.node /\ r.found = running.found /\ Suits(r)
  <2>1. pc \in PCs
    BY DEF PCs
  <2> HIDE DEF pc
  <2> QED
    BY <2>1, GoesFacts, BaseFacts, HeardFacts
<1>4. op = OwnOp(r) /\ op \in Ops /\ r.pc \in {"aborting", "finishing", "stopping"}
  BY <1>3 DEF OwnOp, Ops
<1>5. r.pc \in PCsOf(r.kind)
  BY <1>1, <1>3 DEF PCsOf, Joins, Adds
<1>6. r.pc \in {"finishing", "stopping"}
  BY <1>3
<1> HIDE DEF r, op, pc
<1>7. commands' \in Seq(Orders) /\ Served(r, commands')
  BY <1>2, <1>3, <1>4, ClosingSent, BaseFacts, HeardFacts
<1>8. r.found \in Nodes
  BY <1>3, HeardFacts DEF Base, ModeOK
<1>9. RunsOK(r) /\ ~HasNode(r) /\ Learns(r) /\ r.pc \notin Awaits
      /\ r.pc \notin {"pinging", "removing"}
  BY <1>3, <1>5, <1>6, <1>8 DEF RunsOK, HasNode, Learns, Awaits
<1>10. Sound
  BY <1>2, <1>3, <1>7, <1>9, GoesSound, BaseFacts
<1> QED
  BY <1>2, <1>3, <1>9, <1>10

LEMMA ReservedSound ==
    ASSUME Base, IsHeard, mode.k = "remove", Handles("reserved", None)
    PROVE  /\ Sound /\ UNCHANGED nodes /\ running'.found \notin Nodes
           /\ running'.pc \notin Awaits
<1> DEFINE r == [running EXCEPT !.pc = "stopping", !.found = None]
<1>1. running.kind = "exclude"
  BY HeardFacts DEF Hears
<1>2. /\ running' = r /\ commands' = Append(commands, Command("stopNoCallback", "task", running))
      /\ UNCHANGED <<inclusionState, nodes, withDSK>>
  BY DEF Handles, known
<1>3. /\ r \in Tasks /\ r.pc = "stopping" /\ r.id = running.id /\ r.kind = running.kind
      /\ r.node = running.node /\ r.found = None /\ Suits(r)
  <2>1. "stopping" \in PCs /\ None \in Maybe(Nodes)
    BY DEF PCs, Maybe
  <2>2. running \in Tasks /\ Suits(running)
    BY BaseFacts, HeardFacts
  <2>3. running.kind = "smartStart" => None \in Maybe({running.node})
    BY DEF Maybe
  <2> QED
    BY <2>1, <2>2, <2>3 DEF Tasks, Suits, Maybe
<1> HIDE DEF r
<1>4. "stopNoCallback" = OwnOp(r) /\ "stopNoCallback" \in Ops
  BY <1>3 DEF OwnOp, Ops
<1>5. r.pc \in PCsOf(r.kind)
  BY <1>1, <1>3 DEF PCsOf, Joins
<1>6. commands' \in Seq(Orders) /\ Served(r, commands')
  BY <1>2, <1>3, <1>4, ClosingSent, BaseFacts, HeardFacts
<1>7. RunsOK(r) /\ ~HasNode(r) /\ r.pc \notin Awaits /\ r.pc \notin {"pinging", "removing"}
  BY <1>3, <1>5 DEF RunsOK, HasNode, Awaits
<1>8. Sound
  BY <1>2, <1>3, <1>6, <1>7, GoesSound, BaseFacts
<1> QED
  BY <1>2, <1>3, <1>7, <1>8, NodesAssumption

LEMMA ReplacedSound ==
    ASSUME Base, IsHeard, mode.k = "replace", NEW n, Handles("done", n)
    PROVE  /\ Sound /\ nodes' = nodes \cup {running.node} /\ ~Learns(running')
           /\ running'.pc \notin Awaits
<1> DEFINE r == [running EXCEPT !.pc = "bootstraps", !.found = running.node]
<1>1. running.kind = "replace"
  BY HeardFacts DEF Hears
<1>2. ReplaceNode
  BY <1>1 DEF Handles, Adds
<1>3. /\ running' = r /\ nodes' = nodes \cup {running.node}
      /\ withDSK' = withDSK \ {running.node} /\ Enters("busy", commands, smartStartEnabled)
  BY <1>2 DEF ReplaceNode, SetInclusionState
<1>4. inclusionState' = "busy" /\ commands' = commands
  BY <1>3 DEF Enters
<1>5. running.node \in Nodes
  BY <1>1, HeardFacts DEF Suits
<1>6. /\ r \in Tasks /\ r.pc = "bootstraps" /\ r.kind = running.kind
      /\ r.found = running.node /\ Suits(r)
  <2>1. "bootstraps" \in PCs /\ running.node \in Maybe(Nodes)
    BY <1>5 DEF PCs, Maybe
  <2>2. running \in Tasks /\ Suits(running)
    BY BaseFacts, HeardFacts
  <2>3. running.kind = "smartStart" => running.node \in Maybe({running.node})
    BY DEF Maybe
  <2> QED
    BY <2>1, <2>2, <2>3 DEF Tasks, Suits, Maybe
<1> HIDE DEF r
<1>7. /\ r.pc \notin Working /\ r.pc \notin Awaits /\ r.pc \notin {"pinging", "removing"}
      /\ ~Learns(r)
  BY <1>6 DEF Working, Awaits, Learns
<1>8. Served(r, commands)
  BY <1>6, <1>7, BaseFacts, HeardFacts, ServedFree
<1>9. r.pc \in PCsOf(r.kind)
  BY <1>1, <1>6 DEF PCsOf
<1>10. RunsOK(r)
  BY <1>6, <1>9 DEF RunsOK
<1>11. RunOK' /\ Apart'
  BY <1>3, <1>6, <1>7, <1>10 DEF RunOK, Apart
<1>12. nodes' \subseteq Nodes /\ withDSK' \subseteq nodes' \cap DSKs
  BY <1>3, <1>5, BaseFacts
<1>13. Sound
  BY <1>3, <1>4, <1>6, <1>8, <1>11, <1>12, BaseFacts DEF Sound, States
<1> QED
  BY <1>3, <1>7, <1>13

LEMMA NotHeard ==
    ASSUME Base, ~IsHeard, NEW st, NEW n, Reports(st, n)
    PROVE  Sound /\ UNCHANGED <<running, nodes>>
<1>1. UNCHANGED <<inclusionState, commands, running, nodes, withDSK>>
  BY DEF Reports, known
<1>2. RunOK' /\ Apart'
  BY <1>1 DEF Base, RunOK, RunsOK, HasNode, Apart
<1> QED
  BY <1>1, <1>2, BaseFacts DEF Sound


(* The rest of the state.                                                  *)
Others ==
    /\ smartStartEnabled \in BOOLEAN /\ crossed \in BOOLEAN
    /\ provisioning \in [DSKs -> {None, "active", "inactive"}]
    /\ failedAttempts \in [DSKs -> Nat]
    /\ network \subseteq Nodes /\ missed \subseteq Nodes /\ mode \in Modes
    /\ queue \in Seq(Tasks) /\ QueueOK
    /\ made \in Nat /\ calls \in Nat /\ faults \in Nat

LEMMA Closed ==
    ASSUME Sound, Others', ModeOK', Linked', Heard'
    PROVE  Base'
BY DEF Sound, Others, Base, Types

LEMMA OthersKept ==
    ASSUME Base, UNCHANGED <<settings, queue, crossed, made, calls>>, faults' \in Nat,
           mode' \in Modes, network' \subseteq Nodes, missed' \subseteq Nodes
    PROVE  Others'
BY DEF Base, Types, Others, QueueOK, settings

LEMMA ReportsFacts ==
    ASSUME Base, NEW st, NEW n, Reports(st, n)
    PROVE  /\ UNCHANGED <<settings, queue, crossed, made, calls>>
           /\ IsHeard => Handles(st, n)
           /\ ~IsHeard => Sound /\ UNCHANGED <<running, nodes>>
           /\ ~IsHeard => running.pc \notin Awaits \/ ~Hears(mode.k)
           /\ faults \in Nat /\ (faults' = faults + 1 => faults' \in Nat)
<1>1. ~IsHeard => Sound /\ UNCHANGED <<running, nodes>>
  BY NotHeard
<1>2. ~IsHeard => running.pc \notin Awaits \/ ~Hears(mode.k)
  BY DEF IsHeard, Hears
<1>3. faults \in Nat
  BY DEF Base, Types
<1> QED
  BY <1>1, <1>2, <1>3 DEF Reports

(* A report that nobody waits for.                                         *)
LEMMA Unheeded ==
    ASSUME Base, running.pc \notin Awaits \/ ~Hears(mode.k), mode'.k \in {mode.k, "off"},
           UNCHANGED running
    PROVE  Linked'
BY DEF Linked, Hears

LEMMA HeardKept ==
    ASSUME Base, UNCHANGED <<running, nodes, network, missed>>
    PROVE  Heard'
BY DEF Base, Heard, Learns

(* The nodes are those of the controller, as far as it was heard.          *)
LEMMA HeardAll ==
    ASSUME (nodes \ network) \cup (network \ nodes) \subseteq missed,
           UNCHANGED <<nodes, network, missed>>, ~Learns(running') \/ running'.found \notin Nodes
    PROVE  Heard'
BY DEF Heard

(* What the controller does goes on to another stage.                      *)
LEMMA ModeFacts ==
    ASSUME Base, NEW s \in {"ready", "found", "node", "done", "asked"}, NEW n \in Maybe(Nodes)
    PROVE  /\ [mode EXCEPT !.stage = s] \in Modes
           /\ [mode EXCEPT !.stage = s].stage = s
           /\ [mode EXCEPT !.stage = s].k = mode.k
           /\ [mode EXCEPT !.stage = s].node = mode.node
           /\ [mode EXCEPT !.stage = s, !.node = n] \in Modes
           /\ [mode EXCEPT !.stage = s, !.node = n].stage = s
           /\ [mode EXCEPT !.stage = s, !.node = n].k = mode.k
           /\ [mode EXCEPT !.stage = s, !.node = n].node = n
           /\ Off \in Modes /\ Off.k = "off" /\ Off.stage = "ready" /\ Off.node = None
<1>1. mode \in Modes
  BY DEF Base, Types
<1>2. Off \in Modes /\ Off.k = "off" /\ Off.stage = "ready" /\ Off.node = None
  BY DEF Off, Modes, Maybe
<1> QED
  BY <1>1, <1>2 DEF Modes

LEMMA NodeFoundStep ==
    ASSUME Base, NodeFound
    PROVE  Base'
<1>1. /\ mode.k \in {"add", "remove"} /\ mode' = [mode EXCEPT !.stage = "found"]
      /\ Reports("found", None) /\ UNCHANGED <<network, missed, faults>>
  BY DEF NodeFound
<1>2. mode' \in Modes /\ mode'.stage = "found" /\ mode'.k = mode.k /\ mode'.node = mode.node
  BY <1>1, ModeFacts DEF Maybe
<1>3. Others' /\ ModeOK'
  BY <1>1, <1>2, ReportsFacts, BaseFacts, OthersKept DEF ModeOK
<1>4. Sound /\ Linked' /\ Heard'
  <2>1. CASE IsHeard
    <3>1. /\ Sound /\ UNCHANGED nodes /\ running' = [running EXCEPT !.pc = "awaitsNode"]
      BY <1>1, <2>1, ReportsFacts, FoundSound
    <3>2. /\ running'.pc = "awaitsNode" /\ running'.kind = running.kind
          /\ running'.node = running.node
      BY <3>1, BaseFacts DEF Tasks
    <3>3. ~Learns(running')
      BY <3>2 DEF Learns
    <3>4. Heard'
      BY <1>1, <2>1, <3>1, <3>3, HeardFacts, HeardAll
    <3>5. running.kind # "replace" /\ (running.kind = "smartStart" => mode.node = running.node)
      BY <1>1, <2>1, HeardFacts DEF Hears, Adds
    <3>6. Linked'
      BY <1>2, <3>2, <3>5 DEF Linked, StageOf
    <3> QED
      BY <3>1, <3>4, <3>6
  <2>2. CASE ~IsHeard
    BY <1>1, <1>2, <2>2, ReportsFacts, Unheeded, HeardKept
  <2> QED
    BY <2>1, <2>2
<1> QED
  BY <1>3, <1>4, Closed

LEMMA NodeIsNamedStep ==
    ASSUME Base, NEW n \in Nodes, NodeIsNamed(n)
    PROVE  Base'
<1>1. /\ mode.stage = "found" /\ mode' = [mode EXCEPT !.stage = "node", !.node = n]
      /\ (mode.k = "add" /\ mode.node \in {None, n}) \/ mode.k = "remove"
      /\ Reports("node", n) /\ UNCHANGED <<network, missed, faults>>
  BY DEF NodeIsNamed
<1>2. mode' \in Modes /\ mode'.stage = "node" /\ mode'.k = mode.k /\ mode'.node = n
  <2>1. n \in Maybe(Nodes)
    BY DEF Maybe
  <2> QED
    BY <1>1, <2>1, ModeFacts
<1>3. Others' /\ ModeOK'
  BY <1>1, <1>2, ReportsFacts, BaseFacts, OthersKept DEF ModeOK
<1>4. Sound /\ Linked' /\ Heard'
  <2>1. CASE IsHeard
    <3>1. running.kind # "replace" /\ mode.k \in {"add", "remove"}
      BY <1>1, <2>1, HeardFacts DEF Hears, Adds
    <3>2. running.kind = "smartStart" => n = running.node
      <4>1. running.kind = "smartStart" =>
              mode.k = "add" /\ mode.node = running.node /\ running.node \in Nodes
        BY <2>1, HeardFacts, NodesAssumption DEF Hears, Suits
      <4> QED
        BY <1>1, <4>1, NodesAssumption
    <3>3. /\ Sound /\ UNCHANGED nodes
          /\ running' = [running EXCEPT !.pc = "awaitsDone", !.found = n]
      BY <1>1, <2>1, <3>1, <3>2, ReportsFacts, NodeSound
    <3>4. /\ running'.pc = "awaitsDone" /\ running'.kind = running.kind
          /\ running'.node = running.node /\ running'.found = n
      BY <3>3, BaseFacts DEF Tasks
    <3>5. ~Learns(running')
      BY <3>4 DEF Learns
    <3>6. Heard'
      BY <1>1, <2>1, <3>3, <3>5, HeardFacts, HeardAll
    <3>7. Linked'
      BY <1>2, <3>1, <3>2, <3>4 DEF Linked, StageOf
    <3> QED
      BY <3>3, <3>6, <3>7
  <2>2. CASE ~IsHeard
    BY <1>1, <1>2, <2>2, ReportsFacts, Unheeded, HeardKept
  <2> QED
    BY <2>1, <2>2
<1> QED
  BY <1>3, <1>4, Closed

LEMMA ProtocolDoneStep ==
    ASSUME Base, ProtocolDone
    PROVE  Base'
<1>1. /\ mode.stage = "node" /\ mode.k \in {"add", "remove"}
      /\ mode' = [mode EXCEPT !.stage = "done"]
      /\ network' = IF mode.k = "add" THEN network \cup {mode.node} ELSE network \ {mode.node}
      /\ missed' = IF IsHeard /\ running.found = mode.node THEN missed
                   ELSE missed \cup {mode.node}
      /\ Reports("done", mode.node) /\ UNCHANGED faults
  BY DEF ProtocolDone
<1>2. mode' \in Modes /\ mode'.stage = "done" /\ mode'.k = mode.k /\ mode'.node = mode.node
  BY <1>1, ModeFacts DEF Maybe
<1>3. mode.node \in Nodes
  BY <1>1 DEF Base, ModeOK
<1>4. network' \subseteq Nodes /\ missed' \subseteq Nodes
  BY <1>1, <1>3, BaseFacts
<1>5. Others' /\ ModeOK'
  BY <1>1, <1>2, <1>4, ReportsFacts, OthersKept DEF ModeOK
<1>6. Sound /\ Linked' /\ Heard'
  <2>1. CASE IsHeard
    <3>1. /\ Sound /\ UNCHANGED nodes /\ Learns(running') /\ running'.kind = running.kind
          /\ running'.found = running.found /\ running'.pc \notin Awaits
      BY <1>1, <2>1, ReportsFacts, DoneSound
    <3>2. Linked'
      BY <3>1 DEF Linked
    <3>3. running.found = mode.node /\ UNCHANGED missed
      BY <1>1, <2>1, HeardFacts
    <3>4. \/ running.kind \in Adds /\ mode.k = "add"
          \/ running.kind = "exclude" /\ mode.k = "remove"
      BY <1>1, <2>1, HeardFacts DEF Hears
    <3>5. (nodes \ network) \cup (network \ nodes) \subseteq missed
      BY <2>1, HeardFacts
    <3>6. \A n \in (nodes' \ network') \cup (network' \ nodes') :
             n \in missed' \/ (n = running'.found /\ Learns(running'))
      BY <1>1, <3>1, <3>3, <3>5
    <3>7. \/ running'.kind \in Adds /\ running'.found \in network'
          \/ running'.kind = "exclude" /\ running'.found \notin network'
      BY <1>1, <3>1, <3>3, <3>4
    <3> QED
      BY <3>1, <3>2, <3>6, <3>7 DEF Heard
  <2>2. CASE ~IsHeard
    <3>1. Sound /\ UNCHANGED <<running, nodes>> /\ missed' = missed \cup {mode.node}
      BY <1>1, <2>2, ReportsFacts
    <3>2. Linked'
      BY <1>1, <1>2, <2>2, <3>1, ReportsFacts, Unheeded
    <3>3. \A n \in Nodes : n # mode.node => (n \in network' <=> n \in network)
      BY <1>1
    <3>4. Heard
      BY DEF Base
    <3>5. Heard'
      BY <1>3, <3>1, <3>3, <3>4, <1>4, BaseFacts DEF Heard, Learns
    <3> QED
      BY <3>1, <3>2, <3>5
  <2> QED
    BY <2>1, <2>2
<1> QED
  BY <1>5, <1>6, Closed

LEMMA NotRemovedStep ==
    ASSUME Base, NotRemoved
    PROVE  Base'
<1>1. /\ mode.k = "remove" /\ mode.stage = "node" /\ faults' = faults + 1
      /\ mode' = [mode EXCEPT !.stage = "done"] /\ Reports("reserved", None)
      /\ UNCHANGED <<network, missed>>
  BY DEF NotRemoved
<1>2. mode' \in Modes /\ mode'.stage = "done" /\ mode'.k = mode.k
  BY <1>1, ModeFacts DEF Maybe
<1>3. Others' /\ ModeOK'
  BY <1>1, <1>2, ReportsFacts, BaseFacts, OthersKept DEF ModeOK
<1>4. Sound /\ Linked' /\ Heard'
  <2>1. CASE IsHeard
    <3>1. /\ Sound /\ UNCHANGED nodes /\ running'.found \notin Nodes
          /\ running'.pc \notin Awaits
      BY <1>1, <2>1, ReportsFacts, ReservedSound
    <3>2. Heard'
      BY <1>1, <2>1, <3>1, HeardFacts, HeardAll
    <3> QED
      BY <3>1, <3>2 DEF Linked
  <2>2. CASE ~IsHeard
    BY <1>1, <1>2, <2>2, ReportsFacts, Unheeded, HeardKept
  <2> QED
    BY <2>1, <2>2
<1> QED
  BY <1>3, <1>4, Closed

LEMMA ReplaceStartsStep ==
    ASSUME Base, ReplaceStarts
    PROVE  Base'
<1>1. /\ mode.k = "replace" /\ mode' = [mode EXCEPT !.stage = "ready"]
      /\ Reports("replace", None) /\ UNCHANGED <<network, missed, faults>>
  BY DEF ReplaceStarts
<1>2. mode' \in Modes /\ mode'.stage = "ready" /\ mode'.k = mode.k /\ mode'.node = mode.node
  BY <1>1, ModeFacts DEF Maybe
<1>3. Others' /\ ModeOK'
  BY <1>1, <1>2, ReportsFacts, BaseFacts, OthersKept DEF Base, ModeOK
<1>4. Sound /\ Linked' /\ Heard'
  <2>1. CASE IsHeard
    <3>1. /\ Sound /\ UNCHANGED nodes /\ running' = [running EXCEPT !.pc = "awaitsDone"]
      BY <1>1, <2>1, ReportsFacts, MayReplaceSound
    <3>2. /\ running'.pc = "awaitsDone" /\ running'.kind = running.kind
          /\ running'.node = running.node
      BY <3>1, BaseFacts DEF Tasks
    <3>3. ~Learns(running')
      BY <3>2 DEF Learns
    <3>4. Heard'
      BY <1>1, <2>1, <3>1, <3>3, HeardFacts, HeardAll
    <3>5. running.kind = "replace" /\ mode.node = running.node /\ mode.node \in network
      BY <1>1, <2>1, HeardFacts DEF Hears
    <3>6. Linked'
      BY <1>1, <1>2, <3>2, <3>5 DEF Linked, StageOf
    <3> QED
      BY <3>1, <3>4, <3>6
  <2>2. CASE ~IsHeard
    BY <1>1, <1>2, <2>2, ReportsFacts, Unheeded, HeardKept
  <2> QED
    BY <2>1, <2>2
<1> QED
  BY <1>3, <1>4, Closed

LEMMA ReplaceDoneStep ==
    ASSUME Base, ReplaceDone
    PROVE  Base'
<1>1. /\ mode.k = "replace" /\ mode' = Off
      /\ Reports("done", mode.node) /\ UNCHANGED <<network, missed, faults>>
  BY DEF ReplaceDone
<1>2. mode' \in Modes /\ mode'.stage = "ready" /\ mode'.k = "off"
  BY <1>1, ModeFacts DEF Maybe
<1>3. Others' /\ ModeOK'
  BY <1>1, <1>2, ReportsFacts, BaseFacts, OthersKept DEF ModeOK
<1>4. Linked'
  BY <1>2 DEF Linked, Hears
<1>5. Sound /\ Heard'
  <2>1. CASE IsHeard
    <3>1. /\ Sound /\ nodes' = nodes \cup {running.node} /\ ~Learns(running')
      BY <1>1, <2>1, ReportsFacts, ReplacedSound
    <3>2. running.node \in network /\ (nodes \ network) \cup (network \ nodes) \subseteq missed
      BY <1>1, <2>1, HeardFacts DEF Hears
    <3>3. Heard'
      BY <1>1, <3>1, <3>2 DEF Heard
    <3> QED
      BY <3>1, <3>3
  <2>2. CASE ~IsHeard
    BY <1>1, <2>2, ReportsFacts, HeardKept
  <2> QED
    BY <2>1, <2>2
<1> QED
  BY <1>3, <1>4, <1>5, Closed

LEMMA FailureReportedStep ==
    ASSUME Base, FailureReported
    PROVE  Base'
<1>1. PICK st \in {"failed", "unexpected"} : Reports(st, None)
  BY DEF FailureReported
<1>2. /\ faults' = faults + 1 /\ UNCHANGED <<network, missed>>
      /\ mode' = IF mode.k = "replace" THEN Off ELSE [mode EXCEPT !.stage = "ready"]
  BY DEF FailureReported
<1>3. mode' \in Modes /\ mode'.stage = "ready" /\ mode'.k \in {mode.k, "off"} /\ mode'.k # "replace"
  <2>1. CASE mode.k = "replace"
    <3>1. mode' = Off /\ Off \in Modes /\ Off.k = "off" /\ Off.stage = "ready"
      BY <1>2, <2>1, ModeFacts DEF Maybe
    <3> QED
      BY <3>1
  <2>2. CASE mode.k # "replace"
    <3>1. mode' = [mode EXCEPT !.stage = "ready"]
      BY <1>2, <2>2
    <3>2. mode' \in Modes /\ mode'.stage = "ready" /\ mode'.k = mode.k
      BY <3>1, ModeFacts DEF Maybe
    <3> QED
      BY <2>2, <3>2
  <2> QED
    BY <2>1, <2>2
<1>4. Others' /\ ModeOK'
  BY <1>1, <1>2, <1>3, ReportsFacts, BaseFacts, OthersKept DEF ModeOK
<1>5. Sound /\ Linked' /\ Heard'
  <2>1. CASE IsHeard
    <3>1. Sound /\ running'.pc \notin Awaits /\ ~Learns(running') /\ UNCHANGED nodes
      BY <1>1, <2>1, ReportsFacts, FailedSound
    <3>2. Heard'
      BY <1>2, <2>1, <3>1, HeardFacts, HeardAll
    <3> QED
      BY <3>1, <3>2 DEF Linked
  <2>2. CASE ~IsHeard
    BY <1>1, <1>2, <1>3, <2>2, ReportsFacts, Unheeded, HeardKept
  <2> QED
    BY <2>1, <2>2
<1> QED
  BY <1>4, <1>5, Closed

-----------------------------------------------------------------------------
(* Tasks start and are answered                                            *)

LEMMA InSync ==
    ASSUME Base, ~Learns(running)
    PROVE  (nodes \ network) \cup (network \ nodes) \subseteq missed
BY DEF Base, Heard

(* The listening mode was left, or was not active.                         *)
LEMMA PausedSound ==
    ASSUME Base, NEW t \in Tasks, NEW cs \in Seq(Orders), Suits(t), AllDecent(cs), NoOwn(cs),
           Paused(t, cs), UNCHANGED <<nodes, withDSK>>
    PROVE  Sound /\ ~Learns(running') /\ running'.pc \notin Awaits
<1> DEFINE s == StartOf(t.kind)
           r == [t EXCEPT !.pc = s.pc]
<1>1. /\ inclusionState' = s.state /\ running' = r
      /\ commands' = IF s.op = None THEN cs ELSE Append(cs, Command(s.op, "task", t))
  BY DEF Paused
<1>2. t.kind \in Kinds
  BY DEF Suits
<1>3. CASE t.kind \in Adds \cup {"exclude"}
  <2>1. /\ s.pc = "starting" /\ s.op \in {"add", "addDSK", "remove"}
        /\ s.state \in {"including", "excluding"}
        /\ s.op = "addDSK" => t.kind = "smartStart"
    BY <1>3 DEF StartOf, Adds
  <2>2. /\ r \in Tasks /\ r.pc = "starting" /\ r.id = t.id /\ r.kind = t.kind
        /\ r.node = t.node /\ Suits(r)
    <3>1. "starting" \in PCs /\ r = [t EXCEPT !.pc = "starting"]
      BY <2>1 DEF PCs
    <3> HIDE DEF r
    <3> QED
      BY <3>1, GoesFacts
  <2>3. s.op = OwnOp(r)
    BY <1>3, <2>2 DEF OwnOp, Adds
  <2>4. r.pc \in PCsOf(r.kind)
    BY <1>3, <2>2 DEF PCsOf, Joins, Adds
  <2>5. s.op \in Ops /\ s.op # None
    BY <2>1 DEF Ops, StartOps, None
  <2>6. s.op = "addDSK" => t.node \in DSKs
    BY <2>1 DEF Suits
  <2> HIDE DEF r, s
  <2>7. commands' = Append(cs, Command(s.op, "task", t))
    BY <1>1, <2>5
  <2>8. r.pc \in Working
    BY <2>2 DEF Working
  <2>9. commands' \in Seq(Orders) /\ Served(r, commands')
    BY <2>1, <2>2, <2>3, <2>5, <2>6, <2>7, <2>8, OwnSent
  <2>10. RunsOK(r) /\ ~HasNode(r) /\ ~Learns(r) /\ r.pc \notin Awaits
    BY <2>2, <2>4, Reached DEF HasNode, Learns, Awaits
  <2>11. inclusionState' \in States
    BY <1>1, <2>1 DEF States
  <2>12. Sound
    BY <1>1, <2>2, <2>9, <2>10, <2>11, GoesSound
  <2> QED
    BY <1>1, <2>10, <2>12
<1>4. CASE t.kind \in {"remove", "replace"}
  <2>1. s.pc = "pinging" /\ s.op = None /\ s.state = "busy"
    BY <1>4 DEF StartOf
  <2>2. /\ r \in Tasks /\ r.pc = "pinging" /\ r.id = t.id /\ r.kind = t.kind
        /\ r.node = t.node /\ Suits(r)
    <3>1. "pinging" \in PCs /\ r = [t EXCEPT !.pc = "pinging"]
      BY <2>1 DEF PCs
    <3> HIDE DEF r
    <3> QED
      BY <3>1, GoesFacts
  <2>3. r.pc \in PCsOf(r.kind)
    BY <1>4, <2>2 DEF PCsOf
  <2> HIDE DEF r, s
  <2>4. /\ RunsOK(r) /\ ~HasNode(r) /\ ~Learns(r) /\ r.pc \notin Awaits
        /\ r.pc \notin Working
    BY <1>4, <2>2, <2>3, Reached DEF HasNode, Learns, Awaits, Working
  <2>5. Served(r, cs) /\ commands' = cs
    BY <1>1, <2>1, <2>2, <2>4, ServedFree
  <2>6. RunOK' /\ Apart'
    BY <1>1, <2>1, <2>4 DEF RunOK, Apart
  <2>7. inclusionState' \in States
    BY <1>1, <2>1 DEF States
  <2>8. Sound
    BY <1>1, <2>2, <2>5, <2>6, <2>7, BaseFacts DEF Sound
  <2> QED
    BY <1>1, <2>4, <2>8
<1> QED
  BY <1>2, <1>3, <1>4 DEF Kinds, Adds

LEMMA StartTaskStep ==
    ASSUME Base, StartTask
    PROVE  Base'
<1> DEFINE t == Head(queue)
<1>1. /\ running = NoTask /\ queue # <<>> /\ queue' = Tail(queue)
      /\ UNCHANGED <<settings, known, mode, network, missed, crossed, bounds>>
      /\ \/ /\ inclusionState = "smartStart" /\ running' = [t EXCEPT !.pc = "pausing"]
            /\ commands' = Append(commands, Command("stopListen", "task", t))
            /\ UNCHANGED inclusionState
         \/ Paused(t, commands)
  BY DEF StartTask
<1>2. queue \in Seq(Tasks) /\ QueueOK
  BY DEF Base, Types
<1>3. t \in Tasks /\ t \in ToSet(queue) /\ queue' \in Seq(Tasks) /\ ToSet(queue') \subseteq ToSet(queue)
  <2>1. /\ t = queue[1] /\ 1 \in 1..Len(queue) /\ t \in Tasks /\ queue' \in Seq(Tasks)
        /\ Len(queue') \in Nat /\ DOMAIN queue = 1..Len(queue) /\ DOMAIN queue' = 1..Len(queue')
    BY <1>1, <1>2
  <2>2. \A i \in 1..Len(queue') : i + 1 \in 1..Len(queue) /\ queue'[i] = queue[i + 1]
    BY <1>1, <1>2
  <2> HIDE DEF t
  <2> QED
    BY <2>1, <2>2 DEF ToSet
<1> HIDE DEF t
<1>4. Suits(t)
  BY <1>2, <1>3 DEF QueueOK
<1>5. UNCHANGED <<nodes, withDSK, smartStartEnabled, provisioning, failedAttempts, made, calls, faults>>
  BY <1>1 DEF known, settings, bounds
<1>6. Others' /\ ModeOK'
  BY <1>1, <1>2, <1>3, <1>5 DEF Base, Types, Others, QueueOK, ModeOK
<1>7. commands \in Seq(Orders) /\ AllDecent(commands) /\ NoOwn(commands)
  BY <1>1, NoTaskFacts, BaseFacts
<1>8. Sound /\ ~Learns(running') /\ running'.pc \notin Awaits
  <2>1. CASE Paused(t, commands)
    BY <1>3, <1>4, <1>5, <1>7, <2>1, PausedSound
  <2>2. CASE /\ inclusionState = "smartStart" /\ running' = [t EXCEPT !.pc = "pausing"]
             /\ commands' = Append(commands, Command("stopListen", "task", t))
             /\ UNCHANGED inclusionState
    <3> DEFINE r == [t EXCEPT !.pc = "pausing"]
    <3>1. /\ r \in Tasks /\ r.pc = "pausing" /\ r.id = t.id /\ r.kind = t.kind
          /\ r.node = t.node /\ Suits(r)
      <4>1. "pausing" \in PCs
        BY DEF PCs
      <4> QED
        BY <1>3, <1>4, <4>1, GoesFacts
    <3> HIDE DEF r
    <3>2. "stopListen" = OwnOp(r) /\ r.pc \in Working /\ "stopListen" \in Ops
      BY <3>1 DEF OwnOp, Working, Ops
    <3>3. r.pc \in PCsOf(r.kind)
      BY <3>1 DEF PCsOf, Joins, Suits, Kinds
    <3>4. RunsOK(r) /\ ~HasNode(r) /\ ~Learns(r) /\ r.pc \notin Awaits
      BY <3>1, <3>3, Reached DEF HasNode, Learns, Awaits
    <3>5. commands' \in Seq(Orders) /\ Served(r, commands')
      BY <1>3, <1>7, <2>2, <3>1, <3>2, OwnSent
    <3>6. Sound
      BY <1>5, <2>2, <3>1, <3>4, <3>5, GoesSound, BaseFacts DEF r
    <3> QED
      BY <2>2, <3>4, <3>6 DEF r
  <2> QED
    BY <1>1, <2>1, <2>2
<1>9. Linked'
  BY <1>8 DEF Linked
<1>10. Heard'
  BY <1>1, <1>5, <1>8, NoTaskFacts, InSync, HeardAll
<1> QED
  BY <1>6, <1>8, <1>9, <1>10, Closed

SettingsOK ==
    /\ smartStartEnabled \in BOOLEAN
    /\ provisioning \in [DSKs -> {None, "active", "inactive"}]
    /\ failedAttempts \in [DSKs -> Nat]

LEMMA SettingsFacts ==
    ASSUME Base
    PROVE  SettingsOK /\ (UNCHANGED settings => SettingsOK')
BY DEF Base, Types, SettingsOK, settings

(* The answer to the command of the task.                                  *)
LEMMA OwnFacts ==
    ASSUME Base, commands # <<>>, Head(commands).by = "task"
    PROVE  /\ Head(commands) \in Orders /\ Decent(Head(commands)) /\ IsOwn(running, Head(commands))
           /\ Tail(commands) \in Seq(Orders) /\ AllDecent(Tail(commands)) /\ NoOwn(Tail(commands))
           /\ running.pc \in {"starting", "aborting", "finishing", "stopping"} =>
                NoStarts(Tail(commands))
           /\ running \in Tasks /\ Suits(running) /\ running.pc \in PCsOf(running.kind)
<1>1. /\ commands \in Seq(Orders) /\ running \in Tasks /\ Served(running, commands)
      /\ RunsOK(running)
  BY BaseFacts
<1>2. /\ Tail(commands) \in Seq(Orders) /\ AllDecent(Tail(commands)) /\ NoOwn(Tail(commands))
      /\ IsOwn(running, Head(commands))
      /\ running.pc \in {"starting", "aborting", "finishing", "stopping"} =>
            NoStarts(Tail(commands))
  BY <1>1, OwnTaken
<1>3. Head(commands) \in Orders /\ Decent(Head(commands))
  <2>1. Head(commands) \in Orders /\ Head(commands) = commands[1] /\ Len(commands) \in Nat \ {0}
    BY <1>1, TailFacts
  <2>2. 1 \in 1..Len(commands)
    BY <2>1
  <2> QED
    BY <1>1, <2>1, <2>2 DEF Served, AllDecent
<1>4. running # NoTask
  BY <1>2, NoTaskFacts DEF IsOwn
<1> QED
  BY <1>1, <1>2, <1>3, <1>4 DEF RunsOK

LEMMA OverSound ==
    ASSUME Base, NEW cs \in Seq(Orders), AllDecent(cs), NoOwn(cs), Finishes(cs),
           nodes' \subseteq nodes, withDSK' = withDSK \cap nodes'
    PROVE  Sound /\ running' = NoTask
<1>1. running' = NoTask /\ Enters("idle", cs, smartStartEnabled)
  BY DEF Finishes, Ends, SetInclusionState
<1>2. nodes' \subseteq Nodes /\ withDSK' \subseteq nodes' \cap DSKs
  BY BaseFacts
<1> QED
  BY <1>1, <1>2, FinishesSound

(* The controller does what the task asked it for.                         *)
LEMMA StartedSound ==
    ASSUME Base, Suits(running), running.pc \in PCsOf(running.kind), running.pc = "starting",
           NEW cs \in Seq(Orders), AllDecent(cs), NoOwn(cs), NoStarts(cs),
           Goes(IF running.kind = "replace" THEN "awaitsReplace" ELSE "awaitsFound"),
           commands' = cs, UNCHANGED <<inclusionState, known>>
    PROVE  /\ Sound /\ UNCHANGED nodes /\ ~Learns(running')
           /\ running'.pc = IF running.kind = "replace" THEN "awaitsReplace" ELSE "awaitsFound"
           /\ running'.kind = running.kind /\ running'.node = running.node
<1> DEFINE pc == IF running.kind = "replace" THEN "awaitsReplace" ELSE "awaitsFound"
           r == [running EXCEPT !.pc = pc]
<1>1. running' = r /\ commands' = cs /\ UNCHANGED <<inclusionState, nodes, withDSK>>
  BY DEF Goes, known
<1>2. pc \in PCs /\ pc \in Awaits
  BY DEF PCs, Awaits
<1>3. running.kind \in Adds \cup {"exclude", "replace"}
  BY DEF PCsOf, Suits, Kinds, Adds
<1> HIDE DEF pc
<1>4. /\ r \in Tasks /\ r.pc = pc /\ r.kind = running.kind
      /\ r.node = running.node /\ Suits(r)
  BY <1>2, BaseFacts, GoesFacts
<1> HIDE DEF r
<1>5. r.pc \in PCsOf(r.kind)
  BY <1>3, <1>4 DEF PCsOf, Joins, Adds, pc
<1>6. /\ r.pc # "finishing" /\ ~HasNode(r) /\ r.pc \notin {"pinging", "removing"}
      /\ r.pc \notin Working /\ ~Learns(r)
  BY <1>4 DEF HasNode, Working, Learns, pc
<1>7. Served(r, cs)
  BY <1>4, <1>6, ServedFree
<1>8. Sound
  BY <1>1, <1>4, <1>5, <1>6, <1>7, Reached, BaseFacts, GoesSound
<1> QED
  BY <1>1, <1>4, <1>6, <1>8 DEF pc

(* The controller ends the inclusion: the node is known to the task if     *)
(* that worked.                                                            *)
LEMMA FinishedSound ==
    ASSUME Base, Suits(running), running.pc \in PCsOf(running.kind), running.pc = "finishing",
           NEW cs \in Seq(Orders), AllDecent(cs), NoOwn(cs), NoStarts(cs),
           NEW f \in {running.found, None},
           running' = [running EXCEPT !.pc = "stopping", !.found = f],
           commands' = Append(cs, Command("stopNoCallback", "task", running)),
           UNCHANGED <<inclusionState, known>>
    PROVE  /\ Sound /\ UNCHANGED nodes /\ running'.pc = "stopping" /\ running'.found = f
           /\ running'.kind = running.kind
<1> DEFINE r == [running EXCEPT !.pc = "stopping", !.found = f]
<1>1. /\ running' = r /\ commands' = Append(cs, Command("stopNoCallback", "task", running))
      /\ UNCHANGED <<inclusionState, nodes, withDSK>>
  BY DEF known
<1>2. running \in Tasks /\ running.kind \in Adds
  BY BaseFacts DEF PCsOf, Joins, Suits, Kinds, Adds
<1>3. /\ r \in Tasks /\ r.pc = "stopping" /\ r.id = running.id /\ r.kind = running.kind
      /\ r.node = running.node /\ r.found = f /\ Suits(r)
  <2>1. "stopping" \in PCs /\ f \in Maybe(Nodes)
    BY <1>2 DEF PCs, Maybe, Tasks
  <2>2. running.kind = "smartStart" => f \in Maybe({running.node})
    BY DEF Maybe, Suits
  <2> QED
    BY <1>2, <2>1, <2>2 DEF Tasks, Suits, Maybe
<1> HIDE DEF r
<1>4. "stopNoCallback" = OwnOp(r) /\ "stopNoCallback" \in Ops
  BY <1>3 DEF OwnOp, Ops
<1>5. r.pc \in PCsOf(r.kind)
  BY <1>2, <1>3 DEF PCsOf, Joins, Adds
<1>6. commands' \in Seq(Orders) /\ Served(r, commands')
  BY <1>1, <1>2, <1>3, <1>4, ClosingSent
<1>7. RunsOK(r) /\ ~HasNode(r) /\ r.pc \notin {"pinging", "removing"}
  BY <1>3, <1>5 DEF RunsOK, HasNode
<1>8. Sound
  BY <1>1, <1>3, <1>6, <1>7, GoesSound, BaseFacts
<1> QED
  BY <1>1, <1>3, <1>8

(* The controller was told that the inclusion is over.                     *)
LEMMA NodeAddedSound ==
    ASSUME Base, Suits(running), running.pc \in PCsOf(running.kind), running.pc = "stopping",
           running.kind # "exclude", NEW cs \in Seq(Orders), AllDecent(cs), NoOwn(cs),
           NodeAdded(cs)
    PROVE  /\ Sound /\ SettingsOK' /\ ~Learns(running') /\ running'.pc \notin Awaits
           /\ nodes' = nodes \cup ({running.found} \cap Nodes)
<1>1. CASE running.found \in Nodes \ nodes
  <2> DEFINE r == [running EXCEPT !.pc = "bootstraps"]
  <2>1. /\ nodes' = nodes \cup {running.found} /\ running' = r
        /\ Enters("busy", cs, smartStartEnabled) /\ UNCHANGED <<settings, withDSK>>
    BY <1>1 DEF NodeAdded, Goes, SetInclusionState
  <2>2. inclusionState' = "busy" /\ commands' = cs
    BY <2>1 DEF Enters
  <2>3. running.kind \in Adds /\ running \in Tasks
    BY BaseFacts DEF PCsOf, Joins, Suits, Kinds, Adds
  <2>4. /\ r \in Tasks /\ r.pc = "bootstraps" /\ r.kind = running.kind
        /\ r.found = running.found /\ Suits(r)
    <3>1. "bootstraps" \in PCs
      BY DEF PCs
    <3> QED
      BY <2>3, <3>1, GoesFacts
  <2> HIDE DEF r
  <2>5. /\ r.pc \notin Working /\ r.pc \notin Awaits /\ r.pc \notin {"pinging", "removing"}
        /\ ~Learns(r)
    BY <2>4 DEF Working, Awaits, Learns
  <2>6. r.pc \in PCsOf(r.kind)
    BY <2>3, <2>4 DEF PCsOf, Joins, Adds
  <2>7. RunOK' /\ Apart'
    BY <2>1, <2>4, <2>5, <2>6, Reached DEF RunOK, Apart
  <2>8. Served(r, cs)
    BY <2>4, <2>5, ServedFree
  <2>9. nodes' \subseteq Nodes /\ withDSK' \subseteq nodes' \cap DSKs
    BY <1>1, <2>1, BaseFacts
  <2>10. Sound
    BY <2>1, <2>2, <2>4, <2>7, <2>8, <2>9 DEF Sound, States
  <2> QED
    BY <1>1, <2>1, <2>5, <2>10, SettingsFacts
<1>2. CASE running.found \notin Nodes \ nodes
  <2>1. Finishes(cs) /\ UNCHANGED <<settings, nodes, withDSK>>
    BY <1>2 DEF NodeAdded, known
  <2>2. Sound /\ running' = NoTask
    BY <2>1, BaseFacts, OverSound
  <2> QED
    BY <1>2, <2>1, <2>2, NoTaskFacts, SettingsFacts
<1> QED
  BY <1>1, <1>2

LEMMA NodeExcludedSound ==
    ASSUME Base, NEW cs \in Seq(Orders), AllDecent(cs), NoOwn(cs), NodeExcluded(cs)
    PROVE  /\ Sound /\ SettingsOK' /\ running' = NoTask /\ nodes' = nodes \ {running.found}
<1> DEFINE n == running.found
           list == [provisioning EXCEPT ![n] = IF running.strategy = "unprovision"
                                                 THEN None ELSE "inactive"]
<1>1. CASE n \notin nodes
  <2>1. Finishes(cs) /\ UNCHANGED <<settings, nodes, withDSK>>
    BY <1>1 DEF NodeExcluded, known
  <2>2. Sound /\ running' = NoTask
    BY <2>1, BaseFacts, OverSound
  <2> QED
    BY <1>1, <2>1, <2>2, SettingsFacts
<1>2. CASE n \in nodes
  <2>1. nodes' = nodes \ {n} /\ withDSK' = withDSK \ {n} /\ running' = NoTask
    BY <1>2 DEF NodeExcluded, Ends
  <2>2. \/ /\ n \in withDSK /\ provisioning' = list
           /\ failedAttempts' = [failedAttempts EXCEPT ![n] = 0]
           /\ smartStartEnabled' = HasPlannedEntries(list)
           /\ Enters("idle", cs, HasPlannedEntries(list))
        \/ Enters("idle", cs, smartStartEnabled) /\ UNCHANGED settings
    BY <1>2 DEF NodeExcluded, SetInclusionState
  <2>3. nodes' \subseteq Nodes /\ withDSK' \subseteq nodes' \cap DSKs
    BY <2>1, BaseFacts
  <2>4. SettingsOK'
    <3>1. CASE /\ n \in withDSK /\ provisioning' = list
               /\ failedAttempts' = [failedAttempts EXCEPT ![n] = 0]
               /\ smartStartEnabled' = HasPlannedEntries(list)
      <4>1. HasPlannedEntries(list) \in BOOLEAN
        BY DEF HasPlannedEntries
      <4> HIDE DEF n
      <4> QED
        BY <3>1, <4>1, SettingsFacts DEF SettingsOK
    <3> QED
      BY <2>2, <3>1, SettingsFacts
  <2> HIDE DEF n, list
  <2>5. Sound
    BY <2>1, <2>2, <2>3, FinishesSound
  <2> QED
    BY <2>1, <2>4, <2>5 DEF n
<1> QED
  BY <1>1, <1>2

(* A removal ends, and so does the ping of a failed node.                  *)
LEMMA RemovedSound ==
    ASSUME Base, NEW cs \in Seq(Orders), AllDecent(cs), NoOwn(cs), Removed(cs)
    PROVE  Sound /\ SettingsOK' /\ running' = NoTask /\ nodes' = nodes \ {Failing}
<1>1. /\ Finishes(cs) /\ nodes' = nodes \ {Failing} /\ withDSK' = withDSK \ {Failing}
      /\ UNCHANGED settings
  BY DEF Removed
<1>2. nodes' \subseteq nodes /\ withDSK' = withDSK \cap nodes'
  BY <1>1, BaseFacts
<1> QED
  BY <1>1, <1>2, OverSound, SettingsFacts

LEMMA NotRemovedSound ==
    ASSUME Base, Suits(running), NEW cs \in Seq(Orders), AllDecent(cs), NoOwn(cs),
           NotRemovedAfterAll(cs)
    PROVE  Sound /\ SettingsOK' /\ running' = NoTask /\ UNCHANGED nodes
<1>1. /\ Finishes(cs) /\ UNCHANGED <<smartStartEnabled, provisioning, nodes, withDSK>>
      /\ failedAttempts' = IF running.kind = "smartStart"
                             THEN [failedAttempts EXCEPT ![running.node] = 0]
                             ELSE failedAttempts
  BY DEF NotRemovedAfterAll, known
<1>2. Sound /\ running' = NoTask
  BY <1>1, BaseFacts, OverSound
<1>3. SettingsOK'
  BY <1>1, SettingsFacts DEF SettingsOK, Suits
<1> QED
  BY <1>1, <1>2, <1>3

LEMMA OutcomeFacts ==
    ASSUME NEW c, NEW o \in Outcomes(c)
    PROVE  /\ o \in {"ok", "refused", "error"}
           /\ c.op \in {"removeFailed", "replaceFailed"} /\ o = "ok" => c.node \in network
BY DEF Outcomes

LEMMA ExecutedFacts ==
    ASSUME NEW c, NEW o, NEW done \in Executed(c, o)
    PROVE  done \in BOOLEAN /\ (o = "ok" => done)
BY DEF Executed

(* The listening mode was left before the node is pinged.                  *)
LEMMA LeftSound ==
    ASSUME Base, running.pc = "leaving", running.kind = "smartStart",
           NEW cs \in Seq(Orders), AllDecent(cs), NoOwn(cs), commands' = cs,
           running' = [running EXCEPT !.pc = "pinging"], inclusionState' = "busy",
           UNCHANGED <<nodes, withDSK>>
    PROVE  Sound /\ ~Learns(running') /\ running'.pc \notin Awaits
<1> DEFINE r == [running EXCEPT !.pc = "pinging"]
<1>0. running \in Tasks /\ RunsOK(running) /\ running # NoTask /\ HasNode(running)
  BY BaseFacts, NoTaskFacts DEF HasNode
<1>1. Suits(running) /\ running.found \in nodes
  BY <1>0, BaseFacts DEF RunsOK, Base, RunOK
<1>2. /\ r \in Tasks /\ r.pc = "pinging" /\ r.kind = running.kind
      /\ r.found = running.found /\ Suits(r)
  <2>1. "pinging" \in PCs
    BY DEF PCs
  <2> QED
    BY <1>0, <1>1, <2>1, GoesFacts
<1> HIDE DEF r
<1>3. running' = r
  BY DEF r
<1>4. r.pc \in PCsOf(r.kind) /\ r.pc \notin Working /\ r.pc \notin Awaits /\ ~Learns(r)
  BY <1>2 DEF PCsOf, Working, Awaits, Learns
<1>5. RunsOK(r)
  BY <1>2, <1>4, Reached
<1>6. RunOK' /\ Apart'
  BY <1>1, <1>2, <1>3, <1>5 DEF RunOK, Apart
<1>7. Served(r, cs)
  BY <1>2, <1>4, ServedFree
<1>8. inclusionState' \in States /\ nodes' \subseteq Nodes /\ withDSK' \subseteq nodes' \cap DSKs
  BY BaseFacts DEF States
<1>9. Sound
  BY <1>2, <1>3, <1>6, <1>7, <1>8 DEF Sound
<1> QED
  BY <1>3, <1>4, <1>9

(* The answer to what the task sent.                                       *)
LEMMA OwnAnswered ==
    ASSUME Base, commands # <<>>, NEW c, c = Head(commands), c.by = "task",
           NEW o \in Outcomes(c), NEW done \in Executed(c, o), Answered(c, o, Tail(commands)),
           mode' = (IF done THEN ModeAfter(c) ELSE mode),
           network' = (IF c.op = "removeFailed" /\ done THEN network \ {c.node} ELSE network),
           missed' = missed \cup Unnoticed(c, o, done)
    PROVE  Sound /\ SettingsOK' /\ Linked' /\ Heard'
<1> DEFINE cs == Tail(commands)
<1>1. /\ Decent(c) /\ IsOwn(running, c) /\ cs \in Seq(Orders) /\ AllDecent(cs) /\ NoOwn(cs)
      /\ running.pc \in {"starting", "aborting", "finishing", "stopping"} => NoStarts(cs)
      /\ running \in Tasks /\ Suits(running) /\ running.pc \in PCsOf(running.kind)
  BY OwnFacts
<1>2. running.pc \in Working /\ c.op = OwnOp(running)
  BY <1>1 DEF IsOwn
<1>3. o \in {"ok", "refused", "error"}
  BY OutcomeFacts
<1>4. Answered(c, o, cs)
  OBVIOUS
<1> HIDE DEF cs
<1>0. /\ c.op # "removeFailed" => UNCHANGED network
      /\ c.op \notin {"finish", "removeFailed"} => UNCHANGED missed
      /\ o = "ok" => done /\ UNCHANGED missed
  BY ExecutedFacts DEF Unnoticed
<1>5. SettingsOK /\ (UNCHANGED settings => SettingsOK')
  BY SettingsFacts
<1>6. CASE running.pc = "pausing"
  <2>1. c.op = "stopListen" /\ ~Learns(running)
    BY <1>2, <1>6 DEF OwnOp, Learns
  <2>0. /\ IF o = "ok" THEN Paused(running, cs)
           ELSE /\ Ends
                /\ IF running.kind = "remove" THEN SetInclusionState("idle", cs)
                   ELSE commands' = cs /\ UNCHANGED inclusionState
        /\ UNCHANGED <<settings, known>>
    <3>1. CASE o = "ok"
      <4>1. Paused(running, cs) /\ UNCHANGED <<settings, known>>
        BY <1>4, <1>6, <2>1, <3>1 DEF Answered
      <4> QED
        BY <3>1, <4>1
    <3>2. CASE o # "ok"
      <4>1. /\ Ends
            /\ IF running.kind = "remove" THEN SetInclusionState("idle", cs)
               ELSE commands' = cs /\ UNCHANGED inclusionState
            /\ UNCHANGED <<settings, known>>
        BY <1>4, <1>6, <2>1, <3>2 DEF Answered
      <4> QED
        BY <3>2, <4>1
    <3> QED
      BY <3>1, <3>2
  <2>2. UNCHANGED <<nodes, withDSK, network, missed>> /\ UNCHANGED settings
    BY <1>0, <2>0, <2>1 DEF known
  <2>3. Sound /\ ~Learns(running') /\ running'.pc \notin Awaits
    <3>1. CASE Paused(running, cs)
      BY <1>1, <2>2, <3>1, PausedSound
    <3>2. CASE running' = NoTask /\ Enters("idle", cs, smartStartEnabled)
      <4>1. nodes' \subseteq Nodes /\ withDSK' \subseteq nodes' \cap DSKs
        BY <2>2, BaseFacts
      <4> QED
        BY <1>1, <3>2, <4>1, FinishesSound, NoTaskFacts
    <3>3. CASE running' = NoTask /\ commands' = cs /\ UNCHANGED inclusionState
      BY <1>1, <2>2, <3>3, EndsSound, NoTaskFacts, BaseFacts
    <3> QED
      BY <2>0, <3>1, <3>2, <3>3 DEF Ends, SetInclusionState
  <2> QED
    BY <1>5, <2>1, <2>2, <2>3, InSync, HeardAll DEF Linked
<1>7. CASE running.pc = "starting"
  <2>1. /\ c.op = IF running.kind = "replace" THEN "replaceFailed" ELSE StartOf(running.kind).op
        /\ ~Learns(running) /\ c.node = running.node
    BY <1>1, <1>2, <1>7 DEF OwnOp, Learns, IsOwn
  <2>2. running.kind \in Adds \cup {"exclude", "replace"}
    BY <1>1, <1>7 DEF PCsOf, Suits, Kinds, Adds
  <2>3. /\ running.kind = "classic" => c.op = "add"
        /\ running.kind = "smartStart" => c.op = "addDSK"
        /\ running.kind = "exclude" => c.op = "remove"
        /\ running.kind = "replace" => c.op = "replaceFailed"
    BY <2>1 DEF StartOf
  <2>4. c.op \in StartOps
    BY <2>2, <2>3 DEF StartOps, Adds
  <2>5. UNCHANGED <<nodes, withDSK, network, missed>> /\ UNCHANGED settings
    BY <1>0, <1>3, <1>4, <1>7, <2>4 DEF Answered, known, StartOps
  <2>6. CASE o = "ok"
    <3>1. /\ Goes(IF running.kind = "replace" THEN "awaitsReplace" ELSE "awaitsFound")
          /\ commands' = cs /\ UNCHANGED <<inclusionState, known>>
      BY <1>4, <1>7, <2>4, <2>6 DEF Answered, StartOps
    <3>2. /\ Sound /\ ~Learns(running')
          /\ running'.pc = IF running.kind = "replace" THEN "awaitsReplace" ELSE "awaitsFound"
          /\ running'.kind = running.kind /\ running'.node = running.node
      BY <1>1, <1>7, <3>1, StartedSound
    <3>3. mode' = ModeAfter(c)
      BY <1>0, <2>6
    <3>4. CASE running.kind = "replace"
      <4>1. mode' = [k |-> "replace", stage |-> "asked", node |-> running.node]
        BY <2>1, <2>3, <3>3, <3>4 DEF ModeAfter
      <4>2. running.node \in network
        BY <2>1, <2>3, <2>6, <3>4, OutcomeFacts
      <4>3. mode'.k = "replace" /\ mode'.stage = "asked" /\ mode'.node = running.node
        BY <4>1
      <4>4. Linked'
        BY <2>5, <3>2, <3>4, <4>2, <4>3 DEF Linked, StageOf
      <4> QED
        BY <1>5, <2>1, <2>5, <3>2, <4>4, InSync, HeardAll
    <3>5. CASE running.kind # "replace"
      <4>1. mode'.stage = "ready" /\ (running.kind = "smartStart" => mode'.node = running.node)
        BY <2>1, <2>2, <2>3, <3>3, <3>5 DEF ModeAfter, Off, Adds
      <4>2. Linked'
        BY <3>2, <3>5, <4>1 DEF Linked, StageOf
      <4> QED
        BY <1>5, <2>1, <2>5, <3>2, <4>2, InSync, HeardAll
    <3> QED
      BY <3>4, <3>5
  <2>7. CASE o # "ok"
    <3>1. \/ Finishes(cs)
          \/ running' = NoTask /\ commands' = cs /\ UNCHANGED inclusionState
      BY <1>3, <1>4, <1>7, <2>4, <2>7 DEF Answered, StartOps, Ends
    <3>2. Sound /\ running' = NoTask
      BY <1>1, <2>5, <3>1, OverSound, EndsSound, BaseFacts
    <3> QED
      BY <1>5, <2>1, <2>5, <3>2, NoTaskFacts, InSync, HeardAll DEF Linked
  <2> QED
    BY <2>6, <2>7
<1>8. CASE running.pc = "aborting"
  <2>1. c.op \in {"stopAdd", "stopRemove"} /\ ~Learns(running)
    BY <1>2, <1>8 DEF OwnOp, Learns
  <2>2. UNCHANGED <<nodes, withDSK, network, missed>> /\ UNCHANGED settings
    BY <1>0, <1>3, <1>4, <1>8, <2>1 DEF Answered, known
  <2>3. \/ Finishes(cs)
        \/ running' = NoTask /\ commands' = cs /\ UNCHANGED inclusionState
    BY <1>3, <1>4, <1>8, <2>1 DEF Answered, Ends
  <2>4. Sound /\ running' = NoTask
    BY <1>1, <2>2, <2>3, OverSound, EndsSound, BaseFacts
  <2> QED
    BY <1>5, <2>1, <2>2, <2>4, NoTaskFacts, InSync, HeardAll DEF Linked
<1>9. CASE running.pc = "finishing"
  <2> DEFINE f == IF o = "ok" THEN running.found ELSE None
  <2>1. c.op = "finish"
    BY <1>2, <1>9 DEF OwnOp
  <2>2. /\ running' = [running EXCEPT !.pc = "stopping", !.found = IF o = "ok" THEN @ ELSE None]
        /\ commands' = Append(cs, Command("stopNoCallback", "task", running))
        /\ UNCHANGED <<inclusionState, settings, known>>
    BY <1>4, <1>9, <2>1 DEF Answered
  <2>3. running' = [running EXCEPT !.pc = "stopping", !.found = f] /\ f \in {running.found, None}
    BY <1>1, <2>2 DEF Tasks
  <2> HIDE DEF f
  <2>4. /\ Sound /\ UNCHANGED nodes /\ running'.pc = "stopping" /\ running'.found = f
        /\ running'.kind = running.kind
    BY <1>1, <1>9, <2>2, <2>3, FinishedSound
  <2>5. Learns(running) /\ Learns(running') /\ running'.pc \notin Awaits
    BY <1>9, <2>4 DEF Learns, Awaits
  <2>6. /\ Heard /\ UNCHANGED network
        /\ missed' = IF o = "ok" THEN missed ELSE missed \cup {running.found}
    BY <1>0, <2>1 DEF Base, Unnoticed
  <2>7. running.found \in Nodes
    BY <1>9, BaseFacts DEF RunsOK
  <2>8. Heard'
    <3>1. CASE o = "ok"
      BY <2>1, <2>4, <2>5, <2>6, <3>1 DEF Heard, f
    <3>2. CASE o # "ok"
      BY <2>1, <2>4, <2>5, <2>6, <3>2, NodesAssumption DEF Heard, f
    <3> QED
      BY <3>1, <3>2
  <2> QED
    BY <1>5, <2>2, <2>4, <2>5, <2>8 DEF Linked
<1>10. CASE running.pc = "stopping"
  <2>1. c.op = "stopNoCallback" /\ Learns(running)
    BY <1>2, <1>10 DEF OwnOp, Learns
  <2>2. Heard /\ UNCHANGED <<network, missed>>
    BY <1>0, <2>1 DEF Base
  <2>3. IF running.kind = "exclude" THEN NodeExcluded(cs) ELSE NodeAdded(cs)
    BY <1>4, <1>10, <2>1 DEF Answered
  <2>4. CASE running.kind = "exclude"
    <3>1. Sound /\ SettingsOK' /\ running' = NoTask /\ nodes' = nodes \ {running.found}
      BY <1>1, <2>3, <2>4, NodeExcludedSound
    <3>2. Heard'
      BY <2>1, <2>2, <2>4, <3>1, NoTaskFacts, BaseFacts DEF Heard, Adds
    <3> QED
      BY <3>1, <3>2, NoTaskFacts DEF Linked
  <2>5. CASE running.kind # "exclude"
    <3>1. /\ Sound /\ SettingsOK' /\ ~Learns(running') /\ running'.pc \notin Awaits
          /\ nodes' = nodes \cup ({running.found} \cap Nodes)
      BY <1>1, <1>10, <2>3, <2>5, NodeAddedSound
    <3>2. Heard'
      BY <2>1, <2>2, <2>5, <3>1, BaseFacts DEF Heard
    <3> QED
      BY <3>1, <3>2 DEF Linked
  <2> QED
    BY <2>4, <2>5
<1>11. CASE running.pc = "removing"
  <2>1. c.op = "removeFailed" /\ ~Learns(running) /\ c.node = Failing
    BY <1>1, <1>2, <1>11 DEF OwnOp, Learns, IsOwn, FailingOf, Failing
  <2>2. (nodes \ network) \cup (network \ nodes) \subseteq missed
    BY <2>1, InSync
  <2>3. IF o = "ok" THEN Removed(cs) ELSE NotRemovedAfterAll(cs)
    BY <1>4, <1>11, <2>1 DEF Answered
  <2>4. CASE o = "ok"
    <3>1. Sound /\ SettingsOK' /\ running' = NoTask /\ nodes' = nodes \ {Failing}
      BY <1>1, <2>3, <2>4, RemovedSound
    <3>2. network' = network \ {Failing} /\ UNCHANGED missed
      BY <1>0, <2>1, <2>4
    <3>3. Heard'
      BY <2>2, <3>1, <3>2, NoTaskFacts DEF Heard
    <3> QED
      BY <3>1, <3>3, NoTaskFacts DEF Linked
  <2>5. CASE o # "ok"
    <3>1. Sound /\ SettingsOK' /\ running' = NoTask /\ UNCHANGED nodes
      BY <1>1, <2>3, <2>5, NotRemovedSound
    <3>2. \/ UNCHANGED <<network, missed>>
          \/ network' = network \ {Failing} /\ missed' = missed \cup {Failing}
      BY <2>1, <2>5, ExecutedFacts DEF Unnoticed
    <3>3. (nodes' \ network') \cup (network' \ nodes') \subseteq missed'
      BY <2>2, <3>1, <3>2
    <3> QED
      BY <3>1, <3>3, NoTaskFacts DEF Linked, Heard
  <2> QED
    BY <2>4, <2>5
<1>12. CASE running.pc = "leaving"
  <2>1. c.op = "stopListen" /\ ~Learns(running)
    BY <1>2, <1>12 DEF OwnOp, Learns
  <2>2. UNCHANGED <<nodes, withDSK, network, missed>>
    <3>1. UNCHANGED known
      BY <1>3, <1>4, <1>12 DEF Answered, NotRemovedAfterAll
    <3> QED
      BY <1>0, <2>1, <3>1 DEF known
  <2>3. CASE o = "ok"
    <3>1. /\ running' = [running EXCEPT !.pc = "pinging"] /\ inclusionState' = "busy"
          /\ commands' = cs /\ UNCHANGED settings
      BY <1>4, <1>12, <2>3 DEF Answered, Goes
    <3>2. running.kind = "smartStart"
      BY <1>1, <1>12 DEF PCsOf, Joins, Suits, Kinds
    <3>3. Sound /\ ~Learns(running') /\ running'.pc \notin Awaits
      BY <1>1, <1>12, <2>2, <3>1, <3>2, LeftSound
    <3> QED
      BY <1>5, <2>1, <2>2, <3>1, <3>3, InSync, HeardAll DEF Linked
  <2>4. CASE o # "ok"
    <3>1. NotRemovedAfterAll(cs)
      BY <1>4, <1>12, <2>4 DEF Answered
    <3>2. Sound /\ SettingsOK' /\ running' = NoTask
      BY <1>1, <3>1, NotRemovedSound
    <3> QED
      BY <2>1, <2>2, <3>2, NoTaskFacts, InSync, HeardAll DEF Linked
  <2> QED
    BY <2>3, <2>4
<1> QED
  BY <1>2, <1>6, <1>7, <1>8, <1>9, <1>10, <1>11, <1>12 DEF Working

(* The answers to what others sent                                         *)

LEMMA OtherFacts ==
    ASSUME Base, commands # <<>>, Head(commands).by # "task"
    PROVE  /\ Head(commands) \in Orders /\ Decent(Head(commands))
           /\ Tail(commands) \in Seq(Orders) /\ Served(running, Tail(commands))
           /\ running.pc \in Awaits => Head(commands).op \notin StartOps
           /\ Head(commands).by = "caller" => running.pc # "removing"
<1>1. commands \in Seq(Orders) /\ running \in Tasks /\ Served(running, commands)
  BY BaseFacts
<1>2. Tail(commands) \in Seq(Orders) /\ Served(running, Tail(commands))
  BY <1>1, OtherTaken
<1>3. /\ Head(commands) \in Orders /\ Head(commands) = commands[1]
      /\ Len(commands) \in Nat \ {0}
  BY <1>1, TailFacts
<1>4. 1 \in 1..Len(commands)
  BY <1>3
<1>5. Decent(commands[1]) /\ (running.pc \in Awaits => commands[1].op \notin StartOps)
  BY <1>1, <1>4 DEF Served, AllDecent, NoStarts
<1>6. running.pc = "removing" => NoCallers(commands)
  BY <1>1 DEF Served, OwnAt, Working
<1>7. commands[1].by = "caller" => running.pc # "removing"
  BY <1>4, <1>6 DEF NoCallers
<1> QED
  BY <1>2, <1>3, <1>5, <1>7

(* The task stays.                                                         *)
LEMMA SameTaskSound ==
    ASSUME Base, UNCHANGED <<running, nodes, withDSK>>, inclusionState' \in States,
           inclusionState' \in {inclusionState, "idle", "smartStart"},
           commands' \in Seq(Orders), Served(running, commands')
    PROVE  Sound
<1>1. RunOK' /\ Apart'
  BY DEF Base, RunOK, RunsOK, HasNode, Apart
<1> QED
  BY <1>1, BaseFacts DEF Sound

LEMMA DropTasksFacts ==
    ASSUME Base, NEW kinds, DropTasks(kinds), UNCHANGED <<nodes, network>>
    PROVE  /\ queue' \in Seq(Tasks) /\ QueueOK' /\ missed' \subseteq Nodes /\ Heard'
           /\ IF running.kind \in kinds THEN running' = NoTask ELSE UNCHANGED running
<1>1. queue \in Seq(Tasks) /\ QueueOK /\ Heard
  BY DEF Base, Types
<1>2. queue' \in Seq(Tasks) /\ ToSet(queue') \subseteq ToSet(queue)
  <2> DEFINE S == {t \in ToSet(queue) : t.kind \notin kinds}
  <2>1. queue' = Only(queue, S)
    BY DEF DropTasks
  <2> HIDE DEF S
  <2>2. queue' \in Seq(Tasks) /\ ToSet(queue') = ToSet(queue) \cap S
    BY <1>1, <2>1, OnlyFacts
  <2> QED
    BY <2>2
<1>3. QueueOK'
  BY <1>1, <1>2 DEF QueueOK
<1>4. CASE running.kind \in kinds
  <2>1. running' = NoTask /\ missed' = missed \cup Unheard(running)
    BY <1>4 DEF DropTasks
  <2>2. Unheard(running) \subseteq Nodes
    BY DEF Unheard
  <2>3. running.found \in Nodes /\ Learns(running) => running.found \in missed'
    BY <2>1 DEF Unheard, Learns
  <2>4. \A n \in (nodes \ network) \cup (network \ nodes) : n \in missed'
    BY <1>1, <2>1, <2>3, BaseFacts DEF Heard
  <2>5. Heard'
    BY <2>1, <2>4, NoTaskFacts DEF Heard
  <2> QED
    BY <1>2, <1>3, <1>4, <2>1, <2>2, <2>5, BaseFacts
<1>5. CASE running.kind \notin kinds
  <2>1. UNCHANGED <<running, missed>>
    BY <1>5 DEF DropTasks
  <2> QED
    BY <1>2, <1>3, <1>5, <2>1, BaseFacts, HeardKept
<1> QED
  BY <1>4, <1>5

LEMMA StoppedFacts ==
    ASSUME Base, NEW kinds, NEW cs \in Seq(Orders), Served(running, cs),
           running.pc # "removing", Stopped(kinds, cs)
    PROVE  /\ Sound /\ SettingsOK' /\ Heard'
           /\ queue' \in Seq(Tasks) /\ QueueOK' /\ missed' \subseteq Nodes
           /\ UNCHANGED running \/ running' = NoTask
<1> DEFINE p == IF running.kind \in kinds THEN Orphaned(cs) ELSE cs
<1>1. /\ Enters("idle", p, smartStartEnabled) /\ DropTasks(kinds)
      /\ UNCHANGED <<smartStartEnabled, provisioning, failedAttempts, nodes, withDSK, network>>
  BY DEF Stopped, SetInclusionState, settings, known
<1>3. SettingsOK'
  BY <1>1, SettingsFacts DEF settings
<1>4. /\ queue' \in Seq(Tasks) /\ QueueOK' /\ missed' \subseteq Nodes /\ Heard'
      /\ IF running.kind \in kinds THEN running' = NoTask ELSE UNCHANGED running
  BY <1>1, DropTasksFacts
<1>5. running \in Tasks
  BY BaseFacts
<1>6. Sound
  <2>1. CASE running.kind \in kinds
    <3>1. p = Orphaned(cs) /\ running' = NoTask
      BY <1>4, <2>1
    <3> HIDE DEF p
    <3>2. p \in Seq(Orders) /\ AllDecent(p) /\ NoOwn(p)
      BY <1>5, <3>1, OrphanedFacts
    <3>3. nodes' \subseteq Nodes /\ withDSK' \subseteq nodes' \cap DSKs
      BY <1>1, BaseFacts
    <3> QED
      BY <1>1, <3>1, <3>2, <3>3, FinishesSound
  <2>2. CASE running.kind \notin kinds
    <3>1. Enters("idle", cs, smartStartEnabled) /\ UNCHANGED running
      BY <1>1, <1>4, <2>2
    <3>2. /\ inclusionState' \in States /\ inclusionState' \in {"idle", "smartStart"}
          /\ commands' \in Seq(Orders) /\ Served(running, commands')
      <4>1. "idle" \in States
        BY DEF States
      <4> QED
        BY <1>5, <3>1, <4>1, EntersFacts
    <3> QED
      BY <1>1, <3>1, <3>2, SameTaskSound
  <2> QED
    BY <2>1, <2>2
<1> QED
  BY <1>3, <1>4, <1>6

LEMMA CallAnswered ==
    ASSUME Base, commands # <<>>, NEW c, c = Head(commands), c.by # "task",
           NEW o \in Outcomes(c), AnsweredCall(c, o, Tail(commands)), UNCHANGED network
    PROVE  /\ Sound /\ SettingsOK' /\ Heard'
           /\ queue' \in Seq(Tasks) /\ QueueOK' /\ missed' \subseteq Nodes
           /\ UNCHANGED running \/ running' = NoTask
<1> DEFINE cs == Tail(commands)
<1>1. /\ Decent(c) /\ cs \in Seq(Orders) /\ Served(running, cs)
      /\ c.by = "caller" => running.pc # "removing"
  BY OtherFacts
<1>2. AnsweredCall(c, o, cs)
  OBVIOUS
<1> HIDE DEF cs
<1>3. CASE c.by = "caller" /\ o = "ok"
  <2>1. Stopped(IF c.op = "stopAdd" THEN InclusionTasks ELSE {"exclude"}, cs)
    BY <1>2, <1>3 DEF AnsweredCall
  <2> QED
    BY <1>1, <1>3, <2>1, StoppedFacts
<1>4. CASE ~(c.by = "caller" /\ o = "ok")
  <2>1. UNCHANGED <<settings, known, tasks, missed>>
    BY <1>2, <1>4 DEF AnsweredCall
  <2>2. UNCHANGED <<smartStartEnabled, provisioning, failedAttempts, nodes, withDSK, running, queue>>
    BY <2>1 DEF settings, known, tasks
  <2>3. /\ SettingsOK' /\ queue' \in Seq(Tasks) /\ QueueOK' /\ missed' \subseteq Nodes
    BY <2>1, <2>2, SettingsFacts DEF Base, Types, QueueOK
  <2>4. Heard'
    BY <2>1, <2>2, HeardKept
  <2>5. \/ Enters("idle", cs, smartStartEnabled)
        \/ Enters("smartStart", cs, smartStartEnabled)
        \/ commands' = cs /\ UNCHANGED inclusionState
    BY <1>2, <1>4 DEF AnsweredCall, SetInclusionState
  <2>6. /\ inclusionState' \in States
        /\ inclusionState' \in {inclusionState, "idle", "smartStart"}
        /\ commands' \in Seq(Orders) /\ Served(running, commands')
    <3>1. "idle" \in States /\ "smartStart" \in States /\ running \in Tasks
          /\ inclusionState \in States
      BY BaseFacts DEF States
    <3>2. CASE Enters("idle", cs, smartStartEnabled)
      BY <1>1, <3>1, <3>2, EntersFacts
    <3>3. CASE Enters("smartStart", cs, smartStartEnabled)
      BY <1>1, <3>1, <3>3, EntersFacts
    <3>4. CASE commands' = cs /\ UNCHANGED inclusionState
      BY <1>1, <3>1, <3>4
    <3> QED
      BY <2>5, <3>2, <3>3, <3>4
  <2>7. Sound
    BY <2>2, <2>6, SameTaskSound
  <2> QED
    BY <2>2, <2>3, <2>4, <2>5, <2>7
<1> QED
  BY <1>3, <1>4

(* What the controller does after a command.                               *)
LEMMA ModeAfterFacts ==
    ASSUME Base, NEW c \in Orders, Decent(c)
    PROVE  LET m == ModeAfter(c)
           IN  /\ m \in Modes
               /\ m.stage = "node" \/ m.k = "replace" => m.node \in Nodes
               /\ m.k \in {"off", "listen"} => m.stage = "ready"
               /\ m.k \in {"add", "remove"} => m.stage # "asked"
               /\ m.k = "replace" => m.stage \in {"asked", "ready"}
               /\ c.op \notin StartOps \cup {"removeFailed"} => m.k \in {"off", "listen"}
<1>1. mode \in Modes /\ ModeOK /\ c.node \in Maybe(Nodes)
  BY DEF Base, Types, Orders
<1> DEFINE m == ModeAfter(c)
<1>2. CASE c.op = "removeFailed"
  <2>1. m = mode
    BY <1>2 DEF ModeAfter
  <2> HIDE DEF m
  <2> QED
    BY <1>1, <1>2, <2>1 DEF ModeOK, m
<1>3. CASE c.op = "replaceFailed"
  <2>1. m = [k |-> "replace", stage |-> "asked", node |-> c.node]
    BY <1>3 DEF ModeAfter
  <2>2. c.node \in Nodes
    BY <1>3 DEF Decent
  <2> HIDE DEF m
  <2>3. m \in Modes /\ m.k = "replace" /\ m.stage = "asked" /\ m.node = c.node
    BY <1>1, <2>1 DEF Modes
  <2> QED
    BY <1>3, <2>2, <2>3 DEF StartOps, m
<1>4. CASE c.op \in {"add", "addDSK", "remove"}
  <2>1. \/ m = [Off EXCEPT !.k = "add"]
        \/ m = [Off EXCEPT !.k = "add", !.node = c.node]
        \/ m = [Off EXCEPT !.k = "remove"]
    BY <1>4 DEF ModeAfter
  <2> HIDE DEF m
  <2>2. m \in Modes /\ m.k \in {"add", "remove"} /\ m.stage = "ready"
    BY <1>1, <2>1 DEF Modes, Off, Maybe
  <2> QED
    BY <1>4, <2>2 DEF StartOps, m
<1>5. CASE c.op \notin StartOps \cup {"removeFailed"}
  <2>1. m = [Off EXCEPT !.k = "listen"] \/ m = Off
    BY <1>5 DEF ModeAfter, StartOps
  <2> HIDE DEF m
  <2>2. m \in Modes /\ m.k \in {"off", "listen"} /\ m.stage = "ready"
    BY <2>1 DEF Modes, Off, Maybe
  <2> QED
    BY <1>5, <2>2 DEF m
<1> QED
  BY <1>2, <1>3, <1>4, <1>5 DEF StartOps

LEMMA ExecuteStep ==
    ASSUME Base, Execute
    PROVE  Base'
<1> DEFINE c == Head(commands)
<1>1. commands # <<>> /\ UNCHANGED <<made, calls>>
  BY DEF Execute
<1>2. PICK o \in Outcomes(c) : \E done \in Executed(c, o) :
         /\ mode' = IF done THEN ModeAfter(c) ELSE mode
         /\ network' = IF c.op = "removeFailed" /\ done THEN network \ {c.node} ELSE network
         /\ faults' \in {faults, faults + 1}
         /\ crossed' = (\/ crossed \/ Late(c, o, Tail(commands))
                        \/ done /\ o # "ok")
         /\ IF c.by = "task"
              THEN /\ Answered(c, o, Tail(commands))
                   /\ missed' = missed \cup Unnoticed(c, o, done)
                   /\ UNCHANGED queue
              ELSE AnsweredCall(c, o, Tail(commands))
  BY DEF Execute
<1>9. PICK done \in Executed(c, o) :
         /\ mode' = IF done THEN ModeAfter(c) ELSE mode
         /\ network' = IF c.op = "removeFailed" /\ done THEN network \ {c.node} ELSE network
         /\ faults' \in {faults, faults + 1}
         /\ crossed' = (\/ crossed \/ Late(c, o, Tail(commands))
                        \/ done /\ o # "ok")
         /\ IF c.by = "task"
              THEN /\ Answered(c, o, Tail(commands))
                   /\ missed' = missed \cup Unnoticed(c, o, done)
                   /\ UNCHANGED queue
              ELSE AnsweredCall(c, o, Tail(commands))
  BY <1>2
<1>10. crossed' \in BOOLEAN
  BY <1>9, ExecutedFacts DEF Late, Base, Types
<1>3. c \in Orders /\ Decent(c)
  <2>1. CASE c.by = "task"
    BY <1>1, <2>1, OwnFacts
  <2>2. CASE c.by # "task"
    BY <1>1, <2>2, OtherFacts
  <2> QED
    BY <2>1, <2>2
<1>4. c = Head(commands)
  OBVIOUS
<1> HIDE DEF c
<1>5. mode' \in Modes /\ ModeOK'
  <2>1. CASE done
    BY <1>9, <1>3, <2>1, ModeAfterFacts DEF ModeOK
  <2>2. CASE ~done
    BY <1>9, <2>2 DEF Base, Types, ModeOK
  <2> QED
    BY <2>1, <2>2
<1>6. network' \subseteq Nodes /\ made' \in Nat /\ calls' \in Nat /\ faults' \in Nat
  BY <1>1, <1>9 DEF Base, Types
<1>7. CASE c.by = "task"
  <2>1. /\ Answered(c, o, Tail(commands)) /\ UNCHANGED queue
        /\ missed' = missed \cup Unnoticed(c, o, done)
    BY <1>9, <1>7
  <2>2. Sound /\ SettingsOK' /\ Linked' /\ Heard'
    BY <1>1, <1>9, <1>4, <1>7, <2>1, OwnAnswered
  <2>3. missed' \subseteq Nodes
    <3>1. c.op = "finish" => running.found \in Nodes
      <4>1. IsOwn(running, c) /\ running \in Tasks /\ RunsOK(running)
        BY <1>1, <1>4, <1>7, OwnFacts, BaseFacts
      <4>2. StartOf(running.kind).op # "finish"
        BY DEF StartOf, None
      <4>3. c.op = "finish" => running.pc = "finishing"
        BY <4>1, <4>2 DEF IsOwn, OwnOp
      <4> QED
        BY <4>1, <4>3 DEF RunsOK
    <3>2. c.op = "removeFailed" => c.node \in Nodes
      <4>1. /\ IsOwn(running, c) /\ Suits(running) /\ running.pc \in PCsOf(running.kind)
            /\ HasNode(running) => running.found \in Nodes
        BY <1>1, <1>4, <1>7, OwnFacts, BaseFacts
      <4>2. StartOf(running.kind).op # "removeFailed"
        BY DEF StartOf, None
      <4>3. c.op = "removeFailed" => running.pc = "removing" /\ c.node = FailingOf(running)
        BY <4>1, <4>2 DEF IsOwn, OwnOp, Working
      <4>4. running.pc = "removing" => running.kind \in {"remove", "smartStart"}
        BY <4>1 DEF PCsOf, Joins, Suits, Kinds
      <4> QED
        BY <4>1, <4>3, <4>4 DEF FailingOf, HasNode, Suits
    <3> QED
      BY <2>1, <3>1, <3>2, BaseFacts DEF Unnoticed
  <2>4. Others'
    BY <1>5, <1>6, <1>10, <2>1, <2>2, <2>3 DEF Base, Types, Others, QueueOK, SettingsOK
  <2> QED
    BY <1>5, <2>2, <2>4, Closed
<1>8. CASE c.by # "task"
  <2>1. AnsweredCall(c, o, Tail(commands)) /\ UNCHANGED network
    BY <1>9, <1>3, <1>8 DEF Decent
  <2>2. /\ Sound /\ SettingsOK' /\ Heard'
        /\ queue' \in Seq(Tasks) /\ QueueOK' /\ missed' \subseteq Nodes
        /\ UNCHANGED running \/ running' = NoTask
    BY <1>1, <1>4, <1>8, <2>1, CallAnswered
  <2>3. Others'
    BY <1>5, <1>6, <1>10, <2>2 DEF Others, SettingsOK
  <2>4. Linked'
    <3>1. CASE running' = NoTask
      BY <3>1, NoTaskFacts DEF Linked
    <3>2. CASE UNCHANGED running /\ running.pc \notin Awaits
      BY <3>2 DEF Linked
    <3>3. CASE UNCHANGED running /\ running.pc \in Awaits
      <4>1. c.op \notin StartOps \cup {"removeFailed"}
        BY <1>1, <1>3, <1>4, <1>8, <3>3, OtherFacts DEF Decent
      <4>2. CASE done
        <5>1. mode'.k \in {"off", "listen"}
          BY <1>9, <1>3, <4>1, <4>2, ModeAfterFacts
        <5> QED
          BY <5>1 DEF Linked, Hears
      <4>3. CASE ~done
        BY <1>9, <2>1, <3>3, <4>3 DEF Base, Linked, Hears, StageOf
      <4> QED
        BY <4>2, <4>3
    <3> QED
      BY <2>2, <3>1, <3>2, <3>3
  <2> QED
    BY <1>5, <2>2, <2>3, <2>4, Closed
<1> QED
  BY <1>7, <1>8

-----------------------------------------------------------------------------
(* Talking to the node, and the soft reset                                 *)

(* A task that waits for nothing in the queue of commands.                 *)
LEMMA FreeFacts ==
    ASSUME Base, running.pc \in {"bootstraps", "pinging"}
    PROVE  /\ commands \in Seq(Orders) /\ AllDecent(commands) /\ NoOwn(commands)
           /\ running \in Tasks /\ Suits(running) /\ running.pc \in PCsOf(running.kind)
           /\ HasNode(running) => running.found \in nodes
           /\ ~Learns(running) /\ (nodes \ network) \cup (network \ nodes) \subseteq missed
<1>1. running.pc \notin Working /\ ~Learns(running) /\ running # NoTask
  BY NoTaskFacts DEF Working, Learns
<1> QED
  BY <1>1, BaseFacts, InSync DEF RunsOK

(* Such a task is over, or waits on.                                       *)
LEMMA Done ==
    ASSUME Base, Sound, SettingsOK', running'.pc \notin Awaits, ~Learns(running'),
           (nodes' \ network') \cup (network' \ nodes') \subseteq missed',
           UNCHANGED <<queue, mode, network, missed, crossed, bounds>>
    PROVE  Base'
<1>1. Others' /\ ModeOK'
  BY DEF Base, Types, Others, QueueOK, SettingsOK, ModeOK, bounds
<1>2. Linked'
  BY DEF Linked
<1>3. Heard'
  BY DEF Heard
<1> QED
  BY <1>1, <1>2, <1>3, Closed

LEMMA BootstrappedStep ==
    ASSUME Base, Bootstrapped
    PROVE  Base'
<1>1. /\ running.pc = "bootstraps"
      /\ withDSK' \in {withDSK, withDSK \cup ({running.found} \cap DSKs)}
      /\ failedAttempts' = IF running.kind = "smartStart"
                             THEN [failedAttempts EXCEPT ![running.node] = 0]
                             ELSE failedAttempts
      /\ running' = NoTask /\ Enters("idle", commands, smartStartEnabled)
      /\ UNCHANGED <<smartStartEnabled, provisioning, nodes, queue, mode, network, missed,
                     crossed, bounds>>
  BY DEF Bootstrapped, Finishes, Ends, SetInclusionState
<1>2. running.found \in nodes
  BY <1>1, FreeFacts DEF HasNode
<1>3. nodes' \subseteq Nodes /\ withDSK' \subseteq nodes' \cap DSKs
  BY <1>1, <1>2, BaseFacts
<1>4. Sound
  BY <1>1, <1>3, FreeFacts, FinishesSound
<1>5. SettingsOK'
  BY <1>1, FreeFacts, SettingsFacts DEF SettingsOK, Suits
<1> QED
  BY <1>1, <1>4, <1>5, FreeFacts, NoTaskFacts, Done

LEMMA BootstrapFailsStep ==
    ASSUME Base, BootstrapFails
    PROVE  Base'
<1> DEFINE d == running.node
           last == failedAttempts[d] + 1 >= MaxAttempts /\ provisioning[d] # None
<1>1. /\ running.pc = "bootstraps" /\ running.kind = "smartStart"
      /\ failedAttempts' = [failedAttempts EXCEPT ![d] = IF last THEN 0 ELSE @ + 1]
      /\ provisioning' = [provisioning EXCEPT ![d] = IF last THEN "inactive" ELSE @]
      /\ withDSK' \in {withDSK, withDSK \cup {d}}
      /\ \/ Goes("blocked") /\ UNCHANGED <<inclusionState, commands>>
         \/ Sends("stopListen", "leaving") /\ UNCHANGED inclusionState
         \/ Goes("pinging") /\ inclusionState' = "busy" /\ UNCHANGED commands
      /\ UNCHANGED <<smartStartEnabled, nodes, queue, mode, network, missed, crossed, bounds>>
  BY DEF BootstrapFails
<1>2. running.found \in nodes /\ d \in DSKs /\ d \in nodes
  <2>1. running.found \in nodes /\ running.found # None
    BY <1>1, FreeFacts, BaseFacts, NodesAssumption DEF HasNode
  <2>2. d \in DSKs /\ running.found \in Maybe({d})
    BY <1>1, FreeFacts DEF Suits
  <2> QED
    BY <2>1, <2>2 DEF Maybe
<1>3. SettingsOK'
  <2>1. failedAttempts[d] + 1 \in Nat /\ provisioning[d] \in {None, "active", "inactive"}
    BY <1>2, SettingsFacts DEF SettingsOK
  <2> HIDE DEF d, last
  <2> QED
    BY <1>1, <1>2, <2>1, SettingsFacts DEF SettingsOK
<1>4. nodes' \subseteq Nodes /\ withDSK' \subseteq nodes' \cap DSKs
  BY <1>1, <1>2, BaseFacts
<1>5. PICK pc \in {"blocked", "leaving", "pinging"} :
         /\ running' = [running EXCEPT !.pc = pc]
         /\ pc # "pinging" => UNCHANGED inclusionState
         /\ pc = "pinging" => inclusionState' = "busy"
         /\ commands' = IF pc = "leaving"
                           THEN Append(commands, Command("stopListen", "task", running))
                           ELSE commands
  BY <1>1 DEF Goes, Sends
<1> DEFINE r == [running EXCEPT !.pc = pc]
<1>6. /\ r \in Tasks /\ r.pc = pc /\ r.kind = running.kind /\ r.found = running.found
      /\ r.id = running.id /\ r.node = running.node /\ Suits(r)
  <2>1. pc \in PCs
    BY DEF PCs
  <2> QED
    BY <1>1, <2>1, FreeFacts, GoesFacts
<1> HIDE DEF r
<1>7. r.pc \notin Awaits /\ ~Learns(r) /\ r.pc # "finishing"
  BY <1>6 DEF Awaits, Learns
<1>8. r.pc \in PCsOf(r.kind)
  BY <1>1, <1>6 DEF PCsOf
<1>9. commands' \in Seq(Orders) /\ Served(r, commands')
  <2>1. CASE pc = "leaving"
    <3>1. "stopListen" = OwnOp(r) /\ "stopListen" \in Ops /\ r.pc \in Working
      BY <1>6, <2>1 DEF OwnOp, Ops, StartOps, Working
    <3>2. commands' = Append(commands, Command("stopListen", "task", running))
      BY <1>5, <2>1
    <3> QED
      BY <1>1, <1>6, <2>1, <3>1, <3>2, FreeFacts, OwnSent
  <2>2. CASE pc # "leaving"
    <3>1. r.pc \notin Working /\ commands' = commands
      BY <1>5, <1>6, <2>2 DEF Working
    <3> QED
      BY <1>1, <1>6, <1>7, <3>1, FreeFacts, ServedFree
  <2> QED
    BY <2>1, <2>2
<1>10. RunOK' /\ Apart' /\ inclusionState' \in States
  <2>1. RunsOK(r)
    BY <1>6, <1>7, <1>8, Reached
  <2>2. running' = r
    BY <1>5 DEF r
  <2>3. RunOK'
    BY <1>1, <1>2, <1>6, <2>1, <2>2 DEF RunOK
  <2>4. r.pc = "pinging" => inclusionState' = "busy"
    BY <1>5, <1>6
  <2>5. inclusionState' \in States
    BY <1>5, BaseFacts DEF States
  <2>6. Apart'
    BY <1>6, <2>2, <2>4 DEF Apart
  <2> QED
    BY <2>3, <2>5, <2>6
<1>11. Sound
  BY <1>1, <1>4, <1>5, <1>6, <1>9, <1>10, FreeFacts DEF Sound, r
<1>12. running' = r
  BY <1>5 DEF r
<1> QED
  BY <1>1, <1>3, <1>7, <1>11, <1>12, FreeFacts, Done

LEMMA PingAnsweredStep ==
    ASSUME Base, PingAnswered
    PROVE  Base'
<1>1. /\ running.pc = "pinging" /\ NotRemovedAfterAll(commands)
      /\ UNCHANGED <<queue, mode, network, missed, crossed, bounds>>
  BY DEF PingAnswered
<1>2. Sound /\ SettingsOK' /\ running' = NoTask /\ UNCHANGED nodes
  BY <1>1, FreeFacts, NotRemovedSound
<1> QED
  BY <1>1, <1>2, FreeFacts, NoTaskFacts, Done

LEMMA PingFailsStep ==
    ASSUME Base, PingFails
    PROVE  Base'
<1>1. /\ running.pc = "pinging" /\ commands = <<>>
      /\ UNCHANGED <<inclusionState, settings, known, queue, mode, network, missed, crossed,
                     bounds>>
      /\ IF running.kind = "replace" THEN Sends("replaceFailed", "starting")
         ELSE /\ Goes("removing")
              /\ commands' = Append(commands, [Command("removeFailed", "task", running)
                                                EXCEPT !.node = Failing])
  BY DEF PingFails
<1>2. UNCHANGED <<nodes, withDSK>> /\ SettingsOK'
  BY <1>1, SettingsFacts DEF known
<1>3. /\ commands \in Seq(Orders) /\ AllDecent(commands) /\ NoOwn(commands)
      /\ running \in Tasks /\ Suits(running) /\ running.pc \in PCsOf(running.kind)
      /\ (nodes \ network) \cup (network \ nodes) \subseteq missed
  BY <1>1, FreeFacts
<1>4. Apart' /\ inclusionState' \in States
  <2>1. Apart
    BY DEF Base
  <2> QED
    BY <1>1, <2>1, BaseFacts DEF Apart
<1>5. CASE running.kind = "replace"
  <2> DEFINE r == [running EXCEPT !.pc = "starting"]
  <2>1. running' = r /\ commands' = Append(commands, Command("replaceFailed", "task", running))
    BY <1>1, <1>5 DEF Sends, Goes
  <2>2. /\ r \in Tasks /\ r.pc = "starting" /\ r.id = running.id /\ r.kind = running.kind
        /\ r.node = running.node /\ Suits(r)
    <3>1. "starting" \in PCs
      BY DEF PCs
    <3> QED
      BY <1>3, <3>1, GoesFacts
  <2> HIDE DEF r
  <2>3. /\ "replaceFailed" = OwnOp(r) /\ r.pc \in Working
        /\ "replaceFailed" \in Ops /\ running.node \in Nodes
    BY <1>3, <1>5, <2>2 DEF OwnOp, Working, Ops, StartOps, Suits
  <2>4. r.pc \in PCsOf(r.kind)
    BY <1>5, <2>2 DEF PCsOf
  <2>5. RunsOK(r) /\ ~HasNode(r) /\ ~Learns(r) /\ r.pc \notin Awaits
    BY <2>2, <2>4, Reached DEF HasNode, Learns, Awaits
  <2>6. commands' \in Seq(Orders) /\ Served(r, commands')
    BY <1>3, <2>1, <2>2, <2>3, OwnSent
  <2>7. Sound
    BY <1>2, <1>4, <2>1, <2>2, <2>5, <2>6, GoesSound
  <2> QED
    BY <1>1, <1>2, <1>3, <2>1, <2>5, <2>7, Done
<1>6. CASE running.kind # "replace"
  <2> DEFINE r == [running EXCEPT !.pc = "removing"]
             c == [Command("removeFailed", "task", running) EXCEPT !.node = Failing]
  <2>1. running' = r /\ commands' = Append(commands, c)
    BY <1>1, <1>6 DEF Goes
  <2>2. /\ r \in Tasks /\ r.pc = "removing" /\ r.id = running.id /\ r.kind = running.kind
        /\ r.node = running.node /\ r.found = running.found /\ Suits(r)
    <3>1. "removing" \in PCs
      BY DEF PCs
    <3> QED
      BY <1>3, <3>1, GoesFacts
  <2>3. running.kind \in {"remove", "smartStart"}
    BY <1>1, <1>3, <1>6 DEF PCsOf, Joins, Suits, Kinds
  <2>4. c \in Orders /\ c.op = "removeFailed" /\ c.by = "task" /\ c.for = running.id /\ c.node = Failing
    <3> DEFINE x == Command("removeFailed", "task", running)
    <3>1. x \in Orders /\ x.op = "removeFailed" /\ x.by = "task" /\ x.for = running.id
      <4>1. "removeFailed" \in Ops
        BY DEF Ops
      <4> QED
        BY <1>3, <4>1, CommandFacts
    <3>2. Failing \in Maybe(Nodes)
      BY <1>3 DEF Failing, Tasks
    <3> HIDE DEF x
    <3> QED
      BY <3>1, <3>2 DEF Orders, x
  <2> HIDE DEF r, c
  <2>5. Decent(c)
    BY <2>4 DEF Decent
  <2>6. IsOwn(r, c)
    BY <2>2, <2>4 DEF IsOwn, Working, OwnOp, FailingOf, Failing
  <2>7. NoCallers(commands)
    BY <1>1 DEF NoCallers
  <2>8. commands' \in Seq(Orders) /\ Served(r, commands')
    BY <1>3, <2>1, <2>2, <2>4, <2>5, <2>6, <2>7, OwnAdded
  <2>9. r.pc \in PCsOf(r.kind)
    BY <2>2, <2>3 DEF PCsOf
  <2>10. RunsOK(r) /\ ~Learns(r) /\ r.pc \notin Awaits
    BY <2>2, <2>9, Reached DEF Learns, Awaits
  <2>11. RunOK'
    <3>1. HasNode(r) => HasNode(running)
      BY <1>1, <2>2 DEF HasNode
    <3> QED
      BY <1>1, <1>2, <2>1, <2>2, <2>10, <3>1, FreeFacts DEF RunOK
  <2>12. Sound
    BY <1>2, <1>4, <2>1, <2>2, <2>8, <2>11, BaseFacts DEF Sound
  <2> QED
    BY <1>1, <1>2, <1>3, <2>1, <2>10, <2>12, Done
<1> QED
  BY <1>5, <1>6

LEMMA SoftResetStep ==
    ASSUME Base, SoftReset
    PROVE  Base'
<1>1. /\ mode' = Off /\ faults' = faults + 1 /\ Enters("idle", commands, smartStartEnabled)
      /\ crossed' = (\/ crossed \/ commands # <<>>
                     \/ running.pc \notin Awaits \cup {"ended"})
      /\ UNCHANGED <<settings, running, queue, nodes, withDSK, network, missed, made, calls>>
  BY DEF SoftReset, SetInclusionState, known, tasks
<1>2. mode' \in Modes /\ mode'.k = "off" /\ mode'.stage = "ready"
  BY <1>1 DEF Off, Modes, Maybe
<1>3. faults' \in Nat
  BY <1>1 DEF Base, Types
<1>4. Others' /\ ModeOK' /\ Linked'
  <2>1. crossed' \in BOOLEAN
    BY <1>1 DEF Base, Types
  <2>2. Others'
    BY <1>1, <1>2, <1>3, <2>1 DEF Base, Types, Others, QueueOK, settings
  <2> QED
    BY <1>2, <2>2 DEF ModeOK, Linked, Hears
<1>5. Heard'
  BY <1>1, HeardKept
<1>6. /\ inclusionState' \in States /\ inclusionState' \in {"idle", "smartStart"}
      /\ commands' \in Seq(Orders) /\ Served(running, commands')
  <2>1. "idle" \in States
    BY DEF States
  <2> QED
    BY <1>1, <2>1, BaseFacts, EntersFacts
<1>7. Sound
  BY <1>1, <1>6, SameTaskSound
<1> QED
  BY <1>4, <1>5, <1>7, Closed

-----------------------------------------------------------------------------
(* The invariant holds                                                     *)

LEMMA BaseInit ==
    ASSUME Init
    PROVE  Base
<1>1. Types
  <2>1. Off \in Modes
    BY DEF Off, Modes, Maybe
  <2>2. <<>> \in Seq(Tasks) /\ <<>> \in Seq(Orders)
    OBVIOUS
  <2> QED
    BY <2>1, <2>2, NoTaskFacts DEF Init, Types, States
<1>2. RunOK /\ Apart /\ Linked
  BY NoTaskFacts DEF Init, RunOK, Apart, Linked
<1>3. Served(NoTask, <<>>)
  BY NoTaskFacts DEF Served, AllDecent, NoOwn
<1>4. QueueOK
  BY DEF Init, QueueOK, ToSet
<1>5. ModeOK
  BY DEF Init, ModeOK, Off
<1>6. Heard
  BY NoTaskFacts DEF Init, Heard
<1> QED
  BY <1>1, <1>2, <1>3, <1>4, <1>5, <1>6 DEF Base, Init

LEMMA BaseStutter ==
    ASSUME Base, UNCHANGED vars
    PROVE  Base'
<1>1. UNCHANGED <<inclusionState, smartStartEnabled, provisioning, failedAttempts, nodes, withDSK,
                  running, queue, commands, mode, network, missed, crossed, made, calls, faults>>
  BY DEF vars, settings, known, tasks, bounds
<1>2. Others' /\ ModeOK' /\ Linked' /\ Heard'
  BY <1>1, NothingNew DEF Base, Types, Others, QueueOK
<1>3. Sound
  BY <1>1, BaseFacts, SameTaskSound
<1> QED
  BY <1>2, <1>3, Closed

LEMMA BaseStep ==
    ASSUME Base, [Next]_vars
    PROVE  Base'
<1>1. CASE Application
  BY <1>1, ProvisionStep, TaskQueued, StopSent DEF Application
<1>2. CASE Controller
  BY <1>2, TaskQueued, NodeFoundStep, NodeIsNamedStep, ProtocolDoneStep, NotRemovedStep,
     ReplaceStartsStep, ReplaceDoneStep, FailureReportedStep DEF Controller
<1>3. CASE Driver
  BY <1>3, StartTaskStep, ExecuteStep, BootstrappedStep, BootstrapFailsStep, PingAnsweredStep,
     PingFailsStep DEF Driver
<1>4. CASE SoftReset
  BY <1>4, SoftResetStep
<1>5. CASE UNCHANGED vars
  BY <1>5, BaseStutter
<1> QED
  BY <1>1, <1>2, <1>3, <1>4, <1>5 DEF Next

LEMMA BaseInvariant == Spec => []Base
<1>1. Init => Base
  BY BaseInit
<1>2. Base /\ [Next]_vars => Base'
  BY BaseStep
<1> QED
  BY <1>1, <1>2, PTL DEF Spec

(* The types; a task waits for one command at a time, and only the task    *)
(* that runs has one that is to be answered to it.                         *)
LEMMA BaseTypeOK ==
    ASSUME Base
    PROVE  TypeOK
<1>1. Types /\ RunsOK(running) /\ Served(running, commands) /\ QueueOK
  BY DEF Base, RunOK
<1>2. running.pc = "ended" <=> running = NoTask
  <2>1. running # NoTask => running.pc \in PCsOf(running.kind) /\ running.kind \in Kinds
    BY <1>1 DEF RunsOK, Suits
  <2>2. running # NoTask => running.pc # "ended"
    BY <2>1 DEF PCsOf, Joins
  <2> QED
    BY <2>2, NoTaskFacts
<1>3. \A t \in ToSet(queue) : t.kind \in Kinds /\ t.pc = "queued"
  BY <1>1 DEF QueueOK, Suits
<1> DEFINE mine == {i \in DOMAIN commands : commands[i].by = "task"}
<1>4. DOMAIN commands = 1..Len(commands)
  BY <1>1 DEF Types
<1>5. /\ \A i \in DOMAIN commands : commands[i].by = "task" => running.id = commands[i].for
      /\ \E j : mine \subseteq {j}
  <2>1. CASE running.pc \in Working
    <3>1. PICK j \in 1..Len(commands) : OwnAt(running, commands, j)
      BY <1>1, <2>1 DEF Served
    <3>2. /\ IsOwn(running, commands[j])
          /\ \A i \in 1..Len(commands) : i # j => commands[i].by # "task"
      BY <3>1 DEF OwnAt
    <3>3. mine \subseteq {j}
      BY <1>4, <3>2
    <3>4. \A i \in DOMAIN commands : commands[i].by = "task" => i = j
      BY <1>4, <3>2
    <3> HIDE DEF mine
    <3> QED
      BY <3>2, <3>3, <3>4 DEF IsOwn
  <2>2. CASE running.pc \notin Working
    <3>1. \A i \in DOMAIN commands : commands[i].by # "task"
      BY <1>1, <1>4, <2>2 DEF Served, NoOwn
    <3> QED
      BY <3>1
  <2> QED
    BY <2>1, <2>2
<1>6. Cardinality(mine) <= 1
  <2> HIDE DEF mine
  <2>1. PICK j : mine \subseteq {j}
    BY <1>5
  <2>2. IsFiniteSet({j}) /\ Cardinality({j}) = 1
    BY FS_Singleton
  <2> QED
    BY <2>1, <2>2, FS_Subset
<1> QED
  BY <1>1, <1>2, <1>3, <1>5, <1>6 DEF Types, TypeOK, Modes, States

(* Every variable has its type, no two commands wait for the same task,    *)
(* and an answer to a task is for the task that runs: a task that was      *)
(* dropped is answered no more.                                            *)
THEOREM TypeCorrect == Spec => []TypeOK
<1>1. Base => TypeOK
  BY BaseTypeOK
<1> QED
  BY <1>1, BaseInvariant, PTL

(* Whatever is called, reported, refused or reset, and in whatever order:  *)
(* the driver and the controller have the same nodes, except those whose   *)
(* joining or leaving the driver could not hear of, and the one that the   *)
(* running task is about to make known.                                    *)
THEOREM NodesKnown == Spec => []NodesInSync
<1>1. Base => NodesInSync
  BY DEF Base, Heard, NodesInSync
<1> QED
  BY <1>1, BaseInvariant, PTL

-----------------------------------------------------------------------------
(* Where the state and the controller agree                                *)

(* A controller that stops when it is told to: with stops that are refused *)
(* the state is left behind what the controller does.                      *)
Stops        == {"stopListen", "stopAdd", "stopRemove"}
StopsSucceed == Refusable \cap Stops = {}

(* What the controller does, also after a command, and when it executes    *)
(* the i-th of the commands or all of them.                                *)
Doing(m) == IF m.stage = "done" THEN "off" ELSE m.k
Does(op) == CASE op = "listen"             -> "listen"
              [] op \in {"add", "addDSK"}  -> "add"
              [] op = "remove"             -> "remove"
              [] op = "replaceFailed"      -> "replace"
              [] OTHER                     -> "off"
Before(cs, k, i) == IF i = 1 THEN k ELSE Does(cs[i - 1].op)
Finally(cs, k)   == Before(cs, k, Len(cs) + 1)
WorksFor(k, t) ==
    \/ k = "add" /\ t.kind \in Adds
    \/ k = "remove" /\ t.kind = "exclude"
    \/ k = "replace" /\ t.kind = "replace"

(* The calls that stop a task, and the state in which they may.            *)
StopOf(t)   == IF t.kind = "exclude" THEN "stopRemove" ELSE "stopAdd"
ActiveOf(t) == IF t.kind = "exclude" THEN "excluding" ELSE "including"
Mine(t, c)  == c.by = "caller" /\ c.for = t.id /\ c.op = StopOf(t)
AllMine(t, cs) == \A i \in 1..Len(cs) : Mine(t, cs[i])
Quiet(c)    == c.by \in {"disable", None} /\ Does(c.op) = "off"

(* What a dropped task left behind may fail, which makes no difference     *)
(* where nothing goes on.                                                  *)
Firm(k, cs) ==
    \A i \in 1..Len(cs) :
       cs[i].by = None /\ cs[i].op \in {"finish", "stopNoCallback"} => Before(cs, k, i) = "off"

(* An answer will come too late: the next one for a task or a caller, or   *)
(* one that switches SmartStart on, when something else has begun.         *)
Active == {"including", "excluding", "busy"}
Early  == {"ended", "pausing", "starting", "pinging"}
Fatal(t, s, c) ==
    \/ c.by = "caller" /\ c.for # t.id /\ t.pc \in Early
    \/ c.by = "enable" /\ s \in Active /\ t.pc \in {"starting", "pinging"}
Doomed(t, s, cs) ==
    \E i \in 1..Len(cs) :
       Fatal(t, s, cs[i]) /\ \A j \in 1..(i - 1) : cs[j].by \notin {"task", "caller"}

(* Nothing but SmartStart is on, or will be.                               *)
Calm(k, cs) ==
    /\ k \in {"off", "listen"} /\ Firm(k, cs)
    /\ \A i \in 1..Len(cs) : Does(cs[i].op) \in {"off", "listen"}
Follows(t, s, k, cs) ==
    /\ s \in {"idle", "smartStart"} /\ Calm(k, cs)
    /\ \A i \in 1..Len(cs) : cs[i].by = "caller" => t.pc = "ended" /\ Mine(t, cs[i])
    /\ Finally(cs, k) = IF s = "smartStart" THEN "listen" ELSE "off"

(* A task has begun what the controller does, or will once it hears of it. *)
Left(t, s, k, cs) == s \in {"busy", "including"} /\ k = "off" /\ AllMine(t, cs)
Starts(t, s, k, cs) ==
    /\ s = IF t.kind = "replace" THEN "busy" ELSE ActiveOf(t)
    /\ Firm(k, cs)
    /\ \E j \in 1..Len(cs) :
         /\ cs[j].by = "task" /\ Before(cs, k, j) = "off"
         /\ \A i \in 1..(j - 1) : Quiet(cs[i])
         /\ \A i \in (j + 1)..Len(cs) : Mine(t, cs[i])
Catches(t, s, k, cs) ==
    /\ s = IF t.pc = "awaitsReplace" THEN "busy" ELSE ActiveOf(t)
    /\ WorksFor(k, t) /\ AllMine(t, cs)
Closes(t, s, k, cs) ==
    /\ s = ActiveOf(t) /\ k # "listen" /\ (t.pc # "aborting" => k = "off")
    /\ \A i \in 1..Len(cs) : cs[i].by = "task" \/ Mine(t, cs[i])
Pings(s, k, cs) ==
    /\ s = "busy" /\ Firm(k, cs) /\ Finally(cs, k) = "off"
    /\ \A i \in 1..Len(cs) : Quiet(cs[i])

Good(t, s, k, cs) ==
    /\ t.pc = "ended" => Follows(t, s, k, cs) \/ Left(t, s, k, cs)
    /\ t.pc = "pausing" => s \in {"idle", "smartStart"} /\ Calm(k, cs) /\ NoCallers(cs)
    /\ t.pc = "starting" => Starts(t, s, k, cs)
    /\ t.pc \in Awaits => Follows(t, s, k, cs) \/ Catches(t, s, k, cs)
    /\ t.pc \in {"aborting", "finishing", "stopping"} => Closes(t, s, k, cs)
    /\ t.pc \in {"bootstraps", "blocked"} => s = "busy" /\ k = "off" /\ AllMine(t, cs)
    /\ t.pc = "blocked" => cs = <<>>
    /\ t.pc # "leaving"
    /\ t.pc = "pinging" => Pings(s, k, cs)
    /\ t.pc = "removing" => s = "busy" /\ k = "off" /\ Len(cs) = 1

(* Unless a call has crossed another.                                      *)
Agrees(t, s, k, cs) == Doomed(t, s, cs) \/ Good(t, s, k, cs)
Agreed  == crossed \/ Agrees(running, inclusionState, Doing(mode), commands)
Enabled == inclusionState = "smartStart" => smartStartEnabled

(* No caller and no command means a task that has not begun.               *)
Fors(cs) == {cs[i].for : i \in 1..Len(cs)}
NewIn(q, cs, t, m) ==
    /\ \A i \in 1..Len(q) : q[i].id \notin Fors(cs) \cup {t.id} /\ q[i].id <= m
    /\ \A i, j \in 1..Len(q) : i # j => q[i].id # q[j].id
    /\ \A i \in Fors(cs) \cup {t.id} : i <= m
IdsOK == NewIn(queue, commands, running, made)

LEMMA BeforeTail ==
    ASSUME NEW cs \in Seq(Orders), cs # <<>>
    PROVE  LET r == Tail(cs)
               d == Does(Head(cs).op)
           IN  /\ r \in Seq(Orders) /\ Len(cs) = Len(r) + 1 /\ Len(r) \in Nat /\ Head(cs) = cs[1]
               /\ \A i \in 1..Len(r) : r[i] = cs[i + 1] /\ i + 1 \in 1..Len(cs)
               /\ \A i \in 2..Len(cs) : cs[i] = r[i - 1] /\ i - 1 \in 1..Len(r)
               /\ \A k : \A i \in 1..(Len(r) + 1) : Before(r, d, i) = Before(cs, k, i + 1)
               /\ \A k : Finally(r, d) = Finally(cs, k)
<1> DEFINE r == Tail(cs)
           d == Does(Head(cs).op)
<1>1. /\ Head(cs) = cs[1] /\ r \in Seq(Orders) /\ Len(cs) \in Nat \ {0} /\ Len(r) = Len(cs) - 1
      /\ \A i \in 1..(Len(cs) - 1) : r[i] = cs[i + 1]
  BY TailFacts
<1>2. /\ Len(cs) = Len(r) + 1 /\ Len(r) \in Nat
      /\ \A i \in 1..Len(r) : r[i] = cs[i + 1] /\ i + 1 \in 1..Len(cs)
  BY <1>1
<1>3. \A i \in 2..Len(cs) : cs[i] = r[i - 1] /\ i - 1 \in 1..Len(r)
  BY <1>1
<1>4. d = Does(cs[1].op)
  BY <1>1
<1> HIDE DEF r, d
<1>5. ASSUME NEW k, NEW i \in 1..(Len(r) + 1)
      PROVE  Before(r, d, i) = Before(cs, k, i + 1)
  <2>1. CASE i = 1
    BY <1>4, <2>1 DEF Before
  <2>2. CASE i # 1
    <3>1. i - 1 \in 1..Len(r) /\ (i - 1) + 1 = (i + 1) - 1 /\ i + 1 # 1
      BY <1>2, <2>2
    <3>2. r[i - 1] = cs[(i + 1) - 1]
      BY <1>2, <3>1
    <3> QED
      BY <2>2, <3>1, <3>2 DEF Before
  <2> QED
    BY <2>1, <2>2
<1>6. ASSUME NEW k PROVE Finally(r, d) = Finally(cs, k)
  <2>1. Len(r) + 1 \in 1..(Len(r) + 1)
    BY <1>2
  <2> QED
    BY <1>2, <1>5, <2>1 DEF Finally
<1> QED
  BY <1>1, <1>2, <1>3, <1>5, <1>6 DEF r, d

LEMMA BeforeAppend ==
    ASSUME NEW cs \in Seq(Orders), NEW x \in Orders
    PROVE  LET r == Append(cs, x)
           IN  /\ r \in Seq(Orders) /\ Len(r) = Len(cs) + 1 /\ Len(cs) \in Nat
               /\ \A i \in 1..Len(cs) : r[i] = cs[i]
               /\ r[Len(cs) + 1] = x /\ 1..Len(r) = (1..Len(cs)) \cup {Len(cs) + 1}
               /\ \A k : \A i \in 1..(Len(cs) + 1) : Before(r, k, i) = Before(cs, k, i)
               /\ \A k : Finally(r, k) = Does(x.op)
<1> DEFINE r == Append(cs, x)
<1>1. /\ r \in Seq(Orders) /\ Len(r) = Len(cs) + 1 /\ Len(cs) \in Nat
      /\ \A i \in 1..Len(cs) : r[i] = cs[i]
      /\ r[Len(cs) + 1] = x
  BY AppendFacts
<1>2. 1..Len(r) = (1..Len(cs)) \cup {Len(cs) + 1}
  BY <1>1
<1> HIDE DEF r
<1>3. ASSUME NEW k, NEW i \in 1..(Len(cs) + 1)
      PROVE  Before(r, k, i) = Before(cs, k, i)
  <2>1. i # 1 => i - 1 \in 1..Len(cs)
    BY <1>1
  <2> QED
    BY <1>1, <2>1 DEF Before
<1>4. ASSUME NEW k PROVE Finally(r, k) = Does(x.op)
  <2>1. (Len(r) + 1) - 1 = Len(cs) + 1 /\ Len(r) + 1 # 1
    BY <1>1
  <2> QED
    BY <1>1, <2>1 DEF Finally, Before
<1> QED
  BY <1>1, <1>2, <1>3, <1>4 DEF r

LEMMA FirmTail ==
    ASSUME NEW cs \in Seq(Orders), cs # <<>>, NEW k, Firm(k, cs)
    PROVE  /\ Firm(Does(Head(cs).op), Tail(cs))
           /\ Does(Head(cs).op) # "off" => \A l : Firm(l, Tail(cs))
<1> DEFINE r == Tail(cs)
           d == Does(Head(cs).op)
<1>1. /\ \A i \in 1..Len(r) : r[i] = cs[i + 1] /\ i + 1 \in 1..Len(cs)
      /\ \A i \in 1..(Len(r) + 1) : Before(r, d, i) = Before(cs, k, i + 1)
      /\ Len(r) \in Nat
  BY BeforeTail
<1> HIDE DEF r, d
<1>2. Firm(d, r)
  <2>1. \A i \in 1..Len(r) : i \in 1..(Len(r) + 1)
    BY <1>1
  <2> QED
    BY <1>1, <2>1 DEF Firm
<1>3. ASSUME d # "off", NEW l PROVE Firm(l, r)
  <2>1. ASSUME NEW i \in 1..Len(r), r[i].by = None /\ r[i].op \in {"finish", "stopNoCallback"}
        PROVE  Before(r, l, i) = "off"
    <3>1. Before(r, d, i) = "off"
      BY <1>2, <2>1 DEF Firm
    <3>2. i # 1
      BY <1>3, <3>1 DEF Before
    <3> QED
      BY <3>1, <3>2 DEF Before
  <2> QED
    BY <2>1 DEF Firm
<1> QED
  BY <1>2, <1>3 DEF r, d

LEMMA FirmAppend ==
    ASSUME NEW cs \in Seq(Orders), NEW x \in Orders, NEW k, Firm(k, cs), x.by # None
    PROVE  Firm(k, Append(cs, x))
<1> DEFINE r == Append(cs, x)
<1>1. /\ \A i \in 1..Len(cs) : r[i] = cs[i] /\ i \in 1..(Len(cs) + 1)
      /\ r[Len(cs) + 1] = x /\ 1..Len(r) = (1..Len(cs)) \cup {Len(cs) + 1}
      /\ \A i \in 1..(Len(cs) + 1) : Before(r, k, i) = Before(cs, k, i)
  BY BeforeAppend
<1> HIDE DEF r
<1>2. ASSUME NEW i \in 1..Len(r), r[i].by = None /\ r[i].op \in {"finish", "stopNoCallback"}
      PROVE  Before(r, k, i) = "off"
  <2>1. i \in 1..Len(cs)
    BY <1>1, <1>2
  <2> QED
    BY <1>1, <1>2, <2>1 DEF Firm
<1> QED
  BY <1>2 DEF Firm, r

(* Nothing goes on, so nothing is left that may fail.                      *)
LEMMA FirmOff ==
    ASSUME NEW cs \in Seq(Orders), NEW k, Firm(k, cs)
    PROVE  Firm("off", cs)
<1>1. \A i \in 1..Len(cs) : Before(cs, k, i) = "off" => Before(cs, "off", i) = "off"
  BY DEF Before
<1> QED
  BY <1>1 DEF Firm

LEMMA FinallyFacts ==
    ASSUME NEW cs \in Seq(Orders), NEW k
    PROVE  /\ cs = <<>> => Finally(cs, k) = k
           /\ cs # <<>> => Finally(cs, k) = Does(cs[Len(cs)].op) /\ Len(cs) \in 1..Len(cs)
<1>1. Len(cs) \in Nat /\ (cs = <<>> <=> Len(cs) = 0)
  OBVIOUS
<1>2. Len(cs) # 0 => Len(cs) + 1 # 1 /\ (Len(cs) + 1) - 1 = Len(cs) /\ Len(cs) \in 1..Len(cs)
  BY <1>1
<1> QED
  BY <1>1, <1>2 DEF Finally, Before

-----------------------------------------------------------------------------
(* At rest                                                                 *)

LEMMA CalmTail ==
    ASSUME NEW cs \in Seq(Orders), cs # <<>>, NEW k, Calm(k, cs)
    PROVE  Calm(Does(Head(cs).op), Tail(cs))
<1>1. /\ \A i \in 1..Len(Tail(cs)) : Tail(cs)[i] = cs[i + 1] /\ i + 1 \in 1..Len(cs)
      /\ Head(cs) = cs[1] /\ Len(cs) = Len(Tail(cs)) + 1 /\ Len(Tail(cs)) \in Nat
  BY BeforeTail
<1>2. 1 \in 1..Len(cs)
  BY <1>1
<1>3. Firm(Does(Head(cs).op), Tail(cs))
  BY FirmTail DEF Calm
<1> QED
  BY <1>1, <1>2, <1>3 DEF Calm

LEMMA CalmAppend ==
    ASSUME NEW cs \in Seq(Orders), NEW x \in Orders, NEW k, Calm(k, cs), x.by # None,
           Does(x.op) \in {"off", "listen"}
    PROVE  Calm(k, Append(cs, x))
<1>1. /\ \A i \in 1..Len(cs) : Append(cs, x)[i] = cs[i]
      /\ Append(cs, x)[Len(cs) + 1] = x
      /\ 1..Len(Append(cs, x)) = (1..Len(cs)) \cup {Len(cs) + 1}
  BY BeforeAppend
<1>2. Firm(k, Append(cs, x))
  BY FirmAppend DEF Calm
<1> QED
  BY <1>1, <1>2 DEF Calm

LEMMA FollowsTail ==
    ASSUME NEW cs \in Seq(Orders), cs # <<>>, NEW t, NEW s, NEW k, Follows(t, s, k, cs)
    PROVE  Follows(t, s, Does(Head(cs).op), Tail(cs))
<1>1. /\ \A i \in 1..Len(Tail(cs)) : Tail(cs)[i] = cs[i + 1] /\ i + 1 \in 1..Len(cs)
      /\ Finally(Tail(cs), Does(Head(cs).op)) = Finally(cs, k)
  BY BeforeTail
<1>2. Calm(Does(Head(cs).op), Tail(cs))
  BY CalmTail DEF Follows
<1> QED
  BY <1>1, <1>2 DEF Follows

(* SmartStart is switched on or off: the last command says so.             *)
LEMMA Switched ==
    ASSUME NEW cs \in Seq(Orders), NEW t, NEW k, NEW s \in {"idle", "smartStart"},
           NEW x \in Orders, x.by \in {"enable", "disable"},
           Does(x.op) = (IF s = "smartStart" THEN "listen" ELSE "off"), Calm(k, cs),
           \A i \in 1..Len(cs) : cs[i].by = "caller" => t.pc = "ended" /\ Mine(t, cs[i])
    PROVE  Follows(t, s, k, Append(cs, x))
<1>1. /\ \A i \in 1..Len(cs) : Append(cs, x)[i] = cs[i]
      /\ Append(cs, x)[Len(cs) + 1] = x
      /\ 1..Len(Append(cs, x)) = (1..Len(cs)) \cup {Len(cs) + 1}
      /\ Finally(Append(cs, x), k) = Does(x.op)
  BY BeforeAppend
<1>2. x.by # None /\ x.by # "caller"
  BY DEF None
<1>3. Calm(k, Append(cs, x))
  BY <1>2, CalmAppend
<1> QED
  BY <1>1, <1>2, <1>3 DEF Follows

LEMMA ListenFacts ==
    LET c == Command("listen", "enable", NoTask)
    IN  c \in Orders /\ c.by = "enable" /\ c.op = "listen" /\ c.for = 0 /\ Does(c.op) = "listen"
<1>1. "listen" \in Ops /\ NoTask \in Tasks /\ NoTask.id = 0
  BY NoTaskFacts DEF Ops
<1>2. Does("listen") = "listen"
  BY DEF Does
<1> DEFINE c == Command("listen", "enable", NoTask)
<1>3. c \in Orders /\ c.op = "listen" /\ c.by = "enable" /\ c.for = NoTask.id
  BY <1>1, CommandFacts
<1> HIDE DEF c
<1> QED
  BY <1>1, <1>2, <1>3 DEF c

(* The state becomes idle, and where SmartStart is enabled that again.     *)
LEMMA EntersIdle ==
    ASSUME NEW cs \in Seq(Orders), NEW t, NEW k, NEW e, Enters("idle", cs, e), Calm(k, cs),
           \A i \in 1..Len(cs) : cs[i].by = "caller" => t.pc = "ended" /\ Mine(t, cs[i]),
           Finally(cs, k) = "off" \/ (inclusionState # "idle" /\ e)
    PROVE  Follows(t, inclusionState', k, commands')
<1>1. CASE inclusionState # "idle" /\ e
  <2>1. /\ inclusionState' = "smartStart"
        /\ commands' = Append(cs, Command("listen", "enable", NoTask))
    BY <1>1 DEF Enters
  <2> DEFINE x == Command("listen", "enable", NoTask)
  <2>2. x \in Orders /\ x.by \in {"enable", "disable"} /\ Does(x.op) = "listen"
    BY ListenFacts
  <2> HIDE DEF x
  <2>3. Follows(t, "smartStart", k, Append(cs, x))
    BY <2>2, Switched
  <2> QED
    BY <2>1, <2>3 DEF x
<1>2. CASE ~(inclusionState # "idle" /\ e)
  <2>1. inclusionState' = "idle" /\ commands' = cs
    BY <1>2 DEF Enters
  <2> QED
    BY <1>2, <2>1 DEF Follows
<1> QED
  BY <1>1, <1>2

LEMMA CalmNone ==
    /\ Calm("off", <<>>) /\ Finally(<<>>, "off") = "off" /\ Firm("off", <<>>)
    /\ <<>> \in Seq(Orders) /\ Len(<<>>) = 0
BY DEF Calm, Finally, Firm, Before

-----------------------------------------------------------------------------
(* What was sent for a task that is gone                                   *)

LEMMA AgreesDoomed ==
    ASSUME NEW t, NEW s, NEW k, NEW cs, NEW i \in 1..Len(cs), Fatal(t, s, cs[i]),
           \A j \in 1..(i - 1) : cs[j].by \notin {"task", "caller"}
    PROVE  Agrees(t, s, k, cs)
BY DEF Agrees, Doomed

(* The first of some commands is such that an answer will be too late.     *)
LEMMA FirstFatal ==
    ASSUME NEW t, NEW s, NEW k, NEW cs \in Seq(Orders), NEW S, S \subseteq 1..Len(cs), S # {},
           \A i \in S : Fatal(t, s, cs[i]),
           \A i \in 1..Len(cs) : cs[i].by \in {"task", "caller"} =>
             \E j \in S : j <= i
    PROVE  Agrees(t, s, k, cs)
<1>1. PICK i \in S : \A j \in S : i <= j
  <2>1. S \in SUBSET Nat
    OBVIOUS
  <2> QED
    BY <2>1, LeastNumber
<1>2. ASSUME NEW j \in 1..(i - 1), cs[j].by \in {"task", "caller"} PROVE FALSE
  <2>1. i \in 1..Len(cs) /\ Len(cs) \in Nat
    OBVIOUS
  <2>2. j \in 1..Len(cs) /\ j < i
    BY <2>1
  <2>3. PICK l \in S : l <= j
    BY <1>2, <2>2
  <2>4. i <= l /\ l \in 1..Len(cs)
    BY <1>1
  <2> QED
    BY <2>1, <2>2, <2>3, <2>4
<1> QED
  BY <1>1, <1>2, AgreesDoomed

LEMMA GoodEnded ==
    ASSUME NEW s, NEW k, NEW cs, Follows(NoTask, s, k, cs) \/ Left(NoTask, s, k, cs)
    PROVE  Agrees(NoTask, s, k, cs)
<1>1. NoTask.pc = "ended"
  BY NoTaskFacts
<1> QED
  BY <1>1 DEF Agrees, Good, Awaits

LEMMA GoodAwaits ==
    ASSUME NEW t, t.pc \in Awaits, NEW s, NEW k, NEW cs,
           Follows(t, s, k, cs) \/ Catches(t, s, k, cs)
    PROVE  Agrees(t, s, k, cs)
BY DEF Agrees, Good, Awaits

LEMMA GoodStarts ==
    ASSUME NEW t, t.pc = "starting", NEW s, NEW k, NEW cs, Starts(t, s, k, cs)
    PROVE  Agrees(t, s, k, cs)
BY DEF Agrees, Good, Awaits

LEMMA GoodPings ==
    ASSUME NEW t, t.pc = "pinging", NEW s, NEW k, NEW cs, Pings(s, k, cs)
    PROVE  Agrees(t, s, k, cs)
BY DEF Agrees, Good, Awaits

LEMMA GoodPauses ==
    ASSUME NEW t, t.pc = "pausing", NEW s \in {"idle", "smartStart"}, NEW k, NEW cs,
           Calm(k, cs), NoCallers(cs)
    PROVE  Agrees(t, s, k, cs)
BY DEF Agrees, Good, Awaits

LEMMA GoodCloses ==
    ASSUME NEW t, t.pc \in {"aborting", "finishing", "stopping"}, NEW s, NEW k, NEW cs,
           Closes(t, s, k, cs)
    PROVE  Agrees(t, s, k, cs)
BY DEF Agrees, Good, Awaits

(* The task is over: its callers are answered too late.                    *)
LEMMA LeftBehind ==
    ASSUME NEW t, t.id # 0, NEW s, NEW k, NEW cs \in Seq(Orders), cs # <<>>, AllMine(t, cs),
           NEW r \in Seq(Orders), r = cs \/ \E x \in Orders : r = Append(cs, x)
    PROVE  Agrees(NoTask, s, k, r)
<1>1. 1 \in 1..Len(cs) /\ Len(cs) \in Nat
  OBVIOUS
<1>2. Mine(t, cs[1])
  BY <1>1 DEF AllMine
<1>3. r[1] = cs[1] /\ 1 \in 1..Len(r)
  <2>1. ASSUME NEW x \in Orders, r = Append(cs, x) PROVE r[1] = cs[1] /\ 1 \in 1..Len(r)
    <3>1. Append(cs, x)[1] = cs[1] /\ Len(Append(cs, x)) = Len(cs) + 1
      BY <1>1, AppendFacts
    <3> QED
      BY <1>1, <2>1, <3>1
  <2> QED
    BY <1>1, <2>1
<1>4. Fatal(NoTask, s, r[1])
  BY <1>2, <1>3, NoTaskFacts DEF Fatal, Mine, Early
<1>5. 1..(1 - 1) = {}
  OBVIOUS
<1> QED
  BY <1>3, <1>4, <1>5, AgreesDoomed

LEMMA TaskOver ==
    ASSUME NEW t, t.id # 0, NEW cs \in Seq(Orders), AllMine(t, cs), NEW e,
           Enters("idle", cs, e)
    PROVE  Agrees(NoTask, inclusionState', "off", commands')
<1>1. CASE cs = <<>>
  <2>1. /\ Calm("off", cs) /\ Finally(cs, "off") = "off"
        /\ \A i \in 1..Len(cs) : cs[i].by = "caller" => NoTask.pc = "ended" /\ Mine(NoTask, cs[i])
    BY <1>1, CalmNone
  <2>2. Follows(NoTask, inclusionState', "off", commands')
    BY <2>1, EntersIdle
  <2> QED
    BY <2>2, GoodEnded
<1>2. CASE cs # <<>>
  <2>1. commands' = cs \/ commands' = Append(cs, Command("listen", "enable", NoTask))
    BY DEF Enters
  <2>2. /\ commands' \in Seq(Orders)
        /\ commands' = cs \/ \E x \in Orders : commands' = Append(cs, x)
    BY <2>1, ListenFacts, AppendFacts
  <2> QED
    BY <1>2, <2>2, LeftBehind
<1> QED
  BY <1>1, <1>2

LEMMA TaskLeft ==
    ASSUME NEW t, t.id # 0, NEW cs \in Seq(Orders), AllMine(t, cs),
           NEW s \in {"busy", "including"}
    PROVE  Agrees(NoTask, s, "off", cs)
<1>1. CASE cs = <<>>
  <2>1. Left(NoTask, s, "off", cs)
    BY <1>1, CalmNone DEF Left, AllMine
  <2> QED
    BY <2>1, GoodEnded
<1>2. CASE cs # <<>>
  BY <1>2, LeftBehind
<1> QED
  BY <1>1, <1>2

(* The task begins, behind what others have sent.                          *)
LEMMA PausedAgrees ==
    ASSUME NEW t \in Tasks, Suits(t), NEW cs \in Seq(Orders), NEW k, Paused(t, cs), Firm(k, cs),
           AllDecent(cs), NoOwn(cs),
           \A i \in 1..Len(cs) : Does(cs[i].op) \in {"off", "listen"} \/ cs[i].by = "caller",
           \A i \in 1..Len(cs) : cs[i].by = "caller" => cs[i].for # t.id,
           cs = <<>> => k = "off"
    PROVE  Agrees(running', inclusionState', k, commands')
<1> DEFINE sp == StartOf(t.kind)
           x == Command(sp.op, "task", t)
           r == [t EXCEPT !.pc = sp.pc]
<1>1. /\ inclusionState' = sp.state /\ running' = r
      /\ commands' = IF sp.op = None THEN cs ELSE Append(cs, x)
  BY DEF Paused
<1>2. /\ sp.pc \in {"starting", "pinging"} /\ sp.pc \in PCs
      /\ sp.pc = "starting" <=> t.kind \in {"classic", "smartStart", "exclude"}
      /\ sp.pc = "starting" <=> sp.op # None
      /\ sp.op # None => sp.op \in Ops
      /\ sp.pc = "starting" => sp.state = ActiveOf(t)
      /\ sp.pc = "pinging" => sp.state = "busy"
      /\ sp.state \in Active
  BY DEF StartOf, PCs, None, Ops, StartOps, ActiveOf, Active, Suits, Kinds
<1> HIDE DEF sp
<1>3. r.pc = sp.pc /\ r.id = t.id /\ r.kind = t.kind
  BY <1>2, GoesFacts
<1>4. sp.op # None => x \in Orders /\ x.by = "task"
  BY <1>2, CommandFacts
<1> HIDE DEF x, r
<1>5. /\ Len(cs) \in Nat /\ commands' \in Seq(Orders)
      /\ \A i \in 1..Len(cs) : i \in 1..Len(commands') /\ commands'[i] = cs[i]
      /\ sp.op # None => commands' = Append(cs, x) /\ Len(commands') = Len(cs) + 1
                         /\ commands'[Len(cs) + 1] = x /\ Firm(k, cs)
      /\ sp.op = None => commands' = cs
  <2>1. CASE sp.op = None
    BY <1>1, <2>1
  <2>2. CASE sp.op # None
    <3>1. /\ Append(cs, x) \in Seq(Orders) /\ Len(Append(cs, x)) = Len(cs) + 1 /\ Len(cs) \in Nat
          /\ \A i \in 1..Len(cs) : Append(cs, x)[i] = cs[i]
          /\ Append(cs, x)[Len(cs) + 1] = x
      BY <1>4, <2>2, AppendFacts
    <3>2. \A i \in 1..Len(cs) : i \in 1..(Len(cs) + 1)
      BY <3>1
    <3> QED
      BY <1>1, <2>2, <3>1, <3>2
  <2> QED
    BY <2>1, <2>2
<1> DEFINE S == {i \in 1..Len(cs) : cs[i].by \in {"caller", "enable"}}
<1>6. CASE S # {}
  <2>1. \A i \in S : Fatal(r, inclusionState', commands'[i])
    BY <1>1, <1>2, <1>3, <1>5 DEF Fatal, Early
  <2>2. S \subseteq 1..Len(commands')
    BY <1>5
  <2>3. PICK l : l \in S
    BY <1>6
  <2>4. \A i \in 1..Len(commands') : commands'[i].by \in {"task", "caller"} => \E j \in S : j <= i
    <3> SUFFICES ASSUME NEW i \in 1..Len(commands'), commands'[i].by \in {"task", "caller"}
                 PROVE  \E j \in S : j <= i
      OBVIOUS
    <3>1. CASE i \in 1..Len(cs)
      <4>1. i \in S
        BY <1>5, <3>1 DEF NoOwn
      <4> QED
        BY <4>1
    <3>2. CASE i \notin 1..Len(cs)
      <4>1. l <= i
        BY <1>5, <2>3, <3>2
      <4> QED
        BY <2>3, <4>1
    <3> QED
      BY <3>1, <3>2
  <2> HIDE DEF S
  <2> QED
    BY <1>1, <1>5, <1>6, <2>1, <2>2, <2>4, FirstFatal
<1>7. CASE S = {}
  <2>1. \A i \in 1..Len(cs) : Quiet(cs[i])
    <3> SUFFICES ASSUME NEW i \in 1..Len(cs) PROVE Quiet(cs[i])
      OBVIOUS
    <3>1. cs[i].by \in {"disable", None} /\ cs[i] \in Orders
      <4>1. cs[i].by # "task" /\ cs[i].by # "caller" /\ cs[i].by # "enable"
        BY <1>7 DEF NoOwn
      <4>2. cs[i] \in Orders
        OBVIOUS
      <4> QED
        BY <4>1, <4>2 DEF Orders
    <3>2. cs[i].op # "listen" /\ Does(cs[i].op) \in {"off", "listen"}
      BY <3>1 DEF AllDecent, Decent, None
    <3>3. Does(cs[i].op) # "listen"
      BY <3>2 DEF Does
    <3> QED
      BY <3>1, <3>2, <3>3 DEF Quiet
  <2>2. Finally(cs, k) = "off"
    BY <2>1, FinallyFacts DEF Quiet
  <2>3. CASE sp.pc = "pinging"
    <3>1. Pings(inclusionState', k, commands')
      BY <1>1, <1>2, <1>5, <2>1, <2>2, <2>3 DEF Pings
    <3> QED
      BY <1>1, <1>3, <2>3, <3>1, GoodPings
  <2>4. CASE sp.pc = "starting"
    <3>1. Firm(k, commands')
      BY <1>2, <1>4, <1>5, <2>4, FirmAppend DEF None
    <3>2. Before(commands', k, Len(cs) + 1) = "off"
      <4>1. Before(Append(cs, x), k, Len(cs) + 1) = Before(cs, k, Len(cs) + 1)
        <5>1. Len(cs) + 1 \in 1..(Len(cs) + 1)
          BY <1>5
        <5> QED
          BY <1>2, <1>4, <2>4, <5>1, BeforeAppend
      <4> QED
        BY <1>2, <1>5, <2>2, <2>4, <4>1 DEF Finally
    <3>3. /\ Len(cs) + 1 \in 1..Len(commands')
          /\ 1..((Len(cs) + 1) - 1) = 1..Len(cs)
          /\ ((Len(cs) + 1) + 1)..Len(commands') = {}
      BY <1>2, <1>5, <2>4
    <3>4. commands'[Len(cs) + 1].by = "task"
      BY <1>2, <1>4, <1>5, <2>4
    <3>5. \A i \in 1..((Len(cs) + 1) - 1) : Quiet(commands'[i])
      BY <1>5, <2>1, <3>3
    <3>6. inclusionState' = IF r.kind = "replace" THEN "busy" ELSE ActiveOf(r)
      BY <1>1, <1>2, <1>3, <2>4 DEF ActiveOf
    <3>7. Starts(r, inclusionState', k, commands')
      BY <3>1, <3>2, <3>3, <3>4, <3>5, <3>6 DEF Starts
    <3> QED
      BY <1>1, <1>3, <2>4, <3>7, GoodStarts
  <2> QED
    BY <1>2, <2>3, <2>4
<1> QED
  BY <1>6, <1>7

-----------------------------------------------------------------------------
(* What is sent while a task runs                                          *)

InAccord == Agrees(running, inclusionState, Doing(mode), commands)

LEMMA PcFacts ==
    ASSUME Base
    PROVE  /\ running \in Tasks /\ inclusionState \in States /\ commands \in Seq(Orders)
           /\ running.pc \in {"ended", "pausing", "starting", "pinging", "aborting", "finishing",
                              "stopping", "bootstraps", "blocked", "leaving", "removing"} \cup Awaits
           /\ running.pc = "ended" => running = NoTask
           /\ running.pc # "ended" => Suits(running) /\ running.id # 0
           /\ running.pc \in {"aborting", "finishing", "stopping"} =>
                running.kind \in Adds \cup {"exclude"}
           /\ running.pc \in Awaits \cup {"starting"} =>
                running.kind \in Adds \cup {"exclude", "replace"}
           /\ running.pc = "awaitsReplace" => running.kind = "replace"
           /\ running.pc \in {"awaitsFound", "awaitsNode"} => running.kind # "replace"
           /\ running.pc = "bootstraps" => running.kind \in Adds \cup {"replace"}
<1>1. running \in Tasks /\ inclusionState \in States /\ commands \in Seq(Orders)
      /\ RunsOK(running)
  BY BaseFacts
<1>2. CASE running = NoTask
  BY <1>1, <1>2, NoTaskFacts DEF Awaits
<1>3. CASE running # NoTask
  <2>1. Suits(running) /\ running.pc \in PCsOf(running.kind)
    BY <1>1, <1>3 DEF RunsOK
  <2>2. running.kind \in Kinds /\ running.id # 0
    BY <2>1 DEF Suits
  <2>3. CASE running.kind \in {"classic", "smartStart"}
    BY <1>1, <2>1, <2>2, <2>3 DEF PCsOf, Joins, Awaits, Adds
  <2>4. CASE running.kind = "exclude"
    BY <1>1, <2>1, <2>2, <2>4 DEF PCsOf, Joins, Awaits, Adds
  <2>5. CASE running.kind \in {"remove", "replace"}
    BY <1>1, <2>1, <2>2, <2>5 DEF PCsOf, Joins, Awaits, Adds
  <2> QED
    BY <2>2, <2>3, <2>4, <2>5 DEF Kinds
<1> QED
  BY <1>2, <1>3

LEMMA DoomedAppend ==
    ASSUME NEW cs \in Seq(Orders), NEW x \in Orders, NEW t, NEW s, NEW u, NEW w,
           Doomed(t, s, cs), \A i \in 1..Len(cs) : Fatal(t, s, cs[i]) => Fatal(u, w, cs[i])
    PROVE  Doomed(u, w, Append(cs, x))
<1> DEFINE r == Append(cs, x)
<1>1. /\ \A i \in 1..Len(cs) : r[i] = cs[i] /\ i \in 1..Len(r)
  <2>1. /\ Len(r) = Len(cs) + 1 /\ Len(cs) \in Nat
        /\ \A i \in 1..Len(cs) : r[i] = cs[i]
    BY AppendFacts
  <2> QED
    BY <2>1
<1> HIDE DEF r
<1>2. PICK i \in 1..Len(cs) :
         Fatal(t, s, cs[i]) /\ \A j \in 1..(i - 1) : cs[j].by \notin {"task", "caller"}
  BY DEF Doomed
<1>3. \A j \in 1..(i - 1) : j \in 1..Len(cs)
  <2>1. Len(cs) \in Nat
    OBVIOUS
  <2> QED
    BY <2>1
<1> QED
  BY <1>1, <1>2, <1>3 DEF Doomed, r

LEMMA DoomedTail ==
    ASSUME NEW cs \in Seq(Orders), cs # <<>>, NEW t, NEW s, NEW w,
           Doomed(t, s, cs), ~Fatal(t, s, Head(cs)),
           \A i \in 1..Len(cs) : Fatal(t, s, cs[i]) => Fatal(t, w, cs[i])
    PROVE  Doomed(t, w, Tail(cs)) /\ Head(cs).by \notin {"task", "caller"}
<1>1. /\ Head(cs) = cs[1] /\ Len(cs) = Len(Tail(cs)) + 1 /\ Len(Tail(cs)) \in Nat
      /\ \A i \in 1..Len(Tail(cs)) : Tail(cs)[i] = cs[i + 1]
      /\ \A i \in 2..Len(cs) : cs[i] = Tail(cs)[i - 1] /\ i - 1 \in 1..Len(Tail(cs))
  BY BeforeTail
<1>2. PICK i \in 1..Len(cs) :
         Fatal(t, s, cs[i]) /\ \A j \in 1..(i - 1) : cs[j].by \notin {"task", "caller"}
  BY DEF Doomed
<1>3. i # 1
  BY <1>1, <1>2
<1>4. i \in 2..Len(cs) /\ 1 \in 1..(i - 1)
  BY <1>3
<1>5. \A j \in 1..((i - 1) - 1) : j + 1 \in 1..(i - 1) /\ Tail(cs)[j] = cs[j + 1]
  BY <1>1, <1>4
<1> QED
  BY <1>1, <1>2, <1>4, <1>5 DEF Doomed

LEMMA AtRest ==
    ASSUME Base, NEW k, NEW cs, Good(running, inclusionState, k, cs),
           inclusionState \in {"idle", "smartStart"}
    PROVE  \/ running.pc = "pausing" /\ Calm(k, cs) /\ NoCallers(cs)
           \/ running.pc \in {"ended"} \cup Awaits /\ Follows(running, inclusionState, k, cs)
<1>1. inclusionState \notin {"busy", "including", "excluding"}
  OBVIOUS
<1>2. ActiveOf(running) \in {"including", "excluding"}
  BY DEF ActiveOf
<1>3. CASE running.pc \in {"ended"} \cup Awaits
  BY <1>1, <1>2, <1>3 DEF Good, Left, Catches, Awaits
<1>4. CASE running.pc = "starting"
  BY <1>1, <1>2, <1>4 DEF Good, Starts
<1>5. CASE running.pc \in {"pinging", "bootstraps", "blocked", "removing"}
  BY <1>1, <1>5 DEF Good, Pings
<1>6. CASE running.pc \in {"aborting", "finishing", "stopping"}
  BY <1>1, <1>2, <1>6 DEF Good, Closes
<1>7. CASE running.pc = "pausing"
  BY <1>7 DEF Good
<1> QED
  BY <1>3, <1>4, <1>5, <1>6, <1>7, PcFacts DEF Good

(* SmartStart is switched while nothing else is on.                        *)
LEMMA SwitchAgrees ==
    ASSUME Base, InAccord, NEW x \in Orders, x.by \in {"enable", "disable"},
           inclusionState \in {"idle", "smartStart"}, inclusionState' \in {"idle", "smartStart"},
           Does(x.op) = (IF inclusionState' = "smartStart" THEN "listen" ELSE "off"),
           commands' = Append(commands, x), UNCHANGED <<running, mode>>
    PROVE  InAccord'
<1> DEFINE k == Doing(mode)
<1>1. k = Doing(mode') /\ commands \in Seq(Orders)
  BY PcFacts
<1>2. Agrees(running, inclusionState, k, commands)
  BY DEF InAccord
<1>3. SUFFICES Agrees(running, inclusionState', k, commands')
  BY <1>1 DEF InAccord
<1> HIDE DEF k
<1>4. CASE Doomed(running, inclusionState, commands)
  <2>1. \A c : Fatal(running, inclusionState, c) => Fatal(running, inclusionState', c)
    BY DEF Fatal, Active
  <2>2. Doomed(running, inclusionState', commands')
    BY <1>1, <1>4, <2>1, DoomedAppend
  <2> QED
    BY <2>2 DEF Agrees
<1>5. CASE Good(running, inclusionState, k, commands)
  <2>1. CASE running.pc = "pausing" /\ Calm(k, commands) /\ NoCallers(commands)
    <3>1. Calm(k, commands')
      BY <1>1, <2>1, CalmAppend DEF None
    <3>2. NoCallers(commands')
      BY <1>1, <2>1, BeforeAppend DEF NoCallers
    <3> QED
      BY <2>1, <3>1, <3>2, GoodPauses
  <2>2. CASE running.pc \in {"ended"} \cup Awaits
             /\ Follows(running, inclusionState, k, commands)
    <3>1. Follows(running, inclusionState', k, commands')
      BY <1>1, <2>2, Switched DEF Follows
    <3>2. CASE running.pc \in Awaits
      BY <3>1, <3>2, GoodAwaits
    <3>3. CASE running.pc = "ended"
      BY <3>1, <3>3, GoodEnded, PcFacts
    <3> QED
      BY <2>2, <3>2, <3>3
  <2> QED
    BY <1>5, <2>1, <2>2, AtRest
<1> QED
  BY <1>2, <1>4, <1>5 DEF Agrees

LEMMA AccordKept ==
    ASSUME InAccord, UNCHANGED <<running, inclusionState, mode, commands>>
    PROVE  InAccord'
BY DEF InAccord

LEMMA ProvisionAgrees ==
    ASSUME Base, InAccord, NEW d \in DSKs, Provision(d) \/ Unprovision(d)
    PROVE  InAccord'
<1>1. PICK list : AutoProvision(list)
  BY DEF Provision, Unprovision, SetEntry
<1>2. UNCHANGED <<running, mode>>
  BY DEF Provision, Unprovision, tasks
<1> DEFINE off == Command("stopListen", "disable", NoTask)
           on  == Command("listen", "enable", NoTask)
<1>3. /\ off \in Orders /\ off.by = "disable" /\ Does(off.op) = "off"
      /\ on \in Orders /\ on.by = "enable" /\ Does(on.op) = "listen"
  <2>1. "stopListen" \in Ops /\ NoTask \in Tasks /\ Does("stopListen") = "off"
    BY NoTaskFacts DEF Ops, Does
  <2> QED
    BY <2>1, CommandFacts, ListenFacts
<1>4. \/ UNCHANGED <<inclusionState, commands>>
      \/ /\ inclusionState = "idle" /\ inclusionState' = "smartStart"
         /\ commands' = Append(commands, on)
      \/ /\ inclusionState = "smartStart" /\ inclusionState' = "idle"
         /\ commands' = Append(commands, off)
  BY <1>1 DEF AutoProvision, EnableSmartStart, DisableSmartStart
<1> HIDE DEF off, on
<1> QED
  BY <1>2, <1>3, <1>4, AccordKept, SwitchAgrees

LEMMA QueuedAgrees ==
    ASSUME InAccord,
           \/ BeginInclusion \/ BeginExclusion
           \/ \E n \in Nodes : ReplaceFailedNode(n) \/ RemoveFailedNode(n)
           \/ \E d \in DSKs : SmartStartRequest(d)
    PROVE  InAccord'
<1>1. UNCHANGED <<running, inclusionState, mode, commands>>
  BY DEF BeginInclusion, BeginExclusion, ReplaceFailedNode, RemoveFailedNode, SmartStartRequest,
     Begins
<1> QED
  BY <1>1, AccordKept

(* Where something can be stopped it is the task that runs.                *)
LEMMA Stoppable ==
    ASSUME Base, NEW k, NEW cs, Good(running, inclusionState, k, cs),
           inclusionState \in {"including", "excluding"}
    PROVE  /\ inclusionState = ActiveOf(running)
           /\ \/ running.pc = "ended" /\ Left(running, inclusionState, k, cs)
              \/ running.pc = "starting" /\ Starts(running, inclusionState, k, cs)
              \/ running.pc \in Awaits /\ Catches(running, inclusionState, k, cs)
              \/ running.pc \in {"aborting", "finishing", "stopping"}
                 /\ Closes(running, inclusionState, k, cs)
<1>1. inclusionState \notin {"busy", "idle", "smartStart"}
  OBVIOUS
<1>2. CASE running.pc = "ended"
  <2>1. Left(running, inclusionState, k, cs)
    BY <1>1, <1>2 DEF Good, Follows
  <2>2. inclusionState = "including"
    BY <1>1, <2>1 DEF Left
  <2>3. ActiveOf(running) = "including"
    BY <1>2, PcFacts, NoTaskFacts DEF ActiveOf, Kinds
  <2> QED
    BY <1>2, <2>1, <2>2, <2>3
<1>3. CASE running.pc \in Awaits
  BY <1>1, <1>3 DEF Good, Follows, Catches
<1>4. CASE running.pc = "starting"
  BY <1>1, <1>4 DEF Good, Starts
<1>5. CASE running.pc \in {"pinging", "bootstraps", "blocked", "removing", "pausing"}
  BY <1>1, <1>5 DEF Good, Pings
<1>6. CASE running.pc \in {"aborting", "finishing", "stopping"}
  BY <1>1, <1>6 DEF Good, Closes
<1> QED
  BY <1>2, <1>3, <1>4, <1>5, <1>6, PcFacts DEF Good

LEMMA AllMineAppend ==
    ASSUME NEW cs \in Seq(Orders), NEW x \in Orders, NEW t, AllMine(t, cs), Mine(t, x)
    PROVE  AllMine(t, Append(cs, x))
BY BeforeAppend DEF AllMine

LEMMA StopAgrees ==
    ASSUME Base, InAccord, StopInclusion \/ StopExclusion
    PROVE  InAccord'
<1> DEFINE op == IF inclusionState = "including" THEN "stopAdd" ELSE "stopRemove"
           x == Command(op, "caller", running)
           k == Doing(mode)
           cs == commands
           r == Append(cs, x)
<1>1. /\ inclusionState \in {"including", "excluding"} /\ commands' = r
      /\ UNCHANGED <<running, mode, inclusionState>>
  BY DEF StopInclusion, StopExclusion, tasks
<1>2. x \in Orders /\ x.op = op /\ x.by = "caller" /\ x.for = running.id
  <2>1. op \in Ops
    BY DEF Ops
  <2> QED
    BY <2>1, CommandFacts, PcFacts
<1>3. cs \in Seq(Orders)
  BY PcFacts
<1>4. Agrees(running, inclusionState, k, cs)
  BY DEF InAccord
<1>5. SUFFICES Agrees(running, inclusionState, k, r)
  BY <1>1 DEF InAccord
<1> HIDE DEF x, k, cs
<1>6. CASE Doomed(running, inclusionState, cs)
  BY <1>2, <1>3, <1>6, DoomedAppend DEF Agrees
<1>7. CASE Good(running, inclusionState, k, cs)
  <2>1. inclusionState = ActiveOf(running)
    BY <1>1, <1>7, Stoppable
  <2>2. Mine(running, x)
    BY <1>1, <1>2, <2>1 DEF Mine, StopOf, ActiveOf
  <2>3. CASE running.pc = "ended" /\ Left(running, inclusionState, k, cs)
    <3>1. Left(running, inclusionState, k, r)
      BY <1>2, <1>3, <2>2, <2>3, AllMineAppend DEF Left
    <3> QED
      BY <2>3, <3>1, GoodEnded, PcFacts
  <2>4. CASE running.pc = "starting" /\ Starts(running, inclusionState, k, cs)
    <3>1. PICK j \in 1..Len(cs) :
             /\ cs[j].by = "task" /\ Before(cs, k, j) = "off"
             /\ \A i \in 1..(j - 1) : Quiet(cs[i])
             /\ \A i \in (j + 1)..Len(cs) : Mine(running, cs[i])
      BY <2>4 DEF Starts
    <3>2. /\ Len(r) = Len(cs) + 1 /\ Len(cs) \in Nat
          /\ \A i \in 1..Len(cs) : r[i] = cs[i]
          /\ r[Len(cs) + 1] = x
          /\ \A i \in 1..(Len(cs) + 1) : Before(r, k, i) = Before(cs, k, i)
      BY <1>2, <1>3, BeforeAppend
    <3> HIDE DEF r
    <3>3. /\ j \in 1..Len(r) /\ j \in 1..(Len(cs) + 1)
          /\ \A i \in 1..(j - 1) : i \in 1..Len(cs)
          /\ \A i \in (j + 1)..Len(r) : i \in (j + 1)..Len(cs) \/ i = Len(cs) + 1
          /\ \A i \in (j + 1)..Len(cs) : i \in 1..Len(cs)
      BY <3>2
    <3>4. Firm(k, r)
      BY <1>2, <1>3, <2>4, FirmAppend DEF Starts, None, r
    <3>5. Starts(running, inclusionState, k, r)
      BY <2>2, <2>4, <3>1, <3>2, <3>3, <3>4 DEF Starts
    <3> QED
      BY <2>4, <3>5, GoodStarts
  <2>5. CASE running.pc \in Awaits /\ Catches(running, inclusionState, k, cs)
    <3>1. Catches(running, inclusionState, k, r)
      BY <1>2, <1>3, <2>2, <2>5, AllMineAppend DEF Catches
    <3> QED
      BY <2>5, <3>1, GoodAwaits
  <2>6. CASE /\ running.pc \in {"aborting", "finishing", "stopping"}
             /\ Closes(running, inclusionState, k, cs)
    <3>1. Closes(running, inclusionState, k, r)
      BY <1>2, <1>3, <2>2, <2>6, BeforeAppend DEF Closes
    <3> QED
      BY <2>6, <3>1, GoodCloses
  <2> QED
    BY <1>1, <1>7, <2>3, <2>4, <2>5, <2>6, Stoppable
<1> QED
  BY <1>4, <1>6, <1>7 DEF Agrees

-----------------------------------------------------------------------------
(* Reports                                                                 *)

(* The controller stops by itself, and no task hears of it.                *)
LEMMA TurnsOff ==
    ASSUME Base, NEW k, k \notin {"off", "listen"},
           NEW s, s = inclusionState, NEW cs \in Seq(Orders), Agrees(running, s, k, cs),
           ~(running.pc \in Awaits /\ WorksFor(k, running))
    PROVE  Agrees(running, s, "off", cs)
<1>1. SUFFICES ASSUME Good(running, s, k, cs) PROVE Agrees(running, s, "off", cs)
  BY DEF Agrees
<1>2. ~Follows(running, s, k, cs) /\ ~Left(running, s, k, cs) /\ ~Calm(k, cs)
  BY DEF Follows, Calm, Left
<1>3. running.pc \notin {"ended", "pausing", "finishing", "stopping", "bootstraps", "blocked",
                         "removing"} \cup Awaits
  BY <1>1, <1>2 DEF Good, Catches, Closes, Awaits
<1>4. CASE running.pc = "starting"
  <2>1. Starts(running, s, k, cs)
    BY <1>1, <1>4 DEF Good
  <2>2. \A i \in 1..Len(cs) : Before(cs, k, i) = "off" => Before(cs, "off", i) = "off"
    BY DEF Before
  <2>3. Firm("off", cs)
    BY <2>1, FirmOff DEF Starts
  <2>4. Starts(running, s, "off", cs)
    BY <2>1, <2>2, <2>3 DEF Starts
  <2> QED
    BY <1>4, <2>4, GoodStarts
<1>5. CASE running.pc = "pinging"
  <2>1. Pings(s, k, cs)
    BY <1>1, <1>5 DEF Good
  <2>2. Firm("off", cs)
    BY <2>1, FirmOff DEF Pings
  <2>3. Finally(cs, "off") = "off"
    BY <2>1 DEF Pings, Finally, Before
  <2>4. Pings(s, "off", cs)
    BY <2>1, <2>2, <2>3 DEF Pings
  <2> QED
    BY <1>5, <2>4, GoodPings
<1>6. CASE running.pc = "aborting"
  <2>1. Closes(running, s, "off", cs)
    BY <1>1, <1>6 DEF Good, Closes
  <2> QED
    BY <1>6, <2>1, GoodCloses
<1>7. running.pc # "leaving"
  BY <1>1 DEF Good
<1> QED
  BY <1>3, <1>4, <1>5, <1>6, <1>7, PcFacts

Reporting == mode.k \in {"add", "remove", "replace"} /\ mode.stage # "done"

LEMMA NotHeardAgrees ==
    ASSUME Base, InAccord, Reporting, ~IsHeard, NEW st, NEW n, Reports(st, n),
           Doing(mode') \in {mode.k, "off"}
    PROVE  InAccord'
<1>1. /\ UNCHANGED <<running, inclusionState, commands>> /\ commands \in Seq(Orders)
      /\ Doing(mode) = mode.k /\ mode.k \notin {"off", "listen"}
      /\ ~(running.pc \in Awaits /\ WorksFor(mode.k, running))
  BY PcFacts DEF Reports, IsHeard, WorksFor, Doing, Reporting
<1>2. Agrees(running, inclusionState, "off", commands)
  BY <1>1, TurnsOff DEF InAccord
<1> QED
  BY <1>1, <1>2 DEF InAccord

LEMMA CatchFacts ==
    ASSUME Base, InAccord, Reporting, IsHeard
    PROVE  /\ Catches(running, inclusionState, mode.k, commands)
           /\ running.pc \in Awaits /\ running.id # 0 /\ AllMine(running, commands)
           /\ commands \in Seq(Orders) /\ running \in Tasks /\ WorksFor(mode.k, running)
           /\ running.pc = "awaitsReplace" => inclusionState = "busy" /\ running.kind = "replace"
           /\ running.pc # "awaitsReplace" => inclusionState = ActiveOf(running)
           /\ inclusionState # "idle"
           /\ mode.stage = StageOf(running)
<1>1. running.pc \in Awaits /\ Doing(mode) = mode.k /\ mode.k \notin {"off", "listen"}
  BY DEF IsHeard, Doing, Reporting
<1>2. running.pc \notin Early
  BY <1>1 DEF Awaits, Early
<1>3. Good(running, inclusionState, mode.k, commands)
  BY <1>1, <1>2 DEF InAccord, Agrees, Doomed, Fatal, Early
<1>4. Catches(running, inclusionState, mode.k, commands)
  BY <1>1, <1>3 DEF Good, Follows, Calm
<1>5. mode.stage = StageOf(running)
  BY HeardFacts
<1>6. running.id # 0 /\ commands \in Seq(Orders) /\ running \in Tasks
      /\ (running.pc = "awaitsReplace" => running.kind = "replace")
  BY <1>1, PcFacts DEF Awaits
<1> QED
  BY <1>1, <1>4, <1>5, <1>6 DEF Catches, ActiveOf

LEMMA SameTask ==
    ASSUME NEW t \in Tasks, NEW r, r.id = t.id, r.kind = t.kind
    PROVE  /\ \A c : Mine(t, c) <=> Mine(r, c)
           /\ \A cs : AllMine(t, cs) <=> AllMine(r, cs)
           /\ ActiveOf(r) = ActiveOf(t) /\ StopOf(r) = StopOf(t)
           /\ \A k : WorksFor(k, r) <=> WorksFor(k, t)
<1>1. \A c : Mine(t, c) <=> Mine(r, c)
  BY DEF Mine, StopOf
<1> QED
  BY <1>1 DEF AllMine, ActiveOf, StopOf, WorksFor

(* The task hears of it and waits on.                                      *)
LEMMA WaitsAgrees ==
    ASSUME Base, InAccord, Reporting, IsHeard, running'.id = running.id,
           running'.kind = running.kind, running'.pc \in Awaits \ {"awaitsReplace"},
           inclusionState' = ActiveOf(running), UNCHANGED commands, Doing(mode') = mode.k
    PROVE  InAccord'
<1>1. Catches(running', inclusionState', mode.k, commands)
  BY CatchFacts, SameTask DEF Catches
<1>2. Agrees(running', inclusionState', mode.k, commands)
  BY <1>1, GoodAwaits
<1> QED
  BY <1>2 DEF InAccord

(* It ends what the controller does.                                       *)
LEMMA ClosesAgrees ==
    ASSUME Base, NEW op \in Ops, NEW cs \in Seq(Orders),
           \A i \in 1..Len(cs) : cs[i].by = "task" \/ Mine(running, cs[i]),
           running'.id = running.id, running'.kind = running.kind,
           running'.pc \in {"aborting", "finishing", "stopping"},
           commands' = Append(cs, Command(op, "task", running)),
           inclusionState' = ActiveOf(running), Doing(mode') # "listen",
           running'.pc # "aborting" => Doing(mode') = "off"
    PROVE  InAccord'
<1> DEFINE x == Command(op, "task", running)
<1>1. x \in Orders /\ x.by = "task" /\ running \in Tasks
  BY CommandFacts, PcFacts
<1> HIDE DEF x
<1>2. \A i \in 1..Len(Append(cs, x)) : Append(cs, x)[i].by = "task" \/ Mine(running', Append(cs, x)[i])
  BY <1>1, BeforeAppend, SameTask
<1>3. commands' = Append(cs, x)
  BY DEF x
<1>4. Closes(running', inclusionState', Doing(mode'), commands')
  BY <1>1, <1>2, <1>3, SameTask DEF Closes
<1>5. Agrees(running', inclusionState', Doing(mode'), commands')
  BY <1>4, GoodCloses
<1> QED
  BY <1>5 DEF InAccord

LEMMA NextPc ==
    ASSUME NEW t \in Tasks, NEW pc, NEW f
    PROVE  /\ [t EXCEPT !.pc = pc].pc = pc /\ [t EXCEPT !.pc = pc].id = t.id
           /\ [t EXCEPT !.pc = pc].kind = t.kind
           /\ [t EXCEPT !.pc = pc, !.found = f].pc = pc
           /\ [t EXCEPT !.pc = pc, !.found = f].id = t.id
           /\ [t EXCEPT !.pc = pc, !.found = f].kind = t.kind
BY DEF Tasks

(* The stage changes.                                                      *)
LEMMA StageFacts ==
    ASSUME Base, NEW s, NEW n
    PROVE  /\ Doing([mode EXCEPT !.stage = s]) = (IF s = "done" THEN "off" ELSE mode.k)
           /\ Doing([mode EXCEPT !.stage = s, !.node = n]) = (IF s = "done" THEN "off" ELSE mode.k)
           /\ mode.node \in Maybe(Nodes)
<1>1. mode \in Modes
  BY BaseFacts
<1>2. /\ [mode EXCEPT !.stage = s].stage = s /\ [mode EXCEPT !.stage = s].k = mode.k
      /\ [mode EXCEPT !.stage = s, !.node = n].stage = s
      /\ [mode EXCEPT !.stage = s, !.node = n].k = mode.k /\ mode.node \in Maybe(Nodes)
  BY <1>1 DEF Modes
<1> QED
  BY <1>2 DEF Doing

LEMMA FoundAgrees ==
    ASSUME Base, InAccord, NodeFound \/ \E n \in Nodes : NodeIsNamed(n)
    PROVE  InAccord'
<1>1. PICK st \in {"found", "node"}, n \in Maybe(Nodes) :
         /\ Reports(st, n)
         /\ mode' = [mode EXCEPT !.stage = st] \/ mode' = [mode EXCEPT !.stage = st, !.node = n]
  <2>1. CASE NodeFound
    BY <2>1 DEF NodeFound, Maybe
  <2>2. ASSUME NEW n \in Nodes, NodeIsNamed(n)
        PROVE  /\ Reports("node", n) /\ n \in Maybe(Nodes)
               /\ mode' = [mode EXCEPT !.stage = "node", !.node = n]
    BY <2>2 DEF NodeIsNamed, Maybe
  <2> QED
    BY <2>1, <2>2
<1>2. Reporting /\ mode.k \in {"add", "remove"} /\ mode.stage \in {"ready", "found"}
  BY DEF NodeFound, NodeIsNamed, Reporting
<1>3. Doing(mode') = mode.k
  <2>1. st # "done"
    OBVIOUS
  <2>2. CASE mode' = [mode EXCEPT !.stage = st]
    BY <2>1, <2>2, StageFacts
  <2>3. CASE mode' = [mode EXCEPT !.stage = st, !.node = n]
    BY <2>1, <2>3, StageFacts
  <2> QED
    BY <1>1, <2>2, <2>3
<1>4. CASE ~IsHeard
  BY <1>1, <1>2, <1>3, <1>4, NotHeardAgrees
<1>5. CASE IsHeard
  <2>1. Handles(st, n)
    BY <1>1, <1>5 DEF Reports
  <2>2. /\ UNCHANGED <<inclusionState, commands>>
        /\ \/ running' = [running EXCEPT !.pc = "awaitsNode"]
           \/ running' = [running EXCEPT !.pc = "awaitsDone", !.found = n]
    BY <1>1, <2>1 DEF Handles, Goes
  <2>3. running'.id = running.id /\ running'.kind = running.kind
        /\ running'.pc \in Awaits \ {"awaitsReplace"}
    <3>1. "awaitsNode" \in Awaits \ {"awaitsReplace"} /\ "awaitsDone" \in Awaits \ {"awaitsReplace"}
      BY DEF Awaits
    <3>2. running \in Tasks
      BY PcFacts
    <3>3. CASE running' = [running EXCEPT !.pc = "awaitsNode"]
      BY <3>1, <3>2, <3>3, NextPc
    <3>4. CASE running' = [running EXCEPT !.pc = "awaitsDone", !.found = n]
      BY <3>1, <3>2, <3>4, NextPc
    <3> QED
      BY <2>2, <3>3, <3>4
  <2>4. running.pc # "awaitsReplace"
    BY <1>2, <1>5, CatchFacts DEF StageOf
  <2> QED
    BY <1>2, <1>3, <1>5, <2>2, <2>3, <2>4, CatchFacts, WaitsAgrees
<1> QED
  BY <1>4, <1>5

LEMMA DoneAgrees ==
    ASSUME Base, InAccord, ProtocolDone \/ NotRemoved
    PROVE  InAccord'
<1>1. PICK st \in {"done", "reserved"}, n \in Maybe(Nodes) :
         Reports(st, n) /\ (st = "reserved" => mode.k = "remove")
  BY StageFacts DEF Maybe, ProtocolDone, NotRemoved
<1>2. /\ Reporting /\ mode.k \in {"add", "remove"} /\ mode.stage = "node"
      /\ mode' = [mode EXCEPT !.stage = "done"]
  BY DEF ProtocolDone, NotRemoved, Reporting
<1>3. Doing(mode') = "off"
  BY <1>2, StageFacts
<1>4. CASE ~IsHeard
  BY <1>1, <1>2, <1>3, <1>4, NotHeardAgrees
<1>5. CASE IsHeard
  <2>1. Handles(st, n) /\ running.kind \in Adds \cup {"exclude"}
        /\ (st = "reserved" => running.kind = "exclude")
    BY <1>1, <1>2, <1>5 DEF Reports, IsHeard, Adds
  <2>2. PICK op \in {"finish", "stopNoCallback"} :
           /\ commands' = Append(commands, Command(op, "task", running))
           /\ UNCHANGED inclusionState
           /\ \/ running' = [running EXCEPT !.pc = "finishing"]
              \/ running' = [running EXCEPT !.pc = "stopping"]
              \/ running' = [running EXCEPT !.pc = "stopping", !.found = None]
    <3>1. CASE st = "done" /\ running.kind \in Adds
      <4>1. Sends("finish", "finishing") /\ UNCHANGED inclusionState
        BY <2>1, <3>1 DEF Handles, Adds
      <4> QED
        BY <4>1 DEF Sends, Goes
    <3>2. CASE st = "done" /\ running.kind = "exclude"
      BY <2>1, <3>2 DEF Handles, Sends, Goes, Adds
    <3>3. CASE st = "reserved"
      BY <2>1, <3>3 DEF Handles
    <3> QED
      BY <1>1, <2>1, <3>1, <3>2, <3>3
  <2>3. running'.id = running.id /\ running'.kind = running.kind
        /\ running'.pc \in {"finishing", "stopping"} /\ op \in Ops
    <3>1. running \in Tasks /\ op \in Ops
      BY PcFacts DEF Ops
    <3>2. CASE running' = [running EXCEPT !.pc = "finishing"]
      BY <3>1, <3>2, NextPc
    <3>3. CASE running' = [running EXCEPT !.pc = "stopping"]
      BY <3>1, <3>3, NextPc
    <3>4. CASE running' = [running EXCEPT !.pc = "stopping", !.found = None]
      BY <3>1, <3>4, NextPc
    <3> QED
      BY <2>2, <3>1, <3>2, <3>3, <3>4
  <2>4. running.pc # "awaitsReplace"
    BY <1>2, <1>5, CatchFacts DEF StageOf
  <2>5. \A i \in 1..Len(commands) : commands[i].by = "task" \/ Mine(running, commands[i])
    BY <1>2, <1>5, CatchFacts DEF AllMine
  <2>6. commands \in Seq(Orders) /\ inclusionState = ActiveOf(running)
    BY <1>2, <1>5, <2>4, CatchFacts
  <2> QED
    BY <1>3, <2>2, <2>3, <2>5, <2>6, ClosesAgrees
<1> QED
  BY <1>4, <1>5

LEMMA ReplaceStartsAgrees ==
    ASSUME Base, InAccord, ReplaceStarts
    PROVE  InAccord'
<1>1. /\ Reporting /\ mode.k = "replace" /\ mode.stage = "asked"
      /\ mode' = [mode EXCEPT !.stage = "ready"] /\ Reports("replace", None)
  BY DEF ReplaceStarts, Reporting
<1>2. Doing(mode') = mode.k
  BY <1>1, StageFacts
<1>3. CASE ~IsHeard
  BY <1>1, <1>2, <1>3, NotHeardAgrees
<1>4. CASE IsHeard
  <2>1. Handles("replace", None) /\ running.kind = "replace"
    BY <1>1, <1>4 DEF Reports, IsHeard
  <2>2. /\ running' = [running EXCEPT !.pc = "awaitsDone"]
        /\ Enters("including", commands, smartStartEnabled)
    BY <2>1 DEF Handles, Goes, SetInclusionState
  <2>3. inclusionState' = ActiveOf(running) /\ UNCHANGED commands
    BY <2>1, <2>2 DEF Enters, ActiveOf
  <2>4. running'.id = running.id /\ running'.kind = running.kind
        /\ running'.pc \in Awaits \ {"awaitsReplace"}
    BY <2>2, NextPc, PcFacts DEF Awaits
  <2> QED
    BY <1>1, <1>2, <1>4, <2>3, <2>4, WaitsAgrees
<1> QED
  BY <1>3, <1>4

LEMMA ReplaceDoneAgrees ==
    ASSUME Base, InAccord, ReplaceDone
    PROVE  InAccord'
<1>1. /\ Reporting /\ mode.k = "replace" /\ mode.stage = "ready"
      /\ mode' = Off /\ Reports("done", mode.node)
  BY DEF ReplaceDone, Reporting
<1>2. Doing(mode') = "off"
  BY <1>1 DEF Doing, Off
<1>3. CASE ~IsHeard
  BY <1>1, <1>2, <1>3, NotHeardAgrees
<1>4. CASE IsHeard
  <2>1. Handles("done", mode.node) /\ running.kind = "replace"
    BY <1>1, <1>4 DEF Reports, IsHeard
  <2>2. /\ running' = [running EXCEPT !.pc = "bootstraps", !.found = running.node]
        /\ Enters("busy", commands, smartStartEnabled)
    BY <2>1 DEF Handles, ReplaceNode, SetInclusionState, Adds
  <2>3. inclusionState' = "busy" /\ UNCHANGED commands
    BY <2>2 DEF Enters
  <2>4. running'.id = running.id /\ running'.kind = running.kind /\ running'.pc = "bootstraps"
    BY <2>2, NextPc, PcFacts
  <2>5. AllMine(running', commands)
    BY <1>1, <1>4, <2>4, CatchFacts, SameTask
  <2> QED
    BY <1>2, <2>3, <2>4, <2>5 DEF InAccord, Agrees, Good, Awaits
<1> QED
  BY <1>3, <1>4

LEMMA FailureAgrees ==
    ASSUME Base, InAccord, FailureReported
    PROVE  InAccord'
<1>1. /\ Reporting
      /\ mode' = IF mode.k = "replace" THEN Off ELSE [mode EXCEPT !.stage = "ready"]
  BY DEF FailureReported, Reporting, Catching
<1>2. PICK st \in {"failed", "unexpected"} : Reports(st, None)
  BY DEF FailureReported
<1>3. Doing(mode') = IF mode.k = "replace" THEN "off" ELSE mode.k
  <2>1. Doing(Off) = "off"
    BY DEF Doing, Off
  <2> QED
    BY <1>1, <2>1, StageFacts
<1>4. CASE ~IsHeard
  BY <1>1, <1>2, <1>3, <1>4, NotHeardAgrees
<1>5. CASE IsHeard
  <2>0. Handles(st, None) /\ WorksFor(mode.k, running) /\ commands \in Seq(Orders)
        /\ AllMine(running, commands) /\ running.id # 0
    BY <1>1, <1>2, <1>5, CatchFacts DEF Reports
  <2>1. CASE running.kind = "replace"
    <3>1. /\ running' = NoTask
          /\ \/ Enters("idle", commands, smartStartEnabled)
             \/ UNCHANGED <<inclusionState, commands>>
      BY <2>0, <2>1 DEF Handles, Ends, SetInclusionState
    <3>2. Doing(mode') = "off"
      BY <1>3, <2>0, <2>1 DEF WorksFor, Adds
    <3>3. inclusionState \in {"busy", "including"}
      BY <1>1, <1>5, <2>1, CatchFacts DEF ActiveOf
    <3>4. Agrees(NoTask, inclusionState', "off", commands')
      <4>1. CASE Enters("idle", commands, smartStartEnabled)
        BY <2>0, <4>1, TaskOver
      <4>2. CASE UNCHANGED <<inclusionState, commands>>
        BY <2>0, <3>3, <4>2, TaskLeft
      <4> QED
        BY <3>1, <4>1, <4>2
    <3> QED
      BY <3>1, <3>2, <3>4 DEF InAccord
  <2>2. CASE running.kind # "replace"
    <3>1. Aborts /\ running.pc # "awaitsReplace"
      BY <1>1, <1>5, <2>0, <2>2, CatchFacts DEF Handles
    <3>2. inclusionState = ActiveOf(running)
      BY <1>1, <1>5, <3>1, CatchFacts
    <3>3. PICK op \in {"stopAdd", "stopRemove"} : Sends(op, "aborting") /\ UNCHANGED inclusionState
      BY <3>1, <3>2 DEF Aborts, ActiveOf
    <3>4. /\ running' = [running EXCEPT !.pc = "aborting"]
          /\ commands' = Append(commands, Command(op, "task", running))
      BY <3>3 DEF Sends, Goes
    <3>5. running'.id = running.id /\ running'.kind = running.kind /\ running'.pc = "aborting"
          /\ op \in Ops
      BY <3>4, NextPc, PcFacts DEF Ops
    <3>6. Doing(mode') # "listen"
      BY <1>1, <1>3 DEF Reporting
    <3>7. \A i \in 1..Len(commands) : commands[i].by = "task" \/ Mine(running, commands[i])
      BY <2>0 DEF AllMine
    <3> QED
      BY <2>0, <3>2, <3>3, <3>4, <3>5, <3>6, <3>7, ClosesAgrees
  <2> QED
    BY <2>1, <2>2
<1> QED
  BY <1>4, <1>5

-----------------------------------------------------------------------------
(* Answers to the task                                                     *)

LEMMA NoRefusal ==
    ASSUME StopsSucceed, NEW c, c.op \in Stops, NEW o \in Outcomes(c)
    PROVE  o = "ok"
<1>1. c.op \notin Refusable
  BY DEF StopsSucceed
<1>2. c.op \notin {"removeFailed", "replaceFailed"}
  BY DEF Stops
<1> QED
  BY <1>1, <1>2 DEF Outcomes

LEMMA ErrorFacts ==
    ASSUME NEW c, NEW o \in Outcomes(c)
    PROVE  o \in {"ok", "refused"} \/ (o = "error" /\ c.op = "replaceFailed")
BY DEF Outcomes

LEMMA DoingAfter ==
    ASSUME NEW c
    PROVE  /\ c.op # "removeFailed" => Doing(ModeAfter(c)) = Does(c.op)
           /\ c.op = "removeFailed" => ModeAfter(c) = mode
<1>1. CASE c.op \in {"listen", "add", "addDSK", "remove"}
  BY <1>1 DEF Doing, ModeAfter, Off, Does
<1>2. CASE c.op = "replaceFailed"
  BY <1>2 DEF Doing, ModeAfter, Does
<1>3. CASE c.op = "removeFailed"
  BY <1>3 DEF ModeAfter
<1>4. CASE c.op \notin {"listen", "add", "addDSK", "remove", "replaceFailed", "removeFailed"}
  <2>1. ModeAfter(c) = Off /\ Does(c.op) = "off"
    BY <1>4 DEF ModeAfter, Does
  <2>2. Doing(Off) = "off"
    BY DEF Doing, Off
  <2> QED
    BY <1>4, <2>1, <2>2
<1> QED
  BY <1>1, <1>2, <1>3, <1>4

LEMMA OwnNext ==
    ASSUME Base, InAccord, commands # <<>>, Head(commands).by = "task"
    PROVE  Good(running, inclusionState, Doing(mode), commands)
<1>1. ~Fatal(running, inclusionState, Head(commands))
  BY DEF Fatal
<1>2. ~Doomed(running, inclusionState, commands)
  BY <1>1, DoomedTail, PcFacts
<1> QED
  BY <1>2 DEF InAccord, Agrees

LEMMA StartsRest ==
    ASSUME NEW cs \in Seq(Orders), cs # <<>>, Head(cs).by = "task", NEW t, NEW s, NEW k,
           Starts(t, s, k, cs)
    PROVE  k = "off" /\ AllMine(t, Tail(cs))
<1>1. PICK j \in 1..Len(cs) :
         /\ cs[j].by = "task" /\ Before(cs, k, j) = "off"
         /\ \A i \in 1..(j - 1) : Quiet(cs[i])
         /\ \A i \in (j + 1)..Len(cs) : Mine(t, cs[i])
  BY DEF Starts
<1>2. /\ Head(cs) = cs[1] /\ Len(cs) = Len(Tail(cs)) + 1 /\ Len(Tail(cs)) \in Nat
      /\ \A i \in 1..Len(Tail(cs)) : Tail(cs)[i] = cs[i + 1]
  BY BeforeTail
<1>3. j = 1
  <2>1. ~Quiet(cs[1])
    BY <1>2 DEF Quiet, None
  <2>2. j # 1 => 1 \in 1..(j - 1)
    OBVIOUS
  <2> QED
    BY <1>1, <2>1, <2>2
<1>4. \A i \in 1..Len(Tail(cs)) : i + 1 \in (j + 1)..Len(cs)
  BY <1>2, <1>3
<1> QED
  BY <1>1, <1>2, <1>3, <1>4 DEF Before, AllMine

LEMMA ClosesRest ==
    ASSUME NEW cs \in Seq(Orders), cs # <<>>, NoOwn(Tail(cs)), NEW t,
           \A i \in 1..Len(cs) : cs[i].by = "task" \/ Mine(t, cs[i])
    PROVE  AllMine(t, Tail(cs))
BY BeforeTail DEF AllMine, NoOwn

LEMMA OwnAgrees ==
    ASSUME Base, InAccord, StopsSucceed, commands # <<>>, NEW c, c = Head(commands),
           c.by = "task", NEW o \in Outcomes(c), Answered(c, o, Tail(commands)),
           mode' = (IF o = "ok" THEN ModeAfter(c) ELSE mode)
    PROVE  InAccord'
<1> DEFINE cs == Tail(commands)
           k == Doing(mode)
<1>1. /\ Decent(c) /\ IsOwn(running, c) /\ cs \in Seq(Orders) /\ AllDecent(cs) /\ NoOwn(cs)
      /\ running \in Tasks /\ Suits(running) /\ running.pc \in PCsOf(running.kind)
  BY OwnFacts
<1>2. running.pc \in Working /\ c.op = OwnOp(running) /\ running.id # 0
  BY <1>1 DEF IsOwn, Suits
<1>3. commands \in Seq(Orders) /\ Good(running, inclusionState, k, commands)
  BY OwnNext, PcFacts
<1>4. Answered(c, o, cs) /\ Doing(mode') = IF o = "ok" THEN Doing(ModeAfter(c)) ELSE k
  OBVIOUS
<1>5. o \in {"ok", "refused"} \/ (o = "error" /\ c.op = "replaceFailed")
  BY ErrorFacts
<1> HIDE DEF k
<1>6. CASE running.pc = "pausing"
  <2>1. c.op = "stopListen"
    BY <1>2, <1>6 DEF OwnOp
  <2>2. o = "ok"
    BY <2>1, NoRefusal DEF Stops
  <2>3. Paused(running, cs) /\ Does(c.op) = "off" /\ Doing(mode') = "off"
    <3>1. Paused(running, cs)
      BY <1>4, <1>6, <2>1, <2>2 DEF Answered
    <3>2. Does(c.op) = "off"
      BY <2>1 DEF Does
    <3>3. Doing(ModeAfter(c)) = Does(c.op)
      BY <2>1, DoingAfter
    <3> QED
      BY <1>4, <2>2, <3>1, <3>2, <3>3
  <2>4. Calm(k, commands) /\ NoCallers(commands)
    BY <1>3, <1>6 DEF Good
  <2>5. Calm("off", cs)
    BY <1>3, <2>3, <2>4, CalmTail
  <2>6. NoCallers(cs)
    BY <1>3, <2>4, BeforeTail DEF NoCallers
  <2> HIDE DEF cs
  <2>7. Agrees(running', inclusionState', "off", commands')
    BY <1>1, <2>3, <2>5, <2>6, PausedAgrees DEF Calm, NoCallers
  <2> QED
    BY <2>3, <2>7 DEF InAccord
<1>7. CASE running.pc = "starting"
  <2>1. Starts(running, inclusionState, k, commands) /\ k = "off" /\ AllMine(running, cs)
    BY <1>3, <1>7, StartsRest DEF Good
  <2>2. running.kind \in Adds \cup {"exclude", "replace"}
    BY <1>7, PcFacts
  <2>3. /\ c.op = IF running.kind = "replace" THEN "replaceFailed" ELSE StartOf(running.kind).op
        /\ c.op \notin {"stopListen", "removeFailed"}
        /\ WorksFor(Does(c.op), running)
        /\ c.op = "replaceFailed" => running.kind = "replace"
    BY <1>2, <1>7, <2>2 DEF OwnOp, StartOf, WorksFor, Does, Adds
  <2> HIDE DEF cs
  <2>4. CASE o = "ok"
    <3>1. /\ running' = [running EXCEPT !.pc = IF running.kind = "replace" THEN "awaitsReplace"
                                                                             ELSE "awaitsFound"]
          /\ commands' = cs /\ UNCHANGED inclusionState
      BY <1>4, <1>7, <2>3, <2>4 DEF Answered, Goes
    <3>2. /\ running'.pc = IF running.kind = "replace" THEN "awaitsReplace" ELSE "awaitsFound"
          /\ running'.id = running.id /\ running'.kind = running.kind
      BY <1>1, <3>1, NextPc
    <3>3. Doing(mode') = Does(c.op)
      BY <1>4, <2>3, <2>4, DoingAfter
    <3>4. Catches(running', inclusionState', Doing(mode'), commands')
      <4>1. /\ AllMine(running', commands') /\ WorksFor(Doing(mode'), running')
            /\ ActiveOf(running') = ActiveOf(running)
        BY <1>1, <2>1, <2>3, <3>1, <3>2, <3>3, SameTask
      <4>2. inclusionState' = IF running'.pc = "awaitsReplace" THEN "busy" ELSE ActiveOf(running')
        BY <2>1, <3>1, <3>2, <4>1 DEF Starts
      <4> QED
        BY <4>1, <4>2 DEF Catches
    <3>5. running'.pc \in Awaits
      BY <3>2 DEF Awaits
    <3> QED
      BY <3>4, <3>5, GoodAwaits DEF InAccord
  <2>5. CASE o # "ok"
    <3>1. Doing(mode') = "off"
      BY <1>4, <2>1, <2>5
    <3>2. CASE o = "refused"
      <4>1. running' = NoTask /\ Enters("idle", cs, smartStartEnabled)
        BY <1>4, <1>7, <2>3, <3>2 DEF Answered, Finishes, Ends, SetInclusionState
      <4> QED
        BY <1>1, <1>2, <2>1, <3>1, <4>1, TaskOver DEF InAccord
    <3>3. CASE o = "error"
      <4>1. running' = NoTask /\ commands' = cs /\ UNCHANGED inclusionState
        BY <1>4, <1>7, <2>3, <3>3 DEF Answered, Ends
      <4>2. inclusionState = "busy"
        BY <1>5, <2>1, <2>3, <3>3 DEF Starts
      <4> QED
        BY <1>1, <1>2, <2>1, <3>1, <4>1, <4>2, TaskLeft DEF InAccord
    <3> QED
      BY <1>5, <2>5, <3>2, <3>3
  <2> QED
    BY <2>4, <2>5
<1>8. CASE running.pc \in {"aborting", "finishing", "stopping"}
  <2>1. Closes(running, inclusionState, k, commands)
    BY <1>3, <1>8 DEF Good
  <2>2. AllMine(running, cs)
    BY <1>1, <1>3, <2>1, ClosesRest DEF Closes
  <2>3. c.op \in {"stopAdd", "stopRemove", "finish", "stopNoCallback"} /\ Does(c.op) = "off"
    BY <1>2, <1>8 DEF OwnOp, Does
  <2>4. Doing(mode') = "off"
    <3>1. running.pc = "aborting" => o = "ok"
      <4>1. running.pc = "aborting" => c.op \in Stops
        BY <1>2 DEF OwnOp, Stops
      <4> QED
        BY <4>1, NoRefusal
    <3>2. Doing(ModeAfter(c)) = "off"
      BY <2>3, DoingAfter
    <3> QED
      BY <1>4, <1>8, <2>1, <3>1, <3>2 DEF Closes
  <2>5. ASSUME Finishes(cs) PROVE InAccord'
    <3>1. running' = NoTask /\ Enters("idle", cs, smartStartEnabled)
      BY <2>5 DEF Finishes, Ends, SetInclusionState
    <3> HIDE DEF cs
    <3> QED
      BY <1>1, <1>2, <2>2, <2>4, <3>1, TaskOver DEF InAccord
  <2> HIDE DEF cs
  <2>6. CASE running.pc = "aborting"
    <3>1. o = "ok"
      <4>1. c.op \in Stops
        BY <1>2, <2>6 DEF OwnOp, Stops
      <4> QED
        BY <4>1, NoRefusal
    <3>2. Finishes(cs)
      BY <1>4, <2>3, <2>6, <3>1 DEF Answered
    <3> QED
      BY <2>5, <3>2
  <2>7. CASE running.pc = "finishing"
    <3>1. /\ running' = [running EXCEPT !.pc = "stopping", !.found = IF o = "ok" THEN @ ELSE None]
          /\ commands' = Append(cs, Command("stopNoCallback", "task", running))
          /\ UNCHANGED inclusionState
      BY <1>4, <2>3, <2>7 DEF Answered
    <3>2. running'.pc = "stopping" /\ running'.id = running.id /\ running'.kind = running.kind
      BY <1>1, <3>1 DEF Tasks
    <3>3. \A i \in 1..Len(cs) : cs[i].by = "task" \/ Mine(running, cs[i])
      BY <2>2 DEF AllMine
    <3>4. "stopNoCallback" \in Ops /\ inclusionState' = ActiveOf(running)
      BY <2>1, <3>1 DEF Ops, Closes
    <3> QED
      BY <1>1, <2>4, <3>1, <3>2, <3>3, <3>4, ClosesAgrees
  <2>8. CASE running.pc = "stopping"
    <3>1. IF running.kind = "exclude" THEN NodeExcluded(cs) ELSE NodeAdded(cs)
      BY <1>4, <2>3, <2>8 DEF Answered
    <3>2. CASE running.kind = "exclude"
      <4>1. Finishes(cs) \/ (running' = NoTask /\ \E e : Enters("idle", cs, e))
        BY <3>1, <3>2 DEF NodeExcluded, Ends, SetInclusionState
      <4>2. CASE running' = NoTask /\ \E e : Enters("idle", cs, e)
        BY <1>1, <1>2, <2>2, <2>4, <4>2, TaskOver DEF InAccord
      <4> QED
        BY <2>5, <4>1, <4>2
    <3>3. CASE running.kind # "exclude"
      <4>1. \/ Finishes(cs)
            \/ /\ running' = [running EXCEPT !.pc = "bootstraps"]
               /\ Enters("busy", cs, smartStartEnabled)
        BY <3>1, <3>3 DEF NodeAdded, Goes, SetInclusionState
      <4>2. CASE /\ running' = [running EXCEPT !.pc = "bootstraps"]
                 /\ Enters("busy", cs, smartStartEnabled)
        <5>1. /\ running'.pc = "bootstraps" /\ running'.id = running.id
              /\ running'.kind = running.kind
          BY <1>1, <4>2, NextPc
        <5>2. inclusionState' = "busy" /\ commands' = cs
          BY <4>2 DEF Enters
        <5>3. AllMine(running', cs)
          BY <1>1, <2>2, <5>1, SameTask
        <5> QED
          BY <2>4, <5>1, <5>2, <5>3 DEF InAccord, Agrees, Good, Awaits
      <4> QED
        BY <2>5, <4>1, <4>2
    <3> QED
      BY <3>2, <3>3
  <2> QED
    BY <1>8, <2>6, <2>7, <2>8
<1>9. CASE running.pc = "removing"
  <2>1. k = "off" /\ Len(commands) = 1
    BY <1>3, <1>9 DEF Good
  <2>2. Len(cs) = 0
    BY <1>3, <2>1, BeforeTail
  <2>3. c.op = "removeFailed"
    BY <1>2, <1>9 DEF OwnOp
  <2>4. Doing(mode') = "off"
    BY <1>4, <2>1, <2>3, DoingAfter DEF k
  <2>5. Finishes(cs)
    BY <1>4, <1>9, <2>3 DEF Answered, Removed, NotRemovedAfterAll
  <2>6. running' = NoTask /\ Enters("idle", cs, smartStartEnabled)
    BY <2>5 DEF Finishes, Ends, SetInclusionState
  <2> HIDE DEF cs
  <2>7. AllMine(running, cs)
    <3>1. 1..Len(cs) = {}
      BY <2>2
    <3> QED
      BY <3>1 DEF AllMine
  <2> QED
    BY <1>1, <1>2, <2>4, <2>6, <2>7, TaskOver DEF InAccord
<1>10. running.pc # "leaving"
  BY <1>3 DEF Good
<1> QED
  BY <1>2, <1>6, <1>7, <1>8, <1>9, <1>10 DEF Working

-----------------------------------------------------------------------------
(* Answers to the others                                                   *)

LEMMA MineCalm ==
    ASSUME NEW cs \in Seq(Orders), NEW t, AllMine(t, cs)
    PROVE  Calm("off", cs) /\ Finally(cs, "off") = "off"
<1>1. \A i \in 1..Len(cs) : cs[i].by = "caller" /\ Does(cs[i].op) = "off"
  BY DEF AllMine, Mine, StopOf, Does
<1>2. Firm("off", cs)
  BY <1>1 DEF Firm, None
<1>3. Finally(cs, "off") = "off"
  BY <1>1, FinallyFacts
<1> QED
  BY <1>1, <1>2, <1>3 DEF Calm

LEMMA MineTail ==
    ASSUME NEW cs \in Seq(Orders), cs # <<>>, NEW t, AllMine(t, cs)
    PROVE  AllMine(t, Tail(cs)) /\ Mine(t, Head(cs))
<1>1. /\ Head(cs) = cs[1] /\ Len(cs) = Len(Tail(cs)) + 1 /\ Len(Tail(cs)) \in Nat
      /\ \A i \in 1..Len(Tail(cs)) : Tail(cs)[i] = cs[i + 1] /\ i + 1 \in 1..Len(cs)
  BY BeforeTail
<1>2. 1 \in 1..Len(cs)
  BY <1>1
<1> QED
  BY <1>1, <1>2 DEF AllMine

(* The task is gone; what it sent and the calls to stop it are still       *)
(* under way.                                                              *)
LEMMA DroppedAgrees ==
    ASSUME NEW t, t.id # 0, NEW p \in Seq(Orders), NEW e, Enters("idle", p, e),
           \A i \in 1..Len(p) : Mine(t, p[i]) \/ Quiet(p[i])
    PROVE  Agrees(NoTask, inclusionState', "off", commands')
<1>1. /\ commands' \in Seq(Orders)
      /\ commands' = p \/ commands' = Append(p, Command("listen", "enable", NoTask))
  BY ListenFacts, AppendFacts DEF Enters
<1> DEFINE S == {i \in 1..Len(p) : p[i].by = "caller"}
<1>2. \A i \in 1..Len(p) : Does(p[i].op) = "off"
  BY DEF Mine, StopOf, Does, Quiet
<1>3. CASE S # {}
  <2>1. /\ Len(p) \in Nat /\ \A i \in 1..Len(p) : commands'[i] = p[i] /\ i \in 1..Len(commands')
        /\ \A i \in 1..Len(commands') : i \in 1..Len(p) \/ commands'[i].by = "enable"
    <3>1. CASE commands' = p
      BY <3>1
    <3>2. CASE commands' = Append(p, Command("listen", "enable", NoTask))
      <4> DEFINE x == Command("listen", "enable", NoTask)
      <4>1. x \in Orders /\ x.by = "enable"
        BY ListenFacts
      <4> HIDE DEF x
      <4>2. /\ Len(p) \in Nat /\ \A i \in 1..Len(p) : Append(p, x)[i] = p[i]
            /\ Append(p, x)[Len(p) + 1] = x
            /\ 1..Len(Append(p, x)) = (1..Len(p)) \cup {Len(p) + 1}
        BY <4>1, BeforeAppend
      <4>3. commands' = Append(p, x)
        BY <3>2 DEF x
      <4> QED
        BY <4>1, <4>2, <4>3
    <3> QED
      BY <1>1, <3>1, <3>2
  <2>2. \A i \in S : Fatal(NoTask, inclusionState', commands'[i])
    <3> SUFFICES ASSUME NEW i \in S PROVE Fatal(NoTask, inclusionState', commands'[i])
      OBVIOUS
    <3>1. Mine(t, p[i])
      BY DEF Quiet, None
    <3> QED
      BY <2>1, <3>1, NoTaskFacts DEF Fatal, Mine, Early
  <2>3. \A i \in 1..Len(commands') : commands'[i].by \in {"task", "caller"} => i \in S
    <3> SUFFICES ASSUME NEW i \in 1..Len(commands'), commands'[i].by \in {"task", "caller"}
                 PROVE  i \in S
      OBVIOUS
    <3>1. i \in 1..Len(p) /\ commands'[i] = p[i]
      BY <2>1
    <3>2. p[i].by = "caller"
      BY <3>1 DEF Mine, Quiet, None
    <3> QED
      BY <3>1, <3>2
  <2>4. S \subseteq 1..Len(commands')
    BY <2>1
  <2>5. \A i \in 1..Len(commands') : commands'[i].by \in {"task", "caller"} => \E j \in S : j <= i
    BY <2>3
  <2> HIDE DEF S
  <2> QED
    BY <1>1, <1>3, <2>2, <2>4, <2>5, FirstFatal
<1>4. CASE S = {}
  <2>1. \A i \in 1..Len(p) : p[i].by # "caller"
    BY <1>4
  <2>2. Firm("off", p)
    <3>1. \A i \in 1..Len(p) : i # 1 => i - 1 \in 1..Len(p)
      BY p \in Seq(Orders)
    <3> QED
      BY <1>2, <3>1 DEF Firm, Before
  <2>3. Finally(p, "off") = "off"
    BY <1>2, FinallyFacts
  <2>4. Calm("off", p)
    BY <1>2, <2>2 DEF Calm
  <2>5. Follows(NoTask, inclusionState', "off", commands')
    BY <2>1, <2>3, <2>4, EntersIdle
  <2> QED
    BY <2>5, GoodEnded
<1> QED
  BY <1>3, <1>4

(* A call that stops a task is answered: the task it is for runs.          *)
LEMMA CallerNext ==
    ASSUME Base, InAccord, commands # <<>>, Head(commands).by = "caller",
           Head(commands).for = running.id
    PROVE  LET k == Doing(mode)
               cs == commands
           IN  \/ running.pc = "ended" /\ (Follows(running, inclusionState, k, cs)
                                           \/ Left(running, inclusionState, k, cs))
               \/ running.pc \in Awaits \cup {"bootstraps"} /\ AllMine(running, cs)
               \/ running.pc \in {"aborting", "finishing", "stopping"}
                  /\ Closes(running, inclusionState, k, cs)
<1> DEFINE k == Doing(mode)
           cs == commands
<1>1. /\ cs \in Seq(Orders) /\ Head(cs) = cs[1] /\ 1 \in 1..Len(cs) /\ Len(cs) \in Nat
      /\ cs[1].by = "caller"
  <2>1. cs \in Seq(Orders) /\ cs # <<>>
    BY PcFacts
  <2>2. Head(cs) = cs[1] /\ Len(cs) \in Nat \ {0}
    BY <2>1, TailFacts
  <2> QED
    BY <2>1, <2>2
<1>2. ~Doomed(running, inclusionState, cs)
  <2>1. ~Fatal(running, inclusionState, Head(cs))
    BY DEF Fatal
  <2> QED
    BY <1>1, <2>1, DoomedTail
<1>3. Good(running, inclusionState, k, cs)
  BY <1>2 DEF InAccord, Agrees
<1>4. running.pc # "removing"
  BY OtherFacts
<1> HIDE DEF k, cs
<1>5. running.pc \notin {"pausing", "blocked", "pinging"}
  <2>1. ~Quiet(cs[1])
    BY <1>1 DEF Quiet, None
  <2>2. cs # <<>>
    BY DEF cs
  <2> QED
    BY <1>1, <1>3, <2>1, <2>2 DEF Good, NoCallers, Pings
<1>6. running.pc # "starting"
  <2>1. ASSUME Starts(running, inclusionState, k, cs) PROVE FALSE
    <3>1. PICK j \in 1..Len(cs) :
             cs[j].by = "task" /\ \A i \in 1..(j - 1) : Quiet(cs[i])
      BY <2>1 DEF Starts
    <3>2. j # 1
      BY <1>1, <3>1
    <3>3. 1 \in 1..(j - 1)
      BY <3>2
    <3> QED
      BY <1>1, <3>1, <3>3 DEF Quiet, None
  <2> QED
    BY <1>3, <2>1 DEF Good
<1>7. running.pc \in Awaits => AllMine(running, cs)
  <2>1. running.pc \in Awaits => running.pc # "ended"
    BY DEF Awaits
  <2>2. running.pc \in Awaits => ~Follows(running, inclusionState, k, cs)
    BY <1>1, <2>1 DEF Follows
  <2> QED
    BY <1>3, <2>2 DEF Good, Catches
<1> QED
  BY <1>3, <1>4, <1>5, <1>6, <1>7, PcFacts DEF Good, k, cs

LEMMA CallerAgrees ==
    ASSUME Base, Enabled, InAccord, commands # <<>>, NEW c, c = Head(commands),
           c.by = "caller", c.for = running.id, Doing(mode') = "off",
           Stopped(IF c.op = "stopAdd" THEN InclusionTasks ELSE {"exclude"}, Tail(commands))
    PROVE  InAccord'
<1> DEFINE r == Tail(commands)
           kinds == IF c.op = "stopAdd" THEN InclusionTasks ELSE {"exclude"}
           p == IF running.kind \in kinds THEN Orphaned(r) ELSE r
           k == Doing(mode)
<1>1. /\ Enters("idle", p, smartStartEnabled)
      /\ running' = IF running.kind \in kinds THEN NoTask ELSE running
  BY DEF Stopped, SetInclusionState, DropTasks
<1>2. /\ commands \in Seq(Orders) /\ r \in Seq(Orders) /\ Served(running, r) /\ running \in Tasks
      /\ running.pc # "removing" /\ Decent(c)
  BY OtherFacts, PcFacts
<1>3. SUFFICES Agrees(running', inclusionState', "off", commands')
  BY DEF InAccord
<1>4. CASE running.pc = "ended"
  <2>1. running = NoTask /\ running.kind = None
    BY <1>4, PcFacts DEF NoTask
  <2>2. running.kind \notin kinds
    BY <2>1 DEF InclusionTasks, None
  <2>3. running' = NoTask /\ Enters("idle", r, smartStartEnabled)
    BY <1>1, <2>1, <2>2
  <2> HIDE DEF kinds, p, r, k
  <2>4. CASE Follows(running, inclusionState, k, commands)
    <3>1. Does(c.op) = "off"
      BY <1>2 DEF Decent, Does
    <3>2. Follows(NoTask, inclusionState, "off", r)
      BY <1>2, <2>1, <2>4, <3>1, FollowsTail DEF r
    <3>3. Finally(r, "off") = "off" \/ (inclusionState # "idle" /\ smartStartEnabled)
      BY <3>2 DEF Follows, Enabled
    <3>4. /\ Calm("off", r)
          /\ \A i \in 1..Len(r) : r[i].by = "caller" => NoTask.pc = "ended" /\ Mine(NoTask, r[i])
      BY <3>2 DEF Follows
    <3>5. Follows(NoTask, inclusionState', "off", commands')
      BY <1>2, <2>3, <3>3, <3>4, EntersIdle
    <3> QED
      BY <2>3, <3>5, GoodEnded
  <2>5. CASE Left(running, inclusionState, k, commands)
    <3>1. AllMine(NoTask, r)
      BY <1>2, <2>1, <2>5, MineTail DEF Left, r
    <3>2. Calm("off", r) /\ Finally(r, "off") = "off"
      BY <1>2, <3>1, MineCalm
    <3>3. \A i \in 1..Len(r) : NoTask.pc = "ended" /\ Mine(NoTask, r[i])
      BY <3>1, NoTaskFacts DEF AllMine
    <3>4. Follows(NoTask, inclusionState', "off", commands')
      BY <1>2, <2>3, <3>2, <3>3, EntersIdle
    <3> QED
      BY <2>3, <3>4, GoodEnded
  <2> QED
    BY <1>4, <2>4, <2>5, CallerNext, PcFacts DEF k, Awaits
<1>5. CASE running.pc # "ended"
  <2>1. \/ running.pc \in Awaits \cup {"bootstraps"} /\ AllMine(running, commands)
        \/ running.pc \in {"aborting", "finishing", "stopping"}
           /\ Closes(running, inclusionState, k, commands)
    BY <1>5, CallerNext
  <2>2. Mine(running, c) /\ \A i \in 1..Len(r) : r[i].by = "task" \/ Mine(running, r[i])
    <3>1. CASE AllMine(running, commands)
      BY <1>2, <3>1, MineTail DEF AllMine
    <3>2. CASE Closes(running, inclusionState, k, commands)
      <4>1. /\ Head(commands) = commands[1] /\ Len(commands) = Len(r) + 1 /\ Len(r) \in Nat
            /\ \A i \in 1..Len(r) : r[i] = commands[i + 1] /\ i + 1 \in 1..Len(commands)
        BY <1>2, BeforeTail
      <4>2. 1 \in 1..Len(commands)
        BY <4>1
      <4> QED
        BY <3>2, <4>1, <4>2 DEF Closes
    <3> QED
      BY <2>1, <3>1, <3>2
  <2>3. running.kind \in Adds \cup {"exclude", "replace"} /\ running.id # 0
    BY <1>5, <2>1, PcFacts
  <2>4. running.kind \in kinds
    BY <2>2, <2>3 DEF Mine, StopOf, InclusionTasks, Adds
  <2>5. running' = NoTask /\ p = Orphaned(r)
    BY <1>1, <2>4
  <2> HIDE DEF kinds, p, r
  <2>6. /\ p \in Seq(Orders) /\ Len(p) = Len(r)
        /\ \A i \in 1..Len(r) :
             p[i] = IF r[i].by = "task" THEN [r[i] EXCEPT !.by = None] ELSE r[i]
    BY <1>2, <2>5, OrphanedFacts
  <2>7. \A i \in 1..Len(p) : Mine(running, p[i]) \/ Quiet(p[i])
    <3> SUFFICES ASSUME NEW i \in 1..Len(r) PROVE Mine(running, p[i]) \/ Quiet(p[i])
      BY <2>6
    <3>1. CASE r[i].by # "task"
      BY <2>2, <2>6, <3>1
    <3>2. CASE r[i].by = "task"
      <4>1. running.pc \in Working
        BY <1>2, <3>2 DEF Served, NoOwn
      <4>2. running.pc \in {"aborting", "finishing", "stopping"}
        BY <2>1, <4>1 DEF Working, Awaits
      <4>3. PICK j \in 1..Len(r) : OwnAt(running, r, j)
        BY <1>2, <4>1 DEF Served
      <4>4. r[i].op = OwnOp(running)
        BY <3>2, <4>3 DEF OwnAt, IsOwn
      <4>5. Does(r[i].op) = "off"
        BY <4>2, <4>4 DEF OwnOp, Does
      <4>6. r[i] \in Orders
        BY <1>2
      <4>7. p[i].op = r[i].op /\ p[i].by = None
        BY <2>6, <3>2, <4>6 DEF Orders
      <4> QED
        BY <4>5, <4>7 DEF Quiet
    <3> QED
      BY <3>1, <3>2
  <2> QED
    BY <1>1, <2>3, <2>5, <2>6, <2>7, DroppedAgrees
<1> QED
  BY <1>4, <1>5

(* SmartStart was switched on, or that failed: it still is.                *)
LEMMA EnableAgrees ==
    ASSUME Base, Enabled, InAccord, commands # <<>>, NEW c, c = Head(commands),
           c.by = "enable", NEW o, AnsweredCall(c, o, Tail(commands)),
           ~Late(c, o, Tail(commands)),
           mode' = (IF o = "ok" THEN ModeAfter(c) ELSE mode)
    PROVE  InAccord'
<1> DEFINE r == Tail(commands)
           k == Doing(mode)
<1>1. /\ commands \in Seq(Orders) /\ r \in Seq(Orders) /\ c.op = "listen"
      /\ inclusionState \in States
  BY OtherFacts, PcFacts DEF Decent
<1>2. /\ running' = running
      /\ inclusionState \in {"idle", "smartStart"}
      /\ o = "ok" => commands' = r /\ inclusionState' = inclusionState
      /\ o # "ok" => inclusionState = "smartStart" /\ Enters("idle", r, smartStartEnabled)
  BY <1>1 DEF AnsweredCall, SetInclusionState, Late, Overtaken, tasks, States
<1>3. Doing(mode') = IF o = "ok" THEN "listen" ELSE k
  <2>1. Doing(ModeAfter(c)) = "listen"
    BY <1>1, DoingAfter DEF Does
  <2> QED
    BY <2>1
<1>4. ~Fatal(running, inclusionState, c) /\ Does(c.op) = "listen"
  BY <1>1, <1>2 DEF Fatal, Active, Does
<1>5. /\ \A i \in 1..Len(r) : r[i] = commands[i + 1] /\ i + 1 \in 1..Len(commands)
  BY <1>1, BeforeTail
<1>6. SUFFICES Agrees(running, inclusionState', Doing(mode'), commands')
  BY <1>2 DEF InAccord
<1>7. Doomed(running, inclusionState, commands) \/ Good(running, inclusionState, k, commands)
  BY DEF InAccord, Agrees
<1> DEFINE x == Command("listen", "enable", NoTask)
<1>8. x \in Orders /\ x.by = "enable" /\ Does(x.op) = "listen"
  BY ListenFacts
<1>9. o # "ok" => inclusionState' = inclusionState /\ commands' = Append(r, x)
  BY <1>2 DEF Enters, Enabled
<1>10. Doomed(running, inclusionState, commands) => Doomed(running, inclusionState, r)
  BY <1>1, <1>4, DoomedTail
<1>11. \A t, s : Follows(t, s, k, commands) => Follows(t, s, "listen", r)
  BY <1>1, <1>4, FollowsTail
<1>12. Calm(k, commands) => Calm("listen", r)
  BY <1>1, <1>4, CalmTail
<1>13. Calm(k, commands) => Calm(k, r)
  <2> SUFFICES ASSUME Calm(k, commands) PROVE Calm(k, r)
    OBVIOUS
  <2>1. Firm(k, r)
    BY <1>1, <1>4, FirmTail DEF Calm
  <2> QED
    BY <1>5, <2>1 DEF Calm
<1> HIDE DEF r, k, x
<1>14. NoCallers(commands) => NoCallers(r)
  BY <1>5 DEF NoCallers
<1>15. CASE o = "ok"
  <2>1. CASE Doomed(running, inclusionState, commands)
    BY <1>2, <1>10, <1>15, <2>1 DEF Agrees
  <2>2. CASE running.pc = "pausing" /\ Calm(k, commands) /\ NoCallers(commands)
    BY <1>2, <1>3, <1>12, <1>14, <1>15, <2>2, GoodPauses
  <2>3. CASE running.pc \in {"ended"} \cup Awaits
             /\ Follows(running, inclusionState, k, commands)
    <3>1. Follows(running, inclusionState, "listen", r)
      BY <1>11, <2>3
    <3>2. CASE running.pc \in Awaits
      BY <1>2, <1>3, <1>15, <3>1, <3>2, GoodAwaits
    <3>3. CASE running.pc = "ended"
      BY <1>2, <1>3, <1>15, <3>1, <3>3, GoodEnded, PcFacts
    <3> QED
      BY <2>3, <3>2, <3>3
  <2> QED
    BY <1>2, <1>7, <2>1, <2>2, <2>3, AtRest
<1>16. CASE o # "ok"
  <2>0. inclusionState = "smartStart" /\ inclusionState' = "smartStart" /\ Doing(mode') = k
        /\ commands' = Append(r, x)
    BY <1>2, <1>3, <1>9, <1>16
  <2>1. CASE Doomed(running, inclusionState, commands)
    <3>1. Doomed(running, inclusionState, Append(r, x))
      BY <1>1, <1>8, <1>10, <2>1, DoomedAppend DEF r
    <3> QED
      BY <2>0, <3>1 DEF Agrees
  <2>2. CASE running.pc = "pausing" /\ Calm(k, commands) /\ NoCallers(commands)
    <3>1. r \in Seq(Orders) /\ x.by # None /\ x.by # "caller"
      BY <1>1, <1>8 DEF r, None
    <3>2. Calm(k, Append(r, x))
      BY <1>8, <1>13, <2>2, <3>1, CalmAppend
    <3>3. NoCallers(Append(r, x))
      BY <1>8, <1>14, <2>2, <3>1, BeforeAppend DEF NoCallers
    <3> QED
      BY <2>0, <2>2, <3>2, <3>3, GoodPauses
  <2>3. CASE running.pc \in {"ended"} \cup Awaits
             /\ Follows(running, inclusionState, k, commands)
    <3>1. r \in Seq(Orders)
      BY <1>1 DEF r
    <3>2. \A i \in 1..Len(r) : r[i].by = "caller" => running.pc = "ended" /\ Mine(running, r[i])
      BY <1>5, <2>3 DEF Follows
    <3>3. Calm(k, r)
      BY <1>13, <2>3 DEF Follows
    <3>4. Follows(running, "smartStart", k, Append(r, x))
      BY <1>8, <3>1, <3>2, <3>3, Switched
    <3>5. CASE running.pc \in Awaits
      BY <2>0, <3>4, <3>5, GoodAwaits
    <3>6. CASE running.pc = "ended"
      BY <2>0, <3>4, <3>6, GoodEnded, PcFacts
    <3> QED
      BY <2>3, <3>5, <3>6
  <2> QED
    BY <1>2, <1>7, <2>1, <2>2, <2>3, AtRest
<1> QED
  BY <1>15, <1>16

(* Somebody else's command, for whose answer nobody waits.                 *)
LEMMA QuietNext ==
    ASSUME Base, commands # <<>>, NEW c, c = Head(commands), c.by \in {"disable", None},
           NEW k, Good(running, inclusionState, k, commands)
    PROVE  /\ Does(c.op) = "off"
           /\ c.by = None /\ c.op \in {"finish", "stopNoCallback"} => k = "off"
           /\ \/ running.pc = "pausing" /\ inclusionState \in {"idle", "smartStart"}
                 /\ Calm(k, commands) /\ NoCallers(commands)
              \/ running.pc \in {"ended"} \cup Awaits
                 /\ Follows(running, inclusionState, k, commands)
              \/ running.pc = "starting" /\ Starts(running, inclusionState, k, commands)
              \/ running.pc = "pinging" /\ Pings(inclusionState, k, commands)
<1> DEFINE cs == commands
<1>1. /\ cs \in Seq(Orders) /\ c = cs[1] /\ 1 \in 1..Len(cs) /\ Len(cs) \in Nat
      /\ cs # <<>> /\ c.by \notin {"task", "caller", "enable"}
  <2>1. cs \in Seq(Orders) /\ cs # <<>>
    BY PcFacts
  <2>2. Head(cs) = cs[1] /\ Len(cs) \in Nat \ {0}
    BY <2>1, TailFacts
  <2> QED
    BY <2>1, <2>2 DEF None
<1>2. Decent(c) /\ Served(running, cs)
  BY OtherFacts, BaseFacts DEF None
<1>3. c.op # "listen"
  BY <1>1, <1>2 DEF Decent
<1> HIDE DEF cs
<1>4. ~AllMine(running, cs)
  BY <1>1 DEF AllMine, Mine
<1>5. running.pc # "removing"
  <2>1. ASSUME Len(cs) = 1, running.pc = "removing" PROVE FALSE
    <3>1. PICK j \in 1..Len(cs) : OwnAt(running, cs, j)
      BY <1>2, <2>1 DEF Served, Working
    <3>2. j = 1 /\ cs[j].by = "task"
      BY <2>1, <3>1 DEF OwnAt, IsOwn
    <3> QED
      BY <1>1, <3>2
  <2> QED
    BY <2>1 DEF Good, cs
<1>6. running.pc \notin {"aborting", "finishing", "stopping", "bootstraps", "blocked"}
  <2>1. ~Closes(running, inclusionState, k, cs)
    BY <1>1 DEF Closes, Mine
  <2> QED
    BY <1>4, <2>1 DEF Good, cs
<1>7. Calm(k, cs) \/ Starts(running, inclusionState, k, cs) \/ Pings(inclusionState, k, cs)
  BY <1>4, <1>5, <1>6, PcFacts DEF Good, Follows, Left, Catches, cs
<1>8. Does(c.op) = "off" /\ Firm(k, cs)
  <2>1. CASE Calm(k, cs)
    <3>1. Does(c.op) \in {"off", "listen"}
      BY <1>1, <2>1 DEF Calm
    <3>2. Does(c.op) # "listen"
      BY <1>3 DEF Does
    <3> QED
      BY <2>1, <3>1, <3>2 DEF Calm
  <2>2. CASE Starts(running, inclusionState, k, cs)
    <3>1. PICK j \in 1..Len(cs) :
             cs[j].by = "task" /\ \A i \in 1..(j - 1) : Quiet(cs[i])
      BY <2>2 DEF Starts
    <3>2. j # 1
      BY <1>1, <3>1
    <3>3. 1 \in 1..(j - 1)
      BY <3>2
    <3>4. Quiet(c)
      BY <1>1, <3>1, <3>3
    <3> QED
      BY <2>2, <3>4 DEF Starts, Quiet
  <2>3. CASE Pings(inclusionState, k, cs)
    BY <1>1, <2>3 DEF Pings, Quiet
  <2> QED
    BY <1>7, <2>1, <2>2, <2>3
<1>9. c.by = None /\ c.op \in {"finish", "stopNoCallback"} => k = "off"
  BY <1>1, <1>8 DEF Firm, Before
<1>10. \/ running.pc = "pausing" /\ inclusionState \in {"idle", "smartStart"}
          /\ Calm(k, cs) /\ NoCallers(cs)
       \/ running.pc \in {"ended"} \cup Awaits /\ Follows(running, inclusionState, k, cs)
       \/ running.pc = "starting" /\ Starts(running, inclusionState, k, cs)
       \/ running.pc = "pinging" /\ Pings(inclusionState, k, cs)
  BY <1>4, <1>5, <1>6, PcFacts DEF Good, Left, Catches, cs
<1> QED
  BY <1>8, <1>9, <1>10 DEF cs

LEMMA StartsTail ==
    ASSUME NEW cs \in Seq(Orders), cs # <<>>, Head(cs).by # "task", NEW t, NEW s, NEW k,
           Starts(t, s, k, cs)
    PROVE  Starts(t, s, Does(Head(cs).op), Tail(cs))
<1> DEFINE r == Tail(cs)
           d == Does(Head(cs).op)
<1>1. PICK j \in 1..Len(cs) :
         /\ cs[j].by = "task" /\ Before(cs, k, j) = "off"
         /\ \A i \in 1..(j - 1) : Quiet(cs[i])
         /\ \A i \in (j + 1)..Len(cs) : Mine(t, cs[i])
  BY DEF Starts
<1>2. /\ Head(cs) = cs[1] /\ Len(cs) = Len(r) + 1 /\ Len(r) \in Nat
      /\ \A i \in 1..Len(r) : r[i] = cs[i + 1]
      /\ \A i \in 2..Len(cs) : cs[i] = r[i - 1] /\ i - 1 \in 1..Len(r)
      /\ \A i \in 1..(Len(r) + 1) : Before(r, d, i) = Before(cs, k, i + 1)
  BY BeforeTail
<1>3. Firm(d, r)
  BY FirmTail DEF Starts
<1> HIDE DEF r, d
<1>4. j # 1
  BY <1>1, <1>2
<1>5. /\ j \in 2..Len(cs) /\ j - 1 \in 1..Len(r) /\ j - 1 \in 1..(Len(r) + 1)
      /\ \A i \in 1..((j - 1) - 1) : i + 1 \in 1..(j - 1) /\ i \in 1..Len(r)
      /\ \A i \in ((j - 1) + 1)..Len(r) : i + 1 \in (j + 1)..Len(cs) /\ i \in 1..Len(r)
      /\ (j - 1) + 1 = j
  BY <1>2, <1>4
<1>6. r[j - 1].by = "task" /\ Before(r, d, j - 1) = "off"
  BY <1>1, <1>2, <1>5
<1>7. \A i \in 1..((j - 1) - 1) : Quiet(r[i])
  BY <1>1, <1>2, <1>5
<1>8. \A i \in ((j - 1) + 1)..Len(r) : Mine(t, r[i])
  BY <1>1, <1>2, <1>5
<1>9. Starts(t, s, d, r)
  BY <1>3, <1>5, <1>6, <1>7, <1>8 DEF Starts
<1> QED
  BY <1>9 DEF r, d

LEMMA QuietAgrees ==
    ASSUME Base, InAccord, StopsSucceed, commands # <<>>, NEW c, c = Head(commands),
           c.by \in {"disable", None}, NEW o \in Outcomes(c),
           AnsweredCall(c, o, Tail(commands)),
           mode' = (IF o = "ok" THEN ModeAfter(c) ELSE mode)
    PROVE  InAccord'
<1> DEFINE r == Tail(commands)
           k == Doing(mode)
<1>1. /\ commands \in Seq(Orders) /\ r \in Seq(Orders) /\ Decent(c) /\ c \in Orders
      /\ c.by \notin {"task", "caller", "enable"}
  BY OtherFacts, PcFacts DEF None
<1>2. c.by = "disable" => c.op = "stopListen" /\ o = "ok"
  BY <1>1, NoRefusal DEF Decent, Stops
<1>3. commands' = r /\ UNCHANGED <<running, inclusionState>>
  BY <1>1, <1>2 DEF AnsweredCall, tasks
<1>4. ~Fatal(running, inclusionState, c)
  BY <1>1 DEF Fatal
<1>5. Doomed(running, inclusionState, commands) \/ Good(running, inclusionState, k, commands)
  BY DEF InAccord, Agrees
<1>6. CASE Doomed(running, inclusionState, commands)
  <2>1. Doomed(running, inclusionState, r)
    BY <1>1, <1>4, <1>6, DoomedTail
  <2> QED
    BY <1>3, <2>1 DEF InAccord, Agrees
<1>7. CASE Good(running, inclusionState, k, commands)
  <2>1. Does(c.op) = "off" /\ (c.by = None /\ c.op \in {"finish", "stopNoCallback"} => k = "off")
    BY <1>7, QuietNext
  <2>2. c.op # "removeFailed"
    BY <1>1 DEF Decent
  <2>3. Doing(mode') = "off"
    <3>1. CASE o = "ok"
      BY <2>1, <2>2, <3>1, DoingAfter
    <3>2. CASE o # "ok"
      <4>1. c.op \notin Stops /\ c.by = None
        BY <1>2, <3>2, NoRefusal
      <4>2. c.op \in {"finish", "stopNoCallback"}
        BY <1>1, <2>1, <2>2, <4>1 DEF Orders, Ops, StartOps, Stops, Does
      <4> QED
        BY <2>1, <3>2, <4>1, <4>2
    <3> QED
      BY <3>1, <3>2
  <2> HIDE DEF k
  <2>4. SUFFICES Agrees(running, inclusionState, "off", r)
    BY <1>3, <2>3 DEF InAccord
  <2>5. CASE /\ running.pc = "pausing" /\ inclusionState \in {"idle", "smartStart"}
             /\ Calm(k, commands) /\ NoCallers(commands)
    <3>1. Calm("off", r)
      BY <1>1, <2>1, <2>5, CalmTail
    <3>2. NoCallers(r)
      BY <1>1, <2>5, BeforeTail DEF NoCallers
    <3> HIDE DEF r
    <3> QED
      BY <2>5, <3>1, <3>2, GoodPauses
  <2>6. CASE running.pc \in {"ended"} \cup Awaits
             /\ Follows(running, inclusionState, k, commands)
    <3>1. Follows(running, inclusionState, "off", r)
      BY <1>1, <2>1, <2>6, FollowsTail
    <3> HIDE DEF r
    <3> QED
      BY <2>6, <3>1, GoodAwaits, GoodEnded, PcFacts
  <2>7. CASE running.pc = "starting" /\ Starts(running, inclusionState, k, commands)
    <3>1. Starts(running, inclusionState, "off", r)
      BY <1>1, <2>1, <2>7, StartsTail
    <3> HIDE DEF r
    <3> QED
      BY <2>7, <3>1, GoodStarts
  <2>8. CASE running.pc = "pinging" /\ Pings(inclusionState, k, commands)
    <3>1. /\ Finally(r, "off") = Finally(commands, k)
          /\ \A i \in 1..Len(r) : r[i] = commands[i + 1] /\ i + 1 \in 1..Len(commands)
      BY <1>1, <2>1, BeforeTail
    <3>2. Firm("off", r)
      BY <1>1, <2>1, <2>8, FirmTail DEF Pings
    <3> HIDE DEF r
    <3>3. Pings(inclusionState, "off", r)
      BY <2>8, <3>1, <3>2 DEF Pings
    <3> QED
      BY <2>8, <3>3, GoodPings
  <2> QED
    BY <1>7, <2>5, <2>6, <2>7, <2>8, QuietNext
<1> QED
  BY <1>5, <1>6, <1>7

LEMMA ExecuteAgrees ==
    ASSUME Base, Enabled, InAccord, StopsSucceed, Execute, ~crossed'
    PROVE  InAccord'
<1> DEFINE c == Head(commands)
<1>a. PICK o \in Outcomes(c) : \E done \in Executed(c, o) :
         /\ mode' = IF done THEN ModeAfter(c) ELSE mode
         /\ crossed' = (crossed \/ Late(c, o, Tail(commands)) \/ (done /\ o # "ok"))
         /\ c.by = "task" => Answered(c, o, Tail(commands))
         /\ c.by # "task" => AnsweredCall(c, o, Tail(commands))
  BY DEF Execute
<1>0. PICK done \in Executed(c, o) :
         /\ mode' = IF done THEN ModeAfter(c) ELSE mode
         /\ crossed' = (crossed \/ Late(c, o, Tail(commands)) \/ (done /\ o # "ok"))
         /\ c.by = "task" => Answered(c, o, Tail(commands))
         /\ c.by # "task" => AnsweredCall(c, o, Tail(commands))
  BY <1>a
<1>1. /\ mode' = IF o = "ok" THEN ModeAfter(c) ELSE mode
      /\ ~Late(c, o, Tail(commands))
      /\ c.by = "task" => Answered(c, o, Tail(commands))
      /\ c.by # "task" => AnsweredCall(c, o, Tail(commands))
  <2>1. /\ done \in BOOLEAN /\ (o = "ok" => done)
        /\ ~Late(c, o, Tail(commands)) /\ ~(done /\ o # "ok")
    <3>1. ~(crossed \/ Late(c, o, Tail(commands)) \/ (done /\ o # "ok"))
      BY <1>0
    <3> QED
      BY <3>1, ExecutedFacts
  <2>2. done <=> o = "ok"
    BY <2>1
  <2> QED
    BY <1>0, <2>1, <2>2
<1>2. commands # <<>> /\ c = Head(commands)
  BY DEF Execute
<1>3. c.by \in {"task", "caller", "enable", "disable", None}
  <2>1. c \in Orders
    BY <1>2, PcFacts, TailFacts
  <2> QED
    BY <2>1 DEF Orders
<1> HIDE DEF c
<1>4. CASE c.by = "task"
  BY <1>1, <1>2, <1>4, OwnAgrees
<1>5. CASE c.by = "caller"
  <2>1. Decent(c)
    BY <1>2, <1>5, OtherFacts
  <2>2. c.op \in {"stopAdd", "stopRemove"}
    BY <1>5, <2>1 DEF Decent
  <2>3. o = "ok"
    BY <2>2, NoRefusal DEF Stops
  <2>4. Doing(mode') = "off"
    BY <1>1, <2>2, <2>3, DoingAfter DEF Does
  <2>5. Stopped(IF c.op = "stopAdd" THEN InclusionTasks ELSE {"exclude"}, Tail(commands))
    BY <1>1, <1>5, <2>3 DEF AnsweredCall
  <2>6. c.for = running.id
    BY <1>1, <1>5, <2>3 DEF Late
  <2> QED
    BY <1>2, <1>5, <2>4, <2>5, <2>6, CallerAgrees
<1>6. CASE c.by = "enable"
  BY <1>1, <1>2, <1>6, EnableAgrees
<1>7. CASE c.by \in {"disable", None}
  <2>1. c.by # "task"
    BY <1>7 DEF None
  <2> QED
    BY <1>1, <1>2, <1>7, <2>1, QuietAgrees
<1> QED
  BY <1>3, <1>4, <1>5, <1>6, <1>7

-----------------------------------------------------------------------------
(* A task begins                                                           *)

LEMMA FirstQueued ==
    ASSUME Base, IdsOK, queue # <<>>
    PROVE  /\ Head(queue) \in Tasks /\ Suits(Head(queue)) /\ Head(queue) = queue[1]
           /\ 1 \in 1..Len(queue)
           /\ \A i \in 1..Len(commands) : commands[i].for # Head(queue).id
<1>1. queue \in Seq(Tasks) /\ QueueOK
  BY DEF Base, Types
<1>2. /\ Head(queue) = queue[1] /\ 1 \in 1..Len(queue) /\ Head(queue) \in Tasks
      /\ DOMAIN queue = 1..Len(queue)
  BY <1>1
<1>3. Head(queue) \in ToSet(queue)
  BY <1>2 DEF ToSet
<1>4. Suits(Head(queue))
  BY <1>1, <1>3 DEF QueueOK
<1>5. queue[1].id \notin Fors(commands)
  BY <1>2 DEF IdsOK, NewIn
<1>6. \A i \in 1..Len(commands) : commands[i].for # queue[1].id
  BY <1>5 DEF Fors
<1> QED
  BY <1>2, <1>4, <1>6

(* Somebody still waits for the end of an earlier task.                    *)
LEMMA StartsLate ==
    ASSUME NEW cs \in Seq(Orders), NoOwn(cs), NEW t, NEW s, NEW k, NEW r \in Seq(Orders),
           NEW i \in 1..Len(cs), cs[i].by = "caller", t.pc \in {"pausing", "starting", "pinging"},
           \A j \in 1..Len(cs) : cs[j].for # t.id,
           r = cs \/ \E x \in Orders : r = Append(cs, x)
    PROVE  Agrees(t, s, k, r)
<1>1. /\ \A j \in 1..Len(cs) : j \in 1..Len(r) /\ r[j] = cs[j]
      /\ \A j \in 1..Len(r) : j \in 1..Len(cs) \/ i <= j
  <2>1. CASE r = cs
    BY <2>1
  <2>2. ASSUME NEW x \in Orders, r = Append(cs, x)
        PROVE  /\ \A j \in 1..Len(cs) : j \in 1..Len(r) /\ r[j] = cs[j]
               /\ \A j \in 1..Len(r) : j \in 1..Len(cs) \/ i <= j
    <3>1. /\ Len(r) = Len(cs) + 1 /\ Len(cs) \in Nat
          /\ \A j \in 1..Len(cs) : r[j] = cs[j]
      BY <2>2, AppendFacts
    <3> QED
      BY <3>1
  <2> QED
    BY <2>1, <2>2
<1> DEFINE S == {j \in 1..Len(cs) : cs[j].by = "caller"}
<1>2. \A j \in S : Fatal(t, s, r[j])
  BY <1>1 DEF Fatal, Early
<1>3. \A j \in 1..Len(r) : r[j].by \in {"task", "caller"} => \E l \in S : l <= j
  <2> SUFFICES ASSUME NEW j \in 1..Len(r), r[j].by \in {"task", "caller"}
               PROVE  \E l \in S : l <= j
    OBVIOUS
  <2>1. CASE j \in 1..Len(cs)
    <3>1. j \in S
      BY <1>1, <2>1 DEF NoOwn
    <3> QED
      BY <3>1
  <2>2. CASE j \notin 1..Len(cs)
    <3>1. i \in S /\ i <= j
      BY <1>1, <2>2
    <3> QED
      BY <3>1
  <2> QED
    BY <2>1, <2>2
<1>4. S \subseteq 1..Len(r) /\ S # {}
  BY <1>1
<1> HIDE DEF S
<1> QED
  BY <1>2, <1>3, <1>4, FirstFatal

LEMMA StartTaskAgrees ==
    ASSUME Base, IdsOK, InAccord, StartTask
    PROVE  InAccord'
<1> DEFINE t == Head(queue)
           k == Doing(mode)
           cs == commands
           x == Command("stopListen", "task", t)
<1>1. /\ running = NoTask /\ queue # <<>> /\ UNCHANGED mode
      /\ \/ /\ inclusionState = "smartStart" /\ running' = [t EXCEPT !.pc = "pausing"]
            /\ commands' = Append(cs, x) /\ UNCHANGED inclusionState
         \/ inclusionState # "smartStart" /\ Paused(t, cs)
  BY DEF StartTask
<1>2. t \in Tasks /\ Suits(t) /\ \A i \in 1..Len(cs) : cs[i].for # t.id
  BY <1>1, FirstQueued
<1>3. cs \in Seq(Orders) /\ AllDecent(cs) /\ NoOwn(cs)
  BY <1>1, NoTaskFacts, BaseFacts
<1>4. Doing(mode') = k
  BY <1>1
<1>5. SUFFICES Agrees(running', inclusionState', k, commands')
  BY <1>4 DEF InAccord
<1>6. Doomed(NoTask, inclusionState, cs) \/ Good(NoTask, inclusionState, k, cs)
  BY <1>1 DEF InAccord, Agrees
<1>7. x \in Orders /\ x.by = "task" /\ Does(x.op) = "off"
  <2>1. "stopListen" \in Ops /\ Does("stopListen") = "off"
    BY DEF Ops, Does
  <2> QED
    BY <1>2, <2>1, CommandFacts
<1>8. /\ running'.pc \in {"pausing", "starting", "pinging"} /\ running'.id = t.id
      /\ commands' = cs \/ \E y \in Orders : commands' = Append(cs, y)
  <2>1. CASE running' = [t EXCEPT !.pc = "pausing"] /\ commands' = Append(cs, x)
    BY <1>2, <1>7, <2>1, NextPc
  <2>2. CASE Paused(t, cs)
    <3> DEFINE sp == StartOf(t.kind)
    <3>1. sp.pc \in {"starting", "pinging"} /\ (sp.op # None => sp.op \in Ops)
      BY DEF StartOf, None, Ops, StartOps
    <3>2. /\ running' = [t EXCEPT !.pc = sp.pc]
          /\ commands' = IF sp.op = None THEN cs ELSE Append(cs, Command(sp.op, "task", t))
      BY <2>2 DEF Paused
    <3> HIDE DEF sp
    <3>3. sp.op # None => Command(sp.op, "task", t) \in Orders
      BY <1>2, <3>1, CommandFacts
    <3>4. running'.pc = sp.pc /\ running'.id = t.id
      BY <1>2, <3>2, NextPc
    <3> QED
      BY <3>1, <3>2, <3>3, <3>4
  <2> QED
    BY <1>1, <2>1, <2>2
<1>9. commands' \in Seq(Orders)
  BY <1>3, <1>8, AppendFacts
<1> HIDE DEF cs, x, t
<1>10. CASE ~NoCallers(cs)
  <2>1. PICK i \in 1..Len(cs) : cs[i].by = "caller"
    BY <1>10 DEF NoCallers
  <2>2. \A j \in 1..Len(cs) : cs[j].for # running'.id
    BY <1>2, <1>8
  <2> QED
    BY <1>3, <1>8, <1>9, <2>1, <2>2, StartsLate
<1>11. CASE NoCallers(cs)
  <2>1. ~Doomed(NoTask, inclusionState, cs)
    BY <1>11, NoTaskFacts DEF Doomed, Fatal, NoCallers
  <2>2. Follows(NoTask, inclusionState, k, cs) \/ Left(NoTask, inclusionState, k, cs)
    BY <1>6, <2>1, NoTaskFacts DEF Good
  <2>3. Left(NoTask, inclusionState, k, cs) => cs = <<>> /\ k = "off"
    <3>1. ASSUME AllMine(NoTask, cs) PROVE cs = <<>>
      <4>1. 1..Len(cs) = {}
        BY <1>11, <3>1 DEF AllMine, Mine, NoCallers
      <4>2. Len(cs) \in Nat
        BY <1>3
      <4>3. Len(cs) = 0
        BY <4>1, <4>2
      <4> QED
        BY <1>3, <4>3
    <3> QED
      BY <3>1 DEF Left
  <2> HIDE DEF k
  <2>4. Calm(k, cs)
    BY <2>2, <2>3, CalmNone DEF Follows
  <2>5. CASE /\ inclusionState = "smartStart" /\ running' = [t EXCEPT !.pc = "pausing"]
             /\ commands' = Append(cs, x) /\ UNCHANGED inclusionState
    <3>1. running'.pc = "pausing"
      BY <1>2, <2>5, NextPc
    <3>2. Calm(k, Append(cs, x))
      BY <1>3, <1>7, <2>4, CalmAppend DEF None
    <3>3. NoCallers(Append(cs, x))
      BY <1>3, <1>7, <1>11, BeforeAppend DEF NoCallers
    <3> QED
      BY <2>5, <3>1, <3>2, <3>3, GoodPauses
  <2>6. CASE inclusionState # "smartStart" /\ Paused(t, cs)
    <3>1. cs = <<>> => k = "off"
      BY <1>3, <2>2, <2>3, <2>6, FinallyFacts DEF Follows
    <3>2. /\ Firm(k, cs)
          /\ \A i \in 1..Len(cs) : Does(cs[i].op) \in {"off", "listen"}
      BY <2>4 DEF Calm
    <3> QED
      BY <1>2, <1>3, <2>6, <3>1, <3>2, PausedAgrees
  <2> QED
    BY <1>1, <2>5, <2>6 DEF cs, x, t
<1> QED
  BY <1>10, <1>11

-----------------------------------------------------------------------------
(* Talking to the node, and the soft reset                                 *)

(* No command is under way, so no answer comes too late.                   *)
LEMMA AloneGood ==
    ASSUME InAccord, commands = <<>>
    PROVE  Good(running, inclusionState, Doing(mode), <<>>)
<1>1. ~Doomed(running, inclusionState, <<>>)
  BY DEF Doomed
<1> QED
  BY <1>1 DEF InAccord, Agrees

LEMMA OverAlone ==
    ASSUME Base, running.pc # "ended", commands = <<>>, Doing(mode) = "off", UNCHANGED mode,
           Finishes(commands)
    PROVE  InAccord'
<1>1. running' = NoTask /\ Enters("idle", commands, smartStartEnabled)
  BY DEF Finishes, Ends, SetInclusionState
<1>2. running.id # 0 /\ commands \in Seq(Orders)
  BY PcFacts
<1>3. AllMine(running, commands)
  BY CalmNone DEF AllMine
<1>4. Agrees(NoTask, inclusionState', "off", commands')
  BY <1>1, <1>2, <1>3, TaskOver
<1> QED
  BY <1>1, <1>4 DEF InAccord

LEMMA TalksAgrees ==
    ASSUME Base, InAccord, Bootstrapped \/ BootstrapFails \/ PingAnswered \/ PingFails
    PROVE  InAccord'
<1> DEFINE k == Doing(mode)
<1>1. commands = <<>> /\ UNCHANGED mode /\ running.pc \in {"bootstraps", "pinging"}
  BY DEF Bootstrapped, BootstrapFails, PingAnswered, PingFails
<1>2. running \in Tasks /\ running.pc # "ended" /\ Good(running, inclusionState, k, <<>>)
  BY <1>1, AloneGood, PcFacts
<1>3. k = "off" /\ inclusionState = "busy"
  <2>1. Finally(<<>>, k) = k
    BY FinallyFacts, CalmNone
  <2> HIDE DEF k
  <2> QED
    BY <1>1, <1>2, <2>1 DEF Good, Pings
<1>4. Doing(mode') = "off"
  BY <1>1, <1>3
<1>5. CASE Finishes(commands)
  BY <1>1, <1>2, <1>3, <1>5, OverAlone
<1>6. CASE BootstrapFails
  <2>1. PICK pc \in {"blocked", "pinging"} : running' = [running EXCEPT !.pc = pc]
    BY <1>3, <1>6 DEF BootstrapFails, Goes
  <2>2. commands' = <<>> /\ inclusionState' = "busy" /\ running'.pc = pc
    BY <1>1, <1>2, <1>3, <1>6, <2>1, NextPc DEF BootstrapFails
  <2>3. Pings("busy", "off", <<>>) /\ AllMine(running', <<>>)
    BY CalmNone DEF Pings, AllMine
  <2>4. Good(running', "busy", "off", <<>>)
    BY <2>2, <2>3 DEF Good, Awaits
  <2> QED
    BY <1>4, <2>2, <2>4 DEF InAccord, Agrees
<1>7. CASE PingFails
  <2>1. UNCHANGED inclusionState
    BY <1>7 DEF PingFails
  <2>2. CASE running.kind = "replace"
    <3> DEFINE c == Command("replaceFailed", "task", running)
    <3>1. running' = [running EXCEPT !.pc = "starting"] /\ commands' = Append(<<>>, c)
      BY <1>1, <1>7, <2>2 DEF PingFails, Sends, Goes
    <3>2. running'.pc = "starting" /\ running'.kind = "replace"
      BY <1>2, <2>2, <3>1, NextPc
    <3>3. c \in Orders /\ c.by = "task"
      BY <1>2, CommandFacts DEF Ops, StartOps
    <3> HIDE DEF c
    <3>4. Len(commands') = 1 /\ commands'[1] = c
      BY <3>1
    <3>5. Firm("off", commands')
      BY <3>1, <3>3, FirmAppend, CalmNone DEF None
    <3>6. Starts(running', "busy", "off", commands')
      <4>1. 1 \in 1..Len(commands') /\ 1..(1 - 1) = {} /\ (1 + 1)..Len(commands') = {}
        BY <3>4
      <4> QED
        BY <3>2, <3>3, <3>4, <3>5, <4>1 DEF Starts, Before
    <3> QED
      BY <1>3, <1>4, <2>1, <3>2, <3>6, GoodStarts DEF InAccord
  <2>3. CASE running.kind # "replace"
    <3>1. /\ running' = [running EXCEPT !.pc = "removing"]
          /\ \E c : commands' = Append(<<>>, c)
      BY <1>1, <1>7, <2>3 DEF PingFails, Goes
    <3>2. running'.pc = "removing"
      BY <1>2, <3>1, NextPc
    <3>3. Len(commands') = 1
      BY <3>1
    <3>4. Good(running', "busy", "off", commands')
      BY <3>2, <3>3 DEF Good, Awaits
    <3> QED
      BY <1>3, <1>4, <2>1, <3>4 DEF InAccord, Agrees
  <2> QED
    BY <2>2, <2>3
<1>8. Finishes(commands) \/ BootstrapFails \/ PingFails
  BY DEF Bootstrapped, PingAnswered, NotRemovedAfterAll
<1> QED
  BY <1>5, <1>6, <1>7, <1>8

(* The task is not told: it waits although nothing is on.                  *)
LEMMA SoftResetAgrees ==
    ASSUME Base, SoftReset, ~crossed'
    PROVE  InAccord'
<1>1. /\ commands = <<>> /\ running.pc \in Awaits \cup {"ended"} /\ mode' = Off
      /\ UNCHANGED running /\ Enters("idle", <<>>, smartStartEnabled)
  BY DEF SoftReset, SetInclusionState, tasks
<1>2. Doing(mode') = "off"
  BY <1>1 DEF Doing, Off
<1>3. Follows(running, inclusionState', "off", commands')
  <2>1. \A i \in 1..Len(<<>>) : FALSE
    BY CalmNone
  <2>2. \A i \in 1..Len(<<>>) :
           <<>>[i].by = "caller" => running.pc = "ended" /\ Mine(running, <<>>[i])
    BY <2>1
  <2> QED
    BY <1>1, <2>2, CalmNone, EntersIdle
<1>4. CASE running.pc \in Awaits
  BY <1>1, <1>2, <1>3, <1>4, GoodAwaits DEF InAccord
<1>5. CASE running.pc = "ended"
  BY <1>1, <1>2, <1>3, <1>5, GoodEnded, PcFacts DEF InAccord
<1> QED
  BY <1>1, <1>4, <1>5

-----------------------------------------------------------------------------
(* In SmartStart, SmartStart is enabled                                    *)

LEMMA EnabledKept ==
    ASSUME Enabled, UNCHANGED smartStartEnabled,
           \/ UNCHANGED inclusionState \/ inclusionState' # "smartStart"
           \/ \E s \in States : s # "smartStart" /\ \E cs : SetInclusionState(s, cs)
    PROVE  Enabled'
BY DEF Enabled, SetInclusionState, Enters

LEMMA ReportsEnabled ==
    ASSUME Base, Enabled, NEW st \in {"found", "node", "done", "reserved", "replace", "failed",
                                      "unexpected"},
           NEW n, Reports(st, n)
    PROVE  Enabled'
<1>1. UNCHANGED smartStartEnabled
  BY DEF Reports, settings
<1>2. "idle" \in States /\ "busy" \in States /\ "including" \in States
  BY DEF States
<1>3. CASE ~IsHeard
  BY <1>1, <1>3, EnabledKept DEF Reports
<1>4. CASE IsHeard
  <2>1. Handles(st, n)
    BY <1>4 DEF Reports
  <2>2. running.kind \in Adds \cup {"exclude", "replace"} /\ "replace" \notin Adds
    BY <1>4 DEF IsHeard, Adds
  <2>3. CASE st \in {"failed", "unexpected"}
    BY <1>1, <1>2, <2>1, <2>2, <2>3, EnabledKept DEF Handles, Aborts
  <2>4. CASE st \in {"found", "node", "reserved"}
    BY <1>1, <2>1, <2>4, EnabledKept DEF Handles
  <2>5. CASE st = "replace"
    BY <1>1, <1>2, <2>1, <2>5, EnabledKept DEF Handles
  <2>6. CASE st = "done" /\ running.kind # "replace"
    BY <1>1, <2>1, <2>2, <2>6, EnabledKept DEF Handles
  <2>7. CASE st = "done" /\ running.kind = "replace"
    <3>1. ReplaceNode
      BY <2>1, <2>2, <2>7 DEF Handles
    <3> QED
      BY <1>1, <1>2, <3>1, EnabledKept DEF ReplaceNode
  <2> QED
    BY <2>3, <2>4, <2>5, <2>6, <2>7
<1> QED
  BY <1>3, <1>4

LEMMA FinishesEnabled ==
    ASSUME Enabled, UNCHANGED smartStartEnabled, NEW cs, Finishes(cs)
    PROVE  Enabled'
<1>1. "idle" \in States
  BY DEF States
<1> QED
  BY <1>1, EnabledKept DEF Finishes

LEMMA PausedEnabled ==
    ASSUME Enabled, NEW t, NEW cs, Paused(t, cs)
    PROVE  Enabled'
<1>1. StartOf(t.kind).state # "smartStart"
  BY DEF StartOf
<1> QED
  BY <1>1 DEF Paused, Enabled

LEMMA OwnEnabled ==
    ASSUME Base, Enabled, commands # <<>>, NEW c, c = Head(commands), c.by = "task",
           NEW o \in Outcomes(c), NEW p, Answered(c, o, p)
    PROVE  Enabled'
<1>1. running.pc \in Working /\ c.op = OwnOp(running) /\ running.pc \in PCsOf(running.kind)
  BY OwnFacts DEF IsOwn
<1>2. o \in {"ok", "refused"} \/ (o = "error" /\ c.op = "replaceFailed")
  BY ErrorFacts
<1>3. "idle" \in States /\ "busy" \in States
  BY DEF States
<1>4. CASE running.pc = "pausing"
  <2>2. CASE o = "ok"
    <3>1. Paused(running, p)
      BY <1>4, <2>2 DEF Answered
    <3> QED
      BY <3>1, PausedEnabled
  <2>3. CASE o # "ok"
    BY <1>3, <1>4, <2>3, EnabledKept DEF Answered, settings
  <2> QED
    BY <2>2, <2>3
<1>5. CASE running.pc # "pausing"
  <2>2. CASE running.pc = "starting"
    <3>1. o \in {"ok", "refused", "error"}
      BY <1>2
    <3> QED
      BY <2>2, <3>1, FinishesEnabled, EnabledKept DEF Answered, settings
  <2>3. CASE running.pc = "aborting"
    BY <2>3, FinishesEnabled, EnabledKept DEF Answered, settings
  <2>4. CASE running.pc = "finishing"
    BY <2>4, EnabledKept DEF Answered, settings
  <2>5. CASE running.pc = "stopping" /\ running.kind # "exclude"
    <3>1. NodeAdded(p)
      BY <2>5 DEF Answered
    <3> QED
      BY <1>3, <3>1, FinishesEnabled, EnabledKept DEF NodeAdded, settings
  <2>6. CASE running.pc = "stopping" /\ running.kind = "exclude"
    <3>1. NodeExcluded(p)
      BY <2>6 DEF Answered
    <3>2. \/ UNCHANGED smartStartEnabled /\ Finishes(p)
          \/ UNCHANGED smartStartEnabled /\ SetInclusionState("idle", p)
          \/ \E list : /\ smartStartEnabled' = HasPlannedEntries(list)
                       /\ Enters("idle", p, HasPlannedEntries(list))
      BY <3>1 DEF NodeExcluded, settings
    <3>3. ASSUME NEW list, smartStartEnabled' = HasPlannedEntries(list),
                 Enters("idle", p, HasPlannedEntries(list))
          PROVE  Enabled'
      <4> HIDE DEF HasPlannedEntries
      <4> QED
        BY <3>3 DEF Enters, Enabled
    <3> QED
      BY <1>3, <3>2, <3>3, FinishesEnabled, EnabledKept
  <2>7. CASE running.pc = "removing"
    <3>1. Removed(p) \/ NotRemovedAfterAll(p)
      BY <2>7 DEF Answered
    <3> QED
      BY <3>1, FinishesEnabled DEF Removed, NotRemovedAfterAll, settings
  <2>8. CASE running.pc = "leaving" /\ o = "ok"
    BY <2>8, EnabledKept DEF Answered, settings
  <2>9. CASE running.pc = "leaving" /\ o # "ok"
    <3>1. NotRemovedAfterAll(p)
      BY <2>9 DEF Answered
    <3> QED
      BY <3>1, FinishesEnabled DEF NotRemovedAfterAll
  <2> QED
    BY <1>1, <1>5, <2>2, <2>3, <2>4, <2>5, <2>6, <2>7, <2>8, <2>9 DEF Working
<1> QED
  BY <1>4, <1>5

LEMMA CallEnabled ==
    ASSUME Base, Enabled, StopsSucceed, commands # <<>>, NEW c, c = Head(commands),
           c.by # "task", NEW o \in Outcomes(c), NEW p, AnsweredCall(c, o, p)
    PROVE  Enabled'
<1>1. ~(c.by = "disable" /\ o # "ok")
  <2>1. c.by = "disable" => c.op = "stopListen"
    BY OtherFacts DEF Decent
  <2> QED
    BY <2>1, NoRefusal DEF Stops
<1>2. \/ \E kinds : Stopped(kinds, p)
      \/ SetInclusionState("idle", p) /\ UNCHANGED settings
      \/ UNCHANGED <<inclusionState, settings>>
  BY <1>1 DEF AnsweredCall
<1>3. "idle" \in States
  BY DEF States
<1> QED
  BY <1>2, <1>3, EnabledKept DEF Stopped, settings

LEMMA EnabledStep ==
    ASSUME Base, Enabled, StopsSucceed, [Next]_vars
    PROVE  Enabled'
<1>1. CASE Application
  <2>1. ASSUME NEW d \in DSKs, Provision(d) \/ Unprovision(d) PROVE Enabled'
    <3>1. PICK list : AutoProvision(list)
      BY <2>1 DEF Provision, Unprovision, SetEntry
    <3>2. EnableSmartStart \/ DisableSmartStart
      BY <3>1 DEF AutoProvision
    <3> QED
      BY <3>2 DEF EnableSmartStart, DisableSmartStart, Enabled
  <2>2. CASE BeginInclusion \/ BeginExclusion \/ StopInclusion \/ StopExclusion
    BY <2>2, EnabledKept DEF BeginInclusion, BeginExclusion, StopInclusion, StopExclusion, Begins,
       settings
  <2>3. ASSUME NEW n \in Nodes, ReplaceFailedNode(n) \/ RemoveFailedNode(n) PROVE Enabled'
    BY <2>3, EnabledKept DEF ReplaceFailedNode, RemoveFailedNode, Begins, settings
  <2> QED
    BY <1>1, <2>1, <2>2, <2>3 DEF Application
<1>2. CASE Controller
  <2>1. ASSUME NEW d \in DSKs, SmartStartRequest(d) PROVE Enabled'
    BY <2>1, EnabledKept DEF SmartStartRequest, Begins, settings
  <2>2. ASSUME ~\E d \in DSKs : SmartStartRequest(d)
        PROVE  \E n : \E st \in {"found", "node", "done", "reserved", "replace", "failed",
                                 "unexpected"} : Reports(st, n)
    BY <1>2, <2>2 DEF Controller, NodeFound, NodeIsNamed, ProtocolDone, NotRemoved, ReplaceStarts,
       ReplaceDone, FailureReported
  <2> QED
    BY <2>1, <2>2, ReportsEnabled
<1>3. CASE Driver
  <2>1. CASE StartTask
    <3>1. \E t, cs : Paused(t, cs) \/ UNCHANGED <<inclusionState, settings>>
      BY <2>1 DEF StartTask
    <3> QED
      BY <3>1, PausedEnabled, EnabledKept DEF settings
  <2>2. CASE Execute
    <3> DEFINE c == Head(commands)
    <3>1. PICK o \in Outcomes(c) :
             /\ c.by = "task" => Answered(c, o, Tail(commands))
             /\ c.by # "task" => AnsweredCall(c, o, Tail(commands))
      BY <2>2 DEF Execute
    <3>2. commands # <<>> /\ c = Head(commands)
      BY <2>2 DEF Execute
    <3> HIDE DEF c
    <3> QED
      BY <3>1, <3>2, OwnEnabled, CallEnabled
  <2>3. CASE Bootstrapped \/ PingAnswered
    BY <2>3, FinishesEnabled DEF Bootstrapped, PingAnswered, NotRemovedAfterAll
  <2>4. CASE BootstrapFails \/ PingFails
    BY <2>4, EnabledKept DEF BootstrapFails, PingFails, settings
  <2> QED
    BY <1>3, <2>1, <2>2, <2>3, <2>4 DEF Driver
<1>4. CASE SoftReset
  <2>1. "idle" \in States
    BY DEF States
  <2> QED
    BY <1>4, <2>1, EnabledKept DEF SoftReset, settings
<1>5. CASE UNCHANGED vars
  BY <1>5, EnabledKept DEF vars, settings
<1> QED
  BY <1>1, <1>2, <1>3, <1>4, <1>5 DEF Next

-----------------------------------------------------------------------------
(* A task that waits is the only one of its id, and has sent nothing       *)

Distinct(q) == \A i, j \in 1..Len(q) : i # j => q[i].id # q[j].id
Sent(cs) == commands' = cs \/ \E x : x.for \in {running.id, 0} /\ commands' = Append(cs, x)

LEMMA IdsForm ==
    ASSUME NEW q \in Seq(Tasks), NEW cs, NEW t, NEW m
    PROVE  NewIn(q, cs, t, m) <=>
             /\ \A u \in ToSet(q) : u.id \notin Fors(cs) \cup {t.id} /\ u.id <= m
             /\ Distinct(q) /\ \A i \in Fors(cs) \cup {t.id} : i <= m
<1>1. ToSet(q) = {q[i] : i \in 1..Len(q)}
  BY DEF ToSet
<1> QED
  BY <1>1 DEF NewIn, Distinct

LEMMA ForsFacts ==
    ASSUME NEW cs \in Seq(Orders)
    PROVE  /\ \A x : Fors(Append(cs, x)) = Fors(cs) \cup {x.for}
           /\ cs # <<>> => Fors(Tail(cs)) \subseteq Fors(cs)
           /\ Fors(cs) \subseteq Nat
           /\ Orphaned(cs) \in Seq(Orders) => Fors(Orphaned(cs)) = Fors(cs)
<1>1. Len(cs) \in Nat /\ DOMAIN cs = 1..Len(cs) /\ \A i \in 1..Len(cs) : cs[i] \in Orders
  OBVIOUS
<1>2. ASSUME NEW x PROVE Fors(Append(cs, x)) = Fors(cs) \cup {x.for}
  <2> DEFINE r == Append(cs, x)
  <2>1. /\ Len(r) = Len(cs) + 1 /\ \A i \in 1..Len(cs) : r[i] = cs[i]
        /\ r[Len(cs) + 1] = x
    OBVIOUS
  <2>2. 1..Len(r) = (1..Len(cs)) \cup {Len(cs) + 1}
    BY <1>1, <2>1
  <2> HIDE DEF r
  <2> QED
    BY <2>1, <2>2 DEF Fors, r
<1>3. cs # <<>> => Fors(Tail(cs)) \subseteq Fors(cs)
  <2>1. cs # <<>> => \A i \in 1..Len(Tail(cs)) : Tail(cs)[i] = cs[i + 1] /\ i + 1 \in 1..Len(cs)
    BY BeforeTail
  <2> QED
    BY <2>1 DEF Fors
<1>4. Fors(cs) \subseteq Nat
  BY <1>1 DEF Fors, Orders
<1>5. ASSUME Orphaned(cs) \in Seq(Orders) PROVE Fors(Orphaned(cs)) = Fors(cs)
  <2> DEFINE r == Orphaned(cs)
  <2>1. /\ DOMAIN r = 1..Len(cs)
        /\ \A i \in 1..Len(cs) :
             r[i] = IF cs[i].by = "task" THEN [cs[i] EXCEPT !.by = None] ELSE cs[i]
    BY <1>1 DEF Orphaned
  <2>2. Len(r) = Len(cs)
    BY <1>1, <1>5, <2>1
  <2> HIDE DEF r
  <2>3. \A i \in 1..Len(cs) : r[i].for = cs[i].for
    BY <1>1, <2>1 DEF Orders
  <2> QED
    BY <2>2, <2>3 DEF Fors, r
<1> QED
  BY <1>2, <1>3, <1>4, <1>5

LEMMA EntersSent ==
    ASSUME NEW s, NEW cs, NEW e, Enters(s, cs, e)
    PROVE  Sent(cs)
<1>1. Command("listen", "enable", NoTask).for = 0
  BY ListenFacts
<1> QED
  BY <1>1 DEF Enters, Sent

LEMMA OwnIsSent ==
    ASSUME NEW cs, NEW op, commands' = Append(cs, Command(op, "task", running))
    PROVE  Sent(cs)
<1>1. Command(op, "task", running).for = running.id
  BY DEF Command
<1> QED
  BY <1>1 DEF Sent

(* Tasks leave the queue, and nobody speaks for one that waits in it.      *)
LEMMA IdsKept ==
    ASSUME Base, IdsOK, made' = made, queue' \in Seq(Tasks),
           ToSet(queue') \subseteq ToSet(queue), Distinct(queue'),
           NEW cs \in Seq(Orders), Fors(cs) \subseteq Fors(commands), Sent(cs),
           running'.id \in {running.id, 0}
    PROVE  IdsOK'
<1> DEFINE S == Fors(commands) \cup {running.id}
<1>1. /\ queue \in Seq(Tasks) /\ QueueOK /\ made \in Nat
  BY DEF Base, Types
<1>2. /\ \A u \in ToSet(queue) : u.id \notin S /\ u.id <= made
      /\ \A i \in S : i <= made
  BY <1>1, IdsForm DEF IdsOK
<1>3. \A u \in ToSet(queue) : u.id # 0
  BY <1>1 DEF QueueOK, Suits
<1>4. Fors(commands') \subseteq S \cup {0}
  <2>1. ASSUME NEW x, x.for \in {running.id, 0}, commands' = Append(cs, x)
        PROVE  Fors(commands') \subseteq S \cup {0}
    <3>1. Fors(Append(cs, x)) = Fors(cs) \cup {x.for}
      BY ForsFacts
    <3> QED
      BY <2>1, <3>1
  <2> QED
    BY <2>1 DEF Sent
<1>5. Fors(commands') \cup {running'.id} \subseteq S \cup {0}
  BY <1>4
<1>6. 0 <= made
  BY <1>1
<1> HIDE DEF S
<1>7. /\ \A u \in ToSet(queue') : u.id \notin Fors(commands') \cup {running'.id} /\ u.id <= made'
      /\ Distinct(queue') /\ \A i \in Fors(commands') \cup {running'.id} : i <= made'
  BY <1>2, <1>3, <1>5, <1>6
<1>8. NewIn(queue', commands', running', made')
  BY <1>7, IdsForm
<1> QED
  BY <1>8 DEF IdsOK

LEMMA IdsStay ==
    ASSUME Base, IdsOK, UNCHANGED <<made, queue>>, NEW cs \in Seq(Orders),
           Fors(cs) \subseteq Fors(commands), Sent(cs), running'.id \in {running.id, 0}
    PROVE  IdsOK'
<1>1. queue \in Seq(Tasks)
  BY DEF Base, Types
<1>2. Distinct(queue)
  BY <1>1, IdsForm DEF IdsOK
<1> QED
  BY <1>1, <1>2, IdsKept

LEMMA DistinctOnly ==
    ASSUME NEW q \in Seq(Tasks), Distinct(q), NEW S
    PROVE  Only(q, S) \in Seq(Tasks) /\ Distinct(Only(q, S))
<1> DEFINE r == Only(q, S)
<1>1. r \in Seq(Tasks) /\ InOrder(r, q)
  BY OnlyFacts
<1> HIDE DEF r
<1>2. ASSUME NEW i \in 1..Len(r), NEW j \in 1..Len(r), i < j PROVE r[i].id # r[j].id
  <2>1. PICK c \in 1..Len(q), d \in 1..Len(q) : c < d /\ r[i] = q[c] /\ r[j] = q[d]
    BY <1>1, <1>2 DEF InOrder
  <2> QED
    BY <2>1 DEF Distinct
<1>3. \A i, j \in 1..Len(r) : i # j => i < j \/ j < i
  OBVIOUS
<1>4. Distinct(r)
  BY <1>2, <1>3 DEF Distinct
<1> QED
  BY <1>1, <1>4 DEF r

LEMMA DistinctJoined ==
    ASSUME NEW x \in Seq(Tasks), NEW y \in Seq(Tasks), Distinct(x), Distinct(y),
           \A u \in ToSet(x), v \in ToSet(y) : u.id # v.id
    PROVE  x \o y \in Seq(Tasks) /\ Distinct(x \o y)
<1> DEFINE z == x \o y
<1>1. /\ z \in Seq(Tasks) /\ Len(z) = Len(x) + Len(y) /\ Len(x) \in Nat /\ Len(y) \in Nat
      /\ \A i \in 1..Len(x) : z[i] = x[i]
      /\ \A i \in 1..Len(y) : z[Len(x) + i] = y[i]
  <2>1. Len(x) \in Nat /\ Len(y) \in Nat
    OBVIOUS
  <2>2. /\ z \in Seq(Tasks) /\ Len(z) = Len(x) + Len(y)
        /\ \A i \in 1..(Len(x) + Len(y)) : z[i] = IF i <= Len(x) THEN x[i] ELSE y[i - Len(x)]
    BY ConcatProperties
  <2> HIDE DEF z
  <2>3. /\ \A i \in 1..Len(x) : i \in 1..(Len(x) + Len(y)) /\ i <= Len(x)
        /\ \A i \in 1..Len(y) : /\ Len(x) + i \in 1..(Len(x) + Len(y))
                                /\ ~(Len(x) + i <= Len(x)) /\ (Len(x) + i) - Len(x) = i
    BY <2>1
  <2> QED
    BY <2>1, <2>2, <2>3
<1> HIDE DEF z
<1>2. \A i \in 1..Len(z) : i \in 1..Len(x) \/ (i - Len(x) \in 1..Len(y) /\ z[i] = y[i - Len(x)])
  <2>1. \A m, n \in Nat : \A i \in 1..(m + n) :
          i \in 1..m \/ (i - m \in 1..n /\ m + (i - m) = i)
    OBVIOUS
  <2>2. \A i \in 1..Len(z) :
          i \in 1..Len(x) \/ (i - Len(x) \in 1..Len(y) /\ Len(x) + (i - Len(x)) = i)
    BY <1>1, <2>1
  <2>3. ASSUME NEW i \in 1..Len(z), i - Len(x) \in 1..Len(y), Len(x) + (i - Len(x)) = i
        PROVE  z[i] = y[i - Len(x)]
    BY <1>1, <2>3
  <2> QED
    BY <2>2, <2>3
<1>3. \A i \in 1..Len(x), j \in 1..Len(y) : x[i].id # y[j].id
  BY DEF ToSet
<1>4. ASSUME NEW i \in 1..Len(z), NEW j \in 1..Len(z), i # j PROVE z[i].id # z[j].id
  <2>1. CASE i \in 1..Len(x) /\ j \in 1..Len(x)
    BY <1>1, <1>4, <2>1 DEF Distinct
  <2>2. CASE i \in 1..Len(x) /\ j \notin 1..Len(x)
    BY <1>1, <1>2, <1>3, <2>2
  <2>3. CASE i \notin 1..Len(x) /\ j \in 1..Len(x)
    BY <1>1, <1>2, <1>3, <2>3
  <2>4. CASE i \notin 1..Len(x) /\ j \notin 1..Len(x)
    <3>1. i - Len(x) # j - Len(x)
      BY <1>1, <1>4
    <3> QED
      BY <1>2, <2>4, <3>1 DEF Distinct
  <2> QED
    BY <2>1, <2>2, <2>3, <2>4
<1> QED
  BY <1>1, <1>4 DEF z, Distinct

LEMMA QueuedIds ==
    ASSUME Base, IdsOK, NEW t \in Tasks, t.id = made + 1, QueueTask(t),
           UNCHANGED <<running, commands>>
    PROVE  IdsOK'
<1> DEFINE S == Fors(commands) \cup {running.id}
           R == Removals(queue)
           a == Only(queue, R)
           b == Only(queue, ToSet(queue) \ R)
<1>1. queue \in Seq(Tasks) /\ made \in Nat /\ S \subseteq Nat
  <2>1. running.id \in Nat /\ commands \in Seq(Orders)
    BY PcFacts DEF Tasks
  <2> QED
    BY <2>1, ForsFacts DEF Base, Types
<1>2. /\ \A u \in ToSet(queue) : u.id \notin S /\ u.id <= made
      /\ \A i \in S : i <= made
      /\ Distinct(queue)
  BY <1>1, IdsForm DEF IdsOK
<1>3. queue' \in Seq(Tasks) /\ ToSet(queue') = ToSet(queue) \cup {t} /\ made' = made + 1
  BY QueueTaskFacts DEF QueueTask
<1>4. \A u \in ToSet(queue) : u.id # t.id
  BY <1>1, <1>2
<1>5. /\ a \in Seq(Tasks) /\ Distinct(a) /\ ToSet(a) = ToSet(queue) \cap R
      /\ b \in Seq(Tasks) /\ Distinct(b) /\ ToSet(b) = ToSet(queue) \cap (ToSet(queue) \ R)
  BY <1>1, <1>2, DistinctOnly, OnlyFacts
<1>6. queue' = IF t.kind = "remove" THEN a \o <<t>> \o b ELSE Append(queue, t)
  BY DEF QueueTask
<1> HIDE DEF a, b, R, S
<1>7. <<t>> \in Seq(Tasks) /\ Distinct(<<t>>) /\ ToSet(<<t>>) = {t}
  <2>1. <<t>> \in Seq(Tasks) /\ DOMAIN <<t>> = {1} /\ Len(<<t>>) = 1 /\ <<t>>[1] = t
    OBVIOUS
  <2> QED
    BY <2>1 DEF ToSet, Distinct
<1>8. \A u, v \in ToSet(queue) : u # v => u.id # v.id
  <2>1. ToSet(queue) = {queue[i] : i \in 1..Len(queue)}
    BY <1>1 DEF ToSet
  <2> QED
    BY <1>2, <2>1 DEF Distinct
<1>9. Distinct(queue')
  <2>1. CASE t.kind = "remove"
    <3>1. <<t>> \o b \in Seq(Tasks) /\ Distinct(<<t>> \o b)
      BY <1>4, <1>5, <1>7, DistinctJoined
    <3>2. ToSet(<<t>> \o b) \subseteq {t} \cup ToSet(b)
      <4> DEFINE z == <<t>> \o b
      <4>1. Len(z) = 1 + Len(b) /\ Len(b) \in Nat /\ z[1] = t /\ z \in Seq(Tasks)
            /\ \A i \in 1..Len(b) : z[1 + i] = b[i]
        BY <1>5, <1>7
      <4> HIDE DEF z
      <4>2. \A i \in 1..Len(z) : i = 1 \/ (i - 1 \in 1..Len(b) /\ z[i] = b[i - 1])
        BY <4>1
      <4>3. ToSet(z) = {z[i] : i \in 1..Len(z)} /\ ToSet(b) = {b[i] : i \in 1..Len(b)}
        <5>1. DOMAIN z = 1..Len(z) /\ DOMAIN b = 1..Len(b)
          BY <1>5, <4>1
        <5> QED
          BY <5>1 DEF ToSet
      <4> QED
        BY <4>1, <4>2, <4>3 DEF z
    <3>3. \A u \in ToSet(a), v \in ToSet(<<t>> \o b) : u.id # v.id
      BY <1>4, <1>5, <1>8, <3>2
    <3>4. Distinct(a \o (<<t>> \o b))
      BY <1>5, <3>1, <3>3, DistinctJoined
    <3>5. queue' = a \o (<<t>> \o b)
      <4>1. queue' = (a \o <<t>>) \o b
        BY <1>6, <2>1
      <4> QED
        BY <1>5, <1>7, <4>1, ConcatAssociative
    <3> QED
      BY <3>4, <3>5
  <2>2. CASE t.kind # "remove"
    <3>1. Append(queue, t) = queue \o <<t>>
      BY <1>1
    <3>2. Distinct(queue \o <<t>>)
      BY <1>1, <1>2, <1>4, <1>7, DistinctJoined
    <3> QED
      BY <1>6, <2>2, <3>1, <3>2
  <2> QED
    BY <2>1, <2>2
<1>10. /\ \A u \in ToSet(queue') : u.id \notin S /\ u.id <= made'
       /\ \A i \in S : i <= made'
  <2>1. made + 1 \notin S
    BY <1>1, <1>2
  <2>2. \A u \in ToSet(queue) : u.id \in Nat
    <3>1. ToSet(queue) = {queue[i] : i \in 1..Len(queue)}
      BY <1>1 DEF ToSet
    <3>2. \A i \in 1..Len(queue) : queue[i] \in Tasks
      BY <1>1
    <3> QED
      BY <3>1, <3>2 DEF Tasks
  <2> QED
    BY <1>1, <1>2, <1>3, <2>1, <2>2
<1>11. NewIn(queue', commands', running', made')
  BY <1>3, <1>9, <1>10, IdsForm DEF S
<1> QED
  BY <1>11 DEF IdsOK

(* Its id stays, and what is sent is sent for it or for nobody.            *)
Keeps(cs) == Sent(cs) /\ running'.id \in {running.id, 0}

LEMMA KeepsFacts ==
    ASSUME running \in Tasks, NEW cs, NEW pc, NEW op
    PROVE  /\ Ends => running'.id = 0
           /\ Goes(pc) => running'.id = running.id
           /\ Sends(op, pc) => Keeps(commands)
           /\ \A f : running' = [running EXCEPT !.pc = pc, !.found = f] => running'.id = running.id
           /\ commands' = cs => Sent(cs)
           /\ \A s : SetInclusionState(s, cs) => Sent(cs)
           /\ Finishes(cs) => Keeps(cs)
<1>1. Ends => running'.id = 0
  BY NoTaskFacts DEF Ends
<1>2. Goes(pc) => running'.id = running.id
  BY NextPc DEF Goes
<1>3. Sends(op, pc) => Keeps(commands)
  BY <1>2, OwnIsSent DEF Sends, Keeps
<1>4. \A s : SetInclusionState(s, cs) => Sent(cs)
  BY EntersSent DEF SetInclusionState
<1>5. Finishes(cs) => Keeps(cs)
  BY <1>1, <1>4 DEF Finishes, Keeps
<1>6. \A f : running' = [running EXCEPT !.pc = pc, !.found = f] => running'.id = running.id
  BY NextPc
<1> QED
  BY <1>1, <1>2, <1>3, <1>4, <1>5, <1>6 DEF Sent

LEMMA ReportsIds ==
    ASSUME Base, IdsOK, NEW st \in {"found", "node", "done", "reserved", "replace", "failed",
                                    "unexpected"},
           NEW n, Reports(st, n)
    PROVE  IdsOK'
<1>1. UNCHANGED <<made, queue>> /\ running \in Tasks /\ commands \in Seq(Orders)
  BY PcFacts DEF Reports
<1>2. SUFFICES Keeps(commands)
  BY <1>1, IdsStay DEF Keeps
<1>3. CASE ~IsHeard
  BY <1>3 DEF Reports, Keeps, Sent
<1>4. CASE IsHeard
  <2>1. Handles(st, n)
    BY <1>4 DEF Reports
  <2>2. running.kind \in Adds \cup {"exclude", "replace"} /\ "replace" \notin Adds
        /\ "exclude" \notin Adds
    BY <1>4 DEF IsHeard, Adds
  <2>3. CASE st \in {"failed", "unexpected"} /\ running.kind = "replace"
    <3>1. Ends /\ (SetInclusionState("idle", commands) \/ UNCHANGED commands)
      BY <2>1, <2>3 DEF Handles
    <3> QED
      BY <1>1, <3>1, KeepsFacts DEF Keeps
  <2>4. CASE st \in {"failed", "unexpected"} /\ running.kind # "replace"
    <3>1. Aborts
      BY <2>1, <2>4 DEF Handles
    <3>2. (\E op : Sends(op, "aborting")) \/ (Ends /\ UNCHANGED commands)
      BY <3>1 DEF Aborts
    <3> QED
      BY <1>1, <3>2, KeepsFacts DEF Keeps
  <2>5. CASE st = "found"
    <3>1. Goes("awaitsNode") /\ UNCHANGED commands
      BY <2>1, <2>5 DEF Handles
    <3> QED
      BY <1>1, <3>1, KeepsFacts DEF Keeps
  <2>6. CASE st = "node"
    <3>1. running' = [running EXCEPT !.pc = "awaitsDone", !.found = n] /\ UNCHANGED commands
      BY <2>1, <2>6 DEF Handles
    <3> QED
      BY <1>1, <3>1, KeepsFacts DEF Keeps
  <2>7. CASE st = "replace"
    <3>1. Goes("awaitsDone") /\ SetInclusionState("including", commands)
      BY <2>1, <2>7 DEF Handles
    <3> QED
      BY <1>1, <3>1, KeepsFacts DEF Keeps
  <2>8. CASE st = "done" /\ running.kind \in Adds
    <3>1. Sends("finish", "finishing")
      BY <2>1, <2>2, <2>8 DEF Handles
    <3> QED
      BY <1>1, <3>1, KeepsFacts
  <2>9. CASE st = "done" /\ running.kind = "exclude"
    <3>1. Sends("stopNoCallback", "stopping")
      BY <2>1, <2>2, <2>9 DEF Handles
    <3> QED
      BY <1>1, <3>1, KeepsFacts
  <2>10. CASE st = "reserved"
    <3>1. /\ running' = [running EXCEPT !.pc = "stopping", !.found = None]
          /\ commands' = Append(commands, Command("stopNoCallback", "task", running))
      BY <2>1, <2>10 DEF Handles
    <3> QED
      BY <1>1, <3>1, KeepsFacts, OwnIsSent DEF Keeps
  <2>11. CASE st = "done" /\ running.kind = "replace"
    <3>1. /\ running' = [running EXCEPT !.pc = "bootstraps", !.found = running.node]
          /\ SetInclusionState("busy", commands)
      BY <2>1, <2>2, <2>11 DEF Handles, ReplaceNode
    <3> QED
      BY <1>1, <3>1, KeepsFacts DEF Keeps
  <2> QED
    BY <2>2, <2>3, <2>4, <2>5, <2>6, <2>7, <2>8, <2>9, <2>10, <2>11
<1> QED
  BY <1>3, <1>4

LEMMA OwnIds ==
    ASSUME Base, commands # <<>>, NEW c, c = Head(commands), c.by = "task",
           NEW o \in Outcomes(c), NEW p, Answered(c, o, p)
    PROVE  Keeps(p)
<1>1. /\ running.pc \in Working /\ c.op = OwnOp(running) /\ running \in Tasks
      /\ running.pc \in PCsOf(running.kind)
  BY OwnFacts DEF IsOwn
<1>2. o \in {"ok", "refused", "error"}
  BY ErrorFacts
<1>3. CASE running.pc = "pausing"
  <2>2. CASE o = "ok"
    <3> DEFINE sp == StartOf(running.kind)
    <3>1. Paused(running, p)
      BY <1>3, <2>2 DEF Answered
    <3>2. /\ running' = [running EXCEPT !.pc = sp.pc]
          /\ commands' = IF sp.op = None THEN p ELSE Append(p, Command(sp.op, "task", running))
      BY <3>1 DEF Paused
    <3> HIDE DEF sp
    <3> QED
      BY <1>1, <3>2, NextPc, OwnIsSent DEF Keeps, Sent
  <2>3. CASE o # "ok"
    <3>1. Ends /\ (SetInclusionState("idle", p) \/ commands' = p)
      BY <1>3, <2>3 DEF Answered
    <3> QED
      BY <1>1, <3>1, KeepsFacts DEF Keeps
  <2> QED
    BY <2>2, <2>3
<1>4. CASE running.pc # "pausing"
  <2>2. CASE running.pc = "starting"
    <3>1. \/ commands' = p /\ \E pc : Goes(pc)
          \/ Finishes(p)
          \/ commands' = p /\ Ends
      BY <1>2, <2>2 DEF Answered
    <3> QED
      BY <1>1, <3>1, KeepsFacts DEF Keeps
  <2>3. CASE running.pc = "aborting"
    <3>1. Finishes(p) \/ (commands' = p /\ Ends)
      BY <2>3 DEF Answered
    <3> QED
      BY <1>1, <3>1, KeepsFacts DEF Keeps
  <2>4. CASE running.pc = "finishing"
    <3>1. /\ \E f : running' = [running EXCEPT !.pc = "stopping", !.found = f]
          /\ commands' = Append(p, Command("stopNoCallback", "task", running))
      BY <2>4 DEF Answered
    <3> QED
      BY <1>1, <3>1, KeepsFacts, OwnIsSent DEF Keeps
  <2>5. CASE running.pc = "stopping"
    <3>1. NodeAdded(p) \/ NodeExcluded(p)
      BY <2>5 DEF Answered
    <3>2. CASE NodeAdded(p)
      <4>1. Finishes(p) \/ (Goes("bootstraps") /\ SetInclusionState("busy", p))
        BY <3>2 DEF NodeAdded
      <4> QED
        BY <1>1, <4>1, KeepsFacts DEF Keeps
    <3>3. CASE NodeExcluded(p)
      <4>1. \/ Finishes(p)
            \/ Ends /\ SetInclusionState("idle", p)
            \/ Ends /\ \E e : Enters("idle", p, e)
        BY <3>3 DEF NodeExcluded
      <4> QED
        BY <1>1, <4>1, KeepsFacts, EntersSent DEF Keeps
    <3> QED
      BY <3>1, <3>2, <3>3
  <2>6. CASE running.pc = "removing"
    <3>1. Finishes(p)
      BY <2>6 DEF Answered, Removed, NotRemovedAfterAll
    <3> QED
      BY <1>1, <3>1, KeepsFacts
  <2>7. CASE running.pc = "leaving"
    <3>1. Finishes(p) \/ (commands' = p /\ Goes("pinging"))
      BY <2>7 DEF Answered, NotRemovedAfterAll
    <3> QED
      BY <1>1, <3>1, KeepsFacts DEF Keeps
  <2> QED
    BY <1>1, <1>4, <2>2, <2>3, <2>4, <2>5, <2>6, <2>7 DEF Working
<1> QED
  BY <1>3, <1>4

LEMMA ExecuteIds ==
    ASSUME Base, IdsOK, Execute
    PROVE  IdsOK'
<1> DEFINE c == Head(commands)
           p == Tail(commands)
<1>1. PICK o \in Outcomes(c) :
         /\ c.by = "task" => Answered(c, o, p) /\ UNCHANGED queue
         /\ c.by # "task" => AnsweredCall(c, o, p)
  BY DEF Execute
<1>2. commands # <<>> /\ c = Head(commands) /\ UNCHANGED made
  BY DEF Execute
<1>3. /\ commands \in Seq(Orders) /\ p \in Seq(Orders) /\ Fors(p) \subseteq Fors(commands)
      /\ running \in Tasks /\ queue \in Seq(Tasks)
  BY <1>2, PcFacts, TailFacts, ForsFacts DEF Base, Types
<1>4. c.by # "task" => Served(running, p) /\ (c.by = "caller" => running.pc # "removing")
  BY <1>2, OtherFacts
<1> HIDE DEF c, p
<1>5. CASE c.by = "task"
  <2>1. Keeps(p)
    BY <1>1, <1>2, <1>5, OwnIds
  <2> QED
    BY <1>1, <1>2, <1>3, <1>5, <2>1, IdsStay DEF Keeps
<1>6. CASE c.by # "task"
  <2>1. \/ c.by = "caller" /\ \E kinds : Stopped(kinds, p)
        \/ (commands' = p \/ \E s : SetInclusionState(s, p)) /\ UNCHANGED <<running, queue>>
    BY <1>1, <1>6 DEF AnsweredCall, tasks
  <2>2. CASE (commands' = p \/ \E s : SetInclusionState(s, p)) /\ UNCHANGED <<running, queue>>
    <3>1. Keeps(p)
      BY <1>3, <2>2, KeepsFacts DEF Keeps
    <3> QED
      BY <1>2, <1>3, <2>2, <3>1, IdsStay DEF Keeps
  <2>3. ASSUME NEW kinds, c.by = "caller", Stopped(kinds, p) PROVE IdsOK'
    <3> DEFINE r == IF running.kind \in kinds THEN Orphaned(p) ELSE p
               S == {t \in ToSet(queue) : t.kind \notin kinds}
    <3>1. /\ SetInclusionState("idle", r) /\ queue' = Only(queue, S)
          /\ running' = NoTask \/ UNCHANGED running
      BY <2>3 DEF Stopped, DropTasks
    <3>2. Orphaned(p) \in Seq(Orders)
      BY <1>3, <1>4, <2>3, OrphanedFacts
    <3>3. r \in Seq(Orders) /\ Fors(r) \subseteq Fors(commands)
      BY <1>3, <3>2, ForsFacts
    <3> HIDE DEF r, S
    <3>4. Sent(r) /\ running'.id \in {running.id, 0}
      BY <1>3, <3>1, KeepsFacts, NoTaskFacts
    <3>5. queue' \in Seq(Tasks) /\ ToSet(queue') \subseteq ToSet(queue)
      BY <1>3, <3>1, OnlyFacts
    <3>6. Distinct(queue')
      <4>1. Distinct(queue)
        BY <1>3, IdsForm DEF IdsOK
      <4> QED
        BY <1>3, <3>1, <4>1, DistinctOnly
    <3> QED
      BY <1>2, <3>3, <3>4, <3>5, <3>6, IdsKept
  <2> QED
    BY <2>1, <2>2, <2>3
<1> QED
  BY <1>5, <1>6

LEMMA StartTaskIds ==
    ASSUME Base, IdsOK, StartTask
    PROVE  IdsOK'
<1> DEFINE t == Head(queue)
           r == Tail(queue)
<1>1. /\ queue # <<>> /\ queue' = r /\ running = NoTask /\ UNCHANGED made
      /\ \E pc : running' = [t EXCEPT !.pc = pc]
      /\ commands' = commands \/ \E op : commands' = Append(commands, Command(op, "task", t))
  BY DEF StartTask, Paused, bounds
<1>2. /\ queue \in Seq(Tasks) /\ commands \in Seq(Orders) /\ r \in Seq(Tasks)
      /\ t = queue[1] /\ t \in Tasks /\ Len(queue) \in Nat \ {0} /\ Len(r) = Len(queue) - 1
      /\ \A i \in 1..(Len(queue) - 1) : r[i] = queue[i + 1]
  BY <1>1, TailFacts, PcFacts DEF Base, Types
<1> HIDE DEF t, r
<1>3. running'.id = t.id
  BY <1>1, <1>2, NextPc
<1>4. Fors(commands') \subseteq Fors(commands) \cup {t.id}
  <2>1. ASSUME NEW op, commands' = Append(commands, Command(op, "task", t))
        PROVE  Fors(commands') \subseteq Fors(commands) \cup {t.id}
    <3> DEFINE x == Command(op, "task", t)
    <3>1. x.for = t.id
      BY DEF Command
    <3> HIDE DEF x
    <3>2. Fors(Append(commands, x)) = Fors(commands) \cup {x.for}
      BY <1>2, ForsFacts
    <3> QED
      BY <2>1, <3>1, <3>2 DEF x
  <2> QED
    BY <1>1, <2>1
<1>5. /\ \A i \in 1..Len(queue) : queue[i].id \notin Fors(commands) /\ queue[i].id <= made
      /\ \A i, j \in 1..Len(queue) : i # j => queue[i].id # queue[j].id
      /\ \A i \in Fors(commands) : i <= made
  BY DEF IdsOK, NewIn
<1>6. /\ 1 \in 1..Len(queue)
      /\ \A i \in 1..Len(r) : i + 1 \in 1..Len(queue) /\ r[i] = queue[i + 1] /\ i + 1 # 1
  BY <1>2
<1>7. \A i \in 1..Len(r) : r[i].id \notin Fors(commands) \cup {t.id} /\ r[i].id <= made
  BY <1>2, <1>5, <1>6
<1>8. \A i, j \in 1..Len(r) : i # j => r[i].id # r[j].id
  <2>1. \A i, j \in 1..Len(r) : i # j => i + 1 # j + 1
    OBVIOUS
  <2> QED
    BY <1>5, <1>6, <2>1
<1>9. \A i \in Fors(commands) \cup {t.id} : i <= made
  BY <1>2, <1>5, <1>6
<1> QED
  BY <1>1, <1>3, <1>4, <1>7, <1>8, <1>9 DEF IdsOK, NewIn

LEMMA IdsStep ==
    ASSUME Base, IdsOK, [Next]_vars
    PROVE  IdsOK'
<1>0. running \in Tasks /\ commands \in Seq(Orders)
  BY PcFacts
<1>1. CASE UNCHANGED <<queue, running, made, commands>>
  BY <1>1 DEF IdsOK, NewIn
<1>2. ASSUME NEW x, x.for = running.id, commands' = Append(commands, x),
             UNCHANGED <<queue, running, made>>
      PROVE  IdsOK'
  BY <1>0, <1>2, IdsStay DEF Sent
<1>3. ASSUME NEW t \in Tasks, t.id = made + 1, QueueTask(t), UNCHANGED <<running, commands>>
      PROVE  IdsOK'
  BY <1>3, QueuedIds
<1>4. CASE Application
  <2>0. /\ nodes \subseteq Nodes /\ None \in Maybe(Nodes) /\ None \in Maybe(Strategies)
        /\ Nodes \subseteq Maybe(Nodes) /\ Strategies \subseteq Maybe(Strategies)
    BY DEF Base, Types, Maybe
  <2>1. ASSUME NEW d \in DSKs, Provision(d) \/ Unprovision(d) PROVE IdsOK'
    <3>1. UNCHANGED <<queue, running, made>>
      BY <2>1 DEF Provision, Unprovision, tasks
    <3>2. Sent(commands)
      <4>1. PICK list : AutoProvision(list)
        BY <2>1 DEF Provision, Unprovision, SetEntry
      <4>2. \/ UNCHANGED commands
            \/ \E op, by : commands' = Append(commands, Command(op, by, NoTask))
        BY <4>1 DEF AutoProvision, EnableSmartStart, DisableSmartStart
      <4>3. \A op, by : Command(op, by, NoTask).for = 0
        BY DEF Command, NoTask
      <4> QED
        BY <4>2, <4>3 DEF Sent
    <3> QED
      BY <1>0, <3>1, <3>2, IdsStay
  <2>2. CASE StopInclusion \/ StopExclusion
    <3>1. PICK op : commands' = Append(commands, Command(op, "caller", running))
      BY <2>2 DEF StopInclusion, StopExclusion
    <3>2. Command(op, "caller", running).for = running.id
      BY DEF Command
    <3> QED
      BY <1>2, <2>2, <3>1, <3>2 DEF StopInclusion, StopExclusion, tasks
  <2>3. CASE BeginInclusion
    <3>1. Task("classic", None, None) \in Tasks /\ Task("classic", None, None).id = made + 1
      BY <2>0, TaskFacts DEF Kinds
    <3> QED
      BY <1>3, <2>3, <3>1 DEF BeginInclusion, Begins
  <2>4. CASE BeginExclusion
    <3>1. PICK s \in Strategies : Begins(Task("exclude", None, s))
      BY <2>4 DEF BeginExclusion
    <3>2. Task("exclude", None, s) \in Tasks /\ Task("exclude", None, s).id = made + 1
      BY <2>0, TaskFacts DEF Kinds
    <3> QED
      BY <1>3, <3>1, <3>2 DEF Begins
  <2>5. ASSUME NEW n \in Nodes, ReplaceFailedNode(n) PROVE IdsOK'
    <3>1. Task("replace", n, None) \in Tasks /\ Task("replace", n, None).id = made + 1
      BY <2>0, TaskFacts DEF Kinds
    <3> QED
      BY <1>3, <2>5, <3>1 DEF ReplaceFailedNode, Begins
  <2>6. ASSUME NEW n \in Nodes, RemoveFailedNode(n) PROVE IdsOK'
    <3>1. Task("remove", n, None) \in Tasks /\ Task("remove", n, None).id = made + 1
      BY <2>0, TaskFacts DEF Kinds
    <3> QED
      BY <1>3, <2>6, <3>1 DEF RemoveFailedNode
  <2> QED
    BY <1>4, <2>1, <2>2, <2>3, <2>4, <2>5, <2>6 DEF Application
<1>5. CASE Controller
  <2>1. ASSUME NEW d \in DSKs, SmartStartRequest(d) PROVE IdsOK'
    <3>1. Task("smartStart", d, None) \in Tasks /\ Task("smartStart", d, None).id = made + 1
      BY NodesAssumption, TaskFacts DEF Kinds, Maybe
    <3> QED
      BY <1>3, <2>1, <3>1 DEF SmartStartRequest, Begins
  <2>2. ASSUME ~\E d \in DSKs : SmartStartRequest(d)
        PROVE  \E n : \E st \in {"found", "node", "done", "reserved", "replace", "failed",
                                 "unexpected"} : Reports(st, n)
    BY <1>5, <2>2 DEF Controller, NodeFound, NodeIsNamed, ProtocolDone, NotRemoved, ReplaceStarts,
       ReplaceDone, FailureReported
  <2> QED
    BY <2>1, <2>2, ReportsIds
<1>6. CASE Driver
  <2>1. ASSUME UNCHANGED <<queue, made>>, Keeps(commands) PROVE IdsOK'
    BY <1>0, <2>1, IdsStay DEF Keeps
  <2>2. CASE Bootstrapped \/ PingAnswered
    <3>1. Finishes(commands) /\ UNCHANGED <<queue, made>>
      BY <2>2 DEF Bootstrapped, PingAnswered, NotRemovedAfterAll, bounds
    <3> QED
      BY <1>0, <2>1, <3>1, KeepsFacts
  <2>3. CASE BootstrapFails
    <3>1. /\ UNCHANGED <<queue, made>>
          /\ \/ UNCHANGED commands /\ \E pc : Goes(pc)
             \/ \E op, pc : Sends(op, pc)
      BY <2>3 DEF BootstrapFails, bounds
    <3> QED
      BY <1>0, <2>1, <3>1, KeepsFacts DEF Keeps
  <2>4. CASE PingFails
    <3>1. /\ UNCHANGED <<queue, made>>
          /\ \/ \E op, pc : Sends(op, pc)
             \/ /\ \E pc : Goes(pc)
                /\ commands' = Append(commands, [Command("removeFailed", "task", running)
                                                  EXCEPT !.node = Failing])
      BY <2>4 DEF PingFails, bounds
    <3>2. [Command("removeFailed", "task", running) EXCEPT !.node = Failing].for = running.id
      BY DEF Command
    <3>3. (\E op, pc : Sends(op, pc)) => Keeps(commands)
      BY <1>0, KeepsFacts
    <3>4. (\E pc : Goes(pc)) => running'.id = running.id
      BY <1>0, KeepsFacts
    <3> DEFINE c == [Command("removeFailed", "task", running) EXCEPT !.node = Failing]
    <3>5. c.for \in {running.id, 0}
      BY <3>2
    <3>6. commands' = Append(commands, c) => Keeps(commands) \/ ~\E pc : Goes(pc)
      <4> HIDE DEF c
      <4> QED
        BY <3>4, <3>5 DEF Sent, Keeps
    <3>7. Keeps(commands)
      BY <3>1, <3>3, <3>6
    <3> QED
      BY <2>1, <3>1, <3>7
  <2> QED
    BY <1>6, <2>2, <2>3, <2>4, StartTaskIds, ExecuteIds DEF Driver
<1>7. CASE SoftReset
  <2>1. UNCHANGED <<queue, running, made>> /\ SetInclusionState("idle", commands)
    BY <1>7 DEF SoftReset, tasks
  <2> QED
    BY <1>0, <2>1, KeepsFacts, IdsStay
<1>8. CASE UNCHANGED vars
  BY <1>1, <1>8 DEF vars, tasks, bounds
<1> QED
  BY <1>4, <1>5, <1>6, <1>7, <1>8 DEF Next

-----------------------------------------------------------------------------
(* The state and the controller agree                                      *)

LEMMA CrossedStays ==
    ASSUME crossed, [Next]_vars
    PROVE  crossed'
<1>1. CASE Application
  BY <1>1 DEF Application, Provision, Unprovision, BeginInclusion, BeginExclusion, StopInclusion,
     StopExclusion, ReplaceFailedNode, RemoveFailedNode, Begins
<1>2. CASE Controller
  BY <1>2 DEF Controller, SmartStartRequest, Begins, NodeFound, NodeIsNamed, ProtocolDone,
     NotRemoved, ReplaceStarts, ReplaceDone, FailureReported, Reports
<1>3. CASE Execute
  BY <1>3 DEF Execute
<1>4. CASE StartTask \/ Bootstrapped \/ BootstrapFails \/ PingAnswered \/ PingFails \/ SoftReset
  BY <1>4 DEF StartTask, Bootstrapped, BootstrapFails, PingAnswered, PingFails, SoftReset
<1>5. CASE UNCHANGED vars
  BY <1>5 DEF vars
<1> QED
  BY <1>1, <1>2, <1>3, <1>4, <1>5 DEF Next, Driver

LEMMA AgreedStep ==
    ASSUME Base, IdsOK, Enabled, Agreed, StopsSucceed, [Next]_vars
    PROVE  Agreed'
<1>1. CASE crossed
  BY <1>1, CrossedStays DEF Agreed
<1>2. CASE crossed'
  BY <1>2 DEF Agreed
<1>3. CASE ~crossed /\ ~crossed'
  <2>1. InAccord
    BY <1>3 DEF Agreed, InAccord
  <2>2. SUFFICES InAccord'
    BY DEF Agreed, InAccord
  <2>3. CASE Application
    BY <2>1, <2>3, ProvisionAgrees, QueuedAgrees, StopAgrees DEF Application
  <2>4. CASE Controller
    BY <2>1, <2>4, QueuedAgrees, FoundAgrees, DoneAgrees, ReplaceStartsAgrees, ReplaceDoneAgrees,
       FailureAgrees DEF Controller
  <2>5. CASE Driver
    BY <1>3, <2>1, <2>5, StartTaskAgrees, ExecuteAgrees, TalksAgrees DEF Driver
  <2>6. CASE SoftReset
    BY <1>3, <2>6, SoftResetAgrees
  <2>7. CASE UNCHANGED vars
    BY <2>1, <2>7, AccordKept DEF vars, tasks
  <2> QED
    BY <2>3, <2>4, <2>5, <2>6, <2>7 DEF Next
<1> QED
  BY <1>1, <1>2, <1>3

LEMMA AgreedMatches ==
    ASSUME Base, Agreed
    PROVE  ModeMatches
<1> SUFFICES ASSUME commands = <<>>, ~crossed
             PROVE  /\ mode.k = "listen" <=> inclusionState = "smartStart"
                    /\ Catching /\ mode.k = "remove" => inclusionState = "excluding"
                    /\ Catching /\ mode.k # "remove" => inclusionState = "including"
  BY DEF ModeMatches
<1> DEFINE k == Doing(mode)
<1>1. Good(running, inclusionState, k, <<>>)
  <2>1. InAccord
    BY DEF Agreed, InAccord
  <2> QED
    BY <2>1, AloneGood
<1>2. /\ mode.k = "listen" <=> k = "listen"
      /\ Catching => k = mode.k /\ k \in {"add", "remove", "replace"} /\ mode.stage # "asked"
  BY DEF Base, ModeOK, Doing, Catching
<1>3. running.pc \notin Working
  <2>1. Served(running, <<>>)
    BY BaseFacts
  <2> QED
    BY <2>1, CalmNone DEF Served
<1>4. Finally(<<>>, k) = k
  BY FinallyFacts, CalmNone
<1>5. /\ running.pc = "awaitsReplace" => running.kind = "replace"
      /\ running.pc \in Awaits /\ Hears(mode.k) => mode.stage = StageOf(running)
  BY PcFacts DEF Base, Linked
<1> HIDE DEF k
<1>6. CASE Follows(running, inclusionState, k, <<>>)
  BY <1>2, <1>4, <1>6 DEF Follows
<1>7. CASE Left(running, inclusionState, k, <<>>)
  BY <1>2, <1>7 DEF Left
<1>8. CASE running.pc \in Awaits /\ Catches(running, inclusionState, k, <<>>)
  <2>1. WorksFor(k, running)
    BY <1>8 DEF Catches
  <2>2. k \in {"add", "remove", "replace"} /\ ActiveOf(running) \in {"including", "excluding"}
    BY <2>1 DEF WorksFor, ActiveOf
  <2>3. inclusionState # "smartStart"
    BY <1>8, <2>2 DEF Catches
  <2>4. ASSUME Catching PROVE inclusionState = IF k = "remove" THEN "excluding" ELSE "including"
    <3>1. Hears(mode.k)
      BY <1>2, <2>1, <2>4 DEF Hears, WorksFor
    <3>2. running.pc # "awaitsReplace"
      BY <1>2, <1>5, <1>8, <2>4, <3>1 DEF StageOf
    <3>3. inclusionState = ActiveOf(running)
      BY <1>8, <3>2 DEF Catches
    <3>4. k = "remove" <=> running.kind = "exclude"
      BY <2>1 DEF WorksFor, Adds
    <3> QED
      BY <3>3, <3>4 DEF ActiveOf
  <2> QED
    BY <1>2, <2>2, <2>3, <2>4
<1>9. CASE running.pc \in {"bootstraps", "blocked", "pinging"}
  <2>1. inclusionState = "busy" /\ k = "off"
    BY <1>1, <1>4, <1>9 DEF Good, Pings
  <2> QED
    BY <1>2, <2>1
<1> QED
  BY <1>1, <1>3, <1>6, <1>7, <1>8, <1>9, PcFacts DEF Good, Working

(* While the controller stops when it is told to: when no command is under *)
(* way, the state says what it does, whatever else is refused or fails, is *)
(* reported or called.  The controller listens for SmartStart nodes        *)
(* exactly in SmartStart, and whenever it may catch a node the application *)
(* can stop that.  This holds until a call is answered when something else *)
(* has begun, a soft reset comes while a command is under way or a task    *)
(* neither waits for the controller nor has ended, or a command that       *)
(* counts as failed has been executed: after these it need not.            *)
THEOREM ModeAgrees == StopsSucceed => (Spec => []ModeMatches)
<1> SUFFICES ASSUME StopsSucceed PROVE Spec => []ModeMatches
  OBVIOUS
<1> DEFINE Inv == Base /\ IdsOK /\ Enabled /\ Agreed
<1>1. Init => Inv
  <2> SUFFICES ASSUME Init PROVE Inv
    OBVIOUS
  <2>1. Enabled
    BY DEF Init, Enabled
  <2>2. IdsOK
    <3>1. Len(<<>>) = 0 /\ NoTask.id = 0 /\ Fors(<<>>) = {}
      BY CalmNone, NoTaskFacts DEF Fors
    <3> QED
      BY <3>1 DEF Init, IdsOK, NewIn
  <2>3. Agreed
    <3>1. Doing(Off) = "off"
      BY DEF Doing, Off
    <3>2. \A i \in 1..Len(<<>>) :
             <<>>[i].by = "caller" => NoTask.pc = "ended" /\ Mine(NoTask, <<>>[i])
      BY CalmNone
    <3>3. Follows(NoTask, "idle", "off", <<>>)
      BY <3>2, CalmNone DEF Follows
    <3> QED
      BY <3>1, <3>3, GoodEnded DEF Init, Agreed
  <2> QED
    BY <2>1, <2>2, <2>3, BaseInit
<1>2. Inv /\ [Next]_vars => Inv'
  BY BaseStep, IdsStep, EnabledStep, AgreedStep
<1>3. Inv => ModeMatches
  BY AgreedMatches
<1> QED
  BY <1>1, <1>2, <1>3, PTL DEF Spec
=============================================================================
