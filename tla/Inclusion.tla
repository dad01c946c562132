------------------------------ MODULE Inclusion ------------------------------
(***************************************************************************)
(* Including, excluding, removing and replacing nodes, and SmartStart:     *)
(* Controller.ts of zwave-js.                                              *)
(*                                                                         *)
(* The driver keeps an inclusion state.  Tasks change it: they run one at  *)
(* a time, but the calls that create them look at the state when they are  *)
(* called.  The calls that stop a task, that switch the SmartStart         *)
(* listening mode on and off, and a soft reset change it, too, whatever    *)
(* task runs by the time they are answered.  What the controller does      *)
(* follows from the commands it is sent, in the order in which they were   *)
(* queued: whether the two agree is the question.                          *)
(***************************************************************************)
EXTENDS Naturals, Sequences, SequencesExt, FiniteSets, Lists

CONSTANTS
    Nodes,          \* the nodes around, inside or outside of the network
    DSKs,           \* those which can be included with SmartStart
    MaxAttempts,    \* options.attempts.smartStartInclusion
    Strategies,     \* what an exclusion does to the provisioning entry
    Refusable,      \* commands that may fail
    RemoveAnytime,  \* removeFailedNode is called while its node is being added
    MaxTasks,       \* bounds: tasks, calls of the application,
    MaxCalls,
    MaxFaults       \* commands that fail, unexpected reports and soft resets

None == "none"

ASSUME NodesAssumption ==
    /\ IsFiniteSet(Nodes) /\ None \notin Nodes /\ DSKs \subseteq Nodes
    /\ Strategies \subseteq {"excludeOnly", "disable", "unprovision"}
    /\ MaxAttempts \in Nat \ {0} /\ RemoveAnytime \in BOOLEAN
    /\ MaxTasks \in Nat /\ MaxCalls \in Nat /\ MaxFaults \in Nat

VARIABLES
    inclusionState,     \* _inclusionState
    smartStartEnabled,  \* _smartStartEnabled
    provisioning,       \* the provisioning list: the status of each DSK
    failedAttempts,     \* _smartStartFailedAttempts
    nodes,              \* _nodes
    withDSK,            \* the nodes whose dsk is known
    running,            \* the task of the group that runs, or NoTask
    queue,              \* the tasks that wait for it
    commands,           \* commands for the controller, and who waits for them
    mode,               \* what the controller does
    network,            \* the nodes the controller knows
    missed,             \* history: the driver did not hear of these changes
    crossed,            \* history: the state has been set past what was going on
    made, calls, faults \* how much of the bounds is used

settings == <<smartStartEnabled, provisioning, failedAttempts>>
known    == <<nodes, withDSK>>
tasks    == <<running, queue>>
bounds   == <<made, calls, faults>>
vars == <<inclusionState, settings, known, tasks, commands, mode, network,
          missed, crossed, bounds>>

Kinds  == {"classic", "smartStart", "exclude", "remove", "replace"}
Adds   == {"classic", "smartStart"}
NoTask == [id |-> 0, kind |-> None, node |-> None, pc |-> "ended", found |-> None,
           strategy |-> None]
Awaits == {"awaitsReplace", "awaitsFound", "awaitsNode", "awaitsDone"}
Off    == [k |-> "off", stage |-> "ready", node |-> None]

Command(op, by, t) == [op |-> op, by |-> by, for |-> t.id, node |-> t.node]

Init ==
    /\ inclusionState = "idle" /\ smartStartEnabled = FALSE
    /\ provisioning = [d \in DSKs |-> None]
    /\ failedAttempts = [d \in DSKs |-> 0]
    /\ nodes = {} /\ withDSK = {} /\ network = {} /\ missed = {}
    /\ running = NoTask /\ queue = <<>> /\ commands = <<>>
    /\ mode = Off /\ crossed = FALSE
    /\ made = 0 /\ calls = 0 /\ faults = 0

-----------------------------------------------------------------------------
(* The inclusion state and the SmartStart listening mode                   *)

(* Entering Idle while SmartStart is enabled enters SmartStart right away  *)
(* and sends the command for it.                                           *)
Enters(s, pending, enabled) ==
    IF s = "idle" /\ inclusionState # "idle" /\ enabled
      THEN /\ inclusionState' = "smartStart"
           /\ commands' = Append(pending, Command("listen", "enable", NoTask))
      ELSE inclusionState' = s /\ commands' = pending

SetInclusionState(s, pending) == Enters(s, pending, smartStartEnabled)

EnableSmartStart ==
    /\ smartStartEnabled' = TRUE
    /\ IF inclusionState = "idle"
         THEN /\ inclusionState' = "smartStart"
              /\ commands' = Append(commands, Command("listen", "enable", NoTask))
         ELSE UNCHANGED <<inclusionState, commands>>

DisableSmartStart ==
    /\ smartStartEnabled' = FALSE
    /\ IF inclusionState = "smartStart"
         THEN /\ inclusionState' = "idle"
              /\ commands' = Append(commands, Command("stopListen", "disable", NoTask))
         ELSE UNCHANGED <<inclusionState, commands>>

HasPlannedEntries(list) == \E d \in DSKs \ withDSK : list[d] = "active"

AutoProvision(list) ==
    IF HasPlannedEntries(list) THEN EnableSmartStart ELSE DisableSmartStart

(* provisionSmartStartNode, unprovisionSmartStartNode                      *)
SetEntry(d, status) ==
    /\ provisioning' = [provisioning EXCEPT ![d] = status]
    /\ failedAttempts' = [failedAttempts EXCEPT ![d] = 0]
    /\ AutoProvision(provisioning')

Call == calls < MaxCalls /\ calls' = calls + 1

Provision(d) ==
    /\ Call
    /\ SetEntry(d, "active")
    /\ UNCHANGED <<known, tasks, mode, network, missed, crossed, made, faults>>

Unprovision(d) ==
    /\ Call
    /\ provisioning[d] # None
    /\ SetEntry(d, None)
    /\ UNCHANGED <<known, tasks, mode, network, missed, crossed, made, faults>>

-----------------------------------------------------------------------------
(* Calls that queue a task                                                 *)

Task(kind, n, strategy) ==
    [id |-> made + 1, kind |-> kind, node |-> n, pc |-> "queued", found |-> None,
     strategy |-> strategy]

Removals(list) == {t \in ToSet(list) : t.kind = "remove"}

(* Removals have a higher priority than the other tasks of the group.      *)
QueueTask(t) ==
    /\ made < MaxTasks /\ made' = made + 1
    /\ queue' = IF t.kind = "remove"
                  THEN Only(queue, Removals(queue)) \o <<t>>
                         \o Only(queue, ToSet(queue) \ Removals(queue))
                  ELSE Append(queue, t)

MayBegin == inclusionState \notin {"including", "excluding", "busy"}

Begins(t) ==
    /\ MayBegin
    /\ QueueTask(t)
    /\ UNCHANGED <<inclusionState, settings, known, running, commands, mode, network,
                   missed, crossed, faults>>

BeginInclusion == Call /\ Begins(Task("classic", None, None))

BeginExclusion == \E s \in Strategies : Call /\ Begins(Task("exclude", None, s))

ReplaceFailedNode(n) == Call /\ n \in nodes /\ Begins(Task("replace", n, None))

(* A removal of the same node that waits or runs is not queued twice.      *)
RemovalOf(n) ==
    \E t \in ToSet(queue) \cup {running} : t.kind = "remove" /\ t.node = n

RemoveFailedNode(n) ==
    /\ Call
    /\ n \in nodes /\ ~RemovalOf(n)
    /\ RemoveAnytime \/ running.found # n
    /\ QueueTask(Task("remove", n, None))
    /\ UNCHANGED <<inclusionState, settings, known, running, commands, mode, network,
                   missed, crossed, faults>>

(* A node on the provisioning list announces itself.                       *)
SmartStartRequest(d) ==
    /\ mode.k = "listen" /\ d \notin network
    /\ provisioning[d] = "active"
    /\ Begins(Task("smartStart", d, None))
    /\ UNCHANGED calls

-----------------------------------------------------------------------------
(* Calls that stop a task                                                  *)

(* stopInclusionInternal, stopExclusionInternal: nothing is sent unless    *)
(* the state says that it is active.                                       *)
StopInclusion ==
    /\ Call
    /\ inclusionState = "including"
    /\ commands' = Append(commands, Command("stopAdd", "caller", running))
    /\ UNCHANGED <<inclusionState, settings, known, tasks, mode, network, missed,
                   crossed, made, faults>>

StopExclusion ==
    /\ Call
    /\ inclusionState = "excluding"
    /\ commands' = Append(commands, Command("stopRemove", "caller", running))
    /\ UNCHANGED <<inclusionState, settings, known, tasks, mode, network, missed,
                   crossed, made, faults>>

(* What a task that is dropped was about to learn is lost.                 *)
Unheard(t) ==
    IF t.pc \in {"finishing", "stopping"} /\ t.found \in Nodes THEN {t.found} ELSE {}

(* The commands a dropped task has queued stay, nobody waits for them.     *)
Orphaned(pending) ==
    [i \in DOMAIN pending |->
       IF pending[i].by = "task" THEN [pending[i] EXCEPT !.by = None] ELSE pending[i]]

(* removeTasks: of the task that runs and those that wait.                 *)
DropTasks(kinds) ==
    /\ queue' = Only(queue, {t \in ToSet(queue) : t.kind \notin kinds})
    /\ IF running.kind \in kinds
         THEN running' = NoTask /\ missed' = missed \cup Unheard(running)
         ELSE UNCHANGED <<running, missed>>

Stopped(kinds, pending) ==
    /\ SetInclusionState("idle",
         IF running.kind \in kinds THEN Orphaned(pending) ELSE pending)
    /\ DropTasks(kinds)
    /\ UNCHANGED <<settings, known, network>>

-----------------------------------------------------------------------------
(* The steps of a task                                                     *)

Goes(pc) == running' = [running EXCEPT !.pc = pc]
Ends     == running' = NoTask
Sends(op, pc) ==
    /\ Goes(pc)
    /\ commands' = Append(commands, Command(op, "task", running))

(* After the listening mode was left, or if it was not active.             *)
StartOf(kind) ==
    CASE kind = "classic"    -> [state |-> "including", pc |-> "starting", op |-> "add"]
      [] kind = "smartStart" -> [state |-> "including", pc |-> "starting", op |-> "addDSK"]
      [] kind = "exclude"    -> [state |-> "excluding", pc |-> "starting", op |-> "remove"]
      [] OTHER               -> [state |-> "busy", pc |-> "pinging", op |-> None]

Paused(t, pending) ==
    LET s == StartOf(t.kind)
    IN  /\ inclusionState' = s.state
        /\ running' = [t EXCEPT !.pc = s.pc]
        /\ commands' = IF s.op = None THEN pending
                       ELSE Append(pending, Command(s.op, "task", t))

(* The scheduler starts the next task of the group: it leaves the          *)
(* SmartStart listening mode first.                                        *)
StartTask ==
    /\ running = NoTask /\ queue # <<>>
    /\ LET t == Head(queue)
       IN  IF inclusionState = "smartStart"
             THEN /\ running' = [t EXCEPT !.pc = "pausing"]
                  /\ commands' = Append(commands, Command("stopListen", "task", t))
                  /\ UNCHANGED inclusionState
             ELSE Paused(t, commands)
    /\ queue' = Tail(queue)
    /\ UNCHANGED <<settings, known, mode, network, missed, crossed, bounds>>

(* Mutant of Aborts: the controller is not stopped.                        *)
AbortsUnstopped == Ends /\ SetInclusionState("idle", commands)

(* The task gives up: the controller should not catch another node.        *)
Aborts ==
    LET stop == IF running.kind = "exclude" THEN "stopRemove" ELSE "stopAdd"
        active == IF running.kind = "exclude" THEN "excluding" ELSE "including"
    IN  /\ IF inclusionState = active
             THEN Sends(stop, "aborting")
             ELSE Ends /\ UNCHANGED commands
        /\ UNCHANGED inclusionState

(* The network part is done.                                               *)
ReplaceNode ==
    /\ withDSK' = withDSK \ {running.node}
    /\ SetInclusionState("busy", commands)
    /\ running' = [running EXCEPT !.pc = "bootstraps", !.found = running.node]
    /\ nodes' = nodes \cup {running.node}

(* A status report of the controller while the task waits for one.         *)
Handles(status, n) ==
    CASE status \in {"failed", "unexpected"} /\ running.kind = "replace" ->
           /\ Ends
           /\ IF status = "failed" THEN SetInclusionState("idle", commands)
              ELSE UNCHANGED <<inclusionState, commands>>
           /\ UNCHANGED known
      [] status \in {"failed", "unexpected"} /\ running.kind # "replace" ->
           Aborts /\ UNCHANGED known
      [] status = "replace" ->
           /\ Goes("awaitsDone")
           /\ SetInclusionState("including", commands)
           /\ UNCHANGED known
      [] status = "found" ->
           Goes("awaitsNode") /\ UNCHANGED <<inclusionState, commands, known>>
      [] status = "node" ->
           /\ running' = [running EXCEPT !.pc = "awaitsDone", !.found = n]
           /\ UNCHANGED <<inclusionState, commands, known>>
      [] status = "done" /\ running.kind \in Adds ->
           Sends("finish", "finishing") /\ UNCHANGED <<inclusionState, known>>
      [] status = "done" /\ running.kind = "exclude" ->
           Sends("stopNoCallback", "stopping") /\ UNCHANGED <<inclusionState, known>>
      [] status = "reserved" ->
           /\ running' = [running EXCEPT !.pc = "stopping", !.found = None]
           /\ commands' = Append(commands, Command("stopNoCallback", "task", running))
           /\ UNCHANGED <<inclusionState, known>>
      [] status = "done" /\ running.kind = "replace" -> ReplaceNode

(* The task is the one that started what the controller reports on.        *)
IsHeard ==
    /\ running.pc \in Awaits
    /\ \/ mode.k = "add" /\ running.kind \in Adds
       \/ mode.k = "remove" /\ running.kind = "exclude"
       \/ mode.k = "replace" /\ running.kind = "replace"

Reports(status, n) ==
    /\ IF IsHeard THEN Handles(status, n)
       ELSE UNCHANGED <<inclusionState, commands, running, known>>
    /\ UNCHANGED <<settings, queue, crossed, made, calls>>

-----------------------------------------------------------------------------
(* The controller (external)                                               *)

Catching == mode.k \in {"add", "remove", "replace"} /\ mode.stage \in {"ready", "found", "node"}

(* A node in learn mode is found; its id is reported next.                 *)
NodeFound ==
    /\ mode.k \in {"add", "remove"} /\ mode.stage = "ready"
    /\ mode' = [mode EXCEPT !.stage = "found"]
    /\ Reports("found", None)
    /\ UNCHANGED <<network, missed, faults>>

NodeIsNamed(n) ==
    /\ mode.stage = "found"
    /\ \/ mode.k = "add" /\ mode.node \in {None, n} /\ n \notin network
       \/ mode.k = "remove"
    /\ mode' = [mode EXCEPT !.stage = "node", !.node = n]
    /\ Reports("node", n)
    /\ UNCHANGED <<network, missed, faults>>

(* The node joined or left the network.                                    *)
ProtocolDone ==
    /\ mode.stage = "node" /\ mode.k \in {"add", "remove"}
    /\ mode' = [mode EXCEPT !.stage = "done"]
    /\ network' = IF mode.k = "add" THEN network \cup {mode.node} ELSE network \ {mode.node}
    /\ missed' = IF IsHeard /\ running.found = mode.node THEN missed ELSE missed \cup {mode.node}
    /\ Reports("done", mode.node)
    /\ UNCHANGED faults

(* The node is known to be in another network: it is not removed.          *)
NotRemoved ==
    /\ mode.k = "remove" /\ mode.stage = "node"
    /\ faults < MaxFaults /\ faults' = faults + 1
    /\ mode' = [mode EXCEPT !.stage = "done"]
    /\ Reports("reserved", None)
    /\ UNCHANGED <<network, missed>>

(* The failed node may be replaced.                                        *)
ReplaceStarts ==
    /\ mode.k = "replace" /\ mode.stage = "asked"
    /\ mode' = [mode EXCEPT !.stage = "ready"]
    /\ Reports("replace", None)
    /\ UNCHANGED <<network, missed, faults>>

(* Its successor joined.                                                   *)
ReplaceDone ==
    /\ mode.k = "replace" /\ mode.stage = "ready"
    /\ mode' = Off
    /\ Reports("done", mode.node)
    /\ UNCHANGED <<network, missed, faults>>

(* Failed, or a status that was not expected.  The controller goes on      *)
(* until it is stopped, unless the replacement failed.                     *)
FailureReported ==
    /\ Catching \/ (mode.k = "replace" /\ mode.stage = "asked")
    /\ faults < MaxFaults /\ faults' = faults + 1
    /\ \E status \in {"failed", "unexpected"} :
         /\ mode.k = "replace" /\ "error" \notin Refusable => status = "failed"
         /\ Reports(status, None)
    /\ mode' = IF mode.k = "replace" THEN Off ELSE [mode EXCEPT !.stage = "ready"]
    /\ UNCHANGED <<network, missed>>

(* What a command makes the controller do.                                 *)
ModeAfter(c) ==
    CASE c.op = "listen"        -> [Off EXCEPT !.k = "listen"]
      [] c.op = "add"           -> [Off EXCEPT !.k = "add"]
      [] c.op = "addDSK"        -> [Off EXCEPT !.k = "add", !.node = c.node]
      [] c.op = "remove"        -> [Off EXCEPT !.k = "remove"]
      [] c.op = "replaceFailed" -> [k |-> "replace", stage |-> "asked", node |-> c.node]
      [] c.op = "removeFailed"  -> mode
      [] OTHER                  -> Off

-----------------------------------------------------------------------------
(* The answers to the commands                                             *)

(* The task that added a node is over.                                     *)
Finishes(pending) == Ends /\ SetInclusionState("idle", pending)

(* An inclusion: the node is remembered unless there is none or it is      *)
(* known already.                                                          *)
NodeAdded(pending) ==
    IF running.found \in Nodes \ nodes
      THEN /\ nodes' = nodes \cup {running.found}
           /\ Goes("bootstraps")
           /\ SetInclusionState("busy", pending)
           /\ UNCHANGED <<settings, withDSK>>
      ELSE Finishes(pending) /\ UNCHANGED <<settings, known>>

(* An exclusion: the provisioning entry is disabled or removed, too.       *)
NodeExcluded(pending) ==
    LET n == running.found
        hasEntry == n \in withDSK /\ provisioning[n] # None
        list == [provisioning EXCEPT ![n] = IF running.strategy = "unprovision"
                                              THEN None ELSE "inactive"]
    IN  IF n \notin nodes
          THEN Finishes(pending) /\ UNCHANGED <<settings, known>>
          ELSE /\ nodes' = nodes \ {n} /\ withDSK' = withDSK \ {n}
               /\ Ends
               /\ IF hasEntry /\ running.strategy # "excludeOnly"
                    THEN /\ provisioning' = list
                         /\ failedAttempts' = [failedAttempts EXCEPT ![n] = 0]
                         /\ smartStartEnabled' = HasPlannedEntries(list)
                         /\ Enters("idle", pending, HasPlannedEntries(list))
                    ELSE SetInclusionState("idle", pending) /\ UNCHANGED settings

(* The node of a removal, or of a SmartStart inclusion that failed.        *)
Failing == IF running.kind = "remove" THEN running.node ELSE running.found

(* Mutant of NotRemovedAfterAll: the state is not reset.                   *)
NotRemovedStaysBusy(pending) ==
    /\ Ends /\ commands' = pending
    /\ failedAttempts' = IF running.kind = "smartStart"
                           THEN [failedAttempts EXCEPT ![running.node] = 0]
                           ELSE failedAttempts
    /\ UNCHANGED <<inclusionState, smartStartEnabled, provisioning, known>>

(* The failed node stays.  After a SmartStart inclusion it counts as       *)
(* added, and its attempts are forgotten.                                  *)
NotRemovedAfterAll(pending) ==
    /\ Finishes(pending)
    /\ failedAttempts' = IF running.kind = "smartStart"
                           THEN [failedAttempts EXCEPT ![running.node] = 0]
                           ELSE failedAttempts
    /\ UNCHANGED <<smartStartEnabled, provisioning, known>>

(* Mutant of Removed: the DSK stays with the id.                           *)
RemovedKeepsDSK(pending) ==
    /\ Finishes(pending)
    /\ nodes' = nodes \ {Failing}
    /\ UNCHANGED <<settings, withDSK>>

Removed(pending) ==
    /\ Finishes(pending)
    /\ nodes' = nodes \ {Failing} /\ withDSK' = withDSK \ {Failing}
    /\ UNCHANGED settings

(* The answer to a command of the task that runs.                          *)
Answered(c, outcome, pending) ==
    CASE running.pc = "pausing" /\ outcome = "ok" ->
           Paused(running, pending) /\ UNCHANGED <<settings, known>>
      [] running.pc = "pausing" /\ outcome # "ok" ->
           /\ Ends
           /\ IF running.kind = "remove" THEN SetInclusionState("idle", pending)
              ELSE commands' = pending /\ UNCHANGED inclusionState
           /\ UNCHANGED <<settings, known>>
      [] running.pc = "starting" /\ outcome = "ok" ->
           /\ Goes(IF running.kind = "replace" THEN "awaitsReplace" ELSE "awaitsFound")
           /\ commands' = pending
           /\ UNCHANGED <<inclusionState, settings, known>>
      [] running.pc = "starting" /\ outcome = "refused" ->
           Finishes(pending) /\ UNCHANGED <<settings, known>>
      [] running.pc = "starting" /\ outcome = "error" ->
           Ends /\ commands' = pending /\ UNCHANGED <<inclusionState, settings, known>>
      [] running.pc = "aborting" /\ outcome = "ok" ->
           Finishes(pending) /\ UNCHANGED <<settings, known>>
      [] running.pc = "aborting" /\ outcome # "ok" ->
           Ends /\ commands' = pending /\ UNCHANGED <<inclusionState, settings, known>>
      [] running.pc = "finishing" ->
           /\ running' = [running EXCEPT !.pc = "stopping",
                                         !.found = IF outcome = "ok" THEN @ ELSE None]
           /\ commands' = Append(pending, Command("stopNoCallback", "task", running))
           /\ UNCHANGED <<inclusionState, settings, known>>
      [] running.pc = "stopping" ->
           IF running.kind = "exclude" THEN NodeExcluded(pending) ELSE NodeAdded(pending)
      [] running.pc = "removing" ->
           IF outcome = "ok" THEN Removed(pending) ELSE NotRemovedAfterAll(pending)
      [] running.pc = "leaving" /\ outcome = "ok" ->
           /\ Goes("pinging") /\ inclusionState' = "busy" /\ commands' = pending
           /\ UNCHANGED <<settings, known>>
      [] running.pc = "leaving" /\ outcome # "ok" -> NotRemovedAfterAll(pending)

InclusionTasks == {"classic", "smartStart", "replace"}

(* The answer to what enableSmartStart, disableSmartStart or the           *)
(* application sent.  They set the state whatever it is by now.            *)
AnsweredCall(c, outcome, pending) ==
    CASE c.by = "caller" /\ outcome = "ok" ->
           Stopped(IF c.op = "stopAdd" THEN InclusionTasks ELSE {"exclude"}, pending)
      [] c.by = "enable" /\ outcome # "ok" ->
           SetInclusionState("idle", pending) /\ UNCHANGED <<settings, known, tasks, missed>>
      [] c.by = "disable" /\ outcome # "ok" ->
           /\ SetInclusionState("smartStart", pending)
           /\ UNCHANGED <<settings, known, tasks, missed>>
      [] OTHER ->
           /\ commands' = pending
           /\ UNCHANGED <<inclusionState, settings, known, tasks, missed>>

(* Others have gone on from the state s that a call had left behind.       *)
Overtaken(s, pending) ==
    \/ inclusionState # s
    \/ \E i \in DOMAIN pending : pending[i].op \in {"listen", "stopListen"}

(* The answer comes too late: the task to be stopped is not the one that   *)
(* runs, or what has been switched on or off is something else by now.     *)
Late(c, outcome, pending) ==
    \/ c.by = "caller" /\ outcome = "ok" /\ running.id # c.for
    \/ c.by = "enable" /\ outcome # "ok" /\ Overtaken("smartStart", pending)
    \/ c.by = "disable" /\ outcome # "ok" /\ Overtaken("idle", pending)
    \/ c.by = "enable" /\ outcome = "ok" /\ inclusionState \in {"including", "excluding", "busy"}

Outcomes(c) ==
    IF c.op \in {"removeFailed", "replaceFailed"} /\ c.node \notin network
      THEN {"refused"}
      ELSE {"ok"} \cup IF faults < MaxFaults /\ c.op \in Refusable
                  THEN {"refused"} \cup ({"error"} \cap
                         IF c.op = "replaceFailed" THEN Refusable ELSE {})
                  ELSE {}

(* What fails may have been executed all the same when its answer is lost. *)
(* A refusal of replaceFailed is an answer.                                *)
Executed(c, outcome) ==
    IF outcome = "ok" THEN {TRUE}
    ELSE IF "ok" \in Outcomes(c) /\ (c.op = "replaceFailed" => outcome = "error")
      THEN BOOLEAN ELSE {FALSE}

Unnoticed(c, outcome, done) ==
    IF c.op = "finish" /\ outcome # "ok" THEN {running.found}
    ELSE IF c.op = "removeFailed" /\ outcome # "ok" /\ done THEN {c.node}
    ELSE {}

(* The controller executes the next command, or it fails.                  *)
Execute ==
    /\ commands # <<>>
    /\ LET c == Head(commands)
       IN  \E outcome \in Outcomes(c) : \E done \in Executed(c, outcome) :
             /\ mode' = IF done THEN ModeAfter(c) ELSE mode
             /\ network' = IF c.op = "removeFailed" /\ done THEN network \ {c.node} ELSE network
             /\ faults' = IF outcome = "ok" \/ {outcome} = Outcomes(c) THEN faults
                           ELSE faults + 1
             /\ crossed' = (\/ crossed \/ Late(c, outcome, Tail(commands))
                            \/ done /\ outcome # "ok")
             /\ IF c.by = "task"
                  THEN /\ Answered(c, outcome, Tail(commands))
                       /\ missed' = missed \cup Unnoticed(c, outcome, done)
                       /\ UNCHANGED queue
                  ELSE AnsweredCall(c, outcome, Tail(commands))
    /\ UNCHANGED <<made, calls>>

-----------------------------------------------------------------------------
(* Talking to the node: that takes commands, too, which come after those   *)
(* that wait already.                                                      *)

(* The DSK of the node is known when the key exchange got that far.        *)
Bootstrapped ==
    /\ running.pc = "bootstraps" /\ commands = <<>>
    /\ withDSK' \in {withDSK, withDSK \cup ({running.found} \cap DSKs)}
    /\ running.kind = "smartStart" => running.node \in withDSK'
    /\ failedAttempts' = IF running.kind = "smartStart"
                           THEN [failedAttempts EXCEPT ![running.node] = 0]
                           ELSE failedAttempts
    /\ Finishes(commands)
    /\ UNCHANGED <<smartStartEnabled, provisioning, nodes, queue, mode, network, missed,
                   crossed, bounds>>

(* The key exchange of a SmartStart inclusion fails.  After the last       *)
(* attempt its entry is disabled.  Then the node should be removed: a      *)
(* removal that waits for the end of this very task is not made twice, and *)
(* the listening mode, which only a reset can have entered, is left first. *)
BootstrapFails ==
    /\ running.pc = "bootstraps" /\ running.kind = "smartStart" /\ commands = <<>>
    /\ LET d == running.node
           last == failedAttempts[d] + 1 >= MaxAttempts /\ provisioning[d] # None
       IN  /\ failedAttempts' = [failedAttempts EXCEPT ![d] = IF last THEN 0 ELSE @ + 1]
           /\ provisioning' = [provisioning EXCEPT ![d] = IF last THEN "inactive" ELSE @]
           /\ withDSK' \in {withDSK, withDSK \cup {d}}
    /\ IF RemovalOf(running.found)
         THEN Goes("blocked") /\ UNCHANGED <<inclusionState, commands>>
       ELSE IF inclusionState = "smartStart"
         THEN Sends("stopListen", "leaving") /\ UNCHANGED inclusionState
         ELSE Goes("pinging") /\ inclusionState' = "busy" /\ UNCHANGED commands
    /\ UNCHANGED <<smartStartEnabled, nodes, queue, mode, network, missed, crossed, bounds>>

(* Mutant of PingAnswered: the node is forgotten although it answers.      *)
PingAnsweredForgets ==
    /\ running.pc = "pinging" /\ commands = <<>>
    /\ Removed(commands)
    /\ UNCHANGED <<queue, mode, network, missed, crossed, bounds>>

(* A failed node is pinged before it is removed or replaced.               *)
PingAnswered ==
    /\ running.pc = "pinging" /\ commands = <<>>
    /\ NotRemovedAfterAll(commands)
    /\ UNCHANGED <<queue, mode, network, missed, crossed, bounds>>

PingFails ==
    /\ running.pc = "pinging" /\ commands = <<>>
    /\ IF running.kind = "replace" THEN Sends("replaceFailed", "starting")
       ELSE /\ Goes("removing")
            /\ commands' = Append(commands, [Command("removeFailed", "task", running)
                                              EXCEPT !.node = Failing])
    /\ UNCHANGED <<inclusionState, settings, known, queue, mode, network, missed, crossed,
                   bounds>>

(* The controller is soft-reset, which may be the recovery after a command *)
(* that is not acknowledged: that is queued again, at the head, and        *)
(* executed afterwards.  A task that has sent one, or that deals with a    *)
(* node, is not told.                                                      *)
SoftReset ==
    /\ faults < MaxFaults /\ faults' = faults + 1
    /\ mode' = Off
    /\ SetInclusionState("idle", commands)
    /\ crossed' = (\/ crossed \/ commands # <<>>
                   \/ running.pc \notin Awaits \cup {"ended"})
    /\ UNCHANGED <<settings, known, tasks, network, missed, made, calls>>

-----------------------------------------------------------------------------
Application ==
    \/ \E d \in DSKs : Provision(d) \/ Unprovision(d)
    \/ BeginInclusion \/ BeginExclusion \/ StopInclusion \/ StopExclusion
    \/ \E n \in Nodes : ReplaceFailedNode(n) \/ RemoveFailedNode(n)

Controller ==
    \/ \E d \in DSKs : SmartStartRequest(d)
    \/ NodeFound \/ (\E n \in Nodes : NodeIsNamed(n)) \/ ProtocolDone \/ NotRemoved
    \/ ReplaceStarts \/ ReplaceDone \/ FailureReported

Driver == StartTask \/ Execute \/ Bootstrapped \/ BootstrapFails \/ PingAnswered \/ PingFails

Next == Application \/ Controller \/ Driver \/ SoftReset

Spec == Init /\ [][Next]_vars

(* The driver goes on, nodes answer or not within a time limit, and the    *)
(* controller reports whether it starts to replace a node.  Nobody needs   *)
(* to put a node into learn mode, or to stop what he began.                *)
FairSpec == Spec /\ WF_vars(Driver) /\ WF_vars(ReplaceStarts)

-----------------------------------------------------------------------------
TypeOK ==
    /\ inclusionState \in {"idle", "smartStart", "including", "excluding", "busy"}
    /\ smartStartEnabled \in BOOLEAN /\ crossed \in BOOLEAN
    /\ provisioning \in [DSKs -> {None, "active", "inactive"}]
    /\ failedAttempts \in [DSKs -> Nat]
    /\ withDSK \subseteq nodes \cap DSKs
    /\ nodes \cup network \cup missed \subseteq Nodes
    /\ \A t \in ToSet(queue) : t.kind \in Kinds /\ t.pc = "queued"
    /\ running.pc = "ended" <=> running = NoTask
    /\ \A i \in DOMAIN commands : commands[i].by = "task" => running.id = commands[i].for
    /\ Cardinality({i \in DOMAIN commands : commands[i].by = "task"}) <= 1
    /\ mode.k \in {"off", "listen", "add", "remove", "replace"}

(* docs/api/controller.md, InclusionState.  When no command is under way,  *)
(* the state says what the controller does: it listens for SmartStart      *)
(* nodes exactly in SmartStart, and whenever it may catch a node, the      *)
(* state is the one in which the application can stop that.  This holds    *)
(* until the state is set past what is going on, which the code does not   *)
(* notice: a call is answered when something else has begun, a soft reset  *)
(* comes while a command is under way or a task neither waits for the      *)
(* controller nor has ended, or a command that counts as failed has been   *)
(* executed.                                                               *)
ModeMatches ==
    commands = <<>> /\ ~crossed =>
      /\ mode.k = "listen" <=> inclusionState = "smartStart"
      /\ Catching /\ mode.k = "remove" => inclusionState = "excluding"
      /\ Catching /\ mode.k # "remove" => inclusionState = "including"

(* The driver and the controller have the same nodes, except the one that  *)
(* is being added or removed, and those of which the driver could not      *)
(* hear: the answer that names the node failed, or nobody waited for it.   *)
NodesInSync ==
    \A n \in (nodes \ network) \cup (network \ nodes) : n \in missed \cup {running.found}

(* The driver does not stay busy, which would refuse every inclusion and   *)
(* exclusion until it is restarted.                                        *)
BusyEnds == inclusionState = "busy" ~> inclusionState # "busy"

(* Driver.ts 3504: "Soft-resetting disables any ongoing inclusion, so we   *)
(* need to reset the state that is tracked in the controller".  Where no   *)
(* inclusion is going on, no task waits for its reports.                   *)
WaitingIsActive ==
    running.pc \in Awaits => inclusionState \in {"including", "excluding", "busy"}
=============================================================================
