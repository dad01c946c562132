---------------------------- MODULE NodeInterview ----------------------------
(***************************************************************************)
(* How the driver gets to know its nodes: the interview of a node          *)
(* (Node.ts, Driver.interviewNodeInternal), the status and readiness       *)
(* machines it drives and depends on (NodeStatusMachine.ts,                *)
(* NodeReadyMachine.ts, 20_Status.ts), the retries, and the "all nodes     *)
(* ready" event.  An interview is an asynchronous procedure: it is         *)
(* suspended in each command it sends, and everything else can happen      *)
(* meanwhile, the start of another interview of the same node included.    *)
(*                                                                         *)
(* A node's record is transformed by the operators below the way one       *)
(* synchronous piece of the code, the event handlers it calls included,    *)
(* transforms the node.  The queue is SendThread's subject: here a command *)
(* that waits is the point its interview has reached.                      *)
(***************************************************************************)
EXTENDS Naturals, FiniteSets, FiniteSetsExt

CONSTANTS
    Nodes,         \* the nodes, without the controller's own
    Sleeping,      \* those that neither listen nor listen frequently
    Caches,        \* network caches to start from: for each node it contains
                   \* the stage reached; other nodes are included later
    CCs,           \* how many command classes a node is interviewed for
    Slots,         \* bound: interviews of one node at the same time
    MaxAttempts,   \* options.attempts.nodeInterview
    MaxFaults,     \* bound: commands that fail
    MaxRefreshes,  \* bound: calls of refreshInfo
    MaxRemovals    \* bound: nodes removed from the network

ASSUME NodesAssumption ==
    /\ IsFiniteSet(Nodes)
    /\ Sleeping \subseteq Nodes
    /\ CCs \in Nat \ {0} /\ MaxAttempts \in Nat \ {0}
    /\ MaxFaults \in Nat /\ MaxRefreshes \in Nat
    /\ Slots \subseteq Nat /\ IsFiniteSet(Slots)

Stages == {"None", "ProtocolInfo", "NodeInfo", "CommandClasses", "Complete"}

ASSUME CacheAssumption ==
    \A cache \in Caches :
        DOMAIN cache \subseteq Nodes /\ \A n \in DOMAIN cache : cache[n] \in Stages

VARIABLES
    phase,       \* "booting", "controller" (handlers are registered), "started"
    network,     \* controller.nodes
    node,        \* what is known of each node, see NodeRecord
    nodesReady,  \* Driver._nodesReady
    announced,   \* Driver._nodesReadyEventEmitted
    removed,     \* the nodes that were removed
    faults, refreshes   \* how much of the bounds is used up

driver == <<phase, network, nodesReady, announced>>
bounds == <<removed, faults, refreshes>>
vars == <<driver, node, bounds>>

Statuses == {"unknown", "dead", "alive", "asleep", "awake"}

\* Where an interview is suspended: aborting a command of the previous one or in
\* one of its own commands.  "status" is the ping of a node that needs no interview.
Points == {"idle", "rejecting", "protocol", "ping", "nodeinfo", "again",
           "ccs", "status"}

\* Those in which a command to the node itself is pending.
Waiting == {"ping", "nodeinfo", "again", "ccs", "status"}

\* Those whose command has the priority NodeQuery or the tag "interview".
Rejectable == {"nodeinfo", "again", "ccs"}

Idle == [at |-> "idle", cc |-> 0]

NodeRecord ==
    [stage : Stages, status : Statuses,
     readiness : {"notReady", "readyIfNotDead", "ready"},
     known : BOOLEAN,            \* isListening and isFrequentListening are known
     interviewed : SUBSET (1..CCs),
     attempts : Nat,
     timers : Nat,               \* retry timers that are armed
     tracked : BOOLEAN,          \* the last one is in retryNodeInterviewTimeouts
     refreshing : BOOLEAN,       \* refreshInfo waits for the node to wake up
     failed : BOOLEAN,           \* history: an interview threw another error
     runs : [Slots -> [at : Points, cc : 0..CCs]]]

TypeOK ==
    /\ phase \in {"booting", "controller", "started"}
    /\ network \subseteq Nodes /\ nodesReady \subseteq Nodes
    /\ node \in [Nodes -> NodeRecord]
    /\ announced \in BOOLEAN
    /\ faults \in 0..MaxFaults /\ refreshes \in 0..MaxRefreshes
    /\ removed \subseteq Nodes

New ==
    [stage |-> "None", status |-> "unknown", readiness |-> "notReady",
     known |-> FALSE, interviewed |-> {}, attempts |-> 0, timers |-> 0,
     tracked |-> FALSE, refreshing |-> FALSE, failed |-> FALSE,
     runs |-> [i \in Slots |-> Idle]]

\* A node restored from the cache: one whose interview is complete is ready as
\* soon as it is known not to be dead.
Restored(stage) ==
    [New EXCEPT
       !.stage = stage,
       !.known = stage # "None",
       !.interviewed = IF stage \in {"CommandClasses", "Complete"}
                       THEN 1..CCs ELSE {},
       !.readiness = IF stage = "Complete" THEN "readyIfNotDead" ELSE "notReady"]

CanSleep(n, r) == r.known /\ n \in Sleeping
Listens(n, r) == r.known /\ n \notin Sleeping
Busy(r, points) == {i \in Slots : r.runs[i].at \in points}

-----------------------------------------------------------------------------
(* The interview, as far as it runs without waiting *)

At(r, i, point) == [r EXCEPT !.runs[i] = [at |-> point, cc |-> 0]]

\* The end of interviewInternal, which only waits for resolved promises: what the
\* device configuration says is applied, the interview is complete.
Complete(r, i) ==
    At([r EXCEPT !.stage = "Complete",
                 !.readiness = IF @ = "notReady" THEN "ready" ELSE @], i, "idle")

\* Mutant of NextCC: the stage is reached before the last command class is
\* interviewed.
NextCCEarly(r, i, cc) ==
    IF cc + 1 >= CCs
    THEN Complete([r EXCEPT !.stage = "CommandClasses"], i)
    ELSE [r EXCEPT !.runs[i] = [at |-> "ccs", cc |-> cc + 1]]

\* interviewCCs goes on with the next command class that is not interviewed yet.
NextCC(r, i, cc) ==
    LET rest == (cc + 1 .. CCs) \ r.interviewed IN
    IF rest = {}
    THEN Complete([r EXCEPT !.stage = "CommandClasses"], i)
    ELSE [r EXCEPT !.runs[i] = [at |-> "ccs", cc |-> Min(rest)]]

\* interviewInternal, from behind the ping on: the stages are read when they
\* are needed, and whatever stage was not due is skipped.
Advance(r, i) ==
    CASE r.stage = "ProtocolInfo" -> At(r, i, "nodeinfo")
      [] r.stage = "NodeInfo" -> NextCC(r, i, 0)
      [] OTHER -> Complete(r, i)

\* interviewInternal, from behind the protocol info on.
CheckAlive(n, r, i) ==
    IF Listens(n, r) /\ r.status # "alive" THEN At(r, i, "ping") ELSE Advance(r, i)

\* interviewInternal from its start on.
Start(n, r, i) ==
    LET tried == [r EXCEPT !.attempts = @ + 1] IN
    CASE r.stage = "Complete" -> At(r, i, "idle")
      [] r.stage = "None" -> At(tried, i, "protocol")
      [] OTHER -> CheckAlive(n, tried, i)

\* Mutant of Interview: counts a timer as cleared that is not known any more.
InterviewClears(n, r) ==
    IF r.stage = "Complete" THEN r
    ELSE LET ended == [r EXCEPT !.timers = @ - 1, !.tracked = FALSE,
                                !.runs = [i \in Slots |-> Idle]]
         IN  Start(n, ended, CHOOSE i \in Slots : TRUE)

\* interviewNodeInternal: forgets the retry timer it knows of and rejects the
\* node's pending interview commands, which ends the interviews that sent them.
\* Only the abort of a command that is being transmitted takes time.
Interview(n, r) ==
    IF r.stage = "Complete" THEN r
    ELSE LET rest == [i \in Slots |->
                        IF r.runs[i].at \in Rejectable THEN Idle ELSE r.runs[i]]
             slot == CHOOSE i \in Slots : rest[i] = Idle
             cleared == [r EXCEPT
                !.timers = IF r.tracked THEN @ - 1 ELSE @,
                !.tracked = FALSE,
                !.runs = rest]
         IN  IF Busy(r, {"ccs"}) # {} THEN At(cleared, slot, "rejecting")
             ELSE Start(n, cleared, slot)

\* Mutant of Failed: relies on the node to speak up again, dead or not.
FailedWaits(r, i) == At(r, i, "idle")

\* An attempt has failed: the node is dead, or it is tried again later, or it
\* was the last attempt.  The timer replaces one that may still be armed.
Failed(r, i) ==
    LET ended == At(r, i, "idle") IN
    IF r.status # "dead" /\ r.attempts < MaxAttempts
    THEN [ended EXCEPT !.timers = @ + 1, !.tracked = TRUE]
    ELSE ended

-----------------------------------------------------------------------------
(* The node's status, and what follows from it *)

\* Mutant of NextStatus: only a successful transmission
\* ends the sleep of a node, a wake-up notification does not.
NextStatusAsleep(n, r, input) ==
    LET s == r.status IN
    CASE input = "ALIVE" /\ s \in {"unknown", "dead", "asleep"} -> "alive"
      [] input = "DEAD" /\ s \in {"unknown", "alive"} /\ ~CanSleep(n, r) -> "dead"
      [] input = "ASLEEP" /\ s \notin {"dead", "asleep"} /\ CanSleep(n, r) -> "asleep"
      [] OTHER -> s

NextStatus(n, r, input) ==
    LET s == r.status IN
    CASE input = "DEAD" /\ s = "unknown" /\ ~CanSleep(n, r) -> "dead"
      [] input = "DEAD" /\ s = "alive" -> "dead"
      [] input = "ALIVE" /\ s = "unknown" /\ ~CanSleep(n, r) -> "alive"
      [] input = "ALIVE" /\ s = "dead" -> "alive"
      [] input = "ASLEEP" /\ s \in {"unknown", "alive"} /\ CanSleep(n, r) -> "asleep"
      [] input = "ASLEEP" /\ s = "awake" -> "asleep"
      [] input = "AWAKE" /\ s \in {"unknown", "alive"} /\ CanSleep(n, r) -> "awake"
      [] input = "AWAKE" /\ s = "asleep" -> "awake"
      [] OTHER -> s

\* A node that is known not to be dead is ready if its interview is complete.
Readiness(r) ==
    IF r.readiness = "readyIfNotDead" /\ r.status \notin {"unknown", "dead"}
    THEN "ready" ELSE r.readiness

\* onStatusChange: first the event, on which the driver interviews a node that
\* was dead and is not known well enough, then the readiness.
ChangeStatus(n, r, input) ==
    LET new == NextStatus(n, r, input)
        moved == [r EXCEPT !.status = new]
        heard == IF phase # "booting" /\ r.status = "dead" /\ new = "alive"
                 THEN Interview(n, moved) ELSE moved
    IN  IF new = r.status THEN r ELSE [heard EXCEPT !.readiness = Readiness(heard)]

\* The part of refreshInfo behind the wait: everything known of the node is
\* reset, and it is interviewed again.
Reset(n, r, awake) ==
    LET forgotten == [r EXCEPT
            !.stage = "None", !.status = "unknown", !.readiness = "notReady",
            !.known = awake, !.interviewed = {}, !.attempts = 0,
            !.refreshing = FALSE, !.failed = FALSE]
    IN  Interview(n, IF awake THEN ChangeStatus(n, forgotten, "AWAKE") ELSE forgotten)

\* markAsDead, markAsAlive, markAsAsleep, markAsAwake
Mark(n, r, input) ==
    LET marked == ChangeStatus(n, r, input) IN
    IF marked.status = "awake" /\ r.status # "awake" /\ r.refreshing
    THEN Reset(n, marked, TRUE) ELSE marked

-----------------------------------------------------------------------------
(* The driver's handlers of the nodes' events *)

\* checkAllNodesReady, with the controller's own node ready once the driver
\* has started.
AllReady(started, nodes, ready, known) ==
    started /\ \A n \in nodes : known[n].status = "dead" \/ n \in ready

\* Mutant of Put: the death of a node does not lead to another check.
PutReady(n, r) ==
    LET ready == r.readiness = "ready" /\ node[n].readiness # "ready"
        listens == phase # "booting"
        known == [node EXCEPT ![n] = r]
        now == IF ready /\ listens THEN nodesReady \cup {n} ELSE nodesReady
    IN  /\ node' = known
        /\ nodesReady' = now
        /\ announced' = (announced
              \/ (listens /\ ready
                    /\ AllReady(phase = "started", network, now, known)))
        /\ UNCHANGED <<phase, network>>

\* A node goes through one piece of synchronous code: onNodeReady and onNodeDead
\* check whether all nodes are ready now.
Put(n, r) ==
    LET ready == r.readiness = "ready" /\ node[n].readiness # "ready"
        dead == r.status = "dead" /\ node[n].status # "dead"
        listens == phase # "booting"
        known == [node EXCEPT ![n] = r]
        now == IF ready /\ listens THEN nodesReady \cup {n} ELSE nodesReady
    IN  /\ node' = known
        /\ nodesReady' = now
        /\ announced' = (announced
              \/ (listens /\ (ready \/ dead)
                    /\ AllReady(phase = "started", network, now, known)))
        /\ UNCHANGED <<phase, network>>

-----------------------------------------------------------------------------
(* The start of the driver *)

Init ==
    /\ phase = "booting"
    /\ \E cache \in Caches :
          /\ network = DOMAIN cache
          /\ node = [n \in Nodes |-> IF n \in DOMAIN cache
                                    THEN Restored(cache[n]) ELSE New]
    /\ nodesReady = {}
    /\ announced = FALSE
    /\ removed = {} /\ faults = 0 /\ refreshes = 0

\* "driver ready": the handlers of the nodes' events are registered, the
\* controller's interview is completed.
DriverReady ==
    /\ phase = "booting"
    /\ phase' = "controller"
    /\ nodesReady' = {}
    /\ announced' = FALSE
    /\ UNCHANGED <<network, node, bounds>>

\* The controller's node is ready.  Sleeping nodes are assumed to be asleep;
\* nodes that are not known well enough are interviewed, the others that listen
\* are pinged.
Resumed(n) ==
    LET r == node[n]
        r1 == IF CanSleep(n, r) THEN ChangeStatus(n, r, "ASLEEP") ELSE r
    IN  IF r1.stage # "Complete" THEN Interview(n, r1)
        ELSE IF Listens(n, r1)
             THEN At(r1, CHOOSE i \in Slots : r1.runs[i] = Idle, "status")
             ELSE r1

StartInterviews ==
    /\ phase = "controller"
    /\ phase' = "started"
    /\ node' = [n \in Nodes |-> IF n \in network THEN Resumed(n) ELSE node[n]]
    /\ nodesReady' = nodesReady \cup
          {n \in network : /\ node'[n].readiness = "ready"
                           /\ node[n].readiness # "ready"}
    /\ announced' = AllReady(TRUE, network, nodesReady', node')
    /\ UNCHANGED <<network, bounds>>

-----------------------------------------------------------------------------
(* The steps of an interview *)

\* The old commands are aborted, the interview starts.
Begin(n, i) ==
    /\ node[n].runs[i].at = "rejecting"
    /\ Put(n, Start(n, node[n], i))
    /\ UNCHANGED bounds

\* queryProtocolInfo is answered by the controller.
ProtocolInfo(n, i) ==
    LET r == [node[n] EXCEPT !.known = TRUE]
        slept == IF ~CanSleep(n, r) THEN r
                 ELSE IF r.status = "alive" THEN Mark(n, r, "AWAKE")
                 ELSE IF r.status # "awake" THEN Mark(n, r, "ASLEEP")
                 ELSE r
    IN  /\ r.runs[i].at = "protocol"
        /\ Put(n, CheckAlive(n, [slept EXCEPT !.stage = "ProtocolInfo"], i))
        /\ UNCHANGED bounds

\* A ping is acknowledged.  The status is updated first, and when the node was
\* dead that starts an interview of its own.
PingOk(n, i) ==
    LET r == Mark(n, node[n], "ALIVE") IN
    /\ node[n].runs[i].at \in {"ping", "status"}
    /\ Put(n, IF node[n].runs[i].at = "ping" THEN Advance(r, i) ELSE At(r, i, "idle"))
    /\ UNCHANGED bounds

\* A command is not sent to a node that is asleep.
Reachable(n) == node[n].status # "asleep"

\* interviewNodeInfo: the node sends its node information.
NodeInfo(n, i) ==
    LET r == Mark(n, node[n], "AWAKE") IN
    /\ node[n].runs[i].at \in {"nodeinfo", "again"} /\ Reachable(n)
    /\ Put(n, NextCC([r EXCEPT !.stage = "NodeInfo"], i, 0))
    /\ UNCHANGED bounds

\* A command class has been interviewed; unless the success revived the node,
\* which rejects this interview's command, the next one follows.
CommandClass(n, i) ==
    LET cc == node[n].runs[i].cc
        r == Mark(n, node[n], IF CanSleep(n, node[n]) THEN "AWAKE" ELSE "ALIVE")
    IN  /\ node[n].runs[i].at = "ccs" /\ Reachable(n)
        /\ Put(n, IF r.runs[i].at # "ccs" THEN r
                  ELSE NextCC([r EXCEPT !.interviewed = @ \cup {cc}], i, cc))
        /\ UNCHANGED bounds

\* A command fails with a transmission error and the node's status does not
\* change: the controller does not transmit it, or its answer does not come.
CommandFails(n, i) ==
    LET r == node[n] IN
    /\ r.runs[i].at \in Waiting /\ (r.runs[i].at = "ping" \/ Reachable(n))
    /\ faults < MaxFaults
    /\ faults' = faults + 1
    /\ Put(n, IF r.runs[i].at = "status" THEN At(r, i, "idle") ELSE Failed(r, i))
    /\ UNCHANGED <<removed, refreshes>>

\* The controller reports that it could not get the node information of a node
\* that can sleep and was taken to be awake: the node is asked a second time when
\* it wakes up.
FallsAsleep(n, i) ==
    LET r == node[n] IN
    /\ r.runs[i].at = "nodeinfo" /\ Reachable(n) /\ CanSleep(n, r)
    /\ faults < MaxFaults
    /\ faults' = faults + 1
    /\ Put(n, At(Mark(n, r, "ASLEEP"), i, "again"))
    /\ UNCHANGED <<removed, refreshes>>

\* Whatever goes wrong with the protocol info, and an error of a later command
\* that is no transmission error, ends the interview without another attempt.
InterviewThrows(n, i) ==
    LET at == node[n].runs[i].at IN
    /\ at = "protocol" \/ (at \in Rejectable /\ Reachable(n))
    /\ faults < MaxFaults
    /\ faults' = faults + 1
    /\ Put(n, At([node[n] EXCEPT !.failed = TRUE], i, "idle"))
    /\ UNCHANGED <<removed, refreshes>>

\* Some command to the node, of an interview or of the application, is not
\* acknowledged.  A node that can sleep is asleep, and its commands wait for it;
\* another one is dead, and all of its commands fail.
NoAck(n) ==
    LET r == Mark(n, node[n], IF CanSleep(n, node[n]) THEN "ASLEEP" ELSE "DEAD")
        ended == [r EXCEPT !.runs =
                    [i \in Slots |-> IF @[i].at \in Waiting THEN Idle ELSE @[i]]]
    IN  /\ phase = "started" /\ n \in network
        /\ r.status # node[n].status
        /\ faults < MaxFaults
        /\ faults' = faults + 1
        /\ Put(n, IF r.status = "dead" THEN ended ELSE r)
        /\ UNCHANGED <<removed, refreshes>>

\* One of the node's retry timers expires.
RetryTimer(n) ==
    /\ node[n].timers > 0
    /\ Put(n, Interview(n, [node[n] EXCEPT !.timers = @ - 1, !.tracked = FALSE]))
    /\ UNCHANGED bounds

-----------------------------------------------------------------------------
(* The nodes and the application *)

\* The node sends a frame on its own: it is not dead, and one that can sleep
\* tells that it has woken up.
Frame(n) ==
    LET r == node[n]
        revived == IF r.status = "dead" THEN Mark(n, r, "ALIVE") ELSE r
        woken == IF CanSleep(n, revived) THEN Mark(n, revived, "AWAKE") ELSE revived
    IN  /\ n \in network /\ woken # r
        /\ Put(n, woken)
        /\ UNCHANGED bounds

\* A node that is awake and has nothing to do is sent back to sleep.
SendToSleep(n) ==
    LET r == node[n] IN
    /\ phase = "started" /\ n \in network
    /\ r.status = "awake" /\ r.stage = "Complete" /\ Busy(r, Waiting) = {}
    /\ Put(n, Mark(n, r, "ASLEEP"))
    /\ UNCHANGED bounds

\* refreshInfo.  The application follows the warning not to call it while the
\* node is being interviewed.
RefreshInfo(n, waitForWakeup) ==
    LET r == node[n]
        mayWait == /\ CanSleep(n, r) /\ r.status # "awake"
                   /\ r.stage \in {"NodeInfo", "CommandClasses", "Complete"}
    IN  /\ phase = "started" /\ n \in network
        /\ refreshes < MaxRefreshes
        /\ ~r.refreshing
        /\ Busy(r, Points \ {"idle", "status"}) = {}
        /\ waitForWakeup => mayWait
        /\ refreshes' = refreshes + 1
        /\ Put(n, IF waitForWakeup THEN [r EXCEPT !.refreshing = TRUE]
                  ELSE Reset(n, r, r.status = "awake"))
        /\ UNCHANGED <<removed, faults>>

\* A node is included: it communicates, so it is alive.
NodeAdded(n) ==
    /\ phase = "started"
    /\ n \notin network \cup removed
    /\ network' = network \cup {n}
    /\ node' = [node EXCEPT ![n] = Interview(n, [New EXCEPT !.status = "alive"])]
    /\ UNCHANGED <<phase, nodesReady, announced, bounds>>

\* A node is removed.  Its timers are stopped and its commands rejected; the
\* check whether all nodes are ready comes before the node is forgotten.
NodeRemoved(n) ==
    /\ phase = "started" /\ n \in network
    /\ Cardinality(removed) < MaxRemovals
    /\ removed' = removed \cup {n}
    /\ network' = network \ {n}
    /\ node' = [node EXCEPT ![n] = New]
    /\ announced' = (announced \/ AllReady(TRUE, network, nodesReady, node))
    /\ UNCHANGED <<phase, nodesReady, faults, refreshes>>

Step(n, i) ==
    \/ Begin(n, i)
    \/ ProtocolInfo(n, i)
    \/ PingOk(n, i)
    \/ NodeInfo(n, i)
    \/ CommandClass(n, i)

Next ==
    \/ DriverReady
    \/ StartInterviews
    \/ \E n \in Nodes, i \in Slots :
          \/ Step(n, i)
          \/ CommandFails(n, i) \/ FallsAsleep(n, i) \/ InterviewThrows(n, i)
    \/ \E n \in Nodes :
          \/ NoAck(n)
          \/ RetryTimer(n)
          \/ Frame(n)
          \/ SendToSleep(n)
          \/ NodeAdded(n)
          \/ NodeRemoved(n)
    \/ \E n \in Nodes, wait \in BOOLEAN : RefreshInfo(n, wait)

Spec == Init /\ [][Next]_vars

\* A command that is sent is answered or fails, the microtasks and the timers run,
\* and a node that sleeps wakes up again and again.
Fairness ==
    /\ WF_vars(DriverReady) /\ WF_vars(StartInterviews)
    /\ \A n \in Nodes :
          /\ \A i \in Slots : WF_vars(Step(n, i))
          /\ WF_vars(RetryTimer(n))
          /\ WF_vars(node[n].status = "asleep" /\ Frame(n))

FairSpec == Spec /\ Fairness

-----------------------------------------------------------------------------
(* Properties *)

\* A node of the network that is not dead and not known well enough is being
\* interviewed, or will be when a timer expires, or has used up its attempts:
\* no order of failures, deaths, revivals, wake-ups and refreshes makes
\* the driver forget it (Driver.interviewNodeInternal, Driver.onNodeAlive).
\* The exception is an interview ended by an error that is no transmission error.
NoNodeForgotten ==
    phase = "started" =>
        \A n \in network :
            LET r == node[n] IN
            \/ r.stage = "Complete" \/ r.status = "dead" \/ r.failed
            \/ Busy(r, Points \ {"idle", "status"}) # {}
            \/ r.timers > 0
            \/ r.attempts >= MaxAttempts

\* A node whose interview is complete has been interviewed for all of its
\* command classes since its information was last reset, also when two
\* interviews of it ran at the same time and read each other's stages
\* (Node.interviewInternal).
CompleteIsInterviewed ==
    \A n \in network : node[n].stage = "Complete" => node[n].interviewed = 1..CCs

\* When the last node that "all nodes ready" waited for becomes ready or dies, the
\* event is emitted at once (Driver.checkAllNodesReady).
Outstanding == {n \in network : node[n].status # "dead" /\ n \notin nodesReady}

ReadyIsAnnounced ==
    [][ (/\ phase = "started" /\ network' = network
         /\ Outstanding # {} /\ Outstanding' = {}) => announced' ]_vars

\* Interviews come to an end: from some time on none is running or scheduled.
InterviewsEnd ==
    <>[](\A n \in Nodes : /\ Busy(node[n], Points \ {"idle"}) = {}
                         /\ node[n].timers = 0)
=============================================================================
