---------------------------- MODULE SerialQueue ----------------------------
(***************************************************************************)
(* What the send threads of the driver rely on when they hand a Serial API *)
(* command to Driver.queueSerialAPICommand: commands are executed one at a *)
(* time in the order in which they were queued, every command is given one *)
(* outcome and keeps it, and closing the queue drops the commands that     *)
(* were not started.  SerialAPICommand.tla implements this interface.      *)
(***************************************************************************)
EXTENDS Sequences, SequencesExt

CONSTANTS Cmd,      \* the commands handed to the queue
          NoCmd,    \* no command
          Outcome   \* what the promise of a command can settle with

VARIABLES outcome,  \* the promise of each command
          backlog,  \* the commands that were not started, oldest first
          running,  \* the command being executed
          ended     \* whether the queue was closed

vars == <<outcome, backlog, running, ended>>

Init ==
    /\ outcome = [c \in Cmd |-> "none"]
    /\ backlog = <<>>
    /\ running = NoCmd
    /\ ended = FALSE

(* A command is queued.  A closed queue ignores it. *)
Submit(c) ==
    /\ outcome[c] = "none"
    /\ outcome' = [outcome EXCEPT ![c] = "pending"]
    /\ IF ended \/ running = NoCmd
         THEN /\ running' = IF ended THEN running ELSE c
              /\ UNCHANGED backlog
         ELSE /\ backlog' = Append(backlog, c)
              /\ UNCHANGED running
    /\ UNCHANGED ended

(* The running command gets its outcome and the oldest waiting one starts. *)
Finish(o) ==
    /\ running # NoCmd
    /\ outcome[running] = "pending"
    /\ outcome' = [outcome EXCEPT ![running] = o]
    /\ running' = IF backlog = <<>> THEN NoCmd ELSE Head(backlog)
    /\ backlog' = IF backlog = <<>> THEN <<>> ELSE Tail(backlog)
    /\ UNCHANGED ended

(* The queue is closed: what was not started is dropped. *)
Close ==
    /\ ~ended
    /\ ended' = TRUE
    /\ backlog' = <<>>
    /\ outcome' = [c \in Cmd |-> IF c \in ToSet(backlog) THEN "dropped"
                                                              ELSE outcome[c]]
    /\ UNCHANGED running

Next ==
    \/ \E c \in Cmd : Submit(c)
    \/ \E o \in Outcome : Finish(o)
    \/ Close

Spec == Init /\ [][Next]_vars
=============================================================================
