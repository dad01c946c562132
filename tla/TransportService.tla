-------------------------- MODULE TransportService --------------------------
(***************************************************************************)
(* Transport Service: a command that is too long for one frame is cut into *)
(* segments.  The sender is maybeTransportServiceGenerator; the receiver   *)
(* is Driver.handleTransportServiceCommand, which steps a machine of       *)
(* TransportServiceMachine.ts per session and acknowledges, next to        *)
(* Driver.assemblePartialCCs, which puts the command together again on its *)
(* own.  Between them is a radio link that loses frames.                   *)
(***************************************************************************)
EXTENDS Naturals, Sequences, FiniteSetsExt

CONSTANTS
    Size,          \* bytes of a datagram
    SegmentSize,   \* MAX_SEGMENT_SIZE (39 in the code)
    MaxDatagrams,  \* bound: datagrams that are sent, and session ids in use
    MaxAttempts,   \* maxSendAttempts of the SendData that carries a segment
    MaxLink,       \* bound: frames in the air in each direction
    MaxFaults      \* bound: frames lost, not acknowledged, or later than a timer

ASSUME ConstantsAssumption ==
    /\ SegmentSize \in Nat \ {0}
    /\ Size \in Nat /\ Size > SegmentSize
    /\ MaxDatagrams \in Nat \ {0}
    /\ MaxAttempts \in Nat \ {0} /\ MaxLink \in Nat \ {0}
    /\ MaxFaults \in Nat

(* Each datagram has a session id of its own: the 4 bit counter of the     *)
(* driver reuses one after 15 datagrams.                                   *)
Datagram == 1..MaxDatagrams
Bytes == 0..(Size - 1)

(* Segment s carries the bytes from s * SegmentSize on.                    *)
LastSegment == (Size - 1) \div SegmentSize
Segment == 0..LastSegment
Offset(s) == s * SegmentSize
BytesOf(s) == {b \in Bytes : b \div SegmentSize = s}
AllSegments == [i \in 1..(LastSegment + 1) |-> i - 1]

VARIABLES
    \* the sender
    outcome,    \* what became of each datagram
    tx,         \* the generator
    responses,  \* unhandledResponses: waits and offsets that were requested
    \* the radio link
    toReceiver, \* segments
    toSender,   \* answers
    faults,     \* how many frames were lost, not acknowledged or late
    \* the receiver
    rx,         \* the sessions created so far
    sessions,   \* nodeSessions.transportService: id -> index in rx, 0 if none
    replies,    \* answers the receiver is sending
    partials,   \* partialCCSessions of each id
    \* history
    arrived,    \* the segments that reached the receiver
    assembled   \* the segments of each command that was put together

senderVars == <<outcome, tx, responses>>
receiverVars == <<rx, sessions, replies, partials, arrived, assembled>>
vars == <<senderVars, toReceiver, toSender, faults, receiverVars>>

Outcome == {"none", "busy", "complete", "failed", "exhausted", "rejected"}
Phases == {"idle", "ready", "sending", "awaitingComplete", "restarting"}
States == {"receive", "requestMissing", "success", "failure"}
Piece == [id : Datagram, s : Segment]
Answer == [type : {"wait"}] \cup [type : {"complete"}, id : Datagram]
          \cup [type : {"request"}, id : Datagram, s : Segment]

(* The generator at the beginning of an attempt.                           *)
Attempt(d, n) == [phase |-> "ready", id |-> d, attempt |-> n, unsent |-> AllSegments,
                  s |-> 0, retried |-> FALSE, sent |-> 0]
NotSending == [phase |-> "idle", id |-> 0]

Init ==
    /\ outcome = [d \in Datagram |-> "none"]
    /\ tx = NotSending /\ responses = <<>>
    /\ toReceiver = <<>> /\ toSender = <<>> /\ faults = 0
    /\ rx = <<>> /\ sessions = [d \in Datagram |-> 0] /\ replies = <<>>
    /\ partials = [d \in Datagram |-> <<>>]
    /\ arrived = {} /\ assembled = <<>>
-----------------------------------------------------------------------------
(* The sender.                                                             *)

Begin(d) ==
    /\ tx.phase = "idle" /\ outcome[d] = "none"
    /\ \A e \in Datagram : e < d => outcome[e] # "none"
    /\ outcome' = [outcome EXCEPT ![d] = "busy"]
    /\ tx' = Attempt(d, 1) /\ responses' = <<>>
    /\ UNCHANGED <<toReceiver, toSender, faults, receiverVars>>

(* The generator returns, whatever it has achieved.                        *)
End(o) ==
    /\ outcome' = [outcome EXCEPT ![tx.id] = o]
    /\ tx' = NotSending /\ responses' = <<>>

NextAttempt ==
    IF tx.attempt = 1
      THEN tx' = Attempt(tx.id, 2) /\ responses' = <<>> /\ UNCHANGED outcome
      ELSE End("exhausted")

(* A timer elapses, either because nothing is under way any more that      *)
(* could stop it, or too early.                                            *)
Quiet == toReceiver = <<>> /\ toSender = <<>> /\ replies = <<>>
Faults(n) == faults + n <= MaxFaults /\ faults' = faults + n
Elapses(due) == Faults(IF due THEN 0 ELSE 1)

(* A frame is put on the air, after n faults.                              *)
Transmit(piece, n) ==
    \/ /\ Len(toReceiver) < MaxLink
       /\ toReceiver' = Append(toReceiver, piece) /\ Faults(n)
    \/ UNCHANGED toReceiver /\ Faults(n + 1)

SendSegment ==
    /\ tx.phase = "ready"
    /\ Transmit([id |-> tx.id, s |-> Head(tx.unsent)], 0)
    /\ tx' = [tx EXCEPT !.phase = "sending", !.s = Head(tx.unsent),
                        !.unsent = Tail(tx.unsent), !.sent = 1]
    /\ UNCHANGED <<outcome, responses, toSender, receiverVars>>

(* What the generator does next, unless a SegmentComplete arrived: restart *)
(* for a SegmentWait, send what was requested (the other responses are all *)
(* requests), repeat the last segment once, send the next one, or, with    *)
(* nothing left to send, start the next attempt.                           *)
Continue ==
    IF \E i \in DOMAIN responses : responses[i].type = "wait"
      THEN /\ tx' = [tx EXCEPT !.phase = "restarting"]
           /\ UNCHANGED <<outcome, responses>>
    ELSE IF responses # <<>>
      THEN /\ tx' = [tx EXCEPT !.phase = "ready",
                       !.unsent = @ \o [i \in DOMAIN responses |-> responses[i].s]]
           /\ responses' = <<>> /\ UNCHANGED outcome
    ELSE IF tx.s = LastSegment
      THEN IF tx.retried
             THEN End("failed")
             ELSE /\ tx' = [tx EXCEPT !.phase = "ready", !.retried = TRUE,
                                      !.unsent = <<tx.s>> \o @]
                  /\ UNCHANGED <<outcome, responses>>
    ELSE IF tx.unsent # <<>>
      THEN tx' = [tx EXCEPT !.phase = "ready"] /\ UNCHANGED <<outcome, responses>>
      ELSE NextAttempt

(* The transmit report says that the segment was acknowledged.             *)
SegmentSent ==
    /\ tx.phase = "sending"
    /\ IF tx.s = LastSegment
         THEN /\ tx' = [tx EXCEPT !.phase = "awaitingComplete"]
              /\ UNCHANGED <<outcome, responses>>
         ELSE Continue
    /\ UNCHANGED <<toReceiver, toSender, faults, receiverVars>>

(* It was not, although it may have arrived: the send thread repeats it or *)
(* rejects the transaction.  If the receiver sleeps, it queues the         *)
(* transaction again instead, whose generator then starts from scratch,    *)
(* with a session of its own: that is the next datagram.                   *)
SegmentNotAcknowledged ==
    /\ tx.phase = "sending"
    /\ IF tx.sent < MaxAttempts
         THEN /\ Transmit([id |-> tx.id, s |-> tx.s], 1)
              /\ tx' = [tx EXCEPT !.sent = @ + 1]
              /\ UNCHANGED <<outcome, responses>>
         ELSE End("rejected") /\ Faults(1) /\ UNCHANGED toReceiver
    /\ UNCHANGED <<toSender, receiverVars>>

(* The wait for the SegmentComplete is longer than the receiver's timer.   *)
CompleteTimeout ==
    /\ tx.phase = "awaitingComplete"
    /\ Elapses(Quiet /\ \A i \in DOMAIN rx : ~rx[i].timer)
    /\ Continue
    /\ UNCHANGED <<toReceiver, toSender, receiverVars>>

Restart ==
    /\ tx.phase = "restarting"
    /\ NextAttempt
    /\ UNCHANGED <<toReceiver, toSender, faults, receiverVars>>

(* A generator that is given up in the middle never reaches the code that  *)
(* unregisters its handler.  It takes every SegmentWait from then on.      *)
HandlerRemains == \E d \in Datagram : outcome[d] = "rejected"

(* Which SegmentWait and SegmentRequest the generator is given.            *)
Listens(a) ==
    tx.phase # "idle" /\ IF a.type = "request" THEN a.id = tx.id ELSE ~HandlerRemains

(* Mutant of AnswerArrives: the session id of SegmentComplete is ignored.  *)
AnyAnswerArrives ==
    /\ toSender # <<>>
    /\ toSender' = Tail(toSender)
    /\ LET a == Head(toSender) IN
         IF a.type = "complete"
           THEN IF tx.phase = "awaitingComplete"
                  THEN End("complete") ELSE UNCHANGED senderVars
           ELSE IF Listens(a)
                  THEN responses' = Append(responses, a) /\ UNCHANGED <<outcome, tx>>
                  ELSE UNCHANGED senderVars
    /\ UNCHANGED <<toReceiver, faults, receiverVars>>

(* An answer reaches the sender.  SegmentWait and SegmentRequest are       *)
(* remembered as long as the generator runs, SegmentComplete is noticed    *)
(* only while it is awaited.                                               *)
AnswerArrives ==
    /\ toSender # <<>>
    /\ toSender' = Tail(toSender)
    /\ LET a == Head(toSender) IN
         IF a.type = "complete"
           THEN IF tx.phase = "awaitingComplete" /\ a.id = tx.id
                  THEN End("complete") ELSE UNCHANGED senderVars
           ELSE IF Listens(a)
                  THEN responses' = Append(responses, a) /\ UNCHANGED <<outcome, tx>>
                  ELSE UNCHANGED senderVars
    /\ UNCHANGED <<toReceiver, faults, receiverVars>>
-----------------------------------------------------------------------------
(* The receiver.                                                           *)

Missing(got) == Bytes \ got
IsComplete(got) == Missing(got) = {}
HasHole(got) == Max(got) > Min(Missing(got))

(* The machine: the state after a segment, given all that was received.    *)
AfterSegment(state, got) ==
    IF state \in {"success", "failure"} THEN state
    ELSE IF IsComplete(got) THEN "success"
    ELSE IF state = "requestMissing" \/ (Size - 1 \in got /\ HasHole(got))
      THEN "requestMissing" ELSE "receive"

AfterTimeout(state) ==
    CASE state = "receive" -> "requestMissing"
      [] state = "requestMissing" -> "failure"
      [] OTHER -> state

(* An answer that is being sent, and the session that waits for that.      *)
Reply(i, answer) == [session |-> i, answer |-> answer]

Moved(session, state, got, timer) ==
    [session EXCEPT !.state = state, !.got = got,
                    !.timer = /\ state \notin {"success", "failure"}
                              /\ timer \/ state = "receive"]

(* Mutant of Advance: a session that failed is kept.                       *)
AdvanceKeeps(i, state, got, timer, moved) ==
    /\ rx' = [rx EXCEPT ![i] = Moved(@, state, got, timer)]
    /\ UNCHANGED sessions
    /\ replies' =
         IF state = "success"
           THEN Append(replies, Reply(i, [type |-> "complete", id |-> rx[i].id]))
         ELSE IF moved /\ state = "requestMissing"
           THEN Append(replies,
                  Reply(i, [type |-> "request", id |-> rx[i].id,
                            s |-> Min(Missing(got)) \div SegmentSize]))
         ELSE replies

(* advanceTransportServiceSession up to the point where it sends an answer: *)
(* moved tells whether the machine made a transition.                      *)
Advance(i, state, got, timer, moved) ==
    /\ rx' = [rx EXCEPT ![i] = Moved(@, state, got, timer)]
    /\ sessions' = IF moved /\ state = "failure"
                     THEN [sessions EXCEPT ![rx[i].id] = 0] ELSE sessions
    /\ replies' =
         IF state = "success"
           THEN Append(replies, Reply(i, [type |-> "complete", id |-> rx[i].id]))
         ELSE IF moved /\ state = "requestMissing"
           THEN Append(replies,
                  Reply(i, [type |-> "request", id |-> rx[i].id,
                            s |-> Min(Missing(got)) \div SegmentSize]))
         ELSE replies

(* Mutant of Expects: the last segment ends the datagram.                  *)
ExpectsLast(parts) == parts[Len(parts)].s # LastSegment

(* TransportServiceCCSubsequentSegment.expectMoreMessages: it marks the    *)
(* bytes up to and including the first one behind each segment.            *)
Expects(parts) ==
    \/ parts[1].s # 0
    \/ \E b \in Bytes : \A i \in DOMAIN parts :
         ~(b \in BytesOf(parts[i].s) \/ (b > 0 /\ b - 1 \in BytesOf(parts[i].s)))

(* Mutant of Assemble: the parts are kept.                                 *)
AssembleAgain(p) ==
    LET parts == Append(partials[p.id], p) IN
    /\ partials' = [partials EXCEPT ![p.id] = parts]
    /\ assembled' = IF p.s = 0 \/ Expects(parts) THEN assembled
                    ELSE Append(assembled, [id |-> p.id,
                                  s |-> {parts[i].s : i \in DOMAIN parts}])

(* assemblePartialCCs: the parts of a session are merged once all bytes    *)
(* are believed to be there.                                               *)
Assemble(p) ==
    LET parts == Append(partials[p.id], p) IN
    IF p.s = 0 \/ Expects(parts)
      THEN partials' = [partials EXCEPT ![p.id] = parts] /\ UNCHANGED assembled
      ELSE /\ partials' = [partials EXCEPT ![p.id] = <<>>]
           /\ assembled' = Append(assembled, [id |-> p.id,
                                    s |-> {parts[i].s : i \in DOMAIN parts}])

(* A first segment replaces all sessions -- but not their timers.          *)
FirstSegmentArrives(p) ==
    /\ p.s = 0
    /\ rx' = Append(rx, [id |-> p.id, state |-> "receive", got |-> BytesOf(0),
                         timer |-> TRUE])
    /\ sessions' = [d \in Datagram |-> IF d = p.id THEN Len(rx) + 1 ELSE 0]
    /\ UNCHANGED replies

SubsequentSegmentArrives(p) ==
    /\ p.s # 0
    /\ LET i == sessions[p.id] IN
         IF i = 0
           THEN /\ replies' = Append(replies, Reply(0, [type |-> "wait"]))
                /\ UNCHANGED <<rx, sessions>>
           ELSE LET got   == rx[i].got \cup BytesOf(p.s)
                    state == AfterSegment(rx[i].state, got)
                IN  Advance(i, state, IF rx[i].state = "success" THEN rx[i].got ELSE got,
                            rx[i].timer, rx[i].state # "success")

SegmentArrives ==
    /\ toReceiver # <<>>
    /\ toReceiver' = Tail(toReceiver)
    /\ LET p == Head(toReceiver) IN
         /\ FirstSegmentArrives(p) \/ SubsequentSegmentArrives(p)
         /\ Assemble(p)
         /\ arrived' = arrived \cup {p}
    /\ UNCHANGED <<senderVars, toSender, faults>>

(* The timer of a session, which may have been replaced.                   *)
MissingSegmentTimeout(i) ==
    /\ rx[i].timer
    /\ Elapses(Quiet /\ tx.phase \in {"idle", "awaitingComplete"})
    /\ Advance(i, AfterTimeout(rx[i].state), rx[i].got, FALSE,
               rx[i].state \in {"receive", "requestMissing"})
    /\ UNCHANGED <<senderVars, toReceiver, toSender, partials, arrived, assembled>>

(* An answer is put on the air.                                            *)
Send(answer) ==
    \/ /\ Len(toSender) < MaxLink
       /\ toSender' = Append(toSender, answer)
       /\ Faults(0)
    \/ UNCHANGED toSender /\ Faults(1)

(* Mutant of ReplySent: the timer only starts when the request was sent.   *)
ReplySentOrForgotten ==
    /\ replies # <<>>
    /\ replies' = Tail(replies)
    /\ Send(Head(replies).answer)
    /\ rx' = IF Head(replies).answer.type = "request" /\ toSender' # toSender
               THEN [rx EXCEPT ![Head(replies).session] = [@ EXCEPT !.timer = TRUE]]
               ELSE rx
    /\ UNCHANGED <<senderVars, toReceiver, sessions, partials, arrived, assembled>>

(* sendCommand returns; the answer was transmitted or not ("catch(noop)"). *)
(* After a request the session's timer is started, whatever happened to    *)
(* the session in the meantime.                                            *)
ReplySent ==
    /\ replies # <<>>
    /\ replies' = Tail(replies)
    /\ Send(Head(replies).answer)
    /\ rx' = IF Head(replies).answer.type = "request"
               THEN [rx EXCEPT ![Head(replies).session] = [@ EXCEPT !.timer = TRUE]]
               ELSE rx
    /\ UNCHANGED <<senderVars, toReceiver, sessions, partials, arrived, assembled>>
-----------------------------------------------------------------------------
Sender == SendSegment \/ SegmentSent \/ SegmentNotAcknowledged \/ CompleteTimeout
          \/ Restart

Next ==
    \/ \E d \in Datagram : Begin(d)
    \/ Sender \/ AnswerArrives
    \/ SegmentArrives \/ ReplySent
    \/ \E i \in DOMAIN rx : MissingSegmentTimeout(i)

Spec == Init /\ [][Next]_vars

(* A session for every first segment that can arrive.                      *)
MaxSessions == 2 * MaxDatagrams * MaxAttempts

(* Continuations run, timers fire and frames that are not lost arrive.     *)
FairSpec ==
    /\ Spec
    /\ WF_vars(Sender) /\ WF_vars(AnswerArrives)
    /\ WF_vars(SegmentArrives) /\ WF_vars(ReplySent)
    /\ \A i \in 1..MaxSessions : WF_vars(i \in DOMAIN rx /\ MissingSegmentTimeout(i))
-----------------------------------------------------------------------------
(* Properties.                                                             *)

(* Type invariant.                                                         *)
TypeOK ==
    /\ outcome \in [Datagram -> Outcome]
    /\ tx = NotSending \/ (tx.phase \in Phases \ {"idle"} /\ tx.id \in Datagram
                           /\ tx.attempt \in 1..2 /\ tx.unsent \in Seq(Segment)
                           /\ (tx.phase = "ready" => tx.unsent # <<>>)
                           /\ tx.sent \in 0..MaxAttempts)
    /\ \A d \in Datagram : outcome[d] = "busy" <=> tx.id = d
    /\ responses \in Seq(Answer) /\ toSender \in Seq(Answer)
    /\ toReceiver \in Seq(Piece) /\ arrived \subseteq Piece
    /\ rx \in Seq([id : Datagram, state : States, got : SUBSET Bytes, timer : BOOLEAN])
    /\ \A d \in Datagram : sessions[d] # 0 => /\ sessions[d] \in DOMAIN rx
                                             /\ rx[sessions[d]].id = d
                                             /\ rx[sessions[d]].state # "failure"
    /\ partials \in [Datagram -> Seq(Piece)]

(* When the sender takes a transmission for complete, every segment of     *)
(* this very datagram reached the receiver: answers that are late or of    *)
(* another session do not end it.                                          *)
CompleteWasReceived ==
    \A d \in Datagram : outcome[d] = "complete" =>
      \A s \in Segment : [id |-> d, s |-> s] \in arrived

(* The sender is told that a datagram is complete only after the receiver  *)
(* has put the command together: "And the ConfigurationCCInfoReport should *)
(* have been assembled correctly" (transportService.test.ts).              *)
AcknowledgedIsAssembled ==
    \A d \in Datagram : outcome[d] = "complete" =>
      \E i \in DOMAIN assembled : assembled[i].id = d

(* "Expect more messages as long as we haven't received everything"        *)
(* (expectMoreMessages): a command that is put together has all its parts. *)
AssembledIsWhole ==
    \A i \in DOMAIN assembled : assembled[i].s = Segment

CountOf(records, d) == Cardinality({i \in DOMAIN records : records[i].id = d})

(* A command is handled at most once per session of its datagram: the last *)
(* segment, repeated because the SegmentComplete was lost or too late,     *)
(* does not make the receiver handle it again.                             *)
AssembledOncePerSession ==
    \A d \in Datagram : CountOf(assembled, d) <= CountOf(rx, d)

Open(i) == i \in DOMAIN rx /\ rx[i].state \in {"receive", "requestMissing"}

(* The sender ends every transmission, with success or without, whatever   *)
(* is lost and however often the receiver requests segments.  Every        *)
(* session of the receiver ends, also those that were replaced and those   *)
(* whose requests cannot be sent.                                          *)
EverythingEnds ==
    /\ \A d \in Datagram : outcome[d] = "busy" ~> outcome[d] # "busy"
    /\ \A i \in 1..MaxSessions : Open(i) ~> ~Open(i)
=============================================================================
