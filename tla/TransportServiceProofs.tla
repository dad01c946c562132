----------------------- MODULE TransportServiceProofs -----------------------
(***************************************************************************)
(* Proofs about TransportService for every size of datagrams and segments  *)
(* and every bound: the type invariant, that a transmission is complete    *)
(* only if the receiver got all of it, under which condition on the sizes  *)
(* a command that is put together is whole, and that a session puts its    *)
(* command together once.                                                  *)
(***************************************************************************)
EXTENDS TransportService, SharedFacts, SequenceTheorems, FiniteSetTheorems, TLAPS

Tx == [phase : Phases \ {"idle"}, id : Datagram, attempt : 1..2,
       unsent : Seq(Segment), s : Segment, retried : BOOLEAN, sent : 0..MaxAttempts]
Response == [type : {"wait"}] \cup [type : {"request"}, id : Datagram, s : Segment]
Session == [id : Datagram, state : States, got : SUBSET Bytes, timer : BOOLEAN]
Replies == [session : Nat, answer : Answer]

Received(d, pieces) == \A s \in Segment : [id |-> d, s |-> s] \in pieces

(* The sender's side.                                                      *)
SenderOK(o, t, r, pieces) ==
    /\ o \in [Datagram -> Outcome]
    /\ t = NotSending \/ (t \in Tx /\ (t.phase = "ready" => t.unsent # <<>>))
    /\ \A d \in Datagram : o[d] = "busy" <=> t.id = d
    /\ \A d \in Datagram : o[d] = "complete" => Received(d, pieces)
    /\ r \in Seq(Response)

(* An answer on its way tells the truth.                                   *)
Truthful(a, pieces) == a.type = "complete" => Received(a.id, pieces)

LinkOK(down, up, n, pieces) ==
    /\ down \in Seq(Piece) /\ up \in Seq(Answer)
    /\ \A i \in DOMAIN up : Truthful(up[i], pieces)
    /\ n \in 0..MaxFaults

(* A session has only what arrived, and is over when it has everything.    *)
SessionOK(x, pieces) ==
    /\ \A b \in x.got : [id |-> x.id, s |-> b \div SegmentSize] \in pieces
    /\ x.state = "success" => x.got = Bytes
    /\ x.state \in {"receive", "requestMissing"} => x.got # Bytes

SessionsOK(x, index, pieces) ==
    /\ x \in Seq(Session)
    /\ \A i \in DOMAIN x : SessionOK(x[i], pieces)
    /\ index \in [Datagram -> Nat]
    /\ \A d \in Datagram : index[d] # 0 => /\ index[d] \in DOMAIN x
                                          /\ x[index[d]].id = d
                                          /\ x[index[d]].state # "failure"

ReplyOK(r, x, pieces) ==
    /\ Truthful(r.answer, pieces)
    /\ r.answer.type = "request" => r.session \in DOMAIN x

RepliesOK(r, x, pieces) ==
    /\ r \in Seq(Replies)
    /\ \A i \in DOMAIN r : ReplyOK(r[i], x, pieces)

IInv ==
    /\ SenderOK(outcome, tx, responses, arrived)
    /\ LinkOK(toReceiver, toSender, faults, arrived)
    /\ SessionsOK(rx, sessions, arrived)
    /\ RepliesOK(replies, rx, arrived)
    /\ partials \in [Datagram -> Seq(Piece)] /\ arrived \subseteq Piece

-----------------------------------------------------------------------------
(* Segments and bytes                                                      *)

LEMMA SizeFacts ==
    /\ SegmentSize \in Nat \ {0} /\ Size \in Nat /\ Size - 1 \in Nat /\ Size # 0
    /\ LastSegment \in Nat /\ 0 \in Segment /\ LastSegment \in Segment
    /\ Bytes \subseteq Nat /\ Segment \subseteq Nat
<1>1. SegmentSize \in Nat \ {0} /\ Size \in Nat /\ Size - 1 \in Nat /\ Size # 0
  BY ConstantsAssumption
<1>2. (Size - 1) \div SegmentSize \in Nat
  BY <1>1, Z3
<1> QED
  BY <1>1, <1>2 DEF LastSegment, Segment, Bytes

(* Every byte is in a segment, and every segment begins with a byte.       *)
LEMMA ByteSegment ==
    ASSUME NEW b \in Bytes
    PROVE  b \div SegmentSize \in Segment
<1>1. b \in Nat /\ b <= Size - 1
  BY SizeFacts DEF Bytes
<1>2. b \div SegmentSize \in Nat /\ b \div SegmentSize <= (Size - 1) \div SegmentSize
  BY <1>1, SizeFacts, SMT
<1> QED
  BY <1>2, SizeFacts DEF Segment, LastSegment

LEMMA SegmentByte ==
    ASSUME NEW s \in Segment
    PROVE  s * SegmentSize \in Bytes /\ (s * SegmentSize) \div SegmentSize = s
<1>1. s \in Nat /\ s <= (Size - 1) \div SegmentSize
  BY SizeFacts DEF Segment, LastSegment
<1>2. s * SegmentSize \in Nat /\ s * SegmentSize <= Size - 1
  BY <1>1, SizeFacts, SMT
<1>3. (s * SegmentSize) \div SegmentSize = s
  BY <1>1, SizeFacts, SMT
<1> QED
  BY <1>2, <1>3, SizeFacts DEF Bytes

(* A session that has all bytes received all segments.                     *)
LEMMA AllBytesReceived ==
    ASSUME NEW x, NEW pieces, SessionOK(x, pieces), x.got = Bytes
    PROVE  Received(x.id, pieces)
<1> SUFFICES ASSUME NEW s \in Segment
             PROVE  [id |-> x.id, s |-> s] \in pieces
  BY DEF Received
<1>1. s * SegmentSize \in x.got /\ (s * SegmentSize) \div SegmentSize = s
  BY SegmentByte
<1> QED
  BY <1>1 DEF SessionOK

(* The first byte that is missing is in a segment.                         *)
LEMMA MissingSegment ==
    ASSUME NEW got \in SUBSET Bytes, got # Bytes
    PROVE  Min(Missing(got)) \div SegmentSize \in Segment
<1>1. Missing(got) \subseteq Bytes /\ Missing(got) # {} /\ Missing(got) \subseteq Nat
  BY SizeFacts DEF Missing
<1>2. Min(Missing(got)) \in Missing(got)
  BY <1>1, LeastNumber DEF Min
<1> QED
  BY <1>1, <1>2, ByteSegment

-----------------------------------------------------------------------------
(* The sender                                                              *)

LEMMA AttemptOK ==
    ASSUME NEW d \in Datagram, NEW n \in 1..2
    PROVE  Attempt(d, n) \in Tx /\ Attempt(d, n).id = d /\ Attempt(d, n).unsent # <<>>
<1>1. AllSegments \in Seq(Segment) /\ AllSegments # <<>>
  <2>1. AllSegments \in [1..(LastSegment + 1) -> Segment]
    BY SizeFacts DEF AllSegments, Segment
  <2>2. LastSegment + 1 \in Nat /\ LastSegment + 1 # 0
    BY SizeFacts
  <2>3. AllSegments \in Seq(Segment)
    BY <2>1, <2>2, SeqDef
  <2>4. DOMAIN AllSegments = 1..(LastSegment + 1) /\ 1 \in 1..(LastSegment + 1)
    BY <2>1, SizeFacts
  <2>5. DOMAIN AllSegments # {}
    BY <2>4
  <2>6. AllSegments # <<>>
    BY <2>5
  <2> QED
    BY <2>3, <2>6
<1>2. 0 \in 0..MaxAttempts /\ "ready" \in Phases \ {"idle"} /\ 0 \in Segment
  BY SizeFacts, ConstantsAssumption DEF Phases
<1> QED
  BY <1>1, <1>2 DEF Attempt, Tx

LEMMA SenderFacts ==
    ASSUME SenderOK(outcome, tx, responses, arrived), tx.phase # "idle"
    PROVE  /\ tx \in Tx /\ (tx.phase = "ready" => tx.unsent # <<>>)
           /\ tx.id \in Datagram
BY DEF SenderOK, NotSending, Tx

LEMMA EndOK ==
    ASSUME SenderOK(outcome, tx, responses, arrived), tx.phase # "idle",
           NEW o \in {"complete", "failed", "exhausted", "rejected"}, End(o),
           o = "complete" => Received(tx.id, arrived)
    PROVE  SenderOK(outcome', tx', responses', arrived)
<1>1. tx.id \in Datagram
  BY SenderFacts
<1>2. outcome' = [outcome EXCEPT ![tx.id] = o] /\ tx' = NotSending /\ responses' = <<>>
  BY DEF End
<1>3. outcome' \in [Datagram -> Outcome]
  BY <1>2 DEF SenderOK, Outcome
<1>4. ASSUME NEW d \in Datagram
      PROVE  /\ outcome'[d] = "busy" <=> tx'.id = d
             /\ outcome'[d] = "complete" => Received(d, arrived)
  <2>1. outcome'[d] = IF d = tx.id THEN o ELSE outcome[d]
    BY <1>1, <1>2 DEF SenderOK
  <2>2. tx'.id = 0 /\ 0 # d
    BY <1>2 DEF NotSending, Datagram
  <2> QED
    BY <2>1, <2>2 DEF SenderOK
<1>5. responses' \in Seq(Response)
  BY <1>2
<1> QED
  BY <1>2, <1>3, <1>4, <1>5 DEF SenderOK

(* The generator goes on with the same datagram.                           *)
LEMMA GoesOn ==
    ASSUME SenderOK(outcome, tx, responses, arrived), tx.phase # "idle",
           UNCHANGED outcome, responses' \in Seq(Response),
           tx' \in Tx, tx'.id = tx.id, tx'.phase = "ready" => tx'.unsent # <<>>
    PROVE  SenderOK(outcome', tx', responses', arrived)
BY DEF SenderOK

LEMMA NextAttemptOK ==
    ASSUME SenderOK(outcome, tx, responses, arrived), tx.phase # "idle", NextAttempt
    PROVE  SenderOK(outcome', tx', responses', arrived)
<1>1. CASE tx.attempt = 1
  <2>1. tx' = Attempt(tx.id, 2) /\ responses' = <<>> /\ UNCHANGED outcome
    BY <1>1 DEF NextAttempt
  <2>2. tx' \in Tx /\ tx'.id = tx.id /\ tx'.unsent # <<>>
    BY <2>1, SenderFacts, AttemptOK
  <2>3. responses' \in Seq(Response)
    BY <2>1
  <2> QED
    BY <2>1, <2>2, <2>3, GoesOn
<1>2. CASE tx.attempt # 1
  BY <1>2, EndOK DEF NextAttempt
<1> QED
  BY <1>1, <1>2

LEMMA ContinueOK ==
    ASSUME SenderOK(outcome, tx, responses, arrived), tx.phase # "idle", Continue
    PROVE  SenderOK(outcome', tx', responses', arrived)
<1>1. tx \in Tx /\ responses \in Seq(Response)
  BY SenderFacts DEF SenderOK
<1>2. tx.unsent \in Seq(Segment) /\ tx.s \in Segment
  BY <1>1 DEF Tx
<1>p. "restarting" \in Phases \ {"idle"} /\ "ready" \in Phases \ {"idle"}
  BY DEF Phases
<1>3. CASE \E i \in DOMAIN responses : responses[i].type = "wait"
  <2>1. tx' = [tx EXCEPT !.phase = "restarting"] /\ UNCHANGED <<outcome, responses>>
    BY <1>3 DEF Continue
  <2>2. tx' \in Tx /\ tx'.id = tx.id /\ tx'.phase # "ready"
    BY <2>1, <1>1, <1>p DEF Tx
  <2> QED
    BY <2>1, <2>2, <1>1, GoesOn
<1>4. CASE /\ ~ \E i \in DOMAIN responses : responses[i].type = "wait"
           /\ responses # <<>>
  <2> DEFINE requested == [i \in DOMAIN responses |-> responses[i].s]
  <2>1. /\ tx' = [tx EXCEPT !.phase = "ready", !.unsent = @ \o requested]
        /\ responses' = <<>> /\ UNCHANGED outcome
    BY <1>4 DEF Continue
  <2>2. requested \in Seq(Segment) /\ requested # <<>>
    <3>1. DOMAIN responses = 1..Len(responses) /\ Len(responses) \in Nat
          /\ Len(responses) # 0
      BY <1>1, <1>4
    <3>2. ASSUME NEW i \in DOMAIN responses PROVE responses[i].s \in Segment
      <4>1. responses[i] \in Response
        BY <1>1
      <4> QED
        BY <4>1, <1>4 DEF Response
    <3>3. requested \in [1..Len(responses) -> Segment]
      BY <3>1, <3>2
    <3>4. requested \in Seq(Segment)
      BY <3>1, <3>3, SeqDef
    <3>5. DOMAIN requested # {}
      BY <3>1
    <3> QED
      BY <3>4, <3>5
  <2> HIDE DEF requested
  <2>3. tx.unsent \o requested \in Seq(Segment) /\ tx.unsent \o requested # <<>>
    BY <1>2, <2>2
  <2>4. tx' \in Tx /\ tx'.id = tx.id /\ tx'.unsent # <<>>
    BY <2>1, <2>3, <1>1, <1>p DEF Tx
  <2>5. responses' \in Seq(Response)
    BY <2>1
  <2> QED
    BY <2>1, <2>4, <2>5, GoesOn
<1>5. CASE responses = <<>> /\ tx.s = LastSegment /\ tx.retried
  <2>1. End("failed")
    BY <1>5 DEF Continue
  <2> QED
    BY <2>1, EndOK
<1>6. CASE responses = <<>> /\ tx.s = LastSegment /\ ~tx.retried
  <2>1. /\ tx' = [tx EXCEPT !.phase = "ready", !.retried = TRUE, !.unsent = <<tx.s>> \o @]
        /\ UNCHANGED <<outcome, responses>>
    BY <1>6 DEF Continue
  <2>2. <<tx.s>> \o tx.unsent \in Seq(Segment) /\ <<tx.s>> \o tx.unsent # <<>>
    BY <1>2
  <2>3. tx' \in Tx /\ tx'.id = tx.id /\ tx'.unsent # <<>>
    BY <2>1, <2>2, <1>1, <1>p DEF Tx
  <2> QED
    BY <2>1, <2>3, <1>1, GoesOn
<1>7. CASE responses = <<>> /\ tx.s # LastSegment /\ tx.unsent # <<>>
  <2>1. tx' = [tx EXCEPT !.phase = "ready"] /\ UNCHANGED <<outcome, responses>>
    BY <1>7 DEF Continue
  <2>2. tx' \in Tx /\ tx'.id = tx.id /\ tx'.unsent # <<>>
    BY <2>1, <1>7, <1>1, <1>p DEF Tx
  <2> QED
    BY <2>1, <2>2, <1>1, GoesOn
<1>8. CASE responses = <<>> /\ tx.s # LastSegment /\ tx.unsent = <<>>
  BY <1>8, NextAttemptOK DEF Continue
<1> QED
  BY <1>3, <1>4, <1>5, <1>6, <1>7, <1>8

LEMMA FaultsOK ==
    ASSUME faults \in 0..MaxFaults, NEW n \in Nat, Faults(n)
    PROVE  faults' \in 0..MaxFaults
BY ConstantsAssumption DEF Faults

LEMMA TransmitOK ==
    ASSUME LinkOK(toReceiver, toSender, faults, arrived),
           NEW piece \in Piece, NEW n \in Nat, Transmit(piece, n),
           UNCHANGED <<toSender, arrived>>
    PROVE  LinkOK(toReceiver', toSender', faults', arrived')
<1>1. toReceiver' \in Seq(Piece)
  BY DEF Transmit, LinkOK
<1>2. faults' \in 0..MaxFaults
  <2>1. faults \in 0..MaxFaults /\ n + 1 \in Nat
    BY DEF LinkOK
  <2>2. CASE Faults(n)
    BY <2>1, <2>2, FaultsOK
  <2>3. CASE Faults(n + 1)
    BY <2>1, <2>3, FaultsOK
  <2> QED
    BY <2>2, <2>3 DEF Transmit
<1> QED
  BY <1>1, <1>2 DEF LinkOK

(* What is left when only the sender and the link have changed.            *)
LEMMA ReceiverKept ==
    ASSUME IInv, UNCHANGED receiverVars,
           SenderOK(outcome', tx', responses', arrived),
           LinkOK(toReceiver', toSender', faults', arrived')
    PROVE  IInv' /\ UNCHANGED assembled
BY DEF IInv, receiverVars

LEMMA BeginKeeps ==
    ASSUME IInv, NEW d \in Datagram, Begin(d)
    PROVE  IInv' /\ UNCHANGED <<assembled, partials>>
<1>1. /\ outcome' = [outcome EXCEPT ![d] = "busy"] /\ tx' = Attempt(d, 1)
      /\ responses' = <<>> /\ tx.phase = "idle" /\ outcome[d] = "none"
      /\ UNCHANGED <<toReceiver, toSender, faults, receiverVars>>
  BY DEF Begin
<1>2. tx' \in Tx /\ tx'.id = d /\ tx'.unsent # <<>>
  BY <1>1, AttemptOK
<1>3. outcome' \in [Datagram -> Outcome] /\ responses' \in Seq(Response)
  BY <1>1 DEF IInv, SenderOK, Outcome
<1>4. ASSUME NEW e \in Datagram
      PROVE  /\ outcome'[e] = "busy" <=> tx'.id = e
             /\ outcome'[e] = "complete" => Received(e, arrived)
  <2>1. outcome'[e] = IF e = d THEN "busy" ELSE outcome[e]
    BY <1>1 DEF IInv, SenderOK
  <2>2. tx = NotSending
    BY <1>1 DEF IInv, SenderOK, Tx
  <2>3. outcome[e] # "busy"
    BY <2>2 DEF IInv, SenderOK, NotSending, Datagram
  <2> QED
    BY <2>1, <2>3, <1>2 DEF IInv, SenderOK
<1>5. SenderOK(outcome', tx', responses', arrived)
  BY <1>2, <1>3, <1>4 DEF SenderOK
<1>6. LinkOK(toReceiver', toSender', faults', arrived')
  BY <1>1 DEF IInv, receiverVars, LinkOK
<1> QED
  BY <1>1, <1>5, <1>6, ReceiverKept DEF receiverVars

LEMMA SendSegmentKeeps ==
    ASSUME IInv, SendSegment
    PROVE  IInv' /\ UNCHANGED <<assembled, partials>>
<1>1. /\ tx.phase = "ready"
      /\ Transmit([id |-> tx.id, s |-> Head(tx.unsent)], 0)
      /\ tx' = [tx EXCEPT !.phase = "sending", !.s = Head(tx.unsent),
                          !.unsent = Tail(tx.unsent), !.sent = 1]
      /\ UNCHANGED <<outcome, responses, toSender, receiverVars>>
  BY DEF SendSegment
<1>2. SenderOK(outcome, tx, responses, arrived)
  BY DEF IInv
<1>3. tx \in Tx /\ tx.unsent # <<>> /\ tx.id \in Datagram
  BY <1>1, <1>2, SenderFacts
<1>4. Head(tx.unsent) \in Segment /\ Tail(tx.unsent) \in Seq(Segment)
  BY <1>3 DEF Tx
<1>5. LinkOK(toReceiver', toSender', faults', arrived')
  <2>1. [id |-> tx.id, s |-> Head(tx.unsent)] \in Piece
    BY <1>3, <1>4 DEF Piece
  <2> QED
    BY <2>1, <1>1, TransmitOK DEF IInv, receiverVars
<1>6. SenderOK(outcome', tx', responses', arrived)
  <2>1. 1 \in 0..MaxAttempts /\ "sending" \in Phases \ {"idle"}
    BY ConstantsAssumption DEF Phases
  <2>2. tx' \in Tx /\ tx'.id = tx.id /\ tx'.phase # "ready"
    BY <2>1, <1>1, <1>3, <1>4 DEF Tx
  <2>3. responses' \in Seq(Response)
    BY <1>1, <1>2 DEF SenderOK
  <2> QED
    BY <2>2, <2>3, <1>1, <1>2, GoesOn
<1> QED
  BY <1>1, <1>5, <1>6, ReceiverKept DEF receiverVars

LEMMA SegmentSentKeeps ==
    ASSUME IInv, SegmentSent
    PROVE  IInv' /\ UNCHANGED <<assembled, partials>>
<1>1. /\ tx.phase = "sending"
      /\ UNCHANGED <<toReceiver, toSender, faults, receiverVars>>
  BY DEF SegmentSent
<1>2. SenderOK(outcome, tx, responses, arrived)
  BY DEF IInv
<1>3. SenderOK(outcome', tx', responses', arrived)
  <2>1. CASE tx.s = LastSegment
    <3>1. tx' = [tx EXCEPT !.phase = "awaitingComplete"] /\ UNCHANGED <<outcome, responses>>
      BY <2>1 DEF SegmentSent
    <3>2. tx \in Tx /\ "awaitingComplete" \in Phases \ {"idle"}
      BY <1>1, <1>2, SenderFacts DEF Phases
    <3>3. tx' \in Tx /\ tx'.id = tx.id /\ tx'.phase # "ready"
      BY <3>1, <3>2 DEF Tx
    <3>4. responses' \in Seq(Response)
      BY <3>1, <1>2 DEF SenderOK
    <3> QED
      BY <3>1, <3>3, <3>4, <1>1, <1>2, GoesOn
  <2>2. CASE tx.s # LastSegment
    BY <2>2, <1>1, <1>2, ContinueOK DEF SegmentSent
  <2> QED
    BY <2>1, <2>2
<1>4. LinkOK(toReceiver', toSender', faults', arrived')
  BY <1>1 DEF IInv, receiverVars
<1> QED
  BY <1>1, <1>3, <1>4, ReceiverKept DEF receiverVars

LEMMA SegmentNotAcknowledgedKeeps ==
    ASSUME IInv, SegmentNotAcknowledged
    PROVE  IInv' /\ UNCHANGED <<assembled, partials>>
<1>1. tx.phase = "sending" /\ UNCHANGED <<toSender, receiverVars>>
  BY DEF SegmentNotAcknowledged
<1>2. SenderOK(outcome, tx, responses, arrived) /\ LinkOK(toReceiver, toSender, faults, arrived)
  BY DEF IInv
<1>3. tx \in Tx /\ tx.id \in Datagram
  BY <1>1, <1>2, SenderFacts
<1>4. CASE tx.sent < MaxAttempts
  <2>1. /\ Transmit([id |-> tx.id, s |-> tx.s], 1)
        /\ tx' = [tx EXCEPT !.sent = @ + 1] /\ UNCHANGED <<outcome, responses>>
    BY <1>4 DEF SegmentNotAcknowledged
  <2>2. [id |-> tx.id, s |-> tx.s] \in Piece
    BY <1>3 DEF Piece, Tx
  <2>3. LinkOK(toReceiver', toSender', faults', arrived')
    BY <2>1, <2>2, <1>1, <1>2, TransmitOK DEF receiverVars
  <2>4. tx.sent + 1 \in 0..MaxAttempts
    BY <1>3, <1>4, ConstantsAssumption DEF Tx
  <2>5. tx' \in Tx /\ tx'.id = tx.id /\ tx'.phase # "ready"
    BY <2>1, <2>4, <1>1, <1>3 DEF Tx
  <2>6. responses' \in Seq(Response)
    BY <2>1, <1>2 DEF SenderOK
  <2>7. SenderOK(outcome', tx', responses', arrived)
    BY <2>1, <2>5, <2>6, <1>1, <1>2, GoesOn
  <2> QED
    BY <2>3, <2>7, <1>1, ReceiverKept DEF receiverVars
<1>5. CASE ~(tx.sent < MaxAttempts)
  <2>1. End("rejected") /\ Faults(1) /\ UNCHANGED toReceiver
    BY <1>5 DEF SegmentNotAcknowledged
  <2>2. SenderOK(outcome', tx', responses', arrived)
    BY <2>1, <1>1, <1>2, EndOK
  <2>3. faults' \in 0..MaxFaults
    BY <2>1, <1>2, FaultsOK DEF LinkOK
  <2>4. LinkOK(toReceiver', toSender', faults', arrived')
    BY <2>1, <2>3, <1>1, <1>2 DEF LinkOK, receiverVars
  <2> QED
    BY <2>2, <2>4, <1>1, ReceiverKept DEF receiverVars
<1> QED
  BY <1>4, <1>5

LEMMA ElapsesOK ==
    ASSUME LinkOK(toReceiver, toSender, faults, arrived), NEW due, Elapses(due),
           UNCHANGED <<toReceiver, toSender, arrived>>
    PROVE  LinkOK(toReceiver', toSender', faults', arrived')
<1>1. faults' \in 0..MaxFaults
  BY FaultsOK DEF LinkOK, Elapses
<1> QED
  BY <1>1 DEF LinkOK

LEMMA CompleteTimeoutKeeps ==
    ASSUME IInv, CompleteTimeout
    PROVE  IInv' /\ UNCHANGED <<assembled, partials>>
<1>1. /\ tx.phase = "awaitingComplete" /\ Continue
      /\ Elapses(Quiet /\ \A i \in DOMAIN rx : ~rx[i].timer)
      /\ UNCHANGED <<toReceiver, toSender, receiverVars>>
  BY DEF CompleteTimeout
<1>2. LinkOK(toReceiver', toSender', faults', arrived')
  BY <1>1, ElapsesOK DEF IInv, receiverVars
<1>3. SenderOK(outcome', tx', responses', arrived)
  BY <1>1, ContinueOK DEF IInv
<1> QED
  BY <1>1, <1>2, <1>3, ReceiverKept DEF receiverVars

LEMMA RestartKeeps ==
    ASSUME IInv, Restart
    PROVE  IInv' /\ UNCHANGED <<assembled, partials>>
<1>1. /\ tx.phase = "restarting" /\ NextAttempt
      /\ UNCHANGED <<toReceiver, toSender, faults, receiverVars>>
  BY DEF Restart
<1>2. LinkOK(toReceiver', toSender', faults', arrived')
  BY <1>1 DEF IInv, receiverVars
<1>3. SenderOK(outcome', tx', responses', arrived)
  BY <1>1, NextAttemptOK DEF IInv
<1> QED
  BY <1>1, <1>2, <1>3, ReceiverKept DEF receiverVars

LEMMA AnswerArrivesKeeps ==
    ASSUME IInv, AnswerArrives
    PROVE  IInv' /\ UNCHANGED <<assembled, partials>>
<1> DEFINE a == Head(toSender)
<1>1. /\ toSender # <<>> /\ toSender' = Tail(toSender)
      /\ UNCHANGED <<toReceiver, faults, receiverVars>>
  BY DEF AnswerArrives
<1>2. SenderOK(outcome, tx, responses, arrived) /\ LinkOK(toReceiver, toSender, faults, arrived)
  BY DEF IInv
<1>3. a = toSender[1] /\ 1 \in DOMAIN toSender /\ toSender[1] \in Answer
  BY <1>1, <1>2 DEF LinkOK
<1>4. a \in Answer /\ Truthful(a, arrived)
  BY <1>2, <1>3 DEF LinkOK
<1>5. LinkOK(toReceiver', toSender', faults', arrived')
  <2>1. Tail(toSender) \in Seq(Answer)
    BY <1>1, <1>2 DEF LinkOK
  <2>2. ASSUME NEW i \in DOMAIN Tail(toSender) PROVE Truthful(Tail(toSender)[i], arrived)
    <3>1. Tail(toSender)[i] = toSender[i + 1] /\ i + 1 \in DOMAIN toSender
      BY <1>1, <1>2 DEF LinkOK
    <3> QED
      BY <3>1, <1>2 DEF LinkOK
  <2> QED
    BY <2>1, <2>2, <1>1, <1>2 DEF LinkOK, receiverVars
<1>6. SenderOK(outcome', tx', responses', arrived)
  <2>1. CASE a.type = "complete" /\ tx.phase = "awaitingComplete" /\ a.id = tx.id
    <3>1. End("complete")
      BY <2>1 DEF AnswerArrives
    <3>2. Received(tx.id, arrived)
      BY <2>1, <1>4 DEF Truthful
    <3> QED
      BY <3>1, <3>2, <2>1, <1>2, EndOK
  <2>2. CASE a.type # "complete" /\ Listens(a)
    <3>1. responses' = Append(responses, a) /\ UNCHANGED <<outcome, tx>>
      BY <2>2 DEF AnswerArrives
    <3>2. a \in Response
      BY <2>2, <1>4 DEF Answer, Response
    <3>3. responses' \in Seq(Response)
      BY <3>1, <3>2, <1>2 DEF SenderOK
    <3> QED
      BY <3>1, <3>3, <1>2 DEF SenderOK
  <2>3. CASE UNCHANGED senderVars
    BY <2>3, <1>2 DEF senderVars
  <2> QED
    BY <2>1, <2>2, <2>3 DEF AnswerArrives
<1> QED
  BY <1>1, <1>5, <1>6, ReceiverKept DEF receiverVars

-----------------------------------------------------------------------------
(* The receiver                                                            *)

(* What was true of the segments that arrived stays true of more of them.  *)
LEMMA MoreArrives ==
    ASSUME IInv, NEW more, arrived \subseteq more
    PROVE  /\ SenderOK(outcome, tx, responses, more)
           /\ LinkOK(toReceiver, toSender, faults, more)
           /\ SessionsOK(rx, sessions, more)
           /\ RepliesOK(replies, rx, more)
<1>1. \A d : Received(d, arrived) => Received(d, more)
  BY DEF Received
<1>2. \A a : Truthful(a, arrived) => Truthful(a, more)
  BY <1>1 DEF Truthful
<1>3. \A x : SessionOK(x, arrived) => SessionOK(x, more)
  BY DEF SessionOK
<1>4. SenderOK(outcome, tx, responses, more)
  BY <1>1 DEF IInv, SenderOK
<1>5. LinkOK(toReceiver, toSender, faults, more)
  BY <1>2 DEF IInv, LinkOK
<1>6. SessionsOK(rx, sessions, more)
  BY <1>3 DEF IInv, SessionsOK
<1>7. RepliesOK(replies, rx, more)
  <2>1. \A r : ReplyOK(r, rx, arrived) => ReplyOK(r, rx, more)
    BY <1>2 DEF ReplyOK
  <2> QED
    BY <2>1 DEF IInv, RepliesOK
<1> QED
  BY <1>4, <1>5, <1>6, <1>7

(* Another answer is queued; sessions are not forgotten.                   *)
LEMMA AppendReply ==
    ASSUME NEW pieces, NEW x, NEW y, DOMAIN x \subseteq DOMAIN y,
           RepliesOK(replies, x, pieces),
           NEW i \in Nat, NEW answer \in Answer, Truthful(answer, pieces),
           answer.type = "request" => i \in DOMAIN y
    PROVE  RepliesOK(Append(replies, Reply(i, answer)), y, pieces)
<1> DEFINE r == Reply(i, answer)
           rs == Append(replies, r)
<1>1. r \in Replies /\ r.session = i /\ r.answer = answer
  BY DEF Reply, Replies
<1> HIDE DEF r
<1>o. ReplyOK(r, y, pieces)
  BY <1>1 DEF ReplyOK
<1>m. \A q : ReplyOK(q, x, pieces) => ReplyOK(q, y, pieces)
  BY DEF ReplyOK
<1>2. replies \in Seq(Replies)
  BY DEF RepliesOK
<1>3. rs \in Seq(Replies)
  BY <1>1, <1>2
<1>4. ASSUME NEW j \in DOMAIN rs PROVE ReplyOK(rs[j], y, pieces)
  <2>1. (j \in DOMAIN replies /\ rs[j] = replies[j]) \/ rs[j] = r
    BY <1>1, <1>2
  <2> QED
    BY <2>1, <1>o, <1>m DEF RepliesOK
<1> QED
  BY <1>3, <1>4 DEF RepliesOK, r

LEMMA AdvanceOK ==
    ASSUME NEW pieces, SessionsOK(rx, sessions, pieces), RepliesOK(replies, rx, pieces),
           NEW i \in DOMAIN rx, NEW state \in States, NEW got \in SUBSET Bytes,
           NEW timer, NEW moved \in BOOLEAN,
           \A b \in got : [id |-> rx[i].id, s |-> b \div SegmentSize] \in pieces,
           state = "success" => got = Bytes,
           state \in {"receive", "requestMissing"} => got # Bytes,
           state = "failure" => moved \/ rx[i].state = "failure",
           Advance(i, state, got, timer, moved)
    PROVE  SessionsOK(rx', sessions', pieces) /\ RepliesOK(replies', rx', pieces)
<1> DEFINE x == Moved(rx[i], state, got, timer)
<1>1. rx \in Seq(Session) /\ rx[i] \in Session /\ i \in Nat
  BY DEF SessionsOK
<1>2. x \in Session /\ x.id = rx[i].id /\ x.state = state /\ x.got = got
  <2>1. (/\ state \notin {"success", "failure"}
         /\ timer \/ state = "receive") \in BOOLEAN
    BY Zenon
  <2> QED
    BY <2>1, <1>1 DEF Moved, Session
<1>3. rx' = [rx EXCEPT ![i] = x]
  BY DEF Advance
<1> HIDE DEF x
<1>4. rx' \in Seq(Session) /\ DOMAIN rx' = DOMAIN rx
  BY <1>1, <1>2, <1>3
<1>5. \A j \in DOMAIN rx : rx'[j] = IF j = i THEN x ELSE rx[j]
  BY <1>3
<1>6. SessionOK(x, pieces)
  BY <1>2 DEF SessionOK
<1>7. \A j \in DOMAIN rx' : SessionOK(rx'[j], pieces)
  BY <1>4, <1>5, <1>6 DEF SessionsOK
<1>8. sessions' \in [Datagram -> Nat]
  BY DEF Advance, SessionsOK
<1>9. ASSUME NEW d \in Datagram, sessions'[d] # 0
      PROVE  /\ sessions'[d] \in DOMAIN rx' /\ rx'[sessions'[d]].id = d
             /\ rx'[sessions'[d]].state # "failure"
  <2>1. sessions'[d] = sessions[d] /\ (moved /\ state = "failure" => d # rx[i].id)
    <3>1. CASE moved /\ state = "failure"
      <4>1. sessions' = [sessions EXCEPT ![rx[i].id] = 0]
        BY <3>1 DEF Advance
      <4>2. sessions'[d] = IF d = rx[i].id THEN 0 ELSE sessions[d]
        BY <4>1 DEF SessionsOK
      <4> QED
        BY <4>2, <1>9
    <3>2. CASE ~(moved /\ state = "failure")
      BY <3>2 DEF Advance
    <3> QED
      BY <3>1, <3>2
  <2>2. /\ sessions[d] \in DOMAIN rx /\ rx[sessions[d]].id = d
        /\ rx[sessions[d]].state # "failure"
    BY <2>1, <1>9 DEF SessionsOK
  <2> QED
    BY <2>1, <2>2, <1>2, <1>4, <1>5
<1>10. SessionsOK(rx', sessions', pieces)
  BY <1>4, <1>7, <1>8, <1>9 DEF SessionsOK
<1>11. RepliesOK(replies', rx', pieces)
  <2>1. CASE state = "success"
    <3> DEFINE answer == [type |-> "complete", id |-> rx[i].id]
    <3>1. replies' = Append(replies, Reply(i, answer))
      BY <2>1 DEF Advance
    <3>2. answer \in Answer /\ answer.type = "complete" /\ answer.id = x.id
      BY <1>1, <1>2 DEF Answer, Session
    <3>3. Received(x.id, pieces)
      BY <2>1, <1>2, <1>6, AllBytesReceived
    <3> HIDE DEF answer
    <3>4. Truthful(answer, pieces)
      BY <3>2, <3>3 DEF Truthful
    <3> QED
      BY <3>1, <3>2, <3>4, <1>1, <1>4, AppendReply
  <2>2. CASE moved /\ state = "requestMissing"
    <3> DEFINE answer == [type |-> "request", id |-> rx[i].id,
                          s |-> Min(Missing(got)) \div SegmentSize]
    <3>1. replies' = Append(replies, Reply(i, answer))
      BY <2>2 DEF Advance
    <3>2. Min(Missing(got)) \div SegmentSize \in Segment
      BY <2>2, MissingSegment
    <3>3. answer \in Answer /\ answer.type = "request"
      BY <3>2, <1>1 DEF Answer, Session
    <3> HIDE DEF answer
    <3>4. Truthful(answer, pieces)
      BY <3>3 DEF Truthful
    <3> QED
      BY <3>1, <3>3, <3>4, <1>1, <1>4, AppendReply
  <2>3. CASE state # "success" /\ ~(moved /\ state = "requestMissing")
    <3>1. replies' = replies
      BY <2>3 DEF Advance
    <3>2. \A r : ReplyOK(r, rx, pieces) => ReplyOK(r, rx', pieces)
      BY <1>4 DEF ReplyOK
    <3> QED
      BY <3>1, <3>2 DEF RepliesOK
  <2> QED
    BY <2>1, <2>2, <2>3
<1> QED
  BY <1>10, <1>11

(* A first segment does not complete a datagram: Size > SegmentSize.       *)
LEMMA FirstIsNotAll ==
    BytesOf(0) \in SUBSET Bytes /\ BytesOf(0) # Bytes
<1>1. SegmentSize \in Nat /\ Size \in Nat /\ SegmentSize \in Bytes
  BY SizeFacts, ConstantsAssumption DEF Bytes
<1>2. SegmentSize \div SegmentSize # 0
  BY <1>1, SizeFacts, SMT
<1> QED
  BY <1>1, <1>2 DEF BytesOf

LEMMA FirstSegmentOK ==
    ASSUME NEW pieces, SessionsOK(rx, sessions, pieces), RepliesOK(replies, rx, pieces),
           NEW p \in pieces, p \in Piece, FirstSegmentArrives(p)
    PROVE  SessionsOK(rx', sessions', pieces) /\ RepliesOK(replies', rx', pieces)
<1> DEFINE x == [id |-> p.id, state |-> "receive", got |-> BytesOf(0), timer |-> TRUE]
<1>1. /\ p.s = 0 /\ rx' = Append(rx, x) /\ UNCHANGED replies
      /\ sessions' = [d \in Datagram |-> IF d = p.id THEN Len(rx) + 1 ELSE 0]
  BY DEF FirstSegmentArrives
<1>2. /\ x \in Session /\ x.id = p.id /\ x.state = "receive" /\ x.got = BytesOf(0)
      /\ x.id \in Datagram
  BY FirstIsNotAll DEF Session, States, Piece
<1> HIDE DEF x
<1>3. SessionOK(x, pieces)
  <2>1. ASSUME NEW b \in BytesOf(0) PROVE [id |-> p.id, s |-> b \div SegmentSize] \in pieces
    <3>1. b \div SegmentSize = 0
      BY DEF BytesOf
    <3>2. p = [id |-> p.id, s |-> 0]
      BY <1>1 DEF Piece
    <3> QED
      BY <3>1, <3>2
  <2> QED
    BY <2>1, <1>2, FirstIsNotAll DEF SessionOK
<1>4. rx \in Seq(Session) /\ Len(rx) \in Nat
  BY DEF SessionsOK
<1>5. /\ rx' \in Seq(Session) /\ DOMAIN rx \subseteq DOMAIN rx'
      /\ Len(rx) + 1 \in DOMAIN rx' /\ rx'[Len(rx) + 1] = x
      /\ \A i \in DOMAIN rx' : (i \in DOMAIN rx /\ rx'[i] = rx[i]) \/ rx'[i] = x
  BY <1>1, <1>2, <1>4
<1>6. \A i \in DOMAIN rx' : SessionOK(rx'[i], pieces)
  BY <1>3, <1>5 DEF SessionsOK
<1>7. sessions' \in [Datagram -> Nat]
  BY <1>1, <1>4
<1>8. ASSUME NEW d \in Datagram, sessions'[d] # 0
      PROVE  /\ sessions'[d] \in DOMAIN rx' /\ rx'[sessions'[d]].id = d
             /\ rx'[sessions'[d]].state # "failure"
  BY <1>8, <1>1, <1>2, <1>5
<1>9. SessionsOK(rx', sessions', pieces)
  BY <1>5, <1>6, <1>7, <1>8 DEF SessionsOK
<1>10. RepliesOK(replies', rx', pieces)
  <2>1. \A r : ReplyOK(r, rx, pieces) => ReplyOK(r, rx', pieces)
    BY <1>5 DEF ReplyOK
  <2> QED
    BY <2>1, <1>1 DEF RepliesOK
<1> QED
  BY <1>9, <1>10

LEMMA AfterSegmentOK ==
    ASSUME NEW state \in States \ {"failure"}, NEW got \in SUBSET Bytes
    PROVE  /\ AfterSegment(state, got) \in States \ {"failure"}
           /\ AfterSegment(state, got) = "success" => state = "success" \/ got = Bytes
           /\ AfterSegment(state, got) # "success" => got # Bytes
<1>1. IsComplete(got) <=> got = Bytes
  BY DEF IsComplete, Missing
<1>2. CASE state = "success" /\ got = Bytes
  BY <1>2 DEF AfterSegment, States
<1>3. CASE state # "success" /\ got = Bytes
  <2>0. state \notin {"success", "failure"} /\ IsComplete(got)
    BY <1>1, <1>3
  <2>1. AfterSegment(state, got) = "success"
    BY <2>0 DEF AfterSegment
  <2> QED
    BY <2>1, <1>3 DEF States
<1>5. CASE state = "success" /\ got # Bytes
  <2>1. AfterSegment(state, got) = "success"
    BY <1>5 DEF AfterSegment
  <2> QED
    BY <2>1, <1>5 DEF States
<1>4. CASE state # "success" /\ got # Bytes
  <2>1. /\ state \notin {"success", "failure"} /\ ~IsComplete(got)
    BY <1>1, <1>4
  <2>2. AfterSegment(state, got) \in {"receive", "requestMissing"}
    BY <2>1 DEF AfterSegment
  <2> QED
    BY <2>2, <1>4 DEF States
<1> QED
  BY <1>2, <1>3, <1>4, <1>5

LEMMA SubsequentSegmentOK ==
    ASSUME NEW pieces, SessionsOK(rx, sessions, pieces), RepliesOK(replies, rx, pieces),
           NEW p \in pieces, p \in Piece, SubsequentSegmentArrives(p)
    PROVE  SessionsOK(rx', sessions', pieces) /\ RepliesOK(replies', rx', pieces)
<1> DEFINE i == sessions[p.id]
<1>1. p.id \in Datagram /\ p.s \in Segment /\ p = [id |-> p.id, s |-> p.s]
  BY DEF Piece
<1>2. CASE i = 0
  <2> DEFINE answer == [type |-> "wait"]
  <2>1. replies' = Append(replies, Reply(0, answer)) /\ UNCHANGED <<rx, sessions>>
    BY <1>2 DEF SubsequentSegmentArrives
  <2>2. answer \in Answer /\ answer.type = "wait"
    BY DEF Answer
  <2> HIDE DEF answer
  <2>3. Truthful(answer, pieces)
    BY <2>2 DEF Truthful
  <2>4. RepliesOK(replies', rx', pieces)
    BY <2>1, <2>2, <2>3, AppendReply
  <2> QED
    BY <2>1, <2>4
<1>3. CASE i # 0
  <2> DEFINE got == rx[i].got \cup BytesOf(p.s)
             state == AfterSegment(rx[i].state, got)
             kept == IF rx[i].state = "success" THEN rx[i].got ELSE got
  <2>1. /\ i \in DOMAIN rx /\ rx[i] \in Session /\ rx[i].id = p.id
        /\ rx[i].state \in States \ {"failure"} /\ SessionOK(rx[i], pieces)
    <3>1. i \in DOMAIN rx /\ rx[i].id = p.id /\ rx[i].state # "failure"
      BY <1>1, <1>3 DEF SessionsOK
    <3>2. rx[i] \in Session /\ SessionOK(rx[i], pieces)
      BY <3>1 DEF SessionsOK
    <3>3. rx[i].state \in States
      BY <3>2 DEF Session
    <3> QED
      BY <3>1, <3>2, <3>3
  <2>2. Advance(i, state, kept, rx[i].timer, rx[i].state # "success")
    BY <1>3 DEF SubsequentSegmentArrives
  <2>3. got \in SUBSET Bytes /\ rx[i].got \in SUBSET Bytes
    BY <2>1 DEF Session, BytesOf
  <2>4. ASSUME NEW b \in got PROVE [id |-> rx[i].id, s |-> b \div SegmentSize] \in pieces
    <3>1. CASE b \in rx[i].got
      BY <3>1, <2>1 DEF SessionOK
    <3>2. CASE b \in BytesOf(p.s)
      BY <3>2, <2>1, <1>1 DEF BytesOf
    <3> QED
      BY <3>1, <3>2
  <2>5. rx[i].got \subseteq got
    OBVIOUS
  <2> HIDE DEF got
  <2>6. /\ state \in States \ {"failure"}
        /\ state = "success" => rx[i].state = "success" \/ got = Bytes
        /\ state # "success" => got # Bytes
    BY <2>1, <2>3, AfterSegmentOK
  <2>7. rx[i].state = "success" => rx[i].got = Bytes
    BY <2>1 DEF SessionOK
  <2>8. rx[i].state = "success" => state = "success"
    BY DEF AfterSegment
  <2> HIDE DEF state
  <2>9. /\ kept \in SUBSET Bytes
        /\ \A b \in kept : [id |-> rx[i].id, s |-> b \div SegmentSize] \in pieces
        /\ state = "success" => kept = Bytes
        /\ state \in {"receive", "requestMissing"} => kept # Bytes
    BY <2>3, <2>4, <2>5, <2>6, <2>7, <2>8
  <2> HIDE DEF kept, i
  <2> QED
    BY <2>1, <2>2, <2>6, <2>9, AdvanceOK
<1> QED
  BY <1>2, <1>3

LEMMA SegmentArrivesKeeps ==
    ASSUME IInv, SegmentArrives
    PROVE  IInv'
<1> DEFINE p == Head(toReceiver)
<1>1. /\ toReceiver # <<>> /\ toReceiver' = Tail(toReceiver)
      /\ FirstSegmentArrives(p) \/ SubsequentSegmentArrives(p)
      /\ Assemble(p) /\ arrived' = arrived \cup {p}
      /\ UNCHANGED <<senderVars, toSender, faults>>
  BY DEF SegmentArrives
<1>2. p \in Piece /\ Tail(toReceiver) \in Seq(Piece)
  BY <1>1 DEF IInv, LinkOK
<1> HIDE DEF p
<1>3. p \in arrived' /\ arrived \subseteq arrived'
  BY <1>1
<1>4. /\ SenderOK(outcome, tx, responses, arrived')
      /\ LinkOK(toReceiver, toSender, faults, arrived')
      /\ SessionsOK(rx, sessions, arrived') /\ RepliesOK(replies, rx, arrived')
  BY <1>3, MoreArrives
<1>5. SessionsOK(rx', sessions', arrived') /\ RepliesOK(replies', rx', arrived')
  BY <1>1, <1>2, <1>3, <1>4, FirstSegmentOK, SubsequentSegmentOK
<1>6. SenderOK(outcome', tx', responses', arrived')
  BY <1>1, <1>4 DEF senderVars
<1>7. LinkOK(toReceiver', toSender', faults', arrived')
  BY <1>1, <1>2, <1>4 DEF LinkOK
<1>8. partials' \in [Datagram -> Seq(Piece)] /\ p.id \in Datagram
  <2>1. partials \in [Datagram -> Seq(Piece)]
    BY DEF IInv
  <2>2. p.id \in Datagram
    BY <1>2 DEF Piece
  <2>3. Append(partials[p.id], p) \in Seq(Piece) /\ <<>> \in Seq(Piece)
    BY <2>1, <2>2, <1>2
  <2>4. \/ partials' = [partials EXCEPT ![p.id] = Append(partials[p.id], p)]
        \/ partials' = [partials EXCEPT ![p.id] = <<>>]
    BY <1>1 DEF Assemble
  <2> QED
    BY <2>1, <2>2, <2>3, <2>4
<1>9. arrived' \subseteq Piece
  BY <1>1, <1>2 DEF IInv
<1> QED
  BY <1>5, <1>6, <1>7, <1>8, <1>9 DEF IInv

LEMMA MissingSegmentTimeoutKeeps ==
    ASSUME IInv, NEW i \in DOMAIN rx, MissingSegmentTimeout(i)
    PROVE  IInv' /\ UNCHANGED <<assembled, partials>>
<1> DEFINE state == AfterTimeout(rx[i].state)
           moved == rx[i].state \in {"receive", "requestMissing"}
<1>1. /\ Elapses(Quiet /\ tx.phase \in {"idle", "awaitingComplete"})
      /\ Advance(i, state, rx[i].got, FALSE, moved)
      /\ UNCHANGED <<senderVars, toReceiver, toSender, partials, arrived, assembled>>
  BY DEF MissingSegmentTimeout
<1>2. rx[i] \in Session /\ SessionOK(rx[i], arrived)
  BY DEF IInv, SessionsOK
<1>3. /\ state \in States /\ (state = "success" => rx[i].state = "success")
      /\ state \in {"receive", "requestMissing"} => rx[i].state = "receive"
      /\ state = "failure" => moved \/ rx[i].state = "failure"
  BY <1>2 DEF AfterTimeout, Session, States
<1>4. rx[i].got \in SUBSET Bytes
  BY <1>2 DEF Session
<1>5. SessionsOK(rx', sessions', arrived) /\ RepliesOK(replies', rx', arrived)
  <2>1. moved \in BOOLEAN
    OBVIOUS
  <2>2. /\ \A b \in rx[i].got : [id |-> rx[i].id, s |-> b \div SegmentSize] \in arrived
        /\ state = "success" => rx[i].got = Bytes
        /\ state \in {"receive", "requestMissing"} => rx[i].got # Bytes
    BY <1>2, <1>3 DEF SessionOK
  <2> HIDE DEF state, moved
  <2> QED
    BY <2>1, <2>2, <1>1, <1>3, <1>4, AdvanceOK, ZenonT(30) DEF IInv
<1>6. LinkOK(toReceiver', toSender', faults', arrived')
  BY <1>1, ElapsesOK DEF IInv
<1> QED
  BY <1>1, <1>5, <1>6 DEF IInv, senderVars

LEMMA ReplySentKeeps ==
    ASSUME IInv, ReplySent
    PROVE  IInv' /\ UNCHANGED <<assembled, partials>>
<1> DEFINE r == Head(replies)
<1>1. /\ replies # <<>> /\ replies' = Tail(replies) /\ Send(r.answer)
      /\ rx' = IF r.answer.type = "request"
                 THEN [rx EXCEPT ![r.session] = [@ EXCEPT !.timer = TRUE]] ELSE rx
      /\ UNCHANGED <<senderVars, toReceiver, sessions, partials, arrived, assembled>>
  BY DEF ReplySent
<1>2. replies \in Seq(Replies) /\ rx \in Seq(Session)
  BY DEF IInv, RepliesOK, SessionsOK
<1>3. r = replies[1] /\ 1 \in DOMAIN replies
  BY <1>1, <1>2
<1>o. r \in Replies /\ ReplyOK(r, rx, arrived)
  BY <1>2, <1>3 DEF IInv, RepliesOK
<1>4. /\ r \in Replies /\ Truthful(r.answer, arrived)
      /\ r.answer.type = "request" => r.session \in DOMAIN rx
  BY <1>o DEF ReplyOK
<1> HIDE DEF r
<1>5. LinkOK(toReceiver', toSender', faults', arrived')
  <2>1. LinkOK(toReceiver, toSender, faults, arrived)
    BY DEF IInv
  <2>2. r.answer \in Answer
    BY <1>4 DEF Replies
  <2>3. faults' \in 0..MaxFaults
    BY <1>1, <2>1, FaultsOK DEF Send, LinkOK
  <2>4. CASE toSender' = Append(toSender, r.answer)
    <3>1. toSender' \in Seq(Answer)
      BY <2>1, <2>2, <2>4 DEF LinkOK
    <3>2. ASSUME NEW i \in DOMAIN toSender' PROVE Truthful(toSender'[i], arrived)
      <4>1. (i \in DOMAIN toSender /\ toSender'[i] = toSender[i]) \/ toSender'[i] = r.answer
        BY <2>1, <2>2, <2>4 DEF LinkOK
      <4> QED
        BY <4>1, <1>4, <2>1 DEF LinkOK
    <3> QED
      BY <3>1, <3>2, <2>1, <2>3, <1>1 DEF LinkOK
  <2>5. CASE UNCHANGED toSender
    BY <2>1, <2>3, <2>5, <1>1 DEF LinkOK
  <2> QED
    BY <2>4, <2>5, <1>1 DEF Send
<1>6. /\ rx' \in Seq(Session) /\ DOMAIN rx' = DOMAIN rx
      /\ \A i \in DOMAIN rx : /\ rx'[i].id = rx[i].id /\ rx'[i].state = rx[i].state
                             /\ rx'[i].got = rx[i].got
  <2>1. CASE r.answer.type = "request"
    <3> DEFINE x == [rx[r.session] EXCEPT !.timer = TRUE]
    <3>1. r.session \in DOMAIN rx /\ rx[r.session] \in Session
      BY <2>1, <1>2, <1>4
    <3>2. /\ x \in Session /\ x.id = rx[r.session].id
          /\ x.state = rx[r.session].state /\ x.got = rx[r.session].got
      BY <3>1 DEF Session
    <3>3. rx' = [rx EXCEPT ![r.session] = x]
      BY <2>1, <1>1
    <3> HIDE DEF x
    <3>4. rx' \in Seq(Session) /\ DOMAIN rx' = DOMAIN rx
      BY <1>2, <3>1, <3>2, <3>3
    <3>5. \A i \in DOMAIN rx : rx'[i] = IF i = r.session THEN x ELSE rx[i]
      BY <3>3
    <3> QED
      BY <3>2, <3>4, <3>5
  <2>2. CASE r.answer.type # "request"
    BY <2>2, <1>1, <1>2
  <2> QED
    BY <2>1, <2>2
<1>7. SessionsOK(rx', sessions', arrived)
  <2>1. SessionsOK(rx, sessions, arrived)
    BY DEF IInv
  <2>2. \A i \in DOMAIN rx' : SessionOK(rx'[i], arrived)
    BY <2>1, <1>6 DEF SessionsOK, SessionOK
  <2> QED
    <3>1. sessions' = sessions /\ rx' \in Seq(Session) /\ DOMAIN rx' = DOMAIN rx
      BY <1>1, <1>6
    <3>2. \A d \in Datagram : sessions[d] # 0 => /\ sessions[d] \in DOMAIN rx
                                               /\ rx[sessions[d]].id = d
                                               /\ rx[sessions[d]].state # "failure"
      BY <2>1 DEF SessionsOK
    <3>3. \A d \in Datagram : sessions[d] # 0 => /\ sessions[d] \in DOMAIN rx
                                               /\ rx'[sessions[d]].id = d
                                               /\ rx'[sessions[d]].state # "failure"
      BY <3>2, <1>6
    <3> QED
      BY <2>1, <2>2, <3>1, <3>3 DEF SessionsOK
<1>8. RepliesOK(replies', rx', arrived)
  <2>1. Tail(replies) \in Seq(Replies)
    BY <1>1, <1>2
  <2>2. ASSUME NEW i \in DOMAIN Tail(replies)
        PROVE  ReplyOK(Tail(replies)[i], rx, arrived)
    <3>1. Tail(replies)[i] = replies[i + 1] /\ i + 1 \in DOMAIN replies
      BY <1>1, <1>2
    <3> QED
      BY <3>1 DEF IInv, RepliesOK
  <2>3. \A q : ReplyOK(q, rx, arrived) => ReplyOK(q, rx', arrived)
    BY <1>6 DEF ReplyOK
  <2> QED
    BY <2>1, <2>2, <2>3, <1>1 DEF RepliesOK
<1> QED
  BY <1>1, <1>5, <1>7, <1>8 DEF IInv, senderVars

-----------------------------------------------------------------------------
(* The theorems                                                            *)

LEMMA InitInvariant == Init => IInv
<1> SUFFICES ASSUME Init PROVE IInv
  OBVIOUS
<1>1. SenderOK(outcome, tx, responses, arrived)
  <2>1. outcome \in [Datagram -> Outcome] /\ \A d \in Datagram : outcome[d] = "none"
    BY DEF Init, Outcome
  <2>2. tx = NotSending /\ tx.id = 0 /\ 0 \notin Datagram
    BY DEF Init, NotSending, Datagram
  <2>3. responses \in Seq(Response)
    BY DEF Init
  <2> QED
    BY <2>1, <2>2, <2>3 DEF SenderOK
<1>2. LinkOK(toReceiver, toSender, faults, arrived)
  BY ConstantsAssumption DEF Init, LinkOK
<1>3. SessionsOK(rx, sessions, arrived)
  BY DEF Init, SessionsOK
<1>4. RepliesOK(replies, rx, arrived)
  BY DEF Init, RepliesOK
<1>5. partials \in [Datagram -> Seq(Piece)] /\ arrived \subseteq Piece
  BY DEF Init
<1> QED
  BY <1>1, <1>2, <1>3, <1>4, <1>5 DEF IInv

(* Only the arrival of a segment touches the parts and the commands.       *)
LEMMA NextKeeps ==
    ASSUME IInv, [Next]_vars
    PROVE  IInv' /\ (SegmentArrives \/ UNCHANGED <<assembled, partials>>)
<1>1. ASSUME NEW d \in Datagram, Begin(d) PROVE IInv' /\ UNCHANGED <<assembled, partials>>
  BY <1>1, BeginKeeps
<1>2. CASE Sender
  BY <1>2, SendSegmentKeeps, SegmentSentKeeps, SegmentNotAcknowledgedKeeps,
     CompleteTimeoutKeeps, RestartKeeps DEF Sender
<1>3. CASE AnswerArrives
  BY <1>3, AnswerArrivesKeeps
<1>4. CASE SegmentArrives
  BY <1>4, SegmentArrivesKeeps
<1>5. CASE ReplySent
  BY <1>5, ReplySentKeeps
<1>6. ASSUME NEW i \in DOMAIN rx, MissingSegmentTimeout(i)
      PROVE  IInv' /\ UNCHANGED <<assembled, partials>>
  BY <1>6, MissingSegmentTimeoutKeeps
<1>7. CASE UNCHANGED vars
  BY <1>7 DEF vars, senderVars, receiverVars, IInv
<1> QED
  BY <1>1, <1>2, <1>3, <1>4, <1>5, <1>6, <1>7 DEF Next

LEMMA Invariant == Spec => []IInv
<1>1. IInv /\ [Next]_vars => IInv'
  BY NextKeeps
<1> QED
  BY InitInvariant, <1>1, PTL DEF Spec

LEMMA InvariantImplies == IInv => TypeOK /\ CompleteWasReceived
<1> SUFFICES ASSUME IInv PROVE TypeOK /\ CompleteWasReceived
  OBVIOUS
<1>1. responses \in Seq(Answer)
  <2>1. Response \subseteq Answer
    BY DEF Response, Answer
  <2>2. responses \in Seq(Response)
    BY DEF IInv, SenderOK
  <2>3. Len(responses) \in Nat /\ responses \in [1..Len(responses) -> Answer]
    BY <2>1, <2>2
  <2> QED
    BY <2>3, SeqDef
<1>2. rx \in Seq([id : Datagram, state : States, got : SUBSET Bytes, timer : BOOLEAN])
  BY DEF IInv, SessionsOK, Session
<1>3. \A d \in Datagram : sessions[d] # 0 => /\ sessions[d] \in DOMAIN rx
                                            /\ rx[sessions[d]].id = d
                                            /\ rx[sessions[d]].state # "failure"
  BY DEF IInv, SessionsOK
<1>4. tx = NotSending \/ (tx.phase \in Phases \ {"idle"} /\ tx.id \in Datagram
                          /\ tx.attempt \in 1..2 /\ tx.unsent \in Seq(Segment)
                          /\ (tx.phase = "ready" => tx.unsent # <<>>)
                          /\ tx.sent \in 0..MaxAttempts)
  <2>1. tx = NotSending \/ (tx \in Tx /\ (tx.phase = "ready" => tx.unsent # <<>>))
    BY DEF IInv, SenderOK
  <2> QED
    BY <2>1 DEF Tx
<1>5. /\ outcome \in [Datagram -> Outcome]
      /\ \A d \in Datagram : outcome[d] = "busy" <=> tx.id = d
  BY DEF IInv, SenderOK
<1>6. toSender \in Seq(Answer) /\ toReceiver \in Seq(Piece)
  BY DEF IInv, LinkOK
<1>7. TypeOK
  BY <1>1, <1>2, <1>3, <1>4, <1>5, <1>6 DEF TypeOK, IInv
<1>8. CompleteWasReceived
  BY DEF CompleteWasReceived, IInv, SenderOK, Received
<1> QED
  BY <1>7, <1>8

(* The type invariant, with the index of the sessions: an id leads to a    *)
(* session of that very datagram that has not failed.                      *)
THEOREM TypeCorrect == Spec => []TypeOK
BY Invariant, InvariantImplies, PTL

(* A transmission that is taken for complete was received: no answer that  *)
(* is on its way, queued or late says so of a datagram with a segment that *)
(* never arrived, for every size and every number of faults and attempts.  *)
THEOREM CompleteReceived == Spec => []CompleteWasReceived
BY Invariant, InvariantImplies, PTL

(* expectMoreMessages counts a byte as received if it follows a segment.   *)
(* That does no harm if every segment has two bytes at least, the last one *)
(* as well; if that has one byte, a command may be put together without.   *)
TwoBytesPerSegment ==
    \A s \in Segment : /\ s * SegmentSize + 1 \in Bytes
                       /\ (s * SegmentSize + 1) \div SegmentSize = s

LEMMA ExpectsNothingMore ==
    ASSUME TwoBytesPerSegment, NEW parts \in Seq(Piece), ~Expects(parts)
    PROVE  {parts[i].s : i \in DOMAIN parts} = Segment
<1>1. ASSUME NEW i \in DOMAIN parts PROVE parts[i].s \in Segment
  <2>1. parts[i] \in Piece
    OBVIOUS
  <2> QED
    BY <2>1 DEF Piece
<1>2. ASSUME NEW s \in Segment PROVE \E i \in DOMAIN parts : parts[i].s = s
  <2> DEFINE b == s * SegmentSize + 1
  <2>1. b \in Bytes /\ b \div SegmentSize = s
    BY DEF TwoBytesPerSegment
  <2>2. s * SegmentSize \in Nat /\ (s * SegmentSize) \div SegmentSize = s
    BY SegmentByte, SizeFacts
  <2>3. b - 1 = s * SegmentSize
    BY <2>2
  <2> HIDE DEF b
  <2>4. PICK i \in DOMAIN parts : \/ b \in BytesOf(parts[i].s)
                                  \/ b > 0 /\ b - 1 \in BytesOf(parts[i].s)
    BY <2>1 DEF Expects
  <2>5. parts[i].s = s
    BY <2>1, <2>2, <2>3, <2>4 DEF BytesOf
  <2> QED
    BY <2>5
<1> QED
  BY <1>1, <1>2

LEMMA AssemblyKeeps ==
    ASSUME IInv, [Next]_vars, TwoBytesPerSegment,
           assembled \in Seq([id : Datagram, s : SUBSET Segment]), AssembledIsWhole
    PROVE  /\ assembled' \in Seq([id : Datagram, s : SUBSET Segment])
           /\ AssembledIsWhole'
<1>1. CASE UNCHANGED assembled
  BY <1>1 DEF AssembledIsWhole
<1>2. CASE SegmentArrives
  <2> DEFINE p == Head(toReceiver)
             parts == Append(partials[p.id], p)
             a == [id |-> p.id, s |-> {parts[i].s : i \in DOMAIN parts}]
  <2>1. p \in Piece
    BY <1>2 DEF IInv, LinkOK, SegmentArrives
  <2>2. p.id \in Datagram
    BY <2>1 DEF Piece
  <2>3. parts \in Seq(Piece)
    BY <2>1, <2>2 DEF IInv
  <2>4. Assemble(p)
    BY <1>2 DEF SegmentArrives
  <2>5. CASE p.s = 0 \/ Expects(parts)
    BY <1>1, <2>4, <2>5 DEF Assemble
  <2>6. CASE ~Expects(parts) /\ p.s # 0
    <3>1. assembled' = Append(assembled, a)
      BY <2>4, <2>6 DEF Assemble
    <3>2. {parts[i].s : i \in DOMAIN parts} = Segment
      BY <2>3, <2>6, ExpectsNothingMore
    <3>3. a \in [id : Datagram, s : SUBSET Segment] /\ a.s = Segment
      BY <2>2, <3>2
    <3> HIDE DEF a
    <3>4. assembled' \in Seq([id : Datagram, s : SUBSET Segment])
      BY <3>1, <3>3
    <3>5. ASSUME NEW i \in DOMAIN assembled' PROVE assembled'[i].s = Segment
      <4>1. (i \in DOMAIN assembled /\ assembled'[i] = assembled[i]) \/ assembled'[i] = a
        BY <3>1, <3>3
      <4> QED
        BY <4>1, <3>3 DEF AssembledIsWhole
    <3> QED
      BY <3>4, <3>5 DEF AssembledIsWhole
  <2> QED
    BY <2>5, <2>6
<1> QED
  BY <1>1, <1>2, NextKeeps

(* Under this condition a command that is put together is whole, in every  *)
(* order in which its segments and those of earlier attempts arrive.       *)
THEOREM AssemblyWhole == TwoBytesPerSegment /\ Spec => []AssembledIsWhole
<1> DEFINE A == assembled \in Seq([id : Datagram, s : SUBSET Segment]) /\ AssembledIsWhole
<1>1. Init => A
  BY DEF Init, AssembledIsWhole
<1>2. ASSUME TwoBytesPerSegment PROVE IInv /\ A /\ [Next]_vars => A'
  BY <1>2, AssemblyKeeps
<1>3. A => AssembledIsWhole
  OBVIOUS
<1>4. TwoBytesPerSegment => [](TwoBytesPerSegment)
  <2>1. TwoBytesPerSegment => TwoBytesPerSegment'
    BY DEF TwoBytesPerSegment, Segment, LastSegment, Bytes
  <2> QED
    BY <2>1, PTL
<1> QED
  BY <1>1, <1>2, <1>3, <1>4, Invariant, PTL DEF Spec

-----------------------------------------------------------------------------
(* Sessions and commands are counted by their id.                          *)

LEMMA CountAppend ==
    ASSUME NEW S, NEW q \in Seq(S), NEW e, NEW d
    PROVE  /\ CountOf(q, d) \in Nat
           /\ CountOf(Append(q, e), d) =
                 IF e.id = d THEN CountOf(q, d) + 1 ELSE CountOf(q, d)
<1> DEFINE n == Len(q)
           I == {i \in DOMAIN q : q[i].id = d}
           J == {i \in DOMAIN Append(q, e) : Append(q, e)[i].id = d}
<1>1. /\ n \in Nat /\ DOMAIN q = 1..n /\ DOMAIN Append(q, e) = 1..(n + 1)
      /\ \A i \in 1..n : Append(q, e)[i] = q[i]
      /\ Append(q, e)[n + 1] = e
  <2>1. q \in Seq(S \cup {e}) /\ e \in S \cup {e}
    BY SeqDef
  <2> QED
    BY <2>1, AppendProperties
<1>2. IsFiniteSet(I) /\ Cardinality(I) \in Nat
  <2>1. IsFiniteSet(1..n)
    BY <1>1, FS_Interval
  <2>2. I \in SUBSET (1..n)
    BY <1>1
  <2> HIDE DEF I
  <2> QED
    BY <2>1, <2>2, FS_Subset, FS_CardinalityType
<1>3. CASE e.id = d
  <2>1. J = I \cup {n + 1} /\ n + 1 \notin I
    BY <1>1, <1>3
  <2> HIDE DEF I, J
  <2>2. Cardinality(J) = Cardinality(I) + 1
    BY <2>1, <1>2, FS_AddElement
  <2> QED
    BY <2>2, <1>2, <1>3 DEF CountOf, I, J
<1>4. CASE e.id # d
  <2>1. J = I
    BY <1>1, <1>4
  <2> QED
    BY <2>1, <1>2, <1>4 DEF CountOf
<1> QED
  BY <1>3, <1>4

LEMMA CountKept ==
    ASSUME NEW q, NEW r, DOMAIN r = DOMAIN q, \A i \in DOMAIN q : r[i].id = q[i].id, NEW d
    PROVE  CountOf(r, d) = CountOf(q, d)
<1>1. {i \in DOMAIN r : r[i].id = d} = {i \in DOMAIN q : q[i].id = d}
  OBVIOUS
<1> QED
  BY <1>1 DEF CountOf

(* A session keeps its id, and only a first segment makes a new one.       *)
LEMMA SessionIdsKept ==
    ASSUME IInv, [Next]_vars
    PROVE  \/ /\ toReceiver # <<>> /\ Head(toReceiver).s = 0
              /\ \E x : x.id = Head(toReceiver).id /\ rx' = Append(rx, x)
           \/ /\ DOMAIN rx' = DOMAIN rx
              /\ \A i \in DOMAIN rx : rx'[i].id = rx[i].id
<1>0. rx \in Seq(Session)
  BY DEF IInv, SessionsOK
<1>k. UNCHANGED rx => /\ DOMAIN rx' = DOMAIN rx
                      /\ \A i \in DOMAIN rx : rx'[i].id = rx[i].id
  OBVIOUS
<1>a. ASSUME NEW i \in DOMAIN rx, NEW state, NEW got, NEW timer, NEW moved,
             Advance(i, state, got, timer, moved)
      PROVE  DOMAIN rx' = DOMAIN rx /\ \A j \in DOMAIN rx : rx'[j].id = rx[j].id
  <2>1. rx' = [rx EXCEPT ![i] = Moved(@, state, got, timer)]
    BY <1>a DEF Advance
  <2>2. rx[i] \in Session
    BY <1>0
  <2>3. Moved(rx[i], state, got, timer).id = rx[i].id
    BY <2>2 DEF Moved, Session
  <2> QED
    BY <2>1, <2>3
<1>1. CASE SegmentArrives
  <2> DEFINE p == Head(toReceiver)
  <2>1. toReceiver # <<>> /\ (FirstSegmentArrives(p) \/ SubsequentSegmentArrives(p))
    BY <1>1 DEF SegmentArrives
  <2>2. CASE FirstSegmentArrives(p)
    BY <2>1, <2>2 DEF FirstSegmentArrives
  <2>3. CASE SubsequentSegmentArrives(p)
    <3>0. p \in Piece
      BY <2>1 DEF IInv, LinkOK
    <3>1. p.id \in Datagram
      BY <3>0 DEF Piece
    <3>2. CASE sessions[p.id] = 0
      BY <2>3, <3>2, <1>k DEF SubsequentSegmentArrives
    <3>3. CASE sessions[p.id] # 0
      <4>1. sessions[p.id] \in DOMAIN rx
        BY <3>1, <3>3 DEF IInv, SessionsOK
      <4>2. \E state, got, timer, moved : Advance(sessions[p.id], state, got, timer, moved)
        BY <2>3, <3>3 DEF SubsequentSegmentArrives
      <4> QED
        BY <4>1, <4>2, <1>a
    <3> QED
      BY <3>2, <3>3
  <2> QED
    BY <2>1, <2>2, <2>3
<1>2. CASE ReplySent
  <2> DEFINE k == Head(replies).session
  <2>1. CASE rx' = [rx EXCEPT ![k] = [@ EXCEPT !.timer = TRUE]]
    <3>1. \A i \in DOMAIN rx : rx[i] \in Session
      BY <1>0
    <3>2. k \in DOMAIN rx => [rx[k] EXCEPT !.timer = TRUE].id = rx[k].id
      BY <3>1 DEF Session
    <3> QED
      BY <2>1, <3>2
  <2> QED
    BY <1>2, <1>k, <2>1 DEF ReplySent
<1>3. ASSUME NEW i \in DOMAIN rx, MissingSegmentTimeout(i)
      PROVE  DOMAIN rx' = DOMAIN rx /\ \A j \in DOMAIN rx : rx'[j].id = rx[j].id
  BY <1>3, <1>a DEF MissingSegmentTimeout
<1>4. CASE (\E d \in Datagram : Begin(d)) \/ Sender \/ AnswerArrives \/ UNCHANGED vars
  BY <1>4, <1>k DEF Begin, Sender, SendSegment, SegmentSent, SegmentNotAcknowledged,
     CompleteTimeout, Restart, AnswerArrives, receiverVars, vars
<1> QED
  BY <1>1, <1>2, <1>3, <1>4 DEF Next

(* A first segment that is kept among the parts has a session that was not *)
(* used for a command yet.                                                 *)
HasFirst(parts) == \E i \in DOMAIN parts : parts[i].s = 0
Used(d) == CountOf(assembled, d) + (IF HasFirst(partials[d]) THEN 1 ELSE 0)
CountsMatch ==
    /\ assembled \in Seq([id : Datagram, s : SUBSET Segment])
    /\ \A d \in Datagram : Used(d) <= CountOf(rx, d)

LEMMA CountsKept ==
    ASSUME IInv, CountsMatch, [Next]_vars
    PROVE  CountsMatch'
<1>0. /\ rx \in Seq(Session) /\ partials \in [Datagram -> Seq(Piece)]
      /\ assembled \in Seq([id : Datagram, s : SUBSET Segment])
  BY DEF IInv, SessionsOK, CountsMatch
<1>n. \A d \in Datagram : CountOf(rx, d) \in Nat /\ CountOf(assembled, d) \in Nat
  BY <1>0, CountAppend
<1>1. CASE UNCHANGED <<assembled, partials>>
  <2> SUFFICES ASSUME NEW d \in Datagram
               PROVE  Used(d)' <= CountOf(rx', d)
    BY <1>0, <1>1 DEF CountsMatch
  <2>1. Used(d)' = Used(d) /\ Used(d) \in Nat /\ Used(d) <= CountOf(rx, d)
    BY <1>1, <1>n DEF Used, CountsMatch
  <2>2. CountOf(rx', d) \in Nat /\ CountOf(rx', d) >= CountOf(rx, d)
    <3>1. CASE \E x : rx' = Append(rx, x)
      <4> PICK x : rx' = Append(rx, x)
        BY <3>1
      <4>1. CountOf(Append(rx, x), d) \in {CountOf(rx, d), CountOf(rx, d) + 1}
        BY <1>0, CountAppend
      <4> QED
        BY <4>1, <1>n
    <3>2. CASE DOMAIN rx' = DOMAIN rx /\ \A i \in DOMAIN rx : rx'[i].id = rx[i].id
      <4>1. CountOf(rx', d) = CountOf(rx, d)
        BY <3>2, CountKept
      <4> QED
        BY <4>1, <1>n
    <3> QED
      BY <3>1, <3>2, SessionIdsKept
  <2> QED
    BY <2>1, <2>2, <1>n
<1>2. CASE SegmentArrives
  <2> DEFINE p == Head(toReceiver)
             parts == Append(partials[p.id], p)
             a == [id |-> p.id, s |-> {parts[i].s : i \in DOMAIN parts}]
  <2>0. p \in Piece
    BY <1>2 DEF SegmentArrives, IInv, LinkOK
  <2>1. /\ toReceiver # <<>> /\ p \in Piece /\ p.id \in Datagram
        /\ FirstSegmentArrives(p) \/ SubsequentSegmentArrives(p)
        /\ Assemble(p)
    BY <1>2, <2>0 DEF SegmentArrives, Piece
  <2> HIDE DEF p
  <2>2. /\ partials[p.id] \in Seq(Piece) /\ parts \in Seq(Piece) /\ parts # <<>>
        /\ DOMAIN parts = 1..(Len(partials[p.id]) + 1) /\ Len(partials[p.id]) \in Nat
        /\ \A i \in 1..Len(partials[p.id]) : parts[i] = partials[p.id][i]
        /\ parts[Len(partials[p.id]) + 1] = p
    <3>1. partials[p.id] \in Seq(Piece)
      BY <1>0, <2>1
    <3> QED
      BY <2>1, <3>1, AppendProperties
  <2>3. a \in [id : Datagram, s : SUBSET Segment] /\ a.id = p.id
    <3>1. \A i \in DOMAIN parts : parts[i] \in Piece
      BY <2>2
    <3> QED
      BY <2>1, <3>1 DEF Piece
  <2> HIDE DEF parts, a
  <2>4. HasFirst(parts) <=> HasFirst(partials[p.id]) \/ p.s = 0
    <3>1. DOMAIN partials[p.id] = 1..Len(partials[p.id])
      BY <2>2
    <3>2. HasFirst(partials[p.id]) \/ p.s = 0 => HasFirst(parts)
      BY <2>2, <3>1 DEF HasFirst
    <3>3. HasFirst(parts) => HasFirst(partials[p.id]) \/ p.s = 0
      <4> SUFFICES ASSUME NEW i \in DOMAIN parts, parts[i].s = 0, p.s # 0
                   PROVE  HasFirst(partials[p.id])
        BY DEF HasFirst
      <4>1. i \in DOMAIN partials[p.id] /\ parts[i] = partials[p.id][i]
        BY <2>2, <3>1
      <4> QED
        BY <4>1 DEF HasFirst
    <3> QED
      BY <3>2, <3>3
  <2>5. CASE p.s = 0
    <3>1. partials' = [partials EXCEPT ![p.id] = parts] /\ UNCHANGED assembled
      BY <2>1, <2>5 DEF Assemble, parts
    <3>2. FirstSegmentArrives(p)
      BY <2>1, <2>5 DEF SubsequentSegmentArrives
    <3>3. PICK x : x.id = p.id /\ rx' = Append(rx, x)
      BY <3>2 DEF FirstSegmentArrives
    <3> SUFFICES ASSUME NEW d \in Datagram
                 PROVE  Used(d)' <= CountOf(rx', d)
      BY <1>0, <3>1 DEF CountsMatch
    <3>4. CASE d = p.id
      <4>1. CountOf(rx', d) = CountOf(rx, d) + 1
        BY <3>3, <3>4, <1>0, CountAppend
      <4>2. CountOf(assembled', d) = CountOf(assembled, d)
            /\ CountOf(assembled, d) <= CountOf(rx, d)
        BY <3>1, <1>n DEF CountsMatch, Used
      <4> QED
        BY <4>1, <4>2, <1>n DEF Used
    <3>5. CASE d # p.id
      <4>1. CountOf(rx', d) = CountOf(rx, d)
        BY <3>3, <3>5, <1>0, CountAppend
      <4>2. partials'[d] = partials[d]
        BY <3>1, <3>5, <1>0
      <4> QED
        BY <4>1, <4>2, <3>1 DEF CountsMatch, Used
    <3> QED
      BY <3>4, <3>5
  <2>6. CASE p.s # 0
    <3>1. \A d \in Datagram : CountOf(rx', d) = CountOf(rx, d)
      <4>1. DOMAIN rx' = DOMAIN rx /\ \A i \in DOMAIN rx : rx'[i].id = rx[i].id
        BY <2>6, SessionIdsKept DEF p
      <4> QED
        BY <4>1, CountKept
    <3>2. CASE Expects(parts)
      <4>1. partials' = [partials EXCEPT ![p.id] = parts] /\ UNCHANGED assembled
        BY <2>1, <3>2 DEF Assemble, parts
      <4>2. \A d \in Datagram : HasFirst(partials'[d]) <=> HasFirst(partials[d])
        BY <4>1, <2>4, <2>6, <1>0
      <4> QED
        BY <4>1, <4>2, <3>1, <1>0 DEF CountsMatch, Used
    <3>3. CASE ~Expects(parts)
      <4>1. /\ partials' = [partials EXCEPT ![p.id] = <<>>]
            /\ assembled' = Append(assembled, a)
        BY <2>1, <2>6, <3>3 DEF Assemble, parts, a
      <4>2. HasFirst(partials[p.id])
        <5>1. parts[1].s = 0 /\ 1 \in DOMAIN parts
          BY <3>3, <2>2 DEF Expects
        <5> QED
          BY <5>1, <2>2, <2>4, <2>6 DEF HasFirst
      <4>3. assembled' \in Seq([id : Datagram, s : SUBSET Segment])
        BY <4>1, <2>3, <1>0, AppendProperties
      <4> SUFFICES ASSUME NEW d \in Datagram
                   PROVE  Used(d)' <= CountOf(rx', d)
        BY <4>3 DEF CountsMatch
      <4>4. CASE d = p.id
        <5>1. CountOf(assembled', d) = CountOf(assembled, d) + 1
          BY <4>1, <4>4, <2>3, <1>0, CountAppend
        <5>2. ~HasFirst(partials'[d])
          BY <4>1, <4>4, <1>0 DEF HasFirst
        <5>3. CountOf(assembled, d) + 1 <= CountOf(rx, d)
          BY <4>2, <4>4 DEF CountsMatch, Used
        <5> QED
          BY <5>1, <5>2, <5>3, <3>1, <1>n DEF Used
      <4>5. CASE d # p.id
        <5>1. CountOf(assembled', d) = CountOf(assembled, d)
          BY <4>1, <4>5, <2>3, <1>0, CountAppend
        <5>2. partials'[d] = partials[d]
          BY <4>1, <4>5, <1>0
        <5> QED
          BY <5>1, <5>2, <3>1 DEF CountsMatch, Used
      <4> QED
        BY <4>4, <4>5
    <3> QED
      BY <3>2, <3>3
  <2> QED
    BY <2>5, <2>6
<1> QED
  BY <1>1, <1>2, NextKeeps

(* Each session of a datagram yields one command at most: segments that    *)
(* are repeated, by the radio link or by a new attempt, are not handled    *)
(* twice, for every size and every number of faults and attempts.          *)
THEOREM AssembledOnce == Spec => []AssembledOncePerSession
<1>1. Init => CountsMatch
  <2> SUFFICES ASSUME Init PROVE CountsMatch
    OBVIOUS
  <2>1. assembled = <<>> /\ rx = <<>> /\ \A d \in Datagram : partials[d] = <<>>
    BY DEF Init
  <2>2. \A d \in Datagram : CountOf(<<>>, d) = 0
    <3>1. \A d : {i \in DOMAIN <<>> : <<>>[i].id = d} = {}
      OBVIOUS
    <3> QED
      BY <3>1, FS_EmptySet DEF CountOf
  <2> QED
    BY <2>1, <2>2 DEF CountsMatch, Used, HasFirst
<1>2. IInv /\ CountsMatch /\ [Next]_vars => CountsMatch'
  BY CountsKept
<1>3. IInv /\ CountsMatch => AssembledOncePerSession
  <2> SUFFICES ASSUME IInv, CountsMatch, NEW d \in Datagram
               PROVE  CountOf(assembled, d) <= CountOf(rx, d)
    BY DEF AssembledOncePerSession
  <2>1. CountOf(assembled, d) \in Nat /\ CountOf(rx, d) \in Nat
    BY CountAppend DEF CountsMatch, IInv, SessionsOK
  <2>2. Used(d) <= CountOf(rx, d)
    BY DEF CountsMatch
  <2> QED
    BY <2>1, <2>2 DEF Used
<1> QED
  BY <1>1, <1>2, <1>3, Invariant, PTL DEF Spec
=============================================================================
