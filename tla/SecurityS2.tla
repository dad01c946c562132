----------------------------- MODULE SecurityS2 -----------------------------
(***************************************************************************)
(* Singlecast messages in Security S2 encapsulation between the controller *)
(* and one node: how the two sides agree on a nonce generator (SPAN) and   *)
(* stay in step with it while frames are lost, repeated and cross each     *)
(* other.  The controller runs SecurityManager2, Security2CC, the S2       *)
(* message generator and the driver's handlers of nonce commands; the node *)
(* runs SecurityManager2 and Security2CC as the mock node does, and may    *)
(* send on its own.                                                        *)
(*                                                                         *)
(* Encoding and decoding take no time: on Node.js the cryptographic        *)
(* primitives return at once.  Between a command's parsing, which changes  *)
(* the state of the manager, and its handling, the driver waits for the    *)
(* ACK to be written.  A command is encoded before it enters the Serial    *)
(* API queue, which keeps the order, so that its frame is on its way at    *)
(* once; a frame that is not acknowledged enters the queue again as it is. *)
(***************************************************************************)
EXTENDS Naturals, Sequences, SequencesExt

CONSTANTS
    DecryptAttempts,   \* MAX_DECRYPT_ATTEMPTS_SINGLECAST (5 in the code)
    FirstSeq,          \* the random first sequence number
    MaxTransactions,   \* bound: commands sent by the application
    MaxEvents,         \* bound: commands the node sends on its own
    MaxFaults,         \* bound: faults, all kinds together
    MaxOthers,         \* bound: other transactions in the immediate queue
    Faults             \* what may go wrong

AllFaults == {"lost", "silentLoss", "noAck", "twice", "late", "expired"}

ASSUME S2Assumption ==
    /\ DecryptAttempts \in Nat \ {0} /\ FirstSeq \in 0..255
    /\ MaxTransactions \in Nat /\ MaxEvents \in Nat /\ MaxFaults \in Nat
    /\ MaxOthers \in Nat
    /\ Faults \subseteq AllFaults

Party == {"ctrl", "node"}
Nothing == 0

VARIABLES
    mgr,        \* SecurityManager2 of each party: SPAN state, sequence numbers
    eis,        \* the number of entropy inputs generated so far
    channel,    \* the frames on their way to each party
    parsed,     \* what the controller has parsed and not handled yet
    tx,         \* the controller's transaction
    replies,    \* the immediate queue: nonce reports (their EI) and others (0)
    wants,      \* the node waits for a nonce to send this command
    encrypted,  \* history: the nonces each party has encrypted with
    accepted,   \* history: the commands each party has decoded
    due,        \* history: commands the node has sent in step, without a fault since
    last,       \* history: how the last transaction ended
    count       \* counters for the bounds

vars == <<mgr, eis, channel, parsed, tx, replies, wants, encrypted, accepted,
          due, last, count>>

(* The SPAN table of a manager.  A SPAN is a generator with a seed, k the  *)
(* number of its next nonce; cur is the nonce of the last encryption.      *)
None        == [type |-> "none"]
LocalEI(e)  == [type |-> "localEI", ei |-> e]
RemoteEI(e) == [type |-> "remoteEI", ei |-> e]
Nonce(s, k) == <<s, k>>
SPAN(s, k, c) == [type |-> "span", seed |-> s, k |-> k, cur |-> c]
NoNonce == <<>>

Idle == [step |-> "idle", id |-> Nothing, kind |-> "set", try |-> 1, ext |-> Nothing,
         frame |-> <<>>, calm |-> FALSE]

Init ==
    /\ mgr = [p \in Party |-> [span |-> None, own |-> FirstSeq, peer |-> <<>>]]
    /\ eis = 0
    /\ channel = [p \in Party |-> <<>>]
    /\ parsed = <<>>
    /\ tx = Idle
    /\ replies = <<>>
    /\ wants = Nothing
    /\ encrypted = [p \in Party |-> <<>>]
    /\ accepted = [p \in Party |-> <<>>]
    /\ due = {}
    /\ last = [id |-> Nothing, ok |-> TRUE, calm |-> FALSE]
    /\ count = [tx |-> 0, event |-> 0, fault |-> 0, other |-> 0]
-----------------------------------------------------------------------------
(* SecurityManager2 and Security2CC.                                       *)

(* Mutant of NextSeq: it does not wrap around.                             *)
NextSeqUnbounded(m) == m.own + 1

NextSeq(m) == (m.own + 1) % 256

(* Frames carry a sequence number, an entropy input or none, and for an    *)
(* encapsulated command the nonce it is encrypted with.                    *)
NonceGet(q)       == [type |-> "nonceGet", seq |-> q]
NonceReport(q, e) == [type |-> "nonceReport", seq |-> q, ei |-> e]
Encap(q, e, n, c) == [type |-> "encap", seq |-> q, ei |-> e, nonce |-> n, cmd |-> c]

CanEncode(p) == mgr[p].span.type \in {"remoteEI", "span"}

(* Mutant of Encoded: the generator is not advanced.                       *)
EncodedStuck(m, c, ext) ==
    LET fresh == m.span.type = "remoteEI"
        seed == IF fresh THEN <<eis + 1, m.span.ei>> ELSE m.span.seed
        k == IF fresh THEN 1 ELSE m.span.k
        n == Nonce(seed, k)
        e == IF fresh THEN eis + 1 ELSE ext
    IN  [frame |-> Encap(NextSeq(m), e, n, c),
         mgr |-> [m EXCEPT !.own = NextSeq(m), !.span = SPAN(seed, k, n)],
         eis |-> IF fresh THEN eis + 1 ELSE eis]

(* Encoding a command: a remote entropy input is used up to establish the  *)
(* SPAN with a new one, which is sent along.  ext is the entropy input the *)
(* command carries from its first transmission.                            *)
Encoded(m, c, ext) ==
    LET fresh == m.span.type = "remoteEI"
        seed == IF fresh THEN <<eis + 1, m.span.ei>> ELSE m.span.seed
        k == IF fresh THEN 1 ELSE m.span.k
        n == Nonce(seed, k)
        e == IF fresh THEN eis + 1 ELSE ext
    IN  [frame |-> Encap(NextSeq(m), e, n, c),
         mgr |-> [m EXCEPT !.own = NextSeq(m), !.span = SPAN(seed, k + 1, n)],
         eis |-> IF fresh THEN eis + 1 ELSE eis]

(* Only the last sequence number is remembered.                            *)
IsDuplicate(m, f) == m.peer = <<f.seq>>
StoreSeq(m, f) == [m EXCEPT !.peer = <<f.seq>>]

(* Mutant of TrySPAN: the generator is not advanced by what it decrypts.   *)
TrySPANAgain(s, f) ==
    LET tries == IF f.ei # Nothing THEN 1 ELSE DecryptAttempts
        ok == \E k \in s.k..(s.k + tries - 1) : f.nonce = Nonce(s.seed, k)
    IN  [ok |-> ok, span |-> SPAN(s.seed, s.k, NoNonce)]

(* Up to DecryptAttempts nonces are tried, one if the frame brings an      *)
(* entropy input.                                                          *)
TrySPAN(s, f) ==
    LET tries == IF f.ei # Nothing THEN 1 ELSE DecryptAttempts
        ok == \E k \in s.k..(s.k + tries - 1) : f.nonce = Nonce(s.seed, k)
    IN  [ok |-> ok,
         span |-> SPAN(s.seed, IF ok THEN f.nonce[2] + 1 ELSE s.k + tries, NoNonce)]

(* Mutant of MayUsePrevious: never.                                        *)
NeverPrevious(p, m, f) == FALSE

(* The controller still accepts the nonce it has itself encrypted the last *)
(* command with, if it has not expired and f is the very next frame.       *)
MayUsePrevious(p, m, f) ==
    /\ p = "ctrl" /\ m.span.cur # NoNonce
    /\ m.peer # <<>> /\ f.seq = (m.peer[1] + 1) % 256

(* Decoding frame f; m is the manager before f's sequence number is stored.*)
Decoded(p, m, f, expired) ==
    LET s == m.span
    IN  CASE s.type \in {"none", "remoteEI"} -> [ok |-> FALSE, span |-> s]
          [] s.type = "localEI" ->
               LET seed == <<f.ei, s.ei>>
               IN  IF f.ei # Nothing /\ f.nonce = Nonce(seed, 1)
                     THEN [ok |-> TRUE, span |-> SPAN(seed, 2, NoNonce)]
                     ELSE [ok |-> FALSE, span |-> s]
          [] s.type = "span" ->
               IF MayUsePrevious(p, m, f) /\ ~expired /\ f.nonce = s.cur
                 THEN [ok |-> TRUE, span |-> [s EXCEPT !.cur = NoNonce]]
                 ELSE TrySPAN(s, f)
-----------------------------------------------------------------------------
(* The medium.                                                             *)

Fault(f) == f \in Faults /\ count.fault < MaxFaults
Faulty == count' = [count EXCEPT !.fault = @ + 1]
Disturbed == tx' = [tx EXCEPT !.calm = FALSE] /\ due' = {}

Deliver(p, f) == channel' = [channel EXCEPT ![p] = Append(@, f)]
Take(p) == [channel EXCEPT ![p] = Tail(@)]

(* A frame to the controller is lost, which the node does not repeat.      *)
SilentLoss ==
    /\ Fault("silentLoss") /\ channel["ctrl"] # <<>>
    /\ channel' = Take("ctrl")
    /\ Faulty /\ Disturbed
    /\ UNCHANGED <<mgr, eis, parsed, replies, wants, encrypted, accepted, last>>

(* A frame is repeated, since its ACK was lost, and reaches the other      *)
(* party a second time, possibly behind other frames.                      *)
Twice(p) ==
    /\ Fault("twice") /\ channel[p] # <<>>
    /\ channel' = [channel EXCEPT ![p] = Append(@, Head(@))]
    /\ Faulty /\ Disturbed
    /\ UNCHANGED <<mgr, eis, parsed, replies, wants, encrypted, accepted, last>>
-----------------------------------------------------------------------------
(* The controller's transaction: secureMessageGeneratorS2.                 *)

Quiet == /\ channel["ctrl"] = <<>> /\ channel["node"] = <<>>
         /\ parsed = <<>> /\ replies = <<>> /\ wants = Nothing

(* A SPAN of another security class is not modelled.                       *)
Begin(kind) ==
    /\ tx.step = "idle" /\ count.tx < MaxTransactions
    /\ count' = [count EXCEPT !.tx = @ + 1]
    /\ tx' = [Idle EXCEPT !.id = count.tx + 1, !.kind = kind, !.calm = Quiet,
         !.step = IF mgr["ctrl"].span.type \in {"none", "localEI"}
                    THEN "needsNonce" ELSE "ready"]
    /\ UNCHANGED <<mgr, eis, channel, parsed, replies, wants, encrypted, accepted, due, last>>

Ends(ok) ==
    /\ tx' = Idle
    /\ last' = [id |-> tx.id, ok |-> ok, calm |-> tx.calm]

RequestNonce ==
    /\ tx.step = "needsNonce"
    /\ mgr' = [mgr EXCEPT !["ctrl"].own = NextSeq(mgr["ctrl"])]
    /\ Deliver("node", NonceGet(NextSeq(mgr["ctrl"])))
    /\ tx' = [tx EXCEPT !.step = "awaitsNonce"]
    /\ UNCHANGED <<eis, parsed, replies, wants, encrypted, accepted, due, last, count>>

(* After the first transmission of a Set the generator waits whether the   *)
(* node reports that it could not decode it; after the second it does not. *)
AfterSending(ext) ==
    IF tx.kind = "set" /\ tx.try = 2 THEN Ends(TRUE)
    ELSE /\ tx' = [tx EXCEPT !.step = "sent", !.ext = ext, !.frame = <<>>]
         /\ UNCHANGED last

SendCommand ==
    /\ tx.step = "ready" /\ CanEncode("ctrl")
    /\ LET x == Encoded(mgr["ctrl"], [id |-> tx.id, kind |-> tx.kind], tx.ext)
       IN  /\ mgr' = [mgr EXCEPT !["ctrl"] = x.mgr]
           /\ eis' = x.eis
           /\ Deliver("node", x.frame)
           /\ encrypted' = [encrypted EXCEPT !["ctrl"] = Append(@, x.frame.nonce)]
           /\ AfterSending(x.frame.ei)
    /\ UNCHANGED <<parsed, replies, wants, accepted, due, count>>

(* The SPAN state has changed since the generator looked at it.            *)
CannotEncode ==
    /\ tx.step = "ready" /\ ~CanEncode("ctrl")
    /\ mgr' = [mgr EXCEPT !["ctrl"].own = NextSeq(mgr["ctrl"])]
    /\ Ends(FALSE)
    /\ UNCHANGED <<eis, channel, parsed, replies, wants, encrypted, accepted, due, count>>

(* The node does not acknowledge frame f, which is lost, or which it has   *)
(* received while the ACK is lost.                                         *)
Unacknowledged(f) ==
    /\ Faulty /\ due' = {}
    /\ \/ Fault("lost") /\ UNCHANGED channel
       \/ Fault("noAck") /\ Deliver("node", f)
Fails == tx' = Idle /\ last' = [id |-> tx.id, ok |-> FALSE, calm |-> FALSE]

(* A nonce is asked for once only.                                         *)
NonceGetFails ==
    /\ tx.step = "needsNonce"
    /\ mgr' = [mgr EXCEPT !["ctrl"].own = NextSeq(mgr["ctrl"])]
    /\ Unacknowledged(NonceGet(NextSeq(mgr["ctrl"]))) /\ Fails
    /\ UNCHANGED <<eis, parsed, replies, wants, encrypted, accepted>>

(* The transaction fails, with the generator advanced, or the same frame   *)
(* is sent again, as often as the command allows (maxSendAttempts).        *)
SendingFails ==
    /\ tx.step = "ready" /\ CanEncode("ctrl")
    /\ LET x == Encoded(mgr["ctrl"], [id |-> tx.id, kind |-> tx.kind], tx.ext)
       IN  /\ mgr' = [mgr EXCEPT !["ctrl"] = x.mgr]
           /\ eis' = x.eis
           /\ encrypted' = [encrypted EXCEPT !["ctrl"] = Append(@, x.frame.nonce)]
           /\ Unacknowledged(x.frame)
           /\ \/ Fails
              \/ /\ tx' = [tx EXCEPT !.step = "resend", !.frame = <<x.frame>>,
                                     !.ext = x.frame.ei, !.calm = FALSE]
                 /\ UNCHANGED last
    /\ UNCHANGED <<parsed, replies, wants, accepted>>

Resend ==
    /\ tx.step = "resend"
    /\ \/ Unacknowledged(tx.frame[1]) /\ (Fails \/ UNCHANGED <<tx, last>>)
       \/ /\ Deliver("node", tx.frame[1]) /\ AfterSending(tx.ext)
          /\ due' = {} /\ UNCHANGED count
    /\ UNCHANGED <<mgr, eis, parsed, replies, wants, encrypted, accepted>>

(* What the transaction waits for does not come.  That is a fault while a  *)
(* frame is still under way.                                               *)
NothingComes ==
    /\ tx.step \in {"awaitsNonce", "sent"}
    /\ \/ /\ channel["ctrl"] = <<>> /\ channel["node"] = <<>> /\ parsed = <<>>
          /\ Ends(tx.step = "sent" /\ tx.kind = "set")
          /\ UNCHANGED <<count, due>>
       \/ /\ Fault("late") /\ Faulty /\ channel["node"] = <<>>
          /\ tx' = Idle
          /\ last' = [id |-> tx.id, ok |-> tx.step = "sent" /\ tx.kind = "set",
                      calm |-> FALSE]
          /\ due' = {}
    /\ UNCHANGED <<mgr, eis, channel, parsed, replies, wants, encrypted, accepted>>
-----------------------------------------------------------------------------
(* What the controller receives.                                           *)

(* Parsing changes the manager; duplicates are dropped.                    *)
Parse ==
    /\ channel["ctrl"] # <<>>
    /\ channel' = Take("ctrl")
    /\ LET f == Head(channel["ctrl"])
           m == mgr["ctrl"]
           stored(s) == mgr' = [mgr EXCEPT !["ctrl"] = [StoreSeq(m, f) EXCEPT !.span = s]]
       IN  \/ /\ IsDuplicate(m, f)
              /\ UNCHANGED <<mgr, parsed, accepted, tx, due, count>>
           \/ /\ ~IsDuplicate(m, f) /\ f.type = "nonceGet"
              /\ stored(m.span)
              /\ parsed' = Append(parsed, [type |-> "nonceGet"])
              /\ UNCHANGED <<accepted, tx, due, count>>
           \/ /\ ~IsDuplicate(m, f) /\ f.type = "nonceReport"
              /\ stored(RemoteEI(f.ei))
              /\ parsed' = Append(parsed, [type |-> "nonceReport", ei |-> f.ei])
              /\ UNCHANGED <<accepted, tx, due, count>>
           \/ /\ ~IsDuplicate(m, f) /\ f.type = "encap"
              /\ \E expired \in BOOLEAN :
                   LET d == Decoded("ctrl", m, f, expired)
                   IN  /\ IF expired
                            THEN /\ m.span.type = "span" /\ MayUsePrevious("ctrl", m, f)
                                 /\ Fault("expired") /\ Faulty /\ Disturbed
                            ELSE UNCHANGED <<tx, due, count>>
                       /\ stored(d.span)
                       /\ parsed' = Append(parsed,
                            IF d.ok THEN [type |-> "command", cmd |-> f.cmd]
                                    ELSE [type |-> "undecodable"])
                       /\ accepted' = IF d.ok
                            THEN [accepted EXCEPT !["ctrl"] = Append(@, [cmd |-> f.cmd, nonce |-> f.nonce])]
                            ELSE accepted
    /\ UNCHANGED <<eis, replies, wants, encrypted, last>>

(* hasPendingTransactions sees the current transaction of the immediate    *)
(* queue, and those that wait in the normal queue only.                    *)
NonceReportPending == replies # <<>> /\ Head(replies) # Nothing

(* sendNonce: the nonce replaces whatever the SPAN table held.             *)
SendNonce ==
    /\ eis' = eis + 1
    /\ mgr' = [mgr EXCEPT !["ctrl"].span = LocalEI(eis + 1)]
    /\ replies' = Append(replies, eis + 1)

(* handleSecurity2NonceGet, handleSecurityS2DecodeError                    *)
HandleNonceGet ==
    /\ parsed # <<>> /\ Head(parsed).type \in {"nonceGet", "undecodable"}
    /\ parsed' = Tail(parsed)
    /\ IF NonceReportPending THEN UNCHANGED <<mgr, eis, replies>> ELSE SendNonce
    /\ UNCHANGED <<channel, tx, wants, encrypted, accepted, due, last, count>>

(* The transaction has an answer to wait for.  While a Get is being sent,  *)
(* an answer that comes early ends the sending.                            *)
Expecting == tx.step = "sent" \/ (tx.step = "resend" /\ tx.kind = "get")

(* Mutant of HandleNonceReport: the command is not sent again.             *)
HandleNonceReportOnly ==
    /\ parsed # <<>> /\ Head(parsed).type = "nonceReport"
    /\ parsed' = Tail(parsed)
    /\ \/ /\ tx.step = "awaitsNonce"
          /\ tx' = [tx EXCEPT !.step = "ready"]
          /\ UNCHANGED <<mgr, last>>
       \/ /\ Expecting
          /\ mgr' = [mgr EXCEPT !["ctrl"].span = RemoteEI(Head(parsed).ei)]
          /\ Ends(FALSE)
       \/ /\ tx.step # "awaitsNonce" /\ ~Expecting
          /\ UNCHANGED <<mgr, tx, last>>
    /\ UNCHANGED <<eis, channel, replies, wants, encrypted, accepted, due, count>>

(* A nonce report is what the transaction has asked for, or says that the  *)
(* node could not decode its command, which is sent again once.  Nobody    *)
(* waits for another one: its entropy input is stored all the same.        *)
HandleNonceReport ==
    /\ parsed # <<>> /\ Head(parsed).type = "nonceReport"
    /\ parsed' = Tail(parsed)
    /\ \/ /\ tx.step = "awaitsNonce"
          /\ tx' = [tx EXCEPT !.step = "ready"]
          /\ UNCHANGED <<mgr, last>>
       \/ /\ Expecting /\ tx.try = 1
          /\ mgr' = [mgr EXCEPT !["ctrl"].span = RemoteEI(Head(parsed).ei)]
          /\ tx' = [tx EXCEPT !.step = "ready", !.try = 2, !.frame = <<>>]
          /\ UNCHANGED last
       \/ /\ Expecting /\ tx.try = 2
          /\ Ends(FALSE)
          /\ UNCHANGED mgr
       \/ /\ tx.step # "awaitsNonce" /\ ~Expecting
          /\ UNCHANGED <<mgr, tx, last>>
    /\ UNCHANGED <<eis, channel, replies, wants, encrypted, accepted, due, count>>

(* The answer of the node, or a command of its own.                        *)
HandleCommand ==
    /\ parsed # <<>> /\ Head(parsed).type = "command"
    /\ parsed' = Tail(parsed)
    /\ LET c == Head(parsed).cmd
           answers == Expecting /\ tx.kind = "get" /\ c.kind = "response"
       IN  IF answers THEN Ends(TRUE) ELSE UNCHANGED <<tx, last>>
    /\ UNCHANGED <<mgr, eis, channel, replies, wants, encrypted, accepted, due, count>>
-----------------------------------------------------------------------------
(* The immediate queue.                                                    *)

(* Another transaction is added to the immediate queue, and ends.          *)
OtherBegins ==
    /\ count.other < MaxOthers
    /\ count' = [count EXCEPT !.other = @ + 1]
    /\ replies' = Append(replies, Nothing)
    /\ Disturbed
    /\ UNCHANGED <<mgr, eis, channel, parsed, wants, encrypted, accepted, last>>

OtherEnds ==
    /\ replies # <<>> /\ Head(replies) = Nothing
    /\ replies' = Tail(replies)
    /\ UNCHANGED <<mgr, eis, channel, parsed, tx, wants, encrypted, accepted, due, last, count>>

(* The nonce report is sent once.  When it is not acknowledged, the SPAN   *)
(* state is deleted, whatever it is by now, and the sequence number of the *)
(* node with it.                                                           *)
ReplyNonce ==
    /\ NonceReportPending
    /\ replies' = Tail(replies)
    /\ LET q == NextSeq(mgr["ctrl"])
           f == NonceReport(q, Head(replies))
           deleteNonce == mgr' = [mgr EXCEPT !["ctrl"] =
                                    [span |-> None, own |-> q, peer |-> <<>>]]
       IN  \/ /\ Deliver("node", f)
              /\ mgr' = [mgr EXCEPT !["ctrl"].own = q]
              /\ UNCHANGED <<tx, due, count>>
           \/ /\ Fault("lost") /\ Faulty /\ Disturbed
              /\ deleteNonce /\ UNCHANGED channel
           \/ /\ Fault("noAck") /\ Faulty /\ Disturbed
              /\ deleteNonce /\ Deliver("node", f)
    /\ UNCHANGED <<eis, parsed, wants, encrypted, accepted, last>>
-----------------------------------------------------------------------------
(* The node.                                                               *)

(* The node answers frame f with a new nonce.                              *)
NodeSendsNonce(m) ==
    /\ eis' = eis + 1
    /\ mgr' = [mgr EXCEPT !["node"] =
                 [m EXCEPT !.own = NextSeq(m), !.span = LocalEI(eis + 1)]]
    /\ channel' = [Take("node") EXCEPT !["ctrl"] =
                     Append(@, NonceReport(NextSeq(m), eis + 1))]
    /\ UNCHANGED encrypted

(* The node, with manager m, sends the encapsulated command c; chan are    *)
(* the channels without what the node has received.                        *)
NodeSends(m, c, chan) ==
    LET x == Encoded(m, c, Nothing)
    IN  /\ eis' = x.eis
        /\ mgr' = [mgr EXCEPT !["node"] = x.mgr]
        /\ channel' = [chan EXCEPT !["ctrl"] = Append(@, x.frame)]
        /\ encrypted' = [encrypted EXCEPT !["node"] = Append(@, x.frame.nonce)]

NodeReceives ==
    /\ channel["node"] # <<>>
    /\ LET f == Head(channel["node"])
           m == mgr["node"]
           stored == StoreSeq(m, f)
       IN  \/ /\ IsDuplicate(m, f)
              /\ channel' = Take("node")
              /\ UNCHANGED <<mgr, eis, wants, encrypted, accepted>>
           \/ /\ ~IsDuplicate(m, f) /\ f.type = "nonceGet"
              /\ NodeSendsNonce(stored)
              /\ UNCHANGED <<wants, accepted>>
           \/ /\ ~IsDuplicate(m, f) /\ f.type = "nonceReport"
              /\ wants' = Nothing
              /\ IF wants # Nothing
                   THEN NodeSends([stored EXCEPT !.span = RemoteEI(f.ei)],
                                  [id |-> wants, kind |-> "event"], Take("node"))
                   ELSE /\ mgr' = [mgr EXCEPT !["node"] =
                                     [stored EXCEPT !.span = RemoteEI(f.ei)]]
                        /\ channel' = Take("node")
                        /\ UNCHANGED <<eis, encrypted>>
              /\ UNCHANGED accepted
           \/ /\ ~IsDuplicate(m, f) /\ f.type = "encap"
              /\ LET d == Decoded("node", m, f, FALSE)
                     after == [stored EXCEPT !.span = d.span]
                 IN  \/ /\ ~d.ok
                        /\ NodeSendsNonce(after)
                        /\ UNCHANGED accepted
                     \/ /\ d.ok
                        /\ accepted' = [accepted EXCEPT !["node"] = Append(@, [cmd |-> f.cmd, nonce |-> f.nonce])]
                        /\ IF f.cmd.kind = "get"
                             THEN NodeSends(after,
                                    [id |-> f.cmd.id, kind |-> "response"], Take("node"))
                             ELSE /\ mgr' = [mgr EXCEPT !["node"] = after]
                                  /\ channel' = Take("node")
                                  /\ UNCHANGED <<eis, encrypted>>
              /\ UNCHANGED wants
    /\ UNCHANGED <<parsed, tx, due, replies, last, count>>

(* Both sides have the same generator in the same state, but for one       *)
(* command that may be on its way to the node, and a command the node      *)
(* sends now will cross one command at most: a Set that is sent for the    *)
(* second time ends its transaction, and the next one follows at once.     *)
InStep ==
    /\ \A p \in Party : mgr[p].span.type = "span"
    /\ mgr["ctrl"].span.seed = mgr["node"].span.seed
    /\ mgr["ctrl"].peer = <<mgr["node"].own>>
    /\ channel["ctrl"] = <<>> /\ parsed = <<>> /\ replies = <<>>
    /\ \/ /\ channel["node"] = <<>>
          /\ mgr["ctrl"].span.k = mgr["node"].span.k
          /\ ~(tx.step = "ready" /\ tx.try = 2)
       \/ /\ Len(channel["node"]) = 1 /\ tx.step = "sent"
          /\ mgr["ctrl"].span.k = mgr["node"].span.k + 1
          /\ LET f == Head(channel["node"])
             IN  f.type = "encap" /\ f.nonce = mgr["ctrl"].span.cur

(* The node sends a command of its own, after asking for a nonce if it     *)
(* needs one.                                                              *)
NodeEvent ==
    /\ wants = Nothing /\ count.event < MaxEvents
    /\ count' = [count EXCEPT !.event = @ + 1]
    /\ IF InStep THEN due' = due \cup {count.event + 1} /\ UNCHANGED tx ELSE Disturbed
    /\ LET m == mgr["node"]
           id == count.event + 1
       IN  \/ /\ m.span.type \in {"remoteEI", "span"}
              /\ NodeSends(m, [id |-> id, kind |-> "event"], channel)
              /\ UNCHANGED wants
           \/ /\ m.span.type \in {"none", "localEI"}
              /\ wants' = id
              /\ mgr' = [mgr EXCEPT !["node"].own = NextSeq(m)]
              /\ Deliver("ctrl", NonceGet(NextSeq(m)))
              /\ UNCHANGED <<eis, encrypted>>
    /\ UNCHANGED <<parsed, replies, accepted, last>>

(* The node stops waiting for a nonce.                                     *)
NodeGivesUp ==
    /\ wants # Nothing
    /\ channel["ctrl"] = <<>> /\ channel["node"] = <<>> /\ parsed = <<>> /\ replies = <<>>
    /\ wants' = Nothing
    /\ UNCHANGED <<mgr, eis, channel, parsed, tx, replies, encrypted, accepted, due, last, count>>
-----------------------------------------------------------------------------
Next ==
    \/ \E kind \in {"set", "get"} : Begin(kind)
    \/ RequestNonce \/ NonceGetFails \/ SendCommand \/ CannotEncode
    \/ SendingFails \/ Resend \/ NothingComes
    \/ Parse \/ HandleNonceGet \/ HandleNonceReport \/ HandleCommand
    \/ OtherBegins \/ OtherEnds \/ ReplyNonce
    \/ NodeReceives \/ NodeEvent \/ NodeGivesUp
    \/ SilentLoss \/ \E p \in Party : Twice(p)

Spec == Init /\ [][Next]_vars
-----------------------------------------------------------------------------
(* Type correctness of the managers, the queues and the transaction.       *)
Cmd == [id : Nat, kind : {"set", "get", "response", "event"}]
Seed == (1..eis) \X (1..eis)
TypeOK ==
    /\ \A p \in Party :
         /\ mgr[p].own \in 0..255
         /\ mgr[p].peer = <<>> \/ mgr[p].peer[1] \in 0..255
         /\ CASE mgr[p].span.type = "span" ->
                   mgr[p].span.seed \in Seed /\ mgr[p].span.k \in Nat \ {0}
              [] mgr[p].span.type \in {"localEI", "remoteEI"} -> mgr[p].span.ei \in 1..eis
              [] OTHER -> mgr[p].span = None
         /\ \A i \in DOMAIN accepted[p] : accepted[p][i].cmd \in Cmd
    /\ tx.step \in {"idle", "needsNonce", "awaitsNonce", "ready", "resend", "sent"}
    /\ tx.step = "resend" => tx.frame # <<>>
    /\ tx.id \in 0..MaxTransactions /\ tx.try \in 1..2 /\ tx.ext \in 0..eis
    /\ replies \in Seq(0..eis)
    /\ due \subseteq 1..MaxEvents /\ wants \in 0..MaxEvents

Commands(p) == {accepted[p][i].cmd : i \in DOMAIN accepted[p]}

(* A party never encrypts two commands with the same nonce, however often  *)
(* the generators are set up again in the middle of an exchange.           *)
NonceOnce == \A p \in Party : IsInjective(encrypted[p])

(* A frame is decoded at most once, although it may arrive twice, behind   *)
(* other frames, when only the sequence number of the last one is          *)
(* remembered, or after deleteNonce has forgotten that one too.            *)
AcceptedOnce ==
    \A p \in Party : \A i, j \in DOMAIN accepted[p] :
      accepted[p][i].nonce = accepted[p][j].nonce => i = j

(* Whatever state the two sides have been left in by lost, repeated, late  *)
(* or crossing frames, a transaction that is not disturbed itself brings   *)
(* them in step again: its command is decoded by the node, at the latest   *)
(* when it is sent a second time, and it succeeds.                         *)
Told(id) == \E c \in Commands("node") : c.id = id /\ c.kind # "event"
SelfHeals == last.calm /\ channel["node"] = <<>> => last.ok /\ Told(last.id)

(* What that rests on: the sequence numbers have not come round to the one *)
(* that is remembered, so that an undisturbed transaction's frame would be *)
(* taken for a duplicate.  That takes some 255 frames lost in a row.       *)
NoneMistaken ==
    /\ tx.calm => \A p \in Party :
         channel[p] # <<>> => ~IsDuplicate(mgr[p], Head(channel[p]))
    /\ last.calm /\ ~Told(last.id) /\ channel["node"] # <<>> =>
         ~IsDuplicate(mgr["node"], Head(channel["node"]))

(* Security2CC.ts, decryptSinglecast: both sides may send a command with   *)
(* the same SPAN at the same time.  A command the node sends while the     *)
(* sides are in step is decoded by the controller, even if it crosses one. *)
CrossingIsTolerated ==
    Quiet => \A i \in due : [id |-> i, kind |-> "event"] \in Commands("ctrl")
=============================================================================
