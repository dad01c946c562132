-------------------------- MODULE SecurityS2Proofs --------------------------
(***************************************************************************)
(* Proofs about SecurityS2 for any number of commands, events and faults,  *)
(* any number of decryption attempts and any first sequence number: types, *)
(* no nonce encrypts two commands of a party, no frame is decoded twice,   *)
(* an event that crosses a command is decoded, and a transaction that      *)
(* nothing disturbs succeeds.                                              *)
(***************************************************************************)
EXTENDS SecurityS2, SequenceTheorems, TLAPS

Bytes    == 0..255
Seeds(e) == (1..e) \X (1..e)
Nonces(e) == Seeds(e) \X Nat
Spans(e) ==
    {None} \cup [type : {"localEI", "remoteEI"}, ei : 1..e]
      \cup [type : {"span"}, seed : Seeds(e), k : Nat \ {0}, cur : Nonces(e) \cup {NoNonce}]
Managers(e) == [span : Spans(e), own : Bytes, peer : Seq(Bytes)]
Encaps(e) == [type : {"encap"}, seq : Bytes, ei : 0..e, nonce : Nonces(e), cmd : Cmd]
Frames(e) ==
    [type : {"nonceGet"}, seq : Bytes]
      \cup [type : {"nonceReport"}, seq : Bytes, ei : 1..e] \cup Encaps(e)
Parsed(e) ==
    [type : {"nonceGet", "undecodable"}] \cup [type : {"nonceReport"}, ei : 1..e]
      \cup [type : {"command"}, cmd : Cmd]
Acceptances(e) == [cmd : Cmd, nonce : Nonces(e)]
Steps == {"idle", "needsNonce", "awaitsNonce", "ready", "resend", "sent"}
Transactions(e) ==
    {t \in [step : Steps, id : 0..MaxTransactions, kind : {"set", "get"}, try : 1..2,
            ext : 0..e, frame : Seq(Encaps(e)), calm : BOOLEAN] :
       t.step = "resend" => t.frame # <<>>}
Counts == [tx : 0..MaxTransactions, event : 0..MaxEvents, fault : 0..MaxFaults,
           other : 0..MaxOthers]

(* What a party with SPAN state s has encrypted with and decoded: nonces   *)
(* that the generator is past, and none of the generator it may still set  *)
(* up from its own entropy input.  The nonce of the last encryption, which *)
(* may be accepted once more, was not accepted so far.                     *)
History(s, enc, acc) ==
    /\ \A i, j \in 1..Len(enc) : enc[i] = enc[j] => i = j
    /\ \A i, j \in 1..Len(acc) : acc[i].nonce = acc[j].nonce => i = j
    /\ s.type = "localEI" =>
         /\ \A i \in 1..Len(enc) : enc[i][1][2] # s.ei
         /\ \A i \in 1..Len(acc) : acc[i].nonce[1][2] # s.ei
    /\ s.type = "span" =>
         /\ \A i \in 1..Len(enc) : enc[i][1] = s.seed => enc[i][2] < s.k
         /\ \A i \in 1..Len(acc) : acc[i].nonce[1] = s.seed => acc[i].nonce[2] < s.k
         /\ s.cur # NoNonce =>
              /\ s.cur = <<s.seed, s.k - 1>>
              /\ \A i \in 1..Len(acc) : acc[i].nonce # s.cur

Sides(mg, enc, acc, e) ==
    /\ e \in Nat
    /\ mg \in [Party -> Managers(e)]
    /\ enc \in [Party -> Seq(Nonces(e))]
    /\ acc \in [Party -> Seq(Acceptances(e))]
    /\ \A p \in Party : History(mg[p].span, enc[p], acc[p])

Traffic(chan, pars, t, reps, e) ==
    /\ chan \in [Party -> Seq(Frames(e))]
    /\ pars \in Seq(Parsed(e))
    /\ t \in Transactions(e)
    /\ reps \in Seq(0..e)

Bounds ==
    /\ count \in Counts
    /\ wants \in 0..MaxEvents
    /\ due \subseteq 1..MaxEvents

IInv ==
    /\ Sides(mgr, encrypted, accepted, eis)
    /\ Traffic(channel, parsed, tx, replies, eis)
    /\ Bounds
-----------------------------------------------------------------------------
(* More entropy inputs were generated.                                     *)
LEMMA SetsGrow ==
    ASSUME NEW e \in Nat, NEW e2 \in Nat, e <= e2
    PROVE  /\ Nonces(e) \subseteq Nonces(e2) /\ Managers(e) \subseteq Managers(e2)
           /\ Acceptances(e) \subseteq Acceptances(e2) /\ Frames(e) \subseteq Frames(e2)
           /\ Parsed(e) \subseteq Parsed(e2) /\ Transactions(e) \subseteq Transactions(e2)
           /\ 0..e \subseteq 0..e2 /\ Spans(e) \subseteq Spans(e2)
<1>1. 1..e \subseteq 1..e2 /\ 0..e \subseteq 0..e2
  OBVIOUS
<1>2. Seeds(e) \subseteq Seeds(e2)
  BY <1>1 DEF Seeds
<1>3. Nonces(e) \subseteq Nonces(e2)
  BY <1>2 DEF Nonces
<1>4. Spans(e) \subseteq Spans(e2)
  BY <1>1, <1>2, <1>3 DEF Spans
<1>5. Managers(e) \subseteq Managers(e2)
  BY <1>4 DEF Managers
<1>6. Acceptances(e) \subseteq Acceptances(e2)
  BY <1>3 DEF Acceptances
<1>7. Encaps(e) \subseteq Encaps(e2)
  BY <1>1, <1>3 DEF Encaps
<1>8. Frames(e) \subseteq Frames(e2)
  BY <1>1, <1>7 DEF Frames
<1>9. Parsed(e) \subseteq Parsed(e2)
  BY <1>1 DEF Parsed
<1>10. Transactions(e) \subseteq Transactions(e2)
  <2>1. Seq(Encaps(e)) \subseteq Seq(Encaps(e2))
    BY <1>7
  <2> QED
    BY <1>1, <2>1 DEF Transactions
<1> QED
  BY <1>1, <1>3, <1>4, <1>5, <1>6, <1>8, <1>9, <1>10

LEMMA SeqGrows ==
    ASSUME NEW S, NEW T, S \subseteq T
    PROVE  Seq(S) \subseteq Seq(T)
OBVIOUS

LEMMA SidesGrow ==
    ASSUME NEW mg, NEW enc, NEW acc, NEW e \in Nat, NEW e2 \in Nat, e <= e2,
           Sides(mg, enc, acc, e)
    PROVE  Sides(mg, enc, acc, e2)
<1>1. /\ Managers(e) \subseteq Managers(e2)
      /\ Seq(Nonces(e)) \subseteq Seq(Nonces(e2))
      /\ Seq(Acceptances(e)) \subseteq Seq(Acceptances(e2))
  BY SetsGrow, SeqGrows
<1> QED
  BY <1>1 DEF Sides

LEMMA TrafficGrows ==
    ASSUME NEW chan, NEW pars, NEW t, NEW reps, NEW e \in Nat, NEW e2 \in Nat, e <= e2,
           Traffic(chan, pars, t, reps, e)
    PROVE  Traffic(chan, pars, t, reps, e2)
<1>1. /\ Seq(Frames(e)) \subseteq Seq(Frames(e2))
      /\ Seq(Parsed(e)) \subseteq Seq(Parsed(e2))
      /\ Transactions(e) \subseteq Transactions(e2)
      /\ Seq(0..e) \subseteq Seq(0..e2)
  BY SetsGrow, SeqGrows
<1> QED
  BY <1>1 DEF Traffic

(* The manager of one party is replaced.                                   *)
LEMMA Replaced ==
    ASSUME NEW mg, NEW enc, NEW acc, NEW e \in Nat, Sides(mg, enc, acc, e),
           NEW p \in Party, NEW m \in Managers(e), History(m.span, enc[p], acc[p])
    PROVE  Sides([mg EXCEPT ![p] = m], enc, acc, e)
BY DEF Sides

LEMMA SeqType ==
    ASSUME NEW m, m.own \in Bytes
    PROVE  NextSeq(m) \in Bytes
BY DEF NextSeq, Bytes

LEMMA OwnHistory ==
    ASSUME NEW e \in Nat, NEW m \in Managers(e), NEW q \in Bytes
    PROVE  [m EXCEPT !.own = q] \in Managers(e) /\ [m EXCEPT !.own = q].span = m.span
BY DEF Managers

(* The next command gets the next sequence number.                         *)
LEMMA Numbered ==
    ASSUME NEW mg, NEW enc, NEW acc, NEW e \in Nat, Sides(mg, enc, acc, e), NEW p \in Party
    PROVE  /\ NextSeq(mg[p]) \in Bytes
           /\ Sides([mg EXCEPT ![p].own = NextSeq(mg[p])], enc, acc, e)
<1> DEFINE m == [mg[p] EXCEPT !.own = NextSeq(mg[p])]
<1>1. mg[p] \in Managers(e) /\ History(mg[p].span, enc[p], acc[p])
  BY DEF Sides
<1>2. NextSeq(mg[p]) \in Bytes
  BY <1>1, SeqType DEF Managers
<1>3. m \in Managers(e) /\ m.span = mg[p].span
  BY <1>1, <1>2, OwnHistory
<1>4. [mg EXCEPT ![p].own = NextSeq(mg[p])] = [mg EXCEPT ![p] = m]
  OBVIOUS
<1> HIDE DEF m
<1> QED
  BY <1>1, <1>2, <1>3, <1>4, Replaced

LEMMA AcceptedTypes ==
    ASSUME NEW e \in Nat, NEW acc \in Seq(Acceptances(e))
    PROVE  \A i \in 1..Len(acc) : acc[i].nonce \in Nonces(e) /\ acc[i].nonce[2] \in Nat
<1>1. \A i \in 1..Len(acc) : acc[i] \in Acceptances(e)
  OBVIOUS
<1>2. \A a \in Acceptances(e) : a.nonce \in Nonces(e)
  BY DEF Acceptances
<1>3. \A n \in Nonces(e) : n[2] \in Nat
  BY DEF Nonces
<1> QED
  BY <1>1, <1>2, <1>3

(* Seeds are unknown to a party that has no generator, also with the next  *)
(* entropy input.                                                          *)
LEMMA FreshHistory ==
    ASSUME NEW e \in Nat, NEW enc \in Seq(Nonces(e)), NEW acc \in Seq(Acceptances(e)),
           NEW s, History(s, enc, acc)
    PROVE  /\ History(None, enc, acc)
           /\ \A x : History(RemoteEI(x), enc, acc)
           /\ History(LocalEI(e + 1), enc, acc)
<1>1. History(None, enc, acc) /\ \A x : History(RemoteEI(x), enc, acc)
  BY DEF History, None, RemoteEI
<1>2. /\ \A i \in 1..Len(enc) : enc[i][1][2] # e + 1
      /\ \A i \in 1..Len(acc) : acc[i].nonce[1][2] # e + 1
  <2>1. \A n \in Nonces(e) : n[1][2] # e + 1
    BY DEF Nonces, Seeds
  <2>2. \A i \in 1..Len(enc) : enc[i] \in Nonces(e)
    OBVIOUS
  <2>3. \A i \in 1..Len(acc) : acc[i].nonce \in Nonces(e)
    BY AcceptedTypes
  <2> QED
    BY <2>1, <2>2, <2>3
<1>3. LocalEI(e + 1).type = "localEI" /\ LocalEI(e + 1).ei = e + 1
  BY DEF LocalEI
<1> QED
  BY <1>1, <1>2, <1>3 DEF History

LEMMA FreshTypes ==
    ASSUME NEW e \in Nat
    PROVE  /\ None \in Spans(e)
           /\ \A x \in 1..e : RemoteEI(x) \in Spans(e) /\ LocalEI(x) \in Spans(e)
BY DEF Spans, RemoteEI, LocalEI

(* Encoding takes a nonce that was neither used nor accepted before.       *)
LEMMA EncodedHistory ==
    ASSUME NEW e \in Nat, NEW enc \in Seq(Nonces(e)), NEW acc \in Seq(Acceptances(e)),
           NEW seed \in Seeds(e + 1), NEW k \in Nat \ {0}, NEW s, History(s, enc, acc),
           \/ s.type = "span" /\ s.seed = seed /\ s.k = k
           \/ seed[1] = e + 1 /\ k = 1
    PROVE  History(SPAN(seed, k + 1, Nonce(seed, k)), Append(enc, Nonce(seed, k)), acc)
<1> DEFINE n == Nonce(seed, k)
           enc2 == Append(enc, n)
           s2 == SPAN(seed, k + 1, n)
<1>1. n[1] = seed /\ n[2] = k
  BY DEF Nonce
<1>2. /\ \A i \in 1..Len(enc) : enc[i][1] = seed => enc[i][2] < k
      /\ \A i \in 1..Len(acc) : acc[i].nonce[1] = seed => acc[i].nonce[2] < k
  <2>1. CASE s.type = "span" /\ s.seed = seed /\ s.k = k
    BY <2>1 DEF History
  <2>2. CASE seed[1] = e + 1
    <3>1. \A x \in Nonces(e) : x[1][1] # e + 1
      BY DEF Nonces, Seeds
    <3>2. \A i \in 1..Len(enc) : enc[i] \in Nonces(e)
      OBVIOUS
    <3>3. \A i \in 1..Len(acc) : acc[i].nonce \in Nonces(e)
      BY AcceptedTypes
    <3> QED
      BY <2>2, <3>1, <3>2, <3>3
  <2> QED
    BY <2>1, <2>2
<1>3. /\ \A i \in 1..Len(enc) : enc[i] # n
      /\ \A i \in 1..Len(acc) : acc[i].nonce # n
  BY <1>1, <1>2
<1>4. /\ s2.type = "span" /\ s2.seed = seed /\ s2.k = k + 1 /\ s2.cur = n
      /\ s2.cur = <<s2.seed, s2.k - 1>>
  BY DEF SPAN, Nonce
<1>5. /\ Len(enc2) = Len(enc) + 1 /\ enc2[Len(enc) + 1] = n
      /\ \A i \in 1..Len(enc) : enc2[i] = enc[i]
  OBVIOUS
<1> HIDE DEF n, enc2, s2
<1>6. \A i, j \in 1..Len(enc2) : enc2[i] = enc2[j] => i = j
  BY <1>3, <1>5 DEF History
<1>7. /\ \A i \in 1..Len(enc2) : enc2[i][1] = seed => enc2[i][2] < k + 1
      /\ \A i \in 1..Len(acc) : acc[i].nonce[1] = seed => acc[i].nonce[2] < k + 1
  <2>1. \A i \in 1..Len(enc2) : enc2[i] = n \/ (i \in 1..Len(enc) /\ enc2[i] = enc[i])
    BY <1>5
  <2>2. \A i \in 1..Len(enc) : enc[i][2] \in Nat
    BY DEF Nonces
  <2>3. \A i \in 1..Len(acc) : acc[i].nonce[2] \in Nat
    BY AcceptedTypes
  <2>4. ASSUME NEW i \in 1..Len(enc2), enc2[i][1] = seed PROVE enc2[i][2] < k + 1
    <3>1. CASE enc2[i] = n
      BY <1>1, <3>1
    <3>2. CASE i \in 1..Len(enc) /\ enc2[i] = enc[i]
      BY <1>2, <2>2, <2>4, <3>2
    <3> QED
      BY <2>1, <3>1, <3>2
  <2>5. ASSUME NEW i \in 1..Len(acc), acc[i].nonce[1] = seed PROVE acc[i].nonce[2] < k + 1
    BY <1>2, <2>3, <2>5
  <2> QED
    BY <2>4, <2>5
<1>8. \A i, j \in 1..Len(acc) : acc[i].nonce = acc[j].nonce => i = j
  BY DEF History
<1>9. History(s2, enc2, acc)
  BY <1>3, <1>4, <1>6, <1>7, <1>8 DEF History
<1> QED
  BY <1>9 DEF n, enc2, s2
LEMMA EncodedKeeps ==
    ASSUME NEW e \in Nat, eis = e, NEW m \in Managers(e), m.span.type \in {"remoteEI", "span"},
           NEW enc \in Seq(Nonces(e)), NEW acc \in Seq(Acceptances(e)),
           History(m.span, enc, acc), NEW c \in Cmd, NEW ext \in 0..e
    PROVE  LET x == Encoded(m, c, ext)
           IN  /\ x.eis \in {e, e + 1} /\ x.frame \in Encaps(x.eis)
               /\ x.mgr \in Managers(x.eis)
               /\ History(x.mgr.span, Append(enc, x.frame.nonce), acc)
<1> DEFINE x == Encoded(m, c, ext)
           fresh == m.span.type = "remoteEI"
           seed == IF fresh THEN <<e + 1, m.span.ei>> ELSE m.span.seed
           k == IF fresh THEN 1 ELSE m.span.k
           e2 == IF fresh THEN e + 1 ELSE e
           ei == IF fresh THEN e + 1 ELSE ext
           n == Nonce(seed, k)
           s2 == SPAN(seed, k + 1, n)
<1>1. /\ x.eis = e2 /\ x.frame = Encap(NextSeq(m), ei, n, c)
      /\ x.mgr = [m EXCEPT !.own = NextSeq(m), !.span = s2]
  BY DEF Encoded
<1>2. /\ m.span \in Spans(e) /\ m.own \in Bytes /\ m.peer \in Seq(Bytes)
      /\ m = [span |-> m.span, own |-> m.own, peer |-> m.peer]
  BY DEF Managers
<1>3. /\ fresh => m.span.ei \in 1..e
      /\ ~fresh => m.span.type = "span" /\ m.span.seed \in Seeds(e) /\ m.span.k \in Nat \ {0}
  BY <1>2 DEF Spans, None
<1>4. /\ seed \in Seeds(e2) /\ k \in Nat \ {0} /\ e2 \in {e, e + 1} /\ ei \in 0..e2
      /\ fresh => seed[1] = e + 1 /\ k = 1
      /\ ~fresh => m.span.type = "span" /\ m.span.seed = seed /\ m.span.k = k
  BY <1>3 DEF Seeds
<1> HIDE DEF fresh, seed, k, e2, ei, x
<1>5. seed \in Seeds(e + 1)
  BY <1>4 DEF Seeds
<1>6. History(s2, Append(enc, n), acc)
  BY <1>4, <1>5, EncodedHistory
<1>7. n \in Nonces(e2)
  BY <1>4 DEF Nonce, Nonces
<1> HIDE DEF n
<1>8. s2 \in Spans(e2)
  BY <1>4, <1>7 DEF SPAN, Spans
<1> HIDE DEF s2
<1>9. NextSeq(m) \in Bytes
  BY <1>2, SeqType
<1>10. x.mgr = [span |-> s2, own |-> NextSeq(m), peer |-> m.peer]
  BY <1>1, <1>2
<1>11. x.mgr \in Managers(e2) /\ x.mgr.span = s2
  BY <1>2, <1>8, <1>9, <1>10 DEF Managers
<1>12. x.frame \in Encaps(e2) /\ x.frame.nonce = n
  BY <1>1, <1>4, <1>7, <1>9 DEF Encap, Encaps
<1> QED
  BY <1>1, <1>4, <1>6, <1>11, <1>12 DEF x

(* Decoding a frame: nothing is accepted a second time.                    *)
LEMMA AcceptedHistory ==
    ASSUME NEW e \in Nat, NEW enc \in Seq(Nonces(e)), NEW acc \in Seq(Acceptances(e)),
           NEW s, History(s, enc, acc), NEW c, NEW n, NEW s2, s2.type = "span",
           \A i \in 1..Len(acc) : acc[i].nonce # n,
           \A i \in 1..Len(enc) : enc[i][1] = s2.seed => enc[i][2] < s2.k,
           \A i \in 1..Len(acc) : acc[i].nonce[1] = s2.seed => acc[i].nonce[2] < s2.k,
           n[1] = s2.seed => n[2] < s2.k,
           s2.cur = NoNonce
    PROVE  History(s2, enc, Append(acc, [cmd |-> c, nonce |-> n]))
<1> DEFINE a == [cmd |-> c, nonce |-> n]
           acc2 == Append(acc, a)
<1>1. /\ Len(acc2) = Len(acc) + 1 /\ acc2[Len(acc) + 1].nonce = n
      /\ \A i \in 1..Len(acc) : acc2[i] = acc[i]
  OBVIOUS
<1> HIDE DEF acc2
<1>2. \A i, j \in 1..Len(acc2) : acc2[i].nonce = acc2[j].nonce => i = j
  BY <1>1 DEF History
<1>3. \A i \in 1..Len(acc2) : acc2[i].nonce[1] = s2.seed => acc2[i].nonce[2] < s2.k
  BY <1>1
<1>4. \A i, j \in 1..Len(enc) : enc[i] = enc[j] => i = j
  BY DEF History
<1>5. History(s2, enc, acc2)
  BY <1>2, <1>3, <1>4 DEF History
<1> QED
  BY <1>5 DEF acc2
LEMMA TypesOfSpan ==
    ASSUME NEW e \in Nat, NEW s \in Spans(e)
    PROVE  /\ s.type \in {"none", "localEI", "remoteEI", "span"}
           /\ s.type = "localEI" => s.ei \in 1..e
           /\ s.type = "span" => /\ s.seed \in Seeds(e) /\ s.k \in Nat \ {0}
                                 /\ s.cur \in Nonces(e) \cup {NoNonce}
                                 /\ s = SPAN(s.seed, s.k, s.cur)
BY DEF Spans, None, SPAN

LEMMA TriedKeeps ==
    ASSUME S2Assumption, NEW e \in Nat,
           NEW enc \in Seq(Nonces(e)), NEW acc \in Seq(Acceptances(e)),
           NEW s \in Spans(e), s.type = "span", History(s, enc, acc), NEW f \in Encaps(e)
    PROVE  LET d == TrySPAN(s, f)
           IN  /\ d.span \in Spans(e)
               /\ d.ok => History(d.span, enc, Append(acc, [cmd |-> f.cmd, nonce |-> f.nonce]))
               /\ ~d.ok => History(d.span, enc, acc)
<1> DEFINE tries == IF f.ei # Nothing THEN 1 ELSE DecryptAttempts
           ok == \E k \in s.k..(s.k + tries - 1) : f.nonce = Nonce(s.seed, k)
           k2 == IF ok THEN f.nonce[2] + 1 ELSE s.k + tries
           s2 == SPAN(s.seed, k2, NoNonce)
           d == TrySPAN(s, f)
<1>1. d = [ok |-> ok, span |-> s2]
  BY DEF TrySPAN
<1>2. tries \in Nat \ {0}
  BY S2Assumption DEF S2Assumption
<1>3. /\ s.seed \in Seeds(e) /\ s.k \in Nat \ {0}
      /\ \A i \in 1..Len(enc) : enc[i][1] = s.seed => enc[i][2] < s.k
      /\ \A i \in 1..Len(acc) : acc[i].nonce[1] = s.seed => acc[i].nonce[2] < s.k
  BY TypesOfSpan DEF History
<1>4. \A i \in 1..Len(enc) : enc[i][2] \in Nat
  BY DEF Nonces
<1>5. \A i \in 1..Len(acc) : acc[i].nonce[2] \in Nat
  BY AcceptedTypes
<1>6. ok => f.nonce[1] = s.seed /\ f.nonce[2] \in Nat /\ f.nonce[2] >= s.k
  <2>1. ASSUME NEW k \in s.k..(s.k + tries - 1), f.nonce = Nonce(s.seed, k)
        PROVE  f.nonce[1] = s.seed /\ f.nonce[2] \in Nat /\ f.nonce[2] >= s.k
    BY <1>2, <1>3, <2>1 DEF Nonce
  <2> QED
    BY <2>1
<1> HIDE DEF tries, ok
<1>7. k2 \in Nat \ {0} /\ k2 > s.k /\ (ok => f.nonce[2] < k2)
  BY <1>2, <1>3, <1>6
<1> HIDE DEF k2
<1>8. s2.type = "span" /\ s2.seed = s.seed /\ s2.k = k2 /\ s2.cur = NoNonce
  BY DEF SPAN
<1>9. s2 \in Spans(e)
  BY <1>3, <1>7 DEF SPAN, Spans
<1> HIDE DEF s2
<1>10. /\ \A i \in 1..Len(enc) : enc[i][1] = s2.seed => enc[i][2] < s2.k
       /\ \A i \in 1..Len(acc) : acc[i].nonce[1] = s2.seed => acc[i].nonce[2] < s2.k
  <2>1. ASSUME NEW i \in 1..Len(enc), enc[i][1] = s2.seed PROVE enc[i][2] < s2.k
    BY <1>3, <1>4, <1>7, <1>8, <2>1
  <2>2. ASSUME NEW i \in 1..Len(acc), acc[i].nonce[1] = s2.seed PROVE acc[i].nonce[2] < s2.k
    BY <1>3, <1>5, <1>7, <1>8, <2>2
  <2> QED
    BY <2>1, <2>2
<1>11. ASSUME ok
       PROVE  History(s2, enc, Append(acc, [cmd |-> f.cmd, nonce |-> f.nonce]))
  <2>1. ASSUME NEW i \in 1..Len(acc) PROVE acc[i].nonce # f.nonce
    BY <1>3, <1>5, <1>6, <1>11
  <2>2. f.nonce[1] = s2.seed => f.nonce[2] < s2.k
    BY <1>7, <1>8, <1>11
  <2> QED
    BY <1>8, <1>10, <2>1, <2>2, AcceptedHistory
<1>12. History(s2, enc, acc)
  BY <1>8, <1>10 DEF History
<1> QED
  BY <1>1, <1>9, <1>11, <1>12

LEMMA DecodedKeeps ==
    ASSUME S2Assumption, NEW e \in Nat,
           NEW enc \in Seq(Nonces(e)), NEW acc \in Seq(Acceptances(e)),
           NEW p, NEW m \in Managers(e), History(m.span, enc, acc), NEW f \in Encaps(e),
           NEW expired
    PROVE  LET d == Decoded(p, m, f, expired)
           IN  /\ d.span \in Spans(e)
               /\ d.ok => History(d.span, enc, Append(acc, [cmd |-> f.cmd, nonce |-> f.nonce]))
               /\ ~d.ok => History(d.span, enc, acc)
<1> DEFINE s == m.span
           d == Decoded(p, m, f, expired)
           Goal == /\ d.span \in Spans(e)
                   /\ d.ok => History(d.span, enc, Append(acc, [cmd |-> f.cmd, nonce |-> f.nonce]))
                   /\ ~d.ok => History(d.span, enc, acc)
<1>1. s \in Spans(e) /\ f.ei \in 0..e
  BY DEF Managers, Encaps
<1>2. CASE s.type \in {"none", "remoteEI"}
  <2>1. d = [ok |-> FALSE, span |-> s]
    BY <1>2 DEF Decoded
  <2> QED
    BY <1>1, <2>1
<1>3. CASE s.type = "localEI"
  <2>1. s.ei \in 1..e
    BY <1>1, <1>3, TypesOfSpan
  <2> DEFINE seed == <<f.ei, s.ei>>
             s2 == SPAN(seed, 2, NoNonce)
  <2>2. CASE f.ei # Nothing /\ f.nonce = Nonce(seed, 1)
    <3>1. d = [ok |-> TRUE, span |-> s2]
      BY <1>3, <2>2 DEF Decoded
    <3>2. seed \in Seeds(e)
      BY <1>1, <2>1, <2>2 DEF Seeds, Nothing
    <3>3. s2.type = "span" /\ s2.seed = seed /\ s2.k = 2 /\ s2.cur = NoNonce
      BY DEF SPAN
    <3>4. s2 \in Spans(e)
      BY <3>2 DEF SPAN, Spans
    <3>5. f.nonce[1] = seed /\ f.nonce[2] = 1 /\ seed[2] = s.ei
      BY <2>2 DEF Nonce
    <3> HIDE DEF seed, s2
    <3>6. /\ \A i \in 1..Len(enc) : enc[i][1] # seed
          /\ \A i \in 1..Len(acc) : acc[i].nonce[1] # seed
      BY <1>3, <3>5 DEF History
    <3>7. /\ \A i \in 1..Len(acc) : acc[i].nonce # f.nonce
          /\ f.nonce[1] = s2.seed => f.nonce[2] < s2.k
          /\ \A i \in 1..Len(enc) : enc[i][1] = s2.seed => enc[i][2] < s2.k
          /\ \A i \in 1..Len(acc) : acc[i].nonce[1] = s2.seed => acc[i].nonce[2] < s2.k
      BY <3>3, <3>5, <3>6
    <3>8. History(s2, enc, Append(acc, [cmd |-> f.cmd, nonce |-> f.nonce]))
      BY <3>3, <3>7, AcceptedHistory
    <3> QED
      BY <3>1, <3>4, <3>8
  <2>3. CASE ~(f.ei # Nothing /\ f.nonce = Nonce(seed, 1))
    <3>1. d = [ok |-> FALSE, span |-> s]
      BY <1>3, <2>3 DEF Decoded
    <3> QED
      BY <1>1, <3>1
  <2> QED
    BY <2>2, <2>3
<1>4. CASE s.type = "span"
  <2>1. CASE MayUsePrevious(p, m, f) /\ ~expired /\ f.nonce = s.cur
    <3> DEFINE s2 == SPAN(s.seed, s.k, NoNonce)
    <3>1. /\ s = SPAN(s.seed, s.k, s.cur) /\ s.seed \in Seeds(e) /\ s.k \in Nat \ {0}
          /\ s.cur # NoNonce
      BY <1>1, <1>4, <2>1, TypesOfSpan DEF MayUsePrevious
    <3>2. [s EXCEPT !.cur = NoNonce] = s2
      BY <3>1 DEF SPAN
    <3>3. d = [ok |-> TRUE, span |-> s2]
      BY <1>4, <2>1, <3>2 DEF Decoded
    <3>4. s2.type = "span" /\ s2.seed = s.seed /\ s2.k = s.k /\ s2.cur = NoNonce
      BY DEF SPAN
    <3>5. s2 \in Spans(e)
      BY <3>1 DEF SPAN, Spans
    <3> HIDE DEF s2
    <3>6. /\ s.cur = <<s.seed, s.k - 1>> /\ \A i \in 1..Len(acc) : acc[i].nonce # f.nonce
          /\ \A i \in 1..Len(enc) : enc[i][1] = s2.seed => enc[i][2] < s2.k
          /\ \A i \in 1..Len(acc) : acc[i].nonce[1] = s2.seed => acc[i].nonce[2] < s2.k
      BY <1>4, <2>1, <3>1, <3>4 DEF History
    <3>7. f.nonce[1] = s2.seed => f.nonce[2] < s2.k
      BY <2>1, <3>1, <3>4, <3>6
    <3>8. History(s2, enc, Append(acc, [cmd |-> f.cmd, nonce |-> f.nonce]))
      BY <3>4, <3>6, <3>7, AcceptedHistory
    <3> QED
      BY <3>3, <3>5, <3>8
  <2>2. CASE ~(MayUsePrevious(p, m, f) /\ ~expired /\ f.nonce = s.cur)
    <3>1. d = TrySPAN(s, f)
      BY <1>4, <2>2 DEF Decoded
    <3> QED
      BY <1>1, <1>4, <3>1, TriedKeeps
  <2> QED
    BY <2>1, <2>2
<1> QED
  BY <1>1, <1>2, <1>3, <1>4, TypesOfSpan
-----------------------------------------------------------------------------
(* What the steps do to a party, the channels and the transaction          *)

Mgr(s, own, peer) == [span |-> s, own |-> own, peer |-> peer]

LEMMA ManagerType ==
    ASSUME NEW e \in Nat, NEW m \in Managers(e)
    PROVE  /\ m = Mgr(m.span, m.own, m.peer)
           /\ m.span \in Spans(e) /\ m.own \in Bytes /\ m.peer \in Seq(Bytes)
           /\ NextSeq(m) \in Bytes
           /\ \A s \in Spans(e), q \in Bytes, w \in Seq(Bytes) : Mgr(s, q, w) \in Managers(e)
<1>1. /\ m = Mgr(m.span, m.own, m.peer)
      /\ m.span \in Spans(e) /\ m.own \in Bytes /\ m.peer \in Seq(Bytes)
      /\ \A s \in Spans(e), q \in Bytes, w \in Seq(Bytes) : Mgr(s, q, w) \in Managers(e)
  BY DEF Managers, Mgr
<1> QED
  BY <1>1, SeqType

(* Party p gets the manager m, or the one m becomes by an encryption.      *)
LEMMA PutManager ==
    ASSUME IInv, NEW p \in Party, NEW m \in Managers(eis),
           History(m.span, encrypted[p], accepted[p]),
           mgr' = [mgr EXCEPT ![p] = m], UNCHANGED <<encrypted, accepted, eis>>
    PROVE  Sides(mgr, encrypted, accepted, eis)'
<1>1. Sides([mgr EXCEPT ![p] = m], encrypted, accepted, eis)
  BY Replaced DEF IInv, Sides
<1> QED
  BY <1>1

LEMMA PutNonce ==
    ASSUME IInv, NEW p \in Party, NEW q \in Bytes, NEW w \in Seq(Bytes),
           NEW s, History(s, encrypted[p], accepted[p]),
           mgr' = [mgr EXCEPT ![p] = Mgr(LocalEI(eis + 1), q, w)],
           eis' = eis + 1, UNCHANGED <<encrypted, accepted>>
    PROVE  Sides(mgr, encrypted, accepted, eis)'
<1>1. /\ Sides(mgr, encrypted, accepted, eis) /\ eis \in Nat /\ eis + 1 \in Nat
      /\ encrypted[p] \in Seq(Nonces(eis)) /\ accepted[p] \in Seq(Acceptances(eis))
  BY DEF IInv, Sides
<1>2. Sides(mgr, encrypted, accepted, eis + 1)
  BY <1>1, SidesGrow
<1>3. History(LocalEI(eis + 1), encrypted[p], accepted[p])
  BY <1>1, FreshHistory
<1> DEFINE m == Mgr(LocalEI(eis + 1), q, w)
<1>4. m \in Managers(eis + 1) /\ m.span = LocalEI(eis + 1)
  <2>1. LocalEI(eis + 1) \in Spans(eis + 1)
    BY <1>1, FreshTypes
  <2> QED
    BY <2>1 DEF Mgr, Managers
<1> HIDE DEF m
<1>5. Sides([mgr EXCEPT ![p] = m], encrypted, accepted, eis + 1)
  BY <1>1, <1>2, <1>3, <1>4, Replaced
<1> QED
  BY <1>5 DEF m

LEMMA PutEncoded ==
    ASSUME NEW mg, NEW acc, Sides(mg, encrypted, acc, eis), NEW p \in Party, NEW m \in Managers(eis),
           History(m.span, encrypted[p], acc[p]), m.span.type \in {"remoteEI", "span"},
           NEW c \in Cmd, NEW ext \in 0..eis
    PROVE  LET x == Encoded(m, c, ext)
           IN  /\ x.eis \in {eis, eis + 1} /\ x.frame \in Encaps(x.eis)
               /\ Sides([mg EXCEPT ![p] = x.mgr],
                        [encrypted EXCEPT ![p] = Append(@, x.frame.nonce)], acc, x.eis)
<1> DEFINE x == Encoded(m, c, ext)
           n == x.frame.nonce
           enc2 == Append(encrypted[p], n)
<1>1. /\ Sides(mg, encrypted, acc, eis) /\ eis \in Nat
      /\ encrypted[p] \in Seq(Nonces(eis)) /\ acc[p] \in Seq(Acceptances(eis))
  BY DEF Sides
<1>2. /\ x.eis \in {eis, eis + 1} /\ x.frame \in Encaps(x.eis)
      /\ x.mgr \in Managers(x.eis)
      /\ History(x.mgr.span, enc2, acc[p])
  BY <1>1, EncodedKeeps
<1> HIDE DEF x
<1>3. x.eis \in Nat /\ eis <= x.eis
  BY <1>1, <1>2
<1>4. Sides(mg, encrypted, acc, x.eis)
  BY <1>1, <1>3, SidesGrow
<1>5. n \in Nonces(x.eis)
  BY <1>2 DEF Encaps
<1> HIDE DEF n
<1>6. enc2 \in Seq(Nonces(x.eis))
  BY <1>4, <1>5 DEF Sides
<1> HIDE DEF enc2
<1>7. Sides([mg EXCEPT ![p] = x.mgr], [encrypted EXCEPT ![p] = enc2], acc, x.eis)
  BY <1>2, <1>4, <1>6 DEF Sides
<1>8. [encrypted EXCEPT ![p] = enc2] = [encrypted EXCEPT ![p] = Append(@, n)]
  BY DEF enc2
<1> QED
  BY <1>2, <1>7, <1>8 DEF x, n

LEMMA PutAccepted ==
    ASSUME IInv, NEW p \in Party, NEW m \in Managers(eis), NEW a \in Acceptances(eis),
           History(m.span, encrypted[p], Append(accepted[p], a))
    PROVE  Sides([mgr EXCEPT ![p] = m], encrypted,
                 [accepted EXCEPT ![p] = Append(@, a)], eis)
<1> DEFINE acc2 == Append(accepted[p], a)
<1>1. Sides(mgr, encrypted, accepted, eis) /\ acc2 \in Seq(Acceptances(eis))
  BY DEF IInv, Sides
<1>2. [accepted EXCEPT ![p] = acc2] = [accepted EXCEPT ![p] = Append(@, a)]
  OBVIOUS
<1> HIDE DEF acc2
<1>3. History(m.span, encrypted[p], acc2)
  BY DEF acc2
<1>4. Sides([mgr EXCEPT ![p] = m], encrypted, [accepted EXCEPT ![p] = acc2], eis)
  BY <1>1, <1>3 DEF Sides
<1> QED
  BY <1>2, <1>4

LEMMA FramesType ==
    ASSUME NEW e \in Nat, NEW q \in Bytes
    PROVE  /\ NonceGet(q) \in Frames(e)
           /\ \A x \in 1..e : NonceReport(q, x) \in Frames(e)
           /\ Encaps(e) \subseteq Frames(e)
BY DEF NonceGet, NonceReport, Frames

LEMMA Delivered ==
    ASSUME NEW e \in Nat, NEW chan \in [Party -> Seq(Frames(e))], NEW p \in Party,
           NEW f \in Frames(e)
    PROVE  [chan EXCEPT ![p] = Append(@, f)] \in [Party -> Seq(Frames(e))]
OBVIOUS

LEMMA Taken ==
    ASSUME IInv, NEW p \in Party, channel[p] # <<>>
    PROVE  /\ Take(p) \in [Party -> Seq(Frames(eis))]
           /\ Head(channel[p]) \in Frames(eis)
<1>1. channel \in [Party -> Seq(Frames(eis))]
  BY DEF IInv, Traffic
<1>2. channel[p] \in Seq(Frames(eis))
  BY <1>1
<1> DEFINE c == channel[p]
<1> HIDE DEF c
<1>3. Tail(c) \in Seq(Frames(eis)) /\ Head(c) \in Frames(eis)
  BY <1>2 DEF c
<1>4. Take(p) = [channel EXCEPT ![p] = Tail(c)]
  BY DEF Take, c
<1> QED
  BY <1>1, <1>3, <1>4 DEF c

LEMMA TxTypes ==
    ASSUME IInv
    PROVE  /\ Idle \in Transactions(eis)
           /\ tx = [step |-> tx.step, id |-> tx.id, kind |-> tx.kind, try |-> tx.try,
                    ext |-> tx.ext, frame |-> tx.frame, calm |-> tx.calm]
           /\ tx.step \in Steps /\ (tx.step = "resend" => tx.frame # <<>>)
           /\ tx.id \in 0..MaxTransactions /\ tx.kind \in {"set", "get"} /\ tx.try \in 1..2
           /\ tx.ext \in 0..eis /\ eis \in Nat
           /\ tx.frame \in Seq(Encaps(eis)) /\ tx.calm \in BOOLEAN
           /\ [tx EXCEPT !.calm = FALSE] \in Transactions(eis)
<1>1. tx \in Transactions(eis) /\ eis \in Nat
  BY DEF IInv, Traffic, Sides
<1>2. Idle \in Transactions(eis)
  BY <1>1, S2Assumption DEF Idle, Transactions, Steps, Nothing, S2Assumption
<1>3. /\ tx = [step |-> tx.step, id |-> tx.id, kind |-> tx.kind, try |-> tx.try,
               ext |-> tx.ext, frame |-> tx.frame, calm |-> tx.calm]
      /\ tx.step \in Steps /\ (tx.step = "resend" => tx.frame # <<>>)
      /\ tx.id \in 0..MaxTransactions /\ tx.kind \in {"set", "get"} /\ tx.try \in 1..2
      /\ tx.ext \in 0..eis /\ tx.frame \in Seq(Encaps(eis)) /\ tx.calm \in BOOLEAN
  BY <1>1 DEF Transactions
<1>4. [tx EXCEPT !.calm = FALSE] \in Transactions(eis)
  BY <1>1 DEF Transactions
<1> QED
  BY <1>1, <1>2, <1>3, <1>4

(* A transaction put together from its parts.                              *)
LEMMA TxType ==
    ASSUME NEW e \in Nat, NEW t,
           NEW s \in Steps, NEW i \in 0..MaxTransactions, NEW k \in {"set", "get"},
           NEW n \in 1..2, NEW x \in 0..e, NEW f \in Seq(Encaps(e)), NEW c \in BOOLEAN,
           s = "resend" => f # <<>>,
           t = [step |-> s, id |-> i, kind |-> k, try |-> n, ext |-> x, frame |-> f, calm |-> c]
    PROVE  t \in Transactions(e)
BY DEF Transactions

LEMMA Counted ==
    ASSUME IInv
    PROVE  /\ \A f : Fault(f) /\ Faulty => count' \in Counts
           /\ count.tx < MaxTransactions => [count EXCEPT !.tx = @ + 1] \in Counts
           /\ count.event < MaxEvents => [count EXCEPT !.event = @ + 1] \in Counts
           /\ count.other < MaxOthers => [count EXCEPT !.other = @ + 1] \in Counts
           /\ count.tx \in 0..MaxTransactions /\ count.event \in 0..MaxEvents
<1>1. count \in Counts
  BY DEF IInv, Bounds
<1>2. /\ count.tx \in 0..MaxTransactions /\ count.event \in 0..MaxEvents
      /\ count.fault \in 0..MaxFaults /\ count.other \in 0..MaxOthers
  BY <1>1 DEF Counts
<1>3. count.fault < MaxFaults => [count EXCEPT !.fault = @ + 1] \in Counts
  BY <1>1, <1>2, S2Assumption DEF Counts, S2Assumption
<1>4. count.tx < MaxTransactions => [count EXCEPT !.tx = @ + 1] \in Counts
  BY <1>1, <1>2, S2Assumption DEF Counts, S2Assumption
<1>5. count.event < MaxEvents => [count EXCEPT !.event = @ + 1] \in Counts
  BY <1>1, <1>2, S2Assumption DEF Counts, S2Assumption
<1>6. count.other < MaxOthers => [count EXCEPT !.other = @ + 1] \in Counts
  BY <1>1, <1>2, S2Assumption DEF Counts, S2Assumption
<1> QED
  BY <1>2, <1>3, <1>4, <1>5, <1>6 DEF Fault, Faulty

LEMMA IInvParts ==
    ASSUME IInv
    PROVE  /\ eis \in Nat
           /\ channel \in [Party -> Seq(Frames(eis))]
           /\ parsed \in Seq(Parsed(eis)) /\ replies \in Seq(0..eis)
           /\ wants \in 0..MaxEvents /\ due \subseteq 1..MaxEvents /\ count \in Counts
           /\ tx \in Transactions(eis)
           /\ \A p \in Party : /\ mgr[p] \in Managers(eis)
                               /\ History(mgr[p].span, encrypted[p], accepted[p])
                               /\ encrypted[p] \in Seq(Nonces(eis))
                               /\ accepted[p] \in Seq(Acceptances(eis))
           /\ Sides(mgr, encrypted, accepted, eis)
           /\ mgr \in [Party -> Managers(eis)]
BY DEF IInv, Sides, Traffic, Bounds

LEMMA SidesStay ==
    ASSUME IInv, UNCHANGED <<mgr, eis, encrypted, accepted>>
    PROVE  Sides(mgr, encrypted, accepted, eis)'
BY DEF IInv

LEMMA BeginKeeps ==
    ASSUME IInv, NEW kind \in {"set", "get"}, Begin(kind)
    PROVE  IInv'
<1> DEFINE step == IF mgr["ctrl"].span.type \in {"none", "localEI"} THEN "needsNonce" ELSE "ready"
           id == count.tx + 1
<1>1. tx' = [step |-> step, id |-> id, kind |-> kind, try |-> 1, ext |-> Nothing,
             frame |-> <<>>, calm |-> Quiet]
  BY DEF Begin, Idle
<1>2. step \in {"needsNonce", "ready"} /\ id \in 0..MaxTransactions /\ Nothing \in 0..eis
      /\ count' \in Counts
  BY Counted, IInvParts, S2Assumption, SMTT(30) DEF Begin, Nothing, S2Assumption
<1>3. Quiet \in BOOLEAN
  BY DEF Quiet
<1> HIDE DEF step, id
<1>4. tx' \in Transactions(eis)
  <2>1. <<>> \in Seq(Encaps(eis)) /\ step \in Steps /\ step # "resend" /\ 1 \in 1..2
    BY <1>2 DEF Steps
  <2> QED
    BY <1>1, <1>2, <1>3, <2>1, IInvParts, TxType
<1>5. UNCHANGED <<mgr, eis, channel, parsed, replies, wants, encrypted, accepted, due>>
  BY DEF Begin
<1> QED
  BY <1>2, <1>4, <1>5, SidesStay, IInvParts DEF IInv, Traffic, Bounds

LEMMA RequestNonceKeeps ==
    ASSUME IInv, RequestNonce
    PROVE  IInv'
<1>1. "ctrl" \in Party /\ "node" \in Party
  BY DEF Party
<1>2. /\ NextSeq(mgr["ctrl"]) \in Bytes
      /\ Sides([mgr EXCEPT !["ctrl"].own = NextSeq(mgr["ctrl"])], encrypted, accepted, eis)
  BY <1>1, IInvParts, Numbered
<1>3. NonceGet(NextSeq(mgr["ctrl"])) \in Frames(eis)
  BY <1>2, IInvParts, FramesType
<1>4. channel' \in [Party -> Seq(Frames(eis))]
  BY <1>1, <1>3, IInvParts, Delivered DEF RequestNonce, Deliver
<1>5. tx' \in Transactions(eis)
  <2>1. tx' = [step |-> "awaitsNonce", id |-> tx.id, kind |-> tx.kind, try |-> tx.try,
               ext |-> tx.ext, frame |-> tx.frame, calm |-> tx.calm]
    BY TxTypes DEF RequestNonce
  <2> QED
    BY <2>1, TxTypes, TxType DEF Steps
<1>6. Sides(mgr, encrypted, accepted, eis)'
  BY <1>2 DEF RequestNonce
<1> QED
  BY <1>4, <1>5, <1>6, IInvParts DEF RequestNonce, IInv, Traffic, Bounds

(* The transaction has sent its command.                                   *)
LEMMA TxSent ==
    ASSUME IInv, NEW e \in Nat, eis <= e, NEW x \in 0..e,
           tx' = [tx EXCEPT !.step = "sent", !.ext = x, !.frame = <<>>]
    PROVE  tx' \in Transactions(e)
<1>1. tx' = [step |-> "sent", id |-> tx.id, kind |-> tx.kind, try |-> tx.try,
             ext |-> x, frame |-> <<>>, calm |-> tx.calm]
  BY TxTypes
<1>2. <<>> \in Seq(Encaps(e)) /\ "sent" \in Steps /\ "sent" # "resend"
  BY DEF Steps
<1>3. /\ tx.id \in 0..MaxTransactions /\ tx.kind \in {"set", "get"} /\ tx.try \in 1..2
      /\ tx.calm \in BOOLEAN
  BY TxTypes
<1> QED
  BY <1>1, <1>2, <1>3, TxType

LEMMA EndsType ==
    ASSUME IInv, NEW ok, Ends(ok)
    PROVE  tx' \in Transactions(eis)
BY TxTypes DEF Ends

LEMMA DisturbedTypes ==
    ASSUME IInv, Disturbed
    PROVE  tx' \in Transactions(eis) /\ due' \subseteq 1..MaxEvents
BY TxTypes DEF Disturbed

(* The controller sends, and the generator of the transaction goes on.     *)
LEMMA SendCommandKeeps ==
    ASSUME IInv, SendCommand
    PROVE  IInv'
<1>1. "ctrl" \in Party /\ "node" \in Party
  BY DEF Party
<1> DEFINE c == [id |-> tx.id, kind |-> tx.kind]
           x == Encoded(mgr["ctrl"], c, tx.ext)
<1>2. /\ mgr' = [mgr EXCEPT !["ctrl"] = x.mgr] /\ eis' = x.eis
      /\ Deliver("node", x.frame)
      /\ encrypted' = [encrypted EXCEPT !["ctrl"] = Append(@, x.frame.nonce)]
      /\ AfterSending(x.frame.ei)
      /\ UNCHANGED <<parsed, replies, wants, accepted, due, count>>
  BY DEF SendCommand
<1>3. c \in Cmd
  BY TxTypes DEF Cmd
<1>4. mgr["ctrl"].span.type \in {"remoteEI", "span"}
  BY DEF SendCommand, CanEncode
<1>5. /\ x.eis \in {eis, eis + 1} /\ x.frame \in Encaps(x.eis)
      /\ Sides([mgr EXCEPT !["ctrl"] = x.mgr],
               [encrypted EXCEPT !["ctrl"] = Append(@, x.frame.nonce)], accepted, x.eis)
  BY <1>1, <1>3, <1>4, IInvParts, TxTypes, PutEncoded
<1> HIDE DEF x
<1>6. Sides(mgr, encrypted, accepted, eis)'
  BY <1>2, <1>5
<1>7. eis' \in Nat /\ eis <= eis'
  BY <1>2, <1>5, IInvParts
<1>8. Traffic(channel, parsed, tx, replies, eis')
  BY <1>7, IInvParts, TrafficGrows DEF IInv
<1>9. channel' \in [Party -> Seq(Frames(eis'))]
  <2>1. channel \in [Party -> Seq(Frames(eis'))]
    BY <1>8 DEF Traffic
  <2>2. x.frame \in Frames(eis')
    BY <1>2, <1>5 DEF Frames
  <2>3. channel' = [channel EXCEPT !["node"] = Append(@, x.frame)]
    BY <1>2 DEF Deliver
  <2> QED
    BY <1>1, <1>7, <2>1, <2>2, <2>3, Delivered
<1>10. tx' \in Transactions(eis')
  <2>1. CASE Ends(TRUE)
    BY <2>1, <1>7, EndsType, SetsGrow, IInvParts
  <2>2. CASE tx' = [tx EXCEPT !.step = "sent", !.ext = x.frame.ei, !.frame = <<>>]
    <3>1. x.frame.ei \in 0..eis'
      BY <1>2, <1>5 DEF Encaps
    <3> QED
      BY <1>7, <2>2, <3>1, TxSent
  <2> QED
    BY <1>2, <2>1, <2>2 DEF AfterSending
<1> QED
  BY <1>2, <1>6, <1>8, <1>9, <1>10 DEF IInv, Traffic, Bounds

LEMMA CannotEncodeKeeps ==
    ASSUME IInv, CannotEncode
    PROVE  IInv'
<1>1. "ctrl" \in Party
  BY DEF Party
<1>2. Sides([mgr EXCEPT !["ctrl"].own = NextSeq(mgr["ctrl"])], encrypted, accepted, eis)
  BY <1>1, IInvParts, Numbered
<1>3. Sides(mgr, encrypted, accepted, eis)'
  BY <1>2 DEF CannotEncode
<1>4. tx' \in Transactions(eis)
  BY EndsType DEF CannotEncode
<1> QED
  BY <1>3, <1>4, IInvParts DEF CannotEncode, IInv, Traffic, Bounds

LEMMA UnacknowledgedKeeps ==
    ASSUME IInv, NEW f, NEW e \in Nat, f \in Frames(e), channel \in [Party -> Seq(Frames(e))],
           Unacknowledged(f)
    PROVE  channel' \in [Party -> Seq(Frames(e))] /\ due' = {} /\ count' \in Counts
<1>1. due' = {} /\ count' \in Counts /\ (channel' = channel \/ Deliver("node", f))
  BY Counted DEF Unacknowledged
<1>2. Deliver("node", f) => channel' \in [Party -> Seq(Frames(e))]
  BY Delivered DEF Deliver, Party
<1> QED
  BY <1>1, <1>2

LEMMA NonceGetFailsKeeps ==
    ASSUME IInv, NonceGetFails
    PROVE  IInv'
<1>1. "ctrl" \in Party
  BY DEF Party
<1>2. /\ NextSeq(mgr["ctrl"]) \in Bytes
      /\ Sides([mgr EXCEPT !["ctrl"].own = NextSeq(mgr["ctrl"])], encrypted, accepted, eis)
  BY <1>1, IInvParts, Numbered
<1>3. NonceGet(NextSeq(mgr["ctrl"])) \in Frames(eis)
  BY <1>2, IInvParts, FramesType
<1>4. channel' \in [Party -> Seq(Frames(eis))] /\ due' = {} /\ count' \in Counts
  BY <1>3, IInvParts, UnacknowledgedKeeps DEF NonceGetFails
<1>5. tx' \in Transactions(eis)
  BY TxTypes DEF NonceGetFails, Fails
<1>6. Sides(mgr, encrypted, accepted, eis)'
  BY <1>2 DEF NonceGetFails
<1> QED
  BY <1>4, <1>5, <1>6, IInvParts DEF NonceGetFails, IInv, Traffic, Bounds

LEMMA SendingFailsKeeps ==
    ASSUME IInv, SendingFails
    PROVE  IInv'
<1>1. "ctrl" \in Party /\ "node" \in Party
  BY DEF Party
<1> DEFINE c == [id |-> tx.id, kind |-> tx.kind]
           x == Encoded(mgr["ctrl"], c, tx.ext)
<1>2. /\ mgr' = [mgr EXCEPT !["ctrl"] = x.mgr] /\ eis' = x.eis
      /\ encrypted' = [encrypted EXCEPT !["ctrl"] = Append(@, x.frame.nonce)]
      /\ Unacknowledged(x.frame)
      /\ \/ Fails
         \/ tx' = [tx EXCEPT !.step = "resend", !.frame = <<x.frame>>,
                             !.ext = x.frame.ei, !.calm = FALSE]
      /\ UNCHANGED <<parsed, replies, wants, accepted>>
  BY DEF SendingFails
<1>3. c \in Cmd
  BY TxTypes DEF Cmd
<1>4. mgr["ctrl"].span.type \in {"remoteEI", "span"}
  BY DEF SendingFails, CanEncode
<1>5. /\ x.eis \in {eis, eis + 1} /\ x.frame \in Encaps(x.eis)
      /\ Sides([mgr EXCEPT !["ctrl"] = x.mgr],
               [encrypted EXCEPT !["ctrl"] = Append(@, x.frame.nonce)], accepted, x.eis)
  BY <1>1, <1>3, <1>4, IInvParts, TxTypes, PutEncoded
<1> HIDE DEF x
<1>6. Sides(mgr, encrypted, accepted, eis)'
  BY <1>2, <1>5
<1>7. eis' \in Nat /\ eis <= eis' /\ x.frame \in Encaps(eis')
  BY <1>2, <1>5, IInvParts
<1>8. Traffic(channel, parsed, tx, replies, eis')
  BY <1>7, IInvParts, TrafficGrows DEF IInv
<1>9. channel' \in [Party -> Seq(Frames(eis'))] /\ due' = {} /\ count' \in Counts
  <2>1. channel \in [Party -> Seq(Frames(eis'))] /\ x.frame \in Frames(eis')
    BY <1>7, <1>8 DEF Traffic, Frames
  <2> QED
    BY <1>2, <1>7, <2>1, UnacknowledgedKeeps
<1>10. tx' \in Transactions(eis')
  <2>1. CASE Fails
    BY <1>7, <2>1, IInvParts, TxTypes, SetsGrow DEF Fails
  <2>2. CASE tx' = [tx EXCEPT !.step = "resend", !.frame = <<x.frame>>,
                             !.ext = x.frame.ei, !.calm = FALSE]
    <3>1. x.frame.ei \in 0..eis'
      BY <1>7 DEF Encaps
    <3> DEFINE f == x.frame
               ei == x.frame.ei
    <3>2. f \in Encaps(eis') /\ ei \in 0..eis'
      BY <1>7, <3>1
    <3> HIDE DEF f, ei
    <3>3. tx' = [step |-> "resend", id |-> tx.id, kind |-> tx.kind, try |-> tx.try,
                 ext |-> ei, frame |-> <<f>>, calm |-> FALSE]
      BY <2>2, TxTypes DEF f, ei
    <3>4. <<f>> \in Seq(Encaps(eis')) /\ <<f>> # <<>> /\ "resend" \in Steps
      BY <3>2 DEF Steps
    <3> QED
      BY <1>7, <3>2, <3>3, <3>4, TxTypes, TxType
  <2> QED
    BY <1>2, <2>1, <2>2
<1> QED
  BY <1>2, <1>6, <1>8, <1>9, <1>10 DEF IInv, Traffic, Bounds

LEMMA ResendKeeps ==
    ASSUME IInv, Resend
    PROVE  IInv'
<1> DEFINE f == tx.frame[1]
<1>1. f \in Frames(eis)
  <2>1. tx.frame \in Seq(Encaps(eis)) /\ tx.frame # <<>>
    BY TxTypes DEF Resend
  <2> QED
    BY <2>1 DEF Frames
<1> HIDE DEF f
<1>2. /\ UNCHANGED <<mgr, eis, parsed, replies, wants, encrypted, accepted>>
      /\ \/ Unacknowledged(f) /\ (Fails \/ tx' = tx)
         \/ Deliver("node", f) /\ AfterSending(tx.ext) /\ due' = {} /\ count' = count
  BY DEF Resend, f
<1>3. channel' \in [Party -> Seq(Frames(eis))] /\ due' = {} /\ count' \in Counts
  <2>1. Deliver("node", f) => channel' \in [Party -> Seq(Frames(eis))]
    BY <1>1, IInvParts, Delivered DEF Deliver, Party
  <2> QED
    BY <1>1, <1>2, <2>1, IInvParts, UnacknowledgedKeeps
<1>4. tx' \in Transactions(eis)
  <2>1. CASE Fails \/ tx' = tx \/ Ends(TRUE)
    BY <2>1, IInvParts, TxTypes, EndsType DEF Fails
  <2>2. CASE tx' = [tx EXCEPT !.step = "sent", !.ext = tx.ext, !.frame = <<>>]
    <3>1. eis \in Nat /\ eis <= eis /\ tx.ext \in 0..eis
      BY TxTypes
    <3> QED
      BY <2>2, <3>1, TxSent
  <2> QED
    BY <1>2, <2>1, <2>2 DEF AfterSending
<1> QED
  BY <1>2, <1>3, <1>4, SidesStay, IInvParts DEF IInv, Traffic, Bounds

LEMMA NothingComesKeeps ==
    ASSUME IInv, NothingComes
    PROVE  IInv'
<1>1. UNCHANGED <<mgr, eis, channel, parsed, replies, wants, encrypted, accepted>>
  BY DEF NothingComes
<1>2. tx' = Idle /\ count' \in Counts /\ due' \subseteq 1..MaxEvents
  BY Counted, IInvParts DEF NothingComes, Ends
<1> QED
  BY <1>1, <1>2, SidesStay, IInvParts, TxTypes DEF IInv, Traffic, Bounds
-----------------------------------------------------------------------------
(* What the controller receives                                            *)

LEMMA ParsedType ==
    ASSUME NEW e \in Nat
    PROVE  /\ [type |-> "nonceGet"] \in Parsed(e) /\ [type |-> "undecodable"] \in Parsed(e)
           /\ \A x \in 1..e : [type |-> "nonceReport", ei |-> x] \in Parsed(e)
           /\ \A c \in Cmd : [type |-> "command", cmd |-> c] \in Parsed(e)
BY DEF Parsed

LEMMA FrameTypes ==
    ASSUME NEW e \in Nat, NEW f \in Frames(e)
    PROVE  /\ f.seq \in Bytes /\ <<f.seq>> \in Seq(Bytes)
           /\ f.type = "nonceReport" => f.ei \in 1..e
           /\ f.type = "encap" => f \in Encaps(e) /\ f.cmd \in Cmd /\ f.nonce \in Nonces(e)
BY DEF Frames, Encaps

(* The sequence number is stored, the SPAN becomes s.                      *)
Stored(m, f, s) == [StoreSeq(m, f) EXCEPT !.span = s]

LEMMA StoredManager ==
    ASSUME NEW e \in Nat, NEW m \in Managers(e), NEW f \in Frames(e), NEW s \in Spans(e)
    PROVE  /\ StoreSeq(m, f) = Mgr(m.span, m.own, <<f.seq>>)
           /\ StoreSeq(m, f) \in Managers(e)
           /\ Stored(m, f, s) = Mgr(s, m.own, <<f.seq>>)
           /\ Stored(m, f, s) \in Managers(e)
           /\ Stored(m, f, s).span = s
<1>1. StoreSeq(m, f) = Mgr(m.span, m.own, <<f.seq>>)
  BY ManagerType DEF StoreSeq, Mgr
<1>2. [Mgr(m.span, m.own, <<f.seq>>) EXCEPT !.span = s] = Mgr(s, m.own, <<f.seq>>)
  BY DEF Mgr
<1>3. m.span \in Spans(e) /\ m.own \in Bytes /\ <<f.seq>> \in Seq(Bytes)
  BY ManagerType, FrameTypes
<1>4. Mgr(m.span, m.own, <<f.seq>>) \in Managers(e) /\ Mgr(s, m.own, <<f.seq>>) \in Managers(e)
  BY <1>3, ManagerType
<1>5. Mgr(s, m.own, <<f.seq>>).span = s
  BY DEF Mgr
<1> QED
  BY <1>1, <1>2, <1>4, <1>5 DEF Stored

LEMMA ParseKeeps ==
    ASSUME IInv, Parse
    PROVE  IInv'
<1>1. "ctrl" \in Party /\ channel["ctrl"] # <<>>
  BY DEF Party, Parse
<1> DEFINE f == Head(channel["ctrl"])
           m == mgr["ctrl"]
           enc == encrypted["ctrl"]
           acc == accepted["ctrl"]
           stored(s) == mgr' = [mgr EXCEPT !["ctrl"] = [StoreSeq(m, f) EXCEPT !.span = s]]
<1>2. f \in Frames(eis) /\ channel' \in [Party -> Seq(Frames(eis))]
  BY <1>1, Taken DEF Parse
<1>3. /\ m \in Managers(eis) /\ History(m.span, enc, acc) /\ eis \in Nat
      /\ enc \in Seq(Nonces(eis)) /\ acc \in Seq(Acceptances(eis)) /\ m.span \in Spans(eis)
  BY <1>1, IInvParts, ManagerType
<1>4. UNCHANGED <<eis, replies, wants, encrypted, last>>
  BY DEF Parse
<1> SUFFICES /\ Sides(mgr, encrypted, accepted, eis)'
             /\ parsed' \in Seq(Parsed(eis)) /\ tx' \in Transactions(eis)
             /\ due' \subseteq 1..MaxEvents /\ count' \in Counts
  BY <1>2, <1>4, IInvParts DEF IInv, Traffic, Bounds
<1>5. CASE UNCHANGED <<mgr, parsed, accepted, tx, due, count>>
  BY <1>4, <1>5, SidesStay, IInvParts
<1>6. CASE /\ f.type = "nonceGet" /\ stored(m.span)
           /\ parsed' = Append(parsed, [type |-> "nonceGet"])
           /\ UNCHANGED <<accepted, tx, due, count>>
  <2> DEFINE m2 == Stored(m, f, m.span)
  <2>1. m2 \in Managers(eis) /\ m2.span = m.span
    <3> HIDE DEF f, m
    <3> QED
      BY <1>2, <1>3, StoredManager
  <2>2. mgr' = [mgr EXCEPT !["ctrl"] = m2]
    BY <1>6 DEF Stored
  <2> HIDE DEF m2, m
  <2>3. Sides(mgr, encrypted, accepted, eis)'
    BY <1>1, <1>3, <1>4, <1>6, <2>1, <2>2, PutManager
  <2> QED
    BY <1>3, <1>6, <2>3, IInvParts, ParsedType
<1>7. CASE /\ f.type = "nonceReport" /\ stored(RemoteEI(f.ei))
           /\ parsed' = Append(parsed, [type |-> "nonceReport", ei |-> f.ei])
           /\ UNCHANGED <<accepted, tx, due, count>>
  <2> DEFINE m2 == Stored(m, f, RemoteEI(f.ei))
  <2>1. f.ei \in 1..eis
    BY <1>2, <1>3, <1>7, FrameTypes
  <2>2. RemoteEI(f.ei) \in Spans(eis) /\ History(RemoteEI(f.ei), enc, acc)
    BY <1>3, <2>1, FreshTypes, FreshHistory
  <2>3. m2 \in Managers(eis) /\ m2.span = RemoteEI(f.ei)
    <3> HIDE DEF f, m
    <3> QED
      BY <1>2, <1>3, <2>2, StoredManager
  <2>4. mgr' = [mgr EXCEPT !["ctrl"] = m2]
    BY <1>7 DEF Stored
  <2> HIDE DEF m2, m
  <2>5. Sides(mgr, encrypted, accepted, eis)'
    BY <1>1, <1>4, <1>7, <2>2, <2>3, <2>4, PutManager
  <2>6. [type |-> "nonceReport", ei |-> f.ei] \in Parsed(eis)
    BY <1>3, <2>1, ParsedType
  <2> QED
    BY <1>3, <1>7, <2>5, <2>6, IInvParts
<1>8. ASSUME f.type = "encap", NEW expired \in BOOLEAN,
             LET d == Decoded("ctrl", m, f, expired)
             IN  /\ IF expired
                      THEN /\ m.span.type = "span" /\ MayUsePrevious("ctrl", m, f)
                           /\ Fault("expired") /\ Faulty /\ Disturbed
                      ELSE UNCHANGED <<tx, due, count>>
                 /\ stored(d.span)
                 /\ parsed' = Append(parsed,
                      IF d.ok THEN [type |-> "command", cmd |-> f.cmd]
                              ELSE [type |-> "undecodable"])
                 /\ accepted' = IF d.ok
                      THEN [accepted EXCEPT !["ctrl"] = Append(@, [cmd |-> f.cmd, nonce |-> f.nonce])]
                      ELSE accepted
      PROVE  /\ Sides(mgr, encrypted, accepted, eis)'
             /\ parsed' \in Seq(Parsed(eis)) /\ tx' \in Transactions(eis)
             /\ due' \subseteq 1..MaxEvents /\ count' \in Counts
  <2> DEFINE d == Decoded("ctrl", m, f, expired)
             a == [cmd |-> f.cmd, nonce |-> f.nonce]
             m2 == Stored(m, f, d.span)
  <2>1. f \in Encaps(eis) /\ f.cmd \in Cmd /\ f.nonce \in Nonces(eis)
    BY <1>2, <1>3, <1>8, FrameTypes
  <2>2. /\ d.span \in Spans(eis)
        /\ d.ok => History(d.span, enc, Append(acc, a))
        /\ ~d.ok => History(d.span, enc, acc)
    BY <1>3, <2>1, S2Assumption, DecodedKeeps
  <2>3. a \in Acceptances(eis) /\ [type |-> "command", cmd |-> f.cmd] \in Parsed(eis)
        /\ [type |-> "undecodable"] \in Parsed(eis)
    BY <1>3, <2>1, ParsedType DEF Acceptances
  <2>4. m2 \in Managers(eis) /\ m2.span = d.span
    <3> HIDE DEF f, m, d
    <3> QED
      BY <1>2, <1>3, <2>2, StoredManager
  <2>5. mgr' = [mgr EXCEPT !["ctrl"] = m2]
    BY <1>8 DEF Stored
  <2>6. tx' \in Transactions(eis) /\ due' \subseteq 1..MaxEvents /\ count' \in Counts
    <3>1. CASE expired
      BY <1>8, <3>1, Counted, DisturbedTypes
    <3>2. CASE ~expired
      BY <1>8, <3>2, IInvParts
    <3> QED
      BY <3>1, <3>2
  <2>7. parsed' \in Seq(Parsed(eis))
    <3> DEFINE x == IF d.ok THEN [type |-> "command", cmd |-> f.cmd] ELSE [type |-> "undecodable"]
    <3>1. x \in Parsed(eis) /\ parsed' = Append(parsed, x)
      BY <1>8, <2>3
    <3> HIDE DEF x
    <3> QED
      BY <3>1, IInvParts
  <2>8. accepted' = IF d.ok THEN [accepted EXCEPT !["ctrl"] = Append(@, a)] ELSE accepted
    BY <1>8
  <2> HIDE DEF m2, m, d, a
  <2>9. Sides(mgr, encrypted, accepted, eis)'
    <3>1. CASE d.ok
      <4>1. Sides([mgr EXCEPT !["ctrl"] = m2], encrypted,
                  [accepted EXCEPT !["ctrl"] = Append(@, a)], eis)
        BY <1>1, <2>2, <2>3, <2>4, <3>1, PutAccepted
      <4> QED
        BY <1>4, <2>5, <2>8, <3>1, <4>1
    <3>2. CASE ~d.ok
      BY <1>1, <1>4, <2>2, <2>4, <2>5, <2>8, <3>2, PutManager
    <3> QED
      BY <3>1, <3>2
  <2> QED
    BY <2>6, <2>7, <2>9
<1>9. \/ UNCHANGED <<mgr, parsed, accepted, tx, due, count>>
      \/ /\ f.type = "nonceGet" /\ stored(m.span)
         /\ parsed' = Append(parsed, [type |-> "nonceGet"])
         /\ UNCHANGED <<accepted, tx, due, count>>
      \/ /\ f.type = "nonceReport" /\ stored(RemoteEI(f.ei))
         /\ parsed' = Append(parsed, [type |-> "nonceReport", ei |-> f.ei])
         /\ UNCHANGED <<accepted, tx, due, count>>
      \/ /\ f.type = "encap"
         /\ \E expired \in BOOLEAN :
              LET d == Decoded("ctrl", m, f, expired)
              IN  /\ IF expired
                       THEN /\ m.span.type = "span" /\ MayUsePrevious("ctrl", m, f)
                            /\ Fault("expired") /\ Faulty /\ Disturbed
                       ELSE UNCHANGED <<tx, due, count>>
                  /\ stored(d.span)
                  /\ parsed' = Append(parsed,
                       IF d.ok THEN [type |-> "command", cmd |-> f.cmd]
                               ELSE [type |-> "undecodable"])
                  /\ accepted' = IF d.ok
                       THEN [accepted EXCEPT !["ctrl"] = Append(@, [cmd |-> f.cmd, nonce |-> f.nonce])]
                       ELSE accepted
  BY DEF Parse
<1> QED
  BY <1>5, <1>6, <1>7, <1>8, <1>9
LEMMA SpanReplaced ==
    ASSUME IInv, NEW p \in Party, NEW s
    PROVE  [mgr EXCEPT ![p].span = s] = [mgr EXCEPT ![p] = Mgr(s, mgr[p].own, mgr[p].peer)]
<1>1. mgr[p] = Mgr(mgr[p].span, mgr[p].own, mgr[p].peer)
  BY IInvParts, ManagerType
<1>2. [mgr[p] EXCEPT !.span = s] = Mgr(s, mgr[p].own, mgr[p].peer)
  BY <1>1 DEF Mgr
<1>3. [mgr EXCEPT ![p].span = s] = [mgr EXCEPT ![p] = [mgr[p] EXCEPT !.span = s]]
  OBVIOUS
<1> QED
  BY <1>2, <1>3

LEMMA HandleNonceGetKeeps ==
    ASSUME IInv, HandleNonceGet
    PROVE  IInv'
<1>1. "ctrl" \in Party /\ parsed' = Tail(parsed) /\ parsed # <<>>
      /\ UNCHANGED <<channel, tx, wants, encrypted, accepted, due, last, count>>
  BY DEF Party, HandleNonceGet
<1>2. parsed' \in Seq(Parsed(eis))
  BY <1>1, IInvParts
<1>3. CASE UNCHANGED <<mgr, eis, replies>>
  BY <1>1, <1>2, <1>3, SidesStay, IInvParts DEF IInv, Traffic, Bounds
<1>4. CASE SendNonce
  <2> DEFINE m == mgr["ctrl"]
  <2>1. /\ mgr' = [mgr EXCEPT !["ctrl"] = Mgr(LocalEI(eis + 1), m.own, m.peer)]
        /\ eis' = eis + 1 /\ replies' = Append(replies, eis + 1)
    BY <1>1, <1>4, SpanReplaced DEF SendNonce
  <2>2. m.own \in Bytes /\ m.peer \in Seq(Bytes) /\ History(m.span, encrypted["ctrl"], accepted["ctrl"])
    BY <1>1, IInvParts, ManagerType
  <2> HIDE DEF m
  <2>3. Sides(mgr, encrypted, accepted, eis)'
    BY <1>1, <2>1, <2>2, PutNonce
  <2>4. Traffic(channel, Tail(parsed), tx, replies, eis)
    BY <1>1, <1>2, IInvParts DEF Traffic
  <2>5. Traffic(channel, Tail(parsed), tx, replies, eis + 1)
    BY <2>4, IInvParts, TrafficGrows
  <2>6. replies' \in Seq(0..(eis + 1))
    <3>1. replies \in Seq(0..(eis + 1)) /\ eis + 1 \in 0..(eis + 1)
      BY <2>5, IInvParts DEF Traffic
    <3> QED
      BY <2>1, <3>1
  <2> QED
    BY <1>1, <2>1, <2>3, <2>5, <2>6, IInvParts DEF IInv, Traffic, Bounds
<1> QED
  BY <1>3, <1>4 DEF HandleNonceGet

LEMMA HandleNonceReportKeeps ==
    ASSUME IInv, HandleNonceReport
    PROVE  IInv'
<1>1. /\ "ctrl" \in Party /\ parsed' = Tail(parsed) /\ parsed # <<>>
      /\ Head(parsed).type = "nonceReport"
      /\ UNCHANGED <<eis, channel, replies, wants, encrypted, accepted, due, count>>
  BY DEF Party, HandleNonceReport
<1>2. parsed' \in Seq(Parsed(eis)) /\ Head(parsed) \in Parsed(eis)
  BY <1>1, IInvParts
<1> DEFINE x == Head(parsed).ei
           m == mgr["ctrl"]
<1>3. x \in 1..eis
  BY <1>1, <1>2 DEF Parsed
<1> HIDE DEF x
<1>4. CASE tx' = [tx EXCEPT !.step = "ready"] /\ UNCHANGED mgr
  <2>1. tx' \in Transactions(eis)
    <3>1. tx' = [step |-> "ready", id |-> tx.id, kind |-> tx.kind, try |-> tx.try,
                 ext |-> tx.ext, frame |-> tx.frame, calm |-> tx.calm]
      BY <1>4, TxTypes
    <3> QED
      BY <3>1, TxTypes, TxType DEF Steps
  <2> QED
    BY <1>1, <1>2, <1>4, <2>1, SidesStay, IInvParts DEF IInv, Traffic, Bounds
<1>5. CASE /\ mgr' = [mgr EXCEPT !["ctrl"].span = RemoteEI(x)]
           /\ tx' = [tx EXCEPT !.step = "ready", !.try = 2, !.frame = <<>>]
  <2>1. tx' \in Transactions(eis)
    <3>1. tx' = [step |-> "ready", id |-> tx.id, kind |-> tx.kind, try |-> 2,
                 ext |-> tx.ext, frame |-> <<>>, calm |-> tx.calm]
      BY <1>5, TxTypes
    <3>2. <<>> \in Seq(Encaps(eis)) /\ "ready" \in Steps /\ 2 \in 1..2
      BY DEF Steps
    <3> QED
      BY <3>1, <3>2, TxTypes, TxType
  <2>2. mgr' = [mgr EXCEPT !["ctrl"] = Mgr(RemoteEI(x), m.own, m.peer)]
    BY <1>1, <1>5, SpanReplaced
  <2>3. /\ m.own \in Bytes /\ m.peer \in Seq(Bytes) /\ eis \in Nat
        /\ History(m.span, encrypted["ctrl"], accepted["ctrl"])
        /\ encrypted["ctrl"] \in Seq(Nonces(eis)) /\ accepted["ctrl"] \in Seq(Acceptances(eis))
    BY <1>1, IInvParts, ManagerType
  <2> DEFINE m2 == Mgr(RemoteEI(x), m.own, m.peer)
  <2>4. m2 \in Managers(eis) /\ m2.span = RemoteEI(x)
    <3>1. RemoteEI(x) \in Spans(eis)
      BY <1>3, <2>3, FreshTypes
    <3> QED
      BY <2>3, <3>1 DEF Managers, Mgr
  <2>5. History(RemoteEI(x), encrypted["ctrl"], accepted["ctrl"])
    BY <2>3, FreshHistory
  <2> HIDE DEF m2
  <2>6. mgr' = [mgr EXCEPT !["ctrl"] = m2]
    BY <2>2 DEF m2
  <2>7. Sides(mgr, encrypted, accepted, eis)'
    BY <1>1, <2>4, <2>5, <2>6, PutManager
  <2> QED
    BY <1>1, <1>2, <2>1, <2>7, IInvParts DEF IInv, Traffic, Bounds
<1>6. CASE (Ends(FALSE) \/ UNCHANGED tx) /\ UNCHANGED mgr
  <2>1. tx' \in Transactions(eis)
    BY <1>6, EndsType, IInvParts
  <2> QED
    BY <1>1, <1>2, <1>6, <2>1, SidesStay, IInvParts DEF IInv, Traffic, Bounds
<1> QED
  BY <1>4, <1>5, <1>6 DEF HandleNonceReport, x

LEMMA HandleCommandKeeps ==
    ASSUME IInv, HandleCommand
    PROVE  IInv'
<1>1. /\ parsed' = Tail(parsed) /\ parsed # <<>>
      /\ UNCHANGED <<mgr, eis, channel, replies, wants, encrypted, accepted, count>>
      /\ Ends(TRUE) \/ UNCHANGED tx
      /\ due' \in {{}, due}
  BY DEF HandleCommand
<1>2. parsed' \in Seq(Parsed(eis)) /\ tx' \in Transactions(eis) /\ due' \subseteq 1..MaxEvents
  <2>1. parsed' \in Seq(Parsed(eis))
    BY <1>1, IInvParts
  <2>2. tx' \in Transactions(eis)
    BY <1>1, IInvParts, EndsType
  <2>3. due' \subseteq 1..MaxEvents
    BY <1>1, IInvParts
  <2> QED
    BY <2>1, <2>2, <2>3
<1> QED
  BY <1>1, <1>2, SidesStay, IInvParts DEF IInv, Traffic, Bounds
-----------------------------------------------------------------------------
(* The immediate queue and the medium                                      *)

LEMMA OtherBeginsKeeps ==
    ASSUME IInv, OtherBegins
    PROVE  IInv'
<1>1. /\ count' \in Counts /\ tx' \in Transactions(eis) /\ due' \subseteq 1..MaxEvents
      /\ replies' = Append(replies, Nothing)
      /\ UNCHANGED <<mgr, eis, channel, parsed, wants, encrypted, accepted>>
  BY Counted, DisturbedTypes DEF OtherBegins
<1>2. replies' \in Seq(0..eis)
  <2>1. Nothing \in 0..eis
    BY IInvParts DEF Nothing
  <2> QED
    BY <1>1, <2>1, IInvParts
<1> QED
  BY <1>1, <1>2, SidesStay, IInvParts DEF IInv, Traffic, Bounds

LEMMA OtherEndsKeeps ==
    ASSUME IInv, OtherEnds
    PROVE  IInv'
<1>1. replies' \in Seq(0..eis)
  BY IInvParts DEF OtherEnds
<1>2. UNCHANGED <<mgr, eis, channel, parsed, tx, wants, encrypted, accepted, due, count>>
  BY DEF OtherEnds
<1> QED
  BY <1>1, <1>2, SidesStay, IInvParts DEF IInv, Traffic, Bounds

LEMMA ReplyNonceKeeps ==
    ASSUME IInv, ReplyNonce
    PROVE  IInv'
<1> DEFINE q == NextSeq(mgr["ctrl"])
           m == mgr["ctrl"]
           f == NonceReport(q, Head(replies))
           m2 == Mgr(None, q, <<>>)
<1>1. /\ "ctrl" \in Party /\ "node" \in Party /\ replies # <<>> /\ Head(replies) # Nothing
      /\ UNCHANGED <<eis, parsed, wants, encrypted, accepted>> /\ replies' = Tail(replies)
  BY DEF Party, ReplyNonce, NonceReportPending
<1>2. /\ q \in Bytes /\ eis \in Nat
      /\ Sides([mgr EXCEPT !["ctrl"].own = q], encrypted, accepted, eis)
      /\ History(m.span, encrypted["ctrl"], accepted["ctrl"])
      /\ encrypted["ctrl"] \in Seq(Nonces(eis)) /\ accepted["ctrl"] \in Seq(Acceptances(eis))
  BY <1>1, IInvParts, Numbered
<1>3. replies' \in Seq(0..eis) /\ Head(replies) \in 1..eis
  BY <1>1, IInvParts DEF Nothing
<1> HIDE DEF q
<1>4. f \in Frames(eis)
  BY <1>2, <1>3, FramesType
<1> HIDE DEF f
<1>5. [channel EXCEPT !["node"] = Append(@, f)] \in [Party -> Seq(Frames(eis))]
  BY <1>1, <1>2, <1>4, IInvParts, Delivered
<1>6. m2 \in Managers(eis) /\ m2.span = None /\ m2 = [span |-> None, own |-> q, peer |-> <<>>]
  <2>1. None \in Spans(eis) /\ <<>> \in Seq(Bytes)
    BY <1>2, FreshTypes
  <2> QED
    BY <1>2, <2>1 DEF Mgr, Managers
<1>7. History(None, encrypted["ctrl"], accepted["ctrl"])
  BY <1>2, FreshHistory
<1> HIDE DEF m2
<1>8. CASE /\ channel' = [channel EXCEPT !["node"] = Append(@, f)]
           /\ mgr' = [mgr EXCEPT !["ctrl"].own = q] /\ UNCHANGED <<tx, due, count>>
  <2>1. Sides(mgr, encrypted, accepted, eis)'
    BY <1>1, <1>2, <1>8
  <2> QED
    BY <1>1, <1>3, <1>5, <1>8, <2>1, IInvParts DEF IInv, Traffic, Bounds
<1>9. CASE /\ count' \in Counts /\ Disturbed
           /\ mgr' = [mgr EXCEPT !["ctrl"] = [span |-> None, own |-> q, peer |-> <<>>]]
           /\ channel' \in {channel, [channel EXCEPT !["node"] = Append(@, f)]}
  <2>1. mgr' = [mgr EXCEPT !["ctrl"] = m2]
    BY <1>6, <1>9
  <2>2. Sides(mgr, encrypted, accepted, eis)'
    BY <1>1, <1>6, <1>7, <2>1, PutManager
  <2>3. channel' \in [Party -> Seq(Frames(eis))]
    BY <1>5, <1>9, IInvParts
  <2> QED
    BY <1>1, <1>3, <1>9, <2>2, <2>3, IInvParts, DisturbedTypes DEF IInv, Traffic, Bounds
<1> QED
  BY <1>8, <1>9, Counted DEF ReplyNonce, Deliver, q, f

LEMMA SilentLossKeeps ==
    ASSUME IInv, SilentLoss
    PROVE  IInv'
<1>1. channel' \in [Party -> Seq(Frames(eis))]
  BY Taken DEF SilentLoss, Party
<1>2. count' \in Counts /\ tx' \in Transactions(eis) /\ due' \subseteq 1..MaxEvents
  BY Counted, DisturbedTypes DEF SilentLoss
<1>3. UNCHANGED <<mgr, eis, parsed, replies, wants, encrypted, accepted>>
  BY DEF SilentLoss
<1> QED
  BY <1>1, <1>2, <1>3, SidesStay, IInvParts DEF IInv, Traffic, Bounds

LEMMA TwiceKeeps ==
    ASSUME IInv, NEW p \in Party, Twice(p)
    PROVE  IInv'
<1>1. Head(channel[p]) \in Frames(eis) /\ channel' = [channel EXCEPT ![p] = Append(@, Head(channel[p]))]
  BY Taken DEF Twice
<1>2. channel' \in [Party -> Seq(Frames(eis))]
  BY <1>1, IInvParts, Delivered
<1>3. count' \in Counts /\ tx' \in Transactions(eis) /\ due' \subseteq 1..MaxEvents
  BY Counted, DisturbedTypes DEF Twice
<1>4. UNCHANGED <<mgr, eis, parsed, replies, wants, encrypted, accepted>>
  BY DEF Twice
<1> QED
  BY <1>2, <1>3, <1>4, SidesStay, IInvParts DEF IInv, Traffic, Bounds
-----------------------------------------------------------------------------
(* The node                                                                *)

LEMMA TrafficWith ==
    ASSUME IInv, NEW e \in Nat, eis <= e, NEW chan \in [Party -> Seq(Frames(e))]
    PROVE  Traffic(chan, parsed, tx, replies, e)
<1>1. Traffic(channel, parsed, tx, replies, e)
  BY IInvParts, TrafficGrows DEF IInv
<1> QED
  BY <1>1 DEF Traffic

LEMMA NodeSendsNonceKeeps ==
    ASSUME IInv, NEW m \in Managers(eis), channel["node"] # <<>>, NodeSendsNonce(m),
           UNCHANGED accepted
    PROVE  /\ Sides(mgr, encrypted, accepted, eis)'
           /\ eis' \in Nat /\ eis <= eis'
           /\ channel' \in [Party -> Seq(Frames(eis'))]
<1> DEFINE q == NextSeq(m)
           m2 == Mgr(LocalEI(eis + 1), q, m.peer)
           f == NonceReport(q, eis + 1)
<1>1. "node" \in Party /\ "ctrl" \in Party /\ eis \in Nat
  BY IInvParts DEF Party
<1>2. q \in Bytes /\ m.peer \in Seq(Bytes) /\ m = Mgr(m.span, m.own, m.peer)
  BY <1>1, ManagerType
<1>3. [[m EXCEPT !.own = q] EXCEPT !.span = LocalEI(eis + 1)] = m2
  <2> HIDE DEF q
  <2>1. [m EXCEPT !.own = q] = Mgr(m.span, q, m.peer)
    BY <1>2 DEF Mgr
  <2>2. [Mgr(m.span, q, m.peer) EXCEPT !.span = LocalEI(eis + 1)] = m2
    BY DEF Mgr
  <2> QED
    BY <2>1, <2>2
<1>4. /\ mgr' = [mgr EXCEPT !["node"] = m2] /\ eis' = eis + 1
      /\ channel' = [Take("node") EXCEPT !["ctrl"] = Append(@, f)]
      /\ UNCHANGED encrypted
  BY <1>3 DEF NodeSendsNonce
<1>5. History(mgr["node"].span, encrypted["node"], accepted["node"])
  BY <1>1, IInvParts
<1> HIDE DEF q
<1>6. Sides(mgr, encrypted, accepted, eis)'
  BY <1>1, <1>2, <1>4, <1>5, PutNonce
<1>7. f \in Frames(eis + 1)
  BY <1>1, <1>2, FramesType
<1> HIDE DEF f
<1>8. Take("node") \in [Party -> Seq(Frames(eis + 1))]
  <2>1. Take("node") \in [Party -> Seq(Frames(eis))]
    BY <1>1, Taken
  <2>2. Seq(Frames(eis)) \subseteq Seq(Frames(eis + 1))
    BY <1>1, SetsGrow, SeqGrows
  <2> QED
    BY <2>1, <2>2
<1>9. channel' \in [Party -> Seq(Frames(eis + 1))]
  BY <1>1, <1>4, <1>7, <1>8, Delivered
<1> QED
  BY <1>1, <1>4, <1>6, <1>9

(* mg and acc: what the reception has made of the managers and histories.  *)
LEMMA NodeSendsKeeps ==
    ASSUME IInv, NEW mg, NEW acc, Sides(mg, encrypted, acc, eis),
           NEW m \in Managers(eis), History(m.span, encrypted["node"], acc["node"]),
           m.span.type \in {"remoteEI", "span"}, NEW c \in Cmd,
           NEW chan \in [Party -> Seq(Frames(eis))], NodeSends(m, c, chan),
           accepted' = acc, \A y : [mg EXCEPT !["node"] = y] = [mgr EXCEPT !["node"] = y]
    PROVE  /\ Sides(mgr, encrypted, accepted, eis)'
           /\ eis' \in Nat /\ eis <= eis'
           /\ channel' \in [Party -> Seq(Frames(eis'))]
<1> DEFINE x == Encoded(m, c, Nothing)
<1>1. "node" \in Party /\ "ctrl" \in Party /\ eis \in Nat /\ Nothing \in 0..eis
  BY IInvParts DEF Party, Nothing
<1>2. /\ x.eis \in {eis, eis + 1} /\ x.frame \in Encaps(x.eis)
      /\ Sides([mg EXCEPT !["node"] = x.mgr],
               [encrypted EXCEPT !["node"] = Append(@, x.frame.nonce)], acc, x.eis)
  BY <1>1, PutEncoded
<1>3. /\ eis' = x.eis /\ mgr' = [mgr EXCEPT !["node"] = x.mgr]
      /\ channel' = [chan EXCEPT !["ctrl"] = Append(@, x.frame)]
      /\ encrypted' = [encrypted EXCEPT !["node"] = Append(@, x.frame.nonce)]
  BY DEF NodeSends
<1> HIDE DEF x
<1>4. eis' \in Nat /\ eis <= eis'
  BY <1>1, <1>2, <1>3
<1>5. Sides(mgr, encrypted, accepted, eis)'
  <2>1. mgr' = [mg EXCEPT !["node"] = x.mgr]
    BY <1>3
  <2> QED
    BY <1>2, <1>3, <2>1
<1>6. channel' \in [Party -> Seq(Frames(eis'))]
  <2>1. Seq(Frames(eis)) \subseteq Seq(Frames(eis'))
    BY <1>1, <1>4, SetsGrow, SeqGrows
  <2>2. chan \in [Party -> Seq(Frames(eis'))]
    BY <2>1
  <2>3. x.frame \in Frames(eis')
    BY <1>2, <1>3 DEF Frames
  <2> QED
    BY <1>1, <1>3, <1>4, <2>2, <2>3, Delivered
<1> QED
  BY <1>4, <1>5, <1>6

LEMMA DecodedSpan ==
    ASSUME NEW e \in Nat, NEW p, NEW m \in Managers(e), NEW f \in Encaps(e), NEW expired
    PROVE  LET d == Decoded(p, m, f, expired) IN d.ok => d.span.type = "span"
<1> DEFINE s == m.span
           d == Decoded(p, m, f, expired)
<1>1. CASE s.type \in {"none", "remoteEI"}
  BY <1>1 DEF Decoded
<1>2. CASE s.type = "localEI"
  <2>1. d.ok => d.span = SPAN(<<f.ei, s.ei>>, 2, NoNonce)
    BY <1>2 DEF Decoded
  <2> QED
    BY <2>1 DEF SPAN
<1>3. CASE s.type = "span"
  <2>1. d.span = [s EXCEPT !.cur = NoNonce] \/ d = TrySPAN(s, f)
    BY <1>3 DEF Decoded
  <2>2. TrySPAN(s, f).span.type = "span"
    BY DEF TrySPAN, SPAN
  <2>3. [s EXCEPT !.cur = NoNonce].type = s.type
    OBVIOUS
  <2> QED
    BY <1>3, <2>1, <2>2, <2>3
<1>4. s.type \in {"none", "localEI", "remoteEI", "span"}
  BY ManagerType, TypesOfSpan
<1> HIDE DEF s, d
<1> QED
  BY <1>1, <1>2, <1>3, <1>4 DEF s, d

LEMMA NodeReceivesKeeps ==
    ASSUME IInv, NodeReceives
    PROVE  IInv'
<1> DEFINE f == Head(channel["node"])
           m == mgr["node"]
           enc == encrypted["node"]
           acc == accepted["node"]
           st == StoreSeq(m, f)
           Goal == /\ Sides(mgr, encrypted, accepted, eis)'
                   /\ eis' \in Nat /\ eis <= eis'
                   /\ channel' \in [Party -> Seq(Frames(eis'))]
<1>1. "node" \in Party /\ "ctrl" \in Party /\ channel["node"] # <<>>
      /\ UNCHANGED <<parsed, tx, due, replies, last, count>>
  BY DEF Party, NodeReceives
<1>2. f \in Frames(eis) /\ Take("node") \in [Party -> Seq(Frames(eis))]
  BY <1>1, Taken
<1>3. /\ m \in Managers(eis) /\ History(m.span, enc, acc) /\ eis \in Nat
      /\ enc \in Seq(Nonces(eis)) /\ acc \in Seq(Acceptances(eis)) /\ m.span \in Spans(eis)
      /\ m.span.type \in {"none", "localEI", "remoteEI", "span"}
  BY <1>1, IInvParts, ManagerType, TypesOfSpan
<1>4. wants \in Nat /\ wants' \in 0..MaxEvents
  <2>1. wants \in 0..MaxEvents /\ Nothing \in 0..MaxEvents
    BY IInvParts, S2Assumption DEF Nothing, S2Assumption
  <2>2. wants' = wants \/ wants' = Nothing
    BY Zenon DEF NodeReceives
  <2>3. wants \in Nat
    BY <2>1, S2Assumption DEF S2Assumption
  <2> QED
    BY <2>1, <2>2, <2>3
<1>5. \A n \in Nat : /\ [id |-> n, kind |-> "event"] \in Cmd
                     /\ [id |-> n, kind |-> "response"] \in Cmd
  BY DEF Cmd
<1> SUFFICES Goal
  <2>1. Traffic(channel', parsed, tx, replies, eis')
    BY <1>1, TrafficWith
  <2> QED
    BY <1>1, <1>4, <2>1, IInvParts DEF IInv, Bounds
<1>6. CASE channel' = Take("node") /\ UNCHANGED <<mgr, eis, encrypted, accepted>>
  BY <1>2, <1>3, <1>6, SidesStay
<1>7. CASE NodeSendsNonce(st) /\ UNCHANGED accepted
  <2>1. st \in Managers(eis)
    <3> HIDE DEF f, m
    <3> QED
      BY <1>2, <1>3, StoredManager
  <2> HIDE DEF st
  <2> QED
    BY <1>1, <1>7, <2>1, NodeSendsNonceKeeps
<1>8. CASE f.type = "nonceReport" /\ UNCHANGED accepted
           /\ IF wants # Nothing
                THEN NodeSends([st EXCEPT !.span = RemoteEI(f.ei)],
                               [id |-> wants, kind |-> "event"], Take("node"))
                ELSE /\ mgr' = [mgr EXCEPT !["node"] = [st EXCEPT !.span = RemoteEI(f.ei)]]
                     /\ channel' = Take("node")
                     /\ UNCHANGED <<eis, encrypted>>
  <2> DEFINE m2 == Stored(m, f, RemoteEI(f.ei))
             c == [id |-> wants, kind |-> "event"]
  <2>1. f.ei \in 1..eis
    BY <1>2, <1>3, <1>8, FrameTypes
  <2>2. /\ RemoteEI(f.ei) \in Spans(eis) /\ History(RemoteEI(f.ei), enc, acc)
        /\ RemoteEI(f.ei).type = "remoteEI"
    BY <1>3, <2>1, FreshTypes, FreshHistory DEF RemoteEI
  <2>3. m2 \in Managers(eis) /\ m2.span = RemoteEI(f.ei)
    <3> HIDE DEF f, m
    <3> QED
      BY <1>2, <1>3, <2>2, StoredManager
  <2>4. [st EXCEPT !.span = RemoteEI(f.ei)] = m2
    BY DEF Stored
  <2>5. c \in Cmd
    BY <1>4, <1>5
  <2> HIDE DEF m2, c, st
  <2>6. CASE wants # Nothing
    <3>1. NodeSends(m2, c, Take("node"))
      BY <1>8, <2>4, <2>6 DEF c
    <3>2. Sides(mgr, encrypted, accepted, eis)
      BY IInvParts
    <3>3. History(m2.span, encrypted["node"], accepted["node"])
      BY <2>2, <2>3
    <3>4. m2.span.type \in {"remoteEI", "span"}
      BY <2>2, <2>3
    <3> HIDE DEF m, enc, acc, f
    <3> QED
      BY <1>2, <1>8, <2>3, <2>5, <3>1, <3>2, <3>3, <3>4, NodeSendsKeeps
  <2>7. CASE wants = Nothing
    <3>1. mgr' = [mgr EXCEPT !["node"] = m2] /\ UNCHANGED <<eis, encrypted, accepted>>
          /\ channel' = Take("node")
      BY <1>8, <2>4, <2>7
    <3>2. Sides(mgr, encrypted, accepted, eis)'
      BY <1>1, <2>2, <2>3, <3>1, PutManager
    <3> QED
      BY <1>2, <1>3, <3>1, <3>2
  <2> QED
    BY <2>6, <2>7
<1> DEFINE d == Decoded("node", m, f, FALSE)
           after == [st EXCEPT !.span = d.span]
           a == [cmd |-> f.cmd, nonce |-> f.nonce]
           m3 == Stored(m, f, d.span)
<1>9. ASSUME f.type = "encap"
      PROVE  /\ m3 \in Managers(eis) /\ m3.span = d.span /\ after = m3
             /\ a \in Acceptances(eis) /\ f.cmd.id \in Nat
             /\ d.ok => History(d.span, enc, Append(acc, a)) /\ d.span.type = "span"
             /\ ~d.ok => History(d.span, enc, acc)
  <2>1. f \in Encaps(eis) /\ f.cmd \in Cmd /\ f.nonce \in Nonces(eis)
    BY <1>2, <1>3, <1>9, FrameTypes
  <2>2. /\ d.span \in Spans(eis)
        /\ d.ok => History(d.span, enc, Append(acc, a))
        /\ ~d.ok => History(d.span, enc, acc)
    BY <1>3, <2>1, S2Assumption, DecodedKeeps
  <2>3. a \in Acceptances(eis) /\ f.cmd.id \in Nat
    BY <2>1 DEF Acceptances, Cmd
  <2>4. m3 \in Managers(eis) /\ m3.span = d.span
    <3> HIDE DEF f, m, d
    <3> QED
      BY <1>2, <1>3, <2>2, StoredManager
  <2>5. after = m3
    BY DEF Stored
  <2>6. d.ok => d.span.type = "span"
    BY <1>3, <2>1, DecodedSpan
  <2> QED
    BY <2>2, <2>3, <2>4, <2>5, <2>6
<1>10. CASE f.type = "encap" /\ ~d.ok /\ NodeSendsNonce(after) /\ UNCHANGED accepted
  <2>1. m3 \in Managers(eis) /\ NodeSendsNonce(m3)
    BY <1>9, <1>10
  <2> HIDE DEF m3
  <2> QED
    BY <1>1, <1>10, <2>1, NodeSendsNonceKeeps
<1>11. CASE /\ f.type = "encap" /\ d.ok
            /\ accepted' = [accepted EXCEPT !["node"] = Append(@, a)]
            /\ \/ NodeSends(after, [id |-> f.cmd.id, kind |-> "response"], Take("node"))
               \/ /\ mgr' = [mgr EXCEPT !["node"] = after]
                  /\ channel' = Take("node")
                  /\ UNCHANGED <<eis, encrypted>>
  <2> DEFINE c == [id |-> f.cmd.id, kind |-> "response"]
             acc2 == [accepted EXCEPT !["node"] = Append(@, a)]
             mg2 == [mgr EXCEPT !["node"] = m3]
  <2>1. /\ m3 \in Managers(eis) /\ m3.span.type = "span" /\ a \in Acceptances(eis)
        /\ History(m3.span, enc, Append(acc, a)) /\ c \in Cmd /\ after = m3
    BY <1>5, <1>9, <1>11
  <2>2. acc2["node"] = Append(acc, a)
    BY <1>1, IInvParts DEF IInv, Sides
  <2> HIDE DEF m3, a, c, after, f, m, d
  <2>3. Sides(mg2, encrypted, acc2, eis)
    BY <1>1, <2>1, PutAccepted
  <2>4. CASE NodeSends(after, c, Take("node"))
    <3>1. NodeSends(m3, c, Take("node"))
      BY <2>1, <2>4
    <3>2. \A y : [mg2 EXCEPT !["node"] = y] = [mgr EXCEPT !["node"] = y]
      OBVIOUS
    <3>3. History(m3.span, encrypted["node"], acc2["node"])
      BY <2>1, <2>2
    <3>4. accepted' = acc2
      BY <1>11
    <3> HIDE DEF mg2, acc2
    <3> QED
      BY <1>2, <2>1, <2>3, <3>1, <3>2, <3>3, <3>4, NodeSendsKeeps
  <2>5. CASE mgr' = [mgr EXCEPT !["node"] = after] /\ channel' = Take("node")
             /\ UNCHANGED <<eis, encrypted>>
    <3>1. mgr' = mg2 /\ accepted' = acc2
      BY <1>11, <2>1, <2>5
    <3> HIDE DEF mg2, acc2
    <3>2. Sides(mgr, encrypted, accepted, eis)'
      BY <2>3, <2>5, <3>1
    <3>3. eis' \in Nat /\ eis <= eis'
      BY <1>3, <2>5
    <3>4. channel' \in [Party -> Seq(Frames(eis'))]
      BY <1>2, <2>5
    <3> QED
      BY <3>2, <3>3, <3>4
  <2> QED
    BY <1>11, <2>4, <2>5 DEF c
<1> HIDE DEF Goal
<1>12. \/ channel' = Take("node") /\ UNCHANGED <<mgr, eis, encrypted, accepted>>
       \/ NodeSendsNonce(st) /\ UNCHANGED accepted
       \/ /\ f.type = "nonceReport" /\ UNCHANGED accepted
          /\ IF wants # Nothing
               THEN NodeSends([st EXCEPT !.span = RemoteEI(f.ei)],
                              [id |-> wants, kind |-> "event"], Take("node"))
               ELSE /\ mgr' = [mgr EXCEPT !["node"] = [st EXCEPT !.span = RemoteEI(f.ei)]]
                    /\ channel' = Take("node")
                    /\ UNCHANGED <<eis, encrypted>>
       \/ f.type = "encap" /\ ~d.ok /\ NodeSendsNonce(after) /\ UNCHANGED accepted
       \/ /\ f.type = "encap" /\ d.ok
          /\ accepted' = [accepted EXCEPT !["node"] = Append(@, a)]
          /\ \/ NodeSends(after, [id |-> f.cmd.id, kind |-> "response"], Take("node"))
             \/ /\ mgr' = [mgr EXCEPT !["node"] = after]
                /\ channel' = Take("node")
                /\ UNCHANGED <<eis, encrypted>>
  BY Zenon DEF NodeReceives
<1> QED
  BY <1>6, <1>7, <1>8, <1>10, <1>11, <1>12

LEMMA NodeEventKeeps ==
    ASSUME IInv, NodeEvent
    PROVE  IInv'
<1> DEFINE m == mgr["node"]
           id == count.event + 1
           c == [id |-> id, kind |-> "event"]
           q == NextSeq(m)
           Goal == /\ Sides(mgr, encrypted, accepted, eis)'
                   /\ eis' \in Nat /\ eis <= eis'
                   /\ channel' \in [Party -> Seq(Frames(eis'))]
<1>1. /\ "node" \in Party /\ "ctrl" \in Party /\ count.event < MaxEvents
      /\ UNCHANGED <<parsed, replies, accepted>> /\ wants = Nothing
  BY DEF Party, NodeEvent
<1>2. id \in 1..MaxEvents /\ id \in Nat /\ count' \in Counts
  <2>1. count' \in Counts /\ count.event \in 0..MaxEvents
    BY <1>1, Counted DEF NodeEvent
  <2> QED
    BY <1>1, <2>1, S2Assumption DEF S2Assumption
<1>3. tx' \in Transactions(eis) /\ due' \subseteq 1..MaxEvents
  <2>1. CASE InStep
    BY <1>2, <2>1, IInvParts DEF NodeEvent
  <2>2. CASE ~InStep
    BY <2>2, DisturbedTypes DEF NodeEvent
  <2> QED
    BY <2>1, <2>2
<1>4. c \in Cmd
  BY <1>2 DEF Cmd
<1>5. wants' \in 0..MaxEvents
  <2>1. wants' = wants \/ wants' = id
    BY DEF NodeEvent
  <2> QED
    BY <1>2, <2>1, IInvParts
<1> HIDE DEF id, c
<1>6. ASSUME m.span.type \in {"remoteEI", "span"} /\ NodeSends(m, c, channel)
      PROVE  Goal
  <2>1. /\ m \in Managers(eis) /\ History(m.span, encrypted["node"], accepted["node"])
        /\ Sides(mgr, encrypted, accepted, eis) /\ channel \in [Party -> Seq(Frames(eis))]
    BY <1>1, IInvParts
  <2> HIDE DEF m
  <2> QED
    BY <1>1, <1>4, <1>6, <2>1, NodeSendsKeeps
<1>7. ASSUME /\ mgr' = [mgr EXCEPT !["node"].own = q] /\ Deliver("ctrl", NonceGet(q))
             /\ UNCHANGED <<eis, encrypted>>
      PROVE  Goal
  <2>1. q \in Bytes /\ Sides([mgr EXCEPT !["node"].own = q], encrypted, accepted, eis)
    BY <1>1, IInvParts, Numbered
  <2> HIDE DEF q
  <2>2. NonceGet(q) \in Frames(eis)
    BY <2>1, IInvParts, FramesType
  <2>3. channel' \in [Party -> Seq(Frames(eis))]
    BY <1>1, <1>7, <2>2, IInvParts, Delivered DEF Deliver
  <2>4. Sides(mgr, encrypted, accepted, eis)'
    BY <1>1, <1>7, <2>1
  <2> QED
    BY <1>7, <2>3, <2>4, IInvParts
<1>8. Goal
  <2>1. \/ m.span.type \in {"remoteEI", "span"} /\ NodeSends(m, c, channel)
        \/ /\ mgr' = [mgr EXCEPT !["node"].own = q] /\ Deliver("ctrl", NonceGet(q))
           /\ UNCHANGED <<eis, encrypted>>
    BY Zenon DEF NodeEvent, c, id
  <2> QED
    BY <1>6, <1>7, <2>1
<1>9. Traffic(channel', parsed, tx, replies, eis')
  BY <1>8, TrafficWith
<1>10. tx' \in Transactions(eis')
  BY <1>3, <1>8, SetsGrow, IInvParts
<1>11. Traffic(channel, parsed, tx, replies, eis)'
  BY <1>1, <1>9, <1>10 DEF Traffic
<1> QED
  BY <1>2, <1>3, <1>5, <1>8, <1>11 DEF IInv, Bounds

LEMMA NodeGivesUpKeeps ==
    ASSUME IInv, NodeGivesUp
    PROVE  IInv'
<1>1. wants' \in 0..MaxEvents
  BY S2Assumption DEF NodeGivesUp, Nothing, S2Assumption
<1>2. UNCHANGED <<mgr, eis, channel, parsed, tx, replies, encrypted, accepted, due, count>>
  BY DEF NodeGivesUp
<1> QED
  BY <1>1, <1>2, SidesStay, IInvParts DEF IInv, Traffic, Bounds
-----------------------------------------------------------------------------
(* The theorems                                                            *)

LEMMA InitIInv ==
    ASSUME Init
    PROVE  IInv
<1> DEFINE m == Mgr(None, FirstSeq, <<>>)
<1>1. m \in Managers(0) /\ m.span = None
  <2>1. None \in Spans(0) /\ FirstSeq \in Bytes /\ <<>> \in Seq(Bytes)
    BY FreshTypes, S2Assumption DEF S2Assumption, Bytes
  <2> QED
    BY <2>1 DEF Mgr, Managers
<1>2. mgr = [p \in Party |-> m]
  BY DEF Init, Mgr
<1>3. History(None, <<>>, <<>>)
  BY DEF History, None
<1> HIDE DEF m
<1>4. Sides(mgr, encrypted, accepted, eis)
  <2>1. eis = 0 /\ encrypted = [p \in Party |-> <<>>] /\ accepted = [p \in Party |-> <<>>]
    BY DEF Init
  <2>2. mgr \in [Party -> Managers(0)] /\ \A p \in Party : mgr[p].span = None
    BY <1>1, <1>2
  <2> QED
    BY <1>3, <2>1, <2>2 DEF Sides
<1>5. Idle \in Transactions(0)
  BY S2Assumption DEF Idle, Transactions, Steps, Nothing, S2Assumption
<1>6. Traffic(channel, parsed, tx, replies, eis)
  BY <1>5 DEF Init, Traffic
<1>7. Bounds
  BY S2Assumption DEF Init, Bounds, Counts, Nothing, S2Assumption
<1> QED
  BY <1>4, <1>6, <1>7 DEF IInv

LEMMA NextIInv ==
    ASSUME IInv, [Next]_vars
    PROVE  IInv'
<1>1. CASE UNCHANGED vars
  BY <1>1 DEF vars, IInv, Bounds
<1>2. ASSUME NEW kind \in {"set", "get"}, Begin(kind) PROVE IInv'
  BY <1>2, BeginKeeps
<1>3. ASSUME NEW p \in Party, Twice(p) PROVE IInv'
  BY <1>3, TwiceKeeps
<1> QED
  BY <1>1, <1>2, <1>3, RequestNonceKeeps, SendCommandKeeps, CannotEncodeKeeps,
     NonceGetFailsKeeps, SendingFailsKeeps, ResendKeeps, NothingComesKeeps, ParseKeeps, HandleNonceGetKeeps,
     HandleNonceReportKeeps, HandleCommandKeeps, OtherBeginsKeeps, OtherEndsKeeps,
     ReplyNonceKeeps, NodeReceivesKeeps, NodeEventKeeps, NodeGivesUpKeeps, SilentLossKeeps
     DEF Next

(* Every reachable state satisfies the inductive invariant: both sides'    *)
(* generators (core/src/security/Manager2.ts, SPAN table) are past every   *)
(* nonce of their seed that was used or accepted so far.                   *)
THEOREM Invariance == Spec => []IInv
<1>1. Init => IInv
  BY InitIInv
<1>2. IInv /\ [Next]_vars => IInv'
  BY NextIInv
<1> QED
  BY <1>1, <1>2, PTL DEF Spec

LEMMA CommandTypes ==
    ASSUME IInv, NEW p \in Party
    PROVE  \A i \in DOMAIN accepted[p] : accepted[p][i].cmd \in Cmd
<1>1. accepted[p] \in Seq(Acceptances(eis))
  BY IInvParts
<1>2. \A i \in DOMAIN accepted[p] : accepted[p][i] \in Acceptances(eis)
  BY <1>1
<1> QED
  BY <1>2 DEF Acceptances

LEMMA SpanTypes ==
    ASSUME IInv, NEW p \in Party
    PROVE  /\ mgr[p].own \in 0..255
           /\ mgr[p].peer = <<>> \/ mgr[p].peer[1] \in 0..255
           /\ CASE mgr[p].span.type = "span" ->
                     mgr[p].span.seed \in Seed /\ mgr[p].span.k \in Nat \ {0}
                [] mgr[p].span.type \in {"localEI", "remoteEI"} -> mgr[p].span.ei \in 1..eis
                [] OTHER -> mgr[p].span = None
<1> DEFINE m == mgr[p]
           s == m.span
<1>1. m \in Managers(eis) /\ eis \in Nat
  BY IInvParts
<1>2. s \in Spans(eis) /\ m.own \in Bytes /\ m.peer \in Seq(Bytes)
  BY <1>1, ManagerType
<1>3. m.own \in 0..255
  BY <1>2 DEF Bytes
<1>4. m.peer = <<>> \/ m.peer[1] \in 0..255
  <2> DEFINE w == m.peer
  <2> HIDE DEF w
  <2>1. w \in Seq(Bytes)
    BY <1>2 DEF w
  <2>2. w = <<>> \/ w[1] \in Bytes
    BY <2>1
  <2> QED
    BY <2>2 DEF w, Bytes
<1> HIDE DEF s
<1>5. /\ s.type = "span" => s.seed \in Seeds(eis) /\ s.k \in Nat \ {0}
      /\ s.type \in {"localEI", "remoteEI"} => s.ei \in 1..eis
      /\ s.type \notin {"span", "localEI", "remoteEI"} => s = None
  <2>1. s = None \/ s.type \in {"localEI", "remoteEI", "span"}
    BY <1>2 DEF Spans
  <2>2. s.type \in {"localEI", "remoteEI"} => s.ei \in 1..eis
    BY <1>2 DEF Spans, None
  <2> QED
    BY <1>1, <1>2, <2>1, <2>2, TypesOfSpan
<1>6. /\ CASE s.type = "span" -> s.seed \in Seed /\ s.k \in Nat \ {0}
           [] s.type \in {"localEI", "remoteEI"} -> s.ei \in 1..eis
           [] OTHER -> s = None
  BY <1>5 DEF Seed, Seeds
<1> QED
  BY <1>3, <1>4, <1>6 DEF s

(* The managers, the queues and the transaction have their types: sequence *)
(* numbers stay in a byte, seeds consist of entropy inputs that exist      *)
(* (SecurityManager2: nextSequenceNumber, initializeSPAN, spanTable).      *)
THEOREM TypeCorrect == Spec => []TypeOK
<1>1. IInv => TypeOK
  <2> SUFFICES ASSUME IInv PROVE TypeOK
    OBVIOUS
  <2>1. /\ tx.step \in {"idle", "needsNonce", "awaitsNonce", "ready", "resend", "sent"}
        /\ tx.step = "resend" => tx.frame # <<>>
        /\ tx.id \in 0..MaxTransactions /\ tx.try \in 1..2 /\ tx.ext \in 0..eis
        /\ replies \in Seq(0..eis)
        /\ due \subseteq 1..MaxEvents /\ wants \in 0..MaxEvents
    BY TxTypes, IInvParts DEF Steps
  <2> QED
    <3>1. ASSUME NEW p \in Party
          PROVE  /\ mgr[p].own \in 0..255
                 /\ mgr[p].peer = <<>> \/ mgr[p].peer[1] \in 0..255
                 /\ CASE mgr[p].span.type = "span" ->
                           mgr[p].span.seed \in Seed /\ mgr[p].span.k \in Nat \ {0}
                      [] mgr[p].span.type \in {"localEI", "remoteEI"} -> mgr[p].span.ei \in 1..eis
                      [] OTHER -> mgr[p].span = None
                 /\ \A i \in DOMAIN accepted[p] : accepted[p][i].cmd \in Cmd
      BY SpanTypes, CommandTypes, Zenon
    <3> QED
      BY <2>1, <3>1, Zenon DEF TypeOK
<1> QED
  BY <1>1, Invariance, PTL

(* No party encrypts two commands with the same nonce, however often the   *)
(* SPAN is established again, whatever is lost, repeated or overwritten    *)
(* (SecurityManager2.nextNonce, Security2CC.serialize).                    *)
THEOREM NonceUsedOnce == Spec => []NonceOnce
<1>1. IInv => NonceOnce
  <2> SUFFICES ASSUME IInv, NEW p \in Party PROVE IsInjective(encrypted[p])
    BY DEF NonceOnce
  <2>1. encrypted[p] \in Seq(Nonces(eis))
    BY IInvParts
  <2>2. DOMAIN encrypted[p] = 1..Len(encrypted[p])
    BY <2>1
  <2>3. \A i, j \in 1..Len(encrypted[p]) : encrypted[p][i] = encrypted[p][j] => i = j
    BY IInvParts DEF History
  <2> QED
    BY <2>2, <2>3 DEF IsInjective
<1> QED
  BY <1>1, Invariance, PTL

(* A frame is decoded at most once, although only the last sequence number *)
(* of the other party is remembered and deleteNonce forgets it             *)
(* (Security2CC.decryptSinglecast, SecurityManager2.isDuplicateSinglecast).*)
THEOREM AcceptedOnceOnly == Spec => []AcceptedOnce
<1>1. IInv => AcceptedOnce
  <2> SUFFICES ASSUME IInv, NEW p \in Party,
                      NEW i \in DOMAIN accepted[p], NEW j \in DOMAIN accepted[p],
                      accepted[p][i].nonce = accepted[p][j].nonce
               PROVE  i = j
    BY DEF AcceptedOnce
  <2>1. accepted[p] \in Seq(Acceptances(eis))
    BY IInvParts
  <2>2. DOMAIN accepted[p] = 1..Len(accepted[p])
    BY <2>1
  <2>3. \A a, b \in 1..Len(accepted[p]) : accepted[p][a].nonce = accepted[p][b].nonce => a = b
    BY IInvParts DEF History
  <2> QED
    BY <2>2, <2>3
<1> QED
  BY <1>1, Invariance, PTL

-----------------------------------------------------------------------------
(* An event that crosses a command.  What Quiet of the model means for the *)
(* event: the two sides are in step, and the controller is past the event  *)
(* by one nonce at most.                                                   *)
ctrl   == mgr["ctrl"].span
node   == mgr["node"].span
toCtrl == channel["ctrl"]
toNode == channel["node"]
NextTo(f) == mgr["ctrl"].peer # <<>> /\ f.seq = (mgr["ctrl"].peer[1] + 1) % 256
EventCmd(i) == [id |-> i, kind |-> "event"]

(* The controller will decode e: it has the next sequence number, and the  *)
(* nonce the controller takes next, which one more command may still use,  *)
(* or the one that command has used.                                       *)
Awaited(e, s, t) ==
    /\ e.type = "encap" /\ e.ei = Nothing /\ s.type = "span"
    /\ \/ e.nonce = Nonce(s.seed, s.k) /\ ~(t.step = "ready" /\ t.try = 2)
       \/ e.nonce = s.cur /\ t.step = "sent"
OnItsWay(i) ==
    /\ toCtrl # <<>> /\ parsed = <<>> /\ replies = <<>>
    /\ NextTo(Head(toCtrl)) /\ Head(toCtrl).cmd = EventCmd(i)
    /\ Awaited(Head(toCtrl), ctrl, tx)
DueInv == \A i \in due : EventCmd(i) \in Commands("ctrl") \/ OnItsWay(i)

LEMMA Accumulate ==
    ASSUME IInv, NEW p \in Party
    PROVE  /\ \A a : accepted' = [accepted EXCEPT ![p] = Append(@, a)] =>
                a.cmd \in Commands(p)'
           /\ \A a : accepted' = [accepted EXCEPT ![p] = Append(@, a)] =>
                \A q \in Party : Commands(q) \subseteq Commands(q)'
           /\ \A q \in Party : accepted'[q] = accepted[q] => Commands(q)' = Commands(q)
<1>1. accepted \in [Party -> Seq(Acceptances(eis))]
  BY DEF IInv, Sides
<1>2. \A q \in Party : accepted[q] \in Seq(Acceptances(eis))
  BY <1>1
<1>3. ASSUME NEW a, accepted' = [accepted EXCEPT ![p] = Append(@, a)]
      PROVE  /\ a.cmd \in Commands(p)'
             /\ \A q \in Party : Commands(q) \subseteq Commands(q)'
  <2> DEFINE s == accepted[p]
  <2>1. accepted'[p] = Append(s, a) /\ \A q \in Party : q # p => accepted'[q] = accepted[q]
    BY <1>1, <1>3
  <2>2. s \in Seq(Acceptances(eis))
    BY <1>2
  <2> HIDE DEF s
  <2>3. /\ DOMAIN s = 1..Len(s) /\ DOMAIN Append(s, a) = 1..(Len(s) + 1)
        /\ Append(s, a)[Len(s) + 1] = a /\ \A i \in 1..Len(s) : Append(s, a)[i] = s[i]
        /\ Len(s) + 1 \in 1..(Len(s) + 1) /\ 1..Len(s) \subseteq 1..(Len(s) + 1)
    BY <2>2
  <2>4. a.cmd \in Commands(p)'
    BY <2>1, <2>3 DEF Commands
  <2>5. Commands(p) \subseteq Commands(p)'
    BY <2>1, <2>3 DEF Commands, s
  <2>6. \A q \in Party : q # p => Commands(q) \subseteq Commands(q)'
    BY <2>1 DEF Commands
  <2> QED
    BY <2>4, <2>5, <2>6
<1>4. \A q \in Party : accepted'[q] = accepted[q] => Commands(q)' = Commands(q)
  BY DEF Commands
<1> QED
  BY <1>3, <1>4

(* What an encoded command looks like.                                     *)
IsEncoded(x, m, c, ext) ==
    /\ x.frame.type = "encap" /\ x.frame.seq = NextSeq(m) /\ x.frame.cmd = c
    /\ x.mgr.own = NextSeq(m) /\ x.mgr.peer = m.peer
    /\ x.mgr.span.type = "span" /\ x.mgr.span.cur = x.frame.nonce
    /\ m.span.type = "remoteEI" =>
         /\ x.eis = eis + 1 /\ x.frame.ei = eis + 1
         /\ x.frame.nonce = Nonce(<<eis + 1, m.span.ei>>, 1)
         /\ x.mgr.span.seed = <<eis + 1, m.span.ei>> /\ x.mgr.span.k = 2
    /\ m.span.type = "span" =>
         /\ x.eis = eis /\ x.frame.ei = ext
         /\ x.frame.nonce = Nonce(m.span.seed, m.span.k)
         /\ x.mgr.span.seed = m.span.seed /\ x.mgr.span.k = m.span.k + 1

LEMMA EncodedIs ==
    ASSUME NEW e, NEW m \in Managers(e), NEW c, NEW ext
    PROVE  IsEncoded(Encoded(m, c, ext), m, c, ext)
<1> DEFINE fresh == m.span.type = "remoteEI"
           seed == IF fresh THEN <<eis + 1, m.span.ei>> ELSE m.span.seed
           k == IF fresh THEN 1 ELSE m.span.k
           ei == IF fresh THEN eis + 1 ELSE ext
           n == Nonce(seed, k)
           s2 == SPAN(seed, k + 1, n)
           x == Encoded(m, c, ext)
<1>1. /\ x.eis = (IF fresh THEN eis + 1 ELSE eis) /\ x.frame = Encap(NextSeq(m), ei, n, c)
      /\ x.mgr = [m EXCEPT !.own = NextSeq(m), !.span = s2]
  BY DEF Encoded
<1>2. m = [span |-> m.span, own |-> m.own, peer |-> m.peer]
  BY DEF Managers
<1> HIDE DEF x
<1>3. /\ x.frame.type = "encap" /\ x.frame.seq = NextSeq(m) /\ x.frame.cmd = c
      /\ x.frame.ei = ei /\ x.frame.nonce = n
  BY <1>1 DEF Encap
<1> HIDE DEF n
<1>4. /\ s2.type = "span" /\ s2.cur = n /\ s2.seed = seed /\ s2.k = k + 1
  BY DEF SPAN
<1> HIDE DEF s2
<1>5. x.mgr = [span |-> s2, own |-> NextSeq(m), peer |-> m.peer]
  BY <1>1, <1>2
<1>6. x.mgr.own = NextSeq(m) /\ x.mgr.peer = m.peer /\ x.mgr.span = s2
  BY <1>5
<1> QED
  BY <1>1, <1>3, <1>4, <1>6 DEF x, n, seed, k, ei, fresh, IsEncoded

(* The manager of one party, after that of p was replaced or numbered.     *)
LEMMA ManagerAfter ==
    ASSUME IInv, NEW p \in Party
    PROVE  /\ \A m : mgr' = [mgr EXCEPT ![p] = m] =>
                mgr'[p] = m /\ \A q \in Party : q # p => mgr'[q] = mgr[q]
           /\ \A o : mgr' = [mgr EXCEPT ![p].own = o] =>
                /\ mgr'[p].span = mgr[p].span /\ mgr'[p].peer = mgr[p].peer
                /\ mgr'[p].own = o
                /\ \A q \in Party : q # p => mgr'[q] = mgr[q]
<1>1. mgr \in [Party -> Managers(eis)] /\ mgr[p] = Mgr(mgr[p].span, mgr[p].own, mgr[p].peer)
  BY IInvParts, ManagerType
<1>2. \A o : [mgr[p] EXCEPT !.own = o] = Mgr(mgr[p].span, o, mgr[p].peer)
  BY <1>1 DEF Mgr
<1>3. \A o : [mgr EXCEPT ![p].own = o] = [mgr EXCEPT ![p] = [mgr[p] EXCEPT !.own = o]]
  OBVIOUS
<1> QED
  BY <1>1, <1>2, <1>3 DEF Mgr

(* Nothing that matters to a frame on its way to the controller changes.   *)
LEMMA StillOnItsWay ==
    ASSUME NEW i, OnItsWay(i), parsed' = parsed, replies' = replies,
           toCtrl' # <<>>, Head(toCtrl') = Head(toCtrl),
           ctrl' = ctrl, mgr'["ctrl"].peer = mgr["ctrl"].peer,
           \/ tx' = tx
           \/ tx.step # "sent" /\ tx'.step # "ready"
           \/ tx.step # "sent" /\ tx'.try = 1
    PROVE  OnItsWay(i)'
BY DEF OnItsWay, NextTo, Awaited

LEMMA StillDue ==
    ASSUME IInv, DueInv, due' \subseteq due, Commands("ctrl") \subseteq Commands("ctrl")',
           parsed' = parsed, replies' = replies,
           toCtrl # <<>> => toCtrl' # <<>> /\ Head(toCtrl') = Head(toCtrl),
           ctrl' = ctrl, mgr'["ctrl"].peer = mgr["ctrl"].peer,
           \/ tx' = tx
           \/ tx.step # "sent" /\ tx'.step # "ready"
           \/ tx.step # "sent" /\ tx'.try = 1
    PROVE  DueInv'
<1> SUFFICES ASSUME NEW i \in due', ~(EventCmd(i) \in Commands("ctrl")')
             PROVE  OnItsWay(i)'
  BY DEF DueInv, EventCmd
<1>1. i \in due /\ ~(EventCmd(i) \in Commands("ctrl"))
  OBVIOUS
<1>2. OnItsWay(i)
  BY <1>1 DEF DueInv
<1>3. toCtrl # <<>>
  BY <1>2 DEF OnItsWay
<1> QED
  BY <1>2, <1>3, StillOnItsWay

(* Nothing on its way: what is due has come, or nothing is due.            *)
LEMMA NoneOnItsWay ==
    ASSUME DueInv, due' \subseteq due, accepted' = accepted,
           toCtrl = <<>> \/ parsed # <<>> \/ replies # <<>>
    PROVE  DueInv'
<1>1. \A i : ~OnItsWay(i)
  BY DEF OnItsWay
<1>2. \A i \in due : EventCmd(i) \in Commands("ctrl")
  BY <1>1 DEF DueInv
<1>3. Commands("ctrl")' = Commands("ctrl")
  BY DEF Commands
<1> QED
  BY <1>2, <1>3 DEF DueInv, EventCmd

(* A command that the event crosses: the event was encrypted with the      *)
(* nonce that the command takes now.                                       *)
LEMMA SendCommandDue ==
    ASSUME IInv, DueInv, SendCommand
    PROVE  DueInv'
<1> DEFINE c == [id |-> tx.id, kind |-> tx.kind]
           x == Encoded(mgr["ctrl"], c, tx.ext)
<1>0. "ctrl" \in Party /\ "node" \in Party /\ "ctrl" # "node"
  BY DEF Party
<1>1. /\ mgr' = [mgr EXCEPT !["ctrl"] = x.mgr] /\ tx.step = "ready"
      /\ Deliver("node", x.frame) /\ AfterSending(x.frame.ei)
      /\ UNCHANGED <<parsed, replies, accepted, due>>
  BY DEF SendCommand
<1>2. mgr["ctrl"] \in Managers(eis) /\ eis \in Nat /\ channel \in [Party -> Seq(Frames(eis))]
  BY <1>0, IInvParts
<1>3. /\ x.mgr.peer = mgr["ctrl"].peer /\ x.mgr.span.type = "span"
      /\ ctrl.type = "span" => x.mgr.span.cur = Nonce(ctrl.seed, ctrl.k)
  <2>1. IsEncoded(x, mgr["ctrl"], c, tx.ext)
    BY <1>2, EncodedIs
  <2> HIDE DEF x
  <2> QED
    BY <2>1 DEF ctrl, IsEncoded
<1> HIDE DEF x
<1>4. mgr'["ctrl"] = x.mgr
  BY <1>0, <1>1, ManagerAfter
<1>5. toCtrl' = toCtrl
  BY <1>0, <1>1, <1>2 DEF Deliver, toCtrl
<1>6. tx.try # 2 => tx'.step = "sent"
  BY <1>1, TxTypes DEF AfterSending, Ends
<1>7. Commands("ctrl")' = Commands("ctrl")
  BY <1>1 DEF Commands
<1> SUFFICES ASSUME NEW i \in due, OnItsWay(i) PROVE OnItsWay(i)'
  BY <1>1, <1>7 DEF DueInv, EventCmd
<1>8. /\ Awaited(Head(toCtrl), ctrl, tx) /\ NextTo(Head(toCtrl))
      /\ toCtrl # <<>> /\ parsed = <<>> /\ replies = <<>> /\ Head(toCtrl).cmd = EventCmd(i)
  BY DEF OnItsWay
<1>9. /\ Head(toCtrl).type = "encap" /\ Head(toCtrl).ei = Nothing /\ ctrl.type = "span"
      /\ Head(toCtrl).nonce = Nonce(ctrl.seed, ctrl.k) /\ tx.try # 2
  BY <1>1, <1>8 DEF Awaited
<1>10. ctrl'.type = "span" /\ ctrl'.cur = Nonce(ctrl.seed, ctrl.k)
  BY <1>3, <1>4, <1>9 DEF ctrl
<1>11. Awaited(Head(toCtrl'), ctrl', tx')
  BY <1>5, <1>6, <1>9, <1>10 DEF Awaited, Nothing
<1>12. NextTo(Head(toCtrl))'
  BY <1>3, <1>4, <1>5, <1>8 DEF NextTo
<1> QED
  BY <1>1, <1>5, <1>8, <1>11, <1>12 DEF OnItsWay, EventCmd

LEMMA NonceIsPair ==
    ASSUME NEW e, NEW n \in Nonces(e)
    PROVE  n # <<>> /\ n = <<n[1], n[2]>>
<1>1. n \in Seeds(e) \X Nat
  BY DEF Nonces
<1>2. \A a, b : n = <<a, b>> => n # <<>> /\ n = <<n[1], n[2]>>
  OBVIOUS
<1>3. \E a, b : n = <<a, b>>
  BY <1>1
<1> QED
  BY <1>2, <1>3

(* An awaited frame is no duplicate and is decoded.                        *)
LEMMA AwaitedIsDecoded ==
    ASSUME S2Assumption, IInv, NEW e \in Frames(eis), NextTo(e), Awaited(e, ctrl, tx)
    PROVE  /\ ~IsDuplicate(mgr["ctrl"], e)
           /\ Decoded("ctrl", mgr["ctrl"], e, FALSE).ok
<1>0. "ctrl" \in Party
  BY DEF Party
<1> DEFINE m == mgr["ctrl"]
           s == m.span
           w == m.peer
<1>1. m \in Managers(eis) /\ eis \in Nat
  BY <1>0, IInvParts
<1>2. s \in Spans(eis) /\ w \in Seq(Bytes)
  BY <1>1, ManagerType
<1>3. s.type = "span" /\ e.type = "encap" /\ e.ei = Nothing
  BY DEF Awaited, ctrl
<1>4. s.seed \in Seeds(eis) /\ s.k \in Nat \ {0}
  BY <1>1, <1>2, <1>3, TypesOfSpan
<1>5. e.nonce \in Nonces(eis)
  BY <1>1, <1>3, FrameTypes
<1>6. ~IsDuplicate(m, e)
  <2> HIDE DEF m
  <2>1. w # <<>> /\ e.seq = (w[1] + 1) % 256
    BY DEF NextTo, m
  <2> HIDE DEF w
  <2>2. w[1] \in Bytes
    BY <1>2, <2>1
  <2>3. (w[1] + 1) % 256 # w[1]
    BY <2>2 DEF Bytes
  <2>4. w # <<e.seq>>
    BY <2>1, <2>3
  <2> QED
    BY <2>4 DEF IsDuplicate, w
<1>7. CASE MayUsePrevious("ctrl", m, e) /\ e.nonce = s.cur
  <2> DEFINE d == Decoded("ctrl", m, e, FALSE)
  <2>1. d = [ok |-> TRUE, span |-> [s EXCEPT !.cur = NoNonce]]
    BY <1>3, <1>7 DEF Decoded
  <2>2. \A z : [ok |-> TRUE, span |-> z].ok
    OBVIOUS
  <2> HIDE DEF d
  <2>3. d.ok
    BY <2>1, <2>2, Zenon
  <2> QED
    BY <1>6, <2>3 DEF d
<1>8. CASE ~(MayUsePrevious("ctrl", m, e) /\ e.nonce = s.cur)
  <2>1. e.nonce = s.cur => MayUsePrevious("ctrl", m, e)
    <3>1. e.nonce # <<>>
      BY <1>5, NonceIsPair
    <3> QED
      BY <3>1 DEF MayUsePrevious, NextTo, NoNonce
  <2>2. e.nonce = Nonce(s.seed, s.k)
    BY <1>8, <2>1 DEF Awaited, ctrl
  <2>3. s.k \in s.k..(s.k + DecryptAttempts - 1)
    BY <1>4, S2Assumption DEF S2Assumption
  <2>4. TrySPAN(s, e).ok
    BY <1>3, <2>2, <2>3 DEF TrySPAN
  <2>5. Decoded("ctrl", m, e, FALSE) = TrySPAN(s, e)
    BY <1>3, <1>8 DEF Decoded
  <2> QED
    BY <1>6, <2>4, <2>5
<1> QED
  BY <1>7, <1>8

LEMMA ParseDue ==
    ASSUME IInv, DueInv, Parse
    PROVE  DueInv'
<1> DEFINE f == Head(toCtrl)
           m == mgr["ctrl"]
<1>0. "ctrl" \in Party
  BY DEF Party
<1>1. toCtrl # <<>>
  BY DEF Parse, toCtrl
<1>2. f \in Frames(eis)
  BY <1>0, <1>1, Taken DEF toCtrl
<1>3. CASE due' = {}
  BY <1>3 DEF DueInv
<1>4. CASE UNCHANGED due /\ \E i \in due : OnItsWay(i)
  <2> PICK i \in due : OnItsWay(i)
    BY <1>4
  <2>1. NextTo(f) /\ Awaited(f, ctrl, tx) /\ f.cmd = EventCmd(i) /\ f.type = "encap"
    BY DEF OnItsWay, Awaited
  <2>2. ~IsDuplicate(m, f) /\ Decoded("ctrl", m, f, FALSE).ok
    BY <1>2, <2>1, S2Assumption, AwaitedIsDecoded
  <2>3. \/ due' = {}
        \/ accepted' = [accepted EXCEPT !["ctrl"] = Append(@, [cmd |-> f.cmd, nonce |-> f.nonce])]
    BY <2>1, <2>2 DEF Parse, toCtrl, Disturbed
  <2>4. ASSUME accepted' = [accepted EXCEPT !["ctrl"] = Append(@, [cmd |-> f.cmd, nonce |-> f.nonce])]
        PROVE  DueInv'
    <3> DEFINE a == [cmd |-> f.cmd, nonce |-> f.nonce]
    <3>0. a.cmd = f.cmd
      OBVIOUS
    <3> HIDE DEF a
    <3>1. f.cmd \in Commands("ctrl")' /\ Commands("ctrl") \subseteq Commands("ctrl")'
      BY <1>0, <2>4, <3>0, Accumulate DEF a
    <3>2. \A j \in due : OnItsWay(j) => EventCmd(j) = f.cmd
      BY DEF OnItsWay
    <3>3. \A j \in due : EventCmd(j) \in Commands("ctrl")'
      BY <3>1, <3>2 DEF DueInv
    <3> QED
      BY <1>4, <3>3 DEF DueInv, EventCmd
  <2> QED
    BY <1>3, <2>3, <2>4
<1>5. CASE UNCHANGED due /\ ~\E i \in due : OnItsWay(i)
  <2>1. \A i \in due : EventCmd(i) \in Commands("ctrl")
    BY <1>5 DEF DueInv
  <2>2. accepted' = accepted \/ \E a : accepted' = [accepted EXCEPT !["ctrl"] = Append(@, a)]
    BY DEF Parse
  <2>3. Commands("ctrl") \subseteq Commands("ctrl")'
    BY <1>0, <2>2, Accumulate DEF Commands
  <2> QED
    BY <1>5, <2>1, <2>3 DEF DueInv, EventCmd
<1> QED
  BY <1>3, <1>4, <1>5 DEF Parse, Disturbed

LEMMA NodeReceivesDue ==
    ASSUME IInv, DueInv, NodeReceives
    PROVE  DueInv'
<1> DEFINE f == Head(toNode)
           m == mgr["node"]
<1>0. "ctrl" \in Party /\ "node" \in Party /\ "ctrl" # "node"
  BY DEF Party
<1>1. UNCHANGED <<parsed, tx, due, replies>>
  BY DEF NodeReceives
<1>2. channel \in [Party -> Seq(Frames(eis))] /\ mgr \in [Party -> Managers(eis)]
      /\ accepted \in [Party -> Seq(Acceptances(eis))]
  BY IInvParts DEF Sides
<1>3. toCtrl' = toCtrl \/ \E g : toCtrl' = Append(toCtrl, g)
  <2>1. Take("node")["ctrl"] = toCtrl
    BY <1>0, <1>2 DEF Take, toCtrl
  <2>2. \A g : [Take("node") EXCEPT !["ctrl"] = Append(@, g)]["ctrl"] = Append(toCtrl, g)
    BY <1>0, <1>2, <2>1 DEF Take
  <2>3. \A mm : NodeSendsNonce(mm) => \E g : toCtrl' = Append(toCtrl, g)
    BY <2>2 DEF NodeSendsNonce, toCtrl
  <2>4. \A mm, c : NodeSends(mm, c, Take("node")) => \E g : toCtrl' = Append(toCtrl, g)
    BY <2>2 DEF NodeSends, toCtrl
  <2> QED
    BY <2>1, <2>3, <2>4 DEF NodeReceives, toCtrl
<1>4. mgr'["ctrl"] = mgr["ctrl"]
  <2>1. \A mm : [mgr EXCEPT !["node"] = mm]["ctrl"] = mgr["ctrl"]
    BY <1>0, <1>2
  <2>2. \A mm : NodeSendsNonce(mm) => mgr'["ctrl"] = mgr["ctrl"]
    BY <2>1 DEF NodeSendsNonce
  <2>3. \A mm, c : NodeSends(mm, c, Take("node")) => mgr'["ctrl"] = mgr["ctrl"]
    BY <2>1 DEF NodeSends
  <2> QED
    BY <2>1, <2>2, <2>3 DEF NodeReceives
<1>5. accepted'["ctrl"] = accepted["ctrl"]
  BY <1>0, <1>2 DEF NodeReceives
<1>6. Commands("ctrl")' = Commands("ctrl")
  BY <1>5 DEF Commands
<1>7. toCtrl # <<>> => toCtrl' # <<>> /\ Head(toCtrl') = Head(toCtrl)
  <2> DEFINE s == toCtrl
  <2>1. s \in Seq(Frames(eis))
    BY <1>0, <1>2 DEF toCtrl
  <2> HIDE DEF s
  <2>2. \A g : s # <<>> => Append(s, g) # <<>> /\ Head(Append(s, g)) = Head(s)
    BY <2>1
  <2> QED
    BY <1>3, <2>2 DEF s
<1> QED
  BY <1>1, <1>4, <1>6, <1>7, StillDue DEF ctrl

(* The node sends a command in step: it is awaited.                        *)
LEMMA InStepIsAwaited ==
    ASSUME IInv, InStep, NEW c, NodeSends(mgr["node"], c, channel), UNCHANGED <<parsed, replies, tx>>
    PROVE  /\ mgr'["ctrl"] = mgr["ctrl"] /\ mgr'["node"].span.seed = node.seed
           /\ mgr'["node"].span.type = "span" /\ mgr'["node"].span.k = node.k + 1
           /\ \E e : /\ toCtrl' = <<e>> /\ e.cmd = c /\ NextTo(e)' /\ Awaited(e, ctrl, tx)'
                     /\ e.nonce = Nonce(ctrl.seed, node.k) /\ e.type = "encap" /\ e.ei = Nothing
<1> DEFINE m == mgr["node"]
           x == Encoded(m, c, Nothing)
<1> PICK e : e = x.frame
  OBVIOUS
<1>0. "ctrl" \in Party /\ "node" \in Party /\ "ctrl" # "node"
  BY DEF Party
<1>1. /\ mgr' = [mgr EXCEPT !["node"] = x.mgr]
      /\ channel' = [channel EXCEPT !["ctrl"] = Append(@, e)]
  BY DEF NodeSends
<1>2. m \in Managers(eis) /\ mgr["ctrl"] \in Managers(eis) /\ channel \in [Party -> Seq(Frames(eis))]
  BY <1>0, IInvParts
<1>3. IsEncoded(x, m, c, Nothing)
  BY <1>2, EncodedIs
<1> HIDE DEF x
<1>4. m.span.type = "span" /\ ctrl.type = "span" /\ ctrl.seed = node.seed
      /\ mgr["ctrl"].peer = <<m.own>> /\ toCtrl = <<>> /\ parsed = <<>> /\ replies = <<>>
  BY <1>0 DEF InStep, ctrl, node, toCtrl
<1>5. mgr'["ctrl"] = mgr["ctrl"] /\ mgr'["node"] = x.mgr
  BY <1>0, <1>1, ManagerAfter
<1>6. /\ e.type = "encap" /\ e.ei = Nothing /\ e.seq = NextSeq(m) /\ e.cmd = c
      /\ e.nonce = Nonce(ctrl.seed, node.k)
      /\ x.mgr.span.type = "span" /\ x.mgr.span.seed = node.seed /\ x.mgr.span.k = node.k + 1
  BY <1>3, <1>4 DEF IsEncoded, node
<1>7. toCtrl' = <<e>>
  <2>1. toCtrl' = Append(toCtrl, e)
    BY <1>0, <1>1, <1>2 DEF toCtrl
  <2> QED
    BY <1>4, <2>1
<1>8. NextTo(e)'
  BY <1>4, <1>5, <1>6 DEF NextTo, NextSeq
<1>9. Awaited(e, ctrl, tx)
  <2>1. CASE /\ ctrl.k = node.k /\ ~(tx.step = "ready" /\ tx.try = 2)
    BY <1>4, <1>6, <2>1 DEF Awaited
  <2>2. CASE /\ toNode # <<>> /\ tx.step = "sent" /\ ctrl.k = node.k + 1
             /\ Head(toNode).type = "encap" /\ Head(toNode).nonce = ctrl.cur
    <3>1. ctrl.cur \in Nonces(eis)
      <4>1. Head(toNode) \in Frames(eis)
        BY <1>0, <2>2, Taken DEF toNode
      <4> QED
        BY <2>2, <4>1, IInvParts, FrameTypes
    <3>2. ctrl.cur = <<ctrl.seed, ctrl.k - 1>>
      BY <1>0, <1>4, <3>1, NonceIsPair, IInvParts DEF History, NoNonce, ctrl
    <3>3. node.k \in Nat
      <4>1. m.span \in Spans(eis) /\ eis \in Nat
      BY <1>2, ManagerType, IInvParts
    <4> QED
      BY <1>4, <4>1, TypesOfSpan DEF node
    <3>4. ctrl.cur = e.nonce
      BY <1>6, <2>2, <3>2, <3>3 DEF Nonce
    <3> QED
      BY <1>4, <1>6, <2>2, <3>4 DEF Awaited
  <2> QED
    BY <2>1, <2>2 DEF InStep, ctrl, node, toNode
<1>10. Awaited(e, ctrl, tx)'
  BY <1>5, <1>9 DEF Awaited, ctrl
<1> QED
  BY <1>5, <1>6, <1>7, <1>8, <1>10

LEMMA NodeEventDue ==
    ASSUME IInv, DueInv, NodeEvent
    PROVE  DueInv'
<1> PICK id : id = count.event + 1
  OBVIOUS
<1>1. UNCHANGED <<parsed, replies, accepted>>
  BY DEF NodeEvent
<1>2. CASE ~InStep
  BY <1>2 DEF NodeEvent, Disturbed, DueInv
<1>3. CASE InStep
  <2>0. "ctrl" \in Party /\ "node" \in Party
    BY DEF Party
  <2>1. UNCHANGED tx /\ due' = due \cup {id}
    BY <1>3 DEF NodeEvent
  <2>2. NodeSends(mgr["node"], [id |-> id, kind |-> "event"], channel)
    <3>1. mgr["node"].span.type = "span"
      BY <1>3, <2>0 DEF InStep
    <3>2. NodeSends(mgr["node"], [id |-> count.event + 1, kind |-> "event"], channel)
      BY <3>1, Zenon DEF NodeEvent
    <3> QED
      BY <3>2
  <2>3. PICK e : /\ toCtrl' = <<e>> /\ e.cmd = EventCmd(id) /\ NextTo(e)' /\ Awaited(e, ctrl, tx)'
    BY <1>1, <1>3, <2>1, <2>2, InStepIsAwaited DEF EventCmd
  <2>4. parsed = <<>> /\ replies = <<>> /\ toCtrl = <<>>
    BY <1>3 DEF InStep, toCtrl
  <2>5. toCtrl' # <<>> /\ Head(toCtrl') = e
    BY <2>3
  <2>6. OnItsWay(id)'
    BY <1>1, <2>3, <2>4, <2>5 DEF OnItsWay, Awaited, EventCmd
  <2>7. \A i \in due : EventCmd(i) \in Commands("ctrl")
    BY <2>4 DEF DueInv, OnItsWay
  <2>8. Commands("ctrl")' = Commands("ctrl")
    BY <1>1 DEF Commands
  <2> QED
    BY <2>1, <2>6, <2>7, <2>8 DEF DueInv, EventCmd
<1> QED
  BY <1>2, <1>3

LEMMA NextDue ==
    ASSUME IInv, DueInv, [Next]_vars
    PROVE  DueInv'
<1>0. "ctrl" \in Party /\ "node" \in Party /\ "ctrl" # "node"
  BY DEF Party
<1>1. CASE UNCHANGED vars
  <2>1. /\ mgr' = mgr /\ channel' = channel /\ parsed' = parsed /\ replies' = replies
        /\ tx' = tx /\ due' = due /\ accepted' = accepted
    BY <1>1 DEF vars
  <2>2. ctrl' = ctrl /\ toCtrl' = toCtrl /\ Commands("ctrl")' = Commands("ctrl")
    BY <2>1 DEF ctrl, toCtrl, Commands
  <2>3. ASSUME NEW i PROVE OnItsWay(i)' <=> OnItsWay(i)
    BY <2>1, <2>2 DEF OnItsWay, NextTo
  <2> QED
    BY <2>1, <2>2, <2>3 DEF DueInv
<1>2. CASE due' = {}
  BY <1>2 DEF DueInv
<1>3. ASSUME accepted' = accepted PROVE Commands("ctrl") \subseteq Commands("ctrl")'
  BY <1>3 DEF Commands
<1>4. ASSUME NEW kind \in {"set", "get"}, Begin(kind) PROVE DueInv'
  <2>1. tx.step # "sent" /\ tx'.try = 1
    BY <1>4 DEF Begin, Idle
  <2> QED
    BY <1>3, <1>4, <2>1, StillDue DEF Begin, ctrl, toCtrl
<1>5. CASE RequestNonce
  <2>1. tx.step # "sent" /\ tx'.step # "ready"
    BY <1>5, TxTypes DEF RequestNonce
  <2>2. ctrl' = ctrl /\ mgr'["ctrl"].peer = mgr["ctrl"].peer
    BY <1>0, <1>5, ManagerAfter DEF RequestNonce, ctrl
  <2>3. toCtrl' = toCtrl
    BY <1>0, <1>5, IInvParts DEF RequestNonce, Deliver, toCtrl
  <2> QED
    BY <1>3, <1>5, <2>1, <2>2, <2>3, StillDue DEF RequestNonce
<1>6. CASE SendCommand
  BY <1>6, SendCommandDue
<1>7. CASE CannotEncode
  <2>1. tx.step # "sent" /\ tx'.step # "ready"
    BY <1>7 DEF CannotEncode, Ends, Idle
  <2>2. ctrl' = ctrl /\ mgr'["ctrl"].peer = mgr["ctrl"].peer
    BY <1>0, <1>7, ManagerAfter DEF CannotEncode, ctrl
  <2> QED
    BY <1>3, <1>7, <2>1, <2>2, StillDue DEF CannotEncode, toCtrl
<1>8. CASE NonceGetFails \/ SendingFails \/ Resend
  BY <1>2, <1>8 DEF NonceGetFails, SendingFails, Resend, Unacknowledged
<1>9. CASE NothingComes
  <2>1. due' = {} \/ (UNCHANGED due /\ toCtrl = <<>>)
    BY <1>9 DEF NothingComes, toCtrl
  <2> QED
    BY <1>2, <1>9, <2>1, NoneOnItsWay DEF NothingComes
<1>10. CASE Parse
  BY <1>10, ParseDue
<1>11. CASE HandleNonceGet \/ HandleNonceReport \/ HandleCommand
  <2>1. UNCHANGED <<accepted, due>> /\ parsed # <<>>
    BY <1>11 DEF HandleNonceGet, HandleNonceReport, HandleCommand
  <2> QED
    BY <2>1, NoneOnItsWay
<1>12. CASE OtherBegins
  BY <1>2, <1>12 DEF OtherBegins, Disturbed
<1>13. CASE OtherEnds
  BY <1>13, NoneOnItsWay DEF OtherEnds
<1>14. CASE ReplyNonce
  <2>1. (due' = {} \/ UNCHANGED due) /\ UNCHANGED accepted /\ replies # <<>>
    BY <1>14 DEF ReplyNonce, NonceReportPending, Disturbed
  <2> QED
    BY <1>2, <2>1, NoneOnItsWay
<1>15. CASE NodeReceives
  BY <1>15, NodeReceivesDue
<1>16. CASE NodeEvent
  BY <1>16, NodeEventDue
<1>17. CASE NodeGivesUp
  BY <1>17, NoneOnItsWay DEF NodeGivesUp, toCtrl
<1>18. CASE SilentLoss
  BY <1>2, <1>18 DEF SilentLoss, Disturbed
<1>19. ASSUME NEW p \in Party, Twice(p) PROVE DueInv'
  BY <1>2, <1>19 DEF Twice, Disturbed
<1> QED
  BY <1>1, <1>4, <1>5, <1>6, <1>7, <1>8, <1>9, <1>10, <1>11, <1>12, <1>13, <1>14, <1>15,
     <1>16, <1>17, <1>18, <1>19 DEF Next

(* A command that the node sends while the two sides are in step is decoded *)
(* by the controller, also when it crosses one of the controller's          *)
(* (Security2CC.decryptSinglecast, SecurityManager2.getSPANState).          *)
THEOREM CrossingDecoded == Spec => []CrossingIsTolerated
<1>1. Init => DueInv
  BY DEF Init, DueInv
<1>2. IInv /\ DueInv /\ [Next]_vars => DueInv'
  BY NextDue
<1>3. DueInv => CrossingIsTolerated
  BY DEF DueInv, OnItsWay, CrossingIsTolerated, Quiet, toCtrl, EventCmd
<1> QED
  BY <1>1, <1>2, <1>3, Invariance, PTL DEF Spec

-----------------------------------------------------------------------------
(* The phases of a transaction that nothing disturbs.                      *)

(* An event of the node may precede what the transaction waits for.        *)
Event(e)     == NextTo(e) /\ Awaited(e, ctrl, tx) /\ e.cmd.kind = "event"
IsEvent(y)   == y.type = "command" /\ y.cmd.kind = "event"
Report(x)    == [type |-> "nonceReport", ei |-> x]
IsAnswer(y)  == y.type = "command" /\ y.cmd.kind = "response"
Response(f)  == /\ f.type = "encap" /\ f.ei = Nothing /\ f.cmd.kind = "response"
                /\ ctrl.type = "span" /\ f.nonce = Nonce(ctrl.seed, ctrl.k)

Empty == parsed = <<>> /\ toCtrl = <<>>
Clear ==
    \/ Empty
    \/ \E e : Event(e) /\ parsed = <<>> /\ toCtrl = <<e>>
    \/ \E y : IsEvent(y) /\ parsed = <<y>> /\ toCtrl = <<>>
Coming(x) ==
    \/ parsed = <<>> /\ toCtrl = <<x>>
    \/ \E e : Event(e) /\ parsed = <<>> /\ toCtrl = <<e, x>>
    \/ \E y : IsEvent(y) /\ parsed = <<y>> /\ toCtrl = <<x>>
Here(x) ==
    \/ parsed = <<x>> /\ toCtrl = <<>>
    \/ \E y : IsEvent(y) /\ parsed = <<y, x>> /\ toCtrl = <<>>

(* The node decodes f with the SPAN that f establishes, or has advanced    *)
(* its generator to k, and does not decode a command with a nonce before.  *)
Opens(f) == node.type = "localEI" /\ f.ei # Nothing /\ f.nonce = Nonce(<<f.ei, node.ei>>, 1)
Ahead(k) == node.type = "span" /\ node.seed = ctrl.seed /\ node.k = k

Asking == tx.step = "needsNonce" /\ tx.try = 1 /\ ctrl.type # "span" /\ toNode = <<>> /\ Empty
Asked == /\ tx.step = "awaitsNonce" /\ ctrl.type # "span" /\ Empty
         /\ \E q : toNode = <<NonceGet(q)>>
Answered == /\ tx.step = "awaitsNonce" /\ toNode = <<>> /\ node.type = "localEI"
            /\ \/ parsed = <<>> /\ \E q : toCtrl = <<NonceReport(q, node.ei)>>
               \/ parsed = <<Report(node.ei)>> /\ toCtrl = <<>> /\ ctrl = RemoteEI(node.ei)
Agreed == /\ tx.step = "ready" /\ toNode = <<>> /\ Empty
          /\ node.type = "localEI" /\ ctrl = RemoteEI(node.ei)
Ready == /\ tx.step = "ready" /\ tx.try = 1 /\ toNode = <<>> /\ Clear
         /\ ctrl.type \in {"remoteEI", "span"}
         /\ toCtrl # <<>> => Ahead(ctrl.k + 1)
SentOut(f) ==
    /\ toNode = <<f>> /\ f.type = "encap" /\ f.cmd = [id |-> tx.id, kind |-> tx.kind]
    /\ ctrl.type = "span" /\ f.nonce = Nonce(ctrl.seed, ctrl.k - 1)
    /\ tx.try = 2 => Opens(f)
    /\ toCtrl # <<>> => Head(toCtrl).nonce = ctrl.cur
    /\ toCtrl # <<>> \/ ctrl.cur # f.nonce => Ahead(ctrl.k)
Sent == tx.step = "sent" /\ Clear /\ \E f : SentOut(f)
Failed == /\ tx.step = "sent" /\ tx.try = 1 /\ toNode = <<>> /\ node.type = "localEI"
          /\ (\E q : Coming(NonceReport(q, node.ei))) \/ Here(Report(node.ei))
Answering == /\ tx.step = "sent" /\ tx.kind = "get" /\ toNode = <<>> /\ Told(tx.id)
             /\ \/ \E f : /\ Response(f) /\ toCtrl = <<f>>
                          /\ parsed = <<>> \/ \E y : IsEvent(y) /\ parsed = <<y>>
                \/ \E y : IsAnswer(y) /\ Here(y)
Received == tx.step = "sent" /\ tx.kind = "set" /\ toNode = <<>> /\ Told(tx.id) /\ Clear

Phase ==
    /\ wants = Nothing /\ replies = <<>>
    /\ \/ Asking \/ Asked \/ Answered \/ Agreed \/ Ready \/ Sent \/ Failed \/ Answering \/ Received
Calm == tx.calm => Phase

(* A Set that is sent a second time has succeeded before it is decoded.    *)
Underway(id) ==
    /\ toNode # <<>> /\ Head(toNode).type = "encap"
    /\ Head(toNode).cmd.id = id /\ Head(toNode).cmd.kind # "event" /\ Opens(Head(toNode))
Ended == last.calm => last.ok /\ (Told(last.id) \/ Underway(last.id))

(* Facts about short sequences.                                            *)
LEMMA Short ==
           /\ \A x : /\ <<x>> # <<>> /\ Head(<<x>>) = x /\ Tail(<<x>>) = <<>>
                     /\ Append(<<>>, x) = <<x>>
           /\ \A x, y : /\ <<x, y>> # <<>> /\ Head(<<x, y>>) = x /\ Tail(<<x, y>>) = <<y>>
                        /\ Append(<<x>>, y) = <<x, y>>
           /\ \A x, y : <<x>> = <<y>> => x = y
<1>1. \A x : <<x>> # <<>> /\ Head(<<x>>) = x /\ Tail(<<x>>) = <<>> /\ Append(<<>>, x) = <<x>>
  OBVIOUS
<1>2. \A x, y : <<x, y>> # <<>> /\ Head(<<x, y>>) = x /\ Tail(<<x, y>>) = <<y>>
  OBVIOUS
<1>3. ASSUME NEW x, NEW y PROVE Append(<<x>>, y) = <<x, y>>
  <2> DEFINE s == Append(<<x>>, y)
             t == <<x, y>>
  <2>1. <<x>> \in Seq({x, y}) /\ Len(<<x>>) = 1 /\ <<x>>[1] = x
    OBVIOUS
  <2>2. s \in Seq({x, y}) /\ Len(s) = 2 /\ s[1] = x /\ s[2] = y
    BY <2>1
  <2>3. t \in Seq({x, y}) /\ Len(t) = 2 /\ t[1] = x /\ t[2] = y
    OBVIOUS
  <2> HIDE DEF s, t
  <2>4. \A i \in 1..Len(s) : s[i] = t[i]
    <3>1. \A i \in 1..2 : i = 1 \/ i = 2
      OBVIOUS
    <3> QED
      BY <2>2, <2>3, <3>1
  <2>5. s = t
    BY <2>2, <2>3, <2>4, SeqEqual
  <2> QED
    BY <2>5 DEF s, t
<1>4. \A x, y : <<x>> = <<y>> => x = y
  OBVIOUS
<1> QED
  BY <1>1, <1>2, <1>3, <1>4

LEMMA ToldStays ==
    ASSUME Commands("node") \subseteq Commands("node")', NEW id, Told(id)
    PROVE  Told(id)'
BY DEF Told

LEMMA EndedStays ==
    ASSUME Ended, last' = last, node' = node, Commands("node") \subseteq Commands("node")',
           toNode # <<>> => toNode' # <<>> /\ Head(toNode') = Head(toNode)
    PROVE  Ended'
<1>1. Underway(last.id) => Underway(last.id)'
  BY DEF Underway, Opens
<1>2. Told(last.id) => Told(last.id)'
  BY DEF Told
<1> QED
  BY <1>1, <1>2 DEF Ended

(* The frames and what is parsed stay, as do the events among them.        *)
LEMMA ClearStays ==
    ASSUME Clear, parsed' = parsed, toCtrl' = toCtrl,
           \A e : Event(e) /\ toCtrl = <<e>> => Event(e)'
    PROVE  Clear'
BY DEF Clear, Empty, IsEvent

LEMMA ClearThenComing ==
    ASSUME Clear, parsed' = parsed, NEW x, toCtrl' = Append(toCtrl, x),
           \A e : Event(e) /\ toCtrl = <<e>> => Event(e)'
    PROVE  Coming(x)'
<1>1. CASE Empty
  BY <1>1, Short DEF Empty, Coming
<1>2. ASSUME NEW e, Event(e), parsed = <<>>, toCtrl = <<e>> PROVE Coming(x)'
  BY <1>2, Short DEF Coming
<1>3. ASSUME NEW y, IsEvent(y), parsed = <<y>>, toCtrl = <<>> PROVE Coming(x)'
  BY <1>3, Short DEF Coming, IsEvent
<1> QED
  BY <1>1, <1>2, <1>3 DEF Clear

LEMMA EventStays ==
    ASSUME NEW e, Event(e), ctrl' = ctrl, mgr'["ctrl"].peer = mgr["ctrl"].peer,
           \/ tx'.step = tx.step /\ tx'.try = tx.try
           \/ tx.step # "sent" /\ tx'.try = 1
    PROVE  Event(e)'
BY DEF Event, NextTo, Awaited

LEMMA Parties == "ctrl" \in Party /\ "node" \in Party /\ "ctrl" # "node"
BY DEF Party

LEMMA ChannelsAfter ==
    ASSUME IInv
    PROVE  /\ \A f : Deliver("node", f) => toNode' = Append(toNode, f) /\ toCtrl' = toCtrl
           /\ \A f : Deliver("ctrl", f) => toCtrl' = Append(toCtrl, f) /\ toNode' = toNode
           /\ channel' = Take("ctrl") => toCtrl' = Tail(toCtrl) /\ toNode' = toNode
           /\ channel' = Take("node") => toNode' = Tail(toNode) /\ toCtrl' = toCtrl
           /\ \A f : channel' = [Take("node") EXCEPT !["ctrl"] = Append(@, f)] =>
                toNode' = Tail(toNode) /\ toCtrl' = Append(toCtrl, f)
           /\ channel' = channel => toNode' = toNode /\ toCtrl' = toCtrl
<1>1. channel \in [Party -> Seq(Frames(eis))]
  BY IInvParts
<1> QED
  BY <1>1, Parties DEF Deliver, Take, toCtrl, toNode

LEMMA SameCommands ==
    ASSUME accepted' = accepted
    PROVE  \A p : Commands(p)' = Commands(p)
BY DEF Commands

LEMMA HeadStays ==
    ASSUME IInv, NEW g
    PROVE  toNode # <<>> => Append(toNode, g) # <<>> /\ Head(Append(toNode, g)) = Head(toNode)
<1> DEFINE s == toNode
<1>1. s \in Seq(Frames(eis))
  BY IInvParts, Parties DEF toNode
<1> HIDE DEF s
<1>2. s # <<>> => Append(s, g) # <<>> /\ Head(Append(s, g)) = Head(s)
  BY <1>1
<1> QED
  BY <1>2 DEF s

LEMMA BeginCalm ==
    ASSUME IInv, Ended, NEW kind \in {"set", "get"}, Begin(kind)
    PROVE  Calm' /\ Ended'
<1>1. /\ tx'.calm = Quiet /\ tx'.try = 1
      /\ tx'.step = IF ctrl.type \in {"none", "localEI"} THEN "needsNonce" ELSE "ready"
      /\ UNCHANGED <<mgr, channel, parsed, replies, wants, accepted, last>>
  BY DEF Begin, Idle, ctrl
<1>2. ctrl' = ctrl /\ node' = node /\ toNode' = toNode /\ toCtrl' = toCtrl
  BY <1>1 DEF ctrl, node, toNode, toCtrl
<1>3. ctrl.type \in {"none", "localEI", "remoteEI", "span"}
  BY IInvParts, ManagerType, TypesOfSpan, Parties DEF ctrl
<1>4. Calm'
  <2> SUFFICES ASSUME tx'.calm PROVE Phase'
    BY DEF Calm
  <2>1. toCtrl' = <<>> /\ toNode' = <<>> /\ parsed' = <<>> /\ replies' = <<>> /\ wants' = Nothing
    BY <1>1, <1>2 DEF Quiet, toCtrl, toNode
  <2>2. (Asking \/ Ready)'
    BY <1>1, <1>2, <1>3, <2>1 DEF Asking, Ready, Empty, Clear
  <2> QED
    BY <2>1, <2>2 DEF Phase, Nothing
<1>5. Ended'
  BY <1>1, <1>2, SameCommands, EndedStays
<1> QED
  BY <1>4, <1>5

LEMMA RequestNonceCalm ==
    ASSUME IInv, Calm, Ended, RequestNonce
    PROVE  Calm' /\ Ended'
<1> DEFINE q == NextSeq(mgr["ctrl"])
<1>1. /\ tx.step = "needsNonce" /\ tx' = [tx EXCEPT !.step = "awaitsNonce"]
      /\ mgr' = [mgr EXCEPT !["ctrl"].own = q] /\ Deliver("node", NonceGet(q))
      /\ UNCHANGED <<parsed, replies, wants, accepted, last>>
  BY DEF RequestNonce
<1>2. tx'.step = "awaitsNonce" /\ tx'.calm = tx.calm
  BY <1>1, TxTypes
<1>3. ctrl' = ctrl /\ node' = node
  BY <1>1, Parties, ManagerAfter DEF ctrl, node
<1>4. toNode' = Append(toNode, NonceGet(q)) /\ toCtrl' = toCtrl
  BY <1>1, ChannelsAfter
<1>5. Calm'
  <2> SUFFICES ASSUME tx.calm PROVE Phase'
    BY <1>2 DEF Calm
  <2>1. Asking /\ wants = Nothing /\ replies = <<>>
    BY <1>1 DEF Calm, Phase, Asked, Answered, Agreed, Ready, Sent, Failed, Answering, Received
  <2> PICK r : r = q
    OBVIOUS
  <2>2. toNode' = <<NonceGet(r)>>
    BY <1>4, <2>1, Short DEF Asking
  <2>3. Asked'
    BY <1>1, <1>2, <1>3, <1>4, <2>1, <2>2 DEF Asking, Asked, Empty, NonceGet
  <2> QED
    BY <1>1, <2>1, <2>3 DEF Phase, Nothing
<1>6. toNode # <<>> => toNode' # <<>> /\ Head(toNode') = Head(toNode)
  BY <1>4, HeadStays
<1>7. Ended'
  BY <1>1, <1>3, <1>6, SameCommands, EndedStays
<1> QED
  BY <1>5, <1>7

LEMMA SendCommandCalm ==
    ASSUME IInv, Calm, Ended, SendCommand
    PROVE  Calm' /\ Ended'
<1> DEFINE c == [id |-> tx.id, kind |-> tx.kind]
           x == Encoded(mgr["ctrl"], c, tx.ext)
<1> PICK f : f = x.frame
  OBVIOUS
<1>1. /\ tx.step = "ready" /\ CanEncode("ctrl")
      /\ mgr' = [mgr EXCEPT !["ctrl"] = x.mgr]
      /\ Deliver("node", f) /\ AfterSending(f.ei)
      /\ UNCHANGED <<parsed, replies, wants, accepted>>
  BY DEF SendCommand
<1>2. IsEncoded(x, mgr["ctrl"], c, tx.ext)
  BY IInvParts, Parties, EncodedIs
<1> HIDE DEF x
<1>3. mgr'["ctrl"] = x.mgr /\ mgr'["node"] = mgr["node"]
  BY <1>1, Parties, ManagerAfter
<1>4. toNode' = Append(toNode, f) /\ toCtrl' = toCtrl
  BY <1>1, ChannelsAfter
<1>5. /\ f.type = "encap" /\ f.cmd = c
      /\ ctrl'.type = "span" /\ ctrl'.cur = f.nonce /\ node' = node
      /\ mgr'["ctrl"].peer = mgr["ctrl"].peer
      /\ ctrl.type = "remoteEI" =>
           /\ f.ei = eis + 1 /\ f.nonce = Nonce(<<eis + 1, ctrl.ei>>, 1)
           /\ ctrl'.seed = <<eis + 1, ctrl.ei>> /\ ctrl'.k = 2
      /\ ctrl.type = "span" =>
           /\ f.nonce = Nonce(ctrl.seed, ctrl.k) /\ ctrl'.seed = ctrl.seed /\ ctrl'.k = ctrl.k + 1
  BY <1>2, <1>3 DEF IsEncoded, ctrl, node
<1>6. /\ ctrl.type \in {"remoteEI", "span"} /\ (ctrl.type = "span" => ctrl.k \in Nat)
      /\ eis \in Nat
  <2>1. mgr["ctrl"].span \in Spans(eis) /\ eis \in Nat
    BY IInvParts, Parties, ManagerType
  <2> QED
    BY <1>1, <2>1, TypesOfSpan DEF CanEncode, ctrl
<1>7. f.nonce = Nonce(ctrl'.seed, ctrl'.k - 1)
  BY <1>5, <1>6
<1>8. \/ /\ tx.kind = "set" /\ tx.try = 2 /\ tx'.calm = FALSE
         /\ last' = [id |-> tx.id, ok |-> TRUE, calm |-> tx.calm]
      \/ /\ ~(tx.kind = "set" /\ tx.try = 2) /\ last' = last
         /\ tx'.step = "sent" /\ tx'.id = tx.id /\ tx'.kind = tx.kind /\ tx'.try = tx.try
         /\ tx'.calm = tx.calm
  <2>1. CASE tx.kind = "set" /\ tx.try = 2
    BY <1>1, <2>1 DEF AfterSending, Ends, Idle
  <2>2. CASE ~(tx.kind = "set" /\ tx.try = 2)
    <3>1. tx' = [tx EXCEPT !.step = "sent", !.ext = f.ei, !.frame = <<>>] /\ last' = last
      BY <1>1, <2>2 DEF AfterSending
    <3>2. tx' = [step |-> "sent", id |-> tx.id, kind |-> tx.kind, try |-> tx.try,
                 ext |-> f.ei, frame |-> <<>>, calm |-> tx.calm]
      BY <3>1, TxTypes
    <3> QED
      BY <2>2, <3>1, <3>2
  <2> QED
    BY <2>1, <2>2
<1>9. tx.calm => wants = Nothing /\ replies = <<>> /\ (Agreed \/ Ready)
  BY <1>1 DEF Calm, Phase, Asking, Asked, Answered, Sent, Failed, Answering, Received
<1>10. tx.calm => toNode' = <<f>>
  BY <1>4, <1>9, Short DEF Agreed, Ready
<1>11. Agreed => Opens(f)'
  BY <1>5, <1>6 DEF Agreed, RemoteEI, Opens, Nothing
<1>12. ASSUME tx.calm, ~(tx.kind = "set" /\ tx.try = 2) PROVE Phase'
  <2>1. tx'.step = "sent" /\ tx'.id = tx.id /\ tx'.kind = tx.kind /\ tx'.try = tx.try
    BY <1>8, <1>12
  <2>2. toNode' = <<f>> /\ f.cmd = [id |-> tx'.id, kind |-> tx'.kind]
    BY <1>5, <1>10, <1>12, <2>1
  <2>3. CASE Agreed
    <3>1. Clear' /\ toCtrl' = <<>>
      BY <1>1, <1>4, <2>3 DEF Agreed, Empty, Clear
    <3>2. SentOut(f)'
      BY <1>5, <1>7, <1>11, <2>2, <2>3, <3>1 DEF SentOut
    <3> QED
      BY <1>1, <1>9, <1>12, <2>1, <3>1, <3>2 DEF Phase, Sent, Nothing
  <2>4. CASE Ready
    <3>1. \A e : Event(e) => Event(e)' /\ e.nonce = ctrl'.cur
      BY <1>1, <1>3, <1>5, <2>1, <2>4 DEF Event, NextTo, Awaited, Ready, Nothing
    <3>2. Clear'
      BY <1>1, <1>4, <2>4, <3>1, ClearStays DEF Ready
    <3>3. toCtrl' # <<>> => Head(toCtrl').nonce = ctrl'.cur /\ Ahead(ctrl.k + 1) /\ ctrl.type = "span"
      <4>1. toCtrl # <<>> => \E e : Event(e) /\ toCtrl = <<e>>
        BY <2>4 DEF Ready, Clear, Empty
      <4>2. toCtrl # <<>> => Event(Head(toCtrl))
        BY <4>1, Short
      <4> QED
        BY <1>4, <2>4, <3>1, <4>2 DEF Ready, Event, Awaited
    <3>4. toCtrl' # <<>> => Ahead(ctrl.k)'
      BY <1>5, <3>3 DEF Ahead
    <3>5. SentOut(f)'
      BY <1>5, <1>7, <2>1, <2>2, <2>4, <3>3, <3>4 DEF SentOut, Ready
    <3> QED
      BY <1>1, <1>9, <1>12, <2>1, <3>2, <3>5 DEF Phase, Sent, Nothing
  <2> QED
    BY <1>9, <1>12, <2>3, <2>4
<1>13. Calm'
  BY <1>8, <1>12 DEF Calm
<1>14. toNode # <<>> => toNode' # <<>> /\ Head(toNode') = Head(toNode)
  BY <1>4, HeadStays
<1>15. ASSUME last' = last PROVE Ended'
  BY <1>1, <1>5, <1>14, <1>15, SameCommands, EndedStays
<1>16. ASSUME tx.kind = "set", tx.try = 2,
              last' = [id |-> tx.id, ok |-> TRUE, calm |-> tx.calm]
       PROVE  Ended'
  <2> SUFFICES ASSUME tx.calm PROVE last'.ok /\ Underway(last.id)'
    BY <1>16 DEF Ended
  <2>1. Agreed
    BY <1>9, <1>16 DEF Ready
  <2>2. toNode' # <<>> /\ Head(toNode') = f
    BY <1>10, Short
  <2>3. f.cmd.id = last'.id /\ f.cmd.kind = "set"
    BY <1>5, <1>16
  <2> QED
    BY <1>5, <1>11, <1>16, <2>1, <2>2, <2>3 DEF Underway, Opens
<1> QED
  BY <1>8, <1>13, <1>15, <1>16

LEMMA CannotEncodeCalm ==
    ASSUME IInv, Calm, Ended, CannotEncode
    PROVE  Calm' /\ Ended'
<1>1. /\ tx.step = "ready" /\ ~CanEncode("ctrl") /\ tx' = Idle
      /\ last' = [id |-> tx.id, ok |-> FALSE, calm |-> tx.calm]
  BY DEF CannotEncode, Ends
<1>2. ctrl.type \notin {"remoteEI", "span"}
  BY <1>1 DEF CanEncode, ctrl
<1>3. ~tx.calm
  BY <1>1, <1>2 DEF Calm, Phase, Asking, Asked, Answered, Agreed, Ready, Sent, Failed,
                    Answering, Received, RemoteEI
<1> QED
  BY <1>1, <1>3 DEF Calm, Ended, Idle

LEMMA NonceGetFailsCalm ==
    ASSUME NonceGetFails
    PROVE  Calm' /\ Ended'
BY DEF NonceGetFails, Fails, Calm, Ended, Idle

(* The next frame of the node stays.                                       *)
LEMMA UnacknowledgedCalm ==
    ASSUME IInv, Ended, NEW f, Unacknowledged(f) \/ Deliver("node", f),
           last' = last, node' = node, accepted' = accepted
    PROVE  Ended'
<1>1. toNode' = toNode \/ toNode' = Append(toNode, f)
  BY ChannelsAfter DEF Unacknowledged
<1>2. toNode # <<>> => toNode' # <<>> /\ Head(toNode') = Head(toNode)
  BY <1>1, HeadStays
<1> QED
  BY <1>2, SameCommands, EndedStays

LEMMA SendingFailsCalm ==
    ASSUME IInv, Ended, SendingFails
    PROVE  Calm' /\ Ended'
<1>1. CASE Fails
  BY <1>1 DEF Fails, Calm, Ended, Idle
<1> DEFINE x == Encoded(mgr["ctrl"], [id |-> tx.id, kind |-> tx.kind], tx.ext)
<1>2. /\ mgr' = [mgr EXCEPT !["ctrl"] = x.mgr]
      /\ Unacknowledged(x.frame) /\ accepted' = accepted
      /\ \/ Fails
         \/ /\ tx' = [tx EXCEPT !.step = "resend", !.frame = <<x.frame>>,
                                !.ext = x.frame.ei, !.calm = FALSE]
            /\ last' = last
  BY DEF SendingFails
<1> HIDE DEF x
<1>3. CASE /\ tx' = [tx EXCEPT !.step = "resend", !.frame = <<x.frame>>,
                              !.ext = x.frame.ei, !.calm = FALSE]
           /\ last' = last
  <2>1. tx' = [step |-> "resend", id |-> tx.id, kind |-> tx.kind, try |-> tx.try,
               ext |-> x.frame.ei, frame |-> <<x.frame>>, calm |-> FALSE]
    BY <1>3, TxTypes
  <2>2. node' = node
    BY <1>2, Parties, ManagerAfter DEF node
  <2>3. Ended'
    BY <1>2, <1>3, <2>2, UnacknowledgedCalm
  <2> QED
    BY <2>1, <2>3 DEF Calm
<1> QED
  BY <1>1, <1>2, <1>3

LEMMA ResendCalm ==
    ASSUME IInv, Calm, Ended, Resend
    PROVE  Calm' /\ Ended'
<1>1. ~tx.calm
  BY DEF Resend, Calm, Phase, Asking, Asked, Answered, Agreed, Ready, Sent, Failed,
         Answering, Received
<1>2. /\ node' = node /\ accepted' = accepted
      /\ Unacknowledged(tx.frame[1]) \/ Deliver("node", tx.frame[1])
      /\ \/ Fails \/ UNCHANGED <<tx, last>>
         \/ AfterSending(tx.ext)
  BY DEF Resend, node
<1>3. ~tx'.calm /\ (last' = last \/ ~last'.calm)
  <2>1. CASE Fails \/ UNCHANGED <<tx, last>> \/ Ends(TRUE)
    BY <1>1, <2>1 DEF Fails, Ends, Idle
  <2>2. CASE tx' = [tx EXCEPT !.step = "sent", !.ext = tx.ext, !.frame = <<>>] /\ last' = last
    <3>1. tx' = [step |-> "sent", id |-> tx.id, kind |-> tx.kind, try |-> tx.try,
                 ext |-> tx.ext, frame |-> <<>>, calm |-> tx.calm]
      BY <2>2, TxTypes
    <3> QED
      BY <1>1, <2>2, <3>1
  <2> QED
    BY <1>2, <2>1, <2>2 DEF AfterSending
<1>4. CASE last' = last
  BY <1>2, <1>3, <1>4, UnacknowledgedCalm DEF Calm
<1>5. CASE ~last'.calm
  BY <1>3, <1>5 DEF Calm, Ended
<1> QED
  BY <1>3, <1>4, <1>5

(* Only a Set that the node has decoded is left waiting in vain.           *)
LEMMA NothingComesCalm ==
    ASSUME IInv, Calm, Ended, NothingComes
    PROVE  Calm' /\ Ended'
<1>1. tx' = Idle /\ tx.step \in {"awaitsNonce", "sent"} /\ UNCHANGED <<mgr, channel, accepted>>
  BY DEF NothingComes, Ends
<1>2. Calm'
  BY <1>1 DEF Calm, Idle
<1>3. CASE ~last'.calm
  BY <1>2, <1>3 DEF Ended
<1>4. CASE last'.calm
  <2>1. /\ toCtrl = <<>> /\ toNode = <<>> /\ parsed = <<>> /\ tx.calm
        /\ last' = [id |-> tx.id, ok |-> tx.step = "sent" /\ tx.kind = "set", calm |-> tx.calm]
    BY <1>4 DEF NothingComes, Ends, toCtrl, toNode
  <2>2. Received
    <3>1. ~Asked /\ ~Answered
      BY <2>1, Short DEF Asked, Answered
    <3>2. ~Sent
      BY <2>1, Short DEF Sent, SentOut
    <3>3. ~Failed /\ ~Answering
      BY <2>1, Short DEF Failed, Answering, Coming, Here
    <3> QED
      BY <1>1, <2>1, <3>1, <3>2, <3>3 DEF Calm, Phase, Asking, Agreed, Ready
  <2>3. last'.ok /\ Told(last'.id)
    BY <2>1, <2>2 DEF Received
  <2>4. Told(last.id)'
    BY <1>1, <2>3 DEF Told, Commands
  <2> QED
    BY <1>2, <2>3, <2>4 DEF Ended
<1> QED
  BY <1>3, <1>4

LEMMA DisturbedCalm ==
    ASSUME IInv, Disturbed
    PROVE  Calm'
BY TxTypes DEF Disturbed, Calm

(* What a transaction that nothing disturbs finds parsed.                  *)
LEMMA HeadOfParsed ==
    ASSUME Phase, parsed # <<>>
    PROVE  \/ IsEvent(Head(parsed))
           \/ Answered /\ parsed = <<Report(node.ei)>>
           \/ Failed /\ parsed = <<Report(node.ei)>> /\ toCtrl = <<>>
           \/ Answering /\ toCtrl = <<>> /\ \E y : IsAnswer(y) /\ parsed = <<y>>
<1>1. Clear => IsEvent(Head(parsed))
  BY Short DEF Clear, Empty
<1>2. \A x : Coming(x) => IsEvent(Head(parsed))
  BY Short DEF Coming
<1>3. \A x : Here(x) => IsEvent(Head(parsed)) \/ (parsed = <<x>> /\ toCtrl = <<>>)
  BY Short DEF Here
<1>4. ~Asking /\ ~Asked /\ ~Agreed
  BY DEF Asking, Asked, Agreed, Empty
<1>5. Answered => parsed = <<Report(node.ei)>>
  BY DEF Answered
<1>6. Ready \/ Sent \/ Received => IsEvent(Head(parsed))
  BY <1>1 DEF Ready, Sent, Received
<1>7. Failed => IsEvent(Head(parsed)) \/ (parsed = <<Report(node.ei)>> /\ toCtrl = <<>>)
  BY <1>2, <1>3 DEF Failed
<1>8. Answering => \/ IsEvent(Head(parsed))
                   \/ toCtrl = <<>> /\ \E y : IsAnswer(y) /\ parsed = <<y>>
  BY <1>3, Short DEF Answering
<1> QED
  BY <1>4, <1>5, <1>6, <1>7, <1>8 DEF Phase

LEMMA HandleNonceGetCalm ==
    ASSUME IInv, Calm, Ended, HandleNonceGet
    PROVE  Calm' /\ Ended'
<1>1. /\ parsed # <<>> /\ Head(parsed).type \in {"nonceGet", "undecodable"}
      /\ UNCHANGED <<channel, tx, accepted, last>>
  BY DEF HandleNonceGet
<1>2. ~Phase
  <2>1. ~IsEvent(Head(parsed))
    BY <1>1 DEF IsEvent
  <2>2. parsed # <<Report(node.ei)>>
    BY <1>1, Short DEF Report
  <2>3. \A y : IsAnswer(y) => parsed # <<y>>
    BY <1>1, Short DEF IsAnswer
  <2> QED
    BY <1>1, <2>1, <2>2, <2>3, HeadOfParsed
<1>3. Calm'
  BY <1>1, <1>2 DEF Calm
<1>4. node' = node
  <2>1. mgr' = mgr \/ \E s : mgr' = [mgr EXCEPT !["ctrl"].span = s]
    BY DEF HandleNonceGet, SendNonce
  <2>2. ASSUME NEW s, mgr' = [mgr EXCEPT !["ctrl"].span = s] PROVE mgr'["node"] = mgr["node"]
    BY <2>2, Parties, IInvParts
  <2> QED
    BY <2>1, <2>2 DEF node
<1>5. Ended'
  BY <1>1, <1>4, SameCommands, EndedStays DEF toNode
<1> QED
  BY <1>3, <1>5

LEMMA HandleNonceReportCalm ==
    ASSUME IInv, Calm, Ended, HandleNonceReport
    PROVE  Calm' /\ Ended'
<1>1. /\ parsed # <<>> /\ Head(parsed).type = "nonceReport" /\ parsed' = Tail(parsed)
      /\ UNCHANGED <<channel, replies, wants, accepted>>
  BY DEF HandleNonceReport
<1>2. toCtrl' = toCtrl /\ toNode' = toNode
  BY <1>1 DEF toCtrl, toNode
<1>3. mgr' = mgr \/ mgr' = [mgr EXCEPT !["ctrl"].span = RemoteEI(Head(parsed).ei)]
  BY DEF HandleNonceReport
<1>4. /\ node' = node
      /\ mgr' = [mgr EXCEPT !["ctrl"].span = RemoteEI(Head(parsed).ei)] =>
           ctrl' = RemoteEI(Head(parsed).ei)
  <2>1. ASSUME NEW s, mgr' = [mgr EXCEPT !["ctrl"].span = s]
        PROVE  mgr'["node"] = mgr["node"] /\ mgr'["ctrl"].span = s
    <3>1. mgr' = [mgr EXCEPT !["ctrl"] = Mgr(s, mgr["ctrl"].own, mgr["ctrl"].peer)]
      BY <2>1, Parties, SpanReplaced
    <3>2. mgr'["ctrl"] = Mgr(s, mgr["ctrl"].own, mgr["ctrl"].peer) /\ mgr'["node"] = mgr["node"]
      BY <3>1, Parties, ManagerAfter
    <3> QED
      BY <3>2 DEF Mgr
  <2> QED
    BY <1>3, <2>1 DEF node, ctrl
<1>5. Phase => /\ Answered \/ Failed
               /\ parsed = <<Report(node.ei)>>
               /\ Failed => toCtrl = <<>>
  <2>1. ~IsEvent(Head(parsed))
    BY <1>1 DEF IsEvent
  <2>2. \A y : IsAnswer(y) => parsed # <<y>>
    BY <1>1, Short DEF IsAnswer
  <2> QED
    BY <1>1, <2>1, <2>2, HeadOfParsed DEF Answered, Failed
<1>6. Phase => /\ parsed' = <<>> /\ Head(parsed).ei = node.ei
               /\ toCtrl' = <<>> /\ toNode' = <<>> /\ node.type = "localEI"
               /\ replies' = <<>> /\ wants' = Nothing
  <2>1. Phase => replies' = <<>> /\ wants' = Nothing
    BY <1>1 DEF Phase
  <2>2. Phase => toCtrl' = <<>> /\ toNode' = <<>> /\ node.type = "localEI"
    BY <1>1, <1>2, <1>5, Short DEF Answered, Failed
  <2>3. Report(node.ei).ei = node.ei
    BY DEF Report
  <2>4. Phase => parsed' = <<>> /\ Head(parsed) = Report(node.ei)
    BY <1>1, <1>5, Short
  <2> QED
    BY <2>1, <2>2, <2>3, <2>4
<1>7. Phase => last' = last /\ tx'.step = "ready" /\ tx'.calm = tx.calm /\ ctrl' = RemoteEI(node.ei)
  <2>1. CASE Answered
    <3>1. mgr' = mgr /\ last' = last /\ tx' = [tx EXCEPT !.step = "ready"]
      BY <2>1 DEF HandleNonceReport, Expecting, Answered
    <3>2. tx'.step = "ready" /\ tx'.calm = tx.calm
      BY <3>1, TxTypes
    <3>3. Phase => ctrl = RemoteEI(node.ei)
      BY <1>5, <2>1, Short DEF Answered
    <3> QED
      BY <3>1, <3>2, <3>3 DEF ctrl
  <2>2. CASE Failed
    <3>1. /\ mgr' = [mgr EXCEPT !["ctrl"].span = RemoteEI(Head(parsed).ei)] /\ last' = last
          /\ tx' = [tx EXCEPT !.step = "ready", !.try = 2, !.frame = <<>>]
      BY <2>2 DEF HandleNonceReport, Expecting, Failed
    <3>2. tx' = [step |-> "ready", id |-> tx.id, kind |-> tx.kind, try |-> 2,
                 ext |-> tx.ext, frame |-> <<>>, calm |-> tx.calm]
      BY <3>1, TxTypes
    <3> QED
      BY <1>4, <1>6, <3>1, <3>2
  <2> QED
    BY <1>5, <2>1, <2>2
<1>8. ASSUME tx.calm PROVE Calm' /\ Ended'
  <2>1. Phase
    BY <1>8 DEF Calm
  <2>2. Agreed'
    BY <1>4, <1>6, <1>7, <2>1 DEF Agreed, Empty
  <2>3. Phase'
    BY <1>6, <2>1, <2>2 DEF Phase, Nothing
  <2>4. Ended'
    BY <1>1, <1>2, <1>4, <1>7, <2>1, SameCommands, EndedStays
  <2> QED
    BY <2>3, <2>4 DEF Calm
<1>9. ASSUME ~tx.calm PROVE Calm' /\ Ended'
  <2>1. ~tx'.calm
    <3>1. \/ tx' = tx \/ tx' = Idle \/ tx' = [tx EXCEPT !.step = "ready"]
          \/ tx' = [tx EXCEPT !.step = "ready", !.try = 2, !.frame = <<>>]
      BY DEF HandleNonceReport, Ends
    <3>2. ~Idle.calm
      BY DEF Idle
    <3>3. ASSUME tx' = [tx EXCEPT !.step = "ready"] PROVE tx'.calm = tx.calm
      BY <3>3, TxTypes
    <3>4. ASSUME tx' = [tx EXCEPT !.step = "ready", !.try = 2, !.frame = <<>>]
          PROVE  tx'.calm = tx.calm
      <4>1. tx' = [step |-> "ready", id |-> tx.id, kind |-> tx.kind, try |-> 2,
                   ext |-> tx.ext, frame |-> <<>>, calm |-> tx.calm]
        BY <3>4, TxTypes
      <4> QED
        BY <4>1
    <3> QED
      BY <1>9, <3>1, <3>2, <3>3, <3>4
  <2>2. last' = last \/ ~last'.calm
    BY <1>9 DEF HandleNonceReport, Ends
  <2>3. CASE last' = last
    BY <1>1, <1>2, <1>4, <2>1, <2>3, SameCommands, EndedStays DEF Calm
  <2> QED
    BY <2>1, <2>2, <2>3 DEF Calm, Ended
<1> QED
  BY <1>8, <1>9

(* An event of the node is handled: the transaction goes on.               *)
LEMMA HandleEventPhase ==
    ASSUME IInv, Phase, parsed # <<>>, IsEvent(Head(parsed)), parsed' = Tail(parsed),
           UNCHANGED <<mgr, channel, tx, replies, wants, accepted>>
    PROVE  Phase'
<1>1. /\ ctrl' = ctrl /\ node' = node /\ toCtrl' = toCtrl /\ toNode' = toNode
      /\ \A id : Told(id)' = Told(id)
  BY SameCommands DEF ctrl, node, toCtrl, toNode, Told
<1>2. Clear => Clear' /\ toCtrl = <<>>
  <2>1. ASSUME NEW y, IsEvent(y), parsed = <<y>>, toCtrl = <<>> PROVE Empty'
    BY <1>1, <2>1, Short DEF Empty
  <2> QED
    BY <2>1 DEF Clear, Empty
<1>3. \A x : Coming(x) => Coming(x)'
  <2>1. ASSUME NEW x, NEW y, IsEvent(y), parsed = <<y>>, toCtrl = <<x>> PROVE Coming(x)'
    BY <1>1, <2>1, Short DEF Coming
  <2> QED
    BY <2>1 DEF Coming
<1>4. \A x : Here(x) /\ ~IsEvent(x) => Here(x)'
  <2> SUFFICES ASSUME NEW x, Here(x), ~IsEvent(x) PROVE Here(x)'
    OBVIOUS
  <2>1. parsed # <<x>>
    BY Short
  <2>2. PICK y : parsed = <<y, x>> /\ toCtrl = <<>>
    BY <2>1 DEF Here
  <2> QED
    BY <1>1, <2>2, Short DEF Here
<1>5. ~Asking /\ ~Asked /\ ~Agreed
  BY DEF Asking, Asked, Agreed, Empty
<1>6. ~IsEvent(Report(node.ei)) /\ \A y : IsAnswer(y) => ~IsEvent(y)
  BY DEF IsEvent, IsAnswer, Report
<1>7. ~Answered
  BY <1>6, Short DEF Answered
<1>8. Ready => Ready'
  BY <1>1, <1>2 DEF Ready
<1>9. Sent => Sent'
  <2>1. \A f : SentOut(f) => SentOut(f)'
    BY <1>1 DEF SentOut, Opens, Ahead
  <2> QED
    BY <1>2, <2>1 DEF Sent
<1>10. Failed => Failed'
  BY <1>1, <1>3, <1>4, <1>6 DEF Failed, NonceReport, Report
<1>11. Received => Received'
  BY <1>1, <1>2 DEF Received
<1>12. Answering => Answering'
  <2>1. \A f : Response(f) => Response(f)'
    BY <1>1 DEF Response
  <2>2. ASSUME NEW y, parsed = <<y>> PROVE parsed' = <<>>
    BY <2>2, Short
  <2>3. \A y : IsAnswer(y) => IsAnswer(y)'
    BY DEF IsAnswer
  <2> QED
    BY <1>1, <1>4, <1>6, <2>1, <2>2, <2>3 DEF Answering
<1> QED
  BY <1>5, <1>7, <1>8, <1>9, <1>10, <1>11, <1>12 DEF Phase, Nothing

LEMMA HandleCommandCalm ==
    ASSUME IInv, Calm, Ended, HandleCommand
    PROVE  Calm' /\ Ended'
<1> DEFINE answers == Expecting /\ tx.kind = "get" /\ Head(parsed).cmd.kind = "response"
<1>1. /\ parsed # <<>> /\ Head(parsed).type = "command" /\ parsed' = Tail(parsed)
      /\ UNCHANGED <<mgr, channel, replies, wants, accepted>>
      /\ IF answers THEN Ends(TRUE) ELSE UNCHANGED <<tx, last>>
  BY DEF HandleCommand
<1>2. node' = node /\ toNode' = toNode
  BY <1>1 DEF node, toNode
<1>3. CASE ~answers
  <2>1. Ended'
    BY <1>1, <1>2, <1>3, SameCommands, EndedStays
  <2>2. ASSUME tx.calm PROVE Phase'
    <3>1. Phase
      BY <2>2 DEF Calm
    <3>2. Head(parsed) # Report(node.ei)
      BY <1>1 DEF Report
    <3>3. ~\E y : Answering /\ IsAnswer(y) /\ parsed = <<y>>
      BY <1>3, Short DEF Answering, IsAnswer, Expecting
    <3>4. IsEvent(Head(parsed))
      BY <1>1, <3>1, <3>2, <3>3, HeadOfParsed, Short
    <3> QED
      BY <1>1, <1>3, <3>1, <3>4, HandleEventPhase
  <2>3. Calm'
    BY <1>1, <1>3, <2>2 DEF Calm
  <2> QED
    BY <2>1, <2>3
<1>4. CASE answers
  <2>1. tx' = Idle /\ last' = [id |-> tx.id, ok |-> TRUE, calm |-> tx.calm]
    BY <1>1, <1>4 DEF Ends
  <2>2. Calm'
    BY <2>1 DEF Calm, Idle
  <2>3. ASSUME tx.calm PROVE Told(tx.id)
    <3>1. Phase
      BY <2>3 DEF Calm
    <3>2. Head(parsed) # Report(node.ei)
      BY <1>1 DEF Report
    <3>3. ~IsEvent(Head(parsed))
      BY <1>4 DEF IsEvent
    <3> QED
      BY <1>1, <3>1, <3>2, <3>3, HeadOfParsed, Short DEF Answering
  <2>4. tx.calm => Told(last.id)'
    BY <1>1, <2>1, <2>3 DEF Told, Commands
  <2>5. last'.ok /\ last'.calm = tx.calm
    BY <2>1
  <2>6. Ended'
    BY <2>4, <2>5 DEF Ended
  <2> QED
    BY <2>2, <2>6
<1> QED
  BY <1>3, <1>4

LEMMA QueueCalm ==
    ASSUME IInv, Calm, Ended, OtherBegins \/ OtherEnds \/ ReplyNonce \/ NodeGivesUp \/ SilentLoss
    PROVE  Calm' /\ Ended'
<1>1. UNCHANGED <<accepted, last>>
  BY DEF OtherBegins, OtherEnds, ReplyNonce, NodeGivesUp, SilentLoss
<1>2. node' = node
  <2>1. ASSUME NEW m, mgr' = [mgr EXCEPT !["ctrl"] = m] PROVE node' = node
    BY <2>1, Parties, ManagerAfter DEF node
  <2>2. ASSUME NEW q, mgr' = [mgr EXCEPT !["ctrl"].own = q] PROVE node' = node
    BY <2>2, Parties, ManagerAfter DEF node
  <2>3. \/ mgr' = mgr \/ \E m : mgr' = [mgr EXCEPT !["ctrl"] = m]
        \/ \E q : mgr' = [mgr EXCEPT !["ctrl"].own = q]
    BY DEF OtherBegins, OtherEnds, ReplyNonce, NodeGivesUp, SilentLoss
  <2> QED
    BY <2>1, <2>2, <2>3 DEF node
<1>3. toNode' = toNode \/ \E f : toNode' = Append(toNode, f)
  <2>1. UNCHANGED channel \/ channel' = Take("ctrl") \/ \E f : Deliver("node", f)
    BY DEF OtherBegins, OtherEnds, ReplyNonce, NodeGivesUp, SilentLoss
  <2> QED
    BY <2>1, ChannelsAfter
<1>4. Ended'
  BY <1>1, <1>2, <1>3, HeadStays, SameCommands, EndedStays
<1>5. CASE Disturbed
  BY <1>4, <1>5, DisturbedCalm
<1>6. CASE ~Disturbed
  <2>1. UNCHANGED tx /\ (replies # <<>> \/ wants # Nothing)
    BY <1>6 DEF OtherBegins, OtherEnds, ReplyNonce, NonceReportPending, NodeGivesUp, SilentLoss
  <2>2. ~Phase
    BY <2>1 DEF Phase
  <2> QED
    BY <1>4, <2>1, <2>2 DEF Calm
<1> QED
  BY <1>5, <1>6

LEMMA TwiceCalm ==
    ASSUME IInv, Ended, NEW p \in Party, Twice(p)
    PROVE  Calm' /\ Ended'
<1>1. /\ channel' = [channel EXCEPT ![p] = Append(@, Head(channel[p]))] /\ Disturbed
      /\ UNCHANGED <<mgr, accepted, last>>
  BY DEF Twice
<1>2. p = "ctrl" \/ p = "node"
  BY DEF Party
<1>3. toNode' = toNode \/ \E f : toNode' = Append(toNode, f)
  BY <1>1, <1>2, ChannelsAfter DEF Deliver
<1>4. Ended'
  BY <1>1, <1>3, HeadStays, SameCommands, EndedStays DEF node
<1> QED
  BY <1>1, <1>4, DisturbedCalm

(* The node sends an event while nothing disturbs the transaction.         *)
LEMMA NodeEventCalm ==
    ASSUME IInv, Calm, Ended, NodeEvent
    PROVE  Calm' /\ Ended'
<1> PICK c : c = [id |-> count.event + 1, kind |-> "event"]
  OBVIOUS
<1>1. UNCHANGED <<parsed, replies, accepted, last>>
  BY DEF NodeEvent
<1>2. /\ toNode' = toNode
      /\ Underway(last.id) => node' = node
  <2>1. CASE NodeSends(mgr["node"], c, channel) /\ mgr["node"].span.type \in {"remoteEI", "span"}
    <3>1. \E f : Deliver("ctrl", f)
      BY <2>1 DEF NodeSends, Deliver
    <3>2. ~Underway(last.id)
      BY <2>1 DEF Underway, Opens, node
    <3> QED
      BY <3>1, <3>2, ChannelsAfter
  <2>2. CASE /\ mgr' = [mgr EXCEPT !["node"].own = NextSeq(mgr["node"])]
             /\ Deliver("ctrl", NonceGet(NextSeq(mgr["node"])))
    BY <2>2, ChannelsAfter, ManagerAfter, Parties DEF node
  <2> QED
    BY <2>1, <2>2, Zenon DEF NodeEvent
<1>3. Ended'
  BY <1>1, <1>2, SameCommands DEF Ended, Underway, Opens, Told
<1>4. CASE Disturbed
  BY <1>3, <1>4, DisturbedCalm
<1>5. CASE InStep /\ UNCHANGED tx
  <2> SUFFICES ASSUME tx.calm PROVE Phase'
    BY <1>3, <1>5 DEF Calm
  <2>0. Phase
    BY DEF Calm
  <2>1. mgr["node"].span.type = "span" /\ ctrl.type = "span" /\ Empty
        /\ ctrl.seed = node.seed /\ node.type = "span"
    BY <1>5, Parties DEF InStep, ctrl, node, Empty, toCtrl
  <2>2. NodeSends(mgr["node"], c, channel) /\ wants' = wants
    BY <2>1, Zenon DEF NodeEvent
  <2>3. /\ mgr'["ctrl"] = mgr["ctrl"] /\ node'.seed = node.seed
        /\ node'.type = "span" /\ node'.k = node.k + 1
    BY <1>1, <1>5, <2>2, InStepIsAwaited DEF node
  <2>4. PICK e : /\ toCtrl' = <<e>> /\ e.cmd = c /\ NextTo(e)' /\ Awaited(e, ctrl, tx)'
                 /\ e.nonce = Nonce(ctrl.seed, node.k) /\ e.type = "encap" /\ e.ei = Nothing
    BY <1>1, <1>5, <2>2, InStepIsAwaited
  <2>5. Event(e)' /\ Head(toCtrl') = e /\ toCtrl' # <<>> /\ ctrl' = ctrl
    BY <2>3, <2>4, Short DEF Event, ctrl
  <2>6. Clear'
    BY <1>1, <2>1, <2>4, <2>5 DEF Clear, Empty
  <2>7. ~Asking /\ ~Asked /\ ~Answered /\ ~Agreed /\ ~Failed
    BY <2>1 DEF Asking, Asked, Answered, Agreed, Failed
  <2>8. ~Answering
    BY <2>1, Short DEF Answering, Here, Empty
  <2>9. ASSUME Ready PROVE Ready'
    <3>1. ctrl.k = node.k
      BY <1>5, <2>9 DEF InStep, Ready, ctrl, node, toNode
    <3>2. Ahead(ctrl.k + 1)'
      BY <2>1, <2>3, <2>5, <3>1 DEF Ahead
    <3> QED
      BY <1>2, <1>5, <2>5, <2>6, <2>9, <3>2 DEF Ready
  <2>10. ASSUME Received PROVE Received'
    BY <1>1, <1>2, <1>5, <2>6, <2>10, SameCommands DEF Received, Told
  <2>11. ASSUME Sent PROVE Sent'
    <3>1. PICK f : SentOut(f)
      BY <2>11 DEF Sent
    <3>2. toNode = <<f>> /\ Head(toNode) = f /\ toNode # <<>>
      BY <3>1, Short DEF SentOut
    <3>3. ctrl.k = node.k + 1 /\ f.nonce = ctrl.cur
      BY <1>5, <3>2 DEF InStep, ctrl, node, toNode
    <3>4. tx.try # 2
      BY <2>1, <3>1 DEF SentOut, Opens
    <3>5. ctrl.cur = e.nonce
      <4>1. node.k \in Nat
        BY <2>1, IInvParts, Parties, ManagerType, TypesOfSpan DEF node
      <4> QED
        BY <2>4, <3>1, <3>3, <4>1 DEF SentOut
    <3>6. Ahead(ctrl.k)'
      BY <2>1, <2>3, <2>5, <3>3 DEF Ahead
    <3>7. SentOut(f)'
      BY <1>2, <1>5, <2>5, <3>1, <3>4, <3>5, <3>6 DEF SentOut
    <3> QED
      BY <1>5, <2>6, <2>11, <3>7 DEF Sent
  <2> QED
    BY <1>1, <2>0, <2>2, <2>7, <2>8, <2>9, <2>10, <2>11 DEF Phase
<1> QED
  BY <1>4, <1>5 DEF NodeEvent

LEMMA DecodedSpanType ==
    ASSUME IInv, NEW p \in Party, NEW f \in Encaps(eis)
    PROVE  Decoded(p, mgr[p], f, FALSE).span \in Spans(eis)
<1>1. /\ eis \in Nat /\ encrypted[p] \in Seq(Nonces(eis)) /\ accepted[p] \in Seq(Acceptances(eis))
      /\ mgr[p] \in Managers(eis) /\ History(mgr[p].span, encrypted[p], accepted[p])
  BY IInvParts
<1> QED
  BY <1>1, S2Assumption, DecodedKeeps

(* What the controller decodes with its generator, and how that is left.   *)
LEMMA ControllerDecodes ==
    ASSUME IInv, NEW f \in Encaps(eis), ctrl.type = "span"
    PROVE  LET d == Decoded("ctrl", mgr["ctrl"], f, FALSE)
           IN  /\ d.span.type = "span"
               /\ f.ei = Nothing /\ f.nonce = Nonce(ctrl.seed, ctrl.k) => d.ok
               /\ f.nonce = ctrl.cur /\ NextTo(f) =>
                    d.ok /\ d.span.seed = ctrl.seed /\ d.span.k = ctrl.k
<1> DEFINE m == mgr["ctrl"]
           s == m.span
           d == Decoded("ctrl", m, f, FALSE)
           s2 == SPAN(s.seed, s.k, NoNonce)
           previous == MayUsePrevious("ctrl", m, f) /\ f.nonce = s.cur
<1>1. s \in Spans(eis) /\ eis \in Nat
  BY IInvParts, Parties, ManagerType
<1>2. s.type = "span" /\ s.k \in Nat /\ s = SPAN(s.seed, s.k, s.cur)
  BY <1>1, TypesOfSpan DEF ctrl
<1>3. f.nonce # <<>>
  BY NonceIsPair DEF Encaps
<1>4. s2.type = "span" /\ s2.seed = s.seed /\ s2.k = s.k
  BY DEF SPAN
<1>5. CASE previous
  <2>1. [s EXCEPT !.cur = NoNonce] = s2
    BY <1>2 DEF SPAN
  <2>2. d = [ok |-> TRUE, span |-> s2]
    BY <1>2, <1>5, <2>1 DEF Decoded
  <2> HIDE DEF d, s2
  <2>3. d.ok /\ d.span = s2
    BY <2>2
  <2> QED
    BY <1>4, <2>3 DEF d, ctrl
<1>6. CASE ~previous
  <2>1. d = TrySPAN(s, f)
    BY <1>2, <1>6 DEF Decoded
  <2>2. TrySPAN(s, f).span.type = "span"
    BY DEF TrySPAN, SPAN
  <2>3. f.ei = Nothing /\ f.nonce = Nonce(s.seed, s.k) => TrySPAN(s, f).ok
    <3>1. s.k \in s.k..(s.k + DecryptAttempts - 1)
      BY <1>2, S2Assumption DEF S2Assumption
    <3> QED
      BY <3>1 DEF TrySPAN
  <2>4. ~(f.nonce = ctrl.cur /\ NextTo(f))
    BY <1>3, <1>6 DEF MayUsePrevious, NextTo, NoNonce, ctrl
  <2> HIDE DEF d
  <2> QED
    BY <2>1, <2>2, <2>3, <2>4 DEF d, ctrl
<1> QED
  BY <1>5, <1>6

(* What parsing the first frame does while nothing is disturbed.           *)
LEMMA ParseSteps ==
    ASSUME IInv, Parse, ~Disturbed, ~IsDuplicate(mgr["ctrl"], Head(toCtrl))
    PROVE  /\ toCtrl # <<>> /\ Head(toCtrl) \in Frames(eis)
           /\ tx' = tx /\ toCtrl' = Tail(toCtrl) /\ toNode' = toNode
           /\ node' = node /\ Commands("node") \subseteq Commands("node")'
           /\ UNCHANGED <<replies, wants, last>>
           /\ Head(toCtrl).type = "nonceReport" =>
                /\ ctrl' = RemoteEI(Head(toCtrl).ei)
                /\ parsed' = Append(parsed, Report(Head(toCtrl).ei))
           /\ Head(toCtrl).type = "encap" =>
                LET d == Decoded("ctrl", mgr["ctrl"], Head(toCtrl), FALSE)
                IN  /\ ctrl' = d.span
                    /\ d.ok => \E y : /\ parsed' = Append(parsed, y)
                                      /\ y.type = "command" /\ y.cmd = Head(toCtrl).cmd
<1> DEFINE f == Head(toCtrl)
           m == mgr["ctrl"]
           d == Decoded("ctrl", m, f, FALSE)
<1>1. toCtrl # <<>> /\ channel' = Take("ctrl") /\ UNCHANGED <<replies, wants, last>>
  BY DEF Parse, toCtrl
<1>2. f \in Frames(eis) /\ eis \in Nat /\ m \in Managers(eis)
  BY <1>1, Taken, Parties, IInvParts DEF toCtrl
<1>3. toCtrl' = Tail(toCtrl) /\ toNode' = toNode
  BY <1>1, ChannelsAfter
<1>4. ASSUME NEW s \in Spans(eis), mgr' = [mgr EXCEPT !["ctrl"] = Stored(m, f, s)]
      PROVE  ctrl' = s /\ node' = node
  <2>1. Stored(m, f, s).span = s
    <3>1. f \in Frames(eis) /\ eis \in Nat /\ m \in Managers(eis) /\ s \in Spans(eis)
      BY <1>2
    <3> HIDE DEF f, m
    <3> QED
      BY <3>1, StoredManager
  <2>2. mgr'["ctrl"] = Stored(m, f, s) /\ mgr'["node"] = mgr["node"]
    BY <1>4, Parties, ManagerAfter
  <2> QED
    BY <2>1, <2>2 DEF ctrl, node
<1>5. m.span \in Spans(eis) /\ (f.type = "nonceReport" => RemoteEI(f.ei) \in Spans(eis))
      /\ (f.type = "encap" => d.span \in Spans(eis))
  <2>1. m.span \in Spans(eis)
    BY <1>2, ManagerType
  <2>2. f.type = "nonceReport" => RemoteEI(f.ei) \in Spans(eis)
    BY <1>2, FrameTypes, FreshTypes
  <2>3. ASSUME f.type = "encap" PROVE d.span \in Spans(eis)
    <3>1. f \in Encaps(eis)
      BY <1>2, <2>3, FrameTypes
    <3> QED
      BY <3>1, DecodedSpanType, Parties
  <2> QED
    BY <2>1, <2>2, <2>3
<1>6. \/ /\ f.type = "nonceGet"
         /\ mgr' = [mgr EXCEPT !["ctrl"] = Stored(m, f, m.span)]
         /\ UNCHANGED <<accepted, tx>>
      \/ /\ f.type = "nonceReport"
         /\ mgr' = [mgr EXCEPT !["ctrl"] = Stored(m, f, RemoteEI(f.ei))]
         /\ parsed' = Append(parsed, Report(f.ei))
         /\ UNCHANGED <<accepted, tx>>
      \/ /\ f.type = "encap" /\ UNCHANGED tx
         /\ mgr' = [mgr EXCEPT !["ctrl"] = Stored(m, f, d.span)]
         /\ d.ok => parsed' = Append(parsed, [type |-> "command", cmd |-> f.cmd])
         /\ accepted' = accepted \/ \E a : accepted' = [accepted EXCEPT !["ctrl"] = Append(@, a)]
  BY DEF Parse, Stored, Report, toCtrl
<1> HIDE DEF d, m, f
<1>7. tx' = tx /\ (accepted' = accepted \/ \E a : accepted' = [accepted EXCEPT !["ctrl"] = Append(@, a)])
  BY <1>6
<1>8. Commands("node") \subseteq Commands("node")'
  BY <1>7, Parties, Accumulate, SameCommands
<1>9. node' = node
  BY <1>4, <1>5, <1>6
<1>10. f.type = "nonceReport" => ctrl' = RemoteEI(f.ei) /\ parsed' = Append(parsed, Report(f.ei))
  BY <1>4, <1>5, <1>6
<1>11. f.type = "encap" =>
         /\ ctrl' = d.span
         /\ d.ok => \E y : parsed' = Append(parsed, y) /\ y.type = "command" /\ y.cmd = f.cmd
  <2>1. [type |-> "command", cmd |-> f.cmd].type = "command"
        /\ [type |-> "command", cmd |-> f.cmd].cmd = f.cmd
    OBVIOUS
  <2> QED
    BY <1>4, <1>5, <1>6, <2>1
<1> QED
  BY <1>1, <1>2, <1>3, <1>7, <1>8, <1>9, <1>10, <1>11 DEF d, m, f

(* An event is parsed: it is decoded.                                      *)
LEMMA ParseEvent ==
    ASSUME IInv, Parse, ~Disturbed, ~IsDuplicate(mgr["ctrl"], Head(toCtrl)), Event(Head(toCtrl))
    PROVE  /\ ctrl'.type = "span"
           /\ \E y : IsEvent(y) /\ parsed' = Append(parsed, y)
           /\ Head(toCtrl).nonce = ctrl.cur => ctrl'.seed = ctrl.seed /\ ctrl'.k = ctrl.k
<1> DEFINE f == Head(toCtrl)
           d == Decoded("ctrl", mgr["ctrl"], f, FALSE)
<1>1. f \in Frames(eis) /\ f.type = "encap" /\ ctrl.type = "span" /\ f.cmd.kind = "event"
      /\ NextTo(f) /\ f.ei = Nothing /\ f.nonce \in {Nonce(ctrl.seed, ctrl.k), ctrl.cur}
  BY ParseSteps DEF Event, Awaited
<1>2. f \in Encaps(eis)
  BY <1>1, FrameTypes, IInvParts
<1> HIDE DEF f
<1>3. /\ d.span.type = "span" /\ d.ok
      /\ f.nonce = ctrl.cur => d.span.seed = ctrl.seed /\ d.span.k = ctrl.k
  BY <1>1, <1>2, ControllerDecodes
<1>4. ctrl' = d.span /\ \E y : /\ parsed' = Append(parsed, y)
                               /\ y.type = "command" /\ y.cmd = f.cmd
  BY <1>1, <1>3, ParseSteps DEF f
<1> HIDE DEF d
<1> QED
  BY <1>1, <1>3, <1>4 DEF f, IsEvent

LEMMA ParsedAfterEvent ==
    ASSUME NEW s, NEW z, s = <<>> \/ \E y : IsEvent(y) /\ s = <<y>>
    PROVE  Append(s, z) = <<z>> \/ \E y : IsEvent(y) /\ Append(s, z) = <<y, z>>
<1>1. CASE s = <<>>
  BY <1>1, Short
<1>2. ASSUME NEW y, IsEvent(y), s = <<y>>
      PROVE  \E w : IsEvent(w) /\ Append(s, z) = <<w, z>>
  <2>1. Append(s, z) = <<y, z>>
    BY <1>2, Short
  <2> QED
    BY <1>2, <2>1
<1> QED
  BY <1>1, <1>2

LEMMA ParseCalm ==
    ASSUME IInv, Calm, Ended, NoneMistaken, Parse
    PROVE  Calm' /\ Ended'
<1> DEFINE f == Head(toCtrl)
<1>1. Ended'
  <2>1. UNCHANGED last /\ channel' = Take("ctrl")
    BY DEF Parse
  <2>2. accepted' = accepted \/ \E a : accepted' = [accepted EXCEPT !["ctrl"] = Append(@, a)]
    BY DEF Parse
  <2>3. Commands("node") \subseteq Commands("node")'
    BY <2>2, Parties, Accumulate, SameCommands
  <2>4. mgr' = mgr \/ \E m : mgr' = [mgr EXCEPT !["ctrl"] = m]
    BY DEF Parse
  <2>5. node' = node
    BY <2>4, Parties, ManagerAfter DEF node
  <2> QED
    BY <2>1, <2>3, <2>5, ChannelsAfter, EndedStays
<1>2. CASE Disturbed
  BY <1>1, <1>2, DisturbedCalm
<1>3. CASE ~Disturbed /\ ~tx.calm
  <2>1. tx' = tx
    BY <1>3 DEF Parse
  <2> QED
    BY <1>1, <1>3, <2>1 DEF Calm
<1>4. CASE ~Disturbed /\ tx.calm
  <2>0. Phase /\ toCtrl # <<>>
    BY <1>4 DEF Calm, Parse, toCtrl
  <2>1. ~IsDuplicate(mgr["ctrl"], f)
    BY <1>4, <2>0, Parties DEF NoneMistaken, toCtrl
  <2>2. /\ f \in Frames(eis) /\ tx' = tx /\ toCtrl' = Tail(toCtrl) /\ toNode' = toNode
        /\ node' = node /\ Commands("node") \subseteq Commands("node")'
        /\ UNCHANGED <<replies, wants, last>>
    BY <1>4, <2>1, ParseSteps
  <2>3. \A id : Told(id) => Told(id)'
    BY <2>2 DEF Told
  <2>4. ASSUME NEW q, NEW x, f = NonceReport(q, x)
        PROVE  ctrl' = RemoteEI(x) /\ parsed' = Append(parsed, Report(x))
    <3>1. f.type = "nonceReport" /\ f.ei = x
      BY <2>4 DEF NonceReport
    <3> QED
      BY <1>4, <2>1, <3>1, ParseSteps
  <2>5. ASSUME Event(f)
        PROVE  /\ ctrl'.type = "span" /\ \E y : IsEvent(y) /\ parsed' = Append(parsed, y)
               /\ f.nonce = ctrl.cur => ctrl'.seed = ctrl.seed /\ ctrl'.k = ctrl.k
    BY <1>4, <2>1, <2>5, ParseEvent
  <2>6. Clear => /\ Clear' /\ toCtrl' = <<>> /\ Event(f)
    <3>1. ASSUME NEW e, Event(e), parsed = <<>>, toCtrl = <<e>>
          PROVE  Clear' /\ toCtrl' = <<>> /\ Event(f)
      <4>1. f = e /\ toCtrl' = <<>>
        BY <2>2, <3>1, Short
      <4>2. PICK y : IsEvent(y) /\ parsed' = <<y>>
        BY <2>5, <3>1, <4>1, Short
      <4> QED
        BY <3>1, <4>1, <4>2 DEF Clear, IsEvent
    <3> QED
      BY <2>0, <3>1 DEF Clear, Empty
  <2>7. ~Asking /\ ~Asked /\ ~Agreed
    BY <2>0 DEF Asking, Asked, Agreed, Empty
  <2>8. ASSUME Answered PROVE Answered'
    <3>1. PICK q : toCtrl = <<NonceReport(q, node.ei)>> /\ parsed = <<>>
      BY <2>0, <2>8 DEF Answered
    <3>2. f = NonceReport(q, node.ei) /\ toCtrl' = <<>>
      BY <2>2, <3>1, Short
    <3>3. ctrl' = RemoteEI(node.ei) /\ parsed' = <<Report(node.ei)>>
      BY <2>4, <3>1, <3>2, Short
    <3>4. ctrl' = RemoteEI(node'.ei) /\ parsed' = <<Report(node'.ei)>>
      BY <2>2, <3>3
    <3> QED
      BY <2>2, <2>8, <3>2, <3>4 DEF Answered, Report, RemoteEI
  <2>9. ASSUME Ready PROVE Ready'
    BY <2>2, <2>5, <2>6, <2>9 DEF Ready
  <2>10. ASSUME Received PROVE Received'
    BY <2>2, <2>3, <2>6, <2>10 DEF Received
  <2>11. ASSUME Sent PROVE Sent'
    <3>1. PICK g : SentOut(g)
      BY <2>11 DEF Sent
    <3>2. ctrl'.type = "span" /\ ctrl'.seed = ctrl.seed /\ ctrl'.k = ctrl.k
      BY <2>0, <2>5, <2>6, <2>11, <3>1 DEF Sent, SentOut
    <3>3. Ahead(ctrl.k)'
      BY <2>0, <2>2, <3>1, <3>2 DEF SentOut, Ahead
    <3>4. tx.try = 2 => Opens(g)'
      BY <2>2, <3>1 DEF SentOut, Opens
    <3>5. SentOut(g)'
      BY <2>2, <2>6, <2>11, <3>1, <3>2, <3>3, <3>4 DEF SentOut, Sent
    <3> QED
      BY <2>2, <2>6, <2>11, <3>5 DEF Sent
  <2>12. ASSUME Failed PROVE Failed'
    <3>1. PICK q : Coming(NonceReport(q, node.ei))
      BY <2>0, <2>12 DEF Failed, Here
    <3> DEFINE x == NonceReport(q, node.ei)
    <3>2. ASSUME f = x, toCtrl = <<x>>,
                 parsed = <<>> \/ \E y : IsEvent(y) /\ parsed = <<y>>
          PROVE  Here(Report(node.ei))'
      <4>1. toCtrl' = <<>> /\ parsed' = Append(parsed, Report(node.ei))
        BY <2>2, <2>4, <3>2, Short
      <4>2. parsed' = <<Report(node.ei)>> \/ \E y : IsEvent(y) /\ parsed' = <<y, Report(node.ei)>>
        BY <3>2, <4>1, ParsedAfterEvent
      <4>3. Report(node.ei)' = Report(node.ei)
        BY <2>2 DEF Report
      <4> QED
        BY <4>1, <4>2, <4>3 DEF Here, IsEvent
    <3>3. ASSUME NEW e, Event(e), parsed = <<>>, toCtrl = <<e, x>>
          PROVE  Coming(x)'
      <4>1. f = e /\ toCtrl' = <<x>>
        BY <2>2, <3>3, Short
      <4>2. PICK y : IsEvent(y) /\ parsed' = <<y>>
        BY <2>5, <3>3, <4>1, Short
      <4>3. x' = x
        BY <2>2 DEF NonceReport
      <4> QED
        BY <4>1, <4>2, <4>3 DEF Coming, IsEvent
    <3>4. (\E r : Coming(NonceReport(r, node.ei))') \/ Here(Report(node.ei))'
      <4>1. CASE parsed = <<>> /\ toCtrl = <<x>>
        BY <3>2, <4>1, Short
      <4>2. CASE \E y : IsEvent(y) /\ parsed = <<y>> /\ toCtrl = <<x>>
        BY <3>2, <4>2, Short
      <4>3. CASE \E e : Event(e) /\ parsed = <<>> /\ toCtrl = <<e, x>>
        BY <3>3, <4>3
      <4> QED
        BY <3>1, <4>1, <4>2, <4>3 DEF Coming
    <3> QED
      BY <2>2, <2>12, <3>4 DEF Failed
  <2>13. ASSUME Answering PROVE Answering'
    <3>1. PICK g : /\ Response(g) /\ toCtrl = <<g>>
                   /\ parsed = <<>> \/ \E y : IsEvent(y) /\ parsed = <<y>>
      BY <2>0, <2>13 DEF Answering, Here
    <3>2. f = g /\ toCtrl' = <<>>
      BY <2>2, <3>1, Short
    <3>3. f.type = "encap" /\ f \in Encaps(eis)
      BY <2>2, <3>1, <3>2, FrameTypes, IInvParts DEF Response
    <3>4. Decoded("ctrl", mgr["ctrl"], f, FALSE).ok
      BY <3>1, <3>2, <3>3, ControllerDecodes DEF Response
    <3>5. PICK z : parsed' = Append(parsed, z) /\ z.type = "command" /\ z.cmd = f.cmd
      BY <1>4, <2>1, <3>3, <3>4, ParseSteps
    <3>6. IsAnswer(z)
      BY <3>1, <3>2, <3>5 DEF IsAnswer, Response
    <3>7. parsed' = <<z>> \/ \E y : IsEvent(y) /\ parsed' = <<y, z>>
      BY <3>1, <3>5, ParsedAfterEvent
    <3>8. Here(z)'
      BY <3>2, <3>7 DEF Here, IsEvent
    <3> QED
      BY <2>2, <2>3, <2>13, <3>6, <3>8 DEF Answering, IsAnswer
  <2>14. Phase'
    BY <2>0, <2>2, <2>7, <2>8, <2>9, <2>10, <2>11, <2>12, <2>13 DEF Phase, Nothing
  <2> QED
    BY <1>1, <2>14 DEF Calm
<1> QED
  BY <1>2, <1>3, <1>4

(* What the node decodes of the controller's last command: all or nothing. *)
LEMMA NodeDecodes ==
    ASSUME IInv, NEW f \in Encaps(eis), ctrl.type = "span", f.nonce = Nonce(ctrl.seed, ctrl.k - 1)
    PROVE  LET d == Decoded("node", mgr["node"], f, FALSE)
           IN  /\ d.ok => d.span.type = "span" /\ d.span.seed = ctrl.seed /\ d.span.k = ctrl.k
               /\ Ahead(ctrl.k) => ~d.ok
<1> DEFINE m == mgr["node"]
           s == m.span
           d == Decoded("node", m, f, FALSE)
<1>1. s \in Spans(eis) /\ eis \in Nat /\ ctrl \in Spans(eis)
  BY IInvParts, Parties, ManagerType DEF ctrl
<1>2. s.type \in {"none", "localEI", "remoteEI", "span"} /\ ctrl.k \in Nat
      /\ (s.type = "span" => s.k \in Nat)
  BY <1>1, TypesOfSpan
<1>3. \A a, b, a2, b2 : Nonce(a, b) = Nonce(a2, b2) => a = a2 /\ b = b2
  BY DEF Nonce
<1>4. \A a, b : /\ SPAN(a, b, NoNonce).type = "span" /\ SPAN(a, b, NoNonce).seed = a
                /\ SPAN(a, b, NoNonce).k = b
  BY DEF SPAN
<1>5. CASE s.type \in {"none", "remoteEI"}
  <2>1. ~d.ok
    BY <1>5 DEF Decoded
  <2> QED
    BY <2>1
<1>6. CASE s.type = "localEI"
  <2> DEFINE seed == <<f.ei, s.ei>>
  <2>1. CASE f.ei # Nothing /\ f.nonce = Nonce(seed, 1)
    <3>1. d = [ok |-> TRUE, span |-> SPAN(seed, 2, NoNonce)]
      BY <1>6, <2>1 DEF Decoded
    <3> HIDE DEF d
    <3>2. d.span = SPAN(seed, 2, NoNonce)
      BY <3>1
    <3>3. ctrl.seed = seed /\ ctrl.k - 1 = 1
      <4>1. Nonce(ctrl.seed, ctrl.k - 1) = Nonce(seed, 1)
        BY <2>1
      <4> QED
        BY <4>1 DEF Nonce
    <3>4. ctrl.k = 2
      BY <1>2, <3>3
    <3>5. d.span.type = "span" /\ d.span.seed = ctrl.seed /\ d.span.k = ctrl.k
      BY <1>4, <3>2, <3>3, <3>4
    <3>6. ~Ahead(ctrl.k)
      BY <1>6 DEF Ahead, node
    <3> QED
      BY <3>5, <3>6 DEF d
  <2>2. CASE ~(f.ei # Nothing /\ f.nonce = Nonce(seed, 1))
    <3>1. d = [ok |-> FALSE, span |-> s]
      BY <1>6, <2>2 DEF Decoded
    <3> HIDE DEF d
    <3>2. ~d.ok
      BY <3>1
    <3> QED
      BY <3>2 DEF d
  <2> QED
    BY <2>1, <2>2
<1>7. CASE s.type = "span"
  <2> DEFINE tries == IF f.ei # Nothing THEN 1 ELSE DecryptAttempts
             found == \E k \in s.k..(s.k + tries - 1) : f.nonce = Nonce(s.seed, k)
  <2>1. ~MayUsePrevious("node", m, f)
    BY DEF MayUsePrevious
  <2>2. d = TrySPAN(s, f)
    BY <1>7, <2>1 DEF Decoded
  <2>3. d = [ok |-> found, span |-> SPAN(s.seed, IF found THEN f.nonce[2] + 1 ELSE s.k + tries, NoNonce)]
    BY <2>2 DEF TrySPAN
  <2> HIDE DEF d
  <2>4. (d.ok <=> found) /\ (found => d.span = SPAN(s.seed, f.nonce[2] + 1, NoNonce))
    BY <2>3
  <2>5. found => s.seed = ctrl.seed /\ s.k <= ctrl.k - 1
    <3> SUFFICES ASSUME found PROVE s.seed = ctrl.seed /\ s.k <= ctrl.k - 1
      OBVIOUS
    <3>1. PICK k \in s.k..(s.k + tries - 1) : f.nonce = Nonce(s.seed, k)
      OBVIOUS
    <3>2. s.seed = ctrl.seed /\ k = ctrl.k - 1
      BY <1>3, <3>1
    <3>3. s.k <= k
      BY <1>2, <1>7, <3>1
    <3> QED
      BY <3>2, <3>3
  <2>6. f.nonce[2] = ctrl.k - 1
    BY DEF Nonce
  <2> HIDE DEF found
  <2>7. found => d.span.type = "span" /\ d.span.seed = ctrl.seed /\ d.span.k = ctrl.k
    BY <1>2, <1>4, <2>4, <2>5, <2>6
  <2>8. Ahead(ctrl.k) => ~found
    BY <1>2, <2>5 DEF Ahead, node
  <2> QED
    BY <2>4, <2>7, <2>8 DEF d
<1> QED
  BY <1>2, <1>5, <1>6, <1>7

LEMMA NodeDecodesOpening ==
    ASSUME NEW f, Opens(f)
    PROVE  Decoded("node", mgr["node"], f, FALSE).ok
<1> DEFINE s == mgr["node"].span
           d == Decoded("node", mgr["node"], f, FALSE)
<1>1. d = [ok |-> TRUE, span |-> SPAN(<<f.ei, s.ei>>, 2, NoNonce)]
  BY DEF Opens, Decoded, node
<1> HIDE DEF d
<1>2. d.ok
  BY <1>1
<1> QED
  BY <1>2 DEF d

(* The node receives a frame that is no duplicate.                         *)
LEMMA ReceiveSteps ==
    ASSUME IInv, NodeReceives, ~IsDuplicate(mgr["node"], Head(toNode))
    PROVE  LET f == Head(toNode)
               m == mgr["node"]
               d == Decoded("node", m, f, FALSE)
               after == Stored(m, f, d.span)
               told == accepted' = [accepted EXCEPT !["node"] = Append(@, [cmd |-> f.cmd, nonce |-> f.nonce])]
           IN  /\ f.type = "nonceGet" => NodeSendsNonce(StoreSeq(m, f)) /\ wants' = wants
               /\ f.type = "encap" =>
                    /\ wants' = wants
                    /\ ~d.ok => NodeSendsNonce(after)
                    /\ d.ok => told
                    /\ d.ok /\ f.cmd.kind = "get" =>
                         NodeSends(after, [id |-> f.cmd.id, kind |-> "response"], Take("node"))
                    /\ d.ok /\ f.cmd.kind # "get" =>
                         mgr' = [mgr EXCEPT !["node"] = after] /\ channel' = Take("node")
<1> DEFINE f == Head(toNode)
           m == mgr["node"]
           d == Decoded("node", m, f, FALSE)
<1>1. f.type = "nonceGet" => NodeSendsNonce(StoreSeq(m, f)) /\ wants' = wants
  BY DEF NodeReceives, toNode
<1>2. ASSUME f.type = "encap"
      PROVE  /\ wants' = wants
             /\ ~d.ok => NodeSendsNonce(Stored(m, f, d.span))
             /\ d.ok => accepted' = [accepted EXCEPT !["node"] = Append(@, [cmd |-> f.cmd, nonce |-> f.nonce])]
             /\ d.ok /\ f.cmd.kind = "get" =>
                  NodeSends(Stored(m, f, d.span), [id |-> f.cmd.id, kind |-> "response"], Take("node"))
             /\ d.ok /\ f.cmd.kind # "get" =>
                  mgr' = [mgr EXCEPT !["node"] = Stored(m, f, d.span)] /\ channel' = Take("node")
  BY <1>2 DEF NodeReceives, toNode, Stored
<1> QED
  BY <1>1, <1>2

LEMMA NodeSideOnly ==
    ASSUME IInv, NodeReceives
    PROVE  /\ ctrl' = ctrl /\ mgr'["ctrl"].peer = mgr["ctrl"].peer
           /\ Commands("node") \subseteq Commands("node")'
           /\ UNCHANGED <<parsed, tx, replies, last>>
<1>1. mgr'["ctrl"] = mgr["ctrl"]
  <2>1. mgr' = mgr \/ \E m : mgr' = [mgr EXCEPT !["node"] = m]
    BY DEF NodeReceives, NodeSendsNonce, NodeSends
  <2> QED
    BY <2>1, Parties, ManagerAfter
<1>2. accepted' = accepted \/ \E a : accepted' = [accepted EXCEPT !["node"] = Append(@, a)]
  BY DEF NodeReceives
<1>3. Commands("node") \subseteq Commands("node")'
  BY <1>2, Parties, Accumulate, SameCommands
<1> QED
  BY <1>1, <1>3 DEF NodeReceives, ctrl

LEMMA NodeAnswersNonce ==
    ASSUME IInv, NEW m \in Managers(eis), NodeSendsNonce(m)
    PROVE  /\ node'.type = "localEI" /\ toNode' = Tail(toNode)
           /\ \E q : toCtrl' = Append(toCtrl, NonceReport(q, node'.ei))
<1>1. toNode' = Tail(toNode) /\ toCtrl' = Append(toCtrl, NonceReport(NextSeq(m), eis + 1))
  BY ChannelsAfter DEF NodeSendsNonce
<1>2. m = Mgr(m.span, m.own, m.peer)
  BY IInvParts, ManagerType
<1> DEFINE q == NextSeq(m)
           m2 == Mgr(LocalEI(eis + 1), q, m.peer)
<1>3. [[m EXCEPT !.own = q] EXCEPT !.span = LocalEI(eis + 1)] = m2
  <2> HIDE DEF q
  <2>1. [m EXCEPT !.own = q] = Mgr(m.span, q, m.peer)
    BY <1>2 DEF Mgr
  <2>2. [Mgr(m.span, q, m.peer) EXCEPT !.span = LocalEI(eis + 1)] = m2
    BY DEF Mgr
  <2> QED
    BY <2>1, <2>2
<1>4. mgr'["node"] = m2
  <2>1. mgr' = [mgr EXCEPT !["node"] = m2]
    BY <1>3 DEF NodeSendsNonce
  <2> QED
    BY <2>1, Parties, ManagerAfter
<1>5. node' = LocalEI(eis + 1)
  BY <1>4 DEF node, Mgr
<1>6. node'.type = "localEI" /\ node'.ei = eis + 1
  BY <1>5 DEF LocalEI
<1> QED
  BY <1>1, <1>6

LEMMA NodeReceivesEnded ==
    ASSUME IInv, Ended, NoneMistaken, NodeReceives
    PROVE  Ended'
<1> DEFINE f == Head(toNode)
<1>1. /\ last' = last /\ Commands("node") \subseteq Commands("node")' /\ toNode # <<>>
  BY NodeSideOnly DEF NodeReceives, toNode
<1>2. CASE ~last.calm
  BY <1>1, <1>2 DEF Ended
<1>3. CASE last.calm /\ Told(last.id)
  BY <1>1, <1>3 DEF Ended, Told
<1>4. CASE last.calm /\ ~Told(last.id)
  <2>1. Underway(last.id) /\ last.ok
    BY <1>4 DEF Ended
  <2>2. ~IsDuplicate(mgr["node"], f)
    BY <1>1, <1>4 DEF NoneMistaken, toNode
  <2>3. Decoded("node", mgr["node"], f, FALSE).ok
    BY <2>1, NodeDecodesOpening DEF Underway
  <2>4. accepted' = [accepted EXCEPT !["node"] = Append(@, [cmd |-> f.cmd, nonce |-> f.nonce])]
    BY <2>1, <2>2, <2>3, ReceiveSteps DEF Underway
  <2>5. f.cmd \in Commands("node")'
    <3> DEFINE a == [cmd |-> f.cmd, nonce |-> f.nonce]
    <3>1. a.cmd = f.cmd
      OBVIOUS
    <3> HIDE DEF a
    <3> QED
      BY <2>4, <3>1, Parties, Accumulate DEF a
  <2>6. Told(last.id)'
    BY <1>1, <2>1, <2>5 DEF Told, Underway
  <2> QED
    BY <1>1, <2>1, <2>6 DEF Ended
<1> QED
  BY <1>2, <1>3, <1>4

LEMMA NodeReceivesCalm ==
    ASSUME IInv, Calm, Ended, NoneMistaken, NodeReceives
    PROVE  Calm' /\ Ended'
<1> DEFINE f == Head(toNode)
           m == mgr["node"]
           d == Decoded("node", m, f, FALSE)
           after == Stored(m, f, d.span)
<1>1. Ended'
  BY NodeReceivesEnded
<1>2. /\ ctrl' = ctrl /\ mgr'["ctrl"].peer = mgr["ctrl"].peer
      /\ Commands("node") \subseteq Commands("node")'
      /\ UNCHANGED <<parsed, tx, replies, last>>
  BY NodeSideOnly
<1> SUFFICES ASSUME tx.calm PROVE Phase'
  BY <1>1, <1>2 DEF Calm
<1>3. Phase /\ toNode # <<>> /\ f \in Frames(eis) /\ m \in Managers(eis) /\ eis \in Nat
  BY Taken, Parties, IInvParts DEF Calm, NodeReceives, toNode
<1>4. ~IsDuplicate(m, f)
  BY <1>3, Parties DEF NoneMistaken, toNode
<1>5. StoreSeq(m, f) \in Managers(eis)
  BY <1>3, StoredManager, ManagerType
<1>6. \A e : Event(e) => Event(e)'
  BY <1>2, EventStays
<1>7. CASE Asked
  <2>1. PICK q : toNode = <<NonceGet(q)>>
    BY <1>7 DEF Asked
  <2>2. f.type = "nonceGet" /\ Tail(toNode) = <<>>
    BY <2>1, Short DEF NonceGet
  <2>3. NodeSendsNonce(StoreSeq(m, f)) /\ wants' = wants
    BY <1>4, <2>2, ReceiveSteps
  <2>4. PICK r : toCtrl' = Append(toCtrl, NonceReport(r, node'.ei))
    BY <1>5, <2>3, NodeAnswersNonce
  <2>5. node'.type = "localEI" /\ toNode' = <<>>
    BY <1>5, <2>2, <2>3, NodeAnswersNonce
  <2>6. toCtrl' = <<NonceReport(r, node'.ei)>> /\ parsed' = <<>>
    BY <1>2, <1>7, <2>4, Short DEF Asked, Empty
  <2>7. Answered'
    BY <1>2, <1>7, <2>5, <2>6 DEF Answered, Asked, NonceReport
  <2> QED
    BY <1>2, <1>3, <2>3, <2>7 DEF Phase, Nothing
<1>8. CASE Sent
  <2>1. PICK g : SentOut(g)
    BY <1>8 DEF Sent
  <2>2. f = g /\ Tail(toNode) = <<>> /\ f.type = "encap" /\ SentOut(f)
    BY <2>1, Short DEF SentOut
  <2>3. f \in Encaps(eis) /\ d.span \in Spans(eis)
    BY <1>3, <2>2, FrameTypes, DecodedSpanType, Parties
  <2>4. after \in Managers(eis) /\ after.span = d.span
    BY <1>3, <2>3, StoredManager
  <2>5. /\ wants' = wants
        /\ ~d.ok => NodeSendsNonce(after)
        /\ d.ok => accepted' = [accepted EXCEPT !["node"] = Append(@, [cmd |-> f.cmd, nonce |-> f.nonce])]
        /\ d.ok /\ f.cmd.kind = "get" =>
             NodeSends(after, [id |-> f.cmd.id, kind |-> "response"], Take("node"))
        /\ d.ok /\ f.cmd.kind # "get" =>
             mgr' = [mgr EXCEPT !["node"] = after] /\ channel' = Take("node")
    BY <1>4, <2>2, ReceiveSteps
  <2>6. /\ d.ok => d.span.type = "span" /\ d.span.seed = ctrl.seed /\ d.span.k = ctrl.k
        /\ Ahead(ctrl.k) => ~d.ok
    BY <2>2, <2>3, NodeDecodes DEF SentOut
  <2>7. tx.try = 2 => d.ok
    BY <2>2, NodeDecodesOpening DEF SentOut
  <2> HIDE DEF d, after
  <2>8. CASE ~d.ok
    <3>1. PICK r : toCtrl' = Append(toCtrl, NonceReport(r, node'.ei))
      BY <2>4, <2>5, <2>8, NodeAnswersNonce
    <3>2. node'.type = "localEI" /\ toNode' = <<>>
      BY <2>2, <2>4, <2>5, <2>8, NodeAnswersNonce
    <3>3. PICK x : x = NonceReport(r, node'.ei)
      OBVIOUS
    <3>4. Coming(x)'
      BY <1>2, <1>6, <1>8, <3>1, <3>3, ClearThenComing DEF Sent
    <3>5. tx'.try = 1 /\ tx'.step = "sent"
      BY <1>2, <1>8, <2>7, <2>8, TxTypes DEF Sent
    <3>6. Failed'
      BY <3>2, <3>3, <3>4, <3>5 DEF Failed, NonceReport
    <3> QED
      BY <1>2, <1>3, <2>5, <3>6 DEF Phase, Nothing
  <2>9. CASE d.ok
    <3>1. f.cmd \in Commands("node")'
      <4> DEFINE a == [cmd |-> f.cmd, nonce |-> f.nonce]
      <4>1. a.cmd = f.cmd
        OBVIOUS
      <4> HIDE DEF a
      <4> QED
        BY <2>5, <2>9, <4>1, Parties, Accumulate DEF a
    <3>2. f.cmd.id = tx.id /\ f.cmd.kind = tx.kind /\ tx.kind \in {"set", "get"}
      BY <2>2, TxTypes DEF SentOut
    <3>3. Told(tx.id)'
      BY <1>2, <3>1, <3>2 DEF Told
    <3>4. toCtrl = <<>>
      BY <2>2, <2>6, <2>9 DEF SentOut
    <3>5. CASE tx.kind = "get"
      <4> DEFINE c == [id |-> f.cmd.id, kind |-> "response"]
                 x == Encoded(after, c, Nothing)
      <4>1. NodeSends(after, c, Take("node"))
        BY <2>5, <2>9, <3>2, <3>5
      <4>2. IsEncoded(x, after, c, Nothing)
        BY <2>4, EncodedIs
      <4> PICK g2 : g2 = x.frame
        OBVIOUS
      <4>3. c.kind = "response"
        OBVIOUS
      <4>4. channel' = [Take("node") EXCEPT !["ctrl"] = Append(@, g2)]
        BY <4>1 DEF NodeSends
      <4> HIDE DEF x, c
      <4>5. /\ g2.type = "encap" /\ g2.cmd.kind = "response" /\ g2.ei = Nothing
            /\ g2.nonce = Nonce(ctrl.seed, ctrl.k)
        BY <2>4, <2>6, <2>9, <4>2, <4>3 DEF IsEncoded
      <4>6. toNode' = <<>> /\ toCtrl' = <<g2>>
        BY <2>2, <3>4, <4>4, ChannelsAfter, Short
      <4>7. Response(g2)'
        BY <1>2, <2>2, <4>5 DEF Response, SentOut, Nothing
      <4>8. parsed' = <<>> \/ \E y : IsEvent(y) /\ parsed' = <<y>>
        BY <1>2, <1>8 DEF Sent, Clear, Empty
      <4>9. Answering'
        BY <1>2, <1>8, <3>3, <3>5, <4>6, <4>7, <4>8 DEF Answering, Sent, IsEvent
      <4> QED
        BY <1>2, <1>3, <2>5, <4>9 DEF Phase, Nothing
    <3>6. CASE tx.kind = "set"
      <4>1. toNode' = <<>> /\ toCtrl' = toCtrl
        BY <2>2, <2>5, <2>9, <3>2, <3>6, ChannelsAfter
      <4>2. Clear'
        BY <1>2, <1>6, <1>8, <4>1, ClearStays DEF Sent
      <4>3. Received'
        BY <1>2, <1>8, <3>3, <3>6, <4>1, <4>2 DEF Received, Sent
      <4> QED
        BY <1>2, <1>3, <2>5, <4>3 DEF Phase, Nothing
    <3> QED
      BY <3>2, <3>5, <3>6
  <2> QED
    BY <2>8, <2>9
<1>9. Asked \/ Sent
  BY <1>3 DEF Phase, Asking, Answered, Agreed, Ready, Failed, Answering, Received
<1> QED
  BY <1>7, <1>8, <1>9

LEMMA NextCalm ==
    ASSUME IInv, Calm, Ended, NoneMistaken, [Next]_vars
    PROVE  Calm' /\ Ended'
<1>1. CASE UNCHANGED vars
  <2>1. /\ ctrl' = ctrl /\ node' = node /\ toCtrl' = toCtrl /\ toNode' = toNode
        /\ mgr' = mgr /\ parsed' = parsed /\ tx' = tx /\ last' = last /\ replies' = replies
        /\ wants' = wants /\ accepted' = accepted
    BY <1>1 DEF vars, ctrl, node, toCtrl, toNode
  <2>2. Ended'
    BY <2>1, SameCommands, EndedStays
  <2>3. ASSUME NEW x
        PROVE  /\ Event(x)' <=> Event(x)
               /\ Response(x)' <=> Response(x)
               /\ SentOut(x)' <=> SentOut(x)
               /\ Told(x)' <=> Told(x)
    <3>1. Event(x)' <=> Event(x)
      BY <2>1 DEF Event, NextTo
    <3>2. Response(x)' <=> Response(x)
      BY <2>1 DEF Response
    <3>3. SentOut(x)' <=> SentOut(x)
      BY <2>1 DEF SentOut, Opens, Ahead
    <3>4. Told(x)' <=> Told(x)
      BY <2>1 DEF Told, Commands
    <3> QED
      BY <3>1, <3>2, <3>3, <3>4
  <2>4. Clear' <=> Clear
    BY <2>1, <2>3 DEF Clear, Empty
  <2>5. ASSUME NEW x PROVE (Coming(x)' <=> Coming(x)) /\ (Here(x)' <=> Here(x))
    BY <2>1, <2>3 DEF Coming, Here
  <2>6. Calm'
    <3>1. /\ Asking' <=> Asking
          /\ Asked' <=> Asked
          /\ Answered' <=> Answered
      BY <2>1 DEF Asking, Asked, Answered, Empty
    <3>2. /\ Agreed' <=> Agreed
          /\ Ready' <=> Ready
      BY <2>1, <2>4 DEF Agreed, Ready, Empty, Ahead
    <3>3. /\ Sent' <=> Sent
          /\ Received' <=> Received
      BY <2>1, <2>3, <2>4 DEF Sent, Received
    <3>4. Failed' <=> Failed
      <4>1. \A q : Coming(NonceReport(q, node.ei))' <=> Coming(NonceReport(q, node.ei))
        BY <2>1 DEF Coming, Event, NextTo
      <4>2. Here(Report(node.ei))' <=> Here(Report(node.ei))
        BY <2>1 DEF Here
      <4> QED
        BY <2>1, <4>1, <4>2 DEF Failed
    <3>5. Answering' <=> Answering
      BY <2>1, <2>3, <2>5 DEF Answering
    <3> QED
      BY <2>1, <3>1, <3>2, <3>3, <3>4, <3>5 DEF Calm, Phase
  <2> QED
    BY <2>2, <2>6
<1>2. ASSUME NEW kind \in {"set", "get"}, Begin(kind) PROVE Calm' /\ Ended'
  BY <1>2, BeginCalm
<1>3. ASSUME NEW p \in Party, Twice(p) PROVE Calm' /\ Ended'
  BY <1>3, TwiceCalm
<1> QED
  BY <1>1, <1>2, <1>3, RequestNonceCalm, NonceGetFailsCalm, SendCommandCalm, CannotEncodeCalm,
     SendingFailsCalm, ResendCalm,
     NothingComesCalm, ParseCalm, HandleNonceGetCalm, HandleNonceReportCalm, HandleCommandCalm,
     QueueCalm, NodeReceivesCalm, NodeEventCalm DEF Next

(* A transaction that is not disturbed succeeds, and the node decodes its  *)
(* command, whatever state earlier transactions have left the two sides in *)
(* (secureMessageGeneratorS2 in MessageGenerators.ts: one more try after a *)
(* nonce report), provided that no sequence number is taken for that of a  *)
(* duplicate, which takes some 255 lost frames in a row.                   *)
THEOREM UndisturbedSucceeds == Spec /\ []NoneMistaken => []SelfHeals
<1>1. Init => Calm /\ Ended
  BY DEF Init, Calm, Ended, Idle
<1>2. IInv /\ Calm /\ Ended /\ NoneMistaken /\ [Next]_vars => Calm' /\ Ended'
  BY NextCalm
<1>3. Ended => SelfHeals
  BY DEF Ended, Underway, SelfHeals, toNode
<1> QED
  BY <1>1, <1>2, <1>3, Invariance, PTL DEF Spec
=============================================================================
