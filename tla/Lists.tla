-------------------------------- MODULE Lists --------------------------------
(***************************************************************************)
(* What several parts of the driver do with a list: keep some of its       *)
(* entries.  A recursive function, so that it can be proved about.         *)
(***************************************************************************)
EXTENDS Naturals, Sequences

(* What is in S, in the order of the list.                                 *)
Only(list, S) ==
    LET found[i \in 0..Len(list)] ==
          IF i = 0 THEN <<>>
          ELSE IF list[i] \in S THEN Append(found[i - 1], list[i]) ELSE found[i - 1]
    IN  found[Len(list)]
=============================================================================
