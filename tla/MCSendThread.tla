---------------------------- MODULE MCSendThread ----------------------------
(* Model values for checking SendThread with TLC.                          *)
EXTENDS SendThread

CONSTANTS n1, n2

M(k, n) == [kind |-> k, node |-> n]
Command == M("controller", Controller)

(* A sleeping and a listening node.                                        *)
MixedKinds == n1 :> "sleeping" @@ n2 :> "listening"
MixedMessages == {M("get", n1), M("noMoreInformation", n1), M("report", n2), M("set", n2),
                  Command}
SetMessages == {M("set", n1), M("ping", n1), M("set", n2)}
=============================================================================
