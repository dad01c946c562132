---------------------------- MODULE MCInclusion ----------------------------
(***************************************************************************)
(* Instances of Inclusion for TLC.                                         *)
(***************************************************************************)
EXTENDS Inclusion

AllStrategies == {"excludeOnly", "disable", "unprovision"}

Commands == {"listen", "stopListen", "add", "addDSK", "stopAdd", "remove", "stopRemove",
             "finish", "stopNoCallback", "removeFailed", "replaceFailed"}
=============================================================================
