------------------------- MODULE MCSerialAPICommand -------------------------
(* Model values for checking SerialAPICommand with TLC.                    *)
EXTENDS SerialAPICommand

CONSTANTS c1, c2, c3

(* Two commands that share a function type, and one with another type that *)
(* also gets a callback.                                                   *)
ControllerKinds == c1 :> "response" @@ c2 :> "response" @@ c3 :> "responseCallback"

(* A SendData command, one with progress callbacks, and one that is not    *)
(* acknowledged.                                                           *)
LivenessKinds == c1 :> "sendData" @@ c2 :> "callback" @@ c3 :> "noAck"
=============================================================================
