------------------------ MODULE MCControllerRecovery ------------------------
(* Model values for checking ControllerRecovery with TLC.                  *)
EXTENDS ControllerRecovery

CONSTANT n1

M(k, n) == [kind |-> k, node |-> n]
Modern   == [recover |-> TRUE, softReset |-> TRUE, legacy |-> FALSE]
Legacy   == [recover |-> TRUE, softReset |-> TRUE, legacy |-> TRUE]
NoReset  == [recover |-> TRUE, softReset |-> FALSE, legacy |-> TRUE]
Disabled == [recover |-> FALSE, softReset |-> TRUE, legacy |-> FALSE]

AllOptions == {Modern, Legacy, NoReset, Disabled}
OnlyNoReset == {NoReset}

MixedMessages == {M("data", n1), M("report", n1), M("command", Controller)}

=============================================================================
