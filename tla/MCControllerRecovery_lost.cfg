SPECIFICATION Spec
CONSTANTS
  n1 = n1
  Node = {n1}
  Controller = Controller
  Messages <- MixedMessages
  MaxMessages = 2
  MaxAttempts = 2
  MaxJammed = 2
  MaxPolls = 2
  MaxFaults = 3
  Faults <- AllFaults
  Options <- OnlyNoReset
INVARIANTS
  HandledOrRejected
CHECK_DEADLOCK FALSE
