SPECIFICATION FairSpec
CONSTANTS
  n1 = n1
  n2 = n2
  Node = {n1, n2}
  Controller = Controller
  NodeKind <- MixedKinds
  Messages <- SetMessages
  MaxMessages = 3
  MaxAttempts = 2
  MaxQueueAttempts = 2
  MaxResets = 0
  Events = {"busy"}
INVARIANTS
  HandledWhenSettled
PROPERTIES
  EveryMessageSettlesOrWaits
CHECK_DEADLOCK FALSE
