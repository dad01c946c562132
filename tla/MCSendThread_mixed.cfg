SPECIFICATION Spec
CONSTANTS
  n1 = n1
  n2 = n2
  Node = {n1, n2}
  Controller = Controller
  NodeKind <- MixedKinds
  Messages <- MixedMessages
  MaxMessages = 3
  MaxAttempts = 2
  MaxQueueAttempts = 1
  MaxResets = 1
  Events = {"premature", "expire", "removal"}
INVARIANTS
  TypeOK
  PendingIsOwned
  HeadOfLine
  QueueSorted
  StartsAfresh
PROPERTIES
  DeathRejectsAll
CHECK_DEADLOCK FALSE
