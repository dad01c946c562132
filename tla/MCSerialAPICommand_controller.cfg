SPECIFICATION Spec
CONSTANTS
  c1 = c1
  c2 = c2
  c3 = c3
  Cmd = {c1, c2, c3}
  NoCmd = NoCmd
  Kind <- ControllerKinds
  MaxAttempts = 2
  MaxAborts = 0
  MaxResets = 1
  MaxWire = 2
  MayDestroy = TRUE
INVARIANTS
  TypeOK
  QueueConsistent
  ResponseIsOwnOrLate
PROPERTIES
  ImplementsQueue
CHECK_DEADLOCK FALSE
