SPECIFICATION FairSpec
CONSTANTS
  c1 = c1
  c2 = c2
  c3 = c3
  Cmd = {c1, c2, c3}
  NoCmd = NoCmd
  Kind <- LivenessKinds
  MaxAttempts = 2
  MaxAborts = 1
  MaxResets = 1
  MaxWire = 1
  MayDestroy = FALSE
INVARIANTS
  OneHeaderWaiter
  SuccessWasAnswered
  ResponseTimeoutPreserved
  OpenJobsWereGivenUp
PROPERTIES
  EveryCommandSettles
CHECK_DEADLOCK FALSE
