SPECIFICATION Spec
CONSTANTS
  Nodes = {a, b}
  DSKs = {a}
  MaxAttempts = 2
  Strategies <- AllStrategies
  Refusable <- Commands
  RemoveAnytime = FALSE
  MaxTasks = 1
  MaxCalls = 1
  MaxFaults = 1
INVARIANTS
  WaitingIsActive
CHECK_DEADLOCK FALSE
