SPECIFICATION FairSpec
CONSTANTS
  Nodes = {a, b}
  DSKs = {a}
  MaxAttempts = 2
  Strategies <- AllStrategies
  Refusable <- Commands
  RemoveAnytime = FALSE
  MaxTasks = 4
  MaxCalls = 4
  MaxFaults = 1
INVARIANTS
  TypeOK
  ModeMatches
  NodesInSync
PROPERTIES
  BusyEnds
CHECK_DEADLOCK FALSE
