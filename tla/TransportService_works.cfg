SPECIFICATION FairSpec
CONSTANTS
  Size = 6
  SegmentSize = 2
  MaxDatagrams = 2
  MaxAttempts = 2
  MaxLink = 1
  MaxFaults = 2
INVARIANTS
  TypeOK
  CompleteWasReceived
  AssembledIsWhole
  AssembledOncePerSession
PROPERTIES
  EverythingEnds
CHECK_DEADLOCK FALSE
