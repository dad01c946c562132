SPECIFICATION Spec
CONSTANTS
  Size = 4
  SegmentSize = 2
  MaxDatagrams = 1
  MaxAttempts = 1
  MaxLink = 1
  MaxFaults = 1
INVARIANTS
  AcknowledgedIsAssembled
CHECK_DEADLOCK FALSE
