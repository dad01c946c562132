SPECIFICATION Spec
CONSTANTS
  DecryptAttempts = 2
  FirstSeq = 254
  MaxTransactions = 2
  MaxEvents = 1
  MaxFaults = 1
  MaxOthers = 1
  Faults <- AllFaults
INVARIANTS
  TypeOK
  NonceOnce
  AcceptedOnce
  SelfHeals
  CrossingIsTolerated
CHECK_DEADLOCK FALSE
