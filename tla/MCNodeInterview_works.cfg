CONSTANTS
    Nodes = {1, 2}
    Sleeping = {2}
    Caches <- WorksCaches
    CCs = 2
    Slots = {1, 2, 3, 4, 5}
    MaxAttempts = 2
    MaxFaults = 2
    MaxRefreshes = 1
    MaxRemovals = 1
SPECIFICATION FairSpec
CHECK_DEADLOCK FALSE
INVARIANTS
    TypeOK
    NoNodeForgotten
    CompleteIsInterviewed
PROPERTIES
    ReadyIsAnnounced
    InterviewsEnd
