SPECIFICATION FairSpec
CONSTANTS
    Msgs = {1, 2}
    Triggers <- AllKinds
    MaxCrashes = 1
INVARIANTS
    AckedMeansExecuted
    CountedOnce
PROPERTIES
    EveryMessageAcked
CHECK_DEADLOCK FALSE
