SPECIFICATION FairSpec
CONSTANTS
    MaxTime = 4
    Excluded = {2}
    Configs <- AllConfigs
    Faults <- AllFaults
    Budgets <- TwoOrThree
INVARIANTS
    NoneSkipped
    PublishedOnce
PROPERTIES
    EventuallyPublished
    StopsUnlessBusDown
CHECK_DEADLOCK FALSE
