SPECIFICATION FairSpec
CONSTANTS
    Kinds <- AllKinds
    MaxMsg = 3
    Bads <- NoneOrTwo
    Filters <- NoneOrOne
    MaxBatch = 2
    Faults <- AllFaults
    Budgets <- OneEach
INVARIANTS
    RemovedMeansPublished
    PublishedInOrder
PROPERTIES
    EventuallyPublished
CHECK_DEADLOCK FALSE
