SPECIFICATION FairSpec
CONSTANTS
    Deps = {"a", "b"}
    MaxMsgs = 5
    Scenarios <- Safety
INVARIANTS
    HeldIncomplete
    CompletesOnce
PROPERTIES
    EverythingDelivered
CHECK_DEADLOCK FALSE
