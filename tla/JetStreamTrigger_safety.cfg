SPECIFICATION Spec
CONSTANTS
    NumDeps = 2
    Subjects = {"s1", "s2"}
    MaxMsgs = 3
    Scenarios <- Safety
INVARIANTS
    TypeOK
    AckedEventsSettled
    AtMostOncePerConnection
    SavedEventsIncomplete
    ResetForgetsSaved
PROPERTIES
    ImplementsTriggerConnection
CHECK_DEADLOCK FALSE
