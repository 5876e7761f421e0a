SPECIFICATION FairSpec
CONSTANTS
    NumDeps = 2
    Subjects = {"s1", "s2"}
    MaxMsgs = 2
    Scenarios <- Recovery
PROPERTIES
    EventuallyAcked
CHECK_DEADLOCK FALSE
