SPECIFICATION FairSpec
CONSTANTS
    Subjects <- TwoSubjects
    SubjectSets <- OneOrTwo
    Messages = TRUE
    MaxDrops = 1
    MaxErrors = 1
    MaxResets = 1
    s1 = s1
    s2 = s2
INVARIANTS
    TypeOK
    OneProcessor
    ShutdownLeavesNothing
PROPERTIES
    LiveUnlessStuck
    StopsUnlessStuck
CHECK_DEADLOCK FALSE
