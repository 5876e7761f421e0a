SPECIFICATION FairSpec
CONSTANTS
    Subjects <- OneSubject
    SubjectSets <- One
    Messages = TRUE
    MaxDrops = 1
    MaxErrors = 0
    MaxResets = 0
    s1 = s1
    s2 = s2
PROPERTIES
    ShutdownReturns
CHECK_DEADLOCK FALSE
