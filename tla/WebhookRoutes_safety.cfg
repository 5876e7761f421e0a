SPECIFICATION FairSpec
CONSTANTS
    Listeners = {"l1", "l2"}
    Endpoints <- SharedOrNot
    Requests = {"q1", "q2"}
    Filters <- NoneOrOne
    MaxAttempts = 2
    MaxPostFailures = 2
    MaxPublishFailures = 1
INVARIANTS
    AnsweredTruthfully
PROPERTIES
    EventuallyAnswered
    AllRoutesStop
CHECK_DEADLOCK FALSE
