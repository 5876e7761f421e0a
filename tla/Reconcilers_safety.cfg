SPECIFICATION FairSpec
CONSTANTS
    Kinds <- AllKinds
    MaxSpec = 3
    Invalid = {2}
    MaxEdits = 1
    MaxFaults = 1
INVARIANTS
    CredentialsMatch
    QuietMeansDone
    
PROPERTIES
    BusSettles
    UserSettles
CHECK_DEADLOCK FALSE
