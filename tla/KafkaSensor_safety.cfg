SPECIFICATION Spec
CONSTANTS
    Pods = {w1, w2}
    TriggerParts = {"p0"}
    Triggers <- Three
    DepsOf <- ThreeDeps
    SourceOf <- Sources
    Contents <- Filtered
    Expression <- ThreeExpr
    HasAnd <- ThreeAnd
    Partitions <- HashPart
    AtLeastOnce <- ThreeAtLeastOnce
    Settings = {TRUE, FALSE}
    MaxInputs = 3
    MaxCrashes = 1
    MaxRebalances = 0
INVARIANTS
    TypeOK
    EvaluatedOnce
    PendingKept
    ActionAtMostOnce
    ActionAtLeastOnce
SYMMETRY PodSymmetry
CHECK_DEADLOCK FALSE
