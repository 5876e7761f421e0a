SPECIFICATION Spec
CONSTANTS
    Triggers = {t1, t2}
    DepNames = {"a", "b"}
    NoConditions = ""
    Defs = {"d1", "d2"}
    Conditions <- Explicit
    VarsOf <- ExplicitVars
    Considered <- OneKind
    MaxEdits = 2
    MaxErrors = 1
INVARIANTS
    NoStaleEvents
    NoOrphanConsumers
SYMMETRY TriggerSymmetry
CHECK_DEADLOCK FALSE
