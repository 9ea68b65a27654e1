SPECIFICATION Spec
CONSTANTS
    v1 = v1
    v2 = v2
    d1 = d1
    Documents = {d1}
    Versions = {v1, v2}
    NoVersion = none
    Executors = {e1}
    Managers = {m1}
    DocumentOf <- AllOfOne
    Heavy = {}
    Cad = {v1}
    MaxAttempts = 1
    Concurrency = 1
    LeaseTicks = 1
    MaxRevision = 3
    MaxRefunds = 1
INVARIANTS
    OnePublication
    RevisionTellsChange
    GatesHold
PROPERTIES
    WithdrawnDraftIsFrozen
    ImplementsIndex
CHECK_DEADLOCK FALSE
