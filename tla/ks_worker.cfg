SPECIFICATION Spec
CONSTANTS
    v1 = v1
    v2 = v2
    d1 = d1
    Documents = {v1, v2}
    Versions = {v1, v2}
    NoVersion = none
    Executors = {e1, e2}
    Managers = {}
    DocumentOf <- EachItsOwn
    Heavy = {}
    Cad = {}
    MaxAttempts = 2
    Concurrency = 1
    LeaseTicks = 1
    MaxRevision = 0
    MaxRefunds = 1
SYMMETRY AnyJob
INVARIANTS
    IndexInv
    ExclusiveClaim
    SlotsRespected
    AttemptsCount
CHECK_DEADLOCK FALSE
