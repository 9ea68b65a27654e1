SPECIFICATION Spec
CONSTANTS
    v1 = v1
    v2 = v2
    d1 = d1
    Documents = {v1}
    Versions = {v1}
    NoVersion = none
    Executors = {e1, e2}
    Managers = {}
    DocumentOf <- EachItsOwn
    Heavy = {}
    Cad = {}
    MaxAttempts = 1
    Concurrency = 1
    LeaseTicks = 1
    MaxRevision = 0
    MaxRefunds = 1
PROPERTIES
    FailureIsFinal
CHECK_DEADLOCK FALSE
