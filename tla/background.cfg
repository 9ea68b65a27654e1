SPECIFICATION SpecOfBoth
CONSTANTS
    Labels = {l1}
    Numbers = {n1, n2}
    MaxProjects = 2
    None = none
    Drafts = {d1, d2}
    Namers = {w1, w2}
    Reviewers = {r1}
    MaxTrouble = 1
    MaxReviews = 1
    Documents = {v1, v2}
    Versions = {v1, v2}
    NoVersion = none
    Executors = {e1, e2}
    Managers = {}
    DocumentOf <- EachItsOwn
    Heavy = {}
    Cad = {}
    MaxAttempts = 1
    Concurrency = 1
    LeaseTicks = 1
    MaxRevision = 0
    MaxRefunds = 1
INVARIANTS
    OneProjectPerName
PROPERTIES
    ApprovedNameStays
    EveryDraftIsNamed
    EveryJobSettles
CHECK_DEADLOCK FALSE
