SPECIFICATION Spec
CONSTANTS
    c1 = c1
    c2 = c2
    c3 = c3
    m1 = m1
    p1 = p1
    p2 = p2
    n1 = n1
    n2 = n2
    e1 = e1
    e2 = e2
    v5 = v5
    v6 = v6
    Topics = {"queue", "search", "edit", "read", "preview", "thumbnail", "native", "keys", "setup"}
    Callers = {c1, c2, c3}
    Texts = {t1, t2}
    Short = {t1}
    MaxPending = 2
    Versions = {a, b}
    ByWord = {a}
    MaxParses = 2
    MaxChanges = 2
    Searchers = {c1}
    Targets = {m1, p1, p2, n1, n2}
    Thumbnails = {n1, n2}
    ManifestOf <- Pages
    Memory = 1
    MaxJobs = 1
    Children = {k1, k2, k3}
    MaxTime = 1
    MaxRestarts = 1
    Readers = {e1, e2}
    Ranges = 2
    Parsers = {v5, v6}
    ParserOf <- Releases
    Compatible <- Alike
    MaxRetries = 1
    Developers = {x1, x2}
    Operator = operator
    Profiles = {primary, fallback}
    Models = {f1, f2}
    MaxKeys = 3
    MaxMaterials = 2
    Nothing = nothing
    Installers = {i1, i2}
    MaxInterrupts = 3
INVARIANTS
    LineMoves
    WholeUnlessOverlap
    PagesAreTheDocument
    CredentialsFit
PROPERTIES
    EveryQueryReturns
    EveryAnswerIsCurrent
    SavedEditIsShown
    KeysAreKept
    SetupContinues
CHECK_DEADLOCK FALSE
