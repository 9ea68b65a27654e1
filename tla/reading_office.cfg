SPECIFICATION Spec
CONSTANTS
    a = a
    b = b
    Modes = {"managed"}
    Kinds = {"word"}
    Primary <- OnePrimary
    Fallback <- OneFallback
    RestTicks = 2
    DailyLimit <- ShareByMode
    MaxNow = 2
    Regions = {r1, r2}
    Layouts = {{r1, r2}}
    Drawings = {r1}
    Fields = {}
    PassLimit = 1
    SplitLevel = 1
    TopLevel = 2
    MaxDepth = 1
    MaxTrouble = 2
    MaxCrashes = 1
INVARIANTS
    WaitsForRecovery
CHECK_DEADLOCK FALSE
