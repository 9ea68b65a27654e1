SPECIFICATION FairSpec
CONSTANTS
    a = a
    b = b
    Modes = {"managed", "direct"}
    Kinds = {"pdf", "word", "excel", "image"}
    Primary <- OnePrimary
    Fallback <- OneFallback
    RestTicks = 2
    DailyLimit <- ShareByMode
    MaxNow = 2
    Regions = {r1, r2, f1}
    Layouts = {{r1, r2}, {r1, f1}, {r1}}
    Drawings = {r1}
    Fields = {f1}
    PassLimit = 1
    SplitLevel = 1
    TopLevel = 2
    MaxDepth = 1
    MaxTrouble = 2
    MaxCrashes = 1
INVARIANTS
    ReadyIsRead
    PdfWaitsForRecovery
    HalvedWhenCutOff
PROPERTIES
    FailoverWindowFixed
    EveryFileEnds
CHECK_DEADLOCK FALSE
