SPECIFICATION Spec
CONSTANTS
    Accounts = {root, eve}
    Organizations = {o1}
    Employees = {eve}
    Maintainers = {}
    Modes = {"dingtalk"}
    Codes = {c1}
    Calls = {k1, k2}
    Grants = {g1, g2}
    Processes = {n1, n2}
    Connecting <- ClientsByMode
    RefreshTicks = 1
    MaxRevocations <- RevocationsByMode
    MaxInFlight = 1
    MaxMint = 3
    MaxNow = 2
    Nobody = nobody
PROPERTIES
    NewestEvidenceWins
CHECK_DEADLOCK FALSE
