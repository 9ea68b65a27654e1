SPECIFICATION Spec
CONSTANTS
    d1 = d1
    u1 = u1
    Uploads = {u1, u2}
    Documents = {d1}
    DocumentOf <- OneDocument
    Declaring = {u1}
    Contents = {c1, c2}
    Blobs = {b1, b2}
    Requests = {r1, r2}
    Nothing = nothing
SYMMETRY Alike
INVARIANTS
    FilesAgree
    OneLiveCopy
    ArchiveIsWhole
    ReportIsTrue
    RestoredIsWhole
PROPERTIES
    SavedOriginalIsFinal
    MaintenanceIsSafe
CHECK_DEADLOCK FALSE
