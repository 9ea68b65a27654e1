SPECIFICATION Spec
CONSTANTS
    d1 = d1
    u1 = u1
    Uploads = {u1}
    Documents = {d1}
    DocumentOf <- OneDocument
    Declaring = {u1}
    Contents = {c1}
    Blobs = {b1, b2}
    Requests = {r1}
    Nothing = nothing
SYMMETRY Alike
INVARIANT
    DeletionLeavesTrace
CHECK_DEADLOCK FALSE
