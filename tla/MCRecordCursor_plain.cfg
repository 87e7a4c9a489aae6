\* A plain store scanned by a forward and a reverse cursor that yield between
\* calls; one writer transaction inserting, updating, deleting, truncating
\* and rolling back records with ids 1..3.
CONSTANTS
    Txns = {t1}
    NoTxn = NoTxn
    Lens = {1}
    Vals = {1}
    MaxId = 3
    MaxBatch = 1
    MaxChanges = 1
    IsCapped = FALSE
    CappedMaxSize <- NoLimit
    CappedMaxDocs <- NoLimit
    IsOplog = FALSE
    CallbackMayVeto = FALSE
    XLock = TRUE
    Cursors = {fwd, rev}
    ForwardCursors = {fwd}
SPECIFICATION CursorSpec
INVARIANTS
    CursorTypeOK
PROPERTIES
    ScanOrderedAndComplete
