\* newNonCappedRecordStore(), one operation context at a time, the ten
\* records of Cursor1 (ids 1..10, all in one unit of work).  A test stops
\* after its last line, so deadlock is not an error.
CONSTANTS
    Txns = {t1}
    NoTxn = NoTxn
    Lens = {1, 2}
    Vals <- TestVals
    MaxId = 10
    MaxBatch = 1
    MaxChanges = 10
    IsCapped = FALSE
    CappedMaxSize <- NoLimit
    CappedMaxDocs <- NoLimit
    IsOplog = FALSE
    CallbackMayVeto = FALSE
    XLock = TRUE
    Cursors = {fwd, rev}
    ForwardCursors = {fwd}
SPECIFICATION TestSpec
INVARIANT
    TestAssertionsHold
CHECK_DEADLOCK FALSE
