\* An oplog (a capped store of at most 2 entries and 2 bytes, entries of 1
\* or 2 bytes, so that one insert can evict two records; ids are the keys of
\* the payloads) scanned by a forward and a reverse reader while one writer
\* inserts out of order, truncates after a point, rolls back and evicts the
\* oldest entries.
CONSTANTS
    Txns = {t1}
    NoTxn = NoTxn
    Lens = {1, 2}
    Vals = {1}
    MaxId = 3
    MaxBatch = 1
    MaxChanges = 1
    IsCapped = TRUE
    CappedMaxSize = 2
    CappedMaxDocs = 2
    IsOplog = TRUE
    CallbackMayVeto = FALSE
    XLock = TRUE
    Cursors = {fwd, rev}
    ForwardCursors = {fwd}
SPECIFICATION CursorSpec
INVARIANTS
    OplogStartHackCorrect
PROPERTIES
    ScanOrderedAndComplete
    CappedReaderSeesNoGap
