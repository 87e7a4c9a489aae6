\* A capped store (3 bytes, 2 documents) with a vetoing capped callback,
\* two transactions serialized by the collection lock; the store refines the
\* transactional promise through vetoes, evictions and rollbacks.
CONSTANTS
    Txns = {t1, t2}
    NoTxn = NoTxn
    Lens = {1, 2}
    Vals = {1, 2}
    MaxId = 4
    MaxBatch = 2
    MaxChanges = 2
    IsCapped = TRUE
    CappedMaxSize = 3
    CappedMaxDocs = 2
    IsOplog = FALSE
    CallbackMayVeto = TRUE
    XLock = TRUE
SPECIFICATION Spec
SYMMETRY TxnSymmetry
INVARIANTS
    TypeOK
    DataSizeConsistent
    CappedBound
    CappedEvictsOldestFirst
PROPERTIES
    TxnRefinement
