\* spec.md §5 concurrency: two transactions on a capped store (3 bytes,
\* 2 documents) not serialized by a collection lock; each primitive and each
\* Change rollback is atomic under the store mutex.
CONSTANTS
    Txns = {t1, t2}
    NoTxn = NoTxn
    Lens = {1, 2}
    Vals = {1, 2}
    MaxId = 4
    MaxBatch = 2
    MaxChanges = 2
    IsCapped = TRUE
    CappedMaxSize = 3
    CappedMaxDocs = 2
    IsOplog = FALSE
    CallbackMayVeto = FALSE
    XLock = FALSE
SPECIFICATION Spec
SYMMETRY TxnSymmetry
INVARIANT
    CappedBound
