\* A plain store written by two transactions that are not serialized by the
\* collection lock (only the store mutex, per primitive, as spec.md §5 says).
CONSTANTS
    Txns = {t1, t2}
    NoTxn = NoTxn
    Lens = {1}
    Vals = {1}
    MaxId = 2
    MaxBatch = 1
    MaxChanges = 2
    IsCapped = FALSE
    CappedMaxSize <- NoLimit
    CappedMaxDocs <- NoLimit
    IsOplog = FALSE
    CallbackMayVeto = FALSE
    XLock = FALSE
SPECIFICATION Spec
SYMMETRY TxnSymmetry
PROPERTY
    RollbackFindsItsRecord
