\* An owner that calls shutdown() and then join(), as ~DatabaseCloner does,
\* while startup() hangs at initialSyncHangBeforeListCollections and its
\* schedule then fails: one collection, one batch.
CONSTANTS
    Colls = {c1}
    Bad = Bad
    MaxBatches = 1
    MaxBatch = 1
    StopperJoins = TRUE
    c1 = c1
SPECIFICATION Spec
CHECK_DEADLOCK FALSE
PROPERTIES
    JoinReturns
