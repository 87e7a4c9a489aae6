\* The listCollections callback that is already running when shutdown()
\* comes: one collection, one batch.
CONSTANTS
    Colls = {c1}
    Bad = Bad
    MaxBatches = 1
    MaxBatch = 1
    StopperJoins = FALSE
    c1 = c1
SPECIFICATION Spec
CHECK_DEADLOCK FALSE
PROPERTIES
    NoClonerStartsAfterShutdown
