\* Three collections and a rejected info, listed in up to three batches of
\* up to two infos: empty databases, two getMores, duplicates across
\* batches, parse errors after good infos, clones of up to three
\* collections (so a cloner is started from a cloner's callback twice), and
\* a shutdown at any point.
CONSTANTS
    Colls = {c1, c2, c3}
    Bad = Bad
    MaxBatches = 3
    MaxBatch = 2
    StopperJoins = FALSE
    c1 = c1
    c2 = c2
    c3 = c3
SPECIFICATION Spec
\* The cloner and its caller stop once join() has returned.
CHECK_DEADLOCK FALSE
INVARIANTS
    FinishAssertHolds
    OkMeansAllCloned
PROPERTIES
    JoinReturns
    ImplementsLifecycle
