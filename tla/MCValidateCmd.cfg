\* Three validators over two collections, a view and a missing namespace:
\* two of them can contend for one collection while the third runs on the
\* other or fails.
CONSTANTS
    Threads = {t1, t2, t3}
    Colls = {c1, c2}
    Views = {v}
    Missing = {m}
    t1 = t1
    t2 = t2
    t3 = t3
    c1 = c1
    c2 = c2
    v = v
    m = m
SPECIFICATION Spec
INVARIANT
    ValidateNeverWaits
PROPERTY
    EveryValidateReturns
