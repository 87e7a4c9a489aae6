\* The main thread and one other, one name: enough for two calls of get()
\* to race on the lazily created mutex, map and RamLog, and for getNames()
\* to run while the other thread writes to or clears that RamLog.
\* Its ring has 2 lines of 3 bytes: five writes wrap it past its last slot
\* twice, strings of length 3 are cut to 2 bytes, and two tags tell the
\* lines' order apart.
\* repeats() is checked on every vector of up to 9 lines over 3 texts: the
\* 7-line window, a block that runs off the end, and a nearer partial match.
CONSTANTS
    Threads = {main, w}
    Main = main
    Names = {a}
    MaxObjects = 2
    main = main
    w = w
    a = a
    N = 2
    C = 3
    Tags = {p}
    Lengths = {1, 3}
    MaxWrites = 5
    p = p
    Texts = {x, y, z}
    MaxLines = 9
    x = x
    y = y
    z = z
SPECIFICATION Spec
INVARIANT
    TypeOK
    RingHoldsLastWrites
    RepeatsCorrect
    OneLogPerName
PROPERTY
    GetIfExistsFindsEarlierGet
