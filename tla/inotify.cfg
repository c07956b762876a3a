CONSTANTS
    Requests = {r1, r2, r3}
    WatchIds = {w1, w2}
    FuncIds = {f1, f2, f3}
    EventSize = 48
    MaxEvents = 1
    None = None
    CQEntries = 1
    RefuseWhenBacklogged = TRUE
SYMMETRY InotifySymmetry
SPECIFICATION InotifySpec
INVARIANTS
    InotifyTypeOK
    PendingIsShort
    OneReader
    WatchesAreCounted
    WatchKeepsLoopAlive
    NeverReadsPastTheBatch
PROPERTY
    ToldOnce
