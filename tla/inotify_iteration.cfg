CONSTANTS
    Requests = {r1}
    WatchIds = {w1}
    FuncIds = {f1, f2}
    EventSize = 16
    MaxEvents = 1
    None = None
    CQEntries = 1
    RefuseWhenBacklogged = TRUE
SPECIFICATION InotifySpec
INVARIANT LoopStaysInside
