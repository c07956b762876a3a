CONSTANTS
    Requests = {r1, k1, k2, k3}
    TickRequests = {k1, k2, k3}
    TimerIds = {t1, t2}
    MaxSurplus = 1
    MaxOverwritten = 2
    None = None
    CQEntries = 1
    RefuseWhenBacklogged = TRUE
SYMMETRY TimersSymmetry
SPECIFICATION TimersSpec
INVARIANTS
    TimersTypeOK
    TimerAccounting
    ExitsOnlyWhenDone
    RegisteredTimerIsAlive
    SleepsOnlyIfSomethingIsLeft
PROPERTY NoCallbackAfterClear
