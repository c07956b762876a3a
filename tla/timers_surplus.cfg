CONSTANTS
    Requests = {r1, k1}
    TickRequests = {k1}
    TimerIds = {t1, t2}
    MaxSurplus = 1
    MaxOverwritten = 0
    None = None
    CQEntries = 2
    RefuseWhenBacklogged = FALSE
SPECIFICATION TimersSpec
INVARIANT IntervalKeepsProcessAlive
