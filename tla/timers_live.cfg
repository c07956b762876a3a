CONSTANTS
    Requests = {r1, k1, k2}
    TickRequests = {k1, k2}
    TimerIds = {t1, t2}
    MaxSurplus = 1
    MaxOverwritten = 1
    None = None
    CQEntries = 1
    RefuseWhenBacklogged = TRUE
SPECIFICATION TimersFairSpec
PROPERTY ArmedTimerFires
