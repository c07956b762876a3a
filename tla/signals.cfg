CONSTANTS
    Requests = {r1, k1, k2}
    SignalRequests = {k1, k2}
    Operations = {"accept", "quiet"}
    SignalNumbers = {s1, s2}
    Contexts = {c1, c2}
    None = None
    CQEntries = 1
    RefuseWhenBacklogged = TRUE
    MaxLost = 2
SPECIFICATION SignalsFairSpec
INVARIANTS
    SignalsTypeOK
    ShortByLost
    OwedIsComing
    LoopDecidesWell
PROPERTY SignalIsDispatched
