CONSTANTS
    Requests = {r1, r2, r3}
    None = None
    CQEntries = 1
    RefuseWhenBacklogged = TRUE
SPECIFICATION FairSpec
PROPERTIES
    PostedIsDispatched
    RefusedIsRetried
