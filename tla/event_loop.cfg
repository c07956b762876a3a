CONSTANTS
    Requests = {r1, r2, r3, r4}
    None = None
    CQEntries = 2
    RefuseWhenBacklogged = TRUE
SYMMETRY RequestSymmetry
SPECIFICATION Spec
INVARIANTS
    TypeOK
    PendingIsOutstanding
    CompletionQueueExact
    OneCallbackAtATime
    ListenerKeepsLoopAlive
    NeverWaitsForNothing
PROPERTY ImplementsContract
