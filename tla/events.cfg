CONSTANTS
    Names = {"a"}
    Functions = {f}
    Wrappers = {w1, w2}
    NoWrapper = NoWrapper
    MaxCalls = 2
    MaxAdds = 4
    MaxThrows = 1
SPECIFICATION Spec
INVARIANTS
    TypeOK
    CountIsExact
    OnceRunsOnce
    NoneAreLeft
    SettledLeavesNothing
PROPERTY ImplementsContract
SYMMETRY WrapperSymmetry
