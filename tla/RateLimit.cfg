SPECIFICATION FairSpec
CONSTANTS
    Callers = {c1, c2}
    Names = {n1, n2}
    Every = 2
    NoCaller = NoCaller
    MaxTime = 6
INVARIANTS TypeOK MapIsExclusive
PROPERTIES Spaced CallReturns
CHECK_DEADLOCK FALSE
