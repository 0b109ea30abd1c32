SPECIFICATION Spec
CONSTANTS
    k1 = k1
    k2 = k2
    k3 = k3
    n1 = n1
    Keys = {k1}
    NoKey = NoKey
    Names = {n1}
    NameOf <- OneName
    Ids = {i1, i2, i3}
    NoId = NoId
    External = External
    MaxUid = 1
    MaxLag = 2
    MaxFaults = 2
    SameSecond = TRUE
INVARIANTS NoLostWakeup
CHECK_DEADLOCK FALSE
