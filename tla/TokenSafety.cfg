SPECIFICATION SpecInFlight
CONSTANTS
    k1 = k1
    s1 = s1
    o1 = o1
    o2 = o2
    Keys = {k1}
    NoKey = NoKey
    OrgNames = {o1, o2}
    Home <- HomeO1
    SecretNames = {s1}
    SecretOf <- OwnSecret
    Ids = {i1, i2, i3, i4}
    NoId = NoId
    External = External
    MaxUid = 2
    MaxLag = 1
    MaxFaults = 2
    SameSecond = FALSE
INVARIANTS NoneSurvives NoLostWakeup
PROPERTIES PhaseForward
CHECK_DEADLOCK FALSE
SYMMETRY IdSymmetry
