SPECIFICATION SpecUndisturbed
CONSTANTS
    k1 = k1
    k2 = k2
    s1 = s1
    o1 = o1
    Keys = {k1, k2}
    NoKey = NoKey
    OrgNames = {o1}
    Home <- HomeO1
    SecretNames = {s1}
    SecretOf <- SameSecret
    Ids = {i1, i2, i3}
    NoId = NoId
    External = External
    MaxUid = 1
    MaxLag = 1
    MaxFaults = 0
    SameSecond = FALSE
PROPERTIES SecretServes
CHECK_DEADLOCK FALSE
