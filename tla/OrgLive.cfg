SPECIFICATION FairSpec
CONSTANTS
    k1 = k1
    k2 = k2
    k3 = k3
    n1 = n1
    Keys = {k1}
    NoKey = NoKey
    Names = {n1}
    NameOf <- OneName
    Ids = {i1, i2, i3}
    NoId = NoId
    External = External
    MaxUid = 2
    MaxLag = 2
    MaxFaults = 3
    SameSecond = FALSE
INVARIANTS TypeOK SparesLive ReadyHasOrg NoLostWakeup
PROPERTIES ImplementsLifecycle DeletionCompletes Converges
CHECK_DEADLOCK FALSE
