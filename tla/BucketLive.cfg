SPECIFICATION FairSpec
CONSTANTS
    k1 = k1
    k2 = k2
    ns1 = ns1
    n1 = n1
    n2 = n2
    o1 = o1
    o2 = o2
    Keys = {k1}
    NoKey = NoKey
    Namespaces = {ns1}
    NamespaceOf <- InNamespace
    Names = {n1}
    NameOf <- DistinctNames
    OrgNames = {o1, o2}
    Home <- HomeO1
    Ids = {i1, i2, i3}
    NoId = NoId
    PageLimit = 3
    External = External
    MaxUid = 2
    MaxLag = 2
    MaxFaults = 3
    SameSecond = FALSE
INVARIANTS TypeOK NoLostWakeup
PROPERTIES ImplementsLifecycle DeletionCompletes Converges
CHECK_DEADLOCK FALSE
