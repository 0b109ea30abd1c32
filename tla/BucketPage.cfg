SPECIFICATION Spec
CONSTANTS
    k1 = k1
    k2 = k2
    ns1 = ns1
    n1 = n1
    n2 = n2
    o1 = o1
    o2 = o2
    Keys = {k1, k2}
    NoKey = NoKey
    Namespaces = {ns1}
    NamespaceOf <- InNamespace
    Names = {n1, n2}
    NameOf <- DistinctNames
    OrgNames = {o1}
    Home <- HomeO1
    Ids = {i1, i2, i3}
    NoId = NoId
    PageLimit = 1
    External = External
    MaxUid = 1
    MaxLag = 2
    MaxFaults = 0
    SameSecond = TRUE
INVARIANTS NoOrphan
CHECK_DEADLOCK FALSE
