SPECIFICATION SpecAdmission
CONSTANTS
    k1 = k1
    ns1 = ns1
    n1 = n1
    o1 = o1
    o2 = o2
    d1 = d1
    d2 = d2
    Keys = {k1}
    NoKey = NoKey
    Namespaces = {ns1}
    NamespaceOf <- InNamespace
    Names = {n1}
    NameOf <- OneName
    OrgNames = {o1, o2}
    Home <- HomeO1
    Ids = {i1, i2, i3}
    NoId = NoId
    PageLimit = 3
    External = External
    Requests <- SomeRequests
    NoSpec = NoSpec
    MaxUid = 2
    MaxLag = 2
    MaxFaults = 3
    SameSecond = TRUE
INVARIANTS NoOrphan SparesLive RetentionAgrees ReadyHasBucket
PROPERTIES PhaseForward
CHECK_DEADLOCK FALSE
SYMMETRY IdSymmetry
