SPECIFICATION Spec
CONSTANTS
    OrgKey = OrgKey
    TokenKey = TokenKey
    BucketKey = BucketKey
    OrgName = o1
    BucketName = n1
    SecretName = s1
    Namespace = ns1
    IdsOfOrgs = {i1, i2}
    IdsOfTokens = {t1, t2}
    IdsOfBuckets = {b1}
    NoKey = NoKey
    NoId = NoId
    External = External
    MaxUid = 1
    MaxLag = 1
    MaxFaults = 1
    SameSecond = FALSE
    PageLimit = 2
INVARIANTS TypeOK NothingLeftBehind
PROPERTIES ManifestApplied TeardownEnds
CHECK_DEADLOCK FALSE
