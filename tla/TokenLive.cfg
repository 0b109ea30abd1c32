SPECIFICATION FairSpecAdmission
CONSTANTS
    k1 = k1
    s1 = s1
    o1 = o1
    read = read
    write = write
    typo = typo
    Keys = {k1}
    NoKey = NoKey
    OrgNames = {o1}
    Home <- HomeO1
    SecretNames = {s1}
    SecretOf <- OwnSecret
    Ids = {i1, i2, i3}
    NoId = NoId
    External = External
    Requests <- SomeRequests
    Known = {read, write}
    NoSpec = NoSpec
    MaxUid = 2
    MaxLag = 2
    MaxFaults = 2
    SameSecond = TRUE
INVARIANTS TypeOK NoOrphan OneAuthorization StampsDoNotMatter
PROPERTIES ImplementsLifecycle DeletionCompletes AdmittedIsGranted
CHECK_DEADLOCK FALSE
