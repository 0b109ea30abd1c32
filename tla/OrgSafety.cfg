SPECIFICATION Spec
CONSTANTS
    k1 = k1
    k2 = k2
    k3 = k3
    n1 = n1
    Keys = {k1, k2, k3}
    NoKey = NoKey
    Names = {n1, "influxdata"}
    NameOf <- SharedNames
    Ids = {i1, i2, i3}
    NoId = NoId
    External = External
    MaxUid = 1
    MaxLag = 2
    MaxFaults = 1
    SameSecond = TRUE
INVARIANTS Inv NoOrphan
PROPERTIES PhaseForward DefaultOrgSpared
CHECK_DEADLOCK FALSE
SYMMETRY IdSymmetry
