SPECIFICATION Spec
CONSTANTS
    p1 = p1  p2 = p2  n1 = n1  n2 = n2  ca = ca  cb = cb  cc = cc  v1 = v1  v2 = v2  v3 = v3
    Pods = {p1, p2}
    Nodes = {n1, n2}
    Claims = {ca, cb, cc}
    Volumes = {v1, v2, v3}
    Worlds <- MCWorlds
    VolumeSpec <- MCVolumeSpec
    ClaimSpec <- MCClaimSpec
    ClassSpec <- MCClassSpec
    NodeLabels <- MCNodeLabels
    Classes = {"local", "fast"}
    NoClass = NoClass  Nil = Nil
    MaxTrouble = 1  MaxVersion = 3
INVARIANTS NoAssumptionLeaks
PROPERTIES BoundVolumesReachable ClaimRefsNotStolen CachesShowAssumedView
CHECK_DEADLOCK FALSE
