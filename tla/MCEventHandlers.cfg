SPECIFICATION HandlersSpec
CONSTANTS
    n1 = n1
    n2 = n2
    p1 = p1
    p2 = p2
    port = port
    NoNode = NoNode
    Null = Null
    Unseen = Unseen
    Gone = Gone
    Names = {n1, n2}
    Zones = {z1, z2}
    Images = {i1}
    PodKeys = {p1, p2}
    Ports <- OnePort
    HostPort <- OneUser
    Affinity = {p1}
    Removable = {n1, n2}
    AddedOn = {NoNode, n1, n2}
    MissedDeletes = TRUE
    TTL = 1
    MaxGeneration = 6
SYMMETRY NodesAlike
INVARIANTS
    CountedAtMostOnce
    ChargedPodsAreBound
    CachedPodMatchesInformer
    NodesMatchInformer
    PortsHaveUsers
PROPERTIES
    SnapshotHasLength
