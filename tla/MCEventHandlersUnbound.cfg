SPECIFICATION HandlersSpec
CONSTANTS
    n1 = n1
    n2 = n2
    p1 = p1
    p2 = p2
    port = port
    NoNode = NoNode
    Null = Null
    Unseen = Unseen
    Gone = Gone
    Names = {n1}
    Zones = {z1}
    Images = {}
    PodKeys = {p1}
    Ports <- OnePort
    HostPort <- OneUser
    Affinity = {p1}
    Removable = {}
    AddedOn = {NoNode, n1}
    MissedDeletes = FALSE
    TTL = 1
    MaxGeneration = 6

INVARIANT BoundPodIsCharged
