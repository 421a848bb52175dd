SPECIFICATION MCSpec
CONSTANTS
    Parts = {"choice"}
    n1 = n1  n2 = n2  n3 = n3  n4 = n4  p1 = p1  p2 = p2  p3 = p3
    z1 = z1  z2 = z2  z3 = z3
    port = port
    None = None  Nothing = Nothing  Broken = Broken  Unknown = Unknown
    Worlds <- MCChoices
    Jobs = {p1, p2}  NodeNames = {1, 2, 3}  NoJob = NoJob
    Settings <- MCJobs
    NoNode = NoNode
    Null = Null
    Names = {n1, n2, n3, n4}
    Zones = {z1, z2, z3}
    Images = {}
    PodKeys = {p1, p2}
    Ports = {port}
    HostPort <- NoPorts
    Affinity = {p1}
    TTL = 1
    MaxGeneration = 4
    MaxReplicas = 2  MaxVersion = 3  MinimumAmtOfData = 1
    Readings <- MCReadings
CHECK_DEADLOCK FALSE
PROPERTY OthersAnswered
