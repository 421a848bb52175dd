SPECIFICATION FairSpec
CONSTANTS
    p1 = p1  p2 = p2  p3 = p3  s1 = s1  s2 = s2  s3 = s3
    Pods = {p1, p2}
    Schedulers = {s1}
    Coordinator = Coordinator
    Retry = Retry
    Kind <- MCKind
    Wanted <- MCWanted
    MaxBackOff = 2
    None = None
    Crashable = {}
    Breakable = {}
    MaxFaults = 0
    MaxCreated = 1
    Deletable = {p1, p2}
    ApiErrors = FALSE
PROPERTIES EveryPodSettles
CHECK_DEADLOCK FALSE
