SPECIFICATION MCFairSpec
CONSTANTS
    p1 = p1  p2 = p2  p3 = p3  s1 = s1  s2 = s2  s3 = s3
    Pods = {p1, p3}
    Schedulers = {s1, s3}
    Coordinator = Coordinator
    Retry = Retry
    Kind <- MCKind
    Wanted <- MCWanted
    MaxBackOff = 3
    None = None
    Crashable = {s1, Coordinator}
    Breakable = {Retry}
    MaxFaults = 1
    MaxCreated = 2
    Deletable = {p1}
    ApiErrors = TRUE
INVARIANTS DuplicatesNeedFaults WaitsWithinMaximum
PROPERTIES LostOnlyByFaults PodsSettleUnlessLost
CHECK_DEADLOCK FALSE
