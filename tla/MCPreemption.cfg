SPECIFICATION Spec
CONSTANTS
    low = low  mid = mid  high = high  s1 = s1  s2 = s2
    Pods = {low, mid, high}
    Schedulers = {s1, s2}
    Computed = {"cpu", "memory"}
    Scalar = {}
    AnyIP = AnyIP  NoIP = NoIP  Nil = Nil  None = None
    Node <- MCNode
    Request <- MCRequest
    Priority <- MCPriority
    Checked = {"memory"}
    Recreated = {mid}
    Faulty = {s1, s2}
    MaxTrouble = 1
INVARIANTS ReservationsHaveHolders ReservationKept AwaitedPodsEnd
PROPERTIES EvictedForPending
CHECK_DEADLOCK FALSE
SYMMETRY Symmetry
