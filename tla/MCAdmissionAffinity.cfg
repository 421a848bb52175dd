SPECIFICATION Spec
CONSTANTS
    p1 = p1
    p2 = p2
    p3 = p3
    n1 = n1
    n2 = n2
    Pods = {p1, p2, p3}
    Nodes = {n1, n2}
    Computed = {"cpu"}
    Scalar = {"gpu"}
    AnyIP = "0.0.0.0"
    NoIP = ""
    Nil = Nil
    PodShapes <- MCPodShapes
    NodeShapes <- MCNodeShapes
    Wirings = {FALSE}
INVARIANT ExistingPodsKeepAway
