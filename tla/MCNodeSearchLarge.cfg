SPECIFICATION Spec
CONSTANTS
    Nodes = {n1, n2, n3}
    NumViable = 1
    Nil = Nil
    Garbage = Garbage
INVARIANT RefusedForNoVictim
CHECK_DEADLOCK FALSE
