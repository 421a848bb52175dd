SPECIFICATION FairSpec
CONSTANTS
    Nodes = {n1, n2, n3}
    NumViable = 1
    Nil = Nil
    Garbage = Garbage
INVARIANTS
    FoundIfFits
    AnswerIsRight
PROPERTIES
    CallReturns
CHECK_DEADLOCK FALSE
