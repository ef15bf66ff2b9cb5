SPECIFICATION Spec
CONSTANTS
    n1 = n1
    n2 = n2
    n3 = n3
    d1 = d1
    d2 = d2
    Node = {n1, n2, n3}
    Nil = Nil
    Rank <- AnyOrder
    Data = {d1}
    Thread = {th1, th2}
    Stoppable = {}
    Unreliable = {n1, n2, n3}
    MaxTerm = 1
    MaxLog = 2
    Contender <- Alone
    MaxInFlight = 2
    MaxLate = 0
SYMMETRY Symmetry
INVARIANT CommittedIsDurable
CHECK_DEADLOCK FALSE
