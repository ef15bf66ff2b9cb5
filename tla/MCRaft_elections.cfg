SPECIFICATION Spec
CONSTANTS
    n1 = n1
    n2 = n2
    n3 = n3
    d1 = d1
    d2 = d2
    Node = {n1, n2, n3}
    Nil = Nil
    Rank <- AnyOrder
    Data = {d1}
    Thread = {th1}
    Stoppable = {n1}
    Unreliable = {n1, n2, n3}
    MaxTerm = 2
    MaxLog = 0
    Contender <- Rivals
    MaxInFlight = 1
    MaxLate = 1
SYMMETRY Symmetry
INVARIANTS TypeOK ElectionSafety LeaderIdWasElected
CHECK_DEADLOCK FALSE
