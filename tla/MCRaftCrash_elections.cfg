SPECIFICATION CrashSpec
CONSTANTS
    n1 = n1
    n2 = n2
    n3 = n3
    Node = {n1, n2, n3}
    Nil = Nil
    Rank <- AnyOrder
    Data = {d1}
    Thread = {th1}
    Stoppable = {}
    Unreliable = {n1, n2, n3}
    MaxTerm = 1
    MaxLog = 0
    Contender <- Rivals
    MaxInFlight = 1
    MaxLate = 0
    MaxRestarts = 1
INVARIANT ElectionSafety
CHECK_DEADLOCK FALSE
