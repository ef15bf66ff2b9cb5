SPECIFICATION Spec
CONSTANTS
    n1 = n1
    n2 = n2
    n3 = n3
    d1 = d1
    d2 = d2
    Node = {n1, n2, n3}
    Nil = Nil
    Rank <- InOrder
    Data = {d1, d2}
    Thread = {th1, th2}
    Stoppable = {}
    Unreliable = {n1}
    MaxTerm = 3
    MaxLog = 2
    Contender <- Return
    MaxInFlight = 2
    MaxLate = 0
CONSTRAINT Handover
SYMMETRY Symmetry
INVARIANTS LogMatching CommittedIsDurable MatchIndexIsTrue LeaderCompleteness
PROPERTIES AppliedIsStable ImplementsAgreedLog
CHECK_DEADLOCK FALSE
