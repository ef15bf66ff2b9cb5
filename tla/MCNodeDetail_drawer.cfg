SPECIFICATION FairSpec
CONSTANTS
    nodeA = nodeA
    nodeB = nodeB
    None = None
    Node = {nodeA, nodeB}
    Role = {"LEADER", "FOLLOWER"}
    FirstRole <- MCFirstRole
    Report <- MCReport
    Request = {q1, q2}
    Ticks = 2
    MaxOpens = 2
    MaxFaults = 1
CONSTRAINT Bounds
INVARIANTS TypeOK PanelShowsSelection RailIsCurrent ListIsCurrent MissedIsStreak
CHECK_DEADLOCK FALSE
PROPERTIES LoadingSettles TelemetryConverges
