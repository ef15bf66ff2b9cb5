SPECIFICATION FairSpec
CONSTANTS
    f1 = f1
    f2 = f2
    nodeA = nodeA
    nodeB = nodeB
    None = None
    File = {f1, f2}
    Node = {nodeA, nodeB}
    Listed <- MCListed
    Listing <- MCListing
    Heartbeats <- MCHeartbeats
    ClusterState = {None, "NO MAJORITY"}
    Query <- MCQuery
    MaxActs = 2
    MaxFaults = 1
CONSTRAINT Acts
INVARIANTS TypeOK PanelIsCurrent NoConfirmLeftBehind ShownDownloadRuns
CHECK_DEADLOCK FALSE
PROPERTIES DownloadSettles SlotsConverge
