SPECIFICATION FairSpec
CONSTANTS
    Loop = {1, 2}
    Refresh = {r1}
    None = None
    d2 = d2
    Base = 3000
    MaxInterval = 15000
    MaxFailures = 4
    MaxStops = 1
    MaxRefreshes = 1
    MaxFaults = 2
    File = {1, 2, 3}
    Stored = {1, 2}
    Local = {3}
    Deletion = {d1, d2}
    Upload = {u1}
    MaxDeletions = 2
    MaxUploads = 2
CONSTRAINT Profile
INVARIANTS TypeOK TotalMatchesRows LoopLives HealthyPollsFast
PROPERTIES StopEndsLoops LedgerConverges DeleteSettles
CHECK_DEADLOCK FALSE
