SPECIFICATION FairSpec
CONSTANTS
    Loop = {1}
    Refresh = {r1}
    None = None
    d2 = d2
    Base = 3000
    MaxInterval = 15000
    MaxFailures = 4
    MaxStops = 0
    MaxRefreshes = 0
    MaxFaults = 0
    File = {1, 2}
    Stored = {1}
    Local = {2}
    Deletion = {d1}
    Upload = {u1}
    MaxDeletions = 0
    MaxUploads = 1
PROPERTY UploadSettles
CHECK_DEADLOCK FALSE
