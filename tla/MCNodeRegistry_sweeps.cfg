SPECIFICATION FairSpec
CONSTANTS
    a = a
    b = b
    c = c
    Name = {a, b, c}
    Initial = {a, b, c}
    Removable = {b}
    Addable = {b, c}
    Label = {"ONLINE"}
    MaxAdmin = 3
    MaxFaults = 3
CONSTRAINT Profile
INVARIANTS TypeOK UrlsTracked
PROPERTIES StatusFollowsNode HealthFollowsNodes
CHECK_DEADLOCK FALSE
