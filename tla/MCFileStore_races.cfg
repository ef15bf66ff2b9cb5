SPECIFICATION Spec
CONSTANTS
    Node = {1, 2, 3}
    Name = {f, g}
    Content = {c1}
    None = None
    MaxRequests = 4
    MaxCrashes = 1
SYMMETRY Symmetry
INVARIANTS TypeOK ExistenceIsRegular
PROPERTIES DownloadServes ListingIsExact
CHECK_DEADLOCK FALSE
