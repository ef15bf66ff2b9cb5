SPECIFICATION FairSpec
CONSTANTS
    a = a
    b = b
    c = c
    Name = {a, b}
    Initial = {a, b}
    Removable = {b}
    Addable = {}
    Label = {"ONLINE"}
    MaxAdmin = 1
    MaxFaults = 2
PROPERTY RecoveryIsNoticed
CHECK_DEADLOCK FALSE
