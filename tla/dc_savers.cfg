SPECIFICATION Spec
CONSTANTS
    manager = manager
    phoneHome = phoneHome
    d1 = d1
    d2 = d2
    d3 = d3
    Ids = {d1, d2}
    Savers = {manager, phoneHome}
    OpenBlocksRename = TRUE
    ReadMayFail = FALSE
    MaxEdits = 2
    MaxCrashes = 0
    MaxFaults = 0
CHECK_DEADLOCK FALSE
INVARIANT FileWhole
