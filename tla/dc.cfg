SPECIFICATION FairSpec
CONSTANTS
    manager = manager
    phoneHome = phoneHome
    d1 = d1
    d2 = d2
    d3 = d3
    Ids = {d1, d2, d3}
    Savers = {manager}
    OpenBlocksRename = TRUE
    ReadMayFail = FALSE
    MaxEdits = 2
    MaxCrashes = 2
    MaxFaults = 2
CHECK_DEADLOCK FALSE
INVARIANTS TypeOK OneDevice RunsAsRegistered
PROPERTIES ImplementsAtomicFile StartsInTheEnd
