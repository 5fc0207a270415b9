SPECIFICATION FairSpec
CONSTANTS
    p1 = p1
    p2 = p2
    Ports = {p1, p2}
    Devices = {"rtl"}
    Feeds = {"feed"}
    LocalRole <- P2IsADSB
    SavedRoles <- WasVDL2
    ServerRoles <- VDL2OnP1
    DefaultRole = "auto"
    EnumFails = TRUE
    Bundled = {"adsb", "vdl2"}
CHECK_DEADLOCK FALSE
INVARIANTS TypeOK RelayHasDecoder DecoderHasRelay PortsDistinct InventoryTruthful LocalRoleWins
PROPERTIES Converges PauseStops
