SPECIFICATION Spec
CONSTANTS
    p1 = p1
    p2 = p2
    Ports = {p1, p2}
    Devices = {"rtl"}
    Feeds = {"feed"}
    LocalRole <- NoRoles
    SavedRoles <- NoRoles
    ServerRoles <- VDL2OnP1
    DefaultRole = "adsb"
    EnumFails = FALSE
    Bundled = {"adsb", "vdl2"}
CHECK_DEADLOCK FALSE
INVARIANT RelayReadsItsDecoder
