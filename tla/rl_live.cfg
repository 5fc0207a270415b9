SPECIFICATION NoBeatSpec
CONSTANTS
    adsb = adsb
    adsb2 = adsb2
    uat = uat
    vdl2 = vdl2
    Callers = {adsb, vdl2}
    Kind <- KindOf
    Bit <- BitOf
CHECK_DEADLOCK FALSE
PROPERTIES CancelledEnds Reconnects
