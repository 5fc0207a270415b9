SPECIFICATION Spec
CONSTANTS
    adsb = adsb
    adsb2 = adsb2
    uat = uat
    vdl2 = vdl2
    Callers = {uat, vdl2}
    Kind <- KindOf
    Bit <- BitOf
CHECK_DEADLOCK FALSE
INVARIANTS TypeOK DownUnlessCopying UpWhileCopying BitAsAsked FirstByteSampled
