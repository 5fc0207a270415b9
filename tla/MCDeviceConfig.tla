--------------------------- MODULE MCDeviceConfig ---------------------------
(* Goroutines and device ids to check DeviceConfig with TLC.               *)
EXTENDS DeviceConfig

CONSTANTS manager, phoneHome, d1, d2, d3
=============================================================================
