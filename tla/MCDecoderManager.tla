-------------------------- MODULE MCDecoderManager --------------------------
(* Model values and small constants to check DecoderManager with TLC.      *)
EXTENDS DecoderManager

CONSTANTS p1, p2

NoRoles  == [k \in Keys |-> Unset]
VDL2OnP1 == [k \in Keys |-> IF k = p1 THEN {"vdl2"} ELSE {}]

\* The user confirmed ADS-B for p2 after the server had set it to VDL2.  The role
\* of the serial was probed when an enumeration had no ports, that of p1 never.
P2IsADSB == [k \in Keys |-> IF k = p2 THEN "adsb" ELSE Unset]
WasVDL2  == [k \in Keys |-> IF k = p1 THEN Unset ELSE "vdl2"]
=============================================================================
