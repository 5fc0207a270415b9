------------------------------ MODULE MCRelays ------------------------------
(* Model values to check Relays with TLC.  ADS-B and UAT relays report bit *)
(* 1, VDL2 relays bit 2.                                                   *)
EXTENDS Relays

CONSTANTS adsb, adsb2, uat, vdl2

KindOf == [t \in Callers |-> CASE t \in {adsb, adsb2} -> "adsb" [] t = uat -> "uat" [] t = vdl2 -> "vdl2"]
BitOf  == [t \in Callers |-> IF t = vdl2 THEN 2 ELSE 1]

\* phoneHome only reads what the relays write; leaving its beats out keeps the
\* graph small enough for the liveness check.
NoBeatSpec == Init /\ [][Next /\ UNCHANGED sampleVars]_vars /\ Fairness
=============================================================================
