---------------------------- MODULE MCPhoneHome ----------------------------
(* Model values and command kinds to check PhoneHome with TLC.             *)
EXTENDS PhoneHome

CONSTANTS c1, c2

RestartAndUpdate == [c \in Commands |-> IF c = c1 THEN "restart" ELSE "update"]

\* "forced" holds a role the user has confirmed otherwise.
ForcedIsOld == [v \in Configs |-> IF v = "forced" THEN "old" ELSE v]
=============================================================================
