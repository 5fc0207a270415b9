---------------------------- MODULE MCSupervise ----------------------------
(* Roles to check Supervise with TLC: a UAT pipeline that finds the dongle *)
(* with a predecessor, and is followed by another decoder.                 *)
EXTENDS Supervise

PipelineBetween == <<"single", "uat", "single">>
=============================================================================
