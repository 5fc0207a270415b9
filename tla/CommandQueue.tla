----------------------------- MODULE CommandQueue -----------------------------
(***************************************************************************)
(* What the control loop keeps to in its dealings with the server: the     *)
(* device begins a command only if it is queued, the command is struck off *)
(* only after the device began it, and a device that ends its process for  *)
(* a command does so once and after the command was struck off.            *)
(*                                                                         *)
(* It is not promised that a command that was struck off is carried out in *)
(* full: a restart that was begun, and struck off, may never take place.   *)
(* There is no network here, no process and no crash.  PhoneHome           *)
(* implements this specification.                                          *)
(***************************************************************************)
CONSTANT Commands   \* command ids

VARIABLES
    queued,     \* commands the operator has queued
    begun,      \* commands the device has begun
    retired,    \* commands that are struck off
    ended       \* commands the device has ended its process for

queue == <<queued, begun, retired, ended>>

Init ==
    /\ queued = {}
    /\ begun = {}
    /\ retired = {}
    /\ ended = {}

Issue(c) ==
    /\ c \notin queued
    /\ queued' = queued \cup {c}
    /\ UNCHANGED <<begun, retired, ended>>

Begin(c) ==
    /\ c \in queued
    /\ begun' = begun \cup {c}
    /\ UNCHANGED <<queued, retired, ended>>

\* Several commands may be struck off at once, each of them begun.
Retire(cs) ==
    /\ cs \subseteq begun
    /\ retired' = retired \cup cs
    /\ UNCHANGED <<queued, begun, ended>>

End(c) ==
    /\ c \in retired \ ended
    /\ ended' = ended \cup {c}
    /\ UNCHANGED <<queued, begun, retired>>

Next ==
    \/ \E c \in Commands : Issue(c) \/ Begin(c) \/ End(c)
    \/ \E cs \in SUBSET Commands : Retire(cs)

Spec == Init /\ [][Next]_queue
=============================================================================
