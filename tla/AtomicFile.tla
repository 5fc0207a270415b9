------------------------------ MODULE AtomicFile ------------------------------
(***************************************************************************)
(* What Save promises (agent/config.go:164): a file whose contents change  *)
(* from one whole value to another in a single step.  A save that is under *)
(* way has offered its value; a failure or a crash withdraws it, and       *)
(* leaves the file as it is.  DeviceConfig implements this specification.  *)
(***************************************************************************)
CONSTANTS
    Values,    \* what may be saved
    Missing    \* contents of a file that is not there

VARIABLES
    content,   \* contents of the file
    pending    \* values of the saves under way

file == <<content, pending>>

Init ==
    /\ content = Missing
    /\ pending = {}

Offer(v) ==
    /\ pending' = pending \cup {v}
    /\ UNCHANGED content

Commit(v) ==
    /\ v \in pending
    /\ content' = v
    /\ pending' \in {pending, pending \ {v}}

Withdraw ==
    /\ pending' \in SUBSET pending
    /\ UNCHANGED content

Next ==
    \/ \E v \in Values : Offer(v) \/ Commit(v)
    \/ Withdraw

Spec == Init /\ [][Next]_file
=============================================================================
