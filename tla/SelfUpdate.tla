------------------------------ MODULE SelfUpdate ------------------------------
(***************************************************************************)
(* The update command of the feed agent: checkUpdate, download and         *)
(* selfUpdate (agent/update.go), with the exit that follows in phoneHome   *)
(* (agent/main.go) and the relaunch by the service.                        *)
(*                                                                         *)
(* Three files matter: the executable, its ".new" and its ".old".  Every   *)
(* file operation is an action of its own, because the process may die     *)
(* between any two of them, and each may fail.  The rules are those of     *)
(* Windows: the file of a running image can be renamed, and neither        *)
(* deleted nor replaced.                                                   *)
(***************************************************************************)
EXTENDS Integers

CONSTANT MaxVersion   \* bound: releases there are

ASSUME VersionAssumption == MaxVersion \in Nat \ {0}

Versions == 1..MaxVersion
None     == 0                 \* no file, no process
Partial  == -1                \* a download that is not complete
Content  == Versions \cup {None, Partial}

VARIABLES
    latest,   \* the release GitHub calls latest
    exe,      \* the executable
    new,      \* exe + ".new"
    old,      \* exe + ".old"
    running,  \* version of the process
    image,    \* the file its image is in
    pc,       \* where the update is
    target,   \* version it downloads
    last      \* history: version of the last process

files == <<exe, new, old>>
vars  == <<latest, files, running, image, pc, target, last>>

TypeOK ==
    /\ latest \in Versions
    /\ exe \in Content
    /\ new \in Content
    /\ old \in Versions \cup {None}
    /\ running \in Versions \cup {None}
    /\ image \in {"none", "exe", "old"}
    /\ pc \in {"idle", "download", "copy", "remove", "aside", "install", "rollback", "staged", "down"}
    /\ target \in Versions
    /\ last \in Versions

Init ==
    /\ latest \in Versions
    /\ exe \in Versions
    /\ new = None
    /\ old = None
    /\ running = exe
    /\ image = "exe"
    /\ pc = "idle"
    /\ target = exe
    /\ last = exe

-----------------------------------------------------------------------------
(* Releases                                                                *)

\* A release is published, or withdrawn in favour of an earlier one.
Release(v) ==
    /\ latest' = v
    /\ UNCHANGED <<files, running, image, pc, target, last>>

\* (Definitions named after another with a suffix, such as this one, are faulty
\* variants: the properties are tried against them.)
NewerDiffers(current, tag) == tag # current

\* semverNewer
Newer(current, tag) == tag > current

\* The latest release is newer than the version of this process and has a binary
\* for the platform.  (Otherwise the command does nothing.)
CheckUpdate ==
    /\ pc = "idle"
    /\ Newer(running, latest)
    /\ target' = latest
    /\ pc' = "download"
    /\ UNCHANGED <<latest, files, running, image, last>>

-----------------------------------------------------------------------------
(* download                                                                *)

\* The request is refused, or the file cannot be created.
RequestFails ==
    /\ pc = "download"
    /\ pc' = "idle"
    /\ UNCHANGED <<latest, files, running, image, target, last>>

\* The file is created, or emptied if an earlier download left one.
CreateNew ==
    /\ pc = "download"
    /\ new' = Partial
    /\ pc' = "copy"
    /\ UNCHANGED <<latest, exe, old, running, image, target, last>>

CopyBody ==
    /\ pc = "copy"
    /\ new' = target
    /\ pc' = "remove"
    /\ UNCHANGED <<latest, exe, old, running, image, target, last>>

CopyFailsUnnoticed ==
    /\ pc = "copy"
    /\ pc' = "remove"
    /\ UNCHANGED <<latest, files, running, image, target, last>>

\* The connection breaks; what came so far stays.
CopyFails ==
    /\ pc = "copy"
    /\ pc' = "idle"
    /\ UNCHANGED <<latest, files, running, image, target, last>>

-----------------------------------------------------------------------------
(* selfUpdate                                                              *)

\* The result is not looked at.
RemoveOld ==
    /\ pc = "remove"
    /\ old' \in IF image = "old" THEN {old} ELSE {old, None}
    /\ pc' = "aside"
    /\ UNCHANGED <<latest, exe, new, running, image, target, last>>

\* exe -> old
MoveAside ==
    /\ pc = "aside"
    /\ image # "old"
    /\ exe # None
    /\ old' = exe
    /\ exe' = None
    /\ image' = "old"
    /\ pc' = "install"
    /\ UNCHANGED <<latest, new, running, target, last>>

MoveAsideFails ==
    /\ pc = "aside"
    /\ new' \in {new, None}
    /\ pc' = "idle"
    /\ UNCHANGED <<latest, exe, old, running, image, target, last>>

\* new -> exe
Install ==
    /\ pc = "install"
    /\ exe' = new
    /\ new' = None
    /\ pc' = "staged"
    /\ UNCHANGED <<latest, old, running, image, target, last>>

InstallFails ==
    /\ pc = "install"
    /\ pc' = "rollback"
    /\ UNCHANGED <<latest, files, running, image, target, last>>

\* old -> exe
Rollback ==
    /\ pc = "rollback"
    /\ exe' = old
    /\ old' = None
    /\ image' = "exe"
    /\ pc' = "idle"
    /\ UNCHANGED <<latest, new, running, target, last>>

RollbackFails ==
    /\ pc = "rollback"
    /\ pc' = "idle"
    /\ UNCHANGED <<latest, files, running, image, target, last>>

-----------------------------------------------------------------------------
(* The process                                                             *)

\* The command could not be acknowledged: the exit is postponed.
Postpone ==
    /\ pc = "staged"
    /\ pc' = "idle"
    /\ UNCHANGED <<latest, files, running, image, target, last>>

\* The exit after an acknowledged update or restart, a crash, or an outage.
Die ==
    /\ running # None
    /\ running' = None
    /\ image' = "none"
    /\ pc' = "down"
    /\ UNCHANGED <<latest, files, target, last>>

\* The service starts the executable, if there is one.
Relaunch ==
    /\ pc = "down"
    /\ exe # None
    /\ running' = exe
    /\ last' = exe
    /\ image' = "exe"
    /\ pc' = "idle"
    /\ UNCHANGED <<latest, files, target>>

-----------------------------------------------------------------------------

Download == RequestFails \/ CreateNew \/ CopyBody \/ CopyFails

Swap ==
    \/ RemoveOld \/ MoveAside \/ MoveAsideFails
    \/ Install \/ InstallFails \/ Rollback \/ RollbackFails

Next ==
    \/ \E v \in Versions : Release(v)
    \/ CheckUpdate
    \/ Download
    \/ Swap
    \/ Postpone \/ Die \/ Relaunch

Spec == Init /\ [][Next]_vars

-----------------------------------------------------------------------------
(* Properties                                                              *)

\* The executable the service will start is a complete binary: no failed
\* download, this one's or one an earlier attempt left behind, is swapped in.
ExeWhole == exe # Partial

\* The agent that is relaunched is never older than the one that ran before,
\* whatever releases are withdrawn and wherever an update failed or was cut off.
NeverDowngrades == [][last' >= last]_vars

\* The inductive invariant.  The file the service would start, or the one a
\* rollback would put back, is no older than the last process; what is about to
\* be installed is complete and newer.
Inv ==
    /\ ExeWhole
    /\ running # None => running = last
    /\ pc = "down" <=> running = None
    /\ exe # None => exe >= last
    /\ pc \in {"download", "copy", "remove", "aside", "install"} => target >= last
    /\ pc \in {"remove", "aside", "install"} => new = target
    /\ pc \in {"install", "rollback"} => old # None /\ old >= last
=============================================================================
