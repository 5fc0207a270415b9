----------------------------- MODULE DeviceConfig -----------------------------
(***************************************************************************)
(* The persisted configuration of the feed agent and the identity in it:   *)
(* LoadConfig, EnsureDeviceIdentity and Save (agent/config.go), the        *)
(* registration main performs at every start (agent/main.go), the saves    *)
(* that goroutines make while the agent runs, and the -wait-ready process  *)
(* the installer starts next to the service, which keeps reading the file  *)
(* the service is writing.                                                 *)
(*                                                                         *)
(* agent.json and agent.json.tmp are names of files, and a goroutine that  *)
(* writes has a file open, whatever name that file gets meanwhile.  Of the *)
(* configuration, the device id and the token are kept; everything else is *)
(* one counter of edits.  Marshalling is one step (the code takes no lock; *)
(* a goroutine that edits cfg during it is not modelled).                  *)
(*                                                                         *)
(* The server is external: it keeps one row per device id it has seen.     *)
(***************************************************************************)
EXTENDS Integers, FiniteSets

CONSTANTS
    Ids,              \* device ids the random generator may produce
    Savers,           \* goroutines that save while the agent runs
    OpenBlocksRename, \* a file that is open cannot be renamed (Windows)
    ReadMayFail,      \* reading an existing agent.json may fail
    MaxEdits,         \* bound: edits of one process
    MaxCrashes,       \* bound: crashes
    MaxFaults         \* bound: failures of the disk and of the network

Main == "main"   \* main's goroutine, which saves during startup
Unset == ""      \* no device id
NoFile == 0      \* a name without a file

ASSUME ConfigAssumption ==
    /\ Unset \notin Ids
    /\ Main \notin Savers /\ IsFiniteSet(Savers)
    /\ OpenBlocksRename \in BOOLEAN
    /\ ReadMayFail \in BOOLEAN
    /\ MaxEdits \in Nat /\ MaxCrashes \in Nat /\ MaxFaults \in Nat

Threads == Savers \cup {Main}

\* Enough files for both names and one open file per goroutine and for wait-ready.
Files == 1..(Cardinality(Threads) + 3)

Config == [id : Ids \cup {Unset}, token : BOOLEAN, edits : 0..MaxEdits]
Blank  == [id |-> Unset, token |-> FALSE, edits |-> 0]
Empty  == [id |-> Unset, token |-> FALSE, edits |-> -1]   \* a truncated file
Torn   == [id |-> Unset, token |-> FALSE, edits |-> -2]   \* a file that does not parse
Absent == [id |-> Unset, token |-> FALSE, edits |-> -3]   \* no file

VARIABLES
    cfg,        \* the configuration in memory
    agentFile,  \* the file named agent.json
    tmpFile,    \* the file named agent.json.tmp
    data,       \* contents of the files
    pc,         \* where main is
    io,         \* where a goroutine is inside Save
    bytes,      \* what it marshalled
    fd,         \* the file it has open
    waiting,    \* whether the wait-ready process is there
    reading,    \* the file it has open
    rows,       \* server: devices registered
    crashes,
    faults

fileVars == <<agentFile, tmpFile, data>>
saveVars == <<io, bytes, fd>>
waitVars == <<waiting, reading>>
vars     == <<cfg, fileVars, pc, saveVars, waitVars, rows, crashes, faults>>

TypeOK ==
    /\ cfg \in Config
    /\ agentFile \in Files \cup {NoFile}
    /\ tmpFile \in Files \cup {NoFile}
    /\ data \in [Files -> Config \cup {Empty, Torn}]
    /\ pc \in {"load", "flags", "identity", "saveid", "register", "savetoken", "run", "down"}
    /\ io \in [Threads -> {"none", "open", "write", "rename"}]
    /\ bytes \in [Threads -> Config]
    /\ fd \in [Threads -> Files \cup {NoFile}]
    /\ waiting \in BOOLEAN
    /\ reading \in Files \cup {NoFile}
    /\ rows \subseteq Ids
    /\ crashes \in 0..MaxCrashes
    /\ faults \in 0..MaxFaults

\* A first start, without any file.
Init ==
    /\ cfg = Blank
    /\ agentFile = NoFile
    /\ tmpFile = NoFile
    /\ data = [f \in Files |-> Empty]
    /\ pc = "load"
    /\ io = [t \in Threads |-> "none"]
    /\ bytes = [t \in Threads |-> Blank]
    /\ fd = [t \in Threads |-> NoFile]
    /\ waiting = TRUE
    /\ reading = NoFile
    /\ rows = {}
    /\ crashes = 0
    /\ faults = 0

\* The disk or the network fails, up to the bound.
Fault == faults < MaxFaults /\ faults' = faults + 1

-----------------------------------------------------------------------------
(* Save                                                                    *)

\* The configuration is marshalled.
BeginSave(t, c) ==
    /\ io' = [io EXCEPT ![t] = "open"]
    /\ bytes' = [bytes EXCEPT ![t] = c]
    /\ UNCHANGED fd

\* Save returns.  At startup an error is fatal; a goroutine ignores it.
Return(t, ok) ==
    /\ io' = [io EXCEPT ![t] = "none"]
    /\ fd' = [fd EXCEPT ![t] = NoFile]
    /\ pc' = IF t # Main THEN pc
             ELSE IF ~ok THEN "down"
             ELSE CASE pc = "flags" -> "identity"
                    [] pc = "saveid" -> "register"
                    [] pc = "savetoken" -> "run"
    /\ UNCHANGED bytes

Opened == ({reading} \cup {fd[t] : t \in Threads}) \ {NoFile}

IsFree(f) == f \notin {agentFile, tmpFile} \cup Opened

\* (Definitions named after another with a suffix, such as this one, are faulty
\* variants: the properties are tried against them.)
OpenTmpInPlace(t) ==
    /\ io[t] = "open"
    /\ \E f \in Files :
         /\ f = IF agentFile # NoFile THEN agentFile ELSE CHOOSE g \in Files : IsFree(g)
         /\ agentFile' = f
         /\ tmpFile' = f
         /\ data' = [data EXCEPT ![f] = Empty]
         /\ fd' = [fd EXCEPT ![t] = f]
    /\ io' = [io EXCEPT ![t] = "write"]
    /\ UNCHANGED <<cfg, pc, bytes, waitVars, rows, crashes, faults>>

\* WriteFile creates agent.json.tmp, or truncates the one there is.
OpenTmp(t) ==
    /\ io[t] = "open"
    /\ LET f == IF tmpFile # NoFile THEN tmpFile ELSE CHOOSE g \in Files : IsFree(g)
       IN  /\ tmpFile' = f
           /\ data' = [data EXCEPT ![f] = Empty]
           /\ fd' = [fd EXCEPT ![t] = f]
    /\ io' = [io EXCEPT ![t] = "write"]
    /\ UNCHANGED <<cfg, agentFile, pc, bytes, waitVars, rows, crashes, faults>>

\* It writes from the start of the file and closes it.  Bytes of another writer
\* that reach further stay behind.
WriteTmp(t) ==
    /\ io[t] = "write"
    /\ \E d \in (IF data[fd[t]] = Empty THEN {bytes[t]} ELSE {bytes[t], Torn}) :
         data' = [data EXCEPT ![fd[t]] = d]
    /\ io' = [io EXCEPT ![t] = "rename"]
    /\ fd' = [fd EXCEPT ![t] = NoFile]
    /\ UNCHANGED <<cfg, agentFile, tmpFile, pc, bytes, waitVars, rows, crashes, faults>>

RenameBlocked == OpenBlocksRename /\ {agentFile, tmpFile} \cap Opened # {}

RenameTmp(t) ==
    /\ io[t] = "rename"
    /\ tmpFile # NoFile
    /\ ~RenameBlocked
    /\ agentFile' = tmpFile
    /\ tmpFile' = NoFile
    /\ Return(t, TRUE)
    /\ UNCHANGED <<cfg, data, waitVars, rows, crashes, faults>>

SaveFails(t) ==
    /\ Return(t, FALSE)
    /\ cfg' = IF t = Main THEN Blank ELSE cfg
    /\ UNCHANGED <<fileVars, waitVars, rows, crashes>>

\* The temporary file is gone, or a name it needs is open elsewhere.
RenameRefused(t) ==
    /\ io[t] = "rename"
    /\ tmpFile = NoFile \/ RenameBlocked
    /\ SaveFails(t)
    /\ UNCHANGED faults

\* The directory or the file cannot be created, or the disk is full.
DiskFails(t) ==
    /\ io[t] # "none"
    /\ Fault
    /\ SaveFails(t)

-----------------------------------------------------------------------------
(* Startup                                                                 *)

Readable == agentFile # NoFile /\ data[agentFile] \in Config

\* A file that is missing, does not parse or cannot be read is an empty
\* configuration.  A new -install-source is saved at once.
Load ==
    /\ pc = "load"
    /\ \E ok \in (IF ReadMayFail THEN BOOLEAN ELSE {TRUE}) :
         LET c == IF ok /\ Readable THEN data[agentFile] ELSE Blank
         IN  /\ cfg' = [c EXCEPT !.edits = 0]
             /\ \/ pc' = "identity" /\ UNCHANGED saveVars
                \/ pc' = "flags" /\ BeginSave(Main, cfg')
    /\ UNCHANGED <<fileVars, waitVars, rows, crashes, faults>>

\* An id no device of the server and no file has.
FreshId(i) ==
    /\ i \in Ids \ rows
    /\ \A f \in {agentFile, tmpFile} \ {NoFile} : data[f].id # i

EnsureDeviceIdentityByServer ==
    /\ pc = "identity"
    /\ pc' = "register"
    /\ UNCHANGED <<cfg, fileVars, saveVars, waitVars, rows, crashes, faults>>

EnsureDeviceIdentityUnsaved ==
    /\ pc = "identity"
    /\ pc' = "register"
    /\ \/ cfg.id # Unset /\ UNCHANGED cfg
       \/ cfg.id = Unset /\ \E i \in Ids : FreshId(i) /\ cfg' = [cfg EXCEPT !.id = i]
    /\ UNCHANGED <<fileVars, saveVars, waitVars, rows, crashes, faults>>

\* A configuration with an id needs no new one.
EnsureDeviceIdentity ==
    /\ pc = "identity"
    /\ \/ /\ cfg.id # Unset
          /\ pc' = "register"
          /\ UNCHANGED <<cfg, saveVars>>
       \/ /\ cfg.id = Unset
          /\ \E i \in Ids : FreshId(i) /\ cfg' = [cfg EXCEPT !.id = i]
          /\ pc' = "saveid"
          /\ BeginSave(Main, cfg')
    /\ UNCHANGED <<fileVars, waitVars, rows, crashes, faults>>

RegisteredUnsaved ==
    /\ pc = "register"
    /\ rows' = rows \cup {cfg.id}
    /\ cfg' = [cfg EXCEPT !.token = TRUE]
    /\ pc' = "run"
    /\ UNCHANGED <<fileVars, saveVars, waitVars, crashes, faults>>

\* The server answers with the id it was sent and a token, which are saved.
Registered ==
    /\ pc = "register"
    /\ rows' = rows \cup {cfg.id}
    /\ cfg' = [cfg EXCEPT !.token = TRUE]
    /\ pc' = "savetoken"
    /\ BeginSave(Main, cfg')
    /\ UNCHANGED <<fileVars, waitVars, crashes, faults>>

\* No answer arrives; the request may have reached the server all the same.
\* Only a device that has a token goes on.
RegisterFails ==
    /\ pc = "register"
    /\ Fault
    /\ rows' \in {rows, rows \cup {cfg.id}}
    /\ pc' = IF cfg.token THEN "run" ELSE "down"
    /\ cfg' = IF cfg.token THEN cfg ELSE Blank
    /\ UNCHANGED <<fileVars, saveVars, waitVars, crashes>>

-----------------------------------------------------------------------------
(* wait-ready                                                              *)

\* LoadConfig of the waiting process, before each question to the server.
OpenConfig ==
    /\ waiting
    /\ reading = NoFile
    /\ agentFile # NoFile
    /\ reading' = agentFile
    /\ UNCHANGED <<cfg, fileVars, pc, saveVars, waiting, rows, crashes, faults>>

CloseConfigLeaks ==
    /\ reading # NoFile
    /\ ~waiting
    /\ reading' = NoFile
    /\ UNCHANGED <<cfg, fileVars, pc, saveVars, waiting, rows, crashes, faults>>

CloseConfig ==
    /\ reading # NoFile
    /\ reading' = NoFile
    /\ UNCHANGED <<cfg, fileVars, pc, saveVars, waiting, rows, crashes, faults>>

\* The server has confirmed the feed, or the deadline has passed.
StopWaiting ==
    /\ waiting
    /\ reading = NoFile
    /\ waiting' = FALSE
    /\ UNCHANGED <<cfg, fileVars, pc, saveVars, reading, rows, crashes, faults>>

-----------------------------------------------------------------------------
(* While the agent runs                                                    *)

\* assignRoles or applyConfig changes a setting and saves.
EditAndSave(s) ==
    /\ pc = "run"
    /\ io[s] = "none"
    /\ cfg.edits < MaxEdits
    /\ cfg' = [cfg EXCEPT !.edits = @ + 1]
    /\ BeginSave(s, cfg')
    /\ UNCHANGED <<fileVars, pc, waitVars, rows, crashes, faults>>

Crash ==
    /\ pc # "down"
    /\ crashes < MaxCrashes
    /\ crashes' = crashes + 1
    /\ pc' = "down"
    /\ cfg' = Blank
    /\ io' = [t \in Threads |-> "none"]
    /\ fd' = [t \in Threads |-> NoFile]
    /\ UNCHANGED <<fileVars, bytes, waitVars, rows, faults>>

Relaunch ==
    /\ pc = "down"
    /\ pc' = "load"
    /\ UNCHANGED <<cfg, fileVars, saveVars, waitVars, rows, crashes, faults>>

-----------------------------------------------------------------------------

Save(t) == OpenTmp(t) \/ WriteTmp(t) \/ RenameTmp(t) \/ RenameRefused(t) \/ DiskFails(t)

Next ==
    \/ \E t \in Threads : Save(t)
    \/ Load \/ EnsureDeviceIdentity \/ Registered \/ RegisterFails
    \/ OpenConfig \/ CloseConfig \/ StopWaiting
    \/ \E s \in Savers : EditAndSave(s)
    \/ Crash \/ Relaunch

Spec == Init /\ [][Next]_vars

\* Main runs, the service relaunches it, and the waiting process reads what it
\* opened and meets its deadline, however often it opens the file before that.
Fairness ==
    /\ WF_vars(Save(Main))
    /\ WF_vars(Load \/ EnsureDeviceIdentity \/ Registered \/ RegisterFails)
    /\ WF_vars(Relaunch)
    /\ WF_vars(CloseConfig)
    /\ SF_vars(StopWaiting)

FairSpec == Spec /\ Fairness

-----------------------------------------------------------------------------
(* Properties                                                              *)

\* "Save writes the config atomically (temp + rename) so a crash mid-write can't
\* corrupt the device identity" (agent/config.go:164): agent.json, once there, is
\* at every moment a configuration that parses.
FileWhole == agentFile # NoFile => data[agentFile] \in Config

Saved == INSTANCE AtomicFile WITH
    Values  <- Config,
    Missing <- Absent,
    content <- IF agentFile = NoFile THEN Absent ELSE data[agentFile],
    pending <- {bytes[t] : t \in {u \in Threads : io[u] # "none"}}

\* The same promise as an abstract file: agent.json goes in one step from one
\* whole configuration to another, which a save under way then was to write, and
\* neither a crash nor a failure nor a reader makes it anything else.
ImplementsAtomicFile == Saved!Spec

\* "a device registers exactly once" (agent/config.go:14): however often the start
\* is repeated, the server sees one device, because no request is sent before its
\* id is on disk.
OneDevice == Cardinality(rows) <= 1

\* An agent that runs is known to the server under its id, and would come back
\* with that id and its token if it crashed now.
RunsAsRegistered ==
    pc = "run" => /\ cfg.id \in rows
                  /\ Readable
                  /\ data[agentFile].id = cfg.id
                  /\ data[agentFile].token

\* A start that fails because wait-ready holds agent.json open, because the disk or
\* the network failed, or because of a crash is repeated until the agent runs: the
\* installer's own verification cannot keep the feeder it waits for from starting.
StartsInTheEnd == []<>(pc = "run")
=============================================================================
