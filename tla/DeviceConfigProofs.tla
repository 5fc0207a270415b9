-------------------------- MODULE DeviceConfigProofs --------------------------
(***************************************************************************)
(* Proofs about the persisted configuration, for any number of goroutines  *)
(* that save, of device ids, crashes and failures: types, and, as long as  *)
(* no two saves overlap, that agent.json is an atomic file, that a running *)
(* agent would come back as the device it is, and that the server sees one *)
(* device.                                                                 *)
(***************************************************************************)
EXTENDS DeviceConfig, FiniteSetTheorems, TLAPS

Saving(t) == io[t] # "none"

\* No two goroutines are inside Save at once.  The code does not see to it
\* (agent/config.go:174): it is what its own two goroutines would have to keep to.
Exclusive == \A t, u \in Threads : Saving(t) /\ Saving(u) => t = u

-----------------------------------------------------------------------------
(* Types                                                                   *)

\* Where a goroutine is inside Save, against where main is and what it has open.
Places ==
    /\ \A t \in Threads : fd[t] # NoFile <=> io[t] = "write"
    /\ Saving(Main) <=> pc \in {"flags", "saveid", "savetoken"}
    /\ \A s \in Savers : Saving(s) => pc = "run"

Shape == TypeOK /\ Places

\* Nothing is registered or run without an id.
Named == pc \in {"saveid", "register", "savetoken", "run"} => cfg.id # Unset

\* What is changed in a configuration leaves the rest of it as it was.
LEMMA Edited ==
    ASSUME NEW c \in Config
    PROVE  /\ [c EXCEPT !.edits = 0] \in Config
           /\ [c EXCEPT !.edits = 0].id = c.id
           /\ [c EXCEPT !.edits = 0].token = c.token
  BY ConfigAssumption DEF Config

LEMMA EditedOnce ==
    ASSUME NEW c \in Config, c.edits < MaxEdits
    PROVE  /\ [c EXCEPT !.edits = @ + 1] \in Config
           /\ [c EXCEPT !.edits = @ + 1].id = c.id
           /\ [c EXCEPT !.edits = @ + 1].token = c.token
  BY ConfigAssumption DEF Config

LEMMA GivenToken ==
    ASSUME NEW c \in Config
    PROVE  /\ [c EXCEPT !.token = TRUE] \in Config
           /\ [c EXCEPT !.token = TRUE].id = c.id
           /\ [c EXCEPT !.token = TRUE].token
  BY DEF Config

LEMMA GivenId ==
    ASSUME NEW c \in Config, NEW i \in Ids
    PROVE  /\ [c EXCEPT !.id = i] \in Config
           /\ [c EXCEPT !.id = i].id = i
           /\ [c EXCEPT !.id = i].token = c.token
  BY DEF Config

LEMMA BlankIsConfig == Blank \in Config /\ Blank.id = Unset /\ ~Blank.token
  BY ConfigAssumption DEF Blank, Config

LEMMA OneMore ==
    ASSUME NEW S, NEW x, IsFiniteSet(S)
    PROVE  /\ IsFiniteSet(S \cup {x})
           /\ Cardinality(S) \in Nat
           /\ Cardinality(S \cup {x}) \in Nat
           /\ Cardinality(S \cup {x}) <= Cardinality(S) + 1
<1>1. IsFiniteSet(S \cup {x})
  BY FS_AddElement
<1>2. Cardinality(S) \in Nat
  BY FS_CardinalityType
<1>3. Cardinality(S \cup {x}) \in Nat
  BY <1>1, FS_CardinalityType
<1>4. \/ Cardinality(S \cup {x}) = Cardinality(S)
      \/ Cardinality(S \cup {x}) = Cardinality(S) + 1
  <2>1. CASE x \in S
    <3>1. S \cup {x} = S
      BY <2>1
    <3> QED BY <3>1
  <2>2. CASE x \notin S
    BY <2>2, FS_AddElement
  <2> QED BY <2>1, <2>2
<1> QED BY <1>1, <1>2, <1>3, <1>4

\* The two names and the open files never take all of Files, when there is a
\* goroutine with no file and no temporary file: WriteFile finds a new one.
LEMMA FreeFile ==
    ASSUME TypeOK, tmpFile = NoFile
    PROVE  \E g \in Files : IsFree(g)
<1> DEFINE Fds == {fd[t] : t \in Threads}
           Used == Fds \cup {agentFile} \cup {reading}
<1>1. IsFiniteSet(Threads) /\ Cardinality(Threads) \in Nat
  <2>1. IsFiniteSet(Threads)
    BY ConfigAssumption, FS_AddElement DEF Threads
  <2> QED BY <2>1, FS_CardinalityType
<1>2. IsFiniteSet(Fds) /\ Cardinality(Fds) <= Cardinality(Threads)
  <2>1. fd \in Surjection(Threads, Fds)
    BY DEF TypeOK, Surjection
  <2> HIDE DEF Fds
  <2> QED BY <1>1, <2>1, FS_Surjection
<1>3. IsFiniteSet(Used) /\ Cardinality(Used) \in Nat /\ Cardinality(Used) <= Cardinality(Threads) + 2
  <2> DEFINE Both == Fds \cup {agentFile}
  <2> HIDE DEF Fds
  <2>1. /\ IsFiniteSet(Both) /\ Cardinality(Fds) \in Nat
        /\ Cardinality(Both) \in Nat /\ Cardinality(Both) <= Cardinality(Fds) + 1
    BY <1>2, OneMore
  <2> HIDE DEF Both
  <2>2. /\ IsFiniteSet(Both \cup {reading}) /\ Cardinality(Both \cup {reading}) \in Nat
        /\ Cardinality(Both \cup {reading}) <= Cardinality(Both) + 1
    BY <2>1, OneMore
  <2>3. Used = Both \cup {reading}
    BY DEF Both
  <2> HIDE DEF Used
  <2>4. IsFiniteSet(Used) /\ Cardinality(Used) \in Nat /\ Cardinality(Used) <= Cardinality(Both) + 1
    BY <2>2, <2>3
  <2> QED BY <1>1, <1>2, <2>1, <2>4
<1>4. IsFiniteSet(Files) /\ Cardinality(Files) = Cardinality(Threads) + 3
  BY <1>1, FS_Interval DEF Files
<1>5. ~(Files \subseteq Used)
  BY <1>1, <1>3, <1>4, FS_Subset, FS_CardinalityType
<1>6. PICK g \in Files : g \notin Used
  BY <1>5
<1>7. g # NoFile
  BY <1>1 DEF Files, NoFile
<1> QED BY <1>6, <1>7 DEF IsFree, Opened

\* The temporary file that WriteFile opens, which is not agent.json if it is new.
LEMMA TmpOpened ==
    ASSUME TypeOK, NEW t \in Threads, OpenTmp(t)
    PROVE  \E f \in Files :
             /\ tmpFile # NoFile => f = tmpFile
             /\ tmpFile = NoFile => f # agentFile
             /\ tmpFile' = f
             /\ data' = [data EXCEPT ![f] = Empty]
             /\ fd' = [fd EXCEPT ![t] = f]
<1>1. CASE tmpFile # NoFile
  BY <1>1 DEF OpenTmp, TypeOK
<1>2. CASE tmpFile = NoFile
  <2> DEFINE f == CHOOSE g \in Files : IsFree(g)
  <2>1. f \in Files /\ IsFree(f)
    BY <1>2, FreeFile
  <2>2. f # agentFile
    BY <2>1 DEF IsFree
  <2>3. tmpFile' = f /\ data' = [data EXCEPT ![f] = Empty] /\ fd' = [fd EXCEPT ![t] = f]
    BY <1>2 DEF OpenTmp
  <2> HIDE DEF f
  <2> QED BY <1>2, <2>1, <2>2, <2>3
<1> QED BY <1>1, <1>2

\* A goroutine's way out of Save.
LEMMA Returned ==
    ASSUME Shape, NEW t \in Threads, Saving(t), NEW ok \in BOOLEAN, Return(t, ok)
    PROVE  /\ io' \in [Threads -> {"none", "open", "write", "rename"}]
           /\ fd' \in [Threads -> Files \cup {NoFile}]
           /\ bytes' = bytes
           /\ pc' \in {"load", "flags", "identity", "saveid", "register", "savetoken", "run", "down"}
           /\ Places'
<1> USE DEF Shape, TypeOK, Places, Saving, Return
<1>1. /\ io' \in [Threads -> {"none", "open", "write", "rename"}]
      /\ fd' \in [Threads -> Files \cup {NoFile}]
      /\ bytes' = bytes
  OBVIOUS
<1>2. \A u \in Threads : fd'[u] # NoFile <=> io'[u] = "write"
  OBVIOUS
<1>3. CASE t = Main
  <2>1. pc \in {"flags", "saveid", "savetoken"}
    BY <1>3
  <2>2. pc' \in {"identity", "register", "run", "down"}
    BY <1>3, <2>1
  <2>3. ~Saving(Main)' /\ \A s \in Savers : ~Saving(s)'
    BY <1>3, <2>1, ConfigAssumption DEF Threads
  <2> QED BY <1>1, <1>2, <2>2, <2>3
<1>4. CASE t # Main
  <2>1. t \in Savers /\ pc' = pc
    BY <1>4 DEF Threads
  <2>2. io'[Main] = io[Main]
    BY <1>4
  <2>3. \A s \in Savers : Saving(s)' => Saving(s)
    BY DEF Threads
  <2> QED BY <1>1, <1>2, <2>1, <2>2, <2>3
<1> QED BY <1>3, <1>4

\* The way into it.
LEMMA Begun ==
    ASSUME Shape, NEW t \in Threads, ~Saving(t), NEW c \in Config, BeginSave(t, c)
    PROVE  /\ io' \in [Threads -> {"none", "open", "write", "rename"}]
           /\ bytes' \in [Threads -> Config]
           /\ io'[t] = "open" /\ bytes'[t] = c /\ fd' = fd
           /\ \A u \in Threads \ {t} : io'[u] = io[u] /\ bytes'[u] = bytes[u]
           /\ \A u \in Threads : fd'[u] # NoFile <=> io'[u] = "write"
  BY DEF Shape, TypeOK, Places, Saving, BeginSave

LEMMA ShapeInit == Init => Shape
<1> SUFFICES ASSUME Init PROVE Shape
  OBVIOUS
<1>1. data \in [Files -> Config \cup {Empty, Torn}] /\ bytes \in [Threads -> Config]
  BY BlankIsConfig DEF Init
<1>2. NoFile \in Files \cup {NoFile} /\ rows \subseteq Ids
  BY DEF Init
<1>3. crashes \in 0..MaxCrashes /\ faults \in 0..MaxFaults
  BY ConfigAssumption DEF Init
<1>4. TypeOK
  BY <1>1, <1>2, <1>3, BlankIsConfig DEF Init, TypeOK
<1>5. Places
  BY DEF Init, Places, Saving, Threads
<1> QED BY <1>4, <1>5 DEF Shape

LEMMA ShapeStep == Shape /\ Named /\ [Next]_vars => Shape'
<1> SUFFICES ASSUME Shape, Named, [Next]_vars PROVE Shape'
  OBVIOUS
<1> USE DEF Shape
<1>0. faults \in 0..MaxFaults /\ (Fault => faults' \in 0..MaxFaults)
  BY ConfigAssumption DEF Fault, TypeOK
<1>1. ASSUME NEW t \in Threads, OpenTmp(t) PROVE Shape'
  <2>1. PICK f \in Files : tmpFile' = f /\ data' = [data EXCEPT ![f] = Empty]
                           /\ fd' = [fd EXCEPT ![t] = f]
    BY <1>1, TmpOpened
  <2>2. f # NoFile
    BY DEF Files, NoFile
  <2>3. TypeOK'
    <3>1. /\ tmpFile' \in Files \cup {NoFile}
          /\ data' \in [Files -> Config \cup {Empty, Torn}]
          /\ fd' \in [Threads -> Files \cup {NoFile}]
      BY <2>1 DEF TypeOK
    <3>2. io' \in [Threads -> {"none", "open", "write", "rename"}]
      BY <1>1 DEF TypeOK, OpenTmp
    <3>3. UNCHANGED <<cfg, agentFile, pc, bytes, waiting, reading, rows, crashes, faults>>
      BY <1>1 DEF OpenTmp, waitVars
    <3> QED BY <3>1, <3>2, <3>3 DEF TypeOK
  <2>4. \A u \in Threads : Saving(u)' <=> Saving(u)
    BY <1>1 DEF OpenTmp, TypeOK, Saving
  <2>5. \A u \in Threads : fd'[u] # NoFile <=> io'[u] = "write"
    BY <1>1, <2>1, <2>2 DEF OpenTmp, TypeOK, Places
  <2> QED BY <1>1, <2>3, <2>4, <2>5 DEF Places, OpenTmp, Threads
<1>2. ASSUME NEW t \in Threads, WriteTmp(t) PROVE Shape'
  <2>1. fd[t] \in Files
    BY <1>2 DEF WriteTmp, Places, TypeOK
  <2>2. PICK d \in Config \cup {Torn} : data' = [data EXCEPT ![fd[t]] = d]
    BY <1>2 DEF WriteTmp, TypeOK
  <2>3. data' \in [Files -> Config \cup {Empty, Torn}]
    BY <2>1, <2>2 DEF TypeOK
  <2>4. TypeOK'
    BY <1>2, <2>3 DEF WriteTmp, TypeOK, waitVars
  <2>5. \A u \in Threads : Saving(u)' <=> Saving(u)
    BY <1>2 DEF WriteTmp, TypeOK, Saving
  <2>6. \A u \in Threads : fd'[u] # NoFile <=> io'[u] = "write"
    BY <1>2 DEF WriteTmp, TypeOK, Places
  <2> QED BY <1>2, <2>4, <2>5, <2>6 DEF Places, WriteTmp, Threads
<1>3. ASSUME NEW t \in Threads, RenameTmp(t) PROVE Shape'
  <2>1. Saving(t) /\ Return(t, TRUE)
    BY <1>3 DEF RenameTmp, Saving
  <2> QED BY <1>3, <2>1, Returned DEF RenameTmp, TypeOK, waitVars
<1>4. ASSUME NEW t \in Threads, SaveFails(t), Saving(t), faults' \in 0..MaxFaults PROVE Shape'
  BY <1>4, Returned, BlankIsConfig DEF SaveFails, TypeOK, fileVars, waitVars
<1>5. ASSUME NEW t \in Threads, RenameRefused(t) PROVE Shape'
  BY <1>0, <1>4, <1>5 DEF RenameRefused, Saving
<1>6. ASSUME NEW t \in Threads, DiskFails(t) PROVE Shape'
  BY <1>0, <1>4, <1>6 DEF DiskFails, Saving
<1>7. CASE Load
  <2>1. PICK c \in Config : cfg' = [c EXCEPT !.edits = 0]
    BY <1>7, BlankIsConfig DEF Load, Readable
  <2>2. cfg' \in Config
    BY <2>1, Edited
  <2>3. ~Saving(Main) /\ Main \in Threads
    BY <1>7 DEF Load, Places, Threads
  <2>4. \A s \in Savers : ~Saving(s)
    BY <1>7 DEF Load, Places
  <2>5. CASE pc' = "identity" /\ UNCHANGED saveVars
    BY <1>7, <2>2, <2>3, <2>4, <2>5 DEF Load, TypeOK, Places, Saving, saveVars, fileVars, waitVars
  <2>6. CASE pc' = "flags" /\ BeginSave(Main, cfg')
    <3>1. /\ io' \in [Threads -> {"none", "open", "write", "rename"}]
          /\ bytes' \in [Threads -> Config] /\ fd' = fd /\ io'[Main] = "open"
          /\ \A u \in Threads \ {Main} : io'[u] = io[u]
          /\ \A u \in Threads : fd'[u] # NoFile <=> io'[u] = "write"
      BY <2>2, <2>3, <2>6, Begun
    <3>2. TypeOK'
      BY <1>7, <2>2, <2>6, <3>1 DEF Load, TypeOK, fileVars, waitVars
    <3>3. \A s \in Savers : ~Saving(s)'
      BY <2>4, <3>1, ConfigAssumption DEF Saving, Threads
    <3> QED BY <2>6, <3>1, <3>2, <3>3 DEF Places, Saving
  <2> QED BY <1>7, <2>5, <2>6 DEF Load
<1>8. CASE EnsureDeviceIdentity
  <2>1. ~Saving(Main) /\ Main \in Threads /\ \A s \in Savers : ~Saving(s)
    BY <1>8 DEF EnsureDeviceIdentity, Places, Threads
  <2>2. CASE pc' = "register" /\ UNCHANGED <<cfg, saveVars>>
    BY <1>8, <2>1, <2>2 DEF EnsureDeviceIdentity, TypeOK, Places, Saving, saveVars, fileVars, waitVars
  <2>3. CASE /\ \E i \in Ids : FreshId(i) /\ cfg' = [cfg EXCEPT !.id = i]
             /\ pc' = "saveid" /\ BeginSave(Main, cfg')
    <3>0. cfg' \in Config
      BY <2>3, GivenId DEF TypeOK
    <3>1. /\ io' \in [Threads -> {"none", "open", "write", "rename"}]
          /\ bytes' \in [Threads -> Config] /\ fd' = fd /\ io'[Main] = "open"
          /\ \A u \in Threads \ {Main} : io'[u] = io[u]
          /\ \A u \in Threads : fd'[u] # NoFile <=> io'[u] = "write"
      BY <2>1, <2>3, <3>0, Begun
    <3>2. TypeOK'
      BY <1>8, <2>3, <3>0, <3>1 DEF EnsureDeviceIdentity, TypeOK, fileVars, waitVars
    <3>3. \A s \in Savers : ~Saving(s)'
      BY <2>1, <3>1, ConfigAssumption DEF Saving, Threads
    <3> QED BY <2>3, <3>1, <3>2, <3>3 DEF Places, Saving
  <2> QED BY <1>8, <2>2, <2>3 DEF EnsureDeviceIdentity
<1>9. CASE Registered
  <2>1. ~Saving(Main) /\ Main \in Threads /\ \A s \in Savers : ~Saving(s)
    BY <1>9 DEF Registered, Places, Threads
  <2>2. cfg.id \in Ids
    BY <1>9 DEF Registered, Named, TypeOK, Config
  <2>2a. cfg' \in Config /\ rows' \subseteq Ids
    BY <1>9, <2>2, GivenToken DEF Registered, TypeOK
  <2>3. /\ io' \in [Threads -> {"none", "open", "write", "rename"}]
        /\ bytes' \in [Threads -> Config] /\ fd' = fd /\ io'[Main] = "open"
        /\ \A u \in Threads \ {Main} : io'[u] = io[u]
        /\ \A u \in Threads : fd'[u] # NoFile <=> io'[u] = "write"
    BY <1>9, <2>1, <2>2a, Begun DEF Registered
  <2>4. TypeOK'
    BY <1>9, <2>2a, <2>3 DEF Registered, TypeOK, fileVars, waitVars
  <2>5. \A s \in Savers : ~Saving(s)'
    BY <2>1, <2>3, ConfigAssumption DEF Saving, Threads
  <2> QED BY <1>9, <2>3, <2>4, <2>5 DEF Places, Saving, Registered
<1>10. CASE RegisterFails
  <2>1. cfg.id \in Ids
    BY <1>10 DEF RegisterFails, Named, TypeOK, Config
  <2>2. rows' \subseteq Ids /\ cfg' \in Config /\ pc' \in {"run", "down"}
    BY <1>10, <2>1, BlankIsConfig DEF RegisterFails, TypeOK
  <2>3. TypeOK'
    BY <1>0, <1>10, <2>2 DEF RegisterFails, TypeOK, fileVars, saveVars, waitVars
  <2>4. Places'
    BY <1>10, <2>2 DEF RegisterFails, Places, Saving, saveVars
  <2> QED BY <2>3, <2>4
<1>11. CASE OpenConfig \/ CloseConfig \/ StopWaiting
  <2>1. /\ waiting' \in BOOLEAN /\ reading' \in Files \cup {NoFile}
        /\ UNCHANGED <<cfg, fileVars, pc, saveVars, rows, crashes, faults>>
    BY <1>11 DEF OpenConfig, CloseConfig, StopWaiting, TypeOK
  <2> QED BY <2>1 DEF TypeOK, Places, Saving, fileVars, saveVars
<1>12. ASSUME NEW u \in Savers, EditAndSave(u) PROVE Shape'
  <2>1. u \in Threads /\ u # Main /\ ~Saving(u)
    BY <1>12, ConfigAssumption DEF EditAndSave, Saving, Threads
  <2>2. cfg' \in Config
    BY <1>12, EditedOnce DEF EditAndSave, TypeOK
  <2>3. /\ io' \in [Threads -> {"none", "open", "write", "rename"}]
        /\ bytes' \in [Threads -> Config] /\ fd' = fd
        /\ \A v \in Threads \ {u} : io'[v] = io[v]
        /\ \A v \in Threads : fd'[v] # NoFile <=> io'[v] = "write"
    BY <1>12, <2>1, <2>2, Begun DEF EditAndSave
  <2>4. TypeOK'
    BY <1>12, <2>2, <2>3 DEF EditAndSave, TypeOK, fileVars, waitVars
  <2>5. Saving(Main)' <=> Saving(Main)
    BY <2>1, <2>3 DEF Saving, Threads
  <2> QED BY <1>12, <2>3, <2>4, <2>5 DEF Places, EditAndSave
<1>13. CASE Crash
  <2>1. TypeOK'
    BY <1>13, BlankIsConfig, ConfigAssumption DEF Crash, TypeOK, fileVars, waitVars
  <2> QED BY <1>13, <2>1 DEF Crash, Places, Saving, Threads
<1>14. CASE Relaunch
  BY <1>14 DEF Relaunch, TypeOK, Places, Saving, fileVars, saveVars, waitVars
<1>15. CASE UNCHANGED vars
  BY <1>15 DEF vars, TypeOK, Places, Saving, fileVars, saveVars, waitVars
<1> QED
  BY <1>1, <1>2, <1>3, <1>5, <1>6, <1>7, <1>8, <1>9, <1>10, <1>11, <1>12, <1>13, <1>14, <1>15
  DEF Next, Save

LEMMA NamedStep == Shape /\ Named /\ [Next]_vars => Named'
<1> SUFFICES ASSUME Shape, Named, [Next]_vars PROVE Named'
  OBVIOUS
<1> USE DEF Named
<1>1. ASSUME NEW t \in Threads, RenameTmp(t) PROVE Named'
  BY <1>1 DEF RenameTmp, Return, Shape, Places, Saving
<1>2. ASSUME NEW t \in Threads, SaveFails(t) PROVE Named'
  BY <1>2 DEF SaveFails, Return
<1>3. ASSUME NEW t \in Threads, Save(t) PROVE Named'
  BY <1>1, <1>2, <1>3 DEF Save, OpenTmp, WriteTmp, RenameRefused, DiskFails
<1>4. CASE EnsureDeviceIdentity
  <2>1. ASSUME NEW i \in Ids, cfg' = [cfg EXCEPT !.id = i] PROVE cfg'.id # Unset
    BY <2>1, GivenId, ConfigAssumption DEF Shape, TypeOK
  <2> QED BY <1>4, <2>1 DEF EnsureDeviceIdentity
<1>5. CASE Registered
  BY <1>5, GivenToken DEF Registered, Shape, TypeOK
<1>6. ASSUME NEW u \in Savers, EditAndSave(u) PROVE Named'
  BY <1>6, EditedOnce DEF EditAndSave, Shape, TypeOK
<1>7. CASE Load \/ RegisterFails \/ Crash \/ Relaunch
  BY <1>7 DEF Load, RegisterFails, Crash, Relaunch
<1>8. CASE OpenConfig \/ CloseConfig \/ StopWaiting \/ UNCHANGED vars
  BY <1>8 DEF OpenConfig, CloseConfig, StopWaiting, vars
<1> QED BY <1>3, <1>4, <1>5, <1>6, <1>7, <1>8 DEF Next

\* The state of the configuration, of its file and of every goroutine that saves is
\* of the types declared, however many saves overlap.
THEOREM ConfigTypeCorrect == Spec => []TypeOK
<1>1. Init => Shape /\ Named
  BY ShapeInit DEF Init, Named
<1>2. Shape /\ Named /\ [Next]_vars => (Shape /\ Named)'
  BY ShapeStep, NamedStep
<1>3. Shape => TypeOK
  BY DEF Shape
<1> QED BY <1>1, <1>2, <1>3, PTL DEF Spec

-----------------------------------------------------------------------------
(* agent.json as an atomic file                                            *)

\* The two names are two files, the one open for writing is agent.json.tmp, and
\* nobody but its writer has put anything into it.
TmpIsMine ==
    /\ agentFile = tmpFile => agentFile = NoFile
    /\ \A t \in Threads : io[t] = "write" => fd[t] = tmpFile /\ data[tmpFile] = Empty
    /\ \A t \in Threads : io[t] = "rename" => tmpFile # NoFile /\ data[tmpFile] = bytes[t]

OneWriter == TmpIsMine /\ FileWhole

\* What is in agent.json, and what the saves under way would put there.
Content == IF agentFile = NoFile THEN Absent ELSE data[agentFile]
Pending == {bytes[t] : t \in {u \in Threads : Saving(u)}}

\* A step leaves agent.json alone, or a goroutine replaces it by what it marshalled.
LEMMA FileStep ==
    ASSUME Shape, OneWriter, Exclusive, [Next]_vars
    PROVE  /\ OneWriter'
           /\ \/ agentFile' = agentFile /\ (agentFile # NoFile => data'[agentFile] = data[agentFile])
              \/ \E t \in Threads : /\ RenameTmp(t)
                                    /\ agentFile' \in Files
                                    /\ data'[agentFile'] = bytes[t]
<1> USE DEF OneWriter
<1> DEFINE Left == agentFile' = agentFile /\ (agentFile # NoFile => data'[agentFile] = data[agentFile])
<1>1. ASSUME NEW t \in Threads, OpenTmp(t) PROVE OneWriter' /\ Left
  <2>1. PICK f \in Files : /\ tmpFile # NoFile => f = tmpFile
                           /\ tmpFile = NoFile => f # agentFile
                           /\ tmpFile' = f
                           /\ data' = [data EXCEPT ![f] = Empty]
                           /\ fd' = [fd EXCEPT ![t] = f]
    BY <1>1, TmpOpened DEF Shape
  <2>2. f # NoFile /\ f # agentFile
    BY <2>1 DEF Files, NoFile, TmpIsMine
  <2>3. Left
    BY <1>1, <2>1, <2>2 DEF OpenTmp, Shape, TypeOK
  <2>4. \A u \in Threads \ {t} : io'[u] = "none"
    BY <1>1 DEF OpenTmp, Exclusive, Saving, Shape, TypeOK
  <2>5. io'[t] = "write" /\ fd'[t] = f /\ data'[f] = Empty
    BY <1>1, <2>1 DEF OpenTmp, Shape, TypeOK
  <2>6. TmpIsMine'
    BY <1>1, <2>1, <2>2, <2>4, <2>5 DEF TmpIsMine, OpenTmp
  <2> QED BY <1>1, <2>3, <2>6 DEF FileWhole, OpenTmp
<1>2. ASSUME NEW t \in Threads, WriteTmp(t) PROVE OneWriter' /\ Left
  <2>1. fd[t] = tmpFile /\ tmpFile \in Files /\ data[tmpFile] = Empty /\ tmpFile # agentFile
    BY <1>2 DEF WriteTmp, TmpIsMine, Shape, TypeOK, Places
  <2>2. data' = [data EXCEPT ![tmpFile] = bytes[t]]
    BY <1>2, <2>1 DEF WriteTmp
  <2>3. Left
    BY <1>2, <2>1, <2>2 DEF WriteTmp, Shape, TypeOK
  <2>4. \A u \in Threads \ {t} : io'[u] = "none"
    BY <1>2 DEF WriteTmp, Exclusive, Saving, Shape, TypeOK
  <2>5. io'[t] = "rename" /\ data'[tmpFile] = bytes[t] /\ tmpFile # NoFile
    BY <1>2, <2>1, <2>2 DEF WriteTmp, Shape, TypeOK, Files, NoFile
  <2>6. TmpIsMine'
    BY <1>2, <2>1, <2>4, <2>5 DEF TmpIsMine, WriteTmp
  <2> QED BY <1>2, <2>3, <2>6 DEF FileWhole, WriteTmp
<1>3. ASSUME NEW t \in Threads, RenameTmp(t)
      PROVE  OneWriter' /\ agentFile' \in Files /\ data'[agentFile'] = bytes[t]
  <2>1. tmpFile \in Files /\ data[tmpFile] = bytes[t] /\ bytes[t] \in Config
    BY <1>3 DEF RenameTmp, TmpIsMine, Shape, TypeOK
  <2>2. agentFile' = tmpFile /\ tmpFile' = NoFile /\ data' = data
    BY <1>3 DEF RenameTmp
  <2>3. \A u \in Threads : io'[u] = "none"
    BY <1>3 DEF RenameTmp, Return, Exclusive, Saving, Shape, TypeOK
  <2>4. tmpFile # NoFile
    BY <1>3 DEF RenameTmp
  <2> QED BY <2>1, <2>2, <2>3, <2>4 DEF TmpIsMine, FileWhole
<1>4. ASSUME UNCHANGED fileVars,
             \A u \in Threads : \/ io'[u] \notin {"write", "rename"}
                                \/ io'[u] = io[u] /\ fd'[u] = fd[u] /\ bytes'[u] = bytes[u]
      PROVE  OneWriter' /\ Left
  BY <1>4 DEF fileVars, TmpIsMine, FileWhole
<1>5. ASSUME NEW t \in Threads, RenameRefused(t) \/ DiskFails(t) PROVE OneWriter' /\ Left
  <2>1. SaveFails(t) /\ UNCHANGED fileVars
    BY <1>5 DEF RenameRefused, DiskFails, SaveFails
  <2>2. \A u \in Threads : \/ io'[u] = "none"
                           \/ io'[u] = io[u] /\ fd'[u] = fd[u] /\ bytes'[u] = bytes[u]
    BY <2>1 DEF SaveFails, Return, Shape, TypeOK
  <2> QED BY <1>4, <2>1, <2>2
<1>6. ASSUME NEW t \in Threads, NEW c, BeginSave(t, c), UNCHANGED fileVars PROVE OneWriter' /\ Left
  <2>1. \A u \in Threads : \/ io'[u] = "open"
                           \/ io'[u] = io[u] /\ fd'[u] = fd[u] /\ bytes'[u] = bytes[u]
    BY <1>6 DEF BeginSave, Shape, TypeOK
  <2> QED BY <1>4, <1>6, <2>1
<1>7. ASSUME UNCHANGED <<fileVars, saveVars>> PROVE OneWriter' /\ Left
  BY <1>4, <1>7 DEF saveVars
<1>8. CASE Load \/ EnsureDeviceIdentity \/ Registered
  <2>1. Main \in Threads
    BY DEF Threads
  <2> QED BY <1>6, <1>7, <1>8, <2>1 DEF Load, EnsureDeviceIdentity, Registered
<1>9. ASSUME NEW u \in Savers, EditAndSave(u) PROVE OneWriter' /\ Left
  <2>1. u \in Threads
    BY DEF Threads
  <2> QED BY <1>6, <1>9, <2>1 DEF EditAndSave
<1>10. CASE RegisterFails \/ OpenConfig \/ CloseConfig \/ StopWaiting \/ Relaunch
  BY <1>7, <1>10 DEF RegisterFails, OpenConfig, CloseConfig, StopWaiting, Relaunch
<1>11. CASE Crash
  BY <1>4, <1>11 DEF Crash
<1>12. CASE UNCHANGED vars
  BY <1>7, <1>12 DEF vars
<1> QED
  BY <1>1, <1>2, <1>3, <1>5, <1>8, <1>9, <1>10, <1>11, <1>12 DEF Next, Save

LEMMA FilesInit == Init => OneWriter
  BY DEF Init, OneWriter, TmpIsMine, FileWhole, NoFile

\* A crash or a failure at any moment leaves agent.json whole, as long as no two
\* saves overlap.
THEOREM AgentFileWhole == Spec /\ []Exclusive => []FileWhole
<1> DEFINE Inv == Shape /\ Named /\ OneWriter
<1>1. Init => Inv
  BY ShapeInit, FilesInit DEF Init, Named
<1>2. Inv /\ Exclusive /\ [Next]_vars => Inv'
  BY ShapeStep, NamedStep, FileStep
<1>3. Inv => FileWhole
  BY DEF OneWriter
<1> HIDE DEF Inv
<1> QED BY <1>1, <1>2, <1>3, PTL DEF Spec

-----------------------------------------------------------------------------
(* Registration                                                            *)

Disk == data[agentFile]

\* A token on disk is that of a registered device.
TokenOfRow == Readable /\ Disk.token => Disk.id \in rows

\* What main has in memory against what it would find after a crash.
Recovers ==
    /\ pc \in {"flags", "identity"} =>
         /\ cfg.token => Readable /\ Disk.token
         /\ cfg.id # Unset => Readable /\ Disk.id = cfg.id
         /\ cfg.token => cfg.id # Unset
    /\ pc = "saveid" => ~cfg.token
    /\ pc \in {"register", "savetoken"} => Readable /\ Disk.id = cfg.id
    /\ pc = "register" /\ cfg.token => Disk.token
    /\ pc = "savetoken" => cfg.token /\ cfg.id \in rows
    /\ pc = "run" => cfg.token
    /\ RunsAsRegistered

\* A save under way writes the identity there is in memory.
SameIdentity ==
    /\ Saving(Main) => bytes[Main] = cfg
    /\ \A s \in Savers : Saving(s) => bytes[s].id = cfg.id /\ bytes[s].token

Standing == TokenOfRow /\ Recovers /\ SameIdentity

Startup == Shape /\ Named /\ OneWriter /\ Standing

\* No step but the rename of a finished save changes what can be read back.
LEMMA Readback ==
    ASSUME Shape, Shape', OneWriter, Exclusive, [Next]_vars
    PROVE  \/ /\ ~\E t \in Threads : RenameTmp(t)
              /\ Readable' <=> Readable
              /\ Readable => Disk' = Disk
           \/ \E t \in Threads : RenameTmp(t) /\ Readable' /\ Disk' = bytes[t]
<1>1. Readable <=> agentFile # NoFile
  BY DEF OneWriter, FileWhole, Readable
<1>2. Readable' <=> agentFile' # NoFile
  BY FileStep DEF OneWriter, FileWhole, Readable
<1>3. ASSUME NEW t \in Threads, RenameTmp(t) PROVE Readable' /\ Disk' = bytes[t]
  <2>1. agentFile' # NoFile
    BY <1>3 DEF RenameTmp
  <2>2. data[tmpFile] = bytes[t]
    BY <1>3 DEF RenameTmp, OneWriter, TmpIsMine
  <2> QED BY <1>2, <1>3, <2>1, <2>2 DEF RenameTmp, Disk
<1>4. ASSUME ~\E t \in Threads : RenameTmp(t)
      PROVE  (Readable' <=> Readable) /\ (Readable => Disk' = Disk)
  <2>1. agentFile' = agentFile /\ (agentFile # NoFile => data'[agentFile] = data[agentFile])
    BY <1>4, FileStep
  <2> QED BY <1>1, <1>2, <2>1 DEF Disk
<1> QED BY <1>3, <1>4

\* The identity that a step leaves in memory and marshals.
LEMMA StandingStep ==
    ASSUME Startup, Exclusive, [Next]_vars
    PROVE  Standing'
<1> USE DEF Startup
<1>0. Shape' /\ Named'
  BY ShapeStep, NamedStep
<1> DEFINE Same == (Readable' <=> Readable) /\ (Readable => Disk' = Disk)
<1>a. \/ Same /\ ~\E t \in Threads : RenameTmp(t)
      \/ \E t \in Threads : RenameTmp(t) /\ Readable' /\ Disk' = bytes[t]
  BY <1>0, Readback
<1>b. Main \in Threads /\ Main \notin Savers /\ Savers \subseteq Threads
  BY ConfigAssumption DEF Threads
<1> HIDE DEF Same
<1> USE DEF Standing
<1>1. ASSUME NEW t \in Threads, RenameTmp(t) PROVE Standing'
  <2>1. Readable' /\ Disk' = bytes[t]
    BY <1>a, <1>1 DEF Exclusive, Saving, RenameTmp
  <2>2. io' = [io EXCEPT ![t] = "none"] /\ bytes' = bytes /\ cfg' = cfg /\ rows' = rows
    BY <1>1 DEF RenameTmp, Return
  <2>3. Saving(t) /\ \A u \in Threads : ~Saving(u)'
    BY <1>1, <2>2 DEF RenameTmp, Exclusive, Saving, Shape, TypeOK
  <2>4. CASE t = Main
    <3>1. Disk' = cfg
      BY <2>1, <2>3, <2>4 DEF SameIdentity
    <3>2. pc \in {"flags", "saveid", "savetoken"}
      BY <2>3, <2>4 DEF Shape, Places
    <3>3. CASE pc = "flags" /\ pc' = "identity"
      BY <1>b, <2>1, <2>2, <2>3, <3>1, <3>3
      DEF TokenOfRow, Recovers, RunsAsRegistered, SameIdentity
    <3>4. CASE pc = "saveid" /\ pc' = "register"
      BY <1>b, <2>1, <2>2, <2>3, <3>1, <3>4
      DEF TokenOfRow, Recovers, RunsAsRegistered, SameIdentity
    <3>5. CASE pc = "savetoken" /\ pc' = "run"
      BY <1>b, <2>1, <2>2, <2>3, <3>1, <3>5
      DEF TokenOfRow, Recovers, RunsAsRegistered, SameIdentity, Disk
    <3> QED BY <1>1, <2>4, <3>2, <3>3, <3>4, <3>5 DEF RenameTmp, Return
  <2>5. CASE t # Main
    <3>1. t \in Savers /\ pc' = pc
      BY <1>1, <2>5 DEF RenameTmp, Return, Threads
    <3>2. pc = "run"
      BY <2>3, <3>1 DEF Shape, Places
    <3>3. Disk'.id = cfg.id /\ Disk'.token
      BY <2>1, <2>3, <3>1 DEF SameIdentity
    <3> QED BY <1>b, <2>1, <2>2, <2>3, <3>1, <3>2, <3>3
            DEF TokenOfRow, Recovers, RunsAsRegistered, SameIdentity, Disk
  <2> QED BY <2>4, <2>5
<1>2. ASSUME Same, UNCHANGED <<cfg, pc, rows, bytes>>, \A t \in Threads : Saving(t)' => Saving(t)
      PROVE  Standing'
  BY <1>b, <1>2 DEF Same, TokenOfRow, Recovers, RunsAsRegistered, SameIdentity, Disk
<1>3. ASSUME Same, NEW t \in Threads, OpenTmp(t) \/ WriteTmp(t) PROVE Standing'
  BY <1>2, <1>3 DEF OpenTmp, WriteTmp, Saving, Shape, TypeOK
<1>4. ASSUME Same, NEW t \in Threads, RenameRefused(t) \/ DiskFails(t) PROVE Standing'
  <2>1. SaveFails(t) /\ Saving(t)
    BY <1>4 DEF RenameRefused, DiskFails, Saving
  <2>2. io' = [io EXCEPT ![t] = "none"] /\ bytes' = bytes /\ rows' = rows
    BY <2>1 DEF SaveFails, Return
  <2>3. \A u \in Threads : Saving(u)' => Saving(u)
    BY <2>2 DEF Saving, Shape, TypeOK
  <2>4. CASE t = Main
    <3>1. pc' = "down"
      BY <2>1, <2>4 DEF SaveFails, Return
    <3>2. \A u \in Threads : ~Saving(u)'
      BY <2>1, <2>2, <2>4 DEF Exclusive, Saving, Shape, TypeOK
    <3> QED BY <1>4, <1>b, <2>2, <3>1, <3>2
            DEF Same, TokenOfRow, Recovers, RunsAsRegistered, SameIdentity
  <2>5. CASE t # Main
    BY <1>2, <1>4, <2>1, <2>2, <2>3, <2>5 DEF SaveFails, Return
  <2> QED BY <2>4, <2>5
<1>5. ASSUME NEW c \in Config, pc' \in {"flags", "saveid", "savetoken"}, pc # "run",
             ~Saving(Main), BeginSave(Main, c)
      PROVE  bytes'[Main] = c /\ \A s \in Savers : ~Saving(s)'
  BY <1>b, <1>5 DEF BeginSave, Saving, Shape, TypeOK, Places
<1>6. ASSUME Same, Load PROVE Standing'
  <2>1. ~Saving(Main) /\ \A s \in Savers : ~Saving(s)
    BY <1>6 DEF Load, Shape, Places
  <2>2. PICK ok \in BOOLEAN :
            cfg' = [(IF ok /\ Readable THEN Disk ELSE Blank) EXCEPT !.edits = 0]
    BY <1>6 DEF Load, Disk
  <2>3. /\ cfg' \in Config
        /\ cfg'.id # Unset => Readable /\ Disk.id = cfg'.id
        /\ cfg'.token => Readable /\ Disk.token /\ Disk.id = cfg'.id
    <3>1. CASE ok /\ Readable
      BY <2>2, <3>1, Edited DEF Readable, Disk
    <3>2. CASE ~(ok /\ Readable)
      BY <2>2, <3>2, Edited, BlankIsConfig
    <3> QED BY <3>1, <3>2
  <2>4. rows' = rows /\ pc' \in {"flags", "identity"}
    BY <1>6 DEF Load
  <2>5. cfg'.token => cfg'.id # Unset
    <3>1. Readable /\ Disk.token => Disk.id \in rows
      BY DEF TokenOfRow
    <3> QED BY <2>3, <3>1, ConfigAssumption DEF Shape, TypeOK
  <2>6. TokenOfRow' /\ Recovers'
    BY <1>6, <2>3, <2>4, <2>5 DEF Same, TokenOfRow, Recovers, RunsAsRegistered
  <2>7. SameIdentity'
    <3>1. CASE pc' = "identity" /\ UNCHANGED saveVars
      BY <2>1, <3>1 DEF SameIdentity, Saving, saveVars
    <3>2. CASE pc' = "flags" /\ BeginSave(Main, cfg')
      BY <1>5, <1>6, <2>1, <2>3, <3>2 DEF Load, SameIdentity
    <3> QED BY <1>6, <3>1, <3>2 DEF Load
  <2> QED BY <2>6, <2>7
<1>7. ASSUME Same, EnsureDeviceIdentity PROVE Standing'
  <2>1. ~Saving(Main) /\ \A s \in Savers : ~Saving(s)
    BY <1>7 DEF EnsureDeviceIdentity, Shape, Places
  <2>2. rows' = rows /\ pc = "identity"
    BY <1>7 DEF EnsureDeviceIdentity
  <2>3. CASE cfg.id # Unset /\ pc' = "register" /\ UNCHANGED <<cfg, saveVars>>
    <3>1. SameIdentity'
      BY <2>1, <2>3 DEF SameIdentity, Saving, saveVars
    <3> QED BY <1>7, <2>2, <2>3, <3>1 DEF Same, TokenOfRow, Recovers, RunsAsRegistered
  <2>4. CASE /\ cfg.id = Unset /\ pc' = "saveid" /\ BeginSave(Main, cfg')
             /\ \E j \in Ids : FreshId(j) /\ cfg' = [cfg EXCEPT !.id = j]
    <3>1. cfg' \in Config /\ cfg'.token = cfg.token
      BY <2>4, GivenId DEF Shape, TypeOK
    <3>2. ~cfg'.token
      BY <2>2, <2>4, <3>1 DEF Recovers
    <3>3. SameIdentity'
      BY <1>5, <2>1, <2>2, <2>4, <3>1 DEF SameIdentity
    <3> QED BY <1>7, <2>2, <2>4, <3>2, <3>3 DEF Same, TokenOfRow, Recovers, RunsAsRegistered
  <2> QED BY <1>7, <2>3, <2>4 DEF EnsureDeviceIdentity
<1>8. ASSUME Same, Registered PROVE Standing'
  <2>1. pc = "register" /\ pc' = "savetoken" /\ rows' = rows \cup {cfg.id}
        /\ BeginSave(Main, cfg')
    BY <1>8 DEF Registered
  <2>2. ~Saving(Main) /\ \A s \in Savers : ~Saving(s)
    BY <2>1 DEF Shape, Places
  <2>3. cfg' \in Config /\ cfg'.id = cfg.id /\ cfg'.token
    BY <1>8, GivenToken DEF Registered, Shape, TypeOK
  <2>4. SameIdentity'
    BY <1>5, <2>1, <2>2, <2>3 DEF SameIdentity
  <2> QED BY <1>8, <2>1, <2>3, <2>4 DEF Same, TokenOfRow, Recovers, RunsAsRegistered
<1>9. ASSUME Same, RegisterFails PROVE Standing'
  <2>1. /\ pc = "register" /\ rows \subseteq rows' /\ UNCHANGED saveVars
        /\ \/ cfg.token /\ pc' = "run" /\ cfg' = cfg
           \/ pc' = "down"
    BY <1>9 DEF RegisterFails
  <2>2. ~Saving(Main)' /\ \A s \in Savers : ~Saving(s)'
    BY <2>1 DEF Shape, Places, Saving, saveVars
  <2>3. SameIdentity'
    BY <2>2 DEF SameIdentity
  <2>4. TokenOfRow'
    BY <1>9, <2>1 DEF Same, TokenOfRow
  <2>5. CASE cfg.token /\ pc' = "run" /\ cfg' = cfg
    <3>1. Readable /\ Disk.id = cfg.id /\ Disk.token /\ cfg.id \in rows
      BY <2>1, <2>5 DEF Recovers, TokenOfRow
    <3>2. RunsAsRegistered'
      BY <1>9, <2>1, <2>5, <3>1 DEF Same, RunsAsRegistered, Disk
    <3>3. Recovers'
      BY <2>5, <3>2 DEF Recovers
    <3> QED BY <2>3, <2>4, <3>3
  <2>6. CASE pc' = "down"
    BY <2>3, <2>4, <2>6 DEF Recovers, RunsAsRegistered
  <2> QED BY <2>1, <2>5, <2>6
<1>10. ASSUME Same, NEW u \in Savers, EditAndSave(u) PROVE Standing'
  <2>1. cfg'.id = cfg.id /\ cfg'.token = cfg.token
    BY <1>10, EditedOnce DEF EditAndSave, Shape, TypeOK
  <2>2. /\ io' = [io EXCEPT ![u] = "open"] /\ bytes' = [bytes EXCEPT ![u] = cfg']
        /\ pc = "run" /\ pc' = pc /\ rows' = rows
    BY <1>10 DEF EditAndSave, BeginSave
  <2>3. ~Saving(Main)'
    BY <1>b, <2>2 DEF Saving, Shape, TypeOK, Places
  <2>4. SameIdentity'
    BY <1>b, <2>1, <2>2, <2>3 DEF SameIdentity, Saving, Shape, TypeOK, Recovers
  <2> QED BY <1>10, <2>1, <2>2, <2>4 DEF Same, TokenOfRow, Recovers, RunsAsRegistered, Disk
<1>11. ASSUME Same, OpenConfig \/ CloseConfig \/ StopWaiting \/ UNCHANGED vars PROVE Standing'
  BY <1>2, <1>11 DEF OpenConfig, CloseConfig, StopWaiting, vars, saveVars, Saving
<1>12. ASSUME Same, Crash \/ Relaunch PROVE Standing'
  <2>1. ASSUME Crash PROVE \A t \in Threads : ~Saving(t)'
    BY <2>1 DEF Crash, Saving
  <2>2. ASSUME Relaunch PROVE \A t \in Threads : ~Saving(t)'
    BY <2>2 DEF Relaunch, Saving, Shape, Places, saveVars, Threads
  <2>3. /\ pc' \in {"down", "load"} /\ rows' = rows
        /\ \A t \in Threads : ~Saving(t)'
    BY <1>12, <2>1, <2>2 DEF Crash, Relaunch
  <2> QED BY <1>b, <1>12, <2>3 DEF Same, TokenOfRow, Recovers, RunsAsRegistered, SameIdentity
<1> QED
  BY <1>a, <1>1, <1>3, <1>4, <1>6, <1>7, <1>8, <1>9, <1>10, <1>11, <1>12 DEF Next, Save

LEMMA StandingInit == Init => Standing
  BY BlankIsConfig DEF Init, Standing, TokenOfRow, Recovers, RunsAsRegistered, SameIdentity,
                       Readable, Saving, Threads

LEMMA StartupStep == Startup /\ Exclusive /\ [Next]_vars => Startup'
  BY ShapeStep, NamedStep, FileStep, StandingStep DEF Startup

LEMMA StartupInit == Init => Startup
  BY ShapeInit, FilesInit, StandingInit DEF Startup, Init, Named

\* Whatever is lost, refused or cut short during its start, an agent that runs is
\* registered under its id, and has id and token on disk.
THEOREM RunsRegistered == Spec /\ []Exclusive => []RunsAsRegistered
<1>1. Startup => RunsAsRegistered
  BY DEF Startup, Standing, Recovers
<1> QED BY <1>1, StartupInit, StartupStep, PTL DEF Spec

\* The server has no device but the one on disk.  An agent that has read its file has
\* that id, and an id that is new is not yet on disk only while there is no device.
OnlyMine ==
    /\ \A r \in rows : Readable /\ Disk.id = r
    /\ pc \in {"flags", "identity"} /\ Readable => cfg.id = Disk.id
    /\ pc = "saveid" => rows = {}

LEMMA OnlyMineStep ==
    ASSUME ~ReadMayFail, Startup, Startup', Exclusive, OnlyMine, [Next]_vars
    PROVE  OnlyMine'
<1> DEFINE Same == (Readable' <=> Readable) /\ (Readable => Disk' = Disk)
<1>a. \/ Same /\ ~\E t \in Threads : RenameTmp(t)
      \/ \E t \in Threads : RenameTmp(t) /\ Readable' /\ Disk' = bytes[t]
  BY Readback DEF Startup
<1> HIDE DEF Same
<1> USE DEF Startup, Standing
<1>1. ASSUME NEW t \in Threads, RenameTmp(t) PROVE OnlyMine'
  <2>1. Readable' /\ Disk' = bytes[t] /\ Saving(t)
    BY <1>a, <1>1 DEF Exclusive, Saving, RenameTmp
  <2>2. rows' = rows /\ cfg' = cfg
    BY <1>1 DEF RenameTmp
  <2>3. CASE t = Main
    <3>1. Disk' = cfg /\ pc \in {"flags", "saveid", "savetoken"}
      BY <2>1, <2>3 DEF SameIdentity, Shape, Places
    <3>2. \A r \in rows : cfg.id = r
      BY <3>1 DEF OnlyMine, Recovers
    <3>3. pc' # "saveid"
      BY <1>1, <2>3, <3>1 DEF RenameTmp, Return
    <3> QED BY <2>1, <2>2, <3>1, <3>2, <3>3 DEF OnlyMine
  <2>4. CASE t # Main
    <3>1. t \in Savers /\ pc' = pc /\ pc = "run"
      BY <1>1, <2>1, <2>4 DEF RenameTmp, Return, Threads, Shape, Places
    <3>2. Disk'.id = cfg.id /\ Disk.id = cfg.id
      BY <2>1, <3>1 DEF SameIdentity, Recovers, RunsAsRegistered, Disk
    <3> QED BY <2>1, <2>2, <3>1, <3>2 DEF OnlyMine
  <2> QED BY <2>3, <2>4
<1>2. ASSUME Same, UNCHANGED <<cfg, pc, rows>> PROVE OnlyMine'
  BY <1>2 DEF Same, OnlyMine
<1>3. ASSUME Same, rows' = rows, pc' \in {"down", "load", "register", "run"} PROVE OnlyMine'
  BY <1>3 DEF Same, OnlyMine
<1>4. ASSUME Same, NEW t \in Threads, RenameRefused(t) \/ DiskFails(t) PROVE OnlyMine'
  <2>1. SaveFails(t) /\ rows' = rows
    BY <1>4 DEF RenameRefused, DiskFails, SaveFails
  <2>2. CASE t = Main
    BY <1>3, <1>4, <2>1, <2>2 DEF SaveFails, Return
  <2>3. CASE t # Main
    BY <1>2, <1>4, <2>1, <2>3 DEF SaveFails, Return
  <2> QED BY <2>2, <2>3
<1>5. ASSUME Same, Load PROVE OnlyMine'
  <2>1. Readable => cfg'.id = Disk.id
    <3>1. Readable => cfg' = [Disk EXCEPT !.edits = 0] /\ Disk \in Config
      BY <1>5 DEF Load, Readable, Disk
    <3> QED BY <3>1, Edited
  <2> QED BY <1>5, <2>1 DEF Load, Same, OnlyMine
<1>6. ASSUME Same, EnsureDeviceIdentity PROVE OnlyMine'
  <2>1. CASE cfg.id # Unset
    BY <1>3, <1>6, <2>1 DEF EnsureDeviceIdentity
  <2>2. CASE cfg.id = Unset
    <3>1. pc = "identity" /\ rows' = rows /\ pc' = "saveid"
      BY <1>6, <2>2 DEF EnsureDeviceIdentity
    <3>2. rows = {}
      BY <2>2, <3>1, ConfigAssumption DEF OnlyMine, Shape, TypeOK
    <3> QED BY <3>1, <3>2 DEF OnlyMine
  <2> QED BY <2>1, <2>2
<1>7. ASSUME Same, Registered \/ RegisterFails PROVE OnlyMine'
  <2>1. /\ rows' \in {rows, rows \cup {cfg.id}} /\ pc = "register"
        /\ pc' \in {"savetoken", "run", "down"}
    BY <1>7 DEF Registered, RegisterFails
  <2>2. Readable /\ Disk.id = cfg.id
    BY <2>1 DEF Recovers
  <2> QED BY <1>7, <2>1, <2>2 DEF Same, OnlyMine
<1>8. ASSUME Same, NEW u \in Savers, EditAndSave(u) PROVE OnlyMine'
  BY <1>3, <1>8 DEF EditAndSave
<1>9. ASSUME Same, Crash \/ Relaunch PROVE OnlyMine'
  BY <1>3, <1>9 DEF Crash, Relaunch
<1>10. ASSUME Same, OpenConfig \/ CloseConfig \/ StopWaiting \/ UNCHANGED vars PROVE OnlyMine'
  BY <1>2, <1>10 DEF OpenConfig, CloseConfig, StopWaiting, vars
<1>11. ASSUME Same, NEW t \in Threads, OpenTmp(t) \/ WriteTmp(t) PROVE OnlyMine'
  BY <1>2, <1>11 DEF OpenTmp, WriteTmp
<1> QED
  BY <1>a, <1>1, <1>4, <1>5, <1>6, <1>7, <1>8, <1>9, <1>10, <1>11 DEF Next, Save

\* However often the start is repeated, one device is registered, as long as an
\* agent.json that is there can be read.
THEOREM RegistersOnce ==
    ASSUME ~ReadMayFail
    PROVE  Spec /\ []Exclusive => []OneDevice
<1> DEFINE Inv == Startup /\ OnlyMine
<1>1. Init => Inv
  BY StartupInit DEF Init, OnlyMine, Readable
<1>2. Inv /\ Exclusive /\ [Next]_vars => Inv'
  BY StartupStep, OnlyMineStep
<1>3. Inv => OneDevice
  <2> SUFFICES ASSUME Inv PROVE OneDevice
    OBVIOUS
  <2>1. \A q, r \in rows : q = r
    BY DEF OnlyMine
  <2>2. CASE rows = {}
    BY <2>2, FS_EmptySet DEF OneDevice
  <2>3. CASE rows # {}
    <3>1. PICK r \in rows : rows = {r}
      BY <2>1, <2>3
    <3>2. Cardinality(rows) = 1
      BY <3>1, FS_Singleton
    <3> QED BY <3>2 DEF OneDevice
  <2> QED BY <2>2, <2>3
<1> HIDE DEF Inv
<1> QED BY <1>1, <1>2, <1>3, PTL DEF Spec

-----------------------------------------------------------------------------
(* Refinement                                                              *)

LEMMA AbstractFileStep ==
    ASSUME Shape, Shape', Named, OneWriter, Exclusive, [Next]_vars
    PROVE  [Saved!Next]_Saved!file
<1> DEFINE Left == agentFile' = agentFile /\ (agentFile # NoFile => data'[agentFile] = data[agentFile])
<1>a. \/ Left
      \/ \E t \in Threads : RenameTmp(t) /\ agentFile' \in Files /\ data'[agentFile'] = bytes[t]
  BY FileStep
<1>b. Left => Content' = Content
  BY DEF Content
<1>c. Main \in Threads /\ Savers \subseteq Threads
  BY DEF Threads
<1> HIDE DEF Left
<1>1. ASSUME Content' = Content, NEW c \in Config, Pending' = Pending \cup {c} PROVE Saved!Next
  BY <1>1 DEF Saved!Next, Saved!Offer, Content, Pending, Saving
<1>2. ASSUME Content' = Content, \A u \in Threads : Saving(u)' => Saving(u) /\ bytes'[u] = bytes[u]
      PROVE  Saved!Next
  <2>1. Pending' \subseteq Pending
    BY <1>2 DEF Pending
  <2> QED BY <1>2, <2>1 DEF Saved!Next, Saved!Withdraw, Content, Pending, Saving
<1>3. ASSUME Content' = Content, NEW t \in Threads, ~Saving(t), NEW c \in Config, BeginSave(t, c)
      PROVE  Saved!Next
  <2>1. /\ \A u \in Threads \ {t} : io'[u] = io[u] /\ bytes'[u] = bytes[u]
        /\ Saving(t)' /\ bytes'[t] = c
    BY <1>3, Begun DEF Saving
  <2>2. Pending' = Pending \cup {c}
    BY <1>3, <2>1 DEF Pending, Saving
  <2> QED BY <1>1, <1>3, <2>2
<1>4. ASSUME NEW t \in Threads, RenameTmp(t), agentFile' \in Files, data'[agentFile'] = bytes[t]
      PROVE  Saved!Next
  <2>1. Saving(t) /\ \A u \in Threads : Saving(u) => u = t
    BY <1>4 DEF RenameTmp, Exclusive, Saving
  <2>2. Pending = {bytes[t]}
    BY <2>1 DEF Pending
  <2>3. \A u \in Threads : ~Saving(u)'
    BY <1>4, <2>1 DEF RenameTmp, Return, Saving, Shape, TypeOK
  <2>4. Pending' = {}
    BY <2>3 DEF Pending
  <2>5. Content' = bytes[t]
    BY <1>4 DEF Content, Files, NoFile
  <2>6. bytes[t] \in Config
    BY DEF Shape, TypeOK
  <2> QED BY <2>2, <2>4, <2>5, <2>6 DEF Saved!Next, Saved!Commit, Content, Pending, Saving
<1>5. ASSUME Left, NEW t \in Threads, OpenTmp(t) \/ WriteTmp(t) PROVE Saved!Next
  BY <1>2, <1>5, <1>b DEF OpenTmp, WriteTmp, Saving, Shape, TypeOK
<1>6. ASSUME Left, NEW t \in Threads, RenameRefused(t) \/ DiskFails(t) PROVE Saved!Next
  BY <1>2, <1>6, <1>b DEF RenameRefused, DiskFails, SaveFails, Return, Saving, Shape, TypeOK
<1>7. ASSUME Left, UNCHANGED saveVars PROVE Saved!Next
  BY <1>2, <1>7, <1>b DEF saveVars, Saving
<1>8. ASSUME Left, Load \/ EnsureDeviceIdentity \/ Registered PROVE Saved!Next
  <2>1. ~Saving(Main)
    BY <1>8 DEF Load, EnsureDeviceIdentity, Registered, Shape, Places
  <2>2. cfg' \in Config
    BY DEF Shape, TypeOK
  <2>3. BeginSave(Main, cfg') \/ UNCHANGED saveVars
    BY <1>8 DEF Load, EnsureDeviceIdentity, Registered
  <2> QED BY <1>3, <1>7, <1>8, <1>b, <1>c, <2>1, <2>2, <2>3
<1>9. ASSUME Left, NEW u \in Savers, EditAndSave(u) PROVE Saved!Next
  BY <1>3, <1>9, <1>b, <1>c DEF EditAndSave, Saving, Shape, TypeOK
<1>10. ASSUME Left, RegisterFails \/ OpenConfig \/ CloseConfig \/ StopWaiting \/ Relaunch
       PROVE  Saved!Next
  BY <1>7, <1>10 DEF RegisterFails, OpenConfig, CloseConfig, StopWaiting, Relaunch
<1>11. ASSUME Left, Crash PROVE Saved!Next
  BY <1>2, <1>11, <1>b DEF Crash, Saving
<1>12. CASE UNCHANGED vars
  BY <1>12 DEF vars, fileVars, saveVars, Saved!file
<1>13. CASE Next
  <2>1. ASSUME NEW t \in Threads, RenameTmp(t) PROVE Saved!Next
    <3>1. \A u \in Threads : RenameTmp(u) => u = t
      BY <2>1 DEF RenameTmp, Exclusive, Saving
    <3>2. ~Left
      BY <2>1 DEF Left, RenameTmp, OneWriter, TmpIsMine
    <3> QED BY <1>a, <1>4, <2>1, <3>1, <3>2
  <2> QED BY <1>a, <1>4, <1>5, <1>6, <1>8, <1>9, <1>10, <1>11, <1>13, <2>1 DEF Next, Save
<1> QED BY <1>12, <1>13

\* However often the agent crashes or a save fails, agent.json changes only as the
\* abstract file does, as long as no two saves overlap.
THEOREM ConfigImplementsAtomicFile == Spec /\ []Exclusive => ImplementsAtomicFile
<1> DEFINE Inv == Shape /\ Named /\ OneWriter
<1>1. Init => Inv /\ Saved!Init
  <2>1. Init => Inv
    BY ShapeInit, FilesInit DEF Init, Named
  <2>2. Init => Saved!Init
    BY DEF Init, Saved!Init
  <2> QED BY <2>1, <2>2
<1>2. Inv /\ Exclusive /\ [Next]_vars => Inv'
  BY ShapeStep, NamedStep, FileStep
<1>3. Inv /\ Inv' /\ Exclusive /\ [Next]_vars => [Saved!Next]_Saved!file
  BY AbstractFileStep
<1> HIDE DEF Inv
<1> QED BY <1>1, <1>2, <1>3, PTL DEF Spec, ImplementsAtomicFile, Saved!Spec
=============================================================================
