--------------------------- MODULE InstallerProofs ---------------------------
(* Proofs about Installer: with Setup run at any moment next to an agent   *)
(* that updates itself, the executable is whole, and only Setup makes the  *)
(* agent older.                                                            *)
EXTENDS Installer, TLAPS

USE VersionAssumption, SetupAssumption

\* A process runs from the file its image is in, so what a rollback puts back is
\* the version that runs; and the executable is no older than the last process, or
\* what Setup put there.
Origin ==
    /\ ExeWhole
    /\ pc = "down" <=> running = None
    /\ image = "none" <=> running = None
    /\ image = "exe" => exe = running
    /\ image = "old" => old = running
    /\ pc \in {"install", "rollback"} => image = "old"
    /\ running # None => running = last
    /\ exe # None => exe >= last \/ placed
    /\ pc \in {"download", "copy", "remove", "aside", "install"} => target >= last
    /\ pc \in {"remove", "aside", "install"} => new = target

IInv == SetupTypeOK /\ Origin

\* A machine with an agent, or without one.
LEMMA InitEstablishes == SetupInit => IInv
<1> SUFFICES ASSUME SetupInit
             PROVE  IInv
  OBVIOUS
<1>1. /\ svc \in {"absent", "stopped", "wanted"}
      /\ hosted \in BOOLEAN /\ plugged \in BOOLEAN /\ driver \in BOOLEAN
      /\ upgrade \in BOOLEAN /\ placed \in BOOLEAN
  BY DEF SetupInit
<1>2. setup = "ended" /\ bundle \in Versions /\ setups \in 0..MaxSetups
  BY DEF SetupInit
<1>3. ASSUME Init
      PROVE  TypeOK /\ Origin
  BY <1>3 DEF Init, TypeOK, Origin, ExeWhole, Versions, Content, None, Partial
<1>4. ASSUME Fresh
      PROVE  TypeOK /\ Origin
  BY <1>2, <1>4 DEF Fresh, TypeOK, Origin, ExeWhole, Versions, Content, None, Partial
<1>5. TypeOK /\ Origin
  BY <1>3, <1>4 DEF SetupInit
<1>6. QED
  BY <1>1, <1>2, <1>5 DEF IInv, SetupTypeOK

\* What an agent does about releases and downloads leaves the files it runs from.
LEMMA DownloadKeeps ==
  ASSUME IInv, CheckUpdate \/ Download \/ Postpone \/ \E v \in Versions : Release(v),
         placed' = placed, UNCHANGED <<svc, machineVars, setupVars>>
  PROVE  IInv'
  BY DEF IInv, Origin, SetupTypeOK, TypeOK, ExeWhole, Versions, Content, None, Partial, files,
         machineVars, setupVars, CheckUpdate, Newer, Download, RequestFails, CreateNew,
         CopyBody, CopyFails, Postpone, Release

\* Each renaming ends with an executable that is no older, or with none.
LEMMA SwapKeeps ==
  ASSUME IInv, Swap, placed' = (placed /\ ~(Install \/ Rollback)),
         UNCHANGED <<svc, machineVars, setupVars>>
  PROVE  IInv'
<1> USE DEF IInv, Origin, SetupTypeOK, TypeOK, ExeWhole, Versions, Content, None, Partial,
            files, machineVars, setupVars
<1>1. CASE RemoveOld \/ MoveAsideFails
  <2>1. placed' \in BOOLEAN /\ (placed' => placed)
    OBVIOUS
  <2>2. ~Install /\ ~Rollback
    BY <1>1 DEF RemoveOld, MoveAsideFails, Install, Rollback
  <2>3. QED
    BY <1>1, <2>2 DEF RemoveOld, MoveAsideFails
<1>2. CASE MoveAside
  BY <1>2 DEF MoveAside
<1>3. CASE Install
  BY <1>3 DEF Install
<1>4. CASE Rollback
  BY <1>4 DEF Rollback
<1>5. CASE InstallFails \/ RollbackFails
  <2>1. placed' = placed
    BY <1>5 DEF InstallFails, RollbackFails, Install, Rollback
  <2>2. QED
    BY <1>5, <2>1 DEF InstallFails, RollbackFails
<1>6. QED
  BY <1>1, <1>2, <1>3, <1>4, <1>5 DEF Swap

LEMMA AgentRunsKeeps ==
  ASSUME IInv, AgentRuns
  PROVE  IInv'
<1>1. CASE Swap
  BY <1>1, SwapKeeps DEF AgentRuns
<1>2. CASE CheckUpdate \/ Download \/ Postpone \/ \E v \in Versions : Release(v)
  <2>1. ~Install /\ ~Rollback
    BY <1>2 DEF IInv, Origin, SetupTypeOK, TypeOK, CheckUpdate, Download, RequestFails,
                CreateNew, CopyBody, CopyFails, Postpone, Release, Install, Rollback
  <2>2. placed' = placed
    BY <2>1 DEF AgentRuns, IInv, SetupTypeOK
  <2>3. QED
    BY <1>2, <2>2, DownloadKeeps DEF AgentRuns
<1>3. QED
  BY <1>1, <1>2 DEF AgentRuns

\* The process ends, with whatever it was doing.
LEMMA DeathKeeps ==
  ASSUME IInv, Die \/ UNCHANGED vars, placed' = placed,
         svc' \in {"absent", "stopped", "wanted"}, UNCHANGED machineVars,
         setup' \in {"files", "driver", "install", "start", "verify", "deinit", "ended"},
         bundle' \in Versions, upgrade' \in BOOLEAN, setups' \in 0..MaxSetups
  PROVE  IInv'
  BY DEF Die, vars, IInv, Origin, SetupTypeOK, TypeOK, ExeWhole, Versions, Content, None, Partial,
         files, machineVars

\* The service starts what is there.
LEMMA LaunchKeeps ==
  ASSUME IInv, Launch
  PROVE  IInv'
<1>1. TypeOK' /\ Origin'
  BY DEF Launch, Relaunch, IInv, Origin, SetupTypeOK, TypeOK, ExeWhole, Versions, Content, None,
         Partial, files
<1>2. placed' = FALSE /\ UNCHANGED <<svc, machineVars, setupVars>>
  BY DEF Launch
<1>3. QED
  BY <1>1, <1>2 DEF IInv, SetupTypeOK, machineVars, setupVars

\* After a power loss nothing runs.
LEMMA PowerLossKeeps ==
  ASSUME IInv, PowerLoss
  PROVE  IInv'
  BY DEF PowerLoss, IInv, Origin, SetupTypeOK, TypeOK, ExeWhole, Versions, Content, None, Partial,
         files, machineVars

\* Setup only ever puts a whole executable in place, and not under a running one.
LEMMA InstallFilesKeeps ==
  ASSUME IInv, InstallFiles
  PROVE  IInv'
  BY DEF InstallFiles, IInv, Origin, SetupTypeOK, TypeOK, ExeWhole, Versions, Content, None, Partial

\* The other steps of Setup are about the service and the driver.
LEMMA SetupStepKeeps ==
  ASSUME IInv, PrepareToInstall \/ CancelSetup \/ BindDriver \/ InstallService \/ StartService
                 \/ VerifyFeeding \/ DeinitializeSetup
  PROVE  IInv'
<1>1. CASE PrepareToInstall
  BY <1>1, DeathKeeps DEF PrepareToInstall, IInv, SetupTypeOK, machineVars
<1>2. CASE CancelSetup \/ BindDriver \/ InstallService \/ StartService
             \/ VerifyFeeding \/ DeinitializeSetup
  <2>1. driver' \in BOOLEAN /\ svc' \in {"absent", "stopped", "wanted"}
        /\ UNCHANGED <<vars, hosted, plugged, bundle, upgrade, setups, placed>>
        /\ setup' \in {"files", "driver", "install", "start", "verify", "deinit", "ended"}
    BY <1>2 DEF IInv, SetupTypeOK, SetupStep, CancelSetup, BindDriver, InstallService,
                StartService, VerifyFeeding, DeinitializeSetup
  <2>2. QED
    BY <2>1 DEF vars, files, IInv, Origin, SetupTypeOK, TypeOK, ExeWhole, Versions, Content
<1>3. QED
  BY <1>1, <1>2

\* Every step keeps the invariant.
LEMMA StepKeeps ==
  ASSUME IInv, [SetupNext]_installVars
  PROVE  IInv'
<1>1. CASE AgentDies
  BY <1>1, DeathKeeps DEF AgentDies, IInv, SetupTypeOK, setupVars
<1>2. CASE PlugOrUnplug \/ UNCHANGED installVars
  <2>1. /\ UNCHANGED <<vars, svc, hosted, driver, setupVars, placed>>
        /\ plugged' \in BOOLEAN
    BY <1>2 DEF PlugOrUnplug, installVars, machineVars, IInv, SetupTypeOK
  <2>2. QED
    BY <2>1 DEF vars, files, setupVars, IInv, Origin, SetupTypeOK, TypeOK, ExeWhole, Versions, Content
<1>3. QED
  BY <1>1, <1>2, AgentRunsKeeps, LaunchKeeps, PowerLossKeeps, InstallFilesKeeps, SetupStepKeeps
     DEF SetupNext, Setup

\* The types and the invariant hold in every reachable state.
LEMMA Inductive == SetupSpec => []IInv
<1>1. IInv /\ [SetupNext]_installVars => IInv'
  BY StepKeeps
<1>2. QED
  BY InitEstablishes, <1>1, PTL DEF SetupSpec

\* Type correctness, for any number of releases and setups.
THEOREM SetupTypeCorrect == SetupSpec => []SetupTypeOK
<1>1. IInv => SetupTypeOK
  BY DEF IInv
<1>2. QED
  BY Inductive, <1>1, PTL

\* Neither a failed download nor a setup that replaces files under an agent in the
\* middle of its own renames makes a partial file the executable.
THEOREM ExeStaysWhole == SetupSpec => []ExeWhole
<1>1. IInv => ExeWhole
  BY DEF IInv, Origin
<1>2. QED
  BY Inductive, <1>1, PTL

\* An agent starts older than the one before it only as what Setup put in place:
\* no self-update, rollback or withdrawn release does it, whenever Setup ran.
THEOREM DowngradesAreSetups == SetupSpec => OnlySetupDowngrades
<1>1. IInv /\ [SetupNext]_installVars => [last' >= last \/ placed]_installVars
  <2> SUFFICES ASSUME IInv, SetupNext
               PROVE  last' >= last \/ placed
    BY DEF installVars
  <2>1. CASE Launch
    BY <2>1 DEF Launch, Relaunch, IInv, Origin
  <2>2. CASE ~Launch
    <3>1. last' = last
      BY <2>2 DEF SetupNext, AgentRuns, AgentDies, PowerLoss, PlugOrUnplug, PrepareToInstall,
                  Setup, InstallFiles, CancelSetup, BindDriver, InstallService, StartService,
                  VerifyFeeding, DeinitializeSetup, SetupStep, vars, Release, CheckUpdate,
                  Download, Swap, RequestFails, CreateNew, CopyBody, CopyFails, RemoveOld,
                  MoveAside, MoveAsideFails, Install, InstallFails, Rollback, RollbackFails,
                  Postpone, Die
    <3>2. QED
      BY <3>1 DEF IInv, SetupTypeOK, TypeOK, Versions
  <2>3. QED
    BY <2>1, <2>2
<1>2. QED
  BY Inductive, <1>1, PTL DEF SetupSpec, OnlySetupDowngrades
=============================================================================
