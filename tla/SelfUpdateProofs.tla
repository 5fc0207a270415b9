--------------------------- MODULE SelfUpdateProofs ---------------------------
(* Proofs about SelfUpdate: a partial download is never installed, and the  *)
(* agent never goes back to an older version, whatever fails on the way.    *)
EXTENDS SelfUpdate, TLAPS

USE VersionAssumption

\* What the inductive argument is about: the types and the invariant together.
IInv == TypeOK /\ Inv

\* Every process starts from a complete executable with nothing under way.
LEMMA InitEstablishes == Init => IInv
  BY DEF Init, IInv, TypeOK, Inv, ExeWhole, Versions, Content, None, Partial

\* Downloading touches only the ".new" file, and leaves it complete if it goes on.
LEMMA DownloadKeeps ==
  ASSUME IInv, CheckUpdate \/ Download
  PROVE  IInv'
  BY DEF IInv, TypeOK, Inv, ExeWhole, Versions, Content, None, Partial, files,
         CheckUpdate, Newer, Download, RequestFails, CreateNew, CopyBody, CopyFails

\* Each renaming keeps a version at least as new as the last process, either as
\* the executable or as the file the rollback puts back.
LEMMA SwapKeeps ==
  ASSUME IInv, Swap
  PROVE  IInv'
<1>1. CASE RemoveOld \/ MoveAsideFails
  BY <1>1 DEF IInv, TypeOK, Inv, ExeWhole, Versions, Content, None, Partial, files,
              RemoveOld, MoveAsideFails
<1>2. CASE MoveAside
  BY <1>2 DEF IInv, TypeOK, Inv, ExeWhole, Versions, Content, None, Partial, files, MoveAside
<1>3. CASE Install \/ InstallFails
  BY <1>3 DEF IInv, TypeOK, Inv, ExeWhole, Versions, Content, None, Partial, files,
              Install, InstallFails
<1>4. CASE Rollback \/ RollbackFails
  BY <1>4 DEF IInv, TypeOK, Inv, ExeWhole, Versions, Content, None, Partial, files,
              Rollback, RollbackFails
<1>5. QED
  BY <1>1, <1>2, <1>3, <1>4 DEF Swap

\* Dying leaves the files as they are, and a relaunch takes the executable.
LEMMA ProcessKeeps ==
  ASSUME IInv, Postpone \/ Die \/ Relaunch
  PROVE  IInv'
  BY DEF IInv, TypeOK, Inv, ExeWhole, Versions, Content, None, Partial, files,
         Postpone, Die, Relaunch

\* Every step keeps the invariant.
LEMMA StepKeeps ==
  ASSUME IInv, [Next]_vars
  PROVE  IInv'
<1>1. CASE \E v \in Versions : Release(v)
  BY <1>1 DEF Release, IInv, TypeOK, Inv, ExeWhole, files
<1>2. CASE UNCHANGED vars
  BY <1>2 DEF vars, IInv, TypeOK, Inv, ExeWhole, files
<1>3. QED
  BY <1>1, <1>2, DownloadKeeps, SwapKeeps, ProcessKeeps DEF Next

\* The types and the invariant hold in every reachable state.
LEMMA Inductive == Spec => []IInv
<1>1. IInv /\ [Next]_vars => IInv'
  BY StepKeeps
<1>2. QED
  BY InitEstablishes, <1>1, PTL DEF Spec

\* Type correctness.
THEOREM TypeCorrect == Spec => []TypeOK
<1>1. IInv => TypeOK
  BY DEF IInv
<1>2. QED
  BY Inductive, <1>1, PTL

\* The executable is a complete binary or absent, for any number of releases,
\* failed downloads, failed renamings and crashes (selfUpdate in update.go).
THEOREM ExeAlwaysWhole == Spec => []ExeWhole
<1>1. IInv => ExeWhole
  BY DEF IInv, Inv
<1>2. QED
  BY Inductive, <1>1, PTL

\* No relaunch goes back to an older version than the process before it.
THEOREM VersionsNeverFall == Spec => NeverDowngrades
<1>1. IInv /\ [Next]_vars => [last' >= last]_vars
  <2> SUFFICES ASSUME IInv, Next
               PROVE  last' >= last
    BY DEF vars
  <2>1. CASE Relaunch
    BY <2>1 DEF Relaunch, IInv, Inv
  <2>2. CASE ~Relaunch
    <3>1. last' = last
      BY <2>2 DEF Next, Release, CheckUpdate, Download, Swap, RequestFails, CreateNew,
                  CopyBody, CopyFails, RemoveOld, MoveAside, MoveAsideFails, Install,
                  InstallFails, Rollback, RollbackFails, Postpone, Die
    <3>2. QED
      BY <3>1 DEF IInv, TypeOK, Versions
  <2>3. QED
    BY <2>1, <2>2
<1>2. QED
  BY Inductive, <1>1, PTL DEF Spec, NeverDowngrades
=============================================================================
