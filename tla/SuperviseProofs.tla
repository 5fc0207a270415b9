--------------------------- MODULE SuperviseProofs ---------------------------
(***************************************************************************)
(* Proofs about the supervisors, for any number of them in any roles and   *)
(* any number of failures: types, and that an agent leaves no decoder      *)
(* process behind when it dies outside the window its comment accepts.     *)
(***************************************************************************)
EXTENDS Supervise, TLAPS

\* As much of the type invariant as the proof needs.
Shape ==
    /\ count \in Nat
    /\ DOMAIN at = Sups
    /\ DOMAIN started = Sups
    /\ \A p \in alive : p[1] \in Sups

IInv == Shape /\ Inv

LEMMA InitInv == Init => IInv
BY DEF Init, IInv, Shape, Inv, Supervising

\* A supervisor that moves on other than from and to "assign" disturbs nothing, if
\* it has started no process.
LEMMA Moves ==
    ASSUME IInv, NEW s \in Sups, NEW l, l \notin {"unused"}, Goto(s, l),
           at[s] # "assign", Supervising(s),
           killed \subseteq killed', UNCHANGED <<agent, count, alive, job>>,
           \A q \in Sups : q # s => started'[q] = started[q], DOMAIN started' = Sups
    PROVE  IInv'
<1>1. Shape'
  BY DEF IInv, Shape, Goto
<1>2. agent
  BY DEF IInv, Inv
<1>3. ASSUME NEW p \in alive' \ killed' PROVE Covered(p)'
  <2>1. p \in alive \ killed /\ p[1] \in Sups
    BY <1>3 DEF IInv, Shape
  <2>2. Covered(p)
    BY <2>1 DEF IInv, Inv
  <2>3. CASE p \in job
    BY <1>2, <2>3 DEF Covered
  <2>4. CASE at[p[1]] = "assign" /\ p = Last(p[1])
    BY <1>2, <2>1, <2>4 DEF Covered, Last, Goto, IInv, Shape
  <2> QED BY <2>2, <2>3, <2>4 DEF Covered
<1>4. ASSUME NEW q \in Sups, q > count' PROVE at'[q] = "unused"
  BY <1>4 DEF IInv, Inv, Shape, Goto, Supervising
<1> QED BY <1>1, <1>2, <1>3, <1>4 DEF IInv, Inv

\* A supervisor is started where there was none.
LEMMA Begins ==
    ASSUME IInv, NEW s \in Sups, Begin(s), UNCHANGED <<agent, started, procVars>>
    PROVE  IInv'
<1>1. agent /\ agent' /\ s = count + 1 /\ count' = s /\ at[s] = "unused"
  BY DEF Begin, IInv, Inv, Shape, Sups
<1>2. Shape'
  BY <1>1 DEF IInv, Shape, Begin, Goto, procVars, Sups
<1>3. ASSUME NEW p \in alive' \ killed' PROVE Covered(p)'
  <2>1. p \in alive \ killed /\ p[1] \in Sups /\ Covered(p)
    BY <1>3 DEF IInv, Shape, Inv, procVars
  <2> QED BY <1>1, <2>1 DEF Covered, Last, Begin, Goto, IInv, Shape, procVars
<1>4. ASSUME NEW q \in Sups, q > count' PROVE at'[q] = "unused"
  BY <1>1, <1>4 DEF IInv, Inv, Shape, Begin, Goto, Sups
<1> QED BY <1>1, <1>2, <1>3, <1>4 DEF IInv, Inv

\* A process that ends takes nothing with it.
LEMMA Ends ==
    ASSUME IInv, NEW p \in Processes, Ended(p), UNCHANGED <<agent, count, at, started>>
    PROVE  IInv'
<1>1. Shape'
  BY DEF IInv, Shape, Ended
<1>2. ASSUME NEW q \in alive' \ killed' PROVE Covered(q)'
  <2>1. q \in alive \ killed /\ q # p /\ Covered(q)
    BY <1>2 DEF Ended, IInv, Inv
  <2> QED BY <2>1 DEF Covered, Last, Ended
<1> QED BY <1>1, <1>2 DEF IInv, Inv, Supervising

\* The steps of a supervisor.
LEMMA SupervisorStep ==
    ASSUME IInv, NEW s \in Sups, Supervisor(s)
    PROVE  IInv'
<1>1. CASE Start(s)
  <2>1. agent /\ agent' /\ at[s] = "start" /\ at'[s] = "assign"
    BY <1>1 DEF Start, Goto, mgrVars, IInv, Inv, Shape, Supervising
  <2>2. alive' = alive \cup {Last(s)'}
    BY <1>1 DEF Start, Last, IInv, Shape
  <2>3. Last(s)'[1] = s
    BY DEF Last
  <2>4. Shape'
    BY <1>1, <2>2, <2>3 DEF Start, Goto, mgrVars, IInv, Shape
  <2>5. ASSUME NEW p \in alive' \ killed' PROVE Covered(p)'
    <3>1. CASE p = Last(s)'
      BY <2>1, <2>3, <3>1 DEF Covered
    <3>2. CASE p \in alive
      <4>1. p \in alive \ killed /\ p[1] \in Sups /\ Covered(p)
        BY <1>1, <2>5, <3>2 DEF Start, IInv, Shape, Inv
      <4> QED BY <1>1, <2>1, <4>1 DEF Covered, Last, Start, Goto, IInv, Shape
    <3> QED BY <2>2, <3>1, <3>2
  <2>6. ASSUME NEW q \in Sups, q > count' PROVE at'[q] = "unused"
    BY <1>1, <2>1, <2>6 DEF Start, Goto, mgrVars, IInv, Inv, Shape
  <2> QED BY <2>1, <2>4, <2>5, <2>6 DEF IInv, Inv
<1>2. CASE AssignChildToJob(s)
  <2>1. agent /\ agent' /\ at[s] = "assign"
    BY <1>2 DEF AssignChildToJob, mgrVars, IInv, Inv, Supervising
  <2>2. PICK l \in {"start", "dial", "run"} : Goto(s, l)
    BY <1>2 DEF AssignChildToJob
  <2>3. Shape'
    BY <1>2, <2>2 DEF AssignChildToJob, Goto, mgrVars, IInv, Shape
  <2>4. ASSUME NEW p \in alive' \ killed' PROVE Covered(p)'
    <3>1. p \in alive \ killed /\ p[1] \in Sups /\ Covered(p)
      BY <1>2, <2>4 DEF AssignChildToJob, IInv, Shape, Inv
    <3>2. CASE p \in job \/ (p[1] = s /\ p = Last(s))
      BY <1>2, <2>1, <3>1, <3>2 DEF AssignChildToJob, Covered
    <3>3. CASE p[1] # s
      BY <1>2, <2>1, <2>2, <3>1, <3>3 DEF AssignChildToJob, Covered, Last, Goto, IInv, Shape
    <3> QED BY <3>1, <3>2, <3>3 DEF Covered
  <2>5. ASSUME NEW q \in Sups, q > count' PROVE at'[q] = "unused"
    BY <1>2, <2>1, <2>2, <2>5 DEF AssignChildToJob, Goto, mgrVars, IInv, Inv, Shape
  <2> QED BY <2>1, <2>3, <2>4, <2>5 DEF IInv, Inv
<1>3. CASE StartFails(s) \/ Dial(s) \/ RunEnds(s) \/ Retry(s)
  <2>1. PICK l \in {"start", "run", "kill", "done"} : Goto(s, l)
    BY <1>3 DEF StartFails, Dial, RunEnds, Retry
  <2>2. at[s] # "assign" /\ Supervising(s)
    BY <1>3 DEF StartFails, Dial, RunEnds, Retry, Supervising
  <2>3. UNCHANGED <<agent, count, alive, job, killed, started>>
    BY <1>3 DEF StartFails, Dial, RunEnds, Retry, mgrVars, procVars
  <2> QED BY <2>1, <2>2, <2>3, Moves DEF IInv, Shape
<1>4. CASE Cleanup(s)
  <2>1. Goto(s, "wait") /\ at[s] # "assign" /\ Supervising(s)
    BY <1>4 DEF Cleanup, Supervising
  <2>2. killed \subseteq killed' /\ UNCHANGED <<agent, count, alive, job, started>>
    BY <1>4 DEF Cleanup, mgrVars
  <2> QED BY <2>1, <2>2, Moves DEF IInv, Shape
<1>5. CASE CleanedUp(s)
  <2>1. PICK l \in {"done", "backoff"} : Goto(s, l)
    BY <1>5 DEF CleanedUp
  <2>2. at[s] # "assign" /\ Supervising(s)
    BY <1>5 DEF CleanedUp, Supervising
  <2>3. UNCHANGED <<agent, count, alive, job, killed>>
    BY <1>5 DEF CleanedUp, mgrVars, procVars
  <2>4. DOMAIN started' = Sups /\ \A q \in Sups : q # s => started'[q] = started[q]
    BY <1>5 DEF CleanedUp, IInv, Shape
  <2> QED BY <2>1, <2>2, <2>3, <2>4, Moves
<1> QED BY <1>1, <1>2, <1>3, <1>4, <1>5 DEF Supervisor

\* The steps of the processes.
LEMMA ProcessStep ==
    ASSUME IInv, NEW p \in Processes, Process(p) \/ Crash(p)
    PROVE  IInv'
<1>1. CASE Exit(p) \/ Crash(p)
  BY <1>1, Ends DEF Exit, Crash, mgrVars
<1>2. CASE Claim(p)
  <2>1. CASE holder = 0
    BY <1>2, <2>1 DEF Claim, mgrVars, IInv, Shape, Inv, Covered, Last, Supervising
  <2>2. CASE holder # 0
    BY <1>2, <2>2, Ends DEF Claim, mgrVars
  <2> QED BY <2>1, <2>2
<1>3. CASE KillCancelled(p)
  BY <1>3 DEF KillCancelled, mgrVars, IInv, Shape, Inv, Covered, Last, Supervising
<1> QED BY <1>1, <1>2, <1>3 DEF Process

\* The death of the agent: its job ends what is in it, and nothing else is left.
LEMMA AgentDiesStep ==
    ASSUME IInv, AgentDies, ~RaceInWindow
    PROVE  IInv'
<1>1. \A s \in Sups : at[s] # "assign"
  BY DEF AgentDies
<1>2. alive' \ killed' = {}
  BY <1>1 DEF AgentDies, IInv, Inv, Shape, Covered
<1>3. DOMAIN at' = Sups /\ \A s \in Sups : at'[s] = IF Supervising(s) THEN "gone" ELSE at[s]
  BY DEF AgentDies
<1>4. ASSUME NEW s \in Sups PROVE ~Supervising(s)' /\ (s > count' => at'[s] = "unused")
  BY <1>3 DEF AgentDies, Supervising, IInv, Inv
<1>5. Shape'
  BY <1>3 DEF AgentDies, IInv, Shape
<1> QED BY <1>2, <1>4, <1>5 DEF IInv, Inv

LEMMA NextInv ==
    ASSUME IInv, [Next]_vars, ~RaceInWindow
    PROVE  IInv'
<1>1. ASSUME NEW s \in Sups, Schedule(s) \/ Recycle(s) PROVE IInv'
  BY <1>1, Begins DEF Schedule, Recycle, procVars
<1>2. ASSUME NEW s \in Sups, Cancel(s) PROVE IInv'
  BY <1>2 DEF Cancel, procVars, IInv, Shape, Inv, Covered, Last, Supervising
<1>3. CASE AgentDies
  BY <1>3, AgentDiesStep
<1>4. CASE AgentStarts
  BY <1>4 DEF AgentStarts, procVars, IInv, Shape, Inv, Covered, Last, Supervising
<1>5. CASE UNCHANGED vars
  BY <1>5 DEF vars, mgrVars, procVars, IInv, Shape, Inv, Covered, Last, Supervising
<1> QED BY <1>1, <1>2, <1>3, <1>4, <1>5, SupervisorStep, ProcessStep DEF Next, Manager

\* However many decoders were started in whatever roles, an agent that dies outside
\* the accepted window leaves no process that is not on its way out.
THEOREM NothingOrphaned == ~RaceInWindow => (Spec => []NoOrphans)
<1> SUFFICES ASSUME ~RaceInWindow PROVE Spec => []NoOrphans
  OBVIOUS
<1>1. IInv => NoOrphans
  BY DEF IInv, Inv, NoOrphans, Covered
<1>2. IInv /\ [Next]_vars => IInv'
  BY NextInv
<1> QED BY InitInv, <1>1, <1>2, PTL DEF Spec

-----------------------------------------------------------------------------
(* Types                                                                   *)

\* A pipeline is never started further than its length: a supervisor that is about
\* to start a process has one left, because it starts over only after a cleanup
\* (agent/uat.go:98-104).
Place(s) ==
    /\ started[s] <= Len(Pipeline(Role[s]))
    /\ at[s] \in {"unused", "backoff"} => started[s] = 0
    /\ at[s] = "start" => ~Complete(s)
    /\ s > count => at[s] = "unused"

Typed == TypeOK /\ \A s \in Sups : Place(s)

LEMMA Pipelines ==
    ASSUME NEW s \in Sups
    PROVE  /\ Len(Pipeline(Role[s])) \in 1..3
           /\ \A k \in 1..Len(Pipeline(Role[s])) : Pipeline(Role[s])[k] \in Stages
<1>1. CASE Role[s] = "uat"
  <2>1. Pipeline(Role[s]) = <<"convert", "demod", "rtl">>
    BY <1>1 DEF Pipeline
  <2> QED BY <2>1 DEF Stages
<1>2. CASE Role[s] # "uat"
  <2>1. Pipeline(Role[s]) = <<"rtl">>
    BY <1>2 DEF Pipeline
  <2> QED BY <2>1 DEF Stages
<1> QED BY <1>1, <1>2

LEMMA NothingStarted ==
    ASSUME NEW s \in Sups, started[s] = 0
    PROVE  ~Complete(s)
<1> DEFINE stages == Len(Pipeline(Role[s]))
<1>1. stages \in 1..3
  BY Pipelines
<1>2. stages # 0
  <2> HIDE DEF stages
  <2> QED BY <1>1
<1> QED BY <1>2, Zenon DEF Complete

\* A process that ends was alive, and is no longer told to die, in the job or holding
\* the dongle.
LEMMA EndsTyped ==
    ASSUME Typed, NEW p \in Processes, Ended(p), UNCHANGED <<mgrVars, at, started>>,
           faults' \in 0..MaxFaults
    PROVE  Typed'
<1>1. TypeOK'
  BY DEF Typed, TypeOK, Ended, mgrVars
<1>2. ASSUME NEW s \in Sups PROVE Place(s)'
  BY DEF Typed, Place, Complete, mgrVars
<1> QED BY <1>1, <1>2 DEF Typed

LEMMA FaultTyped == faults \in 0..MaxFaults /\ Fault => faults' \in 0..MaxFaults
  BY SuperviseAssumption DEF Fault

\* A supervisor moves to l, without starting anything.
LEMMA MovesTyped ==
    ASSUME Typed, NEW s \in Sups, s <= count,
           NEW l \in {"start", "dial", "run", "kill", "wait", "backoff", "done"}, Goto(s, l),
           l = "start" => ~Complete(s), l # "backoff",
           UNCHANGED <<mgrVars, started, alive, holder>>, faults' \in 0..MaxFaults,
           killed' \subseteq alive, job' \subseteq alive
    PROVE  Typed'
<1>1. TypeOK'
  BY DEF Typed, TypeOK, Goto, mgrVars
<1>2. ASSUME NEW q \in Sups PROVE Place(q)'
  <2>1. Place(q) /\ started' = started /\ count' = count /\ q \in DOMAIN at
    BY DEF Typed, TypeOK, mgrVars
  <2>2. CASE q = s
    <3>1. at'[s] = l /\ count \in Nat /\ s \in Nat
      BY <2>1, <2>2, SuperviseAssumption DEF Goto, Typed, TypeOK, Sups
    <3>2. ~(s > count)
      BY <3>1
    <3> QED BY <2>1, <2>2, <3>1, <3>2 DEF Place, Complete
  <2>3. CASE q # s
    <3>1. at'[q] = at[q]
      BY <2>1, <2>3 DEF Goto
    <3> QED BY <2>1, <3>1 DEF Place, Complete
  <2> QED BY <2>2, <2>3
<1> QED BY <1>1, <1>2 DEF Typed

LEMMA SupervisorTyped ==
    ASSUME Typed, NEW s \in Sups, Supervisor(s)
    PROVE  Typed'
<1>0. /\ Place(s)
      /\ at[s] # "unused" => s <= count
      /\ faults \in 0..MaxFaults
      /\ killed \subseteq alive
      /\ job \subseteq alive
  BY SuperviseAssumption DEF Typed, TypeOK, Place, Sups
<1>1. CASE Start(s)
  <2>1. started[s] + 1 \in 1..Len(Pipeline(Role[s]))
    BY <1>0, <1>1, Pipelines DEF Start, Place, Complete, Typed, TypeOK
  <2>2. /\ Pipeline(Role[s])[started[s] + 1] \in Stages
        /\ started[s] + 1 \in 0..3
    BY <2>1, Pipelines
  <2>3. TypeOK'
    BY <1>1, <2>2 DEF Start, Goto, Typed, TypeOK, mgrVars, Processes
  <2>4. ASSUME NEW q \in Sups PROVE Place(q)'
    BY <1>0, <1>1, <2>1 DEF Start, Goto, Typed, TypeOK, Place, Complete, mgrVars
  <2> QED BY <2>3, <2>4 DEF Typed
<1>2. CASE AssignChildToJob(s)
  <2>1. PICK l \in {"start", "dial", "run"} : Goto(s, l) /\ (l = "start" => ~Complete(s))
    BY <1>2 DEF AssignChildToJob
  <2>2. /\ UNCHANGED <<mgrVars, started, alive, holder>> /\ faults' \in 0..MaxFaults
        /\ killed' \subseteq alive /\ job' \subseteq alive /\ s <= count
    BY <1>0, <1>2 DEF AssignChildToJob, mgrVars
  <2> QED BY <2>1, <2>2, MovesTyped
<1>3. CASE StartFails(s) \/ Dial(s) \/ RunEnds(s)
  <2>1. PICK l \in {"run", "kill"} : Goto(s, l)
    BY <1>3 DEF StartFails, Dial, RunEnds
  <2>2. faults' \in 0..MaxFaults
    BY <1>0, <1>3, FaultTyped DEF StartFails, Dial, RunEnds
  <2>3. /\ UNCHANGED <<mgrVars, started, alive, holder>>
        /\ killed' \subseteq alive /\ job' \subseteq alive /\ s <= count
    BY <1>0, <1>3 DEF StartFails, Dial, RunEnds, procVars, mgrVars
  <2> QED BY <2>1, <2>2, <2>3, MovesTyped
<1>4. CASE Cleanup(s)
  <2>1. /\ UNCHANGED <<mgrVars, started, alive, holder>> /\ faults' \in 0..MaxFaults
        /\ killed' \subseteq alive /\ job' \subseteq alive /\ s <= count /\ Goto(s, "wait")
    BY <1>0, <1>4 DEF Cleanup, Mine, mgrVars
  <2> QED BY <2>1, MovesTyped
<1>5. CASE CleanedUp(s)
  <2>1. TypeOK'
    BY <1>5 DEF CleanedUp, Goto, Typed, TypeOK, mgrVars, procVars
  <2>2. ASSUME NEW q \in Sups PROVE Place(q)'
    BY <1>0, <1>5, Pipelines DEF CleanedUp, Goto, Typed, TypeOK, Place, Complete, mgrVars
  <2> QED BY <2>1, <2>2 DEF Typed
<1>6. CASE Retry(s)
  <2>1. at[s] = "backoff" /\ started[s] = 0 /\ ~Complete(s)
    BY <1>0, <1>6, NothingStarted DEF Retry, Place
  <2>2. PICK l \in {"start", "done"} : Goto(s, l)
    BY <1>6 DEF Retry
  <2>3. /\ UNCHANGED <<mgrVars, started, alive, holder>> /\ faults' \in 0..MaxFaults
        /\ killed' \subseteq alive /\ job' \subseteq alive /\ s <= count
    BY <1>0, <1>6, <2>1 DEF Retry, procVars, mgrVars
  <2> QED BY <2>1, <2>2, <2>3, MovesTyped
<1> QED BY <1>1, <1>2, <1>3, <1>4, <1>5, <1>6 DEF Supervisor

\* The variables of agent, supervisors and processes keep their types, with or without
\* the race; in particular only processes there are can be in the job or hold the dongle.
THEOREM SuperviseTypeCorrect == Spec => []TypeOK
<1>1. Init => Typed
  BY SuperviseAssumption, Pipelines DEF Init, Typed, TypeOK, Place, Complete, Sups
<1>2. Typed /\ [Next]_vars => Typed'
  <2> SUFFICES ASSUME Typed, [Next]_vars PROVE Typed'
    OBVIOUS
  <2>1. ASSUME NEW s \in Sups, Schedule(s) \/ Recycle(s) PROVE Typed'
    <3>0. Begin(s) /\ Place(s) /\ count \in 0..Len(Role) /\ Len(Role) \in Nat
      BY <2>1, SuperviseAssumption DEF Schedule, Recycle, Typed, TypeOK
    <3>1. /\ at[s] = "unused" /\ started[s] = 0 /\ ~Complete(s)
          /\ count' = s /\ s = count + 1 /\ s \in 0..Len(Role)
      <4>1. count' = s /\ s = count + 1 /\ s \in 0..Len(Role) /\ s > count
        BY <3>0 DEF Begin, Sups
      <4>2. at[s] = "unused" /\ started[s] = 0
        BY <3>0, <4>1 DEF Place
      <4> QED BY <4>1, <4>2, NothingStarted
    <3>2. TypeOK'
      <4>1. at' \in [Sups -> {"unused", "start", "assign", "dial", "run", "kill", "wait",
                              "backoff", "done", "gone"}]
        BY <3>0 DEF Begin, Goto, Typed, TypeOK
      <4>2. cancelled' \in [Sups -> BOOLEAN]
        BY <2>1 DEF Schedule, Recycle, Typed, TypeOK
      <4>3. UNCHANGED <<agent, started, procVars, faults>>
        BY <2>1 DEF Schedule, Recycle
      <4> QED BY <3>1, <4>1, <4>2, <4>3 DEF Typed, TypeOK, procVars
    <3>3. ASSUME NEW q \in Sups PROVE Place(q)'
      BY <2>1, <3>1 DEF Schedule, Recycle, Begin, Goto, Typed, TypeOK, Place, Complete, Sups
    <3> QED BY <3>2, <3>3 DEF Typed
  <2>2. ASSUME NEW s \in Sups, Cancel(s) PROVE Typed'
    BY <2>2 DEF Cancel, Typed, TypeOK, Place, Complete, procVars
  <2>3. CASE AgentDies
    <3>1. TypeOK'
      BY <2>3 DEF AgentDies, Typed, TypeOK
    <3>2. ASSUME NEW q \in Sups PROVE Place(q)'
      BY <2>3 DEF AgentDies, Typed, TypeOK, Place, Complete, Supervising
    <3> QED BY <3>1, <3>2 DEF Typed
  <2>4. CASE AgentStarts
    BY <2>4 DEF AgentStarts, Typed, TypeOK, Place, Complete, procVars
  <2>5. ASSUME NEW p \in Processes, Exit(p) \/ Crash(p) PROVE Typed'
    BY <2>5, EndsTyped, FaultTyped DEF Exit, Crash, Typed, TypeOK
  <2>6. ASSUME NEW p \in Processes, Claim(p) PROVE Typed'
    <3>1. CASE holder = 0
      <4>1. p = <<p[1], "rtl">>
        BY <2>6 DEF Claim, Processes
      <4> QED BY <2>6, <3>1, <4>1 DEF Claim, Typed, TypeOK, Place, Complete, mgrVars
    <3>2. CASE holder # 0
      BY <2>6, <3>2, EndsTyped DEF Claim, Typed, TypeOK
    <3> QED BY <3>1, <3>2
  <2>7. ASSUME NEW p \in Processes, KillCancelled(p) PROVE Typed'
    BY <2>7 DEF KillCancelled, Typed, TypeOK, Place, Complete, mgrVars
  <2>8. CASE UNCHANGED vars
    BY <2>8 DEF vars, mgrVars, procVars, Typed, TypeOK, Place, Complete
  <2> QED BY <2>1, <2>2, <2>3, <2>4, <2>5, <2>6, <2>7, <2>8, SupervisorTyped
          DEF Next, Manager, Process
<1>3. Typed => TypeOK
  BY DEF Typed
<1> QED BY <1>1, <1>2, <1>3, PTL DEF Spec
=============================================================================
