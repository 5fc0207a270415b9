------------------------------ MODULE Supervise ------------------------------
(***************************************************************************)
(* The decoder processes of one dongle and the goroutines that keep them   *)
(* running: superviseDecoder (agent/decoders.go), superviseUAT and runUAT  *)
(* (agent/uat.go), with the job object that is to kill them when the agent *)
(* dies (agent/child_windows.go).                                          *)
(*                                                                         *)
(* When the manager recycles a decoder it cancels one supervisor and       *)
(* starts the next at once, so several may be at work on the dongle.  A    *)
(* process that is told to die takes its time.  The dongle is claimed by   *)
(* one process at a time, and a decoder that does not get it exits.        *)
(*                                                                         *)
(* Supervisors are numbered in the order they are started, over all the    *)
(* lives of the agent; Role bounds how many there are.  How long a         *)
(* supervisor waits before it tries again is left out.                     *)
(***************************************************************************)
EXTENDS Integers, Sequences

CONSTANTS
    Role,          \* roles the dongle is given, one after the other
    MaxFaults,     \* bound: processes that crash or fail to start, files that are missing
    RaceInWindow   \* the agent may die between the start of a process and its assignment

Roles == {"single", "uat"}   \* dump1090 or dumpvdl2, and the UAT pipeline

ASSUME SuperviseAssumption ==
    /\ Role \in Seq(Roles)
    /\ MaxFaults \in Nat
    /\ RaceInWindow \in BOOLEAN

Sups == 1..Len(Role)

\* The processes of a role in the order they are started.  Each reads the output of
\* the one after it; the last opens the dongle.
Pipeline(r) == IF r = "uat" THEN <<"convert", "demod", "rtl">> ELSE <<"rtl">>
Stages      == {"convert", "demod", "rtl"}
Processes   == Sups \X Stages

VARIABLES
    agent,       \* the agent runs
    count,       \* supervisors started so far
    cancelled,   \* its context is cancelled
    at,          \* where it is
    started,     \* processes it has started in this attempt
    alive,       \* processes there are
    killed,      \* those told to die
    job,         \* those in the agent's job object
    holder,      \* supervisor whose process has claimed the dongle, 0 for none
    faults

mgrVars  == <<agent, count, cancelled>>
procVars == <<alive, killed, job, holder>>
vars     == <<mgrVars, at, started, procVars, faults>>

TypeOK ==
    /\ agent \in BOOLEAN
    /\ count \in 0..Len(Role)
    /\ cancelled \in [Sups -> BOOLEAN]
    /\ at \in [Sups -> {"unused", "start", "assign", "dial", "run", "kill", "wait",
                        "backoff", "done", "gone"}]
    /\ started \in [Sups -> 0..3]
    /\ alive \subseteq Processes
    /\ killed \subseteq alive
    /\ job \subseteq alive
    /\ holder # 0 => <<holder, "rtl">> \in alive
    /\ faults \in 0..MaxFaults

Init ==
    /\ agent = TRUE
    /\ count = 0
    /\ cancelled = [s \in Sups |-> FALSE]
    /\ at = [s \in Sups |-> "unused"]
    /\ started = [s \in Sups |-> 0]
    /\ alive = {}
    /\ killed = {}
    /\ job = {}
    /\ holder = 0
    /\ faults = 0

Goto(s, l)   == at' = [at EXCEPT ![s] = l]
Mine(s)      == alive \cap ({s} \X Stages)
Last(s)      == <<s, Pipeline(Role[s])[started[s]]>>   \* the process started last
Complete(s)  == started[s] = Len(Pipeline(Role[s]))
Supervising(s) == at[s] \notin {"unused", "done", "gone"}

Fault == faults < MaxFaults /\ faults' = faults + 1

-----------------------------------------------------------------------------
(* The manager and the life of the agent                                   *)

Begin(s) ==
    /\ agent
    /\ s = count + 1
    /\ count' = s
    /\ Goto(s, "start")

\* A decoder is scheduled where there is none.
Schedule(s) ==
    /\ Begin(s)
    /\ count # 0 => ~Supervising(count) \/ cancelled[count]
    /\ UNCHANGED <<agent, cancelled, started, procVars, faults>>

\* The dongle is gone, its role has changed, the device is paused or the agent ends.
Cancel(s) ==
    /\ s = count
    /\ Supervising(s)
    /\ ~cancelled[s]
    /\ cancelled' = [cancelled EXCEPT ![s] = TRUE]
    /\ UNCHANGED <<agent, count, at, started, procVars, faults>>

\* The old context is cancelled and the new supervisor started in one go.
Recycle(s) ==
    /\ count # 0 /\ Supervising(count) /\ ~cancelled[count]
    /\ Begin(s)
    /\ cancelled' = [cancelled EXCEPT ![count] = TRUE]
    /\ UNCHANGED <<agent, started, procVars, faults>>

\* With the agent its job handle closes, and Windows ends what is in the job.
AgentDies ==
    /\ agent
    /\ RaceInWindow \/ \A s \in Sups : at[s] # "assign"
    /\ agent' = FALSE
    /\ at' = [s \in Sups |-> IF Supervising(s) THEN "gone" ELSE at[s]]
    /\ killed' = killed \cup job
    /\ UNCHANGED <<count, cancelled, started, alive, job, holder, faults>>

AgentStarts ==
    /\ ~agent
    /\ agent' = TRUE
    /\ UNCHANGED <<count, cancelled, at, started, procVars, faults>>

-----------------------------------------------------------------------------
(* The processes                                                           *)

Ended(p) ==
    /\ alive' = alive \ {p}
    /\ killed' = killed \ {p}
    /\ job' = job \ {p}
    /\ holder' = IF p = <<holder, "rtl">> THEN 0 ELSE holder

\* Its input has ended: the process it reads from was started and is no more.
Starved(p) ==
    \E i \in 1..(started[p[1]] - 1) :
        /\ p = <<p[1], Pipeline(Role[p[1]])[i]>>
        /\ <<p[1], Pipeline(Role[p[1]])[i + 1]>> \notin alive

\* A process that was told to die, or whose input has ended, does.
Exit(p) ==
    /\ p \in alive
    /\ p \in killed \/ Starved(p)
    /\ Ended(p)
    /\ UNCHANGED <<mgrVars, at, started, faults>>

Crash(p) ==
    /\ p \in alive
    /\ Fault
    /\ Ended(p)
    /\ UNCHANGED <<mgrVars, at, started>>

\* A decoder opens the dongle, or exits if another has it.
Claim(p) ==
    /\ p \in alive
    /\ p[2] = "rtl"
    /\ holder # p[1]
    /\ IF holder = 0
       THEN holder' = p[1] /\ UNCHANGED <<alive, killed, job>>
       ELSE Ended(p)
    /\ UNCHANGED <<mgrVars, at, started, faults>>

\* exec.CommandContext: the processes of a cancelled supervisor are killed.
KillCancelled(p) ==
    /\ cancelled[p[1]]
    /\ at[p[1]] # "gone"
    /\ p \in alive \ killed
    /\ killed' = killed \cup {p}
    /\ UNCHANGED <<mgrVars, at, started, alive, job, holder, faults>>

-----------------------------------------------------------------------------
(* The supervisors                                                         *)

\* cmd.Start, which does nothing under a cancelled context.
Start(s) ==
    /\ at[s] = "start"
    /\ ~cancelled[s]
    /\ started' = [started EXCEPT ![s] = @ + 1]
    /\ alive' = alive \cup {<<s, Pipeline(Role[s])[started[s] + 1]>>}
    /\ Goto(s, "assign")
    /\ UNCHANGED <<mgrVars, killed, job, holder, faults>>

\* The context is cancelled, the executable is missing or does not start.
StartFails(s) ==
    /\ at[s] = "start"
    /\ \/ cancelled[s] /\ UNCHANGED faults
       \/ Fault
    /\ Goto(s, "kill")
    /\ UNCHANGED <<mgrVars, started, procVars>>

\* (Definitions named after another with a suffix, such as this one, are faulty
\* variants: the properties are tried against them.)
AssignDecoderToJob(s) ==
    /\ at[s] = "assign"
    /\ job' = job \cup ({<<s, "rtl">>} \cap alive)
    /\ Goto(s, IF ~Complete(s) THEN "start" ELSE IF Role[s] = "uat" THEN "dial" ELSE "run")
    /\ UNCHANGED <<mgrVars, started, alive, killed, holder, faults>>

AssignChildToJobUnchecked(s) ==
    /\ at[s] = "assign"
    /\ job' = job \cup {Last(s)}
    /\ Goto(s, IF ~Complete(s) THEN "start" ELSE IF Role[s] = "uat" THEN "dial" ELSE "run")
    /\ UNCHANGED <<mgrVars, started, alive, killed, holder, faults>>

\* assignChildToJob, of a process that may be gone again.
\* The UAT pipeline is started process by process and then dials the feed.
AssignChildToJob(s) ==
    /\ at[s] = "assign"
    /\ job' = job \cup ({Last(s)} \cap alive)
    /\ Goto(s, IF ~Complete(s) THEN "start" ELSE IF Role[s] = "uat" THEN "dial" ELSE "run")
    /\ UNCHANGED <<mgrVars, started, alive, killed, holder, faults>>

\* dialLoop ends when the feed answers or the context is cancelled; the state of
\* the pipeline does not matter to it.
Dial(s) ==
    /\ at[s] = "dial"
    /\ Goto(s, "run") \/ (cancelled[s] /\ Goto(s, "kill"))
    /\ UNCHANGED <<mgrVars, started, procVars, faults>>

\* cmd.Wait returns, or the output of the pipeline ends, or a write to the feed
\* fails.
RunEnds(s) ==
    /\ at[s] = "run"
    /\ \/ <<s, Pipeline(Role[s])[1]>> \notin alive /\ UNCHANGED faults
       \/ Role[s] = "uat" /\ Fault
    /\ Goto(s, "kill")
    /\ UNCHANGED <<mgrVars, started, procVars>>

CleanupJustWaits(s) ==
    /\ at[s] = "kill"
    /\ Goto(s, "wait")
    /\ UNCHANGED <<mgrVars, started, procVars, faults>>

\* cleanup: what was started is killed and then waited for.
Cleanup(s) ==
    /\ at[s] = "kill"
    /\ killed' = killed \cup Mine(s)
    /\ Goto(s, "wait")
    /\ UNCHANGED <<mgrVars, started, alive, job, holder, faults>>

CleanedUp(s) ==
    /\ at[s] = "wait"
    /\ Mine(s) = {}
    /\ Goto(s, IF cancelled[s] THEN "done" ELSE "backoff")
    /\ started' = [started EXCEPT ![s] = 0]
    /\ UNCHANGED <<mgrVars, procVars, faults>>

\* sleepCtx
Retry(s) ==
    /\ at[s] = "backoff"
    /\ Goto(s, IF cancelled[s] THEN "done" ELSE "start")
    /\ UNCHANGED <<mgrVars, started, procVars, faults>>

-----------------------------------------------------------------------------

Manager == \E s \in Sups : Schedule(s) \/ Cancel(s) \/ Recycle(s)

Supervisor(s) ==
    \/ Start(s) \/ StartFails(s) \/ AssignChildToJob(s) \/ Dial(s)
    \/ RunEnds(s) \/ Cleanup(s) \/ CleanedUp(s) \/ Retry(s)

Process(p) == Exit(p) \/ Claim(p) \/ KillCancelled(p)

Next ==
    \/ Manager
    \/ AgentDies \/ AgentStarts
    \/ \E s \in Sups : Supervisor(s)
    \/ \E p \in Processes : Process(p) \/ Crash(p)

Spec == Init /\ [][Next]_vars

\* Goroutines are scheduled, processes that must end do, and the feed answers some
\* time.
FairSpec ==
    /\ Spec
    /\ \A s \in Sups : WF_vars(Supervisor(s))
    /\ \A p \in Processes : WF_vars(Process(p))

-----------------------------------------------------------------------------
(* Properties                                                              *)

\* An agent that is stopped or killed "must NOT leave orphaned decoder processes
\* holding the dongle" (agent/child_windows.go:31): wherever it dies, in the middle
\* of starting a pipeline or of stopping one, every process is on its way out.
\* ("a tiny race before assignment is acceptable": that one is RaceInWindow.)
NoOrphans == ~agent => alive \subseteq killed

\* What makes it inductive: while a process has not been told to die the agent runs,
\* and the process is in its job or about to be put there.
Covered(p) == agent /\ (p \in job \/ (at[p[1]] = "assign" /\ p = Last(p[1])))

Inv ==
    /\ \A p \in alive \ killed : Covered(p)
    /\ \A s \in Sups : s > count => at[s] = "unused"
    /\ ~agent => \A s \in Sups : ~Supervising(s)

Running(s) == at[s] = "run" /\ holder = s /\ \A i \in 1..Len(Pipeline(Role[s])) :
                  <<s, Pipeline(Role[s])[i]>> \in alive

\* Whatever was recycled, crashed, failed to start or was cut off by the death of
\* the agent: in the end the decoder that is scheduled has the dongle with all of
\* its processes, and nothing is left of any other.
FollowsManager ==
    <>[](\A s \in 1..count :
            IF Supervising(s) /\ ~cancelled[s] THEN Running(s)
                                               ELSE ~Supervising(s) /\ Mine(s) = {})
=============================================================================
