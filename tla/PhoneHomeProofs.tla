--------------------------- MODULE PhoneHomeProofs ---------------------------
(***************************************************************************)
(* Proofs about PhoneHome, for any set of commands and any number of       *)
(* crashes, losses and late requests.                                      *)
(***************************************************************************)
EXTENDS PhoneHome, TLAPS

\* The counting of a history variable: the first time counts one.
LEMMA OnceType ==
    ASSUME NEW f \in [Commands -> 0..2], NEW c \in Commands
    PROVE  /\ Once(f, c) \in [Commands -> 0..2]
           /\ \A d \in Commands : d # c => Once(f, c)[d] = f[d]
           /\ f[c] = 0 => Once(f, c)[c] = 1
           /\ Once(f, c)[c] # 0
  BY DEF Once

\* A request given up on leaves the network variables well typed.
LEMMA AbandonType ==
    ASSUME TypeOK, Abandon
    PROVE  net' = "none" /\ late' \subseteq SUBSET Commands
  BY DEF Abandon, TypeOK

\* Variables keep their types.
THEOREM TypeCorrect == Spec => []TypeOK
<1>1. Init => TypeOK
  <2>1. ASSUME Init PROVE reply \in Reply
    BY <2>1 DEF Init, Reply, Desired
  <2> QED BY <2>1, CommandAssumption DEF Init, TypeOK
<1>2. TypeOK /\ [Next]_vars => TypeOK'
  <2> SUFFICES ASSUME TypeOK, [Next]_vars PROVE TypeOK'
    OBVIOUS
  <2>1. CASE Server
    <3>1. CASE Switch
      <4>1. desired' \in Desired
        BY <3>1 DEF Switch, TypeOK, Desired
      <4> QED BY <3>1, <4>1 DEF Switch, TypeOK, netVars, agentVars, historyVars
    <3>2. ASSUME NEW v \in Configs \cup {Unset}, Configure(v) PROVE TypeOK'
      <4>1. desired' \in Desired
        BY <3>2 DEF Configure, TypeOK, Desired
      <4> QED BY <3>2, <4>1 DEF Configure, TypeOK, netVars, agentVars, historyVars
    <3>3. ASSUME NEW c \in Commands, Issue(c) PROVE TypeOK'
      BY <3>3 DEF Issue, TypeOK, netVars, agentVars, historyVars
    <3>4. CASE Serve
      <4>1. reply' \in Reply
        BY <3>4 DEF Serve, TypeOK, Desired, Reply
      <4> QED BY <3>4, <4>1 DEF Serve, TypeOK, agentVars, historyVars
    <3>5. ASSUME NEW acks \in late, ServeLate(acks) PROVE TypeOK'
      BY <3>5 DEF ServeLate, TypeOK, agentVars, historyVars
    <3> QED BY <2>1, <3>1, <3>2, <3>3, <3>4, <3>5 DEF Server
  <2>2. CASE Beat
    BY <2>2 DEF Beat, TypeOK, serverVars, historyVars
  <2>3. CASE BeatFails
    BY <2>3, AbandonType DEF BeatFails, TypeOK, serverVars, historyVars
  <2>4. CASE TakeReply
    <3>1. NewConfig \in Configs
      BY DEF NewConfig, TypeOK, Reply
    <3> QED BY <2>4, <3>1 DEF TakeReply, Apply, TypeOK, Reply, serverVars, historyVars
  <2>5. CASE EndBounce
    BY <2>5 DEF EndBounce, TypeOK, serverVars, netVars, historyVars
  <2>6. ASSUME NEW c \in Commands, HandleCommand(c) PROVE TypeOK'
    <3>1. ran' \in [Commands -> 0..2]
      BY <2>6, OnceType DEF HandleCommand, TypeOK
    <3>2. enabled' \in BOOLEAN
      BY <2>6 DEF HandleCommand, TypeOK
    <3>3. pc' \in {"commands", "ack"} /\ net' \in {"none", "request"} /\ owed' \subseteq Commands
      BY <2>6 DEF HandleCommand, TypeOK
    <3>4. acked' \subseteq Commands /\ todo' \subseteq Commands /\ handled' \subseteq Commands
      BY <2>6 DEF HandleCommand, TypeOK
    <3> QED BY <2>6, <3>1, <3>2, <3>3, <3>4 DEF HandleCommand, TypeOK, serverVars
  <2>7. CASE EndBeat
    BY <2>7 DEF EndBeat, TypeOK, serverVars, netVars, historyVars
  <2>8. CASE AckFails
    BY <2>8, AbandonType DEF AckFails, TypeOK, serverVars, historyVars
  <2>9. ASSUME Down PROVE ran' \in [Commands -> 0..2]
    BY <2>9 DEF Down
  <2>10. CASE Exit
    <3>1. exits' \in [Commands -> 0..2]
      BY <2>10, OnceType DEF Exit, TypeOK
    <3> QED BY <2>9, <2>10, <3>1 DEF Exit, Down, TypeOK, serverVars
  <2>11. CASE Crash
    <3>1. crashes' \in 0..MaxCrashes
      BY <2>11, CommandAssumption DEF Crash, TypeOK
    <3>2. net' = "none" /\ late' \subseteq SUBSET Commands
      BY <2>11, AbandonType DEF Crash
    <3> QED BY <2>9, <2>11, <3>1, <3>2 DEF Crash, Down, TypeOK, serverVars
  <2>12. CASE Relaunch
    BY <2>12 DEF Relaunch, TypeOK, serverVars, netVars, historyVars
  <2>13. CASE UNCHANGED vars
    BY <2>13 DEF vars, serverVars, netVars, agentVars, historyVars, TypeOK
  <2>14. CASE Overrule
    <3>1. Local[cfg] \in Configs
      BY CommandAssumption DEF TypeOK
    <3> QED BY <2>14, <3>1 DEF Overrule, TypeOK, serverVars, netVars, historyVars
  <2> QED BY <2>1, <2>2, <2>3, <2>4, <2>5, <2>6, <2>7, <2>8, <2>10, <2>11, <2>12, <2>13, <2>14
          DEF Next, Agent
<1> QED BY <1>1, <1>2, PTL DEF Spec

-----------------------------------------------------------------------------
(* The inductive invariant                                                 *)

\* A request that is given up leaves acknowledgements of commands that were begun.
LEMMA AbandonLate ==
    ASSUME Inv, Abandon
    PROVE  net' = "none" /\ \A acks \in late' : acks \subseteq handled
  BY DEF Abandon, Inv

\* A process that ends forgets what it began; what it exited for stays struck off.
LEMMA DownInv ==
    ASSUME Inv, Down, UNCHANGED <<issued, done, handled>>, net' = "none",
           \A acks \in late' : acks \subseteq handled,
           \A c \in Commands : exits'[c] <= 1 /\ (exits'[c] # 0 => c \in done)
    PROVE  Inv'
  BY DEF Inv, Down, AckedWereHandled, ExitsOnce, RunsOncePerProcess, Offered

\* The inductive invariant holds.
THEOREM InvHolds == Spec => []Inv
<1>1. Init => Inv
  BY DEF Init, Inv, AckedWereHandled, ExitsOnce, RunsOncePerProcess, Offered
<1>2. TypeOK /\ Inv /\ [Next]_vars => Inv'
  <2> SUFFICES ASSUME TypeOK, Inv, [Next]_vars PROVE Inv'
    OBVIOUS
  <2> USE DEF AckedWereHandled, ExitsOnce, RunsOncePerProcess
  <2>1. CASE Server
    <3>1. ASSUME UNCHANGED <<done, netVars, agentVars, historyVars>>, issued \subseteq issued'
          PROVE  Inv'
      BY <3>1 DEF netVars, agentVars, historyVars, Inv, Offered
    <3>2. CASE Switch
      BY <3>1, <3>2 DEF Switch
    <3>3. ASSUME NEW v \in Configs \cup {Unset}, Configure(v) PROVE Inv'
      BY <3>1, <3>3 DEF Configure
    <3>4. ASSUME NEW c \in Commands, Issue(c) PROVE Inv'
      BY <3>1, <3>4 DEF Issue
    <3>5. CASE Serve
      <4>1. UNCHANGED <<issued, late, agentVars, historyVars>> /\ done' = done \cup acked
            /\ reply'.commands = issued \ (done \cup acked)
        BY <3>5 DEF Serve
      <4>2. \A c \in Offered' : ran[c] = 0 /\ exits[c] = 0
        <5>1. \A c \in todo : ran[c] = 0 /\ exits[c] = 0
          BY DEF Inv, Offered
        <5>2. \A c \in reply'.commands : c \in Commands /\ c \notin done \cup acked
          BY <4>1 DEF TypeOK
        <5> QED BY <4>1, <5>1, <5>2 DEF Inv, Offered, agentVars
      <4>3. Offered' \subseteq issued'
        BY <4>1 DEF Inv, Offered, agentVars
      <4> QED BY <4>1, <4>2, <4>3 DEF Inv, agentVars, historyVars
    <3>6. ASSUME NEW acks \in late, ServeLate(acks) PROVE Inv'
      BY <3>6 DEF ServeLate, agentVars, historyVars, Inv, Offered
    <3> QED BY <2>1, <3>2, <3>3, <3>4, <3>5, <3>6 DEF Server
  <2>2. CASE Beat
    BY <2>2 DEF Beat, serverVars, historyVars, Inv, Offered
  <2>3. CASE BeatFails
    BY <2>3, AbandonLate DEF BeatFails, serverVars, historyVars, Inv, Offered
  <2>4. CASE TakeReply
    <3>1. UNCHANGED <<issued, done, late, historyVars>> /\ acked' = {} /\ todo' = reply.commands
          /\ net' = "none" /\ pc' # "beat"
      BY <2>4 DEF TakeReply, Apply, serverVars
    <3>2. /\ acked \subseteq done
          /\ \A c \in reply.commands : c \in issued /\ ran[c] = 0 /\ exits[c] = 0
      BY <2>4 DEF TakeReply, Inv, Offered
    <3> QED BY <3>1, <3>2 DEF historyVars, Inv, Offered
  <2>5. CASE EndBounce
    BY <2>5 DEF EndBounce, serverVars, netVars, historyVars, Inv, Offered
  <2>6. ASSUME NEW c \in Commands, HandleCommand(c) PROVE Inv'
    <3>1. /\ UNCHANGED <<issued, done, late, exits>>
          /\ acked' = acked \cup {c} /\ handled' = handled \cup {c} /\ todo' = todo \ {c}
          /\ owed' \subseteq owed \cup {c}
          /\ net' # "response"
          /\ ran' = Once(ran, c)
      BY <2>6 DEF HandleCommand, serverVars
    <3>2. ran[c] = 0 /\ exits[c] = 0
      BY <2>6 DEF HandleCommand, Inv, Offered
    <3>3. ran'[c] = 1 /\ \A d \in Commands : d # c => ran'[d] = ran[d]
      BY <3>1, <3>2, OnceType DEF TypeOK
    <3>4. \A d \in Offered' : d \in issued' /\ ran'[d] = 0 /\ exits'[d] = 0
      BY <3>1, <3>3 DEF Inv, Offered, TypeOK
    <3>5. \A d \in owed' : exits'[d] = 0
      BY <3>1, <3>2 DEF Inv
    <3>6. \A d \in Commands : ran'[d] <= 1 /\ (ran'[d] # 0 => d \in acked' \cup done')
      BY <3>1, <3>3 DEF Inv
    <3> QED BY <3>1, <3>4, <3>5, <3>6 DEF Inv
  <2>7. CASE EndBeat
    BY <2>7 DEF EndBeat, serverVars, netVars, historyVars, Inv, Offered
  <2>8. CASE AckFails
    BY <2>8, AbandonLate DEF AckFails, serverVars, historyVars, Inv, Offered
  <2>9. CASE Exit
    <3>1. PICK c \in owed \cap acked : exits' = Once(exits, c)
      BY <2>9 DEF Exit
    <3>2. c \in done /\ exits[c] = 0 /\ c \in Commands
      BY <2>9, <3>1 DEF Exit, Inv, TypeOK
    <3>3. exits'[c] = 1 /\ \A d \in Commands : d # c => exits'[d] = exits[d]
      BY <3>1, <3>2, OnceType DEF TypeOK
    <3>4. \A d \in Commands : exits'[d] <= 1 /\ (exits'[d] # 0 => d \in done)
      BY <3>2, <3>3 DEF Inv
    <3> QED BY <2>9, <3>4, DownInv DEF Exit, serverVars, Inv
  <2>10. CASE Crash
    <3>1. \A d \in Commands : exits'[d] <= 1 /\ (exits'[d] # 0 => d \in done)
      BY <2>10 DEF Crash, Inv
    <3> QED BY <2>10, <3>1, AbandonLate, DownInv DEF Crash, serverVars
  <2>11. CASE Relaunch
    BY <2>11 DEF Relaunch, serverVars, netVars, historyVars, Inv, Offered
  <2>12. CASE UNCHANGED vars
    BY <2>12 DEF vars, serverVars, netVars, agentVars, historyVars, Inv, Offered
  <2>13. CASE Overrule
    BY <2>13 DEF Overrule, serverVars, netVars, historyVars, Inv, Offered
  <2> QED BY <2>1, <2>2, <2>3, <2>4, <2>5, <2>6, <2>7, <2>8, <2>9, <2>10, <2>11, <2>12, <2>13
          DEF Next, Agent
<1> QED BY <1>1, <1>2, TypeCorrect, PTL DEF Spec

\* The agent exits at most once for a command, whatever is lost, late or crashes:
\* it exits only after the server has struck the command off, and a command that
\* is struck off is not offered again.
THEOREM ExitsAtMostOnce == Spec => []ExitsOnce
BY InvHolds, PTL DEF Inv

\* The server strikes off no command that no process has begun, however late the
\* request with the acknowledgement arrives.
THEOREM StruckOffWereBegun == Spec => []AckedWereHandled
BY InvHolds, PTL DEF Inv

\* No process begins a command twice.
THEOREM NoCommandRepeated == Spec => []RunsOncePerProcess
BY InvHolds, PTL DEF Inv

-----------------------------------------------------------------------------
(* The loop implements CommandQueue.                                       *)

\* The network, the settings and the process are no part of the queue.
LEMMA StepOutsideQueue ==
    ASSUME UNCHANGED <<issued, handled, done, exits>>
    PROVE  [Queue!Next]_Queue!queue
  BY DEF Queue!queue, ExitedFor

\* A step of the server queues a command, strikes off some that were begun, or is
\* nothing to the queue.
LEMMA ServerStep ==
    ASSUME TypeOK, Inv, Server
    PROVE  [Queue!Next]_Queue!queue
<1>1. ASSUME NEW c \in Commands, Issue(c) PROVE Queue!Next
  <2>1. Queue!Issue(c)
    BY <1>1 DEF Issue, historyVars, ExitedFor, Queue!Issue
  <2> QED BY <2>1 DEF Queue!Next
<1>2. CASE Serve
  <2>1. Queue!Retire(acked) /\ acked \in SUBSET Commands
    BY <1>2 DEF Serve, historyVars, ExitedFor, Inv, TypeOK, Queue!Retire
  <2> QED BY <2>1 DEF Queue!Next
<1>3. ASSUME NEW acks \in late, ServeLate(acks) PROVE Queue!Next
  <2>1. Queue!Retire(acks) /\ acks \in SUBSET Commands
    BY <1>3 DEF ServeLate, historyVars, ExitedFor, Inv, TypeOK, Queue!Retire
  <2> QED BY <2>1 DEF Queue!Next
<1>4. CASE Switch \/ \E v \in Configs \cup {Unset} : Configure(v)
  BY <1>4, StepOutsideQueue DEF Switch, Configure, historyVars
<1> QED BY <1>1, <1>2, <1>3, <1>4 DEF Server

\* A step of the agent begins a command that was queued, ends the process for one
\* that was struck off, or is nothing to the queue.
LEMMA AgentStep ==
    ASSUME TypeOK, Inv, Agent
    PROVE  [Queue!Next]_Queue!queue
<1>1. ASSUME NEW c \in Commands, HandleCommand(c) PROVE Queue!Next
  <2>1. Queue!Begin(c)
    BY <1>1 DEF HandleCommand, serverVars, ExitedFor, Inv, Offered, Queue!Begin
  <2> QED BY <2>1 DEF Queue!Next
<1>2. CASE Exit
  <2>1. PICK c \in owed \cap acked : exits' = Once(exits, c)
    BY <1>2 DEF Exit
  <2>2. c \in done /\ exits[c] = 0 /\ c \in Commands
    BY <1>2, <2>1 DEF Exit, Inv, TypeOK
  <2>3. exits'[c] = 1 /\ \A d \in Commands : d # c => exits'[d] = exits[d]
    BY <2>1, <2>2, OnceType DEF TypeOK
  <2>4. ExitedFor' = ExitedFor \cup {c} /\ c \notin ExitedFor
    BY <2>2, <2>3 DEF ExitedFor
  <2>5. Queue!End(c)
    BY <1>2, <2>2, <2>4 DEF Exit, serverVars, Queue!End
  <2> QED BY <2>2, <2>5 DEF Queue!Next
<1>3. CASE Beat \/ BeatFails \/ TakeReply \/ EndBounce \/ Overrule \/ EndBeat
  BY <1>3, StepOutsideQueue
     DEF Beat, BeatFails, TakeReply, EndBounce, Overrule, EndBeat, serverVars, historyVars
<1>4. CASE AckFails \/ Crash \/ Relaunch
  BY <1>4, StepOutsideQueue DEF AckFails, Crash, Relaunch, serverVars, historyVars
<1> QED BY <1>1, <1>2, <1>3, <1>4 DEF Agent

\* Every behaviour of the control loop, with its losses, late requests, exits and
\* crashes, is one of the command queue: nothing is begun that was not queued,
\* struck off that was not begun, or exited for that was not struck off, and for
\* one command the process ends at most once.
THEOREM RefinesQueue == Spec => ImplementsQueue
<1>1. Init => Queue!Init
  BY DEF Init, ExitedFor, Queue!Init
<1>2. TypeOK /\ Inv /\ [Next]_vars => [Queue!Next]_Queue!queue
  <2> SUFFICES ASSUME TypeOK, Inv, [Next]_vars
               PROVE  [Queue!Next]_Queue!queue
    OBVIOUS
  <2>1. CASE UNCHANGED vars
    BY <2>1, StepOutsideQueue DEF vars, serverVars, historyVars
  <2> QED BY <2>1, ServerStep, AgentStep DEF Next
<1> QED BY <1>1, <1>2, TypeCorrect, InvHolds, PTL DEF Spec, ImplementsQueue, Queue!Spec
=============================================================================
