------------------------------ MODULE PhoneHome ------------------------------
(***************************************************************************)
(* The control loop of the feed agent: phoneHome, applyConfig and          *)
(* handleCommand (agent/main.go) against the telemetry endpoint            *)
(* (agent/device.go), with requests and responses that are lost or late    *)
(* and a process that crashes and is relaunched by its service.            *)
(*                                                                         *)
(* The server is external, modelled from what the agent relies on: it      *)
(* keeps a command until a request acknowledges it and offers those it     *)
(* keeps in every response.  The settings applyConfig can change are one   *)
(* value.  Of the decoder manager, which shares the configuration, there   *)
(* is the write that undoes a setting of the server; what the decoders do  *)
(* with the enabled flag is in DecoderManager.                             *)
(***************************************************************************)
EXTENDS Integers, FiniteSets

CONSTANTS
    Commands,    \* command ids
    Kind,        \* what each command asks for
    Configs,     \* values of the remotely managed settings, not empty
    Local,       \* what the manager makes of the settings
    MaxCrashes   \* bound: crashes of the process

Unset == ""   \* a setting the response does not carry, or carries empty

ASSUME CommandAssumption ==
    /\ Unset \notin Configs
    /\ Kind \in [Commands -> {"enable", "disable", "restart", "update", "unknown"}]
    /\ Local \in [Configs -> Configs]
    /\ MaxCrashes \in Nat

VARIABLES
    desired,   \* server: enabled and config of this device
    issued,    \* server: commands queued so far
    done,      \* server: commands acknowledged
    net,       \* the agent's request: not sent, sent, or answered
    reply,     \* the answer
    late,      \* requests the agent gave up on that may still arrive
    pc,        \* where the agent is
    acked,     \* acked of phoneHome
    todo,      \* commands of the response not handled yet
    enabled,   \* DecoderManager.enabled
    cfg,       \* the configuration in memory
    disk,      \* the configuration in agent.json
    ran,       \* history: times a command was begun by this process (to 2)
    handled,   \* history: commands any process began
    exits,     \* history: times the agent exited for a command (to 2)
    owed,      \* history: commands this process must restart for
    crashes

serverVars  == <<desired, issued, done>>
netVars     == <<net, reply, late>>
agentVars   == <<pc, acked, todo, enabled, cfg, disk>>
historyVars == <<ran, handled, exits, owed, crashes>>
vars        == <<serverVars, netVars, agentVars, historyVars>>

Desired == [enabled : BOOLEAN, config : Configs \cup {Unset}]
Reply   == [enabled : BOOLEAN, config : Configs \cup {Unset}, commands : SUBSET Commands]

TypeOK ==
    /\ desired \in Desired
    /\ issued \subseteq Commands
    /\ done \subseteq Commands
    /\ net \in {"none", "request", "response"}
    /\ reply \in Reply
    /\ late \subseteq SUBSET Commands
    /\ pc \in {"down", "idle", "beat", "bounce", "commands", "ack"}
    /\ acked \subseteq Commands
    /\ todo \subseteq Commands
    /\ enabled \in BOOLEAN
    /\ cfg \in Configs
    /\ disk \in Configs
    /\ ran \in [Commands -> 0..2]
    /\ handled \subseteq Commands
    /\ exits \in [Commands -> 0..2]
    /\ owed \subseteq Commands
    /\ crashes \in 0..MaxCrashes

\* The agent feeds until the server says otherwise.
Init ==
    /\ desired \in Desired
    /\ issued = {}
    /\ done = {}
    /\ net = "none"
    /\ reply = [enabled |-> TRUE, config |-> desired.config, commands |-> {}]
    /\ late = {}
    /\ pc = "idle"
    /\ acked = {}
    /\ todo = {}
    /\ enabled = TRUE
    /\ cfg \in Configs
    /\ disk = cfg
    /\ ran = [c \in Commands |-> 0]
    /\ handled = {}
    /\ exits = [c \in Commands |-> 0]
    /\ owed = {}
    /\ crashes = 0

Once(f, c) == [f EXCEPT ![c] = IF @ < 2 THEN @ + 1 ELSE 2]

-----------------------------------------------------------------------------
(* The server                                                              *)

Switch ==
    /\ desired' = [desired EXCEPT !.enabled = ~@]
    /\ UNCHANGED <<issued, done, netVars, agentVars, historyVars>>

Configure(v) ==
    /\ v # desired.config
    /\ desired' = [desired EXCEPT !.config = v]
    /\ UNCHANGED <<issued, done, netVars, agentVars, historyVars>>

Issue(c) ==
    /\ c \notin issued
    /\ issued' = issued \cup {c}
    /\ UNCHANGED <<desired, done, netVars, agentVars, historyVars>>

\* A request is handled: its acknowledgements count, and the response offers
\* the commands that remain.
Serve ==
    /\ net = "request"
    /\ done' = done \cup acked
    /\ net' = "response"
    /\ reply' = [enabled  |-> desired.enabled,
                 config   |-> desired.config,
                 commands |-> issued \ (done \cup acked)]
    /\ UNCHANGED <<desired, issued, late, agentVars, historyVars>>

\* A request whose sender no longer waits is handled.
ServeLate(acks) ==
    /\ acks \in late
    /\ late' = late \ {acks}
    /\ done' = done \cup acks
    /\ UNCHANGED <<desired, issued, net, reply, agentVars, historyVars>>

\* What becomes of a request the agent stops waiting for: it was answered or is
\* lost, or it is still on its way.
Abandon ==
    /\ net' = "none"
    /\ late' \in IF net = "request" /\ acked # {} THEN {late, late \cup {acked}} ELSE {late}

-----------------------------------------------------------------------------
(* The beat                                                                *)

Beat ==
    /\ pc = "idle"
    /\ pc' = "beat"
    /\ net' = "request"
    /\ UNCHANGED <<serverVars, reply, late, acked, todo, enabled, cfg, disk, historyVars>>

\* (Definitions named after another with a suffix, such as this one, are faulty
\* variants: the properties are tried against them.)
BeatFailsForgetsAcks ==
    /\ pc = "beat"
    /\ Abandon
    /\ pc' = "idle"
    /\ acked' = {}
    /\ UNCHANGED <<serverVars, reply, todo, enabled, cfg, disk, historyVars>>

\* The acknowledgements are kept for the next beat.
BeatFails ==
    /\ pc = "beat"
    /\ Abandon
    /\ pc' = "idle"
    /\ UNCHANGED <<serverVars, reply, acked, todo, enabled, cfg, disk, historyVars>>

NewConfigUnchecked == reply.config

\* An empty or missing value leaves the setting as it is.
NewConfig == IF reply.config = Unset THEN cfg ELSE reply.config

ApplyIgnoresSwitch ==
    /\ cfg' = NewConfig
    /\ IF NewConfig # cfg
       THEN pc' = "bounce" /\ enabled' = FALSE /\ disk' \in {disk, NewConfig}
       ELSE pc' = "commands" /\ UNCHANGED <<enabled, disk>>

\* The response arrives: setEnabled(resp.Enabled), then applyConfig.  A setting
\* that differs from the one in memory, also from one the manager wrote there
\* since the last beat, is kept, saved if the disk lets it, and feeding is
\* disabled for a pause.
Apply ==
    /\ cfg' = NewConfig
    /\ IF NewConfig # cfg
       THEN pc' = "bounce" /\ enabled' = FALSE /\ disk' \in {disk, NewConfig}
       ELSE pc' = "commands" /\ enabled' = reply.enabled /\ UNCHANGED disk

TakeReplyAcksEarly ==
    /\ pc = "beat"
    /\ net = "response"
    /\ net' = "none"
    /\ acked' = reply.commands
    /\ todo' = reply.commands
    /\ Apply
    /\ UNCHANGED <<serverVars, reply, late, historyVars>>

TakeReply ==
    /\ pc = "beat"
    /\ net = "response"
    /\ net' = "none"
    /\ acked' = {}
    /\ todo' = reply.commands
    /\ Apply
    /\ UNCHANGED <<serverVars, reply, late, historyVars>>

\* applyConfig enables feeding after the pause, whatever the response said.
EndBounce ==
    /\ pc = "bounce"
    /\ enabled' = TRUE
    /\ pc' = "commands"
    /\ UNCHANGED <<serverVars, netVars, acked, todo, cfg, disk, historyVars>>

\* The manager resolves the roles of the attached dongles and stores them: a role
\* the user confirmed on this machine replaces the one the server set.
Overrule ==
    /\ pc # "down"
    /\ Local[cfg] # cfg
    /\ cfg' = Local[cfg]
    /\ disk' \in {disk, Local[cfg]}
    /\ UNCHANGED <<serverVars, netVars, pc, acked, todo, enabled, historyVars>>

\* handleCommand returns true for a restart, and for an update that was found,
\* downloaded and staged.
MayExit(c) ==
    CASE Kind[c] = "restart" -> {TRUE}
      [] Kind[c] = "update"  -> BOOLEAN
      [] OTHER               -> {FALSE}

HandleCommandExitsUnacked(c) ==
    /\ pc = "commands"
    /\ c \in todo
    /\ todo' = todo \ {c}
    /\ enabled' = CASE Kind[c] = "enable"  -> TRUE
                    [] Kind[c] = "disable" -> FALSE
                    [] OTHER               -> enabled
    /\ \E exit \in MayExit(c) :
         /\ acked' = IF exit THEN acked ELSE acked \cup {c}
         /\ pc' = IF exit THEN "ack" ELSE "commands"
         /\ net' = IF exit THEN "request" ELSE "none"
         /\ owed' = IF exit THEN owed \cup {c} ELSE owed
    /\ ran' = Once(ran, c)
    /\ handled' = handled \cup {c}
    /\ UNCHANGED <<serverVars, reply, late, cfg, disk, exits, crashes>>

\* The id is acknowledged and the command run.  For one that ends the process an
\* extra request carries the acknowledgement first.
HandleCommand(c) ==
    /\ pc = "commands"
    /\ c \in todo
    /\ acked' = acked \cup {c}
    /\ todo' = todo \ {c}
    /\ enabled' = CASE Kind[c] = "enable"  -> TRUE
                    [] Kind[c] = "disable" -> FALSE
                    [] OTHER               -> enabled
    /\ \E exit \in MayExit(c) :
         /\ pc' = IF exit THEN "ack" ELSE "commands"
         /\ net' = IF exit THEN "request" ELSE "none"
         /\ owed' = IF exit THEN owed \cup {c} ELSE owed
    /\ ran' = Once(ran, c)
    /\ handled' = handled \cup {c}
    /\ UNCHANGED <<serverVars, reply, late, cfg, disk, exits, crashes>>

EndBeat ==
    /\ pc = "commands"
    /\ todo = {}
    /\ pc' = "idle"
    /\ UNCHANGED <<serverVars, netVars, acked, todo, enabled, cfg, disk, historyVars>>

\* The extra request is not answered: the beat ends, and the commands behind
\* this one wait for the next response.  If the request was served all the same,
\* the command it is for is struck off, and this process does not exit for it.
AckFails ==
    /\ pc = "ack"
    /\ Abandon
    /\ pc' = "idle"
    /\ todo' = {}
    /\ UNCHANGED <<serverVars, reply, acked, enabled, cfg, disk, historyVars>>

\* What the process held in memory is gone.
Down ==
    /\ pc' = "down"
    /\ acked' = {}
    /\ todo' = {}
    /\ ran' = [c \in Commands |-> 0]
    /\ owed' = {}
    /\ enabled' = FALSE
    /\ UNCHANGED <<cfg, disk>>

ExitWithoutAck ==
    /\ pc = "ack"
    /\ Abandon
    /\ \E c \in owed \cap acked : exits' = Once(exits, c)
    /\ Down
    /\ UNCHANGED <<serverVars, reply, handled, crashes>>

\* Answered, the agent exits for the service to relaunch it.  (The command it
\* exits for is the only owed one among those acknowledged in this beat.)
Exit ==
    /\ pc = "ack"
    /\ net = "response"
    /\ net' = "none"
    /\ \E c \in owed \cap acked : exits' = Once(exits, c)
    /\ Down
    /\ UNCHANGED <<serverVars, reply, late, handled, crashes>>

Crash ==
    /\ pc # "down"
    /\ crashes < MaxCrashes
    /\ crashes' = crashes + 1
    /\ Abandon
    /\ Down
    /\ UNCHANGED <<serverVars, reply, handled, exits>>

\* The service starts the agent again: LoadConfig, and feeding by default.
Relaunch ==
    /\ pc = "down"
    /\ pc' = "idle"
    /\ cfg' = disk
    /\ enabled' = TRUE
    /\ UNCHANGED <<serverVars, netVars, acked, todo, disk, historyVars>>

-----------------------------------------------------------------------------

Server ==
    \/ Switch
    \/ \E v \in Configs \cup {Unset} : Configure(v)
    \/ \E c \in Commands : Issue(c)
    \/ Serve
    \/ \E acks \in late : ServeLate(acks)

Agent ==
    \/ Beat \/ BeatFails \/ TakeReply \/ EndBounce
    \/ Overrule
    \/ \E c \in Commands : HandleCommand(c)
    \/ EndBeat \/ AckFails \/ Exit \/ Crash \/ Relaunch

Next == Server \/ Agent

Spec == Init /\ [][Next]_vars

\* The beat timer fires, every request ends by its 20 s timeout, the pause is a
\* sleep and the service relaunches the agent.  The network fails now and then,
\* but of the beats that are repeated for ever some are answered.
Fairness ==
    /\ WF_vars(Beat)
    /\ WF_vars(EndBounce)
    /\ WF_vars(EndBeat \/ \E c \in Commands : HandleCommand(c))
    /\ WF_vars(AckFails \/ Exit)
    /\ WF_vars(Relaunch)
    /\ SF_vars(Serve)
    /\ SF_vars(TakeReply)

FairSpec == Spec /\ Fairness

-----------------------------------------------------------------------------
(* Properties                                                              *)

ExitedFor == {c \in Commands : exits[c] # 0}

Queue == INSTANCE CommandQueue
         WITH queued <- issued, begun <- handled, retired <- done, ended <- ExitedFor

\* The loop implements the command queue: only what was queued is begun, the server
\* strikes off only what some process began, and a process exits only for what was
\* struck off, through lost responses, late requests and crashes.  (It may not exit
\* for it at all: when the acknowledgement of a restart is served but its answer is
\* lost, the restart is struck off and never takes place.)
ImplementsQueue == Queue!Spec

\* A command the server has struck off was begun.
AckedWereHandled == done \subseteq handled

\* "Ack first or the command would replay forever" (agent/main.go:292): the agent
\* never exits twice for one command, across any losses, crashes and relaunches.
ExitsOnce == \A c \in Commands : exits[c] <= 1

\* One process begins a command at most once, although the server offers it again
\* until an acknowledgement arrives.
RunsOncePerProcess == \A c \in Commands : ran[c] <= 1

\* Commands this process is about to run.
Offered == todo \cup (IF pc = "beat" /\ net = "response" THEN reply.commands ELSE {})

\* The inductive invariant.  What a process has begun it has acknowledged or is
\* about to, and what it exited for the server has struck off, so neither is
\* among what it is about to run.
Inv ==
    /\ AckedWereHandled
    /\ acked \subseteq handled
    /\ \A acks \in late : acks \subseteq handled
    /\ net = "response" => acked \subseteq done
    /\ ExitsOnce
    /\ RunsOncePerProcess
    /\ \A c \in Commands : ran[c] # 0 => c \in acked \cup done
    /\ \A c \in Commands : exits[c] # 0 => c \in done
    /\ \A c \in owed : exits[c] = 0
    /\ \A c \in Offered : ran[c] = 0 /\ exits[c] = 0
    /\ Offered \subseteq issued

\* Every command that is queued is acknowledged in the end.
CommandsAcked == \A c \in Commands : c \in issued ~> c \in done

Overruled == desired.config \in Configs /\ Local[desired.config] # desired.config

\* When the server's settings hold still, and none is a role the user confirmed
\* otherwise on the machine, the agent ends up with them.  (Such a role differs
\* again at every beat, and every beat then ends by enabling feeding.)
FollowsServer ==
    <>[][UNCHANGED <<desired, issued>>]_<<desired, issued>> /\ <>[]~Overruled
        => <>[](desired.config \in {cfg, Unset} /\ enabled = desired.enabled)
=============================================================================
