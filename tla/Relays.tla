------------------------------- MODULE Relays -------------------------------
(***************************************************************************)
(* The goroutines that move decoded traffic to the server: runForward      *)
(* (agent/forward.go), runVDL2Forward with its retry loop                  *)
(* (agent/vdl2_forward.go, agent/decoders.go) and superviseUAT/runUAT      *)
(* (agent/uat.go).  Every one of them reports its link through LinkStats.  *)
(*                                                                         *)
(* A connection is known by whether it still works; a connection that its  *)
(* peer broke is found out when the relay next uses it.  Payloads are left *)
(* out.  Waiting before a retry is leaving the retry step untaken.  The    *)
(* UAT pipeline of three processes is one local source.                    *)
(***************************************************************************)
EXTENDS LinkStats

CONSTANT Kind   \* protocol of each relay

ASSUME KindAssumption == Kind \in [Callers -> {"adsb", "uat", "vdl2"}]

VARIABLES
    at,         \* where a relay goroutine is
    src,        \* its connection to the decoder works
    dst,        \* its connection to the feed works
    localUp,    \* its decoder accepts connections, or its pipeline can run
    feedUp,     \* the feed endpoint accepts connections
    cancelled   \* its context is cancelled

relayVars == <<at, src, dst, localUp, feedUp, cancelled>>
vars      == <<statsVars, relayVars>>

TypeOK ==
    /\ LinkTypeOK
    /\ at \in [Callers -> {"top", "dialDst", "announce", "frame", "copy", "count", "dropped", "done"}]
    /\ src \in [Callers -> BOOLEAN]
    /\ dst \in [Callers -> BOOLEAN]
    /\ localUp \in [Callers -> BOOLEAN]
    /\ feedUp \in BOOLEAN
    /\ cancelled \in [Callers -> BOOLEAN]

Init ==
    /\ LinkInit
    /\ at = [t \in Callers |-> "top"]
    /\ src = [t \in Callers |-> FALSE]
    /\ dst = [t \in Callers |-> FALSE]
    /\ localUp = [t \in Callers |-> FALSE]
    /\ feedUp = FALSE
    /\ cancelled = [t \in Callers |-> FALSE]

Goto(t, l) == at' = [at EXCEPT ![t] = l]

-----------------------------------------------------------------------------
(* Decoders, the feed and the manager                                      *)

LocalUp(t) ==
    /\ ~localUp[t]
    /\ localUp' = [localUp EXCEPT ![t] = TRUE]
    /\ UNCHANGED <<statsVars, at, src, dst, feedUp, cancelled>>

LocalDown(t) ==
    /\ localUp[t]
    /\ localUp' = [localUp EXCEPT ![t] = FALSE]
    /\ src' = [src EXCEPT ![t] = @ /\ Kind[t] = "vdl2"]
    /\ UNCHANGED <<statsVars, at, dst, feedUp, cancelled>>

FeedUp ==
    /\ ~feedUp
    /\ feedUp' = TRUE
    /\ UNCHANGED <<statsVars, at, src, dst, localUp, cancelled>>

FeedDown ==
    /\ feedUp
    /\ feedUp' = FALSE
    /\ dst' = [t \in Callers |-> FALSE]
    /\ UNCHANGED <<statsVars, at, src, localUp, cancelled>>

\* The manager cancels the relay.  The UAT processes are killed at once; the
\* connections are closed if the relay has come as far as copying.
Cancel(t) ==
    /\ ~cancelled[t]
    /\ cancelled' = [cancelled EXCEPT ![t] = TRUE]
    /\ src' = [src EXCEPT ![t] = @ /\ Kind[t] # "uat" /\ at[t] \notin {"copy", "count"}]
    /\ dst' = [dst EXCEPT ![t] = @ /\ at[t] \notin {"copy", "count"}]
    /\ UNCHANGED <<statsVars, at, localUp, feedUp>>

-----------------------------------------------------------------------------
(* The relay                                                               *)

\* (Definitions named after another with a suffix, such as this one, are faulty
\* variants: the properties are tried against them.)
LeaveBetweenAttempts(t) ==
    /\ Returned(t)
    /\ at[t] \in {"top", "dropped"}
    /\ cancelled[t]
    /\ Goto(t, "done")
    /\ UNCHANGED <<statsVars, src, dst, localUp, feedUp, cancelled>>

\* Between two attempts, and while it dials, a relay checks its context.
Leave(t) ==
    /\ Returned(t)
    /\ at[t] \in {"top", "dialDst", "dropped"}
    /\ cancelled[t]
    /\ Goto(t, "done")
    /\ UNCHANGED <<statsVars, src, dst, localUp, feedUp, cancelled>>

\* The decoder's Beast port answers, or the three UAT processes have started.
\* The VDL2 relay binds its socket, whether its decoder sends or not, and needs
\* no connection to the feed.
OpenLocal(t) ==
    /\ at[t] = "top"
    /\ ~cancelled[t]
    /\ localUp[t] \/ Kind[t] = "vdl2"
    /\ src' = [src EXCEPT ![t] = TRUE]
    /\ Goto(t, IF Kind[t] = "vdl2" THEN "copy" ELSE "dialDst")
    /\ UNCHANGED <<statsVars, dst, localUp, feedUp, cancelled>>

\* The VDL2 socket cannot be bound, or one of the UAT processes cannot be started:
\* nothing is reported, and the relay starts over after a pause.
OpenFails(t) ==
    /\ at[t] = "top"
    /\ ~cancelled[t]
    /\ Kind[t] = "vdl2" \/ (Kind[t] = "uat" /\ ~localUp[t])
    /\ Goto(t, "dropped")
    /\ UNCHANGED <<statsVars, src, dst, localUp, feedUp, cancelled>>

\* The feed is dialled until it answers; a dial that was under way when the
\* context was cancelled still succeeds.  runForward reports the link and then
\* writes the receiver frame; runUAT writes the frame first.
DialFeed(t) ==
    /\ at[t] = "dialDst"
    /\ feedUp
    /\ dst' = [dst EXCEPT ![t] = TRUE]
    /\ Goto(t, IF Kind[t] = "adsb" THEN "announce" ELSE "frame")
    /\ UNCHANGED <<statsVars, src, localUp, feedUp, cancelled>>

\* Copying starts by registering the AfterFunc that closes both connections, at
\* once if the context is already cancelled.
StartCopy(t) ==
    /\ Goto(t, "copy")
    /\ src' = [src EXCEPT ![t] = @ /\ ~cancelled[t]]
    /\ dst' = [dst EXCEPT ![t] = @ /\ ~cancelled[t]]

Announce(t) ==
    /\ at[t] = "announce"
    /\ SetLink(t, TRUE)
    /\ IF Kind[t] = "adsb" THEN Goto(t, "frame") /\ UNCHANGED <<src, dst>> ELSE StartCopy(t)
    /\ UNCHANGED <<localUp, feedUp, cancelled>>

WriteFrame(t) ==
    /\ at[t] = "frame"
    /\ Returned(t)
    /\ dst[t]
    /\ IF Kind[t] = "adsb" THEN StartCopy(t) ELSE Goto(t, "announce") /\ UNCHANGED <<src, dst>>
    /\ UNCHANGED <<statsVars, localUp, feedUp, cancelled>>

\* The frame cannot be written: runForward starts over at once, with the link
\* still reported; runUAT returns, having reported nothing.
FrameFails(t) ==
    /\ at[t] = "frame"
    /\ Returned(t)
    /\ ~dst[t]
    /\ src' = [src EXCEPT ![t] = FALSE]
    /\ Goto(t, "top")
    /\ UNCHANGED <<statsVars, dst, localUp, feedUp, cancelled>>

\* Traffic reaches the feed.  The VDL2 relay reports its link after each datagram
\* and then counts the bytes; the others count them.
CopyTraffic(t) ==
    /\ at[t] = "copy"
    /\ src[t]
    /\ IF Kind[t] = "vdl2"
       THEN localUp[t] /\ SetLink(t, TRUE) /\ Goto(t, "count")
       ELSE dst[t] /\ AddBytes(t) /\ UNCHANGED at
    /\ UNCHANGED <<src, dst, localUp, feedUp, cancelled>>

CountDatagram(t) ==
    /\ at[t] = "count"
    /\ AddBytes(t)
    /\ Goto(t, "copy")
    /\ UNCHANGED <<src, dst, localUp, feedUp, cancelled>>

\* The read or the write fails, because a peer is gone, the context closed the
\* connection, or (VDL2) a datagram is refused while the feed is down.
Broken(t) == ~src[t] \/ (IF Kind[t] = "vdl2" THEN ~feedUp ELSE ~dst[t])

DropKeepsLink(t) ==
    /\ at[t] = "copy"
    /\ Returned(t)
    /\ Broken(t)
    /\ src' = [src EXCEPT ![t] = FALSE]
    /\ dst' = [dst EXCEPT ![t] = FALSE]
    /\ Goto(t, "dropped")
    /\ UNCHANGED <<statsVars, localUp, feedUp, cancelled>>

Drop(t) ==
    /\ at[t] = "copy"
    /\ Broken(t)
    /\ SetLink(t, FALSE)
    /\ src' = [src EXCEPT ![t] = FALSE]
    /\ dst' = [dst EXCEPT ![t] = FALSE]
    /\ Goto(t, "dropped")
    /\ UNCHANGED <<localUp, feedUp, cancelled>>

RetryUnlessADSB(t) ==
    /\ at[t] = "dropped"
    /\ Returned(t)
    /\ ~cancelled[t]
    /\ Kind[t] # "adsb"
    /\ Goto(t, "top")
    /\ UNCHANGED <<statsVars, src, dst, localUp, feedUp, cancelled>>

\* After a pause the relay starts over.
Retry(t) ==
    /\ at[t] = "dropped"
    /\ Returned(t)
    /\ ~cancelled[t]
    /\ Goto(t, "top")
    /\ UNCHANGED <<statsVars, src, dst, localUp, feedUp, cancelled>>

Relay(t) ==
    \/ Leave(t) \/ OpenLocal(t) \/ OpenFails(t) \/ DialFeed(t) \/ Announce(t)
    \/ WriteFrame(t) \/ FrameFails(t)
    \/ CopyTraffic(t) \/ CountDatagram(t) \/ Drop(t) \/ Retry(t)

-----------------------------------------------------------------------------

Environment ==
    \/ \E t \in Callers : LocalUp(t) \/ LocalDown(t) \/ Cancel(t)
    \/ FeedUp
    \/ FeedDown

Next ==
    \/ Environment
    \/ \E t \in Callers : Relay(t) \/ (Inside(t) /\ UNCHANGED relayVars)
    \/ Sample /\ UNCHANGED relayVars

Spec == Init /\ [][Next]_vars

\* Goroutines run; dials and pauses are bounded by timers.  Traffic that reaches
\* a relay is what makes it write, and so notice a broken feed.  An exchange
\* follows its load within nanoseconds and the other relays update links seconds
\* apart, so it does not lose for ever.
Fairness ==
    \A t \in Callers :
        /\ WF_vars(Inside(t) /\ UNCHANGED relayVars)
        /\ SF_vars(Cas(t) /\ links = old[t] /\ UNCHANGED relayVars)
        /\ WF_vars(Relay(t))

FairSpec == Spec /\ Fairness

-----------------------------------------------------------------------------
(* Properties                                                              *)

\* "Fields are touched atomically by the forwarder and read by telemetry"
\* (agent/stats.go:9), and one protocol's disconnect does not hide another live
\* one (agent/stats_test.go:33): while a relay is connected to the feed and
\* copying, some link is on.
LinkNotHidden ==
    \A t \in Callers : Kind[t] # "vdl2" /\ at[t] = "copy" /\ Returned(t) => links # {}

\* links are "live protocol links" (agent/stats.go:13): a UAT or VDL2 relay that
\* dials again after a drop, or has ended, has none.
DownUnlessCopying ==
    \A t \in Callers :
        Kind[t] # "adsb" /\ OwnsBit(t) /\ at[t] \in {"top", "dialDst", "done"} /\ Returned(t)
            => Bit[t] \notin links

\* A relay that is connected to the feed and copying, and does not share its bit,
\* is reported.
UpWhileCopying ==
    \A t \in Callers :
        Kind[t] # "vdl2" /\ OwnsBit(t) /\ at[t] = "copy" /\ Returned(t) => Bit[t] \in links

\* A cancelled relay ends, wherever it is.
CancelledEnds == \A t \in Callers : cancelled[t] ~> at[t] = "done"

\* "reconnects on its own after any drop": once decoder and feed stay up, a relay
\* ends up copying for good, with its link on.
Reconnects ==
    \A t \in Callers :
        Kind[t] # "vdl2" /\ <>[](localUp[t] /\ feedUp /\ ~cancelled[t])
            => <>[](at[t] = "copy" /\ (OwnsBit(t) => Bit[t] \in links))
=============================================================================
