------------------------------ MODULE LinkStats ------------------------------
(***************************************************************************)
(* The live counters of the feed agent (agent/stats.go): the bitmask of    *)
(* live links every relay goroutine updates, the connected flag and the    *)
(* first byte telemetry reads, and the one-token channel that wakes        *)
(* phoneHome.                                                              *)
(*                                                                         *)
(* Each atomic operation of the code is one action.  links is the set of   *)
(* bits that are on; bytesFed is only told apart from zero.  asked is what *)
(* a caller last asked for, the argument of the setLink call it is in.     *)
(***************************************************************************)
EXTENDS Integers, FiniteSets

CONSTANTS
    Callers,  \* goroutines that report a link
    Bit       \* the bit each of them passes to setLink

ASSUME BitAssumption == Bit \in [Callers -> Nat]

VARIABLES
    links,      \* Stats.links
    connected,  \* Stats.connected
    fed,        \* Stats.bytesFed > 0
    changed,    \* a token is in Stats.changed
    pc,         \* where a caller is inside setLink or addBytes
    asked,      \* v of a caller's last setLink
    old,        \* old of a caller's setLink
    beat,       \* where phoneHome is
    sampled     \* what the last snapshot returned

counters   == <<links, connected, fed, changed>>
callVars   == <<pc, asked, old>>
sampleVars == <<beat, sampled>>
statsVars  == <<counters, callVars, sampleVars>>

Bits == {Bit[t] : t \in Callers}

LinkTypeOK ==
    /\ links \in SUBSET Bits
    /\ connected \in BOOLEAN
    /\ fed \in BOOLEAN
    /\ changed \in BOOLEAN
    /\ pc \in [Callers -> {"none", "load", "cas", "store", "notify"}]
    /\ asked \in [Callers -> BOOLEAN]
    /\ old \in [Callers -> SUBSET Bits]
    /\ beat \in {"idle", "bytes", "connected"}
    /\ sampled \in [connected : BOOLEAN, fed : BOOLEAN]

\* phoneHome reports immediately on startup.
LinkInit ==
    /\ links = {}
    /\ connected = FALSE
    /\ fed = FALSE
    /\ changed = FALSE
    /\ pc = [t \in Callers |-> "none"]
    /\ asked = [t \in Callers |-> FALSE]
    /\ old = [t \in Callers |-> {}]
    /\ beat = "bytes"
    /\ sampled = [connected |-> FALSE, fed |-> FALSE]

-----------------------------------------------------------------------------
(* setLink                                                                 *)

Returned(t) == pc[t] = "none"

SetLink(t, v) ==
    /\ Returned(t)
    /\ pc' = [pc EXCEPT ![t] = "load"]
    /\ asked' = [asked EXCEPT ![t] = v]
    /\ UNCHANGED <<counters, old, sampleVars>>

WantedNextBit(t, from) == IF asked[t] THEN from \cup {Bit[t] + 1} ELSE from \ {Bit[t] + 1}

\* The word setLink wants to see in links, computed from the one it loaded.
Wanted(t, from) == IF asked[t] THEN from \cup {Bit[t]} ELSE from \ {Bit[t]}

\* A link that is already as asked returns at once.
Load(t) ==
    /\ pc[t] = "load"
    /\ old' = [old EXCEPT ![t] = links]
    /\ pc' = [pc EXCEPT ![t] = IF Wanted(t, links) = links THEN "none" ELSE "cas"]
    /\ UNCHANGED <<counters, asked, sampleVars>>

\* (Definitions named after another with a suffix, such as this one, are faulty
\* variants: the properties are tried against them.)
CasBlind(t) ==
    /\ pc[t] = "cas"
    /\ links' = Wanted(t, old[t])
    /\ pc' = [pc EXCEPT ![t] = "store"]
    /\ UNCHANGED <<connected, fed, changed, asked, old, sampleVars>>

Cas(t) ==
    /\ pc[t] = "cas"
    /\ IF links = old[t]
       THEN /\ links' = Wanted(t, old[t])
            /\ pc' = [pc EXCEPT ![t] = "store"]
       ELSE /\ pc' = [pc EXCEPT ![t] = "load"]
            /\ UNCHANGED links
    /\ UNCHANGED <<connected, fed, changed, asked, old, sampleVars>>

IsEdge(t) == (old[t] = {}) # (Wanted(t, old[t]) = {})

Store(t) ==
    /\ pc[t] = "store"
    /\ connected' = (Wanted(t, old[t]) # {})
    /\ pc' = [pc EXCEPT ![t] = IF IsEdge(t) THEN "notify" ELSE "none"]
    /\ UNCHANGED <<links, fed, changed, asked, old, sampleVars>>

\* A token that is already there is enough.
Notify(t) ==
    /\ pc[t] = "notify"
    /\ changed' = TRUE
    /\ pc' = [pc EXCEPT ![t] = "none"]
    /\ UNCHANGED <<links, connected, fed, asked, old, sampleVars>>

\* Only the first bytes of a run wake telemetry.
AddBytes(t) ==
    /\ Returned(t)
    /\ fed' = TRUE
    /\ pc' = [pc EXCEPT ![t] = IF fed THEN "none" ELSE "notify"]
    /\ UNCHANGED <<links, connected, changed, asked, old, sampleVars>>

-----------------------------------------------------------------------------
(* phoneHome and snapshot                                                  *)

TakeToken ==
    /\ beat = "idle"
    /\ changed
    /\ changed' = FALSE
    /\ beat' = "bytes"
    /\ UNCHANGED <<links, connected, fed, callVars, sampled>>

Tick ==
    /\ beat = "idle"
    /\ beat' = "bytes"
    /\ UNCHANGED <<counters, callVars, sampled>>

SampleBytes ==
    /\ beat = "bytes"
    /\ sampled' = [sampled EXCEPT !.fed = fed]
    /\ beat' = "connected"
    /\ UNCHANGED <<counters, callVars>>

\* The beat ends with the token cleared, as if the channel were drained.
SampleConnectedDrains ==
    /\ beat = "connected"
    /\ sampled' = [sampled EXCEPT !.connected = connected]
    /\ beat' = "idle"
    /\ changed' = FALSE
    /\ UNCHANGED <<links, connected, fed, callVars>>

SampleConnected ==
    /\ beat = "connected"
    /\ sampled' = [sampled EXCEPT !.connected = connected]
    /\ beat' = "idle"
    /\ UNCHANGED <<counters, callVars>>

-----------------------------------------------------------------------------

Inside(t) == Load(t) \/ Cas(t) \/ Store(t) \/ Notify(t)

Sample == TakeToken \/ Tick \/ SampleBytes \/ SampleConnected

LinkNext ==
    \/ \E t \in Callers : (\E v \in BOOLEAN : SetLink(t, v)) \/ AddBytes(t) \/ Inside(t)
    \/ Sample

LinkSpec == LinkInit /\ [][LinkNext]_statsVars

-----------------------------------------------------------------------------
(* Properties                                                              *)

OwnsBit(t) == \A u \in Callers : u # t => Bit[u] # Bit[t]

\* However the callers interleave, no update of links is lost: once a caller is
\* past its exchange, a bit that only it uses is as it asked.
BitAsAsked ==
    \A t \in Callers :
        OwnsBit(t) /\ pc[t] \notin {"load", "cas"} => (Bit[t] \in links <=> asked[t])

\* The first byte of a run is never left for the periodic beat: until a snapshot
\* has seen it, a wake-up is pending or a beat is about to read the counter.
FirstByteSampled ==
    fed /\ ~sampled.fed => changed \/ beat = "bytes" \/ \E t \in Callers : pc[t] = "notify"
=============================================================================
