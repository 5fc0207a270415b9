---------------------------- MODULE RelaysProofs ----------------------------
(***************************************************************************)
(* Proofs about the live counters, for any number of callers and any       *)
(* assignment of bits, and about the relays that call them: what is proved *)
(* of the counters holds for the relays, and with it what is reported      *)
(* agrees with what they do.                                               *)
(***************************************************************************)
EXTENDS Relays, TLAPS

-----------------------------------------------------------------------------
(* LinkStats                                                               *)

\* The word setLink computes is a set of bits that differs from the one it was
\* computed from in the caller's bit only, and there says what was asked
\* (next := old &^ bit, or old | bit, in agent/stats.go).
LEMMA WantedBit ==
    ASSUME NEW t \in Callers, NEW from \in SUBSET Bits, asked \in [Callers -> BOOLEAN]
    PROVE  /\ Wanted(t, from) \in SUBSET Bits
           /\ Bit[t] \in Wanted(t, from) <=> asked[t]
           /\ \A b : b # Bit[t] => (b \in Wanted(t, from) <=> b \in from)
  BY DEF Wanted, Bits

\* The variables of Stats and of its callers keep their types.
THEOREM LinkTypeCorrect == LinkSpec => []LinkTypeOK
<1>1. LinkInit => LinkTypeOK
  <2>1. [connected |-> FALSE, fed |-> FALSE] \in [connected : BOOLEAN, fed : BOOLEAN]
    BY Zenon
  <2>2. [t \in Callers |-> FALSE] \in [Callers -> BOOLEAN]
    BY Zenon
  <2> QED BY <2>1, <2>2 DEF LinkInit, LinkTypeOK
<1>2. LinkTypeOK /\ [LinkNext]_statsVars => LinkTypeOK'
  <2> SUFFICES ASSUME LinkTypeOK, [LinkNext]_statsVars PROVE LinkTypeOK'
    OBVIOUS
  <2> USE DEF LinkTypeOK, Returned
  <2>1. ASSUME NEW t \in Callers, NEW v \in BOOLEAN, SetLink(t, v) PROVE LinkTypeOK'
    BY <2>1 DEF SetLink, counters, sampleVars
  <2>2. ASSUME NEW t \in Callers, AddBytes(t) PROVE LinkTypeOK'
    BY <2>2 DEF AddBytes, sampleVars
  <2>3. ASSUME NEW t \in Callers, Load(t) PROVE LinkTypeOK'
    BY <2>3 DEF Load, counters, sampleVars
  <2>4. ASSUME NEW t \in Callers, Cas(t) PROVE LinkTypeOK'
    <3>1. Wanted(t, old[t]) \in SUBSET Bits
      BY WantedBit
    <3> QED BY <2>4, <3>1 DEF Cas, sampleVars
  <2>5. ASSUME NEW t \in Callers, Store(t) PROVE LinkTypeOK'
    BY <2>5 DEF Store, sampleVars
  <2>6. ASSUME NEW t \in Callers, Notify(t) PROVE LinkTypeOK'
    BY <2>6 DEF Notify, sampleVars
  <2>7. CASE Sample
    BY <2>7 DEF Sample, TakeToken, Tick, SampleBytes, SampleConnected, counters, callVars
  <2>8. CASE UNCHANGED statsVars
    BY <2>8 DEF statsVars, counters, callVars, sampleVars
  <2> QED BY <2>1, <2>2, <2>3, <2>4, <2>5, <2>6, <2>7, <2>8 DEF LinkNext, Inside
<1> QED BY <1>1, <1>2, PTL DEF LinkSpec

\* No update of the bitmask is lost, whatever the interleaving: the exchange only
\* writes when the word is the one it was computed from.  BitAsAsked is inductive
\* together with the types.
THEOREM NoLostUpdate == LinkSpec => []BitAsAsked
<1>1. LinkInit => BitAsAsked
  BY DEF LinkInit, BitAsAsked
<1>2. LinkTypeOK /\ BitAsAsked /\ [LinkNext]_statsVars => BitAsAsked'
  <2> SUFFICES ASSUME LinkTypeOK, BitAsAsked, [LinkNext]_statsVars,
                      NEW t \in Callers, OwnsBit(t), pc'[t] \notin {"load", "cas"}
               PROVE  (Bit[t] \in links <=> asked[t])'
    BY DEF BitAsAsked, OwnsBit
  <2> USE DEF LinkTypeOK, Returned
  <2>0. pc[t] \notin {"load", "cas"} => (Bit[t] \in links <=> asked[t])
    BY DEF BitAsAsked
  <2>1. ASSUME NEW u \in Callers, NEW v \in BOOLEAN, SetLink(u, v)
        PROVE  (Bit[t] \in links <=> asked[t])'
    BY <2>0, <2>1 DEF SetLink, counters
  <2>2. ASSUME NEW u \in Callers, AddBytes(u) PROVE (Bit[t] \in links <=> asked[t])'
    BY <2>0, <2>2 DEF AddBytes
  <2>3. ASSUME NEW u \in Callers, Load(u) PROVE (Bit[t] \in links <=> asked[t])'
    <3>1. CASE u = t
      <4>1. Wanted(t, links) = links
        BY <2>3, <3>1 DEF Load
      <4> QED BY <2>3, <4>1, WantedBit DEF Load, counters
    <3>2. CASE u # t
      BY <2>0, <2>3, <3>2 DEF Load, counters
    <3> QED BY <3>1, <3>2
  <2>4. ASSUME NEW u \in Callers, Cas(u) PROVE (Bit[t] \in links <=> asked[t])'
    <3>1. CASE u = t
      <4>1. links' = Wanted(t, old[t])
        BY <2>4, <3>1 DEF Cas
      <4> QED BY <2>4, <4>1, WantedBit DEF Cas
    <3>2. CASE u # t
      <4>1. Bit[u] # Bit[t] /\ pc'[t] = pc[t]
        BY <2>4, <3>2 DEF OwnsBit, Cas
      <4>2. links' = Wanted(u, links) \/ links' = links
        BY <2>4 DEF Cas
      <4>3. Bit[t] \in links' <=> Bit[t] \in links
        BY <4>1, <4>2, WantedBit
      <4> QED BY <2>0, <2>4, <4>1, <4>3 DEF Cas
    <3> QED BY <3>1, <3>2
  <2>5. ASSUME NEW u \in Callers, Store(u) PROVE (Bit[t] \in links <=> asked[t])'
    BY <2>0, <2>5 DEF Store
  <2>6. ASSUME NEW u \in Callers, Notify(u) PROVE (Bit[t] \in links <=> asked[t])'
    BY <2>0, <2>6 DEF Notify
  <2>7. CASE Sample
    BY <2>0, <2>7 DEF Sample, TakeToken, Tick, SampleBytes, SampleConnected, counters, callVars
  <2>8. CASE UNCHANGED statsVars
    BY <2>0, <2>8 DEF statsVars, counters, callVars
  <2> QED BY <2>1, <2>2, <2>3, <2>4, <2>5, <2>6, <2>7, <2>8 DEF LinkNext, Inside
<1> QED BY <1>1, <1>2, LinkTypeCorrect, PTL DEF LinkSpec

\* The first byte of a run never waits for the periodic beat, for any number of
\* relays: addBytes notifies after it counted, and a beat takes the token before
\* it reads the counter.
THEOREM FirstByteNotLost == LinkSpec => []FirstByteSampled
<1>1. LinkInit => FirstByteSampled
  BY DEF LinkInit, FirstByteSampled
<1>2. LinkTypeOK /\ FirstByteSampled /\ [LinkNext]_statsVars => FirstByteSampled'
  <2> SUFFICES ASSUME LinkTypeOK, FirstByteSampled, [LinkNext]_statsVars
               PROVE  FirstByteSampled'
    OBVIOUS
  <2> USE DEF LinkTypeOK, Returned
  <2>1. ASSUME NEW t \in Callers, NEW v \in BOOLEAN, SetLink(t, v) PROVE FirstByteSampled'
    BY <2>1 DEF SetLink, counters, sampleVars, FirstByteSampled
  <2>2. ASSUME NEW t \in Callers, AddBytes(t) PROVE FirstByteSampled'
    BY <2>2 DEF AddBytes, sampleVars, FirstByteSampled
  <2>3. ASSUME NEW t \in Callers, Load(t) PROVE FirstByteSampled'
    BY <2>3 DEF Load, counters, sampleVars, FirstByteSampled
  <2>4. ASSUME NEW t \in Callers, Cas(t) PROVE FirstByteSampled'
    BY <2>4 DEF Cas, sampleVars, FirstByteSampled
  <2>5. ASSUME NEW t \in Callers, Store(t) PROVE FirstByteSampled'
    BY <2>5 DEF Store, sampleVars, FirstByteSampled
  <2>6. ASSUME NEW t \in Callers, Notify(t) PROVE FirstByteSampled'
    BY <2>6 DEF Notify, FirstByteSampled
  <2>7. CASE Sample
    BY <2>7 DEF Sample, TakeToken, Tick, SampleBytes, SampleConnected, counters, callVars,
                FirstByteSampled
  <2>8. CASE UNCHANGED statsVars
    BY <2>8 DEF statsVars, counters, callVars, sampleVars, FirstByteSampled
  <2> QED BY <2>1, <2>2, <2>3, <2>4, <2>5, <2>6, <2>7, <2>8 DEF LinkNext, Inside
<1> QED BY <1>1, <1>2, LinkTypeCorrect, PTL DEF LinkSpec

-----------------------------------------------------------------------------
(* Relays                                                                  *)

\* A relay step that writes no counter leaves LinkStats as it is; the others are
\* one setLink or one addBytes call.
LEMMA RelayStep ==
    ASSUME NEW t \in Callers, Relay(t)
    PROVE  \/ \E v \in BOOLEAN : SetLink(t, v)
           \/ AddBytes(t)
           \/ UNCHANGED statsVars
<1>1. CASE Leave(t) \/ OpenLocal(t) \/ OpenFails(t) \/ DialFeed(t) \/ WriteFrame(t) \/ FrameFails(t) \/ Retry(t)
  BY <1>1 DEF Leave, OpenLocal, OpenFails, DialFeed, WriteFrame, FrameFails, Retry
<1>2. CASE Announce(t)
  BY <1>2 DEF Announce
<1>3. CASE CopyTraffic(t)
  BY <1>3 DEF CopyTraffic
<1>4. CASE CountDatagram(t)
  BY <1>4 DEF CountDatagram
<1>5. CASE Drop(t)
  BY <1>5 DEF Drop
<1> QED BY <1>1, <1>2, <1>3, <1>4, <1>5 DEF Relay

\* Every step of the relays is one that LinkStats allows its callers, or leaves the
\* counters alone, so that what is proved about LinkStats holds here.
LEMMA RelaysCallLinkStats == Spec => LinkSpec
<1>1. Init => LinkInit
  BY DEF Init
<1>2. [Next]_vars => [LinkNext]_statsVars
  <2> SUFFICES ASSUME [Next]_vars PROVE [LinkNext]_statsVars
    OBVIOUS
  <2>1. CASE Environment
    BY <2>1 DEF Environment, LocalUp, LocalDown, Cancel, FeedUp, FeedDown
  <2>2. ASSUME NEW t \in Callers, Relay(t) PROVE [LinkNext]_statsVars
    BY <2>2, RelayStep DEF LinkNext
  <2>3. ASSUME NEW t \in Callers, Inside(t) PROVE [LinkNext]_statsVars
    BY <2>3 DEF LinkNext
  <2>4. CASE Sample
    BY <2>4 DEF LinkNext
  <2>5. CASE UNCHANGED vars
    BY <2>5 DEF vars
  <2> QED BY <2>1, <2>2, <2>3, <2>4, <2>5 DEF Next
<1> QED BY <1>1, <1>2, PTL DEF Spec, LinkSpec

\* No relay's update of the bitmask is lost to another's.
THEOREM RelaysLoseNoUpdate == Spec => []BitAsAsked
BY RelaysCallLinkStats, NoLostUpdate, PTL

\* The variables of the relays keep their types.
THEOREM RelaysTypeCorrect == Spec => []TypeOK
<1>1. Init /\ LinkTypeOK => TypeOK
  BY DEF Init, TypeOK
<1>2. TypeOK /\ LinkTypeOK' /\ [Next]_vars => TypeOK'
  <2> SUFFICES ASSUME TypeOK, LinkTypeOK', [Next]_vars PROVE TypeOK'
    OBVIOUS
  <2> USE DEF TypeOK
  <2>1. CASE Environment
    BY <2>1 DEF Environment, LocalUp, LocalDown, Cancel, FeedUp, FeedDown
  <2>2. ASSUME NEW t \in Callers, Relay(t) PROVE TypeOK'
    <3>1. CASE Leave(t) \/ OpenLocal(t) \/ OpenFails(t) \/ DialFeed(t) \/ WriteFrame(t) \/ FrameFails(t) \/ Retry(t)
      BY <3>1 DEF Leave, OpenLocal, OpenFails, DialFeed, WriteFrame, FrameFails, Retry, Goto, StartCopy
    <3>2. CASE Announce(t)
      BY <3>2 DEF Announce, Goto, StartCopy
    <3>3. CASE CopyTraffic(t) \/ CountDatagram(t) \/ Drop(t)
      BY <3>3 DEF CopyTraffic, CountDatagram, Drop, Goto
    <3> QED BY <2>2, <3>1, <3>2, <3>3 DEF Relay
  <2>3. CASE UNCHANGED relayVars
    BY <2>3 DEF relayVars
  <2> QED BY <2>1, <2>2, <2>3 DEF Next, vars
<1> QED BY <1>1, <1>2, RelaysCallLinkStats, LinkTypeCorrect, PTL DEF Spec

\* What a relay last asked of setLink, at each place of its loop.  Nothing is said of
\* an ADS-B relay that dials: after a failed frame it still has its link on.
Reports(t) ==
    /\ Kind[t] # "adsb" /\ at[t] \notin {"copy", "count"} => ~asked[t]
    /\ Kind[t] # "vdl2" /\ at[t] = "copy" => asked[t]
    /\ Kind[t] = "adsb" /\ at[t] = "frame" => asked[t]
    /\ at[t] = "count" => Kind[t] = "vdl2"

AllReport == \A t \in Callers : Reports(t)

\* Only the relay itself changes where it is and what it asks.
LEMMA OthersReport ==
    ASSUME NEW t \in Callers, NEW u \in Callers, u # t, TypeOK, Relay(u)
    PROVE  at'[t] = at[t] /\ asked'[t] = asked[t]
<1> USE DEF TypeOK, LinkTypeOK, Goto, SetLink, AddBytes, StartCopy
<1>1. CASE Leave(u) \/ OpenLocal(u) \/ OpenFails(u) \/ DialFeed(u) \/ WriteFrame(u) \/ FrameFails(u) \/ Retry(u)
  BY <1>1 DEF Leave, OpenLocal, OpenFails, DialFeed, WriteFrame, FrameFails, Retry, statsVars, callVars
<1>2. CASE Announce(u)
  BY <1>2 DEF Announce
<1>3. CASE CopyTraffic(u) \/ CountDatagram(u) \/ Drop(u)
  BY <1>3 DEF CopyTraffic, CountDatagram, Drop
<1> QED BY <1>1, <1>2, <1>3 DEF Relay

LEMMA StepReports ==
    ASSUME TypeOK, AllReport, [Next]_vars
    PROVE  AllReport'
<1> SUFFICES ASSUME NEW t \in Callers PROVE Reports(t)'
  BY DEF AllReport
<1>0. Reports(t) /\ Kind[t] \in {"adsb", "uat", "vdl2"}
  BY KindAssumption DEF AllReport
<1>1. CASE Environment
  BY <1>0, <1>1 DEF Environment, LocalUp, LocalDown, Cancel, FeedUp, FeedDown, statsVars, callVars,
                    Reports
<1>2. CASE Relay(t)
  <2> USE <1>0 DEF Reports, TypeOK, LinkTypeOK, Goto
  <2>1. CASE Leave(t) \/ OpenLocal(t) \/ OpenFails(t) \/ DialFeed(t) \/ FrameFails(t) \/ Retry(t)
    BY <2>1 DEF Leave, OpenLocal, OpenFails, DialFeed, FrameFails, Retry, statsVars, callVars
  <2>2. CASE WriteFrame(t)
    BY <2>2 DEF WriteFrame, StartCopy, statsVars, callVars
  <2>3. CASE Announce(t)
    BY <2>3 DEF Announce, SetLink, StartCopy
  <2>4. CASE CopyTraffic(t)
    BY <2>4 DEF CopyTraffic, SetLink, AddBytes
  <2>5. CASE CountDatagram(t)
    BY <2>5 DEF CountDatagram, AddBytes
  <2>6. CASE Drop(t)
    BY <2>6 DEF Drop, SetLink
  <2> QED BY <1>2, <2>1, <2>2, <2>3, <2>4, <2>5, <2>6 DEF Relay
<1>3. ASSUME NEW u \in Callers, u # t, Relay(u) PROVE Reports(t)'
  BY <1>0, <1>3, OthersReport DEF Reports
<1>4. ASSUME NEW u \in Callers, Inside(u), UNCHANGED relayVars PROVE Reports(t)'
  BY <1>0, <1>4 DEF Inside, Load, Cas, Store, Notify, relayVars, Reports
<1>5. CASE Sample /\ UNCHANGED relayVars
  BY <1>0, <1>5 DEF Sample, TakeToken, Tick, SampleBytes, SampleConnected, callVars, relayVars, Reports
<1>6. CASE UNCHANGED vars
  BY <1>0, <1>6 DEF vars, statsVars, callVars, relayVars, Reports
<1> QED BY <1>1, <1>2, <1>3, <1>4, <1>5, <1>6 DEF Next

LEMMA RelaysReport == Spec => []AllReport
<1>1. Init => AllReport
  BY KindAssumption DEF Init, LinkInit, AllReport, Reports
<1> QED BY <1>1, StepReports, RelaysTypeCorrect, PTL DEF Spec

\* A UAT or VDL2 relay with a bit of its own that dials or has ended is not reported:
\* it has asked for its bit to be cleared, and no other relay can undo that.
THEOREM DialingIsDown == Spec => []DownUnlessCopying
<1>1. AllReport /\ BitAsAsked => DownUnlessCopying
  BY DEF AllReport, Reports, BitAsAsked, DownUnlessCopying, Returned
<1> QED BY <1>1, RelaysReport, RelaysLoseNoUpdate, PTL

\* A relay with a bit of its own that copies to the feed is reported.
THEOREM CopyingIsUp == Spec => []UpWhileCopying
<1>1. AllReport /\ BitAsAsked => UpWhileCopying
  BY DEF AllReport, Reports, BitAsAsked, UpWhileCopying, Returned
<1> QED BY <1>1, RelaysReport, RelaysLoseNoUpdate, PTL

\* Were the bits distinct, no relay's disconnect would hide another: that they are
\* shared between relays of a protocol is all there is to that defect.
THEOREM DistinctBitsNotHidden ==
    (\A t \in Callers : OwnsBit(t)) => (Spec => []LinkNotHidden)
<1> SUFFICES ASSUME \A t \in Callers : OwnsBit(t) PROVE Spec => []LinkNotHidden
  OBVIOUS
<1>1. UpWhileCopying => LinkNotHidden
  BY DEF UpWhileCopying, LinkNotHidden
<1> QED BY <1>1, CopyingIsUp, PTL
=============================================================================
