------------------------ MODULE DecoderManagerProofs ------------------------
(***************************************************************************)
(* Proofs about DecoderManager, for any set of ports, devices, feeds and   *)
(* roles, and any way an enumeration lists the bus.                        *)
(***************************************************************************)
EXTENDS DecoderManager, FiniteSetTheorems, WellFoundedInduction, TLAPS

-----------------------------------------------------------------------------
(* Roles, slots and children                                               *)

\* A key is a port or a serial, and has a configured role or none.
LEMMA RoleForType ==
    ASSUME NEW k \in Keys, roles \in [Keys -> Roles \cup {Unset}]
    PROVE  RoleFor(k) \in Roles \cup {Unset}
  BY ConstantsAssumption DEF RoleFor

\* A dongle resolves to a role: the configured one, the default, or that of a
\* bundled decoder.
LEMMA ResolvedRoleType ==
    ASSUME NEW p, KeyOf(p) \in Keys, roles \in [Keys -> Roles \cup {Unset}], ~NeedsProbe(p)
    PROVE  ResolvedRole(p) \in Roles
<1> DEFINE r == RoleFor(KeyOf(p))
<1>1. r \in Roles \cup {Unset}
  BY RoleForType
<1> HIDE DEF r
<1>2. ResolvedRole(p) = CASE r # Unset -> r
          [] r = Unset /\ DefaultRole \in Bundled -> DefaultRole
          [] r = Unset /\ DefaultRole \notin Bundled ->
                IF Probeable = {} THEN "off" ELSE CHOOSE b \in Probeable : TRUE
  BY DEF ResolvedRole, r
<1>3. CASE r # Unset
  BY <1>1, <1>2, <1>3
<1>4. CASE r = Unset /\ DefaultRole \in Bundled
  <2>1. ResolvedRole(p) = DefaultRole
    BY <1>2, <1>4
  <2> QED BY <1>4, <2>1, ConstantsAssumption DEF Roles
<1>5. CASE r = Unset /\ DefaultRole \notin Bundled
  <2>1. ResolvedRole(p) = IF Probeable = {} THEN "off" ELSE CHOOSE b \in Probeable : TRUE
    BY <1>2, <1>5
  <2>2. Probeable # {} => (CHOOSE b \in Probeable : TRUE) \in Probeable
    OBVIOUS
  <2>3. Probeable \subseteq Roles
    BY DEF Probeable, Roles
  <2> QED BY <2>1, <2>2, <2>3 DEF Roles
<1> QED BY <1>3, <1>4, <1>5

\* The dongles before p with its role: what adsbSlot and vdl2Slot have counted
\* when the loop of reconcile reaches p.
Before(p) == {q \in DOMAIN dongles : assigned[q] = assigned[p] /\ dongles[q].index < dongles[p].index}

\* A slot is a natural number: the dongles counted are finitely many.
LEMMA SlotType ==
    ASSUME IsMap(dongles, Ports, Dongle), NEW p
    PROVE  SlotOf(p) \in Nat
<1>1. IsFiniteSet(DOMAIN dongles)
  BY ConstantsAssumption, FS_Subset DEF IsMap
<1>2. IsFiniteSet(Before(p))
  BY <1>1, FS_Subset DEF Before
<1> QED BY <1>2, FS_CardinalityType DEF SlotOf, Before

\* Two dongles of one relayed role get different ports.
LEMMA SlotsDiffer ==
    ASSUME IsMap(dongles, Ports, Dongle), IndexesDistinct(dongles),
           NEW p \in DOMAIN dongles, NEW q \in DOMAIN dongles,
           p # q, assigned[p] = assigned[q], assigned[p] \in Relayed
    PROVE  SlotOf(p) # SlotOf(q)
<1>1. dongles[p].index \in Nat /\ dongles[q].index \in Nat
  BY DEF IsMap, Dongle
<1>2. IsFiniteSet(DOMAIN dongles)
  BY ConstantsAssumption, FS_Subset DEF IsMap
<1>3. IsFiniteSet(Before(p)) /\ IsFiniteSet(Before(q))
  BY <1>2, FS_Subset DEF Before
<1>4. SlotOf(p) = Cardinality(Before(p)) /\ SlotOf(q) = Cardinality(Before(q))
  BY DEF SlotOf, Before
<1>5. \A r \in DOMAIN dongles : dongles[r].index \in Nat
  BY DEF IsMap, Dongle
<1>6. CASE dongles[p].index < dongles[q].index
  <2>1. Before(p) \subseteq Before(q) /\ p \in Before(q) /\ p \notin Before(p)
    BY <1>1, <1>5, <1>6 DEF Before
  <2>2. Cardinality(Before(p)) < Cardinality(Before(q))
    BY <1>3, <2>1, FS_Subset, FS_CardinalityType
  <2> QED BY <1>3, <1>4, <2>2, FS_CardinalityType
<1>7. CASE dongles[q].index < dongles[p].index
  <2>1. Before(q) \subseteq Before(p) /\ q \in Before(p) /\ q \notin Before(q)
    BY <1>1, <1>5, <1>7 DEF Before
  <2>2. Cardinality(Before(q)) < Cardinality(Before(p))
    BY <1>3, <2>1, FS_Subset, FS_CardinalityType
  <2> QED BY <1>3, <1>4, <2>2, FS_CardinalityType
<1> QED BY <1>1, <1>6, <1>7 DEF IndexesDistinct

\* What Apply starts for a dongle of the snapshot is a child.
LEMMA ChildType ==
    ASSUME IsMap(dongles, Ports, Dongle), IsMap(assigned, Ports, Roles),
           DOMAIN assigned = DOMAIN dongles, NEW p \in DOMAIN dongles
    PROVE  ChildOf(p) \in Child
<1>1. SlotOf(p) \in Nat
  BY SlotType
<1> QED BY <1>1 DEF ChildOf, Child, IsMap, Dongle

\* A set of numbers that is not empty has a least one.
LEMMA LeastIn ==
    ASSUME NEW N \in SUBSET Nat, N # {}
    PROVE  \E c \in N : \A d \in N : c <= d
<1>1. PICK c \in N : \A d \in N : ~(<<d, c>> \in OpToRel(<, Nat))
  BY NatLessThanWellFounded, WFMin
<1>2. \A d \in N : ~(d < c)
  BY <1>1 DEF OpToRel
<1> QED BY <1>2

\* A number given to each element of a finite set is greatest for one of them.
LEMMA GreatestIn ==
    ASSUME NEW S, IsFiniteSet(S), S # {}, NEW h \in [S -> Nat]
    PROVE  \E m \in S : \A q \in S : h[q] <= h[m]
<1> DEFINE Above(p) == {q \in S : h[p] < h[q]}
           Counts   == {Cardinality(Above(p)) : p \in S}
<1>1. \A p \in S : IsFiniteSet(Above(p))
  BY FS_Subset
<1>2. \A p \in S : Cardinality(Above(p)) \in Nat
  BY <1>1, FS_CardinalityType
<1>3. Counts \in SUBSET Nat /\ Counts # {}
  BY <1>2
<1>4. \E c \in Counts : \A d \in Counts : c <= d
  <2> HIDE DEF Counts
  <2> QED BY <1>3, LeastIn
<1>5. PICK m \in S : \A q \in S : Cardinality(Above(m)) <= Cardinality(Above(q))
  <2>1. PICK c \in Counts : \A d \in Counts : c <= d
    BY <1>4
  <2>2. PICK m \in S : c = Cardinality(Above(m))
    OBVIOUS
  <2>3. \A q \in S : Cardinality(Above(q)) \in Counts
    OBVIOUS
  <2> HIDE DEF Above, Counts
  <2>4. \A q \in S : Cardinality(Above(m)) <= Cardinality(Above(q))
    BY <2>1, <2>2, <2>3
  <2> QED BY <2>4
<1>6. ASSUME NEW q \in S, h[m] < h[q] PROVE FALSE
  <2>1. h[q] \in Nat /\ h[m] \in Nat /\ \A r \in S : h[r] \in Nat
    OBVIOUS
  <2>2. Above(q) \subseteq Above(m)
    BY <1>6, <2>1
  <2>3. q \in Above(m) /\ q \notin Above(q)
    BY <1>6, <2>1
  <2>4. Cardinality(Above(q)) < Cardinality(Above(m))
    BY <1>1, <2>2, <2>3, FS_Subset, FS_CardinalityType
  <2>5. Cardinality(Above(m)) <= Cardinality(Above(q))
    BY <1>5
  <2> HIDE DEF Above
  <2> QED BY <1>2, <2>4, <2>5
<1>7. \A q \in S : h[q] <= h[m]
  BY <1>6
<1> QED BY <1>7

\* Of several dongles with one key, one is enumerated last.
LEMMA LastIsIn ==
    ASSUME IsMap(dongles, Ports, Dongle), NEW S \in SUBSET DOMAIN dongles, S # {}
    PROVE  Last(S) \in S
<1> DEFINE h == [p \in S |-> dongles[p].index]
<1>1. IsFiniteSet(S)
  BY ConstantsAssumption, FS_Subset DEF IsMap
<1>2. h \in [S -> Nat]
  BY DEF IsMap, Dongle
<1>3. PICK m \in S : \A q \in S : h[q] <= h[m]
  <2> HIDE DEF h
  <2> QED BY <1>1, <1>2, GreatestIn
<1>4. \A q \in S : dongles[q].index <= dongles[m].index
  BY <1>3
<1> QED BY <1>4 DEF Last

\* The dongle whose decoder a scheduled key ends up with.
Runs(k) == Last(WithKey(Scheduled, k))

\* It is a scheduled dongle of that key.
LEMMA RunsScheduled ==
    ASSUME IsMap(dongles, Ports, Dongle), NEW k \in {KeyOf(p) : p \in Scheduled}
    PROVE  Runs(k) \in Scheduled /\ KeyOf(Runs(k)) = k
<1>1. WithKey(Scheduled, k) \in SUBSET DOMAIN dongles /\ WithKey(Scheduled, k) # {}
  BY DEF WithKey, Scheduled
<1>2. Runs(k) \in WithKey(Scheduled, k)
  BY <1>1, LastIsIn DEF Runs
<1> QED BY <1>2 DEF WithKey

-----------------------------------------------------------------------------
(* Types                                                                   *)

\* A snapshot lists dongles under ports and serials.
LEMMA ListingType ==
    ASSUME TypeOK, NEW S \in SUBSET DOMAIN bus, NEW T \in SUBSET DOMAIN bus
    PROVE  IsMap(Listing(S, T), Ports, Dongle)
<1>1. ASSUME NEW p \in S PROVE KeyIn(T, p) \in Keys
  <2> DEFINE at == {q \in T : Rank(T, q) = bus[p].index}
  <2>1. KeyIn(T, p) = IF at = {} THEN bus[p].device ELSE CHOOSE q \in at : TRUE
    BY DEF KeyIn
  <2>2. bus[p].device \in Devices
    BY DEF TypeOK, IsMap, Attached
  <2>3. at \subseteq Ports
    BY DEF TypeOK, IsMap
  <2> HIDE DEF at
  <2>4. at # {} => (CHOOSE q \in at : TRUE) \in at
    OBVIOUS
  <2> QED BY <2>1, <2>2, <2>3, <2>4 DEF Keys
<1>2. \A p \in S : p \in Ports /\ bus[p].device \in Devices /\ bus[p].index \in Nat
  BY DEF TypeOK, IsMap, Attached
<1>3. \A p \in S : [key |-> KeyIn(T, p), device |-> bus[p].device, index |-> bus[p].index] \in Dongle
  BY <1>1, <1>2 DEF Dongle
<1> QED BY <1>2, <1>3 DEF Listing, IsMap

\* A dongle of the snapshot has a key.
LEMMA KeyType ==
    ASSUME TypeOK, NEW p \in DOMAIN dongles
    PROVE  KeyOf(p) \in Keys
  BY DEF TypeOK, IsMap, Dongle, KeyOf

\* Storing a resolved role keeps the types of the two maps.
LEMMA AssignType ==
    ASSUME TypeOK, NEW p \in DOMAIN dongles, NEW r \in Roles, Assign(p, r)
    PROVE  /\ IsMap(assigned', Ports, Roles)
           /\ DOMAIN assigned' \subseteq DOMAIN dongles
           /\ roles' \in [Keys -> Roles \cup {Unset}]
<1>1. p \in Ports /\ KeyOf(p) \in Keys
  BY KeyType DEF TypeOK, IsMap
<1> QED BY <1>1 DEF TypeOK, IsMap, Assign

\* The three maps Apply computes have their types.
LEMMA ApplyType ==
    ASSUME TypeOK, DOMAIN assigned = DOMAIN dongles
    PROVE  /\ IsMap(DecodersAfter, Keys, Child)
           /\ IsMap(RelaysAfter, Relayed \X Keys, Relay)
           /\ IsMap(InventoryAfter, Ports, Receiver)
<1>1. \A p \in DOMAIN dongles : ChildOf(p) \in Child
  BY ChildType DEF TypeOK
<1>2. Scheduled \subseteq DOMAIN dongles /\ DOMAIN dongles \subseteq Ports
  BY DEF Scheduled, TypeOK, IsMap
<1>3. IsMap(DecodersAfter, Keys, Child)
  <2> DEFINE K == {KeyOf(p) : p \in Scheduled}
  <2>1. K \subseteq Keys /\ Skipped \subseteq DOMAIN active /\ DOMAIN active \subseteq Keys
    BY <1>2, KeyType DEF Skipped, TypeOK, IsMap
  <2>2. \A k \in Skipped : active[k] \in Child
    BY DEF Skipped, TypeOK, IsMap
  <2>3. \A k \in K : ChildOf(Last(WithKey(Scheduled, k))) \in Child
    BY <1>1, <1>2, RunsScheduled DEF Runs, TypeOK
  <2>4. DecodersAfter = [k \in Skipped \cup K |->
            IF k \in Skipped THEN active[k] ELSE ChildOf(Last(WithKey(Scheduled, k)))]
    BY DEF DecodersAfter
  <2> HIDE DEF K
  <2> QED BY <2>1, <2>2, <2>3, <2>4 DEF IsMap
<1>4. IsMap(InventoryAfter, Ports, Receiver)
  BY <1>1, <1>2, KeyType DEF InventoryAfter, IsMap, Receiver
<1>5. WantedRelays \subseteq Relayed \X Keys
  BY <1>2, KeyType DEF WantedRelays
<1>6. \A f \in WantedRelays : SlotOf(First(Served(f))) \in Nat
  BY SlotType DEF TypeOK
<1>7. \A f \in WantedRelays : [slot |-> SlotOf(First(Served(f))), feed |-> feed] \in Relay
  BY <1>6 DEF Relay, TypeOK
<1>8. IsMap(RelaysAfter, Relayed \X Keys, Relay)
  BY <1>5, <1>7 DEF RelaysAfter, TypeOK, IsMap
<1> QED BY <1>3, <1>4, <1>8

\* A dongle that appears shifts those behind it; one that goes shifts them back.
LEMMA PlugType ==
    ASSUME TypeOK, NEW p \in Ports, NEW d \in Devices, NEW i \in Nat, Plug(p, d, i)
    PROVE  IsMap(bus', Ports, Attached)
<1>1. \A q \in DOMAIN bus : bus[q] \in Attached
  BY DEF TypeOK, IsMap
<1>2. \A q \in DOMAIN bus : [bus[q] EXCEPT !.index = @ + 1] \in Attached
  BY <1>1 DEF Attached
<1>3. [device |-> d, index |-> i] \in Attached
  BY DEF Attached
<1> QED BY <1>1, <1>2, <1>3 DEF Plug, TypeOK, IsMap

\* An unplugged dongle lowers only indexes that are above another one.
LEMMA UnplugType ==
    ASSUME TypeOK, NEW p \in Ports, Unplug(p)
    PROVE  IsMap(bus', Ports, Attached)
<1>1. \A q \in DOMAIN bus : bus[q] \in Attached
  BY DEF TypeOK, IsMap
<1>2. \A q \in DOMAIN bus :
        bus[q].index > bus[p].index => [bus[q] EXCEPT !.index = @ - 1] \in Attached
  BY <1>1 DEF Unplug, Attached
<1> QED BY <1>1, <1>2 DEF Unplug, TypeOK, IsMap

\* The variables of the manager keep their types.
THEOREM TypeCorrect == Spec => []TypeOK
<1>1. Init => TypeOK
  BY ConstantsAssumption DEF Init, TypeOK, IsMap, EmptyMap
<1>2. TypeOK /\ [Next]_vars => TypeOK'
  <2> SUFFICES ASSUME TypeOK, [Next]_vars PROVE TypeOK'
    OBVIOUS
  <2>1. CASE Bus
    <3>1. ASSUME NEW p \in Ports, NEW d \in Devices, NEW i \in 0..Cardinality(DOMAIN bus),
                 Plug(p, d, i)
          PROVE  TypeOK'
      <4>1. IsFiniteSet(DOMAIN bus)
        BY ConstantsAssumption, FS_Subset DEF TypeOK, IsMap
      <4>2. i \in Nat
        BY <4>1, FS_CardinalityType
      <4>3. IsMap(bus', Ports, Attached)
        BY <3>1, <4>2, PlugType
      <4> QED BY <3>1, <4>3 DEF Plug, TypeOK, cfgVars, mgrVars, runVars
    <3>2. ASSUME NEW p \in Ports, Unplug(p) PROVE TypeOK'
      <4>1. IsMap(bus', Ports, Attached)
        BY <3>2, UnplugType
      <4> QED BY <3>2, <4>1 DEF Unplug, TypeOK, cfgVars, mgrVars, runVars
    <3> QED BY <2>1, <3>1, <3>2 DEF Bus
  <2>2. CASE Server
    <3>1. PICK f \in Feeds, k \in Keys : \E r \in ServerRoles[k] \cup {wanted.roles[k]} : EditConfig(f, k, r)
      BY <2>2 DEF Server
    <3>2. PICK r \in ServerRoles[k] \cup {wanted.roles[k]} : EditConfig(f, k, r)
      BY <3>1
    <3>3. r \in Roles \cup {Unset}
      BY <3>2, ConstantsAssumption DEF TypeOK
    <3>4. wanted' \in [feed : Feeds, roles : [Keys -> Roles \cup {Unset}]]
      BY <3>1, <3>2, <3>3 DEF EditConfig, TypeOK
    <3> QED BY <3>2, <3>4 DEF EditConfig, TypeOK, cfgVars, mgrVars, runVars
  <2>3. CASE PhoneHome
    <3>1. ASSUME NEW v \in BOOLEAN, SetEnabled(v) PROVE TypeOK'
      BY <3>1 DEF SetEnabled, TypeOK, envVars, mgrVars, runVars
    <3>2. CASE StoreConfig
      <4>1. MergedRoles \in [Keys -> Roles \cup {Unset}]
        BY DEF MergedRoles, TypeOK
      <4> QED BY <3>2, <4>1 DEF StoreConfig, TypeOK, envVars, mgrVars, runVars
    <3>3. CASE FinishBounce
      BY <3>3 DEF FinishBounce, TypeOK, envVars, mgrVars, runVars
    <3>4. CASE StartBounce
      BY <3>4 DEF StartBounce, TypeOK, envVars, mgrVars, runVars
    <3>5. CASE Exit
      BY <3>5 DEF Exit, TypeOK, IsMap, EmptyMap, envVars, runVars
    <3> QED BY <2>3, <3>1, <3>2, <3>3, <3>4, <3>5 DEF PhoneHome
  <2>4. CASE Stop
    BY <2>4 DEF Stop, TypeOK, IsMap, EmptyMap, envVars, cfgVars, mgrVars
  <2>5. CASE Reconcile
    <3>1. CASE ReconcileDisabled
      BY <3>1 DEF ReconcileDisabled, StopAll, TypeOK, IsMap, EmptyMap, envVars, cfgVars, mgrVars
    <3>2. CASE Enumerate
      <4>1. PICK S \in SUBSET DOMAIN bus, T \in SUBSET DOMAIN bus : dongles' = Listing(S, T)
        BY <3>2 DEF Enumerate, WholeBus
      <4>2. IsMap(dongles', Ports, Dongle)
        BY <4>1, ListingType
      <4> QED BY <3>2, <4>2 DEF Enumerate, TypeOK, IsMap, EmptyMap, envVars, cfgVars, runVars
    <3>3. ASSUME NEW p \in Ports, AssignRole(p) PROVE TypeOK'
      <4>1. ResolvedRole(p) \in Roles
        BY <3>3, KeyType, ResolvedRoleType DEF AssignRole, IsNext, TypeOK
      <4>2. p \in DOMAIN dongles
        BY <3>3 DEF AssignRole, IsNext
      <4>3. Assign(p, ResolvedRole(p))
        BY <3>3 DEF AssignRole
      <4> QED BY <3>3, <4>1, <4>2, <4>3, AssignType DEF AssignRole, TypeOK, envVars, runVars
    <3>4. ASSUME NEW p \in Ports, StartProbe(p) PROVE TypeOK'
      BY <3>4 DEF StartProbe, TypeOK, envVars, cfgVars, runVars
    <3>5. ASSUME NEW p \in Ports, FinishProbe(p) PROVE TypeOK'
      <4>1. p \in DOMAIN dongles
        BY <3>5 DEF FinishProbe, IsNext
      <4>2. PICK r \in Roles : Assign(p, r)
        BY <3>5 DEF FinishProbe, Roles
      <4> QED BY <3>5, <4>1, <4>2, AssignType DEF FinishProbe, TypeOK, envVars, runVars
    <3>6. CASE Apply
      <4>1. /\ IsMap(active', Keys, Child) /\ IsMap(forwarders', Relayed \X Keys, Relay)
            /\ IsMap(inventory', Ports, Receiver)
        BY <3>6, ApplyType DEF Apply, IsMap, EmptyMap
      <4> QED BY <3>6, <4>1 DEF Apply, TypeOK, IsMap, EmptyMap, envVars, cfgVars
    <3> QED BY <2>5, <3>1, <3>2, <3>3, <3>4, <3>5, <3>6 DEF Reconcile
  <2>6. ASSUME NEW k \in Keys, RetryVDL2Relay(k) PROVE TypeOK'
    <3>1. IsMap(forwarders', Relayed \X Keys, Relay)
      BY <2>6 DEF RetryVDL2Relay, TypeOK, IsMap, Relay
    <3> QED BY <2>6, <3>1 DEF RetryVDL2Relay, TypeOK, envVars, cfgVars, mgrVars
  <2>7. CASE Shutdown
    BY <2>7 DEF Shutdown, StopAll, TypeOK, IsMap, EmptyMap, envVars, cfgVars
  <2>8. CASE UNCHANGED vars
    BY <2>8 DEF vars, envVars, cfgVars, mgrVars, runVars, TypeOK
  <2> QED BY <2>1, <2>2, <2>3, <2>4, <2>5, <2>6, <2>7, <2>8 DEF Next
<1> QED BY <1>1, <1>2, PTL DEF Spec

-----------------------------------------------------------------------------
(* The inductive invariant                                                 *)

Running ==
    RelayHasDecoder /\ DecoderHasRelay /\ PortsDistinct /\ InventoryTruthful /\ LocalRoleWins

\* librtlsdr indexes stay distinct when dongles come and go.
LEMMA PlugIndexes ==
    ASSUME TypeOK, IndexesDistinct(bus), NEW p \in Ports, NEW d \in Devices, NEW i \in Nat,
           Plug(p, d, i)
    PROVE  IndexesDistinct(bus')
<1>1. \A q \in DOMAIN bus : bus[q] \in Attached /\ bus[q].index \in Nat
  BY DEF TypeOK, IsMap, Attached
<1>2. DOMAIN bus' = DOMAIN bus \cup {p} /\ p \notin DOMAIN bus
  BY DEF Plug
<1>3. bus'[p].index = i
  BY DEF Plug
<1>4. \A q \in DOMAIN bus :
        bus'[q].index = IF bus[q].index >= i THEN bus[q].index + 1 ELSE bus[q].index
  BY <1>1 DEF Plug, Attached
<1> QED BY <1>1, <1>2, <1>3, <1>4 DEF IndexesDistinct

\* The indexes that remain close the gap and stay distinct.
LEMMA UnplugIndexes ==
    ASSUME TypeOK, IndexesDistinct(bus), NEW p \in Ports, Unplug(p)
    PROVE  IndexesDistinct(bus')
<1>1. \A q \in DOMAIN bus : bus[q] \in Attached /\ bus[q].index \in Nat
  BY DEF TypeOK, IsMap, Attached
<1>2. DOMAIN bus' = DOMAIN bus \ {p} /\ p \in DOMAIN bus
  BY DEF Unplug
<1>3. \A q \in DOMAIN bus' :
        bus'[q].index = IF bus[q].index > bus[p].index THEN bus[q].index - 1 ELSE bus[q].index
  BY <1>1 DEF Unplug, Attached
<1>4. \A q \in DOMAIN bus' : bus[q].index # bus[p].index
  BY <1>2 DEF IndexesDistinct
<1> QED BY <1>1, <1>2, <1>3, <1>4 DEF IndexesDistinct

\* A snapshot of some of them keeps the indexes they have.
LEMMA ListingIndexes ==
    ASSUME IndexesDistinct(bus), NEW S \in SUBSET DOMAIN bus, NEW T
    PROVE  IndexesDistinct(Listing(S, T))
  BY DEF IndexesDistinct, Listing

\* Only one dongle is next, so the probe that ends is the one that started.
LEMMA OneNext ==
    ASSUME TypeOK, IndexesDistinct(dongles), NEW p \in Ports, NEW q \in Ports, IsNext(p), IsNext(q)
    PROVE  p = q
<1>1. dongles[p].index \in Nat /\ dongles[q].index \in Nat
  BY DEF TypeOK, IsMap, Dongle, IsNext
<1>2. dongles[p].index <= dongles[q].index /\ dongles[q].index <= dongles[p].index
  BY DEF IsNext
<1> QED BY <1>1, <1>2 DEF IndexesDistinct, IsNext

\* The user's choice survives the resolution of one more role.
LEMMA AssignKeepsLocal ==
    ASSUME LocalRoleKept, NEW p \in Ports, NEW r, Assign(p, r), UNCHANGED dongles,
           LocalRole[KeyOf(p)] # Unset => r = LocalRole[KeyOf(p)], pc' = "assign"
    PROVE  LocalRoleKept'
  BY DEF LocalRoleKept, Assign, KeyOf

\* After Apply the running decoders and relays are as they should be.
LEMMA ApplyRuns ==
    ASSUME TypeOK, Inv, Apply, ~stopping
    PROVE  Running'
<1> DEFINE K == {KeyOf(p) : p \in Scheduled}
<1>1. DOMAIN assigned = DOMAIN dongles /\ Scheduled \subseteq DOMAIN dongles
  BY DEF Apply, Scheduled
<1>2. active' = DecodersAfter /\ forwarders' = RelaysAfter /\ inventory' = InventoryAfter
  BY DEF Apply
<1>3. DOMAIN forwarders' = WantedRelays
  BY <1>2 DEF RelaysAfter
<1>4. \A k \in K : k \in DOMAIN active' /\ active'[k] = ChildOf(Runs(k))
  BY <1>2 DEF DecodersAfter, Runs, Skipped
<1>5. \A k \in DOMAIN active' \ K : k \in Skipped /\ k \in DOMAIN active /\ active'[k] = active[k]
  BY <1>2 DEF DecodersAfter, Skipped
<1>6. DOMAIN inventory' = DOMAIN dongles
      /\ \A p \in DOMAIN dongles : inventory'[p].key = KeyOf(p) /\ inventory'[p].child = ChildOf(p)
  BY <1>2 DEF InventoryAfter
<1>7. \A p : ChildOf(p).role = assigned[p] /\ ChildOf(p).slot = SlotOf(p)
  BY DEF ChildOf
<1>8. \A k : EntriesOf(k)' = WithKey(DOMAIN dongles, k)
  BY <1>6 DEF EntriesOf, WithKey
<1>9. \A k \in DOMAIN active' \ K : SetAside(k)' /\ EntriesOf(k)' # {}
  <2> SUFFICES ASSUME NEW k \in DOMAIN active' \ K PROVE SetAside(k)' /\ EntriesOf(k)' # {}
    OBVIOUS
  <2>1. PICK p \in DOMAIN dongles : KeyOf(p) = k
    BY <1>5 DEF Skipped
  <2>2. \A q \in WithKey(DOMAIN dongles, k) : assigned[q] = "off"
    BY DEF WithKey, Scheduled
  <2>3. SetAside(k)' <=> \A q \in EntriesOf(k)' : inventory'[q].child.role = "off"
    BY DEF SetAside
  <2>4. \A q \in EntriesOf(k)' : inventory'[q].child.role = "off"
    BY <1>6, <1>7, <1>8, <2>2 DEF WithKey
  <2> QED BY <1>8, <2>1, <2>3, <2>4 DEF WithKey
<1>10. \A k \in K : Runs(k) \in Scheduled /\ KeyOf(Runs(k)) = k
  BY RunsScheduled DEF TypeOK
<1>11. \A k \in K : Runs(k) \in DOMAIN dongles /\ assigned[Runs(k)] # "off"
  BY <1>1, <1>10 DEF Scheduled
<1>12. RelayHasDecoder'
  <2> SUFFICES ASSUME NEW f \in WantedRelays
               PROVE  f[2] \in DOMAIN active' /\ (active'[f[2]].role = f[1] \/ Shared(f[2])')
    BY <1>3 DEF RelayHasDecoder
  <2>1. PICK p \in Scheduled : f = <<assigned[p], KeyOf(p)>>
    BY DEF WantedRelays
  <2>2. KeyOf(p) \in K /\ p \in DOMAIN dongles
    BY <1>1
  <2>3. CASE Runs(KeyOf(p)) = p
    BY <1>4, <1>7, <2>1, <2>2, <2>3
  <2>4. CASE Runs(KeyOf(p)) # p
    <3>1. p \in EntriesOf(f[2])' /\ Runs(f[2]) \in EntriesOf(f[2])'
      BY <1>8, <1>10, <1>11, <2>1, <2>2 DEF WithKey
    <3>2. Shared(f[2])'
      BY <2>1, <2>4, <3>1 DEF Shared
    <3> QED BY <1>4, <2>1, <2>2, <3>2
  <2> QED BY <2>3, <2>4
<1>13. DecoderHasRelay'
  <2> SUFFICES ASSUME NEW k \in DOMAIN active', active'[k].role \in Relayed, ~SetAside(k)'
               PROVE  <<active'[k].role, k>> \in WantedRelays
    BY <1>3 DEF DecoderHasRelay
  <2>1. k \in K
    BY <1>9
  <2>2. active'[k].role = assigned[Runs(k)]
    BY <1>4, <1>7, <2>1
  <2> QED BY <1>10, <2>1, <2>2 DEF WantedRelays
<1>14. PortsDistinct'
  <2> SUFFICES ASSUME NEW k \in DOMAIN active', NEW l \in DOMAIN active', k # l,
                      active'[k].role \in Relayed, active'[k].role = active'[l].role,
                      ~SetAside(k)', ~SetAside(l)'
               PROVE  active'[k].slot # active'[l].slot
    BY DEF PortsDistinct
  <2>1. k \in K /\ l \in K
    BY <1>9
  <2>2. active'[k].role = assigned[Runs(k)] /\ active'[l].role = assigned[Runs(l)]
    BY <1>4, <1>7, <2>1
  <2>3. active'[k].slot = SlotOf(Runs(k)) /\ active'[l].slot = SlotOf(Runs(l))
    BY <1>4, <1>7, <2>1
  <2>4. Runs(k) # Runs(l) /\ Runs(k) \in DOMAIN dongles /\ Runs(l) \in DOMAIN dongles
    BY <1>10, <1>11, <2>1
  <2>5. SlotOf(Runs(k)) # SlotOf(Runs(l))
    BY <2>2, <2>4, SlotsDiffer DEF TypeOK, Inv
  <2> QED BY <2>3, <2>5
<1>15. InventoryTruthful'
  <2> SUFFICES ASSUME NEW k \in DOMAIN active'
               PROVE  \E p \in EntriesOf(k)' : SetAside(k)' \/ inventory'[p].child = active'[k]
    BY DEF InventoryTruthful
  <2>1. CASE k \in K
    <3>1. Runs(k) \in EntriesOf(k)'
      BY <1>8, <1>10, <1>11, <2>1 DEF WithKey
    <3>2. inventory'[Runs(k)].child = active'[k]
      BY <1>4, <1>6, <1>11, <2>1
    <3> QED BY <3>1, <3>2
  <2>2. CASE k \notin K
    BY <1>9, <2>2
  <2> QED BY <2>1, <2>2
<1>16. LocalRoleWins'
  <2> SUFFICES ASSUME NEW k \in DOMAIN active', LocalRole[k] # Unset
               PROVE  active'[k].role = LocalRole[k]
    BY DEF LocalRoleWins
  <2>1. CASE k \in K
    <3>1. assigned[Runs(k)] = LocalRole[k]
      BY <1>1, <1>10, <1>11, <2>1 DEF Inv, LocalRoleKept
    <3> QED BY <1>4, <1>7, <2>1, <3>1
  <2>2. CASE k \notin K
    BY <1>5, <2>2 DEF Inv, LocalRoleWins
  <2> QED BY <2>1, <2>2
<1> QED BY <1>12, <1>13, <1>14, <1>15, <1>16 DEF Running

\* When everything was stopped there is nothing to be said of what runs.
LEMMA NothingRuns ==
    ASSUME active' = EmptyMap, forwarders' = EmptyMap
    PROVE  Running'
  BY DEF EmptyMap, Running, RelayHasDecoder, DecoderHasRelay, PortsDistinct,
         InventoryTruthful, LocalRoleWins

\* A step that leaves decoders, relays and inventory alone keeps what is said of them.
LEMMA UnchangedRuns == ASSUME Running, UNCHANGED runVars PROVE Running'
  BY DEF runVars, Running, RelayHasDecoder, DecoderHasRelay, PortsDistinct,
         InventoryTruthful, LocalRoleWins, SetAside, EntriesOf, Shared

\* A VDL2 relay that reads its feed anew stays the relay of its decoder.
LEMMA RetryRuns ==
    ASSUME Running, NEW k \in Keys, RetryVDL2Relay(k)
    PROVE  Running'
<1>1. DOMAIN forwarders' = DOMAIN forwarders /\ UNCHANGED <<active, inventory>>
  BY DEF RetryVDL2Relay
<1> QED BY <1>1 DEF Running, RelayHasDecoder, DecoderHasRelay, PortsDistinct,
                    InventoryTruthful, LocalRoleWins, SetAside, EntriesOf, Shared

\* The inductive invariant holds: with it every relay has its decoder, every
\* decoder its relay, ports are distinct, the inventory is truthful and the
\* user's choice of role wins, for any number of dongles.
THEOREM InvHolds == Spec => []Inv
<1>1. Init => Inv
  BY DEF Init, EmptyMap, Inv, IndexesDistinct, LocalRoleKept, RelayHasDecoder,
         DecoderHasRelay, PortsDistinct, InventoryTruthful, LocalRoleWins
<1>2. TypeOK /\ Inv /\ [Next]_vars => Inv'
  <2> SUFFICES ASSUME TypeOK, Inv, [Next]_vars PROVE Inv'
    OBVIOUS
  <2>1. Inv <=> IndexesDistinct(bus) /\ IndexesDistinct(dongles) /\ LocalRoleKept /\ Running
    BY DEF Inv, Running
  <2>2. Inv' <=> IndexesDistinct(bus') /\ IndexesDistinct(dongles') /\ LocalRoleKept' /\ Running'
    BY DEF Inv, Running, IndexesDistinct
  <2>3. ASSUME UNCHANGED mgrVars PROVE IndexesDistinct(dongles') /\ LocalRoleKept'
    BY <2>1, <2>3 DEF mgrVars, LocalRoleKept, IsNext, KeyOf, IndexesDistinct
  <2>4. CASE Bus
    <3>1. ASSUME NEW p \in Ports, NEW d \in Devices, NEW i \in 0..Cardinality(DOMAIN bus),
                 Plug(p, d, i)
          PROVE  Inv'
      <4>1. IsFiniteSet(DOMAIN bus)
        BY ConstantsAssumption, FS_Subset DEF TypeOK, IsMap
      <4>2. i \in Nat
        BY <4>1, FS_CardinalityType
      <4>3. IndexesDistinct(bus')
        BY <2>1, <3>1, <4>2, PlugIndexes
      <4>4. UNCHANGED mgrVars /\ UNCHANGED runVars
        BY <3>1 DEF Plug
      <4> QED BY <2>1, <2>2, <2>3, <4>3, <4>4, UnchangedRuns
    <3>2. ASSUME NEW p \in Ports, Unplug(p) PROVE Inv'
      <4>1. IndexesDistinct(bus')
        BY <2>1, <3>2, UnplugIndexes
      <4>2. UNCHANGED mgrVars /\ UNCHANGED runVars
        BY <3>2 DEF Unplug
      <4> QED BY <2>1, <2>2, <2>3, <4>1, <4>2, UnchangedRuns
    <3> QED BY <2>4, <3>1, <3>2 DEF Bus
  <2>5. ASSUME UNCHANGED bus, UNCHANGED mgrVars, UNCHANGED runVars PROVE Inv'
    BY <2>1, <2>2, <2>3, <2>5, UnchangedRuns DEF IndexesDistinct
  <2>6. CASE Server
    <3>1. PICK f \in Feeds, k \in Keys : \E r \in ServerRoles[k] \cup {wanted.roles[k]} : EditConfig(f, k, r)
      BY <2>6 DEF Server
    <3>2. UNCHANGED bus /\ UNCHANGED mgrVars /\ UNCHANGED runVars
      BY <3>1 DEF EditConfig
    <3> QED BY <2>5, <3>2
  <2>7. CASE PhoneHome
    <3>1. CASE Exit
      <4>1. UNCHANGED bus /\ dongles' = EmptyMap /\ assigned' = EmptyMap /\ pc' = "stopped"
        BY <3>1 DEF Exit, envVars
      <4>2. LocalRoleKept' /\ IndexesDistinct(dongles') /\ IndexesDistinct(bus')
        BY <2>1, <4>1 DEF LocalRoleKept, IndexesDistinct, EmptyMap
      <4> QED BY <2>1, <2>2, <3>1, <4>2, UnchangedRuns DEF Exit
    <3>2. CASE ~Exit
      BY <2>5, <2>7, <3>2 DEF PhoneHome, SetEnabled, StoreConfig, StartBounce, FinishBounce, envVars
    <3> QED BY <3>1, <3>2
  <2>8. CASE Stop
    <3>1. UNCHANGED bus /\ UNCHANGED mgrVars /\ Running'
      BY <2>8, NothingRuns DEF Stop, envVars
    <3> QED BY <2>1, <2>2, <2>3, <3>1 DEF IndexesDistinct
  <2>9. CASE Reconcile
    <3>1. CASE ReconcileDisabled
      <4>1. UNCHANGED bus /\ UNCHANGED mgrVars
        BY <3>1 DEF ReconcileDisabled, envVars
      <4>2. Running'
        BY <3>1, NothingRuns DEF ReconcileDisabled, StopAll
      <4> QED BY <2>1, <2>2, <2>3, <4>1, <4>2
    <3>2. CASE Enumerate
      <4>1. UNCHANGED runVars /\ UNCHANGED bus /\ assigned' = EmptyMap /\ pc' = "assign"
        BY <3>2 DEF Enumerate, envVars
      <4>2. LocalRoleKept'
        BY <4>1 DEF LocalRoleKept, EmptyMap
      <4>3. PICK S \in SUBSET DOMAIN bus, T \in SUBSET DOMAIN bus : dongles' = Listing(S, T)
        BY <3>2 DEF Enumerate, WholeBus
      <4>4. IndexesDistinct(bus') /\ IndexesDistinct(dongles')
        BY <2>1, <4>1, <4>3, ListingIndexes DEF IndexesDistinct
      <4> QED BY <2>1, <2>2, <4>1, <4>2, <4>4, UnchangedRuns
    <3>3. ASSUME NEW p \in Ports, NEW r, Assign(p, r), UNCHANGED bus, UNCHANGED dongles,
                 UNCHANGED runVars, LocalRole[KeyOf(p)] # Unset => r = LocalRole[KeyOf(p)],
                 pc' = "assign"
          PROVE  Inv'
      <4>1. LocalRoleKept'
        BY <2>1, <3>3, AssignKeepsLocal
      <4> QED BY <2>1, <2>2, <3>3, <4>1, UnchangedRuns DEF IndexesDistinct
    <3>4. ASSUME NEW p \in Ports, AssignRole(p) PROVE Inv'
      <4>1. LocalRole[KeyOf(p)] # Unset => ResolvedRole(p) = LocalRole[KeyOf(p)]
        BY DEF ResolvedRole, RoleFor
      <4>2. UNCHANGED bus /\ UNCHANGED dongles /\ UNCHANGED runVars /\ pc' = "assign"
            /\ Assign(p, ResolvedRole(p))
        BY <3>4 DEF AssignRole, envVars
      <4> QED BY <3>3, <4>1, <4>2
    <3>5. ASSUME NEW p \in Ports, StartProbe(p) PROVE Inv'
      <4>1. UNCHANGED <<bus, dongles, assigned>> /\ UNCHANGED runVars /\ IsNext(p)
        BY <3>5 DEF StartProbe, envVars
      <4>2. LocalRole[KeyOf(p)] = Unset
        BY <3>5 DEF StartProbe, NeedsProbe, RoleFor
      <4>3. \A q \in Ports : IsNext(q)' => q = p
        BY <2>1, <4>1, OneNext DEF IsNext
      <4>4. LocalRoleKept'
        BY <2>1, <4>1, <4>2, <4>3 DEF LocalRoleKept, KeyOf
      <4> QED BY <2>1, <2>2, <4>1, <4>4, UnchangedRuns DEF IndexesDistinct
    <3>6. ASSUME NEW p \in Ports, FinishProbe(p) PROVE Inv'
      <4>1. UNCHANGED bus /\ UNCHANGED dongles /\ UNCHANGED runVars /\ pc' = "assign"
        BY <3>6 DEF FinishProbe, envVars
      <4>2. PICK r : Assign(p, r)
        BY <3>6 DEF FinishProbe
      <4>3. LocalRole[KeyOf(p)] = Unset
        BY <2>1, <3>6 DEF FinishProbe, LocalRoleKept
      <4> QED BY <3>3, <4>1, <4>2, <4>3
    <3>7. CASE Apply
      <4>1. UNCHANGED bus /\ dongles' = EmptyMap /\ assigned' = EmptyMap /\ pc' = "idle"
        BY <3>7 DEF Apply, envVars
      <4>2. LocalRoleKept' /\ IndexesDistinct(dongles') /\ IndexesDistinct(bus')
        BY <2>1, <4>1 DEF LocalRoleKept, IndexesDistinct, EmptyMap
      <4>3. stopping => active' = EmptyMap /\ forwarders' = EmptyMap
        BY <3>7 DEF Apply
      <4>4. Running'
        BY <3>7, <4>3, ApplyRuns, NothingRuns
      <4> QED BY <2>2, <4>2, <4>4
    <3> QED BY <2>9, <3>1, <3>2, <3>4, <3>5, <3>6, <3>7 DEF Reconcile
  <2>10. ASSUME NEW k \in Keys, RetryVDL2Relay(k) PROVE Inv'
    <3>1. UNCHANGED bus /\ UNCHANGED mgrVars
      BY <2>10 DEF RetryVDL2Relay, envVars
    <3>2. Running'
      BY <2>1, <2>10, RetryRuns
    <3> QED BY <2>1, <2>2, <2>3, <3>1, <3>2
  <2>11. CASE Shutdown
    <3>1. UNCHANGED <<bus, dongles, assigned>> /\ pc' = "stopped"
      BY <2>11 DEF Shutdown, envVars
    <3>2. LocalRoleKept' /\ IndexesDistinct(dongles') /\ IndexesDistinct(bus')
      BY <2>1, <3>1 DEF LocalRoleKept, IndexesDistinct, KeyOf
    <3>3. Running'
      BY <2>11, NothingRuns DEF Shutdown, StopAll
    <3> QED BY <2>2, <3>2, <3>3
  <2>12. CASE UNCHANGED vars
    BY <2>5, <2>12 DEF vars, envVars
  <2> QED BY <2>4, <2>6, <2>7, <2>8, <2>9, <2>10, <2>11, <2>12 DEF Next
<1> QED BY <1>1, <1>2, TypeCorrect, PTL DEF Spec

\* The relay of a decoder that ended or changed its role is never left behind.
THEOREM RelaysHaveDecoders == Spec => []RelayHasDecoder
BY InvHolds, PTL DEF Inv

\* No decoder runs for nothing: what it decodes has a relay to leave by.
THEOREM DecodersHaveRelays == Spec => []DecoderHasRelay
BY InvHolds, PTL DEF Inv

\* Two decoders of one role never share a local port, however many dongles there
\* are, however they are plugged and whatever key each is listed under.
THEOREM PortsStayDistinct == Spec => []PortsDistinct
BY InvHolds, PTL DEF Inv

\* receivers.json and the telemetry inventory describe the decoders that run, also
\* when dongles share a serial and libusb gives no ports.
THEOREM InventoryIsTruthful == Spec => []InventoryTruthful
BY InvHolds, PTL DEF Inv

\* Neither the server nor a probe overrides the role the user chose for a key.
THEOREM LocalRoleAlwaysWins == Spec => []LocalRoleWins
BY InvHolds, PTL DEF Inv
=============================================================================
