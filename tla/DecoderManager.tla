--------------------------- MODULE DecoderManager ---------------------------
(***************************************************************************)
(* The decoder supervisor of the feed agent: DecoderManager.run in         *)
(* agent/decoders.go, with the parts of phoneHome (agent/main.go) that     *)
(* drive it while it runs.                                                 *)
(*                                                                         *)
(* The manager goroutine reconciles every tick.  A reconcile checks the    *)
(* enabled flag, takes a snapshot of the attached dongles, resolves a role *)
(* for each of them (which can listen on the antenna for more than a       *)
(* minute), and then starts, recycles and stops decoders and relays.       *)
(* Between these steps the bus, the configuration and the flag change.     *)
(*                                                                         *)
(* A dongle is tracked under a key: the USB port donglePorts reports for   *)
(* it, or its serial when no port is known (Dongle.key()).  An enumeration *)
(* may leave a dongle out, list it under its serial, or list it under the  *)
(* port of a neighbour: module Enumeration has the steps by which it does. *)
(*                                                                         *)
(* Abstractions.  Serial and product are one value, device.  A dongle does *)
(* not come or go in the middle of an enumeration, and one that is listed  *)
(* from the cache is listed as what it is.  A local TCP/UDP port number is *)
(* the slot it is computed from.  A child or relay in the map is a         *)
(* goroutine whose context is not cancelled; one that is started and       *)
(* recycled within one reconcile, as the first of two dongles with one key *)
(* is, leaves no trace.  cfg.Feed and cfg.VDL2Feed are one value, and the  *)
(* tuner gain is left out.  The notification of setActive is the Notify of *)
(* module LinkStats.                                                       *)
(***************************************************************************)
EXTENDS Integers, FiniteSets

CONSTANTS
    Ports,        \* USB bus-port paths
    Devices,      \* serial and product of a dongle
    Feeds,        \* feed endpoints
    LocalRole,    \* cfg.LocalRoles: user-confirmed role of a key, or Unset
    SavedRoles,   \* cfg.Roles when the agent starts
    ServerRoles,  \* roles the server may force on a key
    DefaultRole,  \* cfg.DefaultRole
    Bundled,      \* roles whose decoder binaries are installed
    EnumFails     \* whether an enumeration may list less than the bus

Unset   == ""
Keys    == Ports \cup Devices
Roles   == {"adsb", "uat", "vdl2", "off"}
Relayed == {"adsb", "vdl2"}   \* UAT owns its feeder connection

ASSUME ConstantsAssumption ==
    /\ IsFiniteSet(Ports)
    /\ LocalRole \in [Keys -> Roles \cup {Unset}]
    /\ SavedRoles \in [Keys -> Roles \cup {Unset}]
    /\ ServerRoles \in [Keys -> SUBSET Roles]
    /\ DefaultRole \in {"adsb", "uat", "vdl2", "auto"}
    /\ Bundled \subseteq {"adsb", "uat", "vdl2"}
    /\ EnumFails \in BOOLEAN

VARIABLES
    bus,        \* attached dongles: port -> device and librtlsdr index
    wanted,     \* the configuration every telemetry response carries
    feed,       \* cfg.Feed
    roles,      \* cfg.Roles
    enabled,    \* DecoderManager.enabled
    phone,      \* where phoneHome is
    stopping,   \* the parent context is cancelled
    pc,         \* where the manager goroutine is
    dongles,    \* the snapshot being reconciled, by the port a dongle is in
    assigned,   \* roles resolved so far for the snapshot
    active,     \* running decoders: key -> child
    forwarders, \* running relays: <<role, key>> -> what the goroutine captured
    inventory   \* DecoderManager.receivers, and receivers.json if it can be written

envVars == <<bus, wanted>>
cfgVars == <<feed, roles, enabled, phone>>
mgrVars == <<pc, dongles, assigned>>
runVars == <<active, forwarders, inventory>>
vars    == <<envVars, cfgVars, mgrVars, runVars, stopping>>

IsMap(f, K, V) == DOMAIN f \subseteq K /\ f \in [DOMAIN f -> V]
EmptyMap  == [k \in {} |-> Unset]

Attached == [device : Devices, index : Nat]
Dongle   == [key : Keys, device : Devices, index : Nat]
Child    == [role : Roles, device : Devices, index : Nat, slot : Nat]
Receiver == [key : Keys, child : Child]
Relay    == [slot : Nat, feed : Feeds]

TypeOK ==
    /\ IsMap(bus, Ports, Attached)
    /\ wanted \in [feed : Feeds, roles : [Keys -> Roles \cup {Unset}]]
    /\ feed \in Feeds
    /\ roles \in [Keys -> Roles \cup {Unset}]
    /\ enabled \in BOOLEAN
    /\ phone \in {"idle", "stored", "bounce", "returned"}
    /\ stopping \in BOOLEAN
    /\ pc \in {"idle", "assign", "probe", "stopped"}
    /\ IsMap(dongles, Ports, Dongle)
    /\ IsMap(assigned, Ports, Roles)
    /\ DOMAIN assigned \subseteq DOMAIN dongles
    /\ IsMap(active, Keys, Child)
    /\ IsMap(forwarders, Relayed \X Keys, Relay)
    /\ IsMap(inventory, Ports, Receiver)

Init ==
    /\ bus = EmptyMap
    /\ wanted \in [feed : Feeds, roles : {[k \in Keys |-> Unset]}]
    /\ feed = wanted.feed
    /\ roles = SavedRoles
    /\ enabled = TRUE
    /\ phone = "idle"
    /\ stopping = FALSE
    /\ pc = "idle"
    /\ dongles = EmptyMap
    /\ assigned = EmptyMap
    /\ active = EmptyMap
    /\ forwarders = EmptyMap
    /\ inventory = EmptyMap

-----------------------------------------------------------------------------
(* The USB bus and the server                                              *)

\* A dongle appears; the ones libusb lists after it move up by one index.
Plug(p, d, i) ==
    /\ p \notin DOMAIN bus
    /\ bus' = [q \in DOMAIN bus \cup {p} |->
                 IF q = p THEN [device |-> d, index |-> i]
                 ELSE IF bus[q].index >= i
                      THEN [bus[q] EXCEPT !.index = @ + 1]
                      ELSE bus[q]]
    /\ UNCHANGED <<wanted, cfgVars, mgrVars, runVars, stopping>>

Unplug(p) ==
    /\ p \in DOMAIN bus
    /\ bus' = [q \in DOMAIN bus \ {p} |->
                 IF bus[q].index > bus[p].index
                 THEN [bus[q] EXCEPT !.index = @ - 1]
                 ELSE bus[q]]
    /\ UNCHANGED <<wanted, cfgVars, mgrVars, runVars, stopping>>

\* The operator edits the device's configuration on the server: the feed, the
\* role of a key, or both.
EditConfig(f, k, r) ==
    /\ <<f, r>> # <<wanted.feed, wanted.roles[k]>>
    /\ wanted' = [feed |-> f, roles |-> [wanted.roles EXCEPT ![k] = r]]
    /\ UNCHANGED <<bus, cfgVars, mgrVars, runVars, stopping>>

-----------------------------------------------------------------------------
(* phoneHome                                                               *)

\* setRole for every entry of the response's "roles" object.
MergedRoles ==
    [k \in Keys |-> IF wanted.roles[k] = Unset THEN roles[k] ELSE wanted.roles[k]]

ConfigChanged == wanted.feed # feed \/ MergedRoles # roles

\* A beat is answered, or an enable or disable command is carried out.
SetEnabled(v) ==
    /\ phone = "idle"
    /\ enabled' = v
    /\ UNCHANGED <<envVars, feed, roles, phone, mgrVars, runVars, stopping>>

\* The answer changes a setting: applyConfig stores it and saves the config.
\* setEnabled(resp.Enabled) came first, as a SetEnabled.
StoreConfig ==
    /\ phone = "idle"
    /\ ConfigChanged
    /\ feed' = wanted.feed
    /\ roles' = MergedRoles
    /\ phone' = "stored"
    /\ UNCHANGED <<envVars, enabled, mgrVars, runVars, stopping>>

\* It then disables feeding and sleeps 1.5 s.
StartBounce ==
    /\ phone = "stored"
    /\ enabled' = FALSE
    /\ phone' = "bounce"
    /\ UNCHANGED <<envVars, feed, roles, mgrVars, runVars, stopping>>

\* The sleep ends and feeding is enabled, whatever resp.Enabled said.
FinishBounce ==
    /\ phone = "bounce"
    /\ enabled' = TRUE
    /\ phone' = "idle"
    /\ UNCHANGED <<envVars, feed, roles, mgrVars, runVars, stopping>>

\* SIGINT or SIGTERM cancels the context main passes to the manager, and with it
\* the contexts of every decoder and relay, which derive from it.
Stop ==
    /\ ~stopping
    /\ stopping' = TRUE
    /\ active' = EmptyMap
    /\ forwarders' = EmptyMap
    /\ UNCHANGED <<envVars, cfgVars, mgrVars, inventory>>

\* phoneHome returns and main after it: the process ends wherever the manager is.
Exit ==
    /\ stopping
    /\ phone = "idle"
    /\ phone' = "returned"
    /\ pc' = "stopped"
    /\ dongles' = EmptyMap
    /\ assigned' = EmptyMap
    /\ UNCHANGED <<envVars, feed, roles, enabled, runVars, stopping>>

-----------------------------------------------------------------------------
(* Reconcile: the enabled check and enumeration                            *)

\* (Definitions named after another with a suffix, such as this one, are faulty
\* variants: the properties are tried against them.)
StopAllKeepsRelays ==
    /\ active' = EmptyMap
    /\ UNCHANGED forwarders

StopAll ==
    /\ active' = EmptyMap
    /\ forwarders' = EmptyMap

ReconcileDisabled ==
    /\ pc = "idle"
    /\ ~enabled
    /\ active # EmptyMap \/ forwarders # EmptyMap
    /\ StopAll
    /\ UNCHANGED <<envVars, cfgVars, mgrVars, inventory, stopping>>

\* The key of the dongle in port p when donglePorts lists the ports T, by index.
Rank(T, q) == Cardinality({t \in T : bus[t].index < bus[q].index})
KeyIn(T, p) ==
    LET at == {q \in T : Rank(T, q) = bus[p].index}
    IN  IF at = {} THEN bus[p].device ELSE CHOOSE q \in at : TRUE

\* The snapshot when librtlsdr reads the dongles in the ports S, or knows them from
\* an earlier reading, and libusb those in the ports T.
Listing(S, T) ==
    [p \in S |-> [key |-> KeyIn(T, p), device |-> bus[p].device, index |-> bus[p].index]]

WholeBus == Listing(DOMAIN bus, DOMAIN bus)

\* An empty enumeration is taken for a blip: the reconcile returns and nothing
\* changes, so only a non-empty snapshot is a step.
Enumerate ==
    /\ pc = "idle"
    /\ enabled
    /\ bus # EmptyMap
    /\ \/ dongles' = WholeBus
       \/ /\ EnumFails
          /\ \E S \in SUBSET DOMAIN bus \ {{}}, T \in SUBSET DOMAIN bus : dongles' = Listing(S, T)
    /\ assigned' = EmptyMap
    /\ pc' = "assign"
    /\ UNCHANGED <<envVars, cfgVars, runVars, stopping>>

-----------------------------------------------------------------------------
(* Reconcile: assignRoles                                                  *)

KeyOf(p) == dongles[p].key

RoleForServerFirst(k) == IF roles[k] # Unset THEN roles[k] ELSE LocalRole[k]

RoleFor(k) == IF LocalRole[k] # Unset THEN LocalRole[k] ELSE roles[k]

\* Roles a probe can tell apart, among those with a bundled decoder.
Probeable == Bundled \cap {"adsb", "vdl2"}

NeedsProbe(p) ==
    /\ RoleFor(KeyOf(p)) = Unset
    /\ DefaultRole \notin Bundled
    /\ Probeable = {"adsb", "vdl2"}

\* The role of a dongle that is not probed.
ResolvedRole(p) ==
    LET r == RoleFor(KeyOf(p))
    IN  CASE r # Unset -> r
          [] r = Unset /\ DefaultRole \in Bundled -> DefaultRole
          [] r = Unset /\ DefaultRole \notin Bundled ->
                IF Probeable = {} THEN "off" ELSE CHOOSE b \in Probeable : TRUE

\* The next dongle of the snapshot, in enumeration order.
IsNext(p) ==
    /\ p \in DOMAIN dongles \ DOMAIN assigned
    /\ \A q \in DOMAIN dongles \ DOMAIN assigned :
         dongles[p].index <= dongles[q].index

\* Any role but off is stored in cfg.Roles and saved.
Assign(p, r) ==
    /\ assigned' = [q \in DOMAIN assigned \cup {p} |->
                      IF q = p THEN r ELSE assigned[q]]
    /\ roles' = IF r = "off" THEN roles ELSE [roles EXCEPT ![KeyOf(p)] = r]

AssignRole(p) ==
    /\ pc = "assign"
    /\ IsNext(p)
    /\ ~NeedsProbe(p)
    /\ Assign(p, ResolvedRole(p))
    /\ UNCHANGED <<envVars, feed, enabled, phone, pc, dongles, runVars, stopping>>

\* probeRole starts the VDL2 decoder and listens.
StartProbe(p) ==
    /\ pc = "assign"
    /\ IsNext(p)
    /\ NeedsProbe(p)
    /\ pc' = "probe"
    /\ UNCHANGED <<envVars, cfgVars, dongles, assigned, runVars, stopping>>

\* The listening windows elapse: a VDL2 frame was decoded, or none was.  A
\* cancelled context ends the probe early; what it returns by then, the fallback
\* role included, is stored all the same.
FinishProbe(p) ==
    /\ pc = "probe"
    /\ IsNext(p)
    /\ \E r \in {"adsb", "vdl2"} : Assign(p, r)
    /\ pc' = "assign"
    /\ UNCHANGED <<envVars, feed, enabled, phone, dongles, runVars, stopping>>

-----------------------------------------------------------------------------
(* Reconcile: decoders, relays and inventory                               *)

Scheduled == {p \in DOMAIN dongles : assigned[p] # "off"}

SlotOfFirst(p) == 0

SlotOfOffByOne(p) ==
    IF assigned[p] \in Relayed
    THEN Cardinality({q \in DOMAIN dongles :
                        /\ assigned[q] = assigned[p]
                        /\ dongles[q].index < dongles[p].index}) - 1
    ELSE 0

\* adsbSlot and vdl2Slot count the dongles of the same role enumerated before.
SlotOf(p) ==
    IF assigned[p] \in Relayed
    THEN Cardinality({q \in DOMAIN dongles :
                        /\ assigned[q] = assigned[p]
                        /\ dongles[q].index < dongles[p].index})
    ELSE 0

ChildOf(p) == [role   |-> assigned[p],
               device |-> dongles[p].device,
               index  |-> dongles[p].index,
               slot   |-> SlotOf(p)]

\* A key two dongles share is gone through once for each, in enumeration order.
WithKey(S, k) == {p \in S : KeyOf(p) = k}
First(S)      == CHOOSE p \in S : \A q \in S : dongles[p].index <= dongles[q].index
Last(S)       == CHOOSE p \in S : \A q \in S : dongles[q].index <= dongles[p].index

\* A dongle that is off is skipped before its running decoder is looked at.
Skipped ==
    {k \in DOMAIN active : \E p \in DOMAIN dongles : KeyOf(p) = k} \ {KeyOf(p) : p \in Scheduled}

DecodersAfterSameRole ==
    [k \in Skipped \cup {KeyOf(p) : p \in Scheduled} |->
       IF k \in Skipped THEN active[k]
       ELSE LET child == ChildOf(Last(WithKey(Scheduled, k)))
            IN  IF k \notin DOMAIN active THEN child
                ELSE IF active[k].role = child.role THEN active[k] ELSE child]

\* A scheduled key runs a child for the present role, identity and port of its
\* dongle (the running one if it agrees on all three, else a new one); where two
\* dongles share it the second always differs from the first, and replaces it.
\* A decoder whose key is not in the snapshot is stopped.
DecodersAfter ==
    [k \in Skipped \cup {KeyOf(p) : p \in Scheduled} |->
       IF k \in Skipped THEN active[k] ELSE ChildOf(Last(WithKey(Scheduled, k)))]

WantedRelays == {<<assigned[p], KeyOf(p)>> : p \in {q \in Scheduled : assigned[q] \in Relayed}}

\* The dongles a wanted relay stands for.
Served(f) == {p \in Scheduled : assigned[p] = f[1] /\ KeyOf(p) = f[2]}

RelaysAfterKeepsOld ==
    [f \in WantedRelays \cup DOMAIN forwarders |->
       IF f \in DOMAIN forwarders THEN forwarders[f]
       ELSE [slot |-> SlotOf(First(Served(f))), feed |-> feed]]

RelaysAfterFirstOnly ==
    [f \in {g \in WantedRelays : SlotOf(First(Served(g))) = 0} |->
       IF f \in DOMAIN forwarders THEN forwarders[f]
       ELSE [slot |-> SlotOf(First(Served(f))), feed |-> feed]]

\* A relay that already runs for the role and key is kept as it is; a new one
\* captures the port and the feed of this moment; the others are cancelled.
RelaysAfter ==
    [f \in WantedRelays |->
       IF f \in DOMAIN forwarders THEN forwarders[f]
       ELSE [slot |-> SlotOf(First(Served(f))), feed |-> feed]]

InventoryAfter == [p \in DOMAIN dongles |-> [key |-> KeyOf(p), child |-> ChildOf(p)]]

\* What is started under a cancelled context ends at once.
Apply ==
    /\ pc = "assign"
    /\ DOMAIN assigned = DOMAIN dongles
    /\ active' = IF stopping THEN EmptyMap ELSE DecodersAfter
    /\ forwarders' = IF stopping THEN EmptyMap ELSE RelaysAfter
    /\ inventory' = InventoryAfter
    /\ pc' = "idle"
    /\ dongles' = EmptyMap
    /\ assigned' = EmptyMap
    /\ UNCHANGED <<envVars, cfgVars, stopping>>

\* A VDL2 relay whose socket failed runs again and reads cfg.VDL2Feed anew.
RetryVDL2Relay(k) ==
    /\ <<"vdl2", k>> \in DOMAIN forwarders
    /\ forwarders' = [forwarders EXCEPT ![<<"vdl2", k>>].feed = feed]
    /\ UNCHANGED <<envVars, cfgVars, mgrVars, active, inventory, stopping>>

\* run sees the context done and returns.  (When the ticker fires as well, select
\* picks either, so a Reconcile may come first.)
Shutdown ==
    /\ pc = "idle"
    /\ stopping
    /\ StopAll
    /\ pc' = "stopped"
    /\ UNCHANGED <<envVars, cfgVars, dongles, assigned, inventory, stopping>>

-----------------------------------------------------------------------------

Reconcile ==
    \/ ReconcileDisabled
    \/ Enumerate
    \/ \E p \in Ports : AssignRole(p) \/ StartProbe(p) \/ FinishProbe(p)
    \/ Apply

Bus ==
    \/ \E p \in Ports, d \in Devices : \E i \in 0..Cardinality(DOMAIN bus) : Plug(p, d, i)
    \/ \E p \in Ports : Unplug(p)

Server ==
    \E f \in Feeds, k \in Keys : \E r \in ServerRoles[k] \cup {wanted.roles[k]} : EditConfig(f, k, r)

PhoneHome ==
    \/ \E v \in BOOLEAN : SetEnabled(v)
    \/ StoreConfig
    \/ StartBounce
    \/ FinishBounce
    \/ Exit

Next ==
    \/ Bus
    \/ Server
    \/ PhoneHome
    \/ Stop
    \/ Reconcile
    \/ \E k \in Keys : RetryVDL2Relay(k)
    \/ Shutdown

Spec == Init /\ [][Next]_vars

\* The ticker keeps the manager reconciling and its probes are bounded by timers,
\* until the context is cancelled: from then on the process may end at any step.
Fairness == WF_vars(~stopping /\ Reconcile)

FairSpec == Spec /\ Fairness

-----------------------------------------------------------------------------
(* Safety                                                                  *)

EntriesOf(k) == {p \in DOMAIN inventory : inventory[p].key = k}

\* Two dongles were listed under one serial, neither of them with a port.
Shared(k) == \E p, q \in EntriesOf(k) : p # q

SetAside(k) == \A p \in EntriesOf(k) : inventory[p].child.role = "off"

\* A relay only runs while its dongle has a decoder, and that decoder runs in the
\* relay's role: nothing stops or re-roles a decoder and leaves its relay behind.
\* (When the role of a shared key changes between its two dongles, the relay of
\* the first role is kept and its decoder is not.)
RelayHasDecoder ==
    \A f \in DOMAIN forwarders :
        f[2] \in DOMAIN active /\ (active[f[2]].role = f[1] \/ Shared(f[2]))

\* A decoder whose frames leave through a relay has one, so that nothing is
\* decoded and then dropped.  (A key that was set to off is excluded: its relay
\* is gone and its decoder is not.)
DecoderHasRelay ==
    \A k \in DOMAIN active :
        active[k].role \in Relayed /\ ~SetAside(k) => <<active[k].role, k>> \in DOMAIN forwarders

\* Two decoders of the same role never listen on the same local port, through
\* any order of plugging, unplugging and role changes, and whichever dongles an
\* enumeration leaves out or lists under a serial.
PortsDistinct ==
    \A k, l \in DOMAIN active :
        /\ k # l
        /\ active[k].role \in Relayed
        /\ active[k].role = active[l].role
        /\ ~SetAside(k) /\ ~SetAside(l)
        => active[k].slot # active[l].slot

\* receivers.json describes every running decoder (role, device, index, port) to
\* local consumers as what it was started with.  An entry with a key of its own is
\* that description; of two that share a key only one has a decoder.
InventoryTruthful ==
    \A k \in DOMAIN active :
        \E p \in EntriesOf(k) : SetAside(k) \/ inventory[p].child = active[k]

\* A decoder tracked under a key whose role the user confirmed on this machine
\* runs in that role and no other, whatever the server stored for the key or a
\* probe says.  (The confirmed role is that of a port.  A dongle that is listed
\* under its serial is not in that port as far as the manager knows, and gets the
\* role of the serial.)
LocalRoleWins ==
    \A k \in DOMAIN active : LocalRole[k] # Unset => active[k].role = LocalRole[k]

-----------------------------------------------------------------------------
(* What makes the safety properties inductive                              *)

IndexesDistinct(d) == \A p, q \in DOMAIN d : d[p].index = d[q].index => p = q

\* A role resolved in the reconcile under way respects the user's choice, and a
\* key that is being probed has none: the probe was decided before the
\* configuration could change under it, and the user's choice does not change.
LocalRoleKept ==
    /\ \A p \in DOMAIN assigned :
         LocalRole[KeyOf(p)] # Unset => assigned[p] = LocalRole[KeyOf(p)]
    /\ pc = "probe" => \A p \in Ports : IsNext(p) => LocalRole[KeyOf(p)] = Unset

\* The inductive invariant.
Inv ==
    /\ IndexesDistinct(bus)
    /\ IndexesDistinct(dongles)
    /\ LocalRoleKept
    /\ RelayHasDecoder
    /\ DecoderHasRelay
    /\ PortsDistinct
    /\ InventoryTruthful
    /\ LocalRoleWins

-----------------------------------------------------------------------------
(* Liveness                                                                *)

\* The decoders that run are those the attached dongles call for, each started
\* for the dongle and index that is there now.
Converged ==
    /\ DOMAIN inventory = DOMAIN bus
    /\ \A p \in DOMAIN bus :
         LET child == inventory[p].child
         IN  /\ inventory[p].key = p
             /\ child.device = bus[p].device /\ child.index = bus[p].index
             /\ child.role # "off" => p \in DOMAIN active /\ active[p] = child

Settled == enabled /\ phone = "idle" /\ ~stopping /\ bus # EmptyMap

ListsTheBus == pc = "idle" /\ pc' = "assign" => dongles' = WholeBus

\* Once the bus and the switch hold still and enumerations list every dongle under
\* its port, the running decoders catch up with the bus and stay so, however many
\* plugs, role changes, pauses and amiss enumerations came before.  (While
\* enumerations leave dongles out or lack ports there is nothing to converge to:
\* a dongle that is left out loses its decoder, and can then be read again.)
Converges ==
    <>[][UNCHANGED bus]_bus /\ <>[]Settled /\ <>[][ListsTheBus]_vars => <>[]Converged

\* A device the server pauses for good ends with every decoder and relay
\* stopped, even if the pause arrives in the middle of a reconcile.
PauseStops ==
    <>[]~enabled => <>[](active = EmptyMap /\ forwarders = EmptyMap)

-----------------------------------------------------------------------------
(* What a comment in the source says of the program                        *)

\* "Each receiver gets its own local decoder port and relay"
\* (agent/decoders.go:262): the relay of a receiver reads that receiver's port.
RelayReadsItsDecoder ==
    \A f \in DOMAIN forwarders : forwarders[f].slot = active[f[2]].slot
=============================================================================
