----------------------------- MODULE Enumeration -----------------------------
(***************************************************************************)
(* enumerateDongles and its cache of identities (agent/dongles_windows.go) *)
(* with donglePorts (agent/portenum_windows.go), in one process.           *)
(*                                                                         *)
(* The number of devices, their ports and the strings of each are separate *)
(* calls to librtlsdr and libusb, which list the bus anew each time, so    *)
(* dongles that are plugged in or out in between shift the indexes.  The   *)
(* strings of a dongle that a decoder has open may be unreadable.  An      *)
(* identity is known by its serial; product names are left out.            *)
(***************************************************************************)
EXTENDS Integers, FiniteSets, SequencesExt

CONSTANTS
    Chips,     \* dongles
    MaxPort,   \* USB ports
    Movable,   \* dongles that are plugged in and out
    Decoded,   \* dongles whose role is not "off": a decoder may open them
    Skipped,   \* dongles whose descriptor may be unreadable or not the expected one
    Serials    \* serials they may report

NoPort == 0    \* unplugged; the port of a device whose port is not known
Ports  == 1..MaxPort

ASSUME EnumerationAssumption ==
    /\ IsFiniteSet(Chips)
    /\ Movable \subseteq Chips
    /\ Decoded \subseteq Chips
    /\ Skipped \subseteq Chips
    /\ MaxPort \in Nat \ {0} /\ Cardinality(Chips) <= MaxPort

VARIABLES
    where,   \* port of a dongle
    live,    \* serial its USB descriptor reports
    busy,    \* dongles a decoder has open
    pc,      \* where enumerateDongles is
    n,       \* devices it counted
    ports,   \* their ports by index
    out,     \* dongles it lists
    i,       \* index it is at
    cache,   \* dongleCache: serial last read at a port
    calm,    \* history: since it counted, the bus has held still and libusb has answered
    kept     \* history: dongles listed as what they are since the last such disturbance

busVars  == <<where, live, busy>>
enumVars == <<pc, n, ports, out, i, cache>>

EmptyCache == [p \in {} |-> 0]
Listed     == [index : 0..(MaxPort - 1), serial : Serials, port : Ports \cup {NoPort}]

EnumTypeOK ==
    /\ where \in [Chips -> Ports \cup {NoPort}]
    /\ \A c, d \in Chips : where[c] = where[d] /\ c # d => where[c] = NoPort
    /\ live \in [Chips -> Serials]
    /\ busy \subseteq Chips
    /\ pc \in {"idle", "ports", "strings", "forget", "returned"}
    /\ n \in 0..MaxPort
    /\ ports \in Seq(Ports) /\ Len(ports) <= MaxPort
    /\ out \in Seq(Listed) /\ Len(out) <= MaxPort
    /\ i \in 0..MaxPort
    /\ DOMAIN cache \subseteq Ports /\ Range(cache) \subseteq Serials
    /\ calm \in BOOLEAN
    /\ kept \subseteq Chips

EnumInit ==
    /\ where \in [Chips -> Ports]
    /\ \A c, d \in Chips : where[c] = where[d] => c = d
    /\ live \in [Chips -> Serials]
    /\ busy = {}
    /\ pc = "idle"
    /\ n = 0
    /\ ports = <<>>
    /\ out = <<>>
    /\ i = 0
    /\ cache = EmptyCache
    /\ calm = FALSE
    /\ kept = {}

-----------------------------------------------------------------------------
(* The bus                                                                 *)

Plugged == {c \in Chips : where[c] # NoPort}

\* libusb lists the dongles in the order of their ports.
Index(c)     == Cardinality({d \in Plugged : where[d] < where[c]})
HasIndex(k)  == \E c \in Plugged : Index(c) = k
ChipAt(k)    == CHOOSE c \in Plugged : Index(c) = k
Bus          == [k \in 1..Cardinality(Plugged) |-> where[ChipAt(k - 1)]]

Disturbed == calm' = FALSE /\ kept' = {}

Unplug(c) ==
    /\ c \in Plugged \cap Movable
    /\ where' = [where EXCEPT ![c] = NoPort]
    /\ busy' = busy \ {c}
    /\ Disturbed
    /\ UNCHANGED <<live, enumVars>>

\* Into any free port; it comes up with serial s.
Plug(c, p, s) ==
    /\ c \notin Plugged
    /\ \A d \in Plugged : where[d] # p
    /\ where' = [where EXCEPT ![c] = p]
    /\ live' = [live EXCEPT ![c] = s]
    /\ Disturbed
    /\ UNCHANGED <<busy, enumVars>>

\* A decoder opens a dongle, or closes it.
DecoderOpens(c) ==
    /\ c \in (Plugged \cap Decoded) \ busy
    /\ busy' = busy \cup {c}
    /\ UNCHANGED <<where, live, enumVars, calm, kept>>

DecoderCloses(c) ==
    /\ c \in busy
    /\ busy' = busy \ {c}
    /\ UNCHANGED <<where, live, enumVars, calm, kept>>

-----------------------------------------------------------------------------
(* enumerateDongles                                                        *)

CountDevices ==
    /\ pc \in {"idle", "returned"}
    /\ n' = Cardinality(Plugged)
    /\ out' = <<>>
    /\ pc' = "ports"
    /\ calm' = TRUE
    /\ UNCHANGED <<busVars, ports, i, cache, kept>>

\* donglePorts needs no device open.
DonglePorts ==
    /\ pc = "ports"
    /\ ports' = Bus
    /\ pc' = "strings"
    /\ UNCHANGED <<busVars, n, out, i, cache, calm, kept>>

\* libusb does not load or start, or lists nothing; or a device is skipped, its
\* descriptor not being readable or not that of the one model donglePorts looks for,
\* and the ports behind it move up by one index.
DonglePortsFails ==
    /\ pc = "ports"
    /\ ports' \in {<<>>} \cup {RemoveAt(Bus, Index(c) + 1) : c \in Plugged \cap Skipped}
    /\ pc' = "strings"
    /\ Disturbed
    /\ UNCHANGED <<busVars, n, out, i, cache>>

PortOf(k)   == IF k < Len(ports) THEN ports[k + 1] ELSE NoPort
Entry(s, p) == [index |-> i, serial |-> s, port |-> p]

NextDevice ==
    /\ i' = i + 1
    /\ pc' = IF i + 1 = n THEN "forget" ELSE pc

\* (Definitions named after another with a suffix, such as this one, are faulty
\* variants: the properties are tried against them.)
StringsReadCachesAll ==
    /\ pc = "strings" /\ i < n
    /\ HasIndex(i)
    /\ LET s == live[ChipAt(i)]
           p == PortOf(i)
       IN  /\ out' = Append(out, Entry(s, p))
           /\ cache' = [q \in DOMAIN cache \cup {p} |-> IF q = p THEN s ELSE cache[q]]
    /\ NextDevice
    /\ UNCHANGED <<busVars, n, ports, calm, kept>>

\* The strings of device i are read.
StringsRead ==
    /\ pc = "strings" /\ i < n
    /\ HasIndex(i)
    /\ LET s == live[ChipAt(i)]
           p == PortOf(i)
       IN  /\ out' = Append(out, Entry(s, p))
           /\ cache' = IF p = NoPort THEN cache
                       ELSE [q \in DOMAIN cache \cup {p} |-> IF q = p THEN s ELSE cache[q]]
    /\ NextDevice
    /\ UNCHANGED <<busVars, n, ports, calm, kept>>

Unreadable(k) == HasIndex(k) => ChipAt(k) \in busy

\* They cannot be read: the dongle is listed as what was last read at its port.
StringsUnreadable ==
    /\ pc = "strings" /\ i < n
    /\ Unreadable(i)
    /\ out' = IF PortOf(i) \in DOMAIN cache
              THEN Append(out, Entry(cache[PortOf(i)], PortOf(i))) ELSE out
    /\ NextDevice
    /\ UNCHANGED <<busVars, n, ports, cache, calm, kept>>

NoDevices ==
    /\ pc = "strings" /\ n = 0
    /\ pc' = "forget"
    /\ UNCHANGED <<busVars, n, ports, out, i, cache, calm, kept>>

\* Dongles that are listed under their own port, index and serial.
ListedRight == {c \in Plugged :
    [index |-> Index(c), serial |-> live[c], port |-> where[c]] \in Range(out)}

ForgetUnread ==
    /\ pc = "forget"
    /\ cache' = [p \in {q \in DOMAIN cache : \E c \in Plugged \ busy : where[c] = q} |-> cache[p]]
    /\ kept' = IF calm THEN ListedRight ELSE {}
    /\ pc' = "returned"
    /\ n' = 0 /\ ports' = <<>> /\ i' = 0
    /\ UNCHANGED <<busVars, out, calm>>

\* Devices whose ports are no longer listed are forgotten.
ForgetAbsent ==
    /\ pc = "forget"
    /\ cache' = [p \in DOMAIN cache \cap Range(ports) |-> cache[p]]
    /\ kept' = IF calm THEN ListedRight ELSE {}
    /\ pc' = "returned"
    /\ n' = 0 /\ ports' = <<>> /\ i' = 0
    /\ UNCHANGED <<busVars, out, calm>>

Enumerate ==
    \/ CountDevices \/ DonglePorts \/ DonglePortsFails
    \/ StringsRead \/ StringsUnreadable \/ NoDevices \/ ForgetAbsent

-----------------------------------------------------------------------------
(* Properties                                                              *)

\* "retain its last readable identity instead of falsely reporting it removed"
\* (agent/dongles_windows.go:57): a dongle that was listed as what it is stays
\* listed as that, by every later enumeration and whatever decoders open and close
\* between any two of its steps, until something is plugged in or out, or libusb
\* fails or does not list a device.
KeptWhileBusy == pc = "forget" /\ calm => kept \subseteq ListedRight
=============================================================================
