----------------------------- MODULE EepromProofs -----------------------------
(***************************************************************************)
(* Proofs about the enumeration of dongles and the serials in their        *)
(* EEPROMs, for any number of dongles, ports and processes: types, that a  *)
(* busy dongle stays listed as what it is, that a self-test that passes    *)
(* has changed nothing, and that serials are unique after a dedupe.        *)
(***************************************************************************)
EXTENDS Eeprom, FiniteSetTheorems, SequenceTheorems, WellFoundedInduction, TLAPS

-----------------------------------------------------------------------------
(* Indexes                                                                 *)

\* No port has two dongles.
WhereOK ==
    /\ where \in [Chips -> Ports \cup {NoPort}]
    /\ \A c, d \in Chips : where[c] = where[d] /\ c # d => where[c] = NoPort

LEMMA PluggedFinite ==
    /\ IsFiniteSet(Plugged)
    /\ Cardinality(Plugged) \in 0..MaxPort
<1>1. IsFiniteSet(Chips) /\ Cardinality(Chips) <= MaxPort /\ MaxPort \in Nat
  BY EnumerationAssumption
<1>2. Plugged \in SUBSET Chips
  BY DEF Plugged
<1>3. IsFiniteSet(Plugged) /\ Cardinality(Plugged) <= Cardinality(Chips)
  BY <1>1, <1>2, FS_Subset
<1>4. Cardinality(Plugged) \in Nat /\ Cardinality(Chips) \in Nat
  BY <1>1, <1>3, FS_CardinalityType
<1> QED BY <1>1, <1>3, <1>4

\* Dongles before one on the bus.
Below(c) == {d \in Plugged : where[d] < where[c]}

LEMMA IndexBound ==
    ASSUME WhereOK, NEW c \in Plugged
    PROVE  Index(c) \in 0..(Cardinality(Plugged) - 1)
<1>1. Below(c) \in SUBSET Plugged /\ c \notin Below(c)
  BY EnumerationAssumption DEF Below, WhereOK, Plugged, Ports, NoPort
<1>2. IsFiniteSet(Below(c)) /\ Cardinality(Below(c)) <= Cardinality(Plugged)
      /\ Cardinality(Below(c)) # Cardinality(Plugged)
  BY <1>1, PluggedFinite, FS_Subset
<1>3. Cardinality(Below(c)) \in Nat /\ Cardinality(Plugged) \in Nat
  BY <1>2, PluggedFinite, FS_CardinalityType
<1>4. Index(c) = Cardinality(Below(c))
  BY DEF Index, Below
<1> QED BY <1>2, <1>3, <1>4

LEMMA IndexOrder ==
    ASSUME WhereOK, NEW c \in Plugged, NEW d \in Plugged, where[c] < where[d]
    PROVE  Index(c) < Index(d)
<1>1. /\ Below(c) \in SUBSET Below(d) /\ c \in Below(d) /\ c \notin Below(c)
      /\ Below(d) \in SUBSET Plugged
  BY EnumerationAssumption DEF Below, WhereOK, Plugged, Ports, NoPort
<1>2. IsFiniteSet(Below(d))
  BY <1>1, PluggedFinite, FS_Subset
<1>3. IsFiniteSet(Below(c)) /\ Cardinality(Below(c)) <= Cardinality(Below(d))
      /\ Cardinality(Below(c)) # Cardinality(Below(d))
  BY <1>1, <1>2, FS_Subset
<1>4. Cardinality(Below(c)) \in Nat /\ Cardinality(Below(d)) \in Nat
  BY <1>2, <1>3, FS_CardinalityType
<1>5. Index(c) = Cardinality(Below(c)) /\ Index(d) = Cardinality(Below(d))
  BY DEF Index, Below
<1> QED BY <1>3, <1>4, <1>5

LEMMA IndexInjective ==
    ASSUME WhereOK, NEW c \in Plugged, NEW d \in Plugged, Index(c) = Index(d)
    PROVE  c = d
<1>1. where[c] \in Ports /\ where[d] \in Ports /\ c \in Chips /\ d \in Chips
  BY DEF WhereOK, Plugged
<1>2. CASE where[c] < where[d]
  BY <1>2, IndexOrder, IndexBound, PluggedFinite
<1>3. CASE where[d] < where[c]
  BY <1>3, IndexOrder, IndexBound, PluggedFinite
<1>4. CASE where[c] = where[d]
  BY <1>1, <1>4 DEF WhereOK, Ports, NoPort
<1> QED BY <1>1, <1>2, <1>3, <1>4, EnumerationAssumption DEF Ports

\* The dongle at an index is the one that has it.
LEMMA ChipAtIndex ==
    ASSUME WhereOK, NEW c \in Plugged
    PROVE  HasIndex(Index(c)) /\ ChipAt(Index(c)) = c
<1>1. HasIndex(Index(c))
  BY DEF HasIndex
<1>2. \A d \in Plugged : Index(d) = Index(c) => d = c
  BY IndexInjective
<1> QED BY <1>1, <1>2 DEF ChipAt

LEMMA ChipWithIndex ==
    ASSUME NEW k, HasIndex(k)
    PROVE  ChipAt(k) \in Plugged /\ Index(ChipAt(k)) = k
  BY DEF HasIndex, ChipAt

\* Every index up to the number of dongles is that of one.
LEMMA IndexTaken ==
    ASSUME WhereOK, NEW k \in 0..(Cardinality(Plugged) - 1)
    PROVE  HasIndex(k)
<1> DEFINE T == 0..(Cardinality(Plugged) - 1)
           f == [c \in Plugged |-> Index(c)]
<1>1. f \in Injection(Plugged, T)
  <2>1. f \in [Plugged -> T]
    BY IndexBound
  <2>2. \A c, d \in Plugged : f[c] = f[d] => c = d
    BY IndexInjective
  <2> HIDE DEF f, T
  <2> QED BY <2>1, <2>2 DEF Injection, IsInjective
<1>2. IsFiniteSet(T) /\ Cardinality(T) = Cardinality(Plugged)
  <2>1. Cardinality(Plugged) \in Nat
    BY PluggedFinite
  <2> QED BY <2>1, FS_Interval
<1> HIDE DEF T
<1>3. f \in Surjection(Plugged, T)
  <2> HIDE DEF f
  <2> QED BY <1>1, <1>2, FS_Injection
<1>4. PICK c \in Plugged : f[c] = k
  BY <1>3 DEF T, Surjection
<1> QED BY <1>4 DEF HasIndex

\* donglePorts lists the port of every dongle at its index.
LEMMA BusPorts ==
    ASSUME WhereOK
    PROVE  /\ Bus \in Seq(Ports) /\ Len(Bus) = Cardinality(Plugged)
           /\ \A c \in Plugged : Bus[Index(c) + 1] = where[c]
<1>1. Cardinality(Plugged) \in Nat
  BY PluggedFinite
<1>2. \A k \in 1..Cardinality(Plugged) : where[ChipAt(k - 1)] \in Ports
  <2> SUFFICES ASSUME NEW k \in 1..Cardinality(Plugged) PROVE where[ChipAt(k - 1)] \in Ports
    OBVIOUS
  <2>1. HasIndex(k - 1)
    BY <1>1, IndexTaken
  <2>2. ChipAt(k - 1) \in Plugged
    BY <2>1, ChipWithIndex
  <2> QED BY <2>2 DEF Plugged, WhereOK
<1>3. Bus \in Seq(Ports) /\ Len(Bus) = Cardinality(Plugged)
  <2>1. Bus \in [1..Cardinality(Plugged) -> Ports]
    BY <1>2 DEF Bus
  <2> HIDE DEF Bus
  <2>2. Bus \in Seq(Ports)
    <3>1. Seq(Ports) = UNION {[1..k -> Ports] : k \in Nat}
      BY SeqDef, Zenon
    <3>2. [1..Cardinality(Plugged) -> Ports] \in {[1..k -> Ports] : k \in Nat}
      BY <1>1, Zenon
    <3> QED BY <2>1, <3>1, <3>2, Zenon
  <2>3. Len(Bus) \in Nat /\ 1..Len(Bus) = 1..Cardinality(Plugged)
    BY <2>1, <2>2, LenProperties
  <2> QED BY <1>1, <2>2, <2>3
<1>4. ASSUME NEW c \in Plugged PROVE Bus[Index(c) + 1] = where[c]
  <2>1. Index(c) \in 0..(Cardinality(Plugged) - 1)
    BY IndexBound
  <2>2. Index(c) + 1 \in 1..Cardinality(Plugged) /\ Index(c) + 1 - 1 = Index(c)
    BY <1>1, <2>1
  <2>3. \A k \in 1..Cardinality(Plugged) : Bus[k] = where[ChipAt(k - 1)]
    BY Zenon DEF Bus
  <2>4. ChipAt(Index(c)) = c
    BY ChipAtIndex
  <2>5. \A k \in 1..Cardinality(Plugged) : k - 1 = Index(c) => Bus[k] = where[c]
    BY <2>3, <2>4
  <2> QED BY <1>1, <2>1, <2>5
<1> QED BY <1>3, <1>4

-----------------------------------------------------------------------------
(* Serials                                                                 *)

LEMMA SomeSerials ==
    /\ Factory \in Serials /\ Torn \in Serials
    /\ \A k \in 0..(MaxPort - 1) : TestSerial(k) \in Serials
    /\ 1..(2 * MaxPort) \subseteq Serials
    /\ 1 \in Serials
    /\ 0 \in 0..(MaxPort - 1)
    /\ Blank \notin 1..(2 * MaxPort)
  BY EepromAssumption, EnumerationAssumption DEF Factory, Torn, TestSerial, Blank

LEMMA ReportedSerial ==
    ASSUME NEW img \in Image
    PROVE  Reported(img) \in Serials
  BY SomeSerials DEF Reported, Image

\* uniqueSerial finds a serial, as long as it may try more of them than are taken.
LEMMA UniqueSerialIsNew ==
    ASSUME NEW taken, IsFiniteSet(taken), Cardinality(taken) < MaxPort
    PROVE  UniqueSerial(taken) \in 1..(2 * MaxPort) /\ UniqueSerial(taken) \notin taken
<1> DEFINE All == 1..(2 * MaxPort)
           Left == All \ taken
<1>1. IsFiniteSet(All) /\ Cardinality(All) = 2 * MaxPort
  BY EnumerationAssumption, FS_Interval
<1>2. MaxPort \in Nat /\ Cardinality(taken) \in Nat
  BY EnumerationAssumption, FS_CardinalityType
<1>3. Left # {}
  <2> SUFFICES ASSUME All \in SUBSET taken PROVE FALSE
    OBVIOUS
  <2> HIDE DEF All
  <2>1. Cardinality(All) <= Cardinality(taken)
    BY FS_Subset
  <2> QED BY <1>1, <1>2, <2>1
<1>4. Left \subseteq Nat
  BY <1>2
<1>5. PICK s \in Left : \A r \in Left : ~(<<r, s>> \in OpToRel(<, Nat))
  <2> HIDE DEF Left
  <2> QED BY <1>3, <1>4, NatLessThanWellFounded, WFMin
<1>6. \A r \in Left : ~(r < s)
  BY <1>4, <1>5 DEF OpToRel
<1>7. \A r \in 1..(s - 1) : r \in taken
  BY <1>2, <1>6
<1>8. \E x \in 1..(2 * MaxPort) : x \notin taken /\ \A r \in 1..(x - 1) : r \in taken
  BY <1>5, <1>7
<1> QED BY <1>8 DEF UniqueSerial

-----------------------------------------------------------------------------
(* Types of an enumeration                                                 *)

\* What is listed is in the order of its indexes, and none of it is still to come.
Ordered ==
    /\ pc \notin {"strings", "forget"} => i = 0
    /\ pc = "ports" => out = <<>>
    /\ pc = "strings" => /\ i <= n
                         /\ Len(out) <= i
                         /\ \A k \in 1..Len(out) : out[k].index < i
    /\ \A j, k \in 1..Len(out) : j < k => out[j].index < out[k].index

EnumShape == EnumTypeOK /\ Ordered

LEMMA TypesOfPlaces == EnumTypeOK => WhereOK
  BY DEF EnumTypeOK, WhereOK

LEMMA ListedEntry ==
    ASSUME NEW s \in Seq(Listed), NEW k \in 1..Len(s)
    PROVE  s[k] \in Listed /\ s[k].index \in Nat
<1>1. s[k] \in Listed
  BY ElementOfSeq
<1> QED BY <1>1, EnumerationAssumption DEF Listed

LEMMA EntryAdded ==
    ASSUME EnumShape, pc = "strings", i < n, NEW s \in Serials,
           out' = Append(out, Entry(s, PortOf(i)))
    PROVE  /\ Entry(s, PortOf(i)) \in Listed
           /\ out' \in Seq(Listed) /\ Len(out') = Len(out) + 1
           /\ Len(out') <= i + 1
           /\ \A k \in 1..Len(out') : out'[k].index < i + 1
           /\ \A j, k \in 1..Len(out') : j < k => out'[j].index < out'[k].index
           /\ \A k \in 1..Len(out) : out'[k] = out[k]
           /\ out'[Len(out) + 1] = Entry(s, PortOf(i))
<1> DEFINE e == Entry(s, PortOf(i))
<1>1. /\ n \in 0..MaxPort /\ i \in 0..MaxPort /\ MaxPort \in Nat
      /\ out \in Seq(Listed) /\ ports \in Seq(Ports)
      /\ i <= n /\ Len(out) <= i
  BY EnumerationAssumption DEF EnumShape, EnumTypeOK, Ordered
<1>2. PortOf(i) \in Ports \cup {NoPort}
  BY <1>1 DEF PortOf
<1>3. e \in Listed /\ e.index = i
  BY <1>1, <1>2 DEF Entry, Listed
<1> HIDE DEF e
<1>4. /\ out' \in Seq(Listed) /\ Len(out') = Len(out) + 1
      /\ \A k \in 1..Len(out) : out'[k] = out[k]
      /\ out'[Len(out) + 1] = e
  BY <1>1, <1>3 DEF e
<1>5. Len(out) \in Nat /\ \A k \in 1..Len(out) : out[k].index \in Nat /\ out[k].index < i
  BY <1>1, ListedEntry DEF EnumShape, Ordered
<1>6. \A k \in 1..Len(out') : out'[k].index < i + 1
  BY <1>1, <1>3, <1>4, <1>5
<1>7. \A j, k \in 1..Len(out') : j < k => out'[j].index < out'[k].index
  <2> SUFFICES ASSUME NEW j \in 1..Len(out'), NEW k \in 1..Len(out'), j < k
               PROVE  out'[j].index < out'[k].index
    OBVIOUS
  <2>0. j \in 1..(Len(out) + 1) /\ k \in 1..(Len(out) + 1)
    BY <1>4
  <2>1. CASE k = Len(out) + 1
    <3>1. j \in 1..Len(out) /\ out'[j] = out[j] /\ out'[k] = e
      BY <1>4, <1>5, <2>0, <2>1
    <3> QED BY <1>3, <1>5, <3>1
  <2>2. CASE k # Len(out) + 1
    <3>1. j \in 1..Len(out) /\ k \in 1..Len(out)
      BY <1>5, <2>0, <2>2
    <3>2. out'[j] = out[j] /\ out'[k] = out[k]
      BY <1>4, <3>1
    <3> QED BY <3>1, <3>2 DEF EnumShape, Ordered
  <2> QED BY <2>1, <2>2
<1> QED BY <1>1, <1>3, <1>4, <1>5, <1>6, <1>7 DEF e

LEMMA StringsShape ==
    ASSUME EnumShape, StringsRead \/ StringsUnreadable
    PROVE  EnumShape'
<1>1. /\ pc = "strings" /\ i < n /\ NextDevice /\ UNCHANGED <<busVars, n, ports, calm, kept>>
  BY DEF StringsRead, StringsUnreadable
<1>2. /\ n \in 0..MaxPort /\ i \in 0..MaxPort /\ MaxPort \in Nat /\ out \in Seq(Listed)
      /\ ports \in Seq(Ports) /\ PortOf(i) \in Ports \cup {NoPort} /\ Len(out) <= i
  BY <1>1, EnumerationAssumption DEF EnumShape, EnumTypeOK, Ordered, PortOf
<1>3. i' = i + 1 /\ i' \in 0..MaxPort /\ i' <= n' /\ pc' \in {"strings", "forget"}
  BY <1>1, <1>2 DEF NextDevice
<1>4. ASSUME NEW s \in Serials, out' = Append(out, Entry(s, PortOf(i)))
      PROVE  out' \in Seq(Listed) /\ Len(out') <= MaxPort /\ Ordered'
  BY <1>1, <1>2, <1>3, <1>4, EntryAdded DEF Ordered
<1>5. CASE StringsRead
  <2> DEFINE c == ChipAt(i)
  <2>1. live[c] \in Serials
    <3>1. c \in Chips
      BY <1>5, ChipWithIndex DEF StringsRead, Plugged
    <3> QED BY <3>1 DEF EnumShape, EnumTypeOK
  <2>2. out' = Append(out, Entry(live[c], PortOf(i)))
    BY <1>5 DEF StringsRead
  <2>3. DOMAIN cache' \subseteq Ports /\ Range(cache') \subseteq Serials
    <3>1. CASE PortOf(i) = NoPort
      BY <1>5, <3>1 DEF StringsRead, EnumShape, EnumTypeOK
    <3>2. CASE PortOf(i) # NoPort
      <4> DEFINE p == PortOf(i)
                 s == live[c]
      <4>1. cache' = [q \in DOMAIN cache \cup {p} |-> IF q = p THEN s ELSE cache[q]]
        BY <1>5, <3>2 DEF StringsRead
      <4> HIDE DEF p, s, c
      <4>2. s \in Serials /\ p \in Ports
        BY <1>2, <2>1, <3>2 DEF s, p
      <4> QED BY <4>1, <4>2 DEF EnumShape, EnumTypeOK, Range
    <3> QED BY <3>1, <3>2
  <2> QED BY <1>1, <1>2, <1>3, <1>4, <2>1, <2>2, <2>3 DEF EnumShape, EnumTypeOK, busVars
<1>6. CASE StringsUnreadable
  <2>1. cache' = cache
    BY <1>6 DEF StringsUnreadable
  <2>2. CASE PortOf(i) \in DOMAIN cache
    <3>1. cache[PortOf(i)] \in Serials
      BY <2>2 DEF EnumShape, EnumTypeOK, Range
    <3>2. out' = Append(out, Entry(cache[PortOf(i)], PortOf(i)))
      BY <1>6, <2>2 DEF StringsUnreadable
    <3> QED BY <1>1, <1>2, <1>3, <1>4, <2>1, <3>1, <3>2 DEF EnumShape, EnumTypeOK, busVars
  <2>3. CASE PortOf(i) \notin DOMAIN cache
    <3>1. out' = out
      BY <1>6, <2>3 DEF StringsUnreadable
    <3>2. \A k \in 1..Len(out) : out[k].index \in Nat
      BY <1>2, ListedEntry
    <3>3. /\ Len(out) <= i' /\ Len(out) \in Nat
          /\ \A k \in 1..Len(out) : out[k].index < i'
      <4>1. \A k \in 1..Len(out) : out[k].index < i
        BY <1>1 DEF EnumShape, Ordered
      <4> QED BY <1>2, <1>3, <3>2, <4>1
    <3>4. \A j, k \in 1..Len(out) : j < k => out[j].index < out[k].index
      BY DEF EnumShape, Ordered
    <3>5. pc' = "strings" => i' <= n'
      BY <1>3
    <3>6. pc' \in {"strings", "forget"}
      BY <1>3
    <3>7. Ordered'
      BY <3>1, <3>3, <3>4, <3>5, <3>6, Zenon DEF Ordered
    <3> QED BY <1>1, <1>3, <2>1, <3>1, <3>7 DEF EnumShape, EnumTypeOK, busVars
  <2> QED BY <2>2, <2>3
<1> QED BY <1>5, <1>6

\* A device that is left out leaves a shorter list of ports.
LEMMA RemoveShortens ==
    ASSUME NEW s \in Seq(Ports), NEW k \in 1..Len(s)
    PROVE  RemoveAt(s, k) \in Seq(Ports) /\ Len(RemoveAt(s, k)) <= Len(s)
<1>1. Len(s) \in Nat /\ k \in 1..Len(s) /\ \A j \in 1..Len(s) : s[j] \in Ports
  OBVIOUS
<1>2. SubSeq(s, 1, k - 1) \in Seq(Ports) /\ Len(SubSeq(s, 1, k - 1)) = k - 1
  <2>1. \A j \in 1..(k - 1) : s[j] \in Ports
    BY <1>1
  <2> QED BY <1>1, <2>1, SubSeqProperties
<1>3. /\ SubSeq(s, k + 1, Len(s)) \in Seq(Ports)
      /\ Len(SubSeq(s, k + 1, Len(s))) = Len(s) - k
  <2>1. \A j \in (k + 1)..Len(s) : s[j] \in Ports
    BY <1>1
  <2> QED BY <1>1, <2>1, SubSeqProperties
<1>4. RemoveAt(s, k) = SubSeq(s, 1, k - 1) \o SubSeq(s, k + 1, Len(s))
  BY DEF RemoveAt
<1> DEFINE front == SubSeq(s, 1, k - 1)
           back  == SubSeq(s, k + 1, Len(s))
<1>5. /\ front \in Seq(Ports) /\ Len(front) = k - 1
      /\ back \in Seq(Ports) /\ Len(back) = Len(s) - k
  BY <1>2, <1>3
<1>6. RemoveAt(s, k) = front \o back
  BY <1>4
<1> HIDE DEF front, back
<1>7. front \o back \in Seq(Ports) /\ Len(front \o back) = Len(front) + Len(back)
  BY <1>5, ConcatProperties
<1> QED BY <1>1, <1>5, <1>6, <1>7

LEMMA EnumerateShape == EnumShape /\ Enumerate => EnumShape'
<1> SUFFICES ASSUME EnumShape, Enumerate PROVE EnumShape'
  OBVIOUS
<1>0. Cardinality(Plugged) \in 0..MaxPort /\ WhereOK /\ MaxPort \in Nat
  BY PluggedFinite, TypesOfPlaces, EnumerationAssumption DEF EnumShape
<1> USE DEF EnumShape, EnumTypeOK, Ordered, busVars
<1>1. CASE CountDevices
  BY <1>0, <1>1 DEF CountDevices
<1>2. CASE DonglePorts
  <2>1. Bus \in Seq(Ports) /\ Len(Bus) <= MaxPort
    BY <1>0, BusPorts
  <2> QED BY <1>0, <1>2, <2>1 DEF DonglePorts
<1>3. CASE DonglePortsFails
  <2>1. ports' \in Seq(Ports) /\ Len(ports') <= MaxPort
    <3>1. Bus \in Seq(Ports) /\ Len(Bus) = Cardinality(Plugged) /\ Len(Bus) \in 0..MaxPort
      BY <1>0, BusPorts
    <3>2. ASSUME NEW c \in Plugged, ports' = RemoveAt(Bus, Index(c) + 1)
          PROVE  ports' \in Seq(Ports) /\ Len(ports') <= MaxPort
      <4>1. Index(c) + 1 \in 1..Len(Bus)
        BY <1>0, <3>1, IndexBound
      <4>2. /\ RemoveAt(Bus, Index(c) + 1) \in Seq(Ports)
            /\ Len(RemoveAt(Bus, Index(c) + 1)) <= Len(Bus)
        BY <3>1, <4>1, RemoveShortens
      <4> QED BY <1>0, <3>1, <3>2, <4>2
    <3>3. CASE ports' = <<>>
      BY <1>0, <3>3
    <3> QED BY <1>3, <3>2, <3>3 DEF DonglePortsFails
  <2>2. EnumTypeOK'
    BY <1>0, <1>3, <2>1 DEF DonglePortsFails, Disturbed
  <2>3. i' = 0 /\ out' = <<>> /\ pc' = "strings" /\ n' \in Nat
    BY <1>0, <1>3 DEF DonglePortsFails
  <2> QED BY <2>2, <2>3
<1>4. CASE NoDevices
  BY <1>4 DEF NoDevices
<1>5. CASE ForgetAbsent
  <2>1. ListedRight \subseteq Chips
    BY DEF ListedRight, Plugged
  <2>2. DOMAIN cache' \subseteq Ports /\ Range(cache') \subseteq Serials
    BY <1>5 DEF ForgetAbsent, Range
  <2>3. ports' = <<>> /\ ports' \in Seq(Ports) /\ Len(ports') = 0
    BY <1>5 DEF ForgetAbsent
  <2>4. n' \in 0..MaxPort /\ i' \in 0..MaxPort /\ kept' \subseteq Chips
    BY <1>0, <1>5, <2>1 DEF ForgetAbsent
  <2>5. EnumTypeOK'
    <3>1. /\ UNCHANGED <<where, live, busy, out, calm>>
          /\ pc' = "returned" /\ Len(ports') <= MaxPort
      BY <1>0, <1>5, <2>3 DEF ForgetAbsent
    <3> HIDE DEF Ordered
    <3> QED BY <2>2, <2>3, <2>4, <3>1
  <2>6. i' = 0 /\ out' = out /\ pc' = "returned"
    BY <1>5 DEF ForgetAbsent
  <2> QED BY <2>5, <2>6
<1> QED BY <1>1, <1>2, <1>3, <1>4, <1>5, StringsShape DEF Enumerate

LEMMA StillShape ==
    ASSUME EnumShape, UNCHANGED <<busVars, enumVars, calm, kept>>
    PROVE  EnumShape'
  BY DEF EnumShape, EnumTypeOK, Ordered, busVars, enumVars

LEMMA BusShape ==
    ASSUME EnumShape, NEW c \in Chips, NEW p \in Ports, NEW s \in Serials,
           Unplug(c) \/ Plug(c, p, s) \/ DecoderOpens(c) \/ DecoderCloses(c)
    PROVE  EnumShape'
<1>1. UNCHANGED enumVars
  BY DEF Unplug, Plug, DecoderOpens, DecoderCloses
<1>2. Ordered'
  BY <1>1 DEF EnumShape, Ordered, enumVars
<1>3. live' \in [Chips -> Serials] /\ busy' \subseteq Chips /\ calm' \in BOOLEAN /\ kept' \subseteq Chips
  BY DEF Unplug, Plug, DecoderOpens, DecoderCloses, Disturbed, EnumShape, EnumTypeOK
<1>4. WhereOK'
  <2>1. CASE Unplug(c)
    BY <2>1 DEF Unplug, EnumShape, EnumTypeOK, WhereOK
  <2>2. CASE Plug(c, p, s)
    <3>1. where' \in [Chips -> Ports \cup {NoPort}]
      BY <2>2 DEF Plug, EnumShape, EnumTypeOK
    <3>2. \A d \in Chips : d # c /\ where[d] = p => FALSE
      BY <2>2 DEF Plug, Plugged, Ports, NoPort
    <3>3. where' = [where EXCEPT ![c] = p]
      BY <2>2 DEF Plug
    <3> QED BY <3>1, <3>2, <3>3 DEF EnumShape, EnumTypeOK, WhereOK
  <2>3. CASE DecoderOpens(c) \/ DecoderCloses(c)
    BY <2>3 DEF DecoderOpens, DecoderCloses, EnumShape, EnumTypeOK, WhereOK
  <2> QED BY <2>1, <2>2, <2>3
<1> QED BY <1>1, <1>2, <1>3, <1>4 DEF EnumShape, EnumTypeOK, WhereOK, enumVars

-----------------------------------------------------------------------------
(* Types of the commands                                                   *)

InFlight == IF step \in {"read", "write", "verify"} THEN 1 ELSE 0

\* A command enumerates only between its calls on dongles, and dedupeSerials never
\* has more serials in use than there are dongles.
Counted ==
    /\ step \notin {"idle", "print", "list", "relist"} => pc \in {"idle", "returned"}
    /\ task = "service" => step = "idle"
    /\ step \in {"print", "list"} => seen = {}
    /\ IsFiniteSet(seen)
    /\ Cardinality(seen) + Len(todo) + InFlight <= MaxPort

Shape == TypeOK /\ Ordered /\ Counted

LEMMA SerialSet ==
    ASSUME NEW img \in Image, NEW s \in Serials
    PROVE  SetEEPROMSerial(img, s) \in Image
  BY DEF SetEEPROMSerial, Image

LEMMA CutOffImages ==
    ASSUME NEW old \in Image, NEW img \in Image
    PROVE  CutOff(old, img) \subseteq Image
<1>1. img.flag \in BOOLEAN /\ img.serial \in Serials \cup {Blank} /\ Torn \in Serials
  BY SomeSerials DEF Image
<1>2. [old EXCEPT !.flag = img.flag] \in Image
  BY <1>1 DEF Image
<1>3. [old EXCEPT !.flag = img.flag, !.serial = Torn] \in Image
  BY <1>1 DEF Image
<1>4. [old EXCEPT !.flag = img.flag, !.serial = img.serial] \in Image
  BY <1>1 DEF Image
<1> QED BY <1>2, <1>3, <1>4 DEF CutOff

LEMMA OneSerialMore ==
    ASSUME IsFiniteSet(seen), NEW x
    PROVE  /\ IsFiniteSet(seen \cup {x})
           /\ Cardinality(seen) \in Nat /\ Cardinality(seen \cup {x}) \in Nat
           /\ Cardinality(seen \cup {x}) <= Cardinality(seen) + 1
<1>1. IsFiniteSet(seen \cup {x})
  BY FS_AddElement
<1>2. Cardinality(seen) \in Nat /\ Cardinality(seen \cup {x}) \in Nat
  BY <1>1, FS_CardinalityType
<1>3. CASE x \in seen
  <2>1. seen \cup {x} = seen
    BY <1>3
  <2> QED BY <1>1, <1>2, <2>1
<1>4. CASE x \notin seen
  <2>1. Cardinality(seen \cup {x}) = Cardinality(seen) + 1
    BY <1>4, FS_AddElement
  <2> QED BY <1>1, <1>2, <2>1
<1> QED BY <1>3, <1>4

LEMMA ShapeInit == Init => Shape
<1> SUFFICES ASSUME Init PROVE Shape
  OBVIOUS
<1>1. image \in [Chips -> Image]
  BY ImagesAssumption DEF Init
<1>2. \A c \in Chips : live[c] \in Serials
  BY <1>1, ReportedSerial DEF Init
<1>3. /\ <<>> \in Seq(Listed) /\ <<>> \in Seq(Ports) /\ Len(<<>>) = 0
      /\ MaxPort \in Nat
  BY EnumerationAssumption
<1>4. EnumTypeOK
  <2>1. DOMAIN cache = {} /\ Range(cache) = {}
    BY DEF Init, EnumInit, EmptyCache, Range
  <2>2. live \in [Chips -> Serials]
    <3>1. live = [c \in Chips |-> Reported(image[c])]
      BY DEF Init
    <3> QED BY <1>2, <3>1
  <2>3. /\ where \in [Chips -> Ports \cup {NoPort}]
        /\ \A c, d \in Chips : where[c] = where[d] => c = d
    BY DEF Init, EnumInit
  <2>4. /\ pc = "idle" /\ busy = {} /\ kept = {} /\ calm = FALSE
        /\ n \in 0..MaxPort /\ i \in 0..MaxPort
    BY <1>3 DEF Init, EnumInit
  <2>5. /\ ports \in Seq(Ports) /\ Len(ports) <= MaxPort
        /\ out \in Seq(Listed) /\ Len(out) <= MaxPort
    BY <1>3 DEF Init, EnumInit
  <2> QED BY <2>1, <2>2, <2>3, <2>4, <2>5 DEF EnumTypeOK
<1>5. Ordered
  BY DEF Init, EnumInit, Ordered
<1>6. NoImage \in Image
  BY DEF NoImage, Image
<1>7. TypeOK
  <2>1. processes \in 0..MaxProcesses /\ idx \in 0..(MaxPort - 1) /\ want \in Serials
    BY SomeSerials, EepromAssumption DEF Init
  <2>2. todo \in Seq(Listed) /\ Len(todo) <= MaxPort
    BY <1>3 DEF Init
  <2> HIDE DEF EnumTypeOK
  <2> QED BY <1>1, <1>4, <1>6, <2>1, <2>2 DEF Init, TypeOK, Tasks
<1>8. Counted
  BY <1>3, FS_EmptySet DEF Init, Counted, InFlight
<1> QED BY <1>5, <1>7, <1>8 DEF Shape

LEMMA ShapeIsEnumShape == Shape => EnumShape
  BY DEF Shape, EnumShape, TypeOK

\* What a call writes into an EEPROM is an image.
LEMMA ImagesWritten ==
    ASSUME image \in [Chips -> Image], NEW img \in Image,
           WriteEEPROM(img) \/ WriteFails(img)
    PROVE  image' \in [Chips -> Image]
<1> DEFINE c == ChipAt(idx)
<1>1. CASE WriteEEPROM(img)
  BY <1>1 DEF WriteEEPROM
<1>2. CASE WriteFails(img)
  <2>1. CASE UNCHANGED image
    BY <2>1
  <2>2. CASE /\ Opens(idx) /\ c \notin Protected
             /\ \E left \in CutOff(image[c], img) : image' = [image EXCEPT ![c] = left]
    <3>1. c \in Chips
      BY <2>2, ChipWithIndex DEF Opens, Plugged
    <3>2. CutOff(image[c], img) \subseteq Image
      BY <3>1, CutOffImages
    <3> HIDE DEF c
    <3> QED BY <2>2, <3>1, <3>2
  <2> QED BY <1>2, <2>1, <2>2 DEF WriteFails
<1> QED BY <1>1, <1>2

LEMMA Headed ==
    ASSUME todo \in Seq(Listed), todo # <<>>
    PROVE  /\ Head(todo) = todo[1] /\ Head(todo) \in Listed
           /\ Tail(todo) \in Seq(Listed) /\ Len(todo) \in Nat \ {0}
           /\ Len(Tail(todo)) = Len(todo) - 1
           /\ \A k \in 1..Len(Tail(todo)) : Tail(todo)[k] = todo[k + 1]
<1>1. /\ Head(todo) \in Listed /\ Tail(todo) \in Seq(Listed)
      /\ Len(Tail(todo)) = Len(todo) - 1
      /\ \A k \in 1..Len(Tail(todo)) : Tail(todo)[k] = todo[k + 1]
  BY HeadTailProperties
<1>2. Len(todo) \in Nat \ {0}
  BY EmptySeq
<1> QED BY <1>1, <1>2

\* dedupeSerials goes on with a dongle.
LEMMA NextDongleShape ==
    ASSUME Shape, FirstOfItsSerial \/ Duplicate
    PROVE  Shape'
<1> USE DEF Shape
<1>0. EnumTypeOK' /\ Ordered'
  <2>1. UNCHANGED <<busVars, enumVars, calm, kept>>
    BY DEF FirstOfItsSerial, Duplicate, Fixed
  <2> QED BY <2>1, ShapeIsEnumShape, StillShape DEF EnumShape
<1>1. todo \in Seq(Listed) /\ todo # <<>> /\ step = "next" /\ todo' = Tail(todo) /\ pc' = pc
  BY DEF FirstOfItsSerial, Duplicate, Fixed, enumVars, TypeOK
<1>2. /\ Head(todo) \in Listed /\ todo' \in Seq(Listed)
      /\ Len(todo) \in Nat \ {0} /\ Len(todo') = Len(todo) - 1
  BY <1>1, Headed
<1>3. IsFiniteSet(seen) /\ Cardinality(seen) \in Nat /\ MaxPort \in Nat
      /\ Cardinality(seen) + Len(todo) <= MaxPort
  BY <1>1, FS_CardinalityType, EnumerationAssumption DEF Counted, InFlight
<1>4. Len(todo') <= MaxPort
  BY <1>2, <1>3
<1>5. CASE FirstOfItsSerial
  <2>1. /\ seen' = seen \cup {Head(todo).serial}
        /\ UNCHANGED <<image, step, changed, idx, want, orig, writeOK, verdict, clean>>
        /\ UNCHANGED <<task, processes, atStart>>
    BY <1>5 DEF FirstOfItsSerial, Fixed
  <2>2. Head(todo).serial \in Serials
    BY <1>2 DEF Listed
  <2>3. TypeOK'
    BY <1>0, <1>2, <1>4, <2>1, <2>2 DEF TypeOK, atStart
  <2>4. /\ IsFiniteSet(seen') /\ Cardinality(seen') \in Nat
        /\ Cardinality(seen') <= Cardinality(seen) + 1
    BY <1>3, <2>1, OneSerialMore
  <2>5. Cardinality(seen') + Len(todo') <= MaxPort
    BY <1>2, <1>3, <2>4
  <2>6. Counted'
    BY <1>1, <2>1, <2>4, <2>5 DEF Counted, InFlight
  <2> QED BY <1>0, <2>3, <2>6
<1>6. CASE Duplicate
  <2>1. /\ idx' = Head(todo).index /\ want' = UniqueSerial(seen) /\ step' = "read"
        /\ UNCHANGED <<image, seen, changed, orig, writeOK, verdict, clean>>
        /\ UNCHANGED <<task, processes, atStart>>
    BY <1>6 DEF Duplicate, Fixed
  <2>2. want' \in Serials
    <3>1. Cardinality(seen) < MaxPort
      BY <1>2, <1>3
    <3> QED BY <1>3, <2>1, <3>1, UniqueSerialIsNew, SomeSerials
  <2>3. idx' \in 0..(MaxPort - 1)
    BY <1>2, <2>1 DEF Listed
  <2>4. TypeOK'
    BY <1>0, <1>2, <1>4, <2>1, <2>2, <2>3 DEF TypeOK, atStart
  <2>5. Cardinality(seen') + Len(todo') + 1 <= MaxPort
    BY <1>2, <1>3, <2>1
  <2>6. Counted'
    BY <1>1, <1>3, <2>1, <2>5 DEF Counted, InFlight
  <2> QED BY <1>0, <2>4, <2>6
<1> QED BY <1>5, <1>6

\* The calls on one dongle.
LEMMA DongleShape ==
    ASSUME Shape,
           \/ ReadOriginal \/ WriteSerial \/ WriteSerialFails \/ ReadFails
           \/ CheckTestSerial \/ Restore \/ RestoreFails \/ CheckRestored \/ AllSeen \/ Relisted
    PROVE  Shape'
<1> USE DEF Shape
<1>0. EnumTypeOK' /\ Ordered' /\ pc' = pc
  <2>1. UNCHANGED <<busVars, enumVars, calm, kept>>
    BY DEF ReadOriginal, WriteSerial, WriteSerialFails, ReadFails, CheckTestSerial, Restore,
           RestoreFails, CheckRestored, AllSeen, Relisted, Failed, Fixed
  <2> QED BY <2>1, ShapeIsEnumShape, StillShape DEF EnumShape, enumVars
<1>1. UNCHANGED <<task, processes, atStart, todo, seen, changed, idx, want>>
  BY DEF ReadOriginal, WriteSerial, WriteSerialFails, ReadFails, CheckTestSerial, Restore,
         RestoreFails, CheckRestored, AllSeen, Relisted, Failed, Fixed, taskVars
<1>2. image' \in [Chips -> Image]
  <2>1. SetEEPROMSerial(orig, want) \in Image /\ Restored \in Image
    BY SerialSet DEF TypeOK, Restored
  <2>2. CASE WriteSerial \/ WriteSerialFails \/ Restore \/ RestoreFails
    BY <2>1, <2>2, ImagesWritten
    DEF WriteSerial, WriteSerialFails, Restore, RestoreFails, TypeOK
  <2>3. CASE \/ ReadOriginal \/ ReadFails \/ CheckTestSerial \/ CheckRestored \/ AllSeen
             \/ Relisted
    BY <2>3 DEF ReadOriginal, ReadFails, CheckTestSerial, CheckRestored, AllSeen, Relisted, TypeOK
  <2> QED BY <2>2, <2>3
<1>3. orig' \in Image
  <2>1. CASE ReadOriginal
    <3>1. ChipAt(idx) \in Chips
      BY <2>1, ChipWithIndex DEF ReadOriginal, Opens, Plugged
    <3> QED BY <2>1, <3>1 DEF ReadOriginal, TypeOK
  <2>2. CASE ~ReadOriginal
    BY <2>2 DEF WriteSerial, WriteSerialFails, ReadFails, CheckTestSerial, Restore,
                RestoreFails, CheckRestored, AllSeen, Relisted, Failed, taskVars, TypeOK
  <2> QED BY <2>1, <2>2
<1>4. writeOK' \in BOOLEAN /\ clean' \in BOOLEAN /\ verdict' \in {"none", "pass", "fail", "ended"}
  BY DEF ReadOriginal, WriteSerial, WriteSerialFails, ReadFails, CheckTestSerial, Restore,
         RestoreFails, CheckRestored, AllSeen, Relisted, Failed, taskVars, TypeOK
<1>5. /\ step # "idle"
      /\ step' \in {"write", "verify", "restore", "check", "next", "idle", "reset"}
      /\ step' \in {"write", "verify"} => step \in {"read", "write", "verify"}
      /\ step = "relist" => step' = "idle"
  BY DEF ReadOriginal, WriteSerial, WriteSerialFails, ReadFails, CheckTestSerial, Restore,
         RestoreFails, CheckRestored, AllSeen, Relisted, Failed
<1>6. TypeOK'
  BY <1>0, <1>1, <1>2, <1>3, <1>4, <1>5 DEF TypeOK, atStart
<1>7. Counted'
  <2>1. InFlight' \in {0, 1} /\ InFlight \in {0, 1} /\ InFlight' <= InFlight
    BY <1>5 DEF InFlight
  <2>2. Cardinality(seen) \in Nat /\ Len(todo) \in Nat /\ MaxPort \in Nat
    BY FS_CardinalityType, EnumerationAssumption DEF Counted, TypeOK
  <2>3. Cardinality(seen') + Len(todo') + InFlight' <= MaxPort
    BY <1>1, <2>1, <2>2 DEF Counted
  <2>4. step' # "idle" => pc' \in {"idle", "returned"}
    BY <1>0, <1>5 DEF Counted,
       ReadOriginal, WriteSerial, WriteSerialFails, ReadFails, CheckTestSerial, Restore,
       RestoreFails, CheckRestored, AllSeen, Relisted, Failed
  <2>5. task' # "service"
    BY <1>1, <1>5 DEF Counted
  <2> QED BY <1>1, <1>5, <2>3, <2>4, <2>5 DEF Counted
<1> QED BY <1>0, <1>6, <1>7

LEMMA ProcessShape ==
    ASSUME Shape, Service \/ Dedupe \/ SelfTest \/ SetSerial
    PROVE  Shape'
<1> USE DEF Shape
<1>0. PICK t \in Tasks : Process(t)
  BY DEF Service, Dedupe, SelfTest, SetSerial, Tasks
<1>1. /\ pc \in {"idle", "returned"} /\ i = 0
      /\ UNCHANGED <<where, live, busy, n, ports, i, calm, image>>
      /\ pc' = "idle" /\ out' = <<>> /\ cache' = EmptyCache /\ kept' = {}
  BY <1>0 DEF Process, Ordered, busVars
<1>2. EnumTypeOK'
  <2>1. DOMAIN cache' = {} /\ Range(cache') = {}
    BY <1>1 DEF EmptyCache, Range
  <2>2. out' \in Seq(Listed) /\ Len(out') <= MaxPort
    BY <1>1, EnumerationAssumption
  <2> QED BY <1>1, <2>1, <2>2 DEF TypeOK, EnumTypeOK
<1>3. Ordered'
  BY <1>1 DEF Ordered
<1>4. idx' \in 0..(MaxPort - 1) /\ want' \in Serials
  BY SomeSerials DEF Service, Dedupe, SelfTest, SetSerial, TypeOK
<1>5. step' \in {"idle", "print", "read"} /\ (task' = "service" => step' = "idle")
  <2>1. CASE Service
    BY <2>1 DEF Service, Process
  <2>2. CASE Dedupe \/ SelfTest \/ SetSerial
    BY <2>2 DEF Dedupe, SelfTest, SetSerial, Process
  <2> QED BY <2>1, <2>2
<1>6. /\ processes' \in 0..MaxProcesses /\ task' \in Tasks
      /\ todo' = <<>> /\ seen' = {} /\ changed' = FALSE
      /\ orig' = NoImage /\ writeOK' = FALSE /\ verdict' = "none"
      /\ before' = image /\ fresh' \in BOOLEAN /\ clean' = TRUE
  BY <1>0, EepromAssumption DEF Process, TypeOK
<1>7. todo' \in Seq(Listed) /\ Len(todo') = 0 /\ NoImage \in Image
  BY <1>6 DEF NoImage, Image
<1>8. TypeOK'
  <2>1. todo' \in Seq(Listed) /\ Len(todo') <= MaxPort
    BY <1>7, EnumerationAssumption
  <2>2. image' \in [Chips -> Image] /\ before' \in [Chips -> Image] /\ orig' \in Image
    BY <1>1, <1>6, <1>7 DEF TypeOK
  <2>3. seen' \subseteq Serials /\ changed' \in BOOLEAN /\ writeOK' \in BOOLEAN
        /\ clean' \in BOOLEAN /\ fresh' \in BOOLEAN
        /\ verdict' \in {"none", "pass", "fail", "ended"}
        /\ step' \in {"idle", "print", "list", "next", "read", "write", "verify", "restore",
                      "check", "reset", "relist"}
    BY <1>5, <1>6
  <2>4. processes' \in 0..MaxProcesses /\ task' \in Tasks
    BY <1>6
  <2> QED BY <1>2, <1>4, <2>1, <2>2, <2>3, <2>4 DEF TypeOK
<1>9. Counted'
  BY <1>1, <1>5, <1>6, <1>7, FS_EmptySet, EnumerationAssumption DEF Counted, InFlight
<1> QED BY <1>3, <1>8, <1>9

LEMMA EnumeratingShape ==
    ASSUME Shape, Environment \/ Enumerating
    PROVE  Shape'
<1> USE DEF Shape
<1>1. EnumShape'
  <2>1. CASE Enumerating
    BY <2>1, ShapeIsEnumShape, EnumerateShape DEF Enumerating
  <2>2. CASE Environment
    <3>1. PICK c \in Chips : \/ Unplug(c) \/ \E p \in Ports : Plug(c, p, Reported(image[c]))
                             \/ DecoderOpens(c) \/ DecoderCloses(c)
      BY <2>2 DEF Environment
    <3>2. Reported(image[c]) \in Serials /\ 1 \in Ports
      BY ReportedSerial, EnumerationAssumption DEF TypeOK, Ports
    <3> QED BY <3>1, <3>2, ShapeIsEnumShape, BusShape
  <2> QED BY <2>1, <2>2
<1>2. /\ UNCHANGED <<image, task, processes, step, taskVars, verdict, atStart>>
      /\ clean' \in BOOLEAN
  BY DEF Enumerating, Environment, TypeOK
<1>3. TypeOK'
  BY <1>1, <1>2 DEF TypeOK, EnumShape, taskVars, atStart
<1>4. Counted'
  <2>1. CASE Enumerating
    <3>1. step \in {"idle", "print", "list", "relist"}
      BY <2>1 DEF Enumerating, Counted
    <3> QED BY <1>2, <3>1 DEF Counted, InFlight, taskVars
  <2>2. CASE Environment
    <3>1. pc' = pc
      BY <2>2 DEF Environment, Unplug, Plug, DecoderOpens, DecoderCloses, enumVars
    <3> QED BY <1>2, <3>1 DEF Counted, InFlight, taskVars
  <2> QED BY <2>1, <2>2
<1> QED BY <1>1, <1>3, <1>4 DEF EnumShape

LEMMA ListShape ==
    ASSUME Shape, Printed \/ BeginDedupe \/ ResetRtlDevices
    PROVE  Shape'
<1> USE DEF Shape
<1>1. i = 0 /\ i' = i /\ UNCHANGED <<where, n, ports, cache>> /\ pc' \in {"idle", "returned"}
  BY DEF Printed, BeginDedupe, ResetRtlDevices, Counted, Ordered, busVars
<1>2. out' = out \/ out' = <<>>
  BY DEF Printed, BeginDedupe, ResetRtlDevices
<1>3. Ordered'
  BY <1>1, <1>2 DEF Ordered
<1>4. live' \in [Chips -> Serials] /\ busy' \subseteq Chips
  <2>1. CASE Printed \/ BeginDedupe
    BY <2>1 DEF Printed, BeginDedupe, busVars, TypeOK, EnumTypeOK
  <2>2. CASE ResetRtlDevices
    <3>1. \A c \in Chips : Reported(image[c]) \in Serials
      BY ReportedSerial DEF TypeOK
    <3> QED BY <2>2, <3>1 DEF ResetRtlDevices, TypeOK, EnumTypeOK
  <2> QED BY <2>1, <2>2
<1>5. EnumTypeOK'
  <2>1. out' \in Seq(Listed) /\ Len(out') <= MaxPort
    <3>1. CASE out' = out
      BY <3>1 DEF TypeOK, EnumTypeOK
    <3>2. CASE out' = <<>>
      BY <3>2, EnumerationAssumption
    <3> QED BY <1>2, <3>1, <3>2
  <2>2. calm' \in BOOLEAN /\ kept' \subseteq Chips
    BY DEF Printed, BeginDedupe, ResetRtlDevices, Disturbed, TypeOK, EnumTypeOK
  <2> QED BY <1>1, <1>4, <2>1, <2>2 DEF TypeOK, EnumTypeOK
<1>6. /\ UNCHANGED <<image, task, processes, seen, changed, idx, want, orig, writeOK, verdict, atStart>>
      /\ step' \in {"list", "next", "relist"} /\ clean' \in BOOLEAN
      /\ step \in {"print", "list", "reset"}
  BY DEF Printed, BeginDedupe, ResetRtlDevices, taskVars, TypeOK
<1>7. /\ todo' \in Seq(Listed) /\ Len(todo') <= MaxPort
      /\ Cardinality(seen') + Len(todo') + InFlight' <= MaxPort
  <2>1. CASE BeginDedupe
    <3>1. seen' = {} /\ todo' = out
      BY <2>1, <1>6 DEF BeginDedupe, Counted
    <3>2. Cardinality(seen') = 0 /\ InFlight' = 0
      BY <1>6, <3>1, FS_EmptySet DEF InFlight
    <3> QED BY <3>1, <3>2 DEF TypeOK, EnumTypeOK
  <2>2. CASE Printed \/ ResetRtlDevices
    BY <1>6, <2>2 DEF Printed, ResetRtlDevices, taskVars, Counted, InFlight, TypeOK
  <2> QED BY <2>1, <2>2
<1>8. TypeOK'
  BY <1>5, <1>6, <1>7 DEF TypeOK, atStart
<1>9. Counted'
  <2>1. step' = "list" => seen = {}
    BY DEF Printed, BeginDedupe, ResetRtlDevices, Counted
  <2> QED BY <1>1, <1>6, <1>7, <2>1 DEF Counted
<1> QED BY <1>3, <1>8, <1>9

LEMMA VerifyShape ==
    ASSUME Shape, VerifySerial
    PROVE  Shape'
<1> USE DEF Shape
<1>1. EnumTypeOK' /\ Ordered' /\ pc' = pc
  <2>1. UNCHANGED <<busVars, enumVars, calm, kept>>
    BY DEF VerifySerial, Fixed
  <2> QED BY <2>1, ShapeIsEnumShape, StillShape DEF EnumShape, enumVars
<1>2. /\ UNCHANGED <<image, todo, idx, want, orig, writeOK, clean, task, processes, atStart>>
      /\ step = "verify" /\ step' \in {"next", "idle"} /\ verdict' \in {verdict, "pass"}
      /\ seen' = seen \cup {want} /\ changed' = TRUE
  BY DEF VerifySerial, Fixed
<1>3. TypeOK'
  BY <1>1, <1>2 DEF TypeOK, atStart
<1>4. /\ IsFiniteSet(seen') /\ Cardinality(seen') \in Nat /\ Cardinality(seen) \in Nat
      /\ Cardinality(seen') <= Cardinality(seen) + 1
  BY <1>2, OneSerialMore DEF Counted
<1>5. Cardinality(seen') + Len(todo') + InFlight' <= MaxPort
  <2>1. InFlight = 1 /\ InFlight' = 0
    BY <1>2 DEF InFlight
  <2>2. Len(todo) \in Nat /\ MaxPort \in Nat
    BY EnumerationAssumption DEF TypeOK
  <2> QED BY <1>2, <1>4, <2>1, <2>2 DEF Counted
<1>6. Counted'
  BY <1>1, <1>2, <1>4, <1>5 DEF Counted
<1> QED BY <1>1, <1>3, <1>6

LEMMA ShapeStep == Shape /\ [Next]_vars => Shape'
<1> SUFFICES ASSUME Shape, [Next]_vars PROVE Shape'
  OBVIOUS
<1>1. CASE UNCHANGED vars
  <2>1. EnumTypeOK' /\ Ordered'
    BY <1>1, ShapeIsEnumShape, StillShape DEF vars, EnumShape
  <2> QED BY <1>1, <2>1 DEF vars, enumVars, taskVars, atStart, Shape, TypeOK, Counted, InFlight
<1>2. CASE Next
  BY <1>2, EnumeratingShape, ProcessShape, ListShape, NextDongleShape, DongleShape, VerifyShape
  DEF Next, Command
<1> QED BY <1>1, <1>2

\* The state of the bus, of an enumeration and of every command is of the types
\* declared: no sequence of commands, failures and replugging takes it out of them,
\* and uniqueSerial never runs out of serials.
THEOREM EepromTypeCorrect == Spec => []TypeOK
<1>1. Shape => TypeOK
  BY DEF Shape
<1> QED BY <1>1, ShapeInit, ShapeStep, PTL DEF Spec

-----------------------------------------------------------------------------
(* Dongles that stay listed                                                *)

RightEntry(c) == [index |-> Index(c), serial |-> live[c], port |-> where[c]]

\* What a quiet bus makes of the copies that enumerateDongles keeps of it.
InStep ==
    /\ ~calm => kept = {}
    /\ calm /\ pc \in {"ports", "strings"} => n = Cardinality(Plugged)
    /\ calm /\ pc \in {"strings", "forget"} => ports = Bus
    /\ calm /\ pc \in {"strings", "forget", "returned"} =>
         \A k \in 1..Len(out) : out[k].index < Cardinality(Plugged)

\* A dongle that is listed as what it is has its serial in the cache, so that its
\* strings are not needed again.
Cached == \A c \in kept : /\ c \in Plugged
                          /\ where[c] \in DOMAIN cache
                          /\ cache[where[c]] = live[c]

\* Entries are the cache's.
CachedEntries ==
    calm /\ pc \in {"strings", "forget"} =>
        \A k \in 1..Len(out) :
            /\ out[k].port = PortOf(out[k].index)
            /\ out[k].port # NoPort => /\ out[k].port \in DOMAIN cache
                                       /\ cache[out[k].port] = out[k].serial

\* Those passed so far are listed.
Passed ==
    /\ calm /\ pc = "strings" => \A c \in kept : Index(c) < i => c \in ListedRight
    /\ calm /\ pc = "forget" => kept \subseteq ListedRight
    /\ calm /\ pc = "returned" /\ step = "list" => kept \subseteq ListedRight

Keeping == InStep /\ Cached /\ CachedEntries /\ Passed

LEMMA ListedRightEntry ==
    ASSUME EnumTypeOK
    PROVE  \A c : c \in ListedRight <=>
               c \in Plugged /\ \E k \in 1..Len(out) : out[k] = RightEntry(c)
<1>1. out \in Seq(Listed)
  BY DEF EnumTypeOK
<1>2. DOMAIN out = 1..Len(out)
  BY <1>1, LenProperties
<1> QED BY <1>2, Zenon DEF ListedRight, Range, RightEntry

\* As long as the ports are those of the bus, an index leads to its dongle's port.
LEMMA PortOfChip ==
    ASSUME WhereOK, ports = Bus, NEW c \in Plugged
    PROVE  PortOf(Index(c)) = where[c]
<1>1. Index(c) \in 0..(Cardinality(Plugged) - 1) /\ Cardinality(Plugged) \in Nat
  BY IndexBound, PluggedFinite
<1>2. Len(ports) = Cardinality(Plugged) /\ ports[Index(c) + 1] = where[c]
  BY BusPorts
<1> QED BY <1>1, <1>2 DEF PortOf

LEMMA PortsDiffer ==
    ASSUME WhereOK, ports = Bus,
           NEW j \in 0..(Cardinality(Plugged) - 1), NEW k \in 0..(Cardinality(Plugged) - 1),
           PortOf(j) = PortOf(k)
    PROVE  j = k
<1>1. /\ ChipAt(j) \in Plugged /\ Index(ChipAt(j)) = j
      /\ ChipAt(k) \in Plugged /\ Index(ChipAt(k)) = k
  BY IndexTaken, ChipWithIndex
<1>2. where[ChipAt(j)] = where[ChipAt(k)]
  BY <1>1, PortOfChip
<1>3. ChipAt(j) = ChipAt(k)
  BY <1>1, <1>2 DEF WhereOK, Plugged
<1> QED BY <1>1, <1>3

LEMMA KeepingInit == Init => Keeping
  BY DEF Init, EnumInit, Keeping, InStep, Cached, CachedEntries, Passed

\* Steps that leave bus and enumeration alone, and steps that disturb them.
LEMMA KeepingStill ==
    ASSUME Keeping, UNCHANGED <<where, live, enumVars, calm, kept>>, step' = "list" => step = "list"
    PROVE  Keeping'
<1> USE DEF Keeping
<1>1. Plugged' = Plugged /\ Bus' = Bus /\ ListedRight' = ListedRight
  BY DEF enumVars, Plugged, Bus, ListedRight, Index, ChipAt
<1>2. \A k : Index(k)' = Index(k) /\ PortOf(k)' = PortOf(k)
  BY DEF enumVars, Plugged, Index, PortOf
<1>3. InStep' /\ Cached'
  BY <1>1 DEF InStep, Cached, enumVars
<1>4. CachedEntries'
  BY <1>2 DEF CachedEntries, enumVars
<1>5. Passed'
  BY <1>1, <1>2 DEF Passed, enumVars
<1> QED BY <1>3, <1>4, <1>5

LEMMA KeepingDisturbed == Disturbed => Keeping'
  BY DEF Disturbed, Keeping, InStep, Cached, CachedEntries, Passed

\* The strings of a dongle of a quiet bus are listed, and those of no other changed.
LEMMA KeepingStrings ==
    ASSUME EnumShape, EnumShape', Keeping, StringsRead \/ StringsUnreadable
    PROVE  Keeping'
<1> USE DEF Keeping
<1> DEFINE c0 == ChipAt(i)
           p  == PortOf(i)
           N  == Cardinality(Plugged)
<1>1. /\ pc = "strings" /\ i < n /\ i' = i + 1 /\ pc' \in {"strings", "forget"}
      /\ UNCHANGED <<where, live, n, ports, calm, kept>>
      /\ pc' = "forget" => i + 1 = n
  BY DEF StringsRead, StringsUnreadable, NextDevice, busVars
<1>2. CASE ~calm
  BY <1>1, <1>2 DEF InStep, Cached, CachedEntries, Passed
<1>3. CASE calm
  <2>1. /\ WhereOK /\ ports = Bus /\ n = N /\ N \in Nat /\ i \in Nat /\ i \in 0..(N - 1)
        /\ out \in Seq(Listed) /\ out' \in Seq(Listed) /\ Len(out) \in Nat
        /\ \A k \in 1..Len(out) : out[k].index \in Nat /\ out[k].index < i
    BY <1>1, <1>3, PluggedFinite, TypesOfPlaces, ListedEntry
    DEF EnumShape, EnumTypeOK, Ordered, InStep
  <2>2. c0 \in Plugged /\ Index(c0) = i /\ p = where[c0] /\ p # NoPort
    <3>1. HasIndex(i)
      BY <2>1, IndexTaken
    <3>2. c0 \in Plugged /\ Index(c0) = i
      BY <3>1, ChipWithIndex
    <3> QED BY <2>1, <3>2, PortOfChip DEF Plugged
  <2>3. /\ Plugged' = Plugged /\ Bus' = Bus
        /\ \A k : Index(k)' = Index(k) /\ PortOf(k)' = PortOf(k) /\ RightEntry(k)' = RightEntry(k)
    BY <1>1 DEF Plugged, Bus, Index, PortOf, RightEntry, ChipAt
  <2>4. \A c \in Plugged : Index(c) \in 0..(N - 1) /\ (Index(c) = i => c = c0)
                           /\ (where[c] = p => c = c0)
    BY <2>1, <2>2, IndexBound, IndexInjective DEF WhereOK, Plugged
  <2>5. \A k \in 1..Len(out) : /\ out[k].port = PortOf(out[k].index)
                               /\ out[k].port # p
                               /\ out[k].index < N
    <3> SUFFICES ASSUME NEW k \in 1..Len(out)
                 PROVE  out[k].port = PortOf(out[k].index) /\ out[k].port # p /\ out[k].index < N
      OBVIOUS
    <3>1. out[k].port = PortOf(out[k].index)
      BY <1>1, <1>3 DEF CachedEntries
    <3>2. out[k].index \in 0..(N - 1) /\ out[k].index # i
      BY <2>1
    <3>3. out[k].port # p
      BY <2>1, <3>1, <3>2, PortsDiffer
    <3> QED BY <2>1, <3>1, <3>2, <3>3
  <2> HIDE DEF c0, p, N
  \* What is common to a dongle that is read and one that is looked up.
  <2>6. ASSUME NEW s, \/ out' = out /\ c0 \notin kept
                      \/ out' = Append(out, Entry(s, p)) /\ s \in Serials /\ (c0 \in kept => s = live[c0])
        PROVE  /\ InStep' /\ Passed'
               /\ \A k \in 1..Len(out') :
                    \/ k \in 1..Len(out) /\ out'[k] = out[k]
                    \/ out'[k] = Entry(s, p) /\ out' = Append(out, Entry(s, p))
    <3>1. /\ \A k \in 1..Len(out) : k \in 1..Len(out') /\ out'[k] = out[k]
          /\ \A k \in 1..Len(out') : \/ k \in 1..Len(out) /\ out'[k] = out[k]
                                     \/ out'[k] = Entry(s, p) /\ out' = Append(out, Entry(s, p))
          /\ c0 \in kept => \E k \in 1..Len(out') : out'[k] = RightEntry(c0)
      <4>1. CASE out' = out /\ c0 \notin kept
        BY <4>1
      <4>2. CASE out' = Append(out, Entry(s, p)) /\ s \in Serials /\ (c0 \in kept => s = live[c0])
        <5>1. /\ Len(out') = Len(out) + 1
              /\ \A k \in 1..Len(out) : out'[k] = out[k]
              /\ out'[Len(out) + 1] = Entry(s, p)
          BY <1>1, <4>2, EntryAdded DEF p
        <5>2. c0 \in kept => Entry(s, p) = RightEntry(c0)
          BY <2>2, <4>2 DEF Entry, RightEntry
        <5>3. Len(out) + 1 \in 1..Len(out')
          BY <2>1, <5>1
        <5>4. \A k \in 1..Len(out') : k \in 1..Len(out) \/ k = Len(out) + 1
          BY <2>1, <5>1
        <5>5. \A k \in 1..Len(out) : k \in 1..Len(out')
          BY <2>1, <5>1
        <5> QED BY <4>2, <5>1, <5>2, <5>3, <5>4, <5>5
      <4> QED BY <2>6, <4>1, <4>2
    <3>2. \A k \in 1..Len(out') : out'[k].index < N
      <4>1. Entry(s, p).index = i /\ i < N
        BY <2>1 DEF Entry
      <4> QED BY <2>5, <3>1, <4>1
    <3>3. InStep'
      BY <1>1, <1>3, <2>1, <2>3, <3>2 DEF InStep, N
    <3>4. \A c \in kept : Index(c) < i + 1 => c \in ListedRight'
      <4> SUFFICES ASSUME NEW c \in kept, Index(c) < i + 1 PROVE c \in ListedRight'
        OBVIOUS
      <4>1. c \in Plugged /\ c \in Plugged'
        BY <2>3 DEF Cached
      <4>2. \E k \in 1..Len(out') : out'[k] = RightEntry(c)
        <5>1. CASE Index(c) < i
          <6>1. c \in ListedRight
            BY <1>1, <1>3, <5>1 DEF Passed
          <6>2. PICK k \in 1..Len(out) : out[k] = RightEntry(c)
            BY <6>1, ListedRightEntry DEF EnumShape
          <6> QED BY <3>1, <6>2
        <5>2. CASE ~(Index(c) < i)
          <6>1. c = c0
            BY <2>1, <2>4, <4>1, <5>2
          <6> QED BY <3>1, <6>1
        <5> QED BY <5>1, <5>2
      <4>3. DOMAIN out' = 1..Len(out')
        BY <2>1, LenProperties
      <4>4. \E k \in DOMAIN out' : out'[k] = RightEntry(c)'
        BY <2>3, <4>2, <4>3
      <4> QED BY <4>1, <4>4 DEF ListedRight, Range, RightEntry
    <3>5. \A c \in kept : Index(c) < n
      BY <2>1, <2>4 DEF Cached
    <3>6. Passed'
      BY <1>1, <2>1, <2>3, <3>4, <3>5 DEF Passed
    <3> QED BY <3>1, <3>3, <3>6
  <2>7. CASE StringsRead
    <3> DEFINE s == live[c0]
    <3>1. s \in Serials
      BY <2>2 DEF EnumShape, EnumTypeOK, Plugged
    <3>2. out' = Append(out, Entry(s, p))
      BY <2>7 DEF StringsRead, c0, p
    <3>3. cache' = [q \in DOMAIN cache \cup {p} |-> IF q = p THEN s ELSE cache[q]]
      BY <2>2, <2>7 DEF StringsRead, c0, p
    <3> HIDE DEF s
    <3>4. /\ InStep' /\ Passed'
          /\ \A k \in 1..Len(out') : \/ k \in 1..Len(out) /\ out'[k] = out[k]
                                     \/ out'[k] = Entry(s, p)
      BY <2>6, <3>1, <3>2 DEF s
    <3>5. Cached'
      BY <1>1, <2>3, <2>4, <3>3 DEF Cached, s
    <3>6. \A q \in DOMAIN cache : q # p => q \in DOMAIN cache' /\ cache'[q] = cache[q]
      BY <3>3
    <3>7. p \in DOMAIN cache' /\ cache'[p] = s
      BY <3>3
    <3>8. Entry(s, p).port = p /\ Entry(s, p).index = i /\ Entry(s, p).serial = s /\ p = PortOf(i)
      BY DEF Entry, p
    <3>9. CachedEntries'
      <4> SUFFICES ASSUME NEW k \in 1..Len(out')
                   PROVE  /\ out'[k].port = PortOf(out'[k].index)
                          /\ out'[k].port # NoPort => /\ out'[k].port \in DOMAIN cache'
                                                      /\ cache'[out'[k].port] = out'[k].serial
        BY <2>3 DEF CachedEntries
      <4>1. CASE k \in 1..Len(out) /\ out'[k] = out[k]
        BY <1>1, <1>3, <2>5, <3>6, <4>1 DEF CachedEntries
      <4>2. CASE out'[k] = Entry(s, p)
        BY <3>7, <3>8, <4>2
      <4> QED BY <3>4, <4>1, <4>2
    <3> QED BY <3>4, <3>5, <3>9
  <2>8. CASE StringsUnreadable
    <3>1. cache' = cache
      BY <2>8 DEF StringsUnreadable
    <3>2. Cached'
      BY <1>1, <2>3, <3>1 DEF Cached
    <3>3. CASE p \notin DOMAIN cache
      <4>1. out' = out /\ c0 \notin kept
        BY <2>2, <2>8, <3>3 DEF StringsUnreadable, Cached, p
      <4>2. InStep' /\ Passed'
        BY <2>6, <4>1
      <4>3. CachedEntries'
        BY <1>1, <1>3, <2>3, <3>1, <4>1 DEF CachedEntries
      <4> QED BY <3>2, <4>2, <4>3
    <3>4. CASE p \in DOMAIN cache
      <4> DEFINE s == cache[p]
      <4>1. s \in Serials
        BY <3>4 DEF EnumShape, EnumTypeOK, Range
      <4>2. out' = Append(out, Entry(s, p))
        BY <2>8, <3>4 DEF StringsUnreadable, p
      <4>3. c0 \in kept => s = live[c0]
        BY <2>2 DEF Cached
      <4> HIDE DEF s
      <4>4. /\ InStep' /\ Passed'
            /\ \A k \in 1..Len(out') : \/ k \in 1..Len(out) /\ out'[k] = out[k]
                                       \/ out'[k] = Entry(s, p)
        BY <2>6, <4>1, <4>2, <4>3
      <4>5. Entry(s, p).port = p /\ Entry(s, p).index = i /\ Entry(s, p).serial = s /\ p = PortOf(i)
        BY DEF Entry, p
      <4>6. CachedEntries'
        <5> SUFFICES ASSUME NEW k \in 1..Len(out')
                     PROVE  /\ out'[k].port = PortOf(out'[k].index)
                            /\ out'[k].port # NoPort => /\ out'[k].port \in DOMAIN cache
                                                        /\ cache[out'[k].port] = out'[k].serial
          BY <2>3, <3>1 DEF CachedEntries
        <5>1. CASE k \in 1..Len(out) /\ out'[k] = out[k]
          BY <1>1, <1>3, <5>1 DEF CachedEntries
        <5>2. CASE out'[k] = Entry(s, p)
          BY <3>4, <4>5, <5>2 DEF s
        <5> QED BY <4>4, <5>1, <5>2
      <4> QED BY <3>2, <4>4, <4>6
    <3> QED BY <3>3, <3>4
  <2> QED BY <2>7, <2>8
<1> QED BY <1>2, <1>3

LEMMA KeepingForget ==
    ASSUME EnumShape, Keeping, ForgetAbsent
    PROVE  Keeping'
<1> USE DEF Keeping
<1>1. /\ pc = "forget" /\ pc' = "returned"
      /\ UNCHANGED <<where, live, out, calm>>
      /\ kept' = IF calm THEN ListedRight ELSE {}
      /\ cache' = [p \in DOMAIN cache \cap Range(ports) |-> cache[p]]
  BY DEF ForgetAbsent, busVars
<1>2. CachedEntries'
  BY <1>1 DEF CachedEntries
<1>3. ListedRight' = ListedRight /\ Plugged' = Plugged
  BY <1>1 DEF ListedRight, Plugged, Index
<1>4. InStep' /\ Passed'
  BY <1>1, <1>3 DEF InStep, Passed
<1>5. Cached'
  <2> SUFFICES ASSUME calm, NEW c \in ListedRight
               PROVE  /\ c \in Plugged /\ where[c] \in DOMAIN cache \cap Range(ports)
                      /\ cache[where[c]] = live[c]
    BY <1>1, <1>3 DEF Cached
  <2>1. c \in Plugged /\ WhereOK /\ ports = Bus
    BY <1>1, TypesOfPlaces DEF ListedRight, EnumShape, InStep
  <2>2. PICK k \in 1..Len(out) : out[k] = RightEntry(c)
    BY ListedRightEntry DEF EnumShape
  <2>3. /\ RightEntry(c).port = where[c] /\ RightEntry(c).serial = live[c]
        /\ where[c] # NoPort
    BY <2>1 DEF RightEntry, Plugged
  <2>4. where[c] \in DOMAIN cache /\ cache[where[c]] = live[c]
    BY <1>1, <2>2, <2>3 DEF CachedEntries
  <2>5. where[c] \in Range(ports)
    <3>1. /\ ports[Index(c) + 1] = where[c] /\ Len(ports) = Cardinality(Plugged)
          /\ Index(c) \in 0..(Cardinality(Plugged) - 1) /\ Cardinality(Plugged) \in Nat
      BY <2>1, BusPorts, IndexBound, PluggedFinite
    <3>2. DOMAIN ports = 1..Len(ports)
      BY LenProperties DEF EnumShape, EnumTypeOK
    <3>3. Index(c) + 1 \in DOMAIN ports
      BY <3>1, <3>2
    <3> QED BY <3>1, <3>3 DEF Range
  <2> QED BY <2>1, <2>4, <2>5
<1> QED BY <1>2, <1>4, <1>5

LEMMA KeepingCount ==
    ASSUME EnumShape, Keeping, CountDevices \/ DonglePorts \/ NoDevices
    PROVE  Keeping'
<1> USE DEF Keeping
<1>0. UNCHANGED <<where, live, cache, kept, i>>
  BY DEF CountDevices, DonglePorts, NoDevices, busVars
<1>1. Plugged' = Plugged /\ Bus' = Bus /\ \A k : Index(k)' = Index(k)
  BY <1>0 DEF Plugged, Bus, Index, ChipAt
<1>2. Cached'
  BY <1>0, <1>1 DEF Cached
<1>3. \A c \in Plugged : Index(c) \in 0..(Cardinality(Plugged) - 1)
  BY IndexBound, TypesOfPlaces DEF EnumShape
<1>4. CASE CountDevices
  BY <1>0, <1>1, <1>2, <1>4 DEF CountDevices, InStep, CachedEntries, Passed
<1>5. CASE DonglePorts
  <2>1. /\ pc = "ports" /\ pc' = "strings" /\ ports' = Bus /\ UNCHANGED <<n, out, calm>>
        /\ Len(out) = 0 /\ i = 0
    BY <1>5 DEF DonglePorts, EnumShape, Ordered
  <2>2. InStep' /\ CachedEntries'
    BY <1>0, <1>1, <2>1 DEF InStep, CachedEntries
  <2>3. Passed'
    BY <1>0, <1>1, <1>3, <2>1 DEF Passed, Cached
  <2> QED BY <1>2, <2>2, <2>3
<1>6. CASE NoDevices
  <2>1. /\ pc = "strings" /\ n = 0 /\ pc' = "forget" /\ UNCHANGED <<n, ports, out, calm>>
    BY <1>6 DEF NoDevices
  <2>2. InStep' /\ CachedEntries'
    BY <1>0, <1>1, <2>1 DEF InStep, CachedEntries, PortOf
  <2>3. calm => kept = {}
    BY <1>3, <2>1 DEF InStep, Cached
  <2>4. Passed'
    BY <1>0, <2>1, <2>3 DEF Passed
  <2> QED BY <1>2, <2>2, <2>4
<1> QED BY <1>4, <1>5, <1>6

LEMMA KeepingStep ==
    ASSUME Shape, Shape', Keeping, [Next]_vars
    PROVE  Keeping'
<1>0. EnumShape /\ EnumShape'
  BY DEF Shape, EnumShape, TypeOK
<1>1. CASE Environment
  <2>1. PICK c \in Chips : \/ Unplug(c) \/ \E p \in Ports : Plug(c, p, Reported(image[c]))
                           \/ DecoderOpens(c) \/ DecoderCloses(c)
    BY <1>1 DEF Environment
  <2>2. step' = step
    BY <1>1 DEF Environment
  <2>3. Disturbed \/ UNCHANGED <<where, live, enumVars, calm, kept>>
    BY <2>1 DEF Unplug, Plug, DecoderOpens, DecoderCloses
  <2> QED BY <2>2, <2>3, KeepingStill, KeepingDisturbed
<1>2. CASE Enumerating
  <2>1. Enumerate /\ step' = step
    BY <1>2 DEF Enumerating
  <2>2. DonglePortsFails => Disturbed
    BY DEF DonglePortsFails
  <2> QED BY <1>0, <2>1, <2>2, KeepingDisturbed, KeepingStrings, KeepingForget, KeepingCount
          DEF Enumerate
<1>3. CASE Service \/ Dedupe \/ SelfTest \/ SetSerial
  <2>1. PICK t \in Tasks : Process(t)
    BY <1>3 DEF Service, Dedupe, SelfTest, SetSerial, Tasks
  <2>2. kept' = {} /\ pc' = "idle"
    BY <2>1 DEF Process
  <2> QED BY <2>2 DEF Keeping, InStep, Cached, CachedEntries, Passed
<1>4. CASE Printed
  <2>1. pc' = "idle" /\ UNCHANGED <<where, live, cache, calm, kept>>
    BY <1>4 DEF Printed, busVars
  <2> QED BY <2>1 DEF Keeping, InStep, Cached, CachedEntries, Passed, Plugged
<1>5. CASE BeginDedupe
  <2>1. /\ pc = "returned" /\ pc' = pc /\ out' = <<>> /\ step' = "next"
        /\ UNCHANGED <<where, live, cache, calm, kept>>
    BY <1>5 DEF BeginDedupe, busVars
  <2> QED BY <2>1 DEF Keeping, InStep, Cached, CachedEntries, Passed, Plugged
<1>6. CASE ResetRtlDevices
  BY <1>6, KeepingDisturbed DEF ResetRtlDevices
<1>7. CASE \/ FirstOfItsSerial \/ Duplicate \/ AllSeen \/ Relisted
           \/ ReadOriginal \/ WriteSerial \/ WriteSerialFails \/ ReadFails \/ VerifySerial
           \/ CheckTestSerial \/ Restore \/ RestoreFails \/ CheckRestored
  <2>1. Fixed
    BY <1>7 DEF FirstOfItsSerial, Duplicate, AllSeen, Relisted, ReadOriginal, WriteSerial,
                WriteSerialFails, ReadFails, VerifySerial, CheckTestSerial, Restore, RestoreFails,
                CheckRestored, Failed
  <2>2. Failed => step' # "list"
    BY Zenon DEF Failed
  <2>3. VerifySerial \/ AllSeen => step' # "list"
    BY Zenon DEF VerifySerial, AllSeen
  <2>4. FirstOfItsSerial => step' = step
    BY Zenon DEF FirstOfItsSerial
  <2>5. Duplicate \/ Relisted \/ ReadOriginal \/ WriteSerial \/ CheckTestSerial \/ Restore
          \/ CheckRestored => step' # "list"
    BY Zenon DEF Duplicate, Relisted, ReadOriginal, WriteSerial, CheckTestSerial, Restore,
                CheckRestored
  <2>6. WriteSerialFails \/ ReadFails \/ RestoreFails => Failed
    BY Zenon DEF WriteSerialFails, ReadFails, RestoreFails
  <2>7. step' # "list" \/ step' = step
    BY <1>7, <2>2, <2>3, <2>4, <2>5, <2>6
  <2> QED BY <2>1, <2>7, KeepingStill DEF Fixed, busVars
<1>8. CASE UNCHANGED vars
  BY <1>8, KeepingStill DEF vars, busVars
<1> QED BY <1>1, <1>2, <1>3, <1>4, <1>5, <1>6, <1>7, <1>8 DEF Next, Command

\* A dongle that was listed as what it is stays listed as that while nothing is plugged
\* in or out and libusb answers, whichever dongles decoders open meanwhile.
THEOREM ListedWhileBusy == Spec => []KeptWhileBusy
<1>1. Init => Shape /\ Keeping
  BY ShapeInit, KeepingInit
<1>2. Shape /\ Keeping /\ [Next]_vars => (Shape /\ Keeping)'
  BY ShapeStep, KeepingStep
<1>3. Keeping => KeptWhileBusy
  BY DEF Keeping, Passed, KeptWhileBusy
<1> QED BY <1>1, <1>2, <1>3, PTL DEF Spec

-----------------------------------------------------------------------------
(* The self-test                                                           *)

RestoreSteps == {"idle", "read", "write", "verify", "restore", "check"}

\* The self-test addresses a dongle whose image it has saved.
Saved == HasIndex(idx) /\ orig = before[ChipAt(idx)]

\* While its calls go through, only the dongle it addresses may differ from what it
\* was, and only from the write of the test serial to that of what was saved.
Restoring ==
    task = "selftest" /\ clean =>
        /\ step \in RestoreSteps
        /\ step # "idle" => verdict = "none"
        /\ step \in {"idle", "read", "write", "check"} => image = before
        /\ step \in {"write", "verify", "restore"} => Saved
        /\ step \in {"verify", "restore"} =>
             \A c \in Chips : c # ChipAt(idx) \/ c \in Protected => image[c] = before[c]

\* A bus on which nothing is plugged in or out has its dongles at their indexes.
LEMMA SameBus ==
    ASSUME UNCHANGED where
    PROVE  /\ Plugged' = Plugged
           /\ \A c : Index(c)' = Index(c)
           /\ \A k : HasIndex(k)' = HasIndex(k) /\ ChipAt(k)' = ChipAt(k)
<1>1. Plugged' = Plugged
  BY DEF Plugged
<1>2. \A c : Index(c)' = Index(c)
  BY <1>1 DEF Index
<1> QED BY <1>1, <1>2 DEF HasIndex, ChipAt, Index

LEMMA RestoringSame ==
    ASSUME Restoring, clean' => clean /\ UNCHANGED where,
           UNCHANGED <<image, task, step, taskVars, verdict, before>>
    PROVE  Restoring'
<1> SUFFICES ASSUME task' = "selftest", clean' PROVE Restoring'
  BY DEF Restoring
<1>1. /\ task = "selftest" /\ clean
      /\ HasIndex(idx)' = HasIndex(idx) /\ ChipAt(idx)' = ChipAt(idx)
  BY SameBus DEF taskVars
<1> QED BY <1>1 DEF Restoring, Saved, taskVars

LEMMA RestoringInit == Init => Restoring
  BY DEF Init, Restoring

LEMMA RestoringStep ==
    ASSUME Shape, Restoring, [Next]_vars
    PROVE  Restoring'
<1>0. /\ image \in [Chips -> Image] /\ before \in [Chips -> Image]
  BY DEF Shape, TypeOK
<1>1. CASE Environment
  <2>1. clean' => clean /\ UNCHANGED where
    BY <1>1 DEF Environment, DecoderOpens, DecoderCloses
  <2> QED BY <1>1, <2>1, RestoringSame DEF Environment, atStart
<1>2. CASE Enumerating
  <2>1. UNCHANGED where
    BY <1>2 DEF Enumerating, Enumerate, CountDevices, DonglePorts, DonglePortsFails, StringsRead,
                StringsUnreadable, NoDevices, ForgetAbsent, busVars
  <2> QED BY <1>2, <2>1, RestoringSame DEF Enumerating, atStart
<1>3. CASE Service \/ Dedupe \/ SetSerial
  <2>1. task' # "selftest"
    BY <1>3 DEF Service, Dedupe, SetSerial, Process
  <2> QED BY <2>1 DEF Restoring
<1>4. CASE SelfTest
  BY <1>4 DEF SelfTest, Process, Restoring, RestoreSteps, busVars
<1>5. CASE /\ ~Environment /\ ~Enumerating /\ ~Service /\ ~Dedupe /\ ~SetSerial /\ ~SelfTest
           /\ Command
  <2> SUFFICES ASSUME task' = "selftest", clean' PROVE Restoring'
    BY DEF Restoring
  <2>1. task = "selftest" /\ clean
    <3>1. task' = task
      BY <1>5 DEF Command, Fixed, Printed, BeginDedupe, FirstOfItsSerial, Duplicate, AllSeen,
                  ResetRtlDevices, Relisted, ReadOriginal, WriteSerial, WriteSerialFails, ReadFails,
                  VerifySerial, CheckTestSerial, Restore, RestoreFails, CheckRestored, Failed
    <3>2. clean' => clean
      BY <1>5 DEF Command, Printed, BeginDedupe, FirstOfItsSerial, Duplicate, AllSeen,
                  ResetRtlDevices, Relisted, ReadOriginal, WriteSerial, WriteSerialFails, ReadFails,
                  VerifySerial, CheckTestSerial, Restore, RestoreFails, CheckRestored, Failed
    <3> QED BY <3>1, <3>2
  <2>2. step \in RestoreSteps
    BY <2>1 DEF Restoring
  <2>3. ReadOriginal \/ WriteSerial \/ CheckTestSerial \/ Restore \/ CheckRestored
    <3>1. ~Printed /\ ~BeginDedupe /\ ~FirstOfItsSerial /\ ~Duplicate /\ ~AllSeen
          /\ ~ResetRtlDevices /\ ~Relisted
      BY <2>2 DEF RestoreSteps, Printed, BeginDedupe, FirstOfItsSerial, Duplicate, AllSeen,
                  ResetRtlDevices, Relisted
    <3>2. ~WriteSerialFails /\ ~ReadFails /\ ~RestoreFails
      BY DEF WriteSerialFails, ReadFails, RestoreFails, Failed
    <3>3. ~VerifySerial
      BY <2>1 DEF VerifySerial
    <3> QED BY <1>5, <3>1, <3>2, <3>3 DEF Command
  <2>4. /\ UNCHANGED <<where, task, before>>
        /\ \A k : HasIndex(k)' = HasIndex(k) /\ ChipAt(k)' = ChipAt(k)
    <3>1. UNCHANGED <<where, task, before>>
      BY <2>3 DEF ReadOriginal, WriteSerial, CheckTestSerial, Restore, CheckRestored, Fixed,
                  busVars, atStart
    <3> QED BY <3>1, SameBus
  <2>5. CASE ReadOriginal
    BY <2>1, <2>4, <2>5 DEF ReadOriginal, Opens, Restoring, RestoreSteps, Saved
  <2>6. CASE WriteSerial
    <3>1. /\ step = "write" /\ step' = "verify"
          /\ UNCHANGED <<idx, orig, verdict>>
      BY <2>6 DEF WriteSerial, taskVars
    <3>2. /\ image = before /\ Saved /\ verdict = "none"
      BY <2>1, <3>1 DEF Restoring
    <3>3. \A c \in Chips : c # ChipAt(idx) \/ c \in Protected => image'[c] = before[c]
      BY <1>0, <2>6, <3>2 DEF WriteSerial, WriteEEPROM
    <3> QED BY <2>4, <3>1, <3>2, <3>3 DEF Restoring, RestoreSteps, Saved
  <2>7. CASE CheckTestSerial
    BY <2>1, <2>4, <2>7 DEF CheckTestSerial, Restoring, RestoreSteps, Saved
  <2>8. CASE Restore
    <3>1. /\ step = "restore" /\ step' = "check"
          /\ UNCHANGED verdict
      BY <2>8 DEF Restore
    <3>2. /\ Saved /\ verdict = "none"
          /\ \A c \in Chips : c # ChipAt(idx) \/ c \in Protected => image[c] = before[c]
      BY <2>1, <3>1 DEF Restoring
    <3>3. image' = before
      <4>1. image' = IF ChipAt(idx) \in Protected THEN image
                     ELSE [image EXCEPT ![ChipAt(idx)] = before[ChipAt(idx)]]
        BY <2>8, <3>2 DEF Restore, WriteEEPROM, Restored, Saved
      <4>2. image' \in [Chips -> Image] /\ \A c \in Chips : image'[c] = before[c]
        <5>1. ChipAt(idx) \in Chips
          BY <3>2, ChipWithIndex DEF Saved, Plugged
        <5> QED BY <1>0, <3>2, <4>1, <5>1
      <4> QED BY <1>0, <4>2
    <3> QED BY <2>4, <3>1, <3>2, <3>3 DEF Restoring, RestoreSteps
  <2>9. CASE CheckRestored
    BY <2>1, <2>4, <2>9 DEF CheckRestored, Restoring, RestoreSteps
  <2> QED BY <2>3, <2>5, <2>6, <2>7, <2>8, <2>9
<1>6. CASE UNCHANGED vars
  BY <1>6, RestoringSame DEF vars, busVars, atStart
<1> QED BY <1>1, <1>2, <1>3, <1>4, <1>5, <1>6 DEF Next, Command

\* "Leaves the dongle exactly as found" (agent/eeprom_windows.go:208): a self-test
\* that passes has left every byte of every EEPROM as it was.
THEOREM PassedIsRestored == Spec => []PassMeansRestored
<1>1. Init => Shape /\ Restoring
  BY ShapeInit, RestoringInit
<1>2. Shape /\ Restoring /\ [Next]_vars => (Shape /\ Restoring)'
  BY ShapeStep, RestoringStep
<1>3. Restoring => PassMeansRestored
  BY DEF Restoring, PassMeansRestored
<1> QED BY <1>1, <1>2, <1>3, PTL DEF Spec

-----------------------------------------------------------------------------
(* The dedupe                                                              *)

Rewriting  == step \in {"read", "write", "verify"}
Looking    == step = "next" \/ Rewriting

\* Dongles dedupeSerials has still to look at, the one it writes, and the others.
Awaited(c) == \E k \in 1..Len(todo) : todo[k].index = Index(c)
Current(c) == Rewriting /\ Index(c) = idx
Done(c)    == c \in Plugged /\ ~Awaited(c) /\ ~Current(c)

\* What is still to do is what is on the bus, each dongle once.
ToDo ==
    Looking =>
        /\ \A k \in 1..Len(todo) : /\ HasIndex(todo[k].index)
                                   /\ todo[k].serial = live[ChipAt(todo[k].index)]
        /\ \A j, k \in 1..Len(todo) : todo[j].index = todo[k].index => j = k
        /\ Rewriting => /\ HasIndex(idx)
                        /\ \A k \in 1..Len(todo) : todo[k].index # idx
                        /\ want \in 1..(2 * MaxPort) /\ want \notin seen

\* Nothing is written to a dongle before its turn, and nothing at all while nothing
\* has changed.
NotYet ==
    Looking =>
        \A c \in Plugged : /\ Awaited(c) \/ ~changed
                           /\ ~(step = "verify" /\ Current(c))
            => live[c] = Reported(image[c])

\* The others will report serials that are in use, each its own.
Distinct ==
    Looking =>
        /\ \A c \in Plugged : Done(c) => Reported(image[c]) \in seen
        /\ \A c, d \in Plugged :
             Done(c) /\ Done(d) /\ Reported(image[c]) = Reported(image[d]) => c = d

Numbering == task = "dedupe" /\ clean /\ fresh /\ Plugged # {}

Deduping ==
    Numbering =>
        /\ step \notin {"restore", "check"}
        /\ step \in {"print", "list"} => \A c \in Plugged : live[c] = Reported(image[c])
        /\ ToDo /\ NotYet /\ Distinct
        /\ step = "reset" =>
             \A c, d \in Plugged : Reported(image[c]) = Reported(image[d]) => c = d
        /\ step \in {"relist", "idle"} => UniqueSerials

LEMMA DedupingSame ==
    ASSUME Deduping, clean' => clean /\ UNCHANGED <<where, live>>,
           UNCHANGED <<image, task, step, taskVars, fresh>>
    PROVE  Deduping'
<1> SUFFICES ASSUME Numbering' PROVE Deduping'
  BY DEF Deduping
<1>1. /\ UNCHANGED <<where, live, image, task, step, todo, seen, changed, idx, want, fresh>>
      /\ clean /\ clean'
  BY DEF Numbering, taskVars
<1>2. /\ Plugged' = Plugged /\ \A c : Index(c)' = Index(c)
      /\ \A k : HasIndex(k)' = HasIndex(k) /\ ChipAt(k)' = ChipAt(k)
  BY <1>1, SameBus
<1>3. Numbering
  BY <1>1, <1>2 DEF Numbering
<1>4. /\ Looking' = Looking /\ Rewriting' = Rewriting
      /\ \A c : Awaited(c)' = Awaited(c) /\ Current(c)' = Current(c) /\ Done(c)' = Done(c)
  BY <1>1, <1>2 DEF Looking, Rewriting, Awaited, Current, Done
<1>5. ToDo' /\ NotYet' /\ Distinct' /\ UniqueSerials' = UniqueSerials
  BY <1>1, <1>2, <1>3, <1>4 DEF Deduping, ToDo, NotYet, Distinct, UniqueSerials
<1> QED BY <1>1, <1>2, <1>3, <1>5 DEF Deduping

LEMMA DedupingInit == Init => Deduping
  BY DEF Init, Deduping, Numbering

\* dedupeSerials is given every dongle of the bus once.
LEMMA DedupingBegin ==
    ASSUME Shape, Keeping, Deduping, BeginDedupe
    PROVE  Deduping'
<1> SUFFICES ASSUME Numbering' PROVE Deduping'
  BY DEF Deduping
<1>1. /\ step = "list" /\ pc = "returned" /\ step' = "next" /\ todo' = out
      /\ UNCHANGED <<where, live, image, task, fresh>>
      /\ clean /\ kept = Plugged
  BY DEF BeginDedupe, Numbering, busVars, atStart
<1>2. /\ Plugged' = Plugged /\ \A c : Index(c)' = Index(c)
      /\ \A k : HasIndex(k)' = HasIndex(k) /\ ChipAt(k)' = ChipAt(k)
  BY <1>1, SameBus
<1>3. Numbering
  BY <1>1, <1>2 DEF Numbering
<1>4. /\ EnumTypeOK /\ WhereOK /\ out \in Seq(Listed) /\ Len(out) \in Nat
      /\ \A j, k \in 1..Len(out) : j < k => out[j].index < out[k].index
  BY ShapeIsEnumShape, TypesOfPlaces, LenProperties DEF EnumShape, EnumTypeOK, Ordered
<1>5. /\ Plugged \subseteq ListedRight
      /\ \A k \in 1..Len(out) : out[k].index < Cardinality(Plugged)
  BY <1>1, <1>3 DEF Keeping, InStep, Passed, Numbering
<1>6. \A c \in Plugged : \E k \in 1..Len(out) : out[k] = RightEntry(c)
  BY <1>4, <1>5, ListedRightEntry
<1>7. \A k \in 1..Len(out) : out[k] \in Listed /\ out[k].index \in Nat
  BY <1>4, ListedEntry
<1>8. \A j, k \in 1..Len(out) : out[j].index = out[k].index => j = k
  BY <1>4, <1>7
<1>9. ASSUME NEW k \in 1..Len(out)
      PROVE  HasIndex(out[k].index) /\ out[k].serial = live[ChipAt(out[k].index)]
  <2>1. HasIndex(out[k].index)
    BY <1>4, <1>5, <1>7, IndexTaken, PluggedFinite
  <2>2. PICK c \in Plugged : c = ChipAt(out[k].index) /\ Index(c) = out[k].index
    BY <2>1, ChipWithIndex
  <2>3. PICK j \in 1..Len(out) : out[j] = RightEntry(c)
    BY <1>6
  <2>4. j = k
    BY <1>8, <2>2, <2>3 DEF RightEntry
  <2> QED BY <2>1, <2>2, <2>3, <2>4 DEF RightEntry
<1>10. Looking' /\ ~Rewriting'
  BY <1>1 DEF Looking, Rewriting
<1>11. ToDo'
  BY <1>1, <1>2, <1>8, <1>9, <1>10 DEF ToDo
<1>12. ASSUME NEW c \in Plugged PROVE Awaited(c)'
  <2>1. PICK k \in 1..Len(out) : out[k] = RightEntry(c)
    BY <1>6
  <2>2. out[k].index = Index(c)
    BY <2>1 DEF RightEntry
  <2> QED BY <1>1, <1>2, <2>2 DEF Awaited
<1>13. NotYet'
  BY <1>1, <1>2, <1>3 DEF Deduping, NotYet
<1>14. Distinct'
  BY <1>2, <1>12 DEF Distinct, Done
<1> QED BY <1>1, <1>11, <1>13, <1>14 DEF Deduping

\* The next dongle is one of the bus that is not awaited any more.
LEMMA NextAwaited ==
    ASSUME Shape, ToDo, step = "next", todo # <<>>,
           todo' = Tail(todo), UNCHANGED <<where, live>>
    PROVE  \E c0 \in Plugged :
              /\ Index(c0) = Head(todo).index /\ Head(todo).serial = live[c0]
              /\ HasIndex(Head(todo).index)
              /\ Awaited(c0) /\ ~Awaited(c0)'
              /\ \A c \in Plugged : c # c0 => Awaited(c)' = Awaited(c)
              /\ \A k \in 1..Len(todo') : /\ HasIndex(todo'[k].index)
                                           /\ todo'[k].serial = live[ChipAt(todo'[k].index)]
                                           /\ todo'[k].index # Head(todo).index
              /\ \A j, k \in 1..Len(todo') : todo'[j].index = todo'[k].index => j = k
<1>0. WhereOK /\ todo \in Seq(Listed)
  BY TypesOfPlaces DEF Shape, TypeOK
<1>1. /\ Head(todo) = todo[1] /\ Len(todo) \in Nat \ {0} /\ Len(todo') = Len(todo) - 1
      /\ \A k \in 1..Len(todo') : todo'[k] = todo[k + 1]
  BY <1>0, Headed
<1>2. /\ \A k \in 1..Len(todo) : /\ HasIndex(todo[k].index)
                                 /\ todo[k].serial = live[ChipAt(todo[k].index)]
      /\ \A j, k \in 1..Len(todo) : todo[j].index = todo[k].index => j = k
  BY DEF ToDo, Looking
<1>3. PICK c0 \in Plugged : c0 = ChipAt(Head(todo).index) /\ Index(c0) = Head(todo).index
  BY <1>1, <1>2, ChipWithIndex
<1>4. \A k \in 1..Len(todo') : k + 1 \in 1..Len(todo) /\ k + 1 # 1
  BY <1>1
<1>5. \A k \in 1..Len(todo) : k # 1 => k - 1 \in 1..Len(todo') /\ k - 1 + 1 = k
  BY <1>1
<1>6. \A c : Index(c)' = Index(c)
  BY SameBus
<1>7. Awaited(c0)
  BY <1>1, <1>3 DEF Awaited
<1>8. \A k \in 1..Len(todo') : todo'[k].index # Head(todo).index
  BY <1>1, <1>2, <1>4
<1>9. ~Awaited(c0)'
  BY <1>3, <1>6, <1>8 DEF Awaited
<1>10. ASSUME NEW c \in Plugged, c # c0 PROVE Awaited(c)' = Awaited(c)
  <2>1. Index(c) # Head(todo).index
    BY <1>0, <1>3, <1>10, IndexInjective
  <2>2. Awaited(c) => Awaited(c)'
    <3> SUFFICES ASSUME NEW k \in 1..Len(todo), todo[k].index = Index(c) PROVE Awaited(c)'
      BY DEF Awaited
    <3>1. k # 1
      BY <1>1, <2>1
    <3>2. k - 1 \in 1..Len(todo') /\ todo'[k - 1] = todo[k]
      BY <1>1, <1>5, <3>1
    <3> QED BY <1>6, <3>2 DEF Awaited
  <2>3. Awaited(c)' => Awaited(c)
    BY <1>1, <1>4, <1>6 DEF Awaited
  <2> QED BY <2>2, <2>3 DEF Awaited
<1>11. \A j, k \in 1..Len(todo') : todo'[j].index = todo'[k].index => j = k
  <2> SUFFICES ASSUME NEW j \in 1..Len(todo'), NEW k \in 1..Len(todo'),
                      todo'[j].index = todo'[k].index
               PROVE  j = k
    OBVIOUS
  <2>1. j + 1 = k + 1
    BY <1>1, <1>2, <1>4
  <2> QED BY <1>1, <2>1
<1>12. \A k \in 1..Len(todo') : /\ HasIndex(todo'[k].index)
                                /\ todo'[k].serial = live[ChipAt(todo'[k].index)]
  BY <1>1, <1>2, <1>4
<1>13. Head(todo).serial = live[c0] /\ HasIndex(Head(todo).index)
  BY <1>1, <1>2, <1>3
<1> QED BY <1>3, <1>7, <1>8, <1>9, <1>10, <1>11, <1>12, <1>13

LEMMA DedupingNext ==
    ASSUME Shape, Deduping, FirstOfItsSerial \/ Duplicate \/ AllSeen
    PROVE  Deduping'
<1> SUFFICES ASSUME Numbering' PROVE Deduping'
  BY DEF Deduping
<1>1. /\ step = "next"
      /\ UNCHANGED <<where, live, image, task, clean, fresh, changed>>
  BY DEF FirstOfItsSerial, Duplicate, AllSeen, Fixed, busVars, atStart, taskVars
<1>2. /\ Plugged' = Plugged /\ \A c : Index(c)' = Index(c)
      /\ \A k : HasIndex(k)' = HasIndex(k) /\ ChipAt(k)' = ChipAt(k)
  BY <1>1, SameBus
<1>3. Numbering
  BY <1>1, <1>2 DEF Numbering
<1>4. /\ Looking /\ ~Rewriting /\ ToDo /\ NotYet /\ Distinct
      /\ \A c : ~Current(c)
  BY <1>1, <1>3 DEF Deduping, Looking, Rewriting, Current
<1>5. WhereOK /\ todo \in Seq(Listed)
  BY TypesOfPlaces DEF Shape, TypeOK
<1>6. CASE FirstOfItsSerial
  <2>1. /\ todo # <<>> /\ todo' = Tail(todo) /\ step' = "next"
        /\ Head(todo).serial \notin seen /\ seen' = seen \cup {Head(todo).serial}
    BY <1>1, <1>6 DEF FirstOfItsSerial
  <2>2. PICK c0 \in Plugged :
              /\ Head(todo).serial = live[c0]
              /\ Awaited(c0) /\ ~Awaited(c0)'
              /\ \A c \in Plugged : c # c0 => Awaited(c)' = Awaited(c)
              /\ \A k \in 1..Len(todo') : /\ HasIndex(todo'[k].index)
                                           /\ todo'[k].serial = live[ChipAt(todo'[k].index)]
              /\ \A j, k \in 1..Len(todo') : todo'[j].index = todo'[k].index => j = k
    BY <1>1, <1>4, <2>1, NextAwaited
  <2>3. Looking' /\ ~Rewriting' /\ \A c : ~Current(c)'
    BY <2>1 DEF Looking, Rewriting, Current
  <2>4. ToDo'
    BY <1>1, <1>2, <2>2, <2>3 DEF ToDo
  <2>5. live[c0] = Reported(image[c0])
    BY <1>1, <1>4, <2>2 DEF NotYet
  <2>6. NotYet'
    BY <1>1, <1>2, <1>4, <2>1, <2>2 DEF NotYet
  <2>7. \A c \in Plugged : Done(c)' <=> Done(c) \/ c = c0
    BY <1>2, <1>4, <2>2, <2>3 DEF Done
  <2>8. Distinct'
    BY <1>1, <1>2, <1>4, <2>1, <2>2, <2>5, <2>7 DEF Distinct
  <2> QED BY <2>1, <2>4, <2>6, <2>8 DEF Deduping
<1>7. CASE Duplicate
  <2>1. /\ todo # <<>> /\ todo' = Tail(todo) /\ step' = "read" /\ seen' = seen
        /\ idx' = Head(todo).index /\ want' = UniqueSerial(seen)
    BY <1>7 DEF Duplicate
  <2>2. PICK c0 \in Plugged :
              /\ Index(c0) = Head(todo).index /\ HasIndex(Head(todo).index)
              /\ Awaited(c0) /\ ~Awaited(c0)'
              /\ \A c \in Plugged : c # c0 => Awaited(c)' = Awaited(c)
              /\ \A k \in 1..Len(todo') : /\ HasIndex(todo'[k].index)
                                           /\ todo'[k].serial = live[ChipAt(todo'[k].index)]
                                           /\ todo'[k].index # Head(todo).index
              /\ \A j, k \in 1..Len(todo') : todo'[j].index = todo'[k].index => j = k
    BY <1>1, <1>4, <2>1, NextAwaited
  <2>3. Looking' /\ Rewriting'
    BY <2>1 DEF Looking, Rewriting
  <2>4. \A c \in Plugged : Current(c)' <=> c = c0
    BY <1>2, <1>5, <2>1, <2>2, <2>3, IndexInjective DEF Current
  <2>5. want' \in 1..(2 * MaxPort) /\ want' \notin seen
    <3>1. /\ IsFiniteSet(seen) /\ Cardinality(seen) + Len(todo) + InFlight <= MaxPort
          /\ InFlight = 0
      BY <1>1 DEF Shape, Counted, InFlight
    <3>2. Cardinality(seen) \in Nat /\ Len(todo) \in Nat \ {0}
      BY <1>5, <2>1, <3>1, FS_CardinalityType, Headed
    <3>3. Cardinality(seen) < MaxPort
      BY <3>1, <3>2, EnumerationAssumption
    <3> QED BY <2>1, <3>1, <3>3, UniqueSerialIsNew
  <2>6. ToDo'
    BY <1>1, <1>2, <2>1, <2>2, <2>3, <2>5 DEF ToDo
  <2>7. NotYet'
    BY <1>1, <1>2, <1>4, <2>1, <2>2 DEF NotYet
  <2>8. \A c \in Plugged : Done(c)' <=> Done(c)
    BY <1>2, <1>4, <2>2, <2>4 DEF Done
  <2>9. Distinct'
    BY <1>1, <1>2, <1>4, <2>1, <2>8 DEF Distinct
  <2> QED BY <2>1, <2>6, <2>7, <2>9 DEF Deduping
<1>8. CASE AllSeen
  <2>1. /\ todo = <<>>
        /\ changed => step' = "reset"
        /\ ~changed => step' = "idle"
    BY <1>8 DEF AllSeen
  <2>2. \A c \in Plugged : ~Awaited(c)
    BY <2>1 DEF Awaited
  <2>3. \A c \in Plugged : Done(c)
    BY <1>4, <2>2 DEF Done
  <2>4. \A c, d \in Plugged : Reported(image[c]) = Reported(image[d]) => c = d
    BY <1>4, <2>3 DEF Distinct
  <2>5. ~changed => UniqueSerials
    BY <1>1, <1>4, <2>4 DEF NotYet, UniqueSerials
  <2>6. ~Looking' /\ step' \in {"reset", "idle"}
    BY <2>1 DEF Looking, Rewriting
  <2>7. /\ UniqueSerials' = UniqueSerials
        /\ step' = "idle" => ~changed
    BY <1>1, <1>2, <2>1 DEF UniqueSerials
  <2> QED BY <1>1, <1>2, <2>4, <2>5, <2>6, <2>7 DEF Deduping, ToDo, NotYet, Distinct
<1> QED BY <1>6, <1>7, <1>8

\* A dongle is given a serial that no other has.
LEMMA DedupingWrite ==
    ASSUME Shape, Deduping, ReadOriginal \/ WriteSerial \/ VerifySerial
    PROVE  Deduping'
<1> SUFFICES ASSUME Numbering' PROVE Deduping'
  BY DEF Deduping
<1>1. /\ Rewriting
      /\ UNCHANGED <<where, live, task, clean, fresh, todo, idx, want>>
  BY DEF ReadOriginal, WriteSerial, VerifySerial, Fixed, busVars, atStart, taskVars, Rewriting
<1>2. /\ Plugged' = Plugged /\ \A c : Index(c)' = Index(c)
      /\ \A k : HasIndex(k)' = HasIndex(k) /\ ChipAt(k)' = ChipAt(k)
  BY <1>1, SameBus
<1>3. Numbering
  BY <1>1, <1>2 DEF Numbering
<1>4. Looking /\ ToDo /\ NotYet /\ Distinct
  BY <1>1, <1>3 DEF Deduping, Looking
<1>5. WhereOK /\ image \in [Chips -> Image]
  BY TypesOfPlaces DEF Shape, TypeOK
<1>6. PICK c0 \in Plugged : c0 = ChipAt(idx) /\ Index(c0) = idx
  BY <1>1, <1>4, ChipWithIndex DEF ToDo
<1>7. \A c \in Plugged : Current(c) <=> c = c0
  BY <1>1, <1>5, <1>6, IndexInjective DEF Current
<1>8. \A c : Awaited(c)' = Awaited(c)
  BY <1>1, <1>2 DEF Awaited
<1>9. ~Awaited(c0)
  BY <1>1, <1>4, <1>6 DEF Awaited, ToDo
<1>10. CASE ReadOriginal \/ WriteSerial
  <2>1. Rewriting' /\ Looking' /\ step' \in {"write", "verify"} /\ seen' = seen /\ changed' = changed
    BY <1>10 DEF ReadOriginal, WriteSerial, Rewriting, Looking, taskVars
  <2>2. \A c \in Plugged : /\ Current(c)' = Current(c) /\ Done(c)' = Done(c)
    BY <1>1, <1>2, <1>8, <2>1 DEF Current, Done
  <2>3. \A c \in Plugged : c # c0 => image'[c] = image[c]
    BY <1>5, <1>6, <1>10 DEF ReadOriginal, WriteSerial, WriteEEPROM, Plugged
  <2>4. step' # "verify" => image' = image /\ step # "verify"
    BY <1>10 DEF ReadOriginal, WriteSerial
  <2>5. step # "verify"
    BY <1>10 DEF ReadOriginal, WriteSerial
  <2>6. ToDo'
    BY <1>1, <1>2, <1>4, <2>1 DEF ToDo
  <2>7. NotYet'
    BY <1>1, <1>2, <1>4, <1>7, <1>8, <2>1, <2>2, <2>3, <2>4, <2>5 DEF NotYet
  <2>8. \A c \in Plugged : Done(c) => image'[c] = image[c]
    BY <1>7, <2>3 DEF Done
  <2>9. Distinct'
    BY <1>2, <1>4, <2>1, <2>2, <2>8 DEF Distinct
  <2> QED BY <2>1, <2>6, <2>7, <2>9 DEF Deduping
<1>11. CASE VerifySerial
  <2>1. /\ step = "verify" /\ image[c0].serial = want /\ image' = image
        /\ seen' = seen \cup {want} /\ changed' = TRUE
    BY <1>6, <1>11 DEF VerifySerial, SerialRead
  <2>2. step' = "next"
    BY <1>3, <1>11 DEF VerifySerial, Numbering
  <2>3. Looking' /\ ~Rewriting' /\ \A c : ~Current(c)'
    BY <2>2 DEF Looking, Rewriting, Current
  <2>4. Reported(image[c0]) = want /\ want \notin seen
    BY <1>1, <1>4, <2>1, SomeSerials DEF ToDo, Reported
  <2>5. \A c \in Plugged : Done(c)' <=> Done(c) \/ c = c0
    BY <1>2, <1>7, <1>8, <1>9, <2>3 DEF Done
  <2>6. ToDo'
    BY <1>1, <1>2, <1>4, <2>3 DEF ToDo
  <2>7. NotYet'
    BY <1>1, <1>2, <1>4, <1>7, <1>8, <1>9, <2>1 DEF NotYet
  <2>8. Distinct'
    BY <1>2, <1>4, <2>1, <2>4, <2>5 DEF Distinct
  <2> QED BY <2>2, <2>6, <2>7, <2>8 DEF Deduping
<1> QED BY <1>10, <1>11

LEMMA DedupingReset ==
    ASSUME Deduping, ResetRtlDevices
    PROVE  Deduping'
<1> SUFFICES ASSUME Numbering' PROVE Deduping'
  BY DEF Deduping
<1>1. /\ step = "reset" /\ step' = "relist" /\ clean
      /\ UNCHANGED <<where, image, task, fresh>>
      /\ live' = [c \in Chips |-> IF c \in Plugged THEN Reported(image[c]) ELSE live[c]]
  BY DEF ResetRtlDevices, Numbering, atStart
<1>2. Plugged' = Plugged
  BY <1>1, SameBus
<1>3. \A c, d \in Plugged : Reported(image[c]) = Reported(image[d]) => c = d
  BY <1>1, <1>2 DEF Deduping, Numbering
<1>4. \A c \in Plugged : live'[c] = Reported(image[c])
  BY <1>1 DEF Plugged
<1>5. UniqueSerials'
  BY <1>2, <1>3, <1>4 DEF UniqueSerials
<1>6. ~Looking'
  BY <1>1 DEF Looking, Rewriting
<1> QED BY <1>1, <1>5, <1>6 DEF Deduping, ToDo, NotYet, Distinct

LEMMA DedupingStart ==
    ASSUME Service \/ Dedupe \/ SelfTest \/ SetSerial
    PROVE  Deduping'
<1> SUFFICES ASSUME Numbering' PROVE Deduping'
  BY DEF Deduping
<1>1. Dedupe
  BY DEF Service, SelfTest, SetSerial, Process, Numbering
<1>2. /\ step' = "print" /\ UNCHANGED <<where, live, image>>
      /\ fresh' = (\A c \in Plugged : live[c] = Reported(image[c]))
  BY <1>1 DEF Dedupe, Process, busVars
<1>3. \A c \in Plugged' : live'[c] = Reported(image'[c])
  BY <1>2, SameBus DEF Numbering
<1>4. ~Looking'
  BY <1>2 DEF Looking, Rewriting
<1> QED BY <1>2, <1>3, <1>4 DEF Deduping, ToDo, NotYet, Distinct

\* Steps between which it looks at no dongle.
LEMMA DedupingPass ==
    ASSUME Deduping, Printed \/ Relisted
    PROVE  Deduping'
<1> SUFFICES ASSUME Numbering' PROVE Deduping'
  BY DEF Deduping
<1>1. UNCHANGED <<where, live, image, task, clean, fresh>>
  BY DEF Printed, Relisted, Fixed, busVars, atStart
<1>2. Plugged' = Plugged
  BY <1>1, SameBus
<1>3. Numbering
  BY <1>1, <1>2 DEF Numbering
<1>4. \/ step = "print" /\ step' = "list"
      \/ step = "relist" /\ step' = "idle"
  BY DEF Printed, Relisted
<1>5. ~Looking'
  BY <1>4 DEF Looking, Rewriting
<1>6. UniqueSerials' = UniqueSerials
  BY <1>1, <1>2 DEF UniqueSerials
<1>7. step' = "list" => \A c \in Plugged' : live'[c] = Reported(image'[c])
  BY <1>1, <1>2, <1>3, <1>4 DEF Deduping
<1>8. step' = "idle" => UniqueSerials'
  BY <1>3, <1>4, <1>6 DEF Deduping
<1> QED BY <1>4, <1>5, <1>7, <1>8 DEF Deduping, ToDo, NotYet, Distinct

LEMMA DedupingStep ==
    ASSUME Shape, Keeping, Deduping, [Next]_vars
    PROVE  Deduping'
<1>1. CASE Environment
  <2>1. clean' => clean /\ UNCHANGED <<where, live>>
    BY <1>1 DEF Environment, DecoderOpens, DecoderCloses
  <2> QED BY <1>1, <2>1, DedupingSame DEF Environment, atStart
<1>2. CASE Enumerating
  <2>1. UNCHANGED <<where, live>>
    BY <1>2 DEF Enumerating, Enumerate, CountDevices, DonglePorts, DonglePortsFails, StringsRead,
                StringsUnreadable, NoDevices, ForgetAbsent, busVars
  <2> QED BY <1>2, <2>1, DedupingSame DEF Enumerating, atStart
<1>3. CASE WriteSerialFails \/ ReadFails \/ RestoreFails
  <2>1. ~clean'
    BY <1>3 DEF WriteSerialFails, ReadFails, RestoreFails, Failed
  <2> QED BY <2>1 DEF Deduping, Numbering
<1>4. CASE CheckTestSerial \/ Restore \/ CheckRestored
  <2> SUFFICES ASSUME Numbering' PROVE Deduping'
    BY DEF Deduping
  <2>1. UNCHANGED <<where, task, clean, fresh>>
    BY <1>4 DEF CheckTestSerial, Restore, CheckRestored, Fixed, busVars, atStart
  <2>2. Numbering
    BY <2>1, SameBus DEF Numbering
  <2>3. step \in {"restore", "check"}
    BY <1>4, <2>2 DEF CheckTestSerial, Restore, CheckRestored, Numbering
  <2> QED BY <2>2, <2>3 DEF Deduping
<1>5. CASE UNCHANGED vars
  BY <1>5, DedupingSame DEF vars, busVars, atStart
<1> QED BY <1>1, <1>2, <1>3, <1>4, <1>5, DedupingStart, DedupingPass, DedupingBegin, DedupingNext,
           DedupingReset, DedupingWrite DEF Next, Command

\* It has not ended before it is idle.
Undecided == task = "dedupe" /\ step # "idle" => verdict = "none"

LEMMA UndecidedStep == Undecided /\ [Next]_vars => Undecided'
<1> SUFFICES ASSUME Undecided, [Next]_vars PROVE Undecided'
  OBVIOUS
<1>1. CASE Environment \/ Enumerating \/ UNCHANGED vars
  BY <1>1 DEF Environment, Enumerating, vars, Undecided
<1>2. CASE Service \/ Dedupe \/ SelfTest \/ SetSerial
  <2>1. verdict' = "none"
    BY <1>2 DEF Service, Dedupe, SelfTest, SetSerial, Process
  <2> QED BY <2>1 DEF Undecided
<1>3. CASE \/ Printed \/ BeginDedupe \/ FirstOfItsSerial \/ Duplicate \/ ResetRtlDevices
           \/ ReadOriginal \/ WriteSerial \/ CheckTestSerial \/ Restore
  <2>1. step # "idle" /\ UNCHANGED <<task, verdict>>
    BY <1>3 DEF Printed, BeginDedupe, FirstOfItsSerial, Duplicate, ResetRtlDevices, ReadOriginal,
                WriteSerial, CheckTestSerial, Restore, Fixed
  <2> QED BY <2>1 DEF Undecided
<1>4. CASE Failed /\ step # "idle"
  BY <1>4 DEF Failed, Fixed, Undecided
<1>5. CASE AllSeen \/ VerifySerial
  BY <1>5 DEF AllSeen, VerifySerial, Fixed, Undecided
<1>6. CASE Relisted \/ CheckRestored
  BY <1>6 DEF Relisted, CheckRestored, Undecided
<1> QED BY <1>1, <1>2, <1>3, <1>4, <1>5, <1>6
        DEF Next, Command, WriteSerialFails, ReadFails, RestoreFails

\* "ensures every dongle has a UNIQUE usb serial" (agent/decoders.go:369), when every
\* dongle that it looks at reports what its EEPROM says.
THEOREM DedupeMakesUnique == Spec => []DedupedUnique
<1> DEFINE Inv == Shape /\ Keeping /\ Deduping /\ Undecided
<1>1. Init => Inv
  <2>1. Init => Undecided
    BY DEF Init, Undecided
  <2> QED BY <2>1, ShapeInit, KeepingInit, DedupingInit
<1>2. Inv /\ [Next]_vars => Inv'
  BY ShapeStep, KeepingStep, DedupingStep, UndecidedStep
<1>3. Inv => DedupedUnique
  <2> SUFFICES ASSUME Deduping, Undecided, Deduped, fresh PROVE UniqueSerials
    BY DEF DedupedUnique
  <2>1. CASE Plugged = {}
    BY <2>1 DEF UniqueSerials
  <2>2. CASE Plugged # {}
    <3>1. Numbering
      BY <2>2 DEF Numbering, Deduped
    <3>2. step = "idle"
      BY DEF Deduped, Undecided
    <3> QED BY <3>1, <3>2 DEF Deduping
  <2> QED BY <2>1, <2>2
<1> QED BY <1>1, <1>2, <1>3, PTL DEF Spec
=============================================================================
