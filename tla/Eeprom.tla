-------------------------------- MODULE Eeprom --------------------------------
(***************************************************************************)
(* The serials in the dongles' EEPROMs: readEEPROM, setEEPROMSerial,       *)
(* writeEEPROM, writeDongleSerial and eepromSelfTest                       *)
(* (agent/eeprom_windows.go), dedupeSerials (agent/decoders.go),           *)
(* resetRtlDevices (agent/usbreset_windows.go) and the commands that call  *)
(* them (agent/main.go).                                                   *)
(*                                                                         *)
(* One agent process runs at a time, the service or a command; each starts *)
(* with an empty cache of identities.  The decoders that open and close    *)
(* dongles may be those of a service next to the command.  A dongle is     *)
(* addressed by its index in every call, and found on the bus anew.        *)
(*                                                                         *)
(* An image is known by its have_serial flag, its serial and the bytes     *)
(* after that up to offset 128, in the order they are written.             *)
(***************************************************************************)
EXTENDS Enumeration

CONSTANTS
    Images,        \* what the EEPROMs may hold at first
    Protected,     \* dongles whose EEPROM ignores writes
    MaxProcesses   \* bound: processes that follow the first

Factory == 0               \* the serial a model ships with: "BLOGV4", "00000001"
Blank   == -1              \* an EEPROM without a valid image
Torn    == -2              \* a serial written in part
TestSerial(k) == -3 - k    \* the self-test's "ADSBIQ<index>"; "ADSBIQnnn" is n

ASSUME EepromAssumption ==
    /\ Protected \subseteq Chips
    /\ MaxProcesses \in Nat
    /\ Serials = {Torn} \cup {TestSerial(k) : k \in 0..(MaxPort - 1)} \cup 0..(2 * MaxPort)

Image == [flag : BOOLEAN, serial : Serials \cup {Blank}, tail : {"zero", "stale"}]

ASSUME ImagesAssumption == Images \subseteq [Chips -> Image]

NoImage == [flag |-> FALSE, serial |-> Blank, tail |-> "zero"]

Tasks == {"service", "dedupe", "selftest", "setserial"}

VARIABLES
    image,     \* EEPROM of a dongle
    task,      \* what the process was started for
    processes, \* processes before it
    step,      \* where a command is
    todo,      \* dedupeSerials: dongles it has still to look at
    seen,      \* dedupeSerials: serials in use
    changed,   \* dedupeSerials: it has written a serial
    idx,       \* index of the dongle it writes
    want,      \* serial it writes
    orig,      \* image it read first
    writeOK,   \* eepromSelfTest: the test serial was read back
    verdict,   \* how it ended
    before,    \* history: the EEPROMs when the process started
    fresh,     \* history: the dongles reported then what their EEPROMs say
    clean      \* history: since then no call has failed and the bus has held still

taskVars == <<todo, seen, changed, idx, want, orig, writeOK>>
atStart  == <<before, fresh>>
vars == <<busVars, enumVars, calm, kept, image, task, processes, step, taskVars,
          verdict, atStart, clean>>

TypeOK ==
    /\ EnumTypeOK
    /\ image \in [Chips -> Image]
    /\ task \in Tasks
    /\ processes \in 0..MaxProcesses
    /\ step \in {"idle", "print", "list", "next", "read", "write", "verify", "restore",
                 "check", "reset", "relist"}
    /\ todo \in Seq(Listed) /\ Len(todo) <= MaxPort
    /\ seen \subseteq Serials
    /\ changed \in BOOLEAN
    /\ idx \in 0..(MaxPort - 1)
    /\ want \in Serials
    /\ orig \in Image
    /\ writeOK \in BOOLEAN
    /\ verdict \in {"none", "pass", "fail", "ended"}
    /\ before \in [Chips -> Image]
    /\ fresh \in BOOLEAN
    /\ clean \in BOOLEAN

\* The serial a dongle reports when it comes up.
Reported(img) == IF img.serial = Blank THEN Factory ELSE img.serial

Init ==
    /\ image \in Images
    /\ live = [c \in Chips |-> Reported(image[c])]
    /\ EnumInit
    /\ task = "service"
    /\ processes = 0
    /\ step = "idle"
    /\ todo = <<>>
    /\ seen = {}
    /\ changed = FALSE
    /\ idx = 0
    /\ want = Factory
    /\ orig = NoImage
    /\ writeOK = FALSE
    /\ verdict = "none"
    /\ before = image
    /\ fresh = TRUE
    /\ clean = TRUE

-----------------------------------------------------------------------------
(* Users and decoders                                                      *)

Environment ==
    /\ \E c \in Chips :
         \/ /\ Unplug(c) \/ \E p \in Ports : Plug(c, p, Reported(image[c]))
            /\ clean' = FALSE
         \/ /\ DecoderOpens(c) \/ DecoderCloses(c)
            /\ UNCHANGED clean
    /\ UNCHANGED <<image, task, processes, step, taskVars, verdict, atStart>>

\* A process ends, and another is started.
Process(t) ==
    /\ step = "idle"
    /\ pc \in {"idle", "returned"}
    /\ processes < MaxProcesses
    /\ processes' = processes + 1
    /\ task' = t
    /\ pc' = "idle" /\ out' = <<>> /\ cache' = EmptyCache /\ kept' = {}
    /\ todo' = <<>> /\ seen' = {} /\ changed' = FALSE
    /\ orig' = NoImage /\ writeOK' = FALSE
    /\ verdict' = "none"
    /\ before' = image
    /\ fresh' = (\A c \in Plugged : live[c] = Reported(image[c]))
    /\ clean' = TRUE
    /\ UNCHANGED <<busVars, n, ports, i, calm, image>>

Service ==
    /\ Process("service")
    /\ UNCHANGED <<step, idx, want>>

\* --dedupe
Dedupe ==
    /\ Process("dedupe")
    /\ step' = "print"
    /\ UNCHANGED <<idx, want>>

\* --eeprom-selftest, --set-serial
SelfTest ==
    /\ Process("selftest")
    /\ idx' \in 0..(MaxPort - 1)
    /\ want' = TestSerial(idx')
    /\ step' = "read"

SetSerial ==
    /\ Process("setserial")
    /\ idx' \in 0..(MaxPort - 1)
    /\ want' \in {Factory, 1}
    /\ step' = "read"

-----------------------------------------------------------------------------
(* Enumerations                                                            *)

\* The service enumerates for ever; --dedupe does to print what there is, to learn
\* what to do, and after the reset.
Enumerating ==
    /\ \/ task = "service"
       \/ step \in {"print", "list", "relist"} /\ pc # "returned"
    /\ Enumerate
    /\ UNCHANGED <<image, task, processes, step, taskVars, verdict, atStart, clean>>

Printed ==
    /\ step = "print" /\ pc = "returned"
    /\ step' = "list"
    /\ pc' = "idle"
    /\ UNCHANGED <<busVars, n, ports, out, i, cache, calm, kept, image, task, processes, taskVars,
                   verdict, atStart, clean>>

\* dedupeSerials is called with what is listed now.
BeginDedupe ==
    /\ step = "list" /\ pc = "returned"
    /\ step' = "next"
    /\ todo' = out
    /\ out' = <<>>
    /\ clean' = (clean /\ kept = Plugged)
    /\ UNCHANGED <<busVars, pc, n, ports, i, cache, calm, kept, image, task, processes, seen,
                   changed, idx, want, orig, writeOK, verdict, atStart>>

-----------------------------------------------------------------------------
(* Calls on a dongle                                                       *)

\* The device opens and the call goes through.
Opens(k) == HasIndex(k) /\ ChipAt(k) \notin busy

SetEEPROMSerial(img, s) == [img EXCEPT !.flag = TRUE, !.serial = s, !.tail = "zero"]

\* What a write that fails half-way leaves of img.
CutOff(old, img) ==
    {old,
     [old EXCEPT !.flag = img.flag],
     [old EXCEPT !.flag = img.flag, !.serial = Torn],
     [old EXCEPT !.flag = img.flag, !.serial = img.serial]}

WriteEEPROM(img) ==
    /\ Opens(idx)
    /\ LET c == ChipAt(idx)
       IN  image' = IF c \in Protected THEN image ELSE [image EXCEPT ![c] = img]

WriteFails(img) ==
    \/ UNCHANGED image
    \/ /\ Opens(idx) /\ ChipAt(idx) \notin Protected
       /\ \E left \in CutOff(image[ChipAt(idx)], img) :
              image' = [image EXCEPT ![ChipAt(idx)] = left]

Fixed == UNCHANGED <<busVars, enumVars, calm, kept, task, processes, atStart>>

\* dedupeSerials goes on with the next dongle; the other commands report an error.
Failed ==
    /\ clean' = FALSE
    /\ IF task = "dedupe" THEN step' = "next" /\ UNCHANGED verdict
                          ELSE step' = "idle" /\ verdict' = "fail"
    /\ UNCHANGED taskVars
    /\ Fixed

-----------------------------------------------------------------------------
(* dedupeSerials                                                           *)

UniqueSerialByCount(taken) == Cardinality(taken)

\* uniqueSerial
UniqueSerial(taken) ==
    CHOOSE s \in 1..(2 * MaxPort) : s \notin taken /\ \A r \in 1..(s - 1) : r \in taken

FirstOfItsSerial ==
    /\ step = "next" /\ todo # <<>>
    /\ Head(todo).serial \notin seen
    /\ seen' = seen \cup {Head(todo).serial}
    /\ todo' = Tail(todo)
    /\ UNCHANGED <<image, step, changed, idx, want, orig, writeOK, verdict, clean>>
    /\ Fixed

Duplicate ==
    /\ step = "next" /\ todo # <<>>
    /\ Head(todo).serial \in seen
    /\ idx' = Head(todo).index
    /\ want' = UniqueSerial(seen)
    /\ todo' = Tail(todo)
    /\ step' = "read"
    /\ UNCHANGED <<image, seen, changed, orig, writeOK, verdict, clean>>
    /\ Fixed

AllSeen ==
    /\ step = "next" /\ todo = <<>>
    /\ IF changed THEN step' = "reset" /\ UNCHANGED verdict
                  ELSE step' = "idle" /\ verdict' = "ended"
    /\ UNCHANGED <<image, taskVars, clean>>
    /\ Fixed

\* resetRtlDevices: some or all devices are cycled and report what their EEPROM says.
ResetRtlDevices ==
    /\ step = "reset"
    /\ \E some \in SUBSET Plugged :
         /\ live' = [c \in Chips |-> IF c \in some THEN Reported(image[c]) ELSE live[c]]
         /\ busy' = busy \ some
         /\ clean' = (clean /\ some = Plugged)
    /\ Disturbed
    /\ step' = "relist"
    /\ pc' = "idle"
    /\ UNCHANGED <<where, n, ports, out, i, cache, image, task, processes, taskVars,
                   verdict, atStart>>

Relisted ==
    /\ step = "relist" /\ pc = "returned"
    /\ step' = "idle"
    /\ verdict' = "ended"
    /\ UNCHANGED <<image, taskVars, clean>>
    /\ Fixed

-----------------------------------------------------------------------------
(* writeDongleSerial and eepromSelfTest                                    *)

ReadOriginal ==
    /\ step = "read"
    /\ Opens(idx)
    /\ image[ChipAt(idx)].serial # Blank
    /\ orig' = image[ChipAt(idx)]
    /\ step' = "write"
    /\ UNCHANGED <<image, todo, seen, changed, idx, want, writeOK, verdict, clean>>
    /\ Fixed

WriteSerial ==
    /\ step = "write"
    /\ WriteEEPROM(SetEEPROMSerial(orig, want))
    /\ step' = "verify"
    /\ UNCHANGED <<taskVars, verdict, clean>>
    /\ Fixed

WriteSerialFails ==
    /\ step = "write"
    /\ WriteFails(SetEEPROMSerial(orig, want))
    /\ Failed

\* The device does not open, the call fails, or what is read is no image.
ReadFails ==
    /\ step \in {"read", "verify", "check"}
    /\ UNCHANGED image
    /\ Failed

SerialRead == image[ChipAt(idx)].serial

\* writeDongleSerial: the serial is there, or it is an error.
VerifySerial ==
    /\ step = "verify" /\ task # "selftest"
    /\ Opens(idx)
    /\ SerialRead = want
    /\ seen' = seen \cup {want}
    /\ changed' = TRUE
    /\ IF task = "dedupe" THEN step' = "next" /\ UNCHANGED verdict
                          ELSE step' = "idle" /\ verdict' = "pass"
    /\ UNCHANGED <<image, todo, idx, want, orig, writeOK, clean>>
    /\ Fixed

\* eepromSelfTest: the result is kept for the end.
CheckTestSerial ==
    /\ step = "verify" /\ task = "selftest"
    /\ Opens(idx)
    /\ writeOK' = (SerialRead = want)
    /\ step' = "restore"
    /\ UNCHANGED <<image, todo, seen, changed, idx, want, orig, verdict, clean>>
    /\ Fixed

RestoredBySerial == SetEEPROMSerial(orig, orig.serial)

\* What is written back.
Restored == orig

Restore ==
    /\ step = "restore"
    /\ WriteEEPROM(Restored)
    /\ step' = "check"
    /\ UNCHANGED <<taskVars, verdict, clean>>
    /\ Fixed

RestoreFails ==
    /\ step = "restore"
    /\ WriteFails(Restored)
    /\ Failed

CheckRestored ==
    /\ step = "check"
    /\ Opens(idx)
    /\ verdict' = IF writeOK /\ SerialRead = orig.serial THEN "pass" ELSE "fail"
    /\ step' = "idle"
    /\ UNCHANGED <<image, taskVars, clean>>
    /\ Fixed

-----------------------------------------------------------------------------

Command ==
    \/ Service \/ Dedupe \/ SelfTest \/ SetSerial
    \/ Printed \/ BeginDedupe \/ FirstOfItsSerial \/ Duplicate \/ AllSeen
    \/ ResetRtlDevices \/ Relisted
    \/ ReadOriginal \/ WriteSerial \/ WriteSerialFails \/ ReadFails \/ VerifySerial
    \/ CheckTestSerial \/ Restore \/ RestoreFails \/ CheckRestored

Next == Environment \/ Enumerating \/ Command

Spec == Init /\ [][Next]_vars

-----------------------------------------------------------------------------
(* Properties                                                              *)

Deduped == task = "dedupe" /\ verdict = "ended" /\ clean
UniqueSerials == \A c, d \in Plugged : live[c] = live[d] => c = d

\* "ensures every dongle has a UNIQUE usb serial" (agent/decoders.go:369): after a
\* dedupe that could list every dongle and whose calls went through, no two dongles
\* report the same serial, whatever they reported before.  That is when no EEPROM
\* held a serial its dongle did not report yet: such a one is given again.
DedupedUnique == Deduped /\ fresh => UniqueSerials

\* "Leaves the dongle exactly as found" (agent/eeprom_windows.go:208): the self-test
\* reports success only if every byte of every dongle is what it was, and not just
\* the serial it looks at.
PassMeansRestored ==
    task = "selftest" /\ verdict = "pass" /\ clean => image = before
=============================================================================
