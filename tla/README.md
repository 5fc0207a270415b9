# A TLA+ verification of the Flightpatch feed agent

This directory holds TLA+ models of the feed agent in `src/agent`, TLC
configurations that check them on small instances, and TLAPS proofs for every
value of the constants. Line numbers refer to the files under `src/`.

## 1. The system

A service (WinSW on Windows) runs one process, the feed agent. It finds RTL-SDR
dongles, runs one decoder per dongle, relays what the decoders produce to the
network, and talks to a control plane by polling it.

| Part | Source | State | Operations | Talks to |
|---|---|---|---|---|
| Decoder manager | `agent/decoders.go` `DecoderManager`, `run` | enabled flag, running decoders, running relays, published inventory and status | reconcile every 10 s, stop all, set enabled | enumeration, configuration, relays, `Stats` |
| Role resolution | `assignRoles`, `probeRole` | roles in `cfg` | configured, default, single decoder, listen | decoders, configuration |
| Decoder process | `superviseDecoder`, `agent/uat.go` | one process, or a pipeline of three | start, assign to the job, restart, stop | the dongle, local ports |
| Relays | `agent/forward.go`, `agent/vdl2_forward.go`, `runUAT` | two connections, position in the loop | dial, announce, copy, drop, retry | decoders, feed, `Stats` |
| Live counters | `agent/stats.go` | bytes, connected flag, link bits, wake-up token | `setLink`, `addBytes`, `snapshot`, `notify` | relays, manager, phoneHome |
| Control loop | `agent/main.go` `phoneHome` | acknowledged command ids | beat, apply configuration, handle command | control plane, manager, self-update |
| Configuration | `agent/config.go` | `agent.json`, its temporary file, `cfg` | load, save, ensure identity, role for, set role | everyone |
| Startup | `agent/main.go` `main` | - | load, identify, register, run; wait-ready | control plane, `agent.json` |
| Self-update | `agent/update.go` | executable, `.new`, `.old` | check, download, swap, roll back | GitHub, service |
| Enumeration | `agent/dongles_windows.go`, `agent/portenum_windows.go` | cache of identities by USB port | enumerate | librtlsdr, libusb |
| EEPROM tools | `agent/eeprom_windows.go`, `dedupeSerials` | dongle serials | write, verify, restore, de-duplicate | dongles |
| Inventory file | `agent/receiver_inventory.go` | `receivers.json` | write | local tools |
| Children | `agent/child_windows.go` | job object | configure, assign | Windows |
| Installer | `installer/flightpatch.iss` | service, files, driver | stop, replace, bind, install, start, verify | the service, the agent's `-wait-ready` |

**Interaction.** The manager goroutine and phoneHome run side by side. phoneHome
writes the enabled flag and `cfg`; the manager reads both at different moments of
a reconcile that may listen on an antenna for more than a minute, and writes
roles into `cfg` too. Both save `cfg` to one file through one temporary file.
Every relay is a goroutine of its own that the manager starts and cancels; relays
meet only in `Stats`, with atomic operations, and wake phoneHome through a channel
of capacity one. The control plane is reached by requests that may be lost
before or after the server acts. The service restarts the process after an exit.

**What is hard.** The manager works on a snapshot while bus, configuration and
flag change; relays outlive the reconcile that started them and keep what they
captured; atomic operations of several relays interleave; a command must be
acknowledged before the exit it causes and yet survive a lost answer; files are
replaced in steps between which the process may die, by the agent and by Setup; a
recycled decoder overlaps with its successor on one dongle; dongles are found by
an index that any plug shifts. `hazards` in
`PROJECT.json` lists 40 such places by line, with the properties that cover
them or the reason none does.

**What makes each part correct.**

* Decoder manager: the decoders, relays, local ports and inventory agree with
  each other after any history, also one in which dongles were left out or listed
  under their serial; a role the user confirmed for a key wins, a pause ends with
  nothing running, and reconciles catch up with a bus that is listed as it is.
* Live counters: no update is lost, the first byte is reported without waiting
  for the timer, one link's end does not hide another.
* Relays: one that dials or has ended is not reported; cancelled relays end;
  relays come back when their peers do.
* Control loop: a command is struck off only after it was begun, ends the process at most
  once, and is struck off in the end; the server's settings arrive.
* Configuration: the file is atomic, the device stays the same device, and a start
  that keeps failing succeeds once the failures end.
* Self-update and Setup: only complete binaries are installed, only Setup installs an
  older one, and a setup that was cancelled leaves the feeder running.
* Decoder processes: none outlives the agent, and whatever was recycled or crashed,
  the scheduled decoder has the dongle in the end.
* Enumeration and EEPROMs: a dongle in use stays listed, de-duplication makes serials
  unique, a self-test that passed changed nothing.

## 2. Modules

| Component | Modules | Abstract specification it is shown to implement |
|---|---|---|
| Decoder manager | `DecoderManager` | |
| Live counters, relays | `LinkStats`; `Relays` EXTENDS it | |
| Control loop | `PhoneHome` | `CommandQueue` |
| Configuration, startup, wait-ready | `DeviceConfig` | `AtomicFile` |
| Self-update; Setup next to it | `SelfUpdate`; `Installer` EXTENDS it | |
| Decoder processes, job object | `Supervise` | |
| Enumeration; EEPROM tools on top | `Enumeration`; `Eeprom` EXTENDS it | |

`Relays`, `Installer` and `Eeprom` compose: they add goroutines, a service with its
setup program, or commands to the module they extend, whose actions they use
unchanged. `MC*` modules give values to constants; `*Proofs` modules hold the
theorems.

A definition named after another one with a suffix (`StopAllKeepsRelays` before
`StopAll`) is a faulty variant of it. No specification uses it: each property was
tried against the variant that `PROJECT.json` pairs with it under `mutants`, and
is violated by it.

### DecoderManager (`agent/decoders.go`, parts of `agent/main.go`, `agent/config.go`)

| Model | Code |
|---|---|
| `bus`, `Plug`, `Unplug` | what librtlsdr would list; a plug or unplug shifts the indexes of the dongles behind it. External |
| `wanted`, `EditConfig` | the configuration in every telemetry response; an edit changes the feed, the role of a key, or both. External |
| `SetEnabled` | `setEnabled`, called for every answer (main.go 286) and for an enable or disable command |
| `StoreConfig`, `StartBounce`, `FinishBounce` | `applyConfig`: the change and its save, `setEnabled(false)` before the sleep, `setEnabled(true)` after it |
| `ReconcileDisabled`, `Enumerate` | the two starts of a reconcile |
| `Listing`, `KeyIn` | what `enumerateDongles` may return and under which key; see below |
| `AssignRole`, `StartProbe`, `FinishProbe` | `assignRoles` one dongle at a time; a probe is two steps, and one that the context ends returns a role all the same |
| `Apply` | the rest of the reconcile, decoders.go 219-312, in one step: nothing in it waits for another goroutine. It reads `cfg.Feed` at the end of the window, where the relay goroutines read it |
| `RetryVDL2Relay` | the loop of decoders.go 290-294 reads `cfg.VDL2Feed` again |
| `Stop` | the signal: every decoder and relay ends with it, as their contexts derive from the one that is cancelled (decoders.go 249, 278) |
| `Exit` | phoneHome returns and main after it (main.go 232-233), wherever the manager is |
| `Shutdown` | the manager's `ctx.Done()` branch, if the process lives until it is taken |

**Keys.** A dongle is tracked under `Dongle.key()`: its USB port, or its serial if
`donglePorts` gave none (decoders.go 57-62). `Enumerate` lists the whole bus, or, if
`EnumFails`, any part of it (a dongle that is busy and not in the cache is left out)
with the ports of any part of it (libusb failed or passed over a device: the
dongles at the end of the list have no port, and one may have that of a neighbour).
These are the steps module `Enumeration` has. So two dongles of one serial may share a key,
and a role stored for a port is not found for a dongle that is listed without
one. Where they share a key, `DecodersAfter` and `RelaysAfter` follow the loop: the
second dongle recycles the decoder the first got, while the relay of the first stays.
`Shared` and `SetAside` name the exceptions this leaves in the invariants.

A local port is the slot it is computed from (30005 + 100 * slot, 5553 + slot).
ADS-B and VDL2 feeds are one value. An empty enumeration is a step without effect, so
it is not an action. The server is taken to send known roles. The wake-up that
`setActive` sends is the `Notify` of `LinkStats`.

### LinkStats (`agent/stats.go`)

One action per atomic operation of `setLink`, `addBytes`, `notify` and
`snapshot`; `links` is the set of bits that are on, `fed` is `bytesFed > 0`. Each
caller has its own program counter, so all interleavings are there. `beat` is
phoneHome's place between receiving a token and having sampled both values.

### Relays (`agent/forward.go`, `agent/vdl2_forward.go`, `agent/uat.go`)

One loop, with the differences between the three protocols in its guards:

| Action | ADS-B | UAT | VDL2 |
|---|---|---|---|
| `OpenLocal` | forward.go 97 | uat.go 55-105 | vdl2_forward.go 19-31 |
| `OpenFails` | - (it dials until it is cancelled) | uat.go 60, 73-84, 100 | vdl2_forward.go 21, 29 |
| `DialFeed` | forward.go 101 | uat.go 106 | - |
| `Announce` | forward.go 106-108, before the frame | uat.go 115, after it | with each datagram |
| `WriteFrame`, `FrameFails` | forward.go 109-116 | uat.go 111-114 | - |
| `CopyTraffic`, `CountDatagram` | forward.go 119 | uat.go 122-131 | vdl2_forward.go 50-70 |
| `Drop` | forward.go 120-125 | uat.go 116, 128-135 | vdl2_forward.go 53-67 |
| `Leave`, `Retry` | forward.go 94, 127-134 | uat.go 43-50 | decoders.go 290-294 |

Peers go up and down and the manager cancels at any moment. A relay finds out
about a broken connection when it next uses it.

### PhoneHome (`agent/main.go`, `agent/device.go`)

A beat is a request, its answer, the application of the answer, and one step per
command. The answer is taken, lost, or never sent; a request the agent has given
up on may still reach the server (`late`). `disk` is `agent.json`, whose save may
fail. `ran`, `handled`, `exits` and `owed` are history variables that no guard of
the agent's normal course depends on (`Exit` reads `owed` to name the command that
makes the process end). The server keeps a command until a request acknowledges
it and offers what it keeps: external, and what the comment at main.go 291-292
relies on.

`Overrule` is the one thing the decoder manager does to phoneHome's state: `assignRoles`
stores the role it resolved (decoders.go 361-363), and for a port with a role the user
confirmed that undoes what the server sent. `Local` says which settings it makes of
which. It may happen at any moment, so a setting of the server that is overruled counts
as changed again at the next beat, which bounces the decoders and ends with feeding
enabled.

`CommandQueue` is what agent and server keep to together: a command is begun only if
it was queued, struck off only if it was begun, and the process ends for it at most
once and after it was struck off. `Queue` maps `issued` to the commands queued, `handled`
to those begun, `done` to those struck off, and the commands of `exits` to those a process
ended for; every other step of the protocol, lost requests and late ones included, is a
stutter. It is no promise that a command is carried out: a restart whose acknowledgement
was served and not answered is struck off and does not take place (section 6).

### SelfUpdate (`agent/update.go`) and Installer (`installer/flightpatch.iss`)

Files hold a version, nothing, or a partial download. Renames follow Windows: the
image of a running process can be renamed and not deleted, so `RemoveOld` and
`MoveAside` depend on where the image is. `Die` may happen at any moment, being
the exit after a command, a crash or a power cut.

| Model | Code |
|---|---|
| `PrepareToInstall` | iss 193-205: `IsUpgrade`, and a stop whose result is not looked at: it may fail, with an agent running or between two restarts, and leave all as it is |
| `InstallFiles`, `CancelSetup` | [Files]; a running image keeps its file from being replaced, and then Setup can only be cancelled |
| `BindDriver`, `InstallService`, `StartService` | the three steps of [Run] with their checks |
| `VerifyFeeding` | iss 87-106: it waits for `-wait-ready` and goes on with either result |
| `DeinitializeSetup` | iss 214-227 |
| `Launch`, `AgentDies`, `PowerLoss`, `PlugOrUnplug` | the service, the agent's end, the machine and the user. External, from the service definition of iss 171-183 |

Setup may start at any step of the agent's own update. `placed` is a history
variable: the executable is what Setup put there, and has not been started yet.

### DeviceConfig (`agent/config.go`, `agent/main.go`)

File names and files are separate, as for the operating system: a writer keeps
its file while the name moves. `Save` is open-and-truncate, write, rename, each a
step that may fail or be the last one before a crash. `OpenBlocksRename` is TRUE
for Windows: `-wait-ready` (main.go 79-97) opens `agent.json` again and again
(`OpenConfig`, `CloseConfig`), and a rename meanwhile is refused, which is fatal to a
starting agent and ignored by a running one. `ReadMayFail` models a read error that
LoadConfig takes for a missing file; the runs have it FALSE, because `OneDevice`
does not survive it (section 6).

`AtomicFile` has a content and a set of values on offer; a commit replaces the content
by one of them. `Saved` maps the file named `agent.json` to the content and what
the goroutines inside `Save` have marshalled to the offers.

### Supervise (`superviseDecoder`, `agent/uat.go`, `agent/child_windows.go`)

| Model | Code |
|---|---|
| `Schedule`, `Cancel`, `Recycle` | what any reconcile does to the decoder of one dongle (decoders.go 240-261) |
| `Start`, `StartFails` | decoders.go 523-546, uat.go 98-104; a start under a cancelled context fails |
| `AssignChildToJob` | child_windows.go 93-109, a step of its own after the start |
| `Dial` | uat.go 106; it does not look at the pipeline |
| `RunEnds`, `Cleanup`, `CleanedUp`, `Retry` | `cmd.Wait`, the deferred `cleanup` (kill all, then wait for all), the backoff |
| `KillCancelled` | `exec.CommandContext` |
| `AgentDies`, `AgentStarts` | the job handle closes and Windows ends what is in the job; the service restarts the agent |
| `Exit`, `Crash`, `Claim` | processes: one told to die, or whose input ended, does so in its own time; the dongle is claimed by one, and a decoder that does not get it exits. External |

A supervisor is numbered over all the lives of the agent; `Role` gives their roles
and bounds them. `RaceInWindow` lets the agent die between a start and its
assignment, which child_windows.go 94 declares acceptable; the run has it FALSE.

### Enumeration (`agent/dongles_windows.go`, `agent/portenum_windows.go`) and Eeprom

`CountDevices`, `DonglePorts` and the read of each device's strings are steps of their
own, because each lists the bus anew: dongles may come and go, and decoders open
and close them, between any two. `DonglePortsFails` is libusb that lists nothing, or passes
over one of the dongles in `Skipped`: its descriptor cannot be read, or it is of a model
librtlsdr knows and `donglePorts` does not (portenum_windows.go 51-58). `calm` and `kept` are history variables: nothing was
plugged and libusb did not fail since the count, and which dongles were listed
right since the last such disturbance.

`Eeprom` adds the processes that read and write serials: the service, `-dedupe`,
`-eeprom-selftest` and `-set-serial`, one at a time, each with an empty cache. An image
is its have_serial flag, its serial and the bytes behind; `SetEEPROMSerial`
sets the flag and zeroes the rest, and a write that fails may leave any prefix
(`CutOff`). Every call finds its dongle by index and may find it busy, absent or
another one. `Protected` dongles ignore writes. What a dongle reports to the bus
(`live`) only follows its EEPROM when it is plugged in or reset. `clean`, `before` and
`fresh` are history variables: no call has failed and nothing was plugged since the
process started, what the EEPROMs held then, and whether every dongle reported then
what its EEPROM said.

## 3. Runs

All runs disable the deadlock check: the system may legitimately stop (a manager
that has shut down, relays that have ended, bounds that are used up).

| Run | Instance | Distinct states | Shows |
|---|---|---|---|
| `dm` | 2 ports, dongles of one serial, 1 user-confirmed role, server may force VDL2, no usable default: the second port is probed; partial enumerations | 395,650 | all safety and liveness properties of the manager |
| `rl_safety` | a UAT and a VDL2 relay, every interleaving, with phoneHome's sampling | 1,635,784 | counters; relays reported when and only when they copy |
| `rl_live` | an ADS-B and a VDL2 relay, without the sampling | 182,000 | cancellation ends relays, relays reconnect |
| `ph` | a restart and an update command, 2 settings, one of which the manager overrules, and the unset one; 1 crash | 473,538 | the command protocol as a queue, and following the server |
| `setup` | 3 versions, 2 setups | 185,022 | Setup, self-update and service together |
| `dc` | 1 saving goroutine, wait-ready, 3 ids, 2 edits, 2 crashes, 2 faults | 53,190 | the file is atomic, one device, a running agent is registered and durable, a start succeeds in the end |
| `sv` | single decoder, UAT pipeline, single decoder on one dongle; 2 faults | 473,233 | no orphans; the scheduled decoder wins the dongle |
| `ee` | 3 dongles and ports, one movable, write-protected and sometimes passed over by libusb, two opened by decoders; 1 process after the first | 2,672,480 | enumeration and EEPROM tools |
| `dm_shift` | 2 ports | | violated: section 6 |
| `rl_hidden` | 2 ADS-B relays | | violated |
| `dc_savers` | 2 saving goroutines, no crash | | violated |
| `setup_driver` | 1 version, 2 setups | | violated |

**Why the bounds are enough to be interesting.** Two ports are the least at
which indexes shift, slots collide and the order of enumeration matters. Two
relays are the least at which an exchange fails and an edge is decided by the
other's bit; relays of different kinds cover each branch of the loop. Two commands
make one wait behind the failed acknowledgement of the other. Three releases let
one be withdrawn between download and relaunch; two setups let the second find what
the first one left, also when that was cut off. Two crashes let a start be cut off
twice, the second time with the files the first one left. A pipeline between two
single decoders is recycled in both directions, and two faults let a process crash
and its restart fail. Three dongles are the least at which a new serial must avoid
both a duplicate and a serial written by an earlier run, with a neighbour that shifts
their indexes. Bounds (`MaxCrashes`, `MaxEdits`, `MaxFaults`, `MaxVersion`, `MaxSetups`,
`MaxProcesses`, the length of `Role`) are CONSTANTS; nothing else is bounded. `ee` uses
symmetry on two dongles that are given the same choices, which is sound for its
invariants; runs with temporal properties use none.

`rl_live` uses `NoBeatSpec`, which leaves out the steps in which phoneHome only
reads: relays do not depend on them, and the graph stays small enough for the
liveness check.

## 4. Fairness

* `DecoderManager`: weak fairness of `Reconcile` while the context is not cancelled (the
  10 s ticker, and probes bounded by timers). After `Stop` nothing is assumed, as the
  process may end at any step of the manager. Bus, server and phoneHome have no
  fairness: `Converges` and `PauseStops` state what they assume of them.
* `Relays`: weak fairness of each relay and of the steps inside `setLink`. Strong
  fairness of a compare-and-swap that would succeed: `setLink` is lock-free, not
  wait-free, and an assumption is needed that the other relays do not win every
  race; they touch `links` seconds apart and the window is nanoseconds.
  Peers have no fairness; `Reconnects` assumes that they stay up in the end.
* `PhoneHome`: weak fairness of the agent's own steps, of the outcome of the
  acknowledging request and of the relaunch (WinSW's `onfailure`,
  flightpatch.iss 178). Strong fairness of `Serve` and `TakeReply`: a beat may fail
  any number of times, but of those repeated for ever some are answered. Nothing is
  assumed of late requests, crashes and `AckFails`.
* `DeviceConfig`: weak fairness of main's steps, of the service's relaunch and of the
  close after an open; strong fairness of `StopWaiting`, which the deadline of
  `-wait-ready` brings about however often the file is opened before it. Saves of
  running goroutines, crashes and faults have no fairness.
* `Supervise`: weak fairness of each supervisor's goroutine (the feed answers some time),
  and of each process that must end or claim. Manager, crashes and the agent's death
  have none; faults are bounded, as an endless series of crashes is no decoder's
  fault to mend.
* `Installer`: weak fairness of the service's launch and of Setup, whose user ends up
  installing or cancelling. Agent, power and starts of Setup have none.

## 5. Proofs

`tlapm` proves every obligation of eight modules. The assumptions are the named
ASSUMEs on constants in the component modules: types, finiteness of `Ports` and
`Chips`, and as many USB ports as dongles. Where a theorem assumes more it is said below.

* **RelaysProofs** - First about `LinkStats` alone, for any callers: `LinkTypeCorrect`;
  `NoLostUpdate`: between load and exchange the loaded word is only trusted if it is
  still there, so a bit of one's own can only have been changed by oneself; the
  strengthening says what each caller's program counter means for its bit.
  `FirstByteNotLost`: from the addition that finds zero until a snapshot, someone is
  about to notify, a token is there, or a beat has yet to read the counter.
  A relay calls `LinkStats` or leaves the counters alone by the way `Relays` is written
  (lemma `RelaysCallLinkStats`), so these theorems hold of the relays as they stand:
  `RelaysLoseNoUpdate`. `RelaysTypeCorrect`. `Reports` says what a relay of each kind has
  last asked for at each place of its loop, which is about one relay and inductive
  step by step; `RelaysLoseNoUpdate` turns what it asked for into what the mask says:
  `DialingIsDown`, `CopyingIsUp`. `DistinctBitsNotHidden`: if no two relays share a bit,
  no relay that copies is hidden, so the shared bit is all there is to run `rl_hidden`.
* **DecoderManagerProofs** - `TypeCorrect`, then `InvHolds`. The invariants of
  interest are not inductive alone. Distinct slots follow from counting
  (lemma `SlotsDiffer`): two dongles of one role and one snapshot have different
  indexes, so the set of earlier ones of one is strictly within that of the other.
  That needs indexes to be distinct in the snapshot, hence on the bus, through
  every shift (`PlugIndexes`, `UnplugIndexes`). The user's role needs
  `LocalRoleKept`: roles resolved earlier in this reconcile respect it, and a key
  under probe has none. None of it depends on which key a listing gives a dongle: where two
  have the same, `RunsScheduled` says that the decoder is that of the last of them
  (`GreatestIn`, `LastIsIn`), which is still a dongle of the snapshot with a slot and an
  inventory entry of its own. `ApplyRuns` then shows each conjunct from one reconcile, and
  the five theorems after `InvHolds` state them separately.
* **PhoneHomeProofs** - `InvHolds`: what a process has run is acknowledged or about
  to be, what it exited for the server has struck off, so neither is ever among
  the commands it is about to run (`Offered`). `late` appears in it because a request
  that was given up on can strike off commands at any time. `RefinesQueue`: with that
  invariant each step of agent or server is one of `CommandQueue`, or a stutter. It is
  needed on both sides: what a request strikes off must have been begun, also when it
  arrives late, and what a process ends for must have been struck off and never been
  ended for before.
* **SelfUpdateProofs** - `Inductive`: the executable, or the file a rollback puts
  back, is no older than the last process; what is about to be installed is complete
  and no older.
* **InstallerProofs** - `SetupTypeCorrect`, `ExeStaysWhole`, `DowngradesAreSetups`, for any
  number of versions and setups. The invariant of SelfUpdate does not survive Setup,
  which may put an older executable in place in the middle of an update. `Origin` replaces
  it: a process runs from the file its image is in, so what a rollback puts
  back is the version that runs, whatever Setup put in its place meanwhile.
* **SuperviseProofs** - `NothingOrphaned`: while a process has not been told to die the
  agent runs, and the process is in the job or is the one its supervisor is about to
  put there (`Covered`). The second case needs that a supervisor starts no other
  process before it has assigned the last one, which is what the order of
  uat.go 98-104 gives. `SuperviseTypeCorrect` needs no such assumption: it holds with
  the race in the window as well.
* **DeviceConfigProofs** - `ConfigTypeCorrect`: with the types, where each goroutine is
  inside `Save` against where main is (`Places`), for any number of savers that overlap.
  The other theorems assume `[]Exclusive`: no two goroutines are inside `Save` at once.
  The code does not see to it, and run `dc_savers` shows what it costs; the theorems
  show that this is all it costs, for any number of savers, crashes and faults. Run
  `dc` has one such goroutine, and so checks an instance in which the assumption holds.
  `AgentFileWhole` and
  `ConfigImplementsAtomicFile`: the writer is the only one at its file, and until its
  rename that file is not the one named `agent.json` (`TmpIsMine`). `RunsRegistered`
  follows the identity through the start: from when it is made it is on disk before it is
  sent, so a token on disk has its row at the server, and what is running can be read
  back (`Standing`). `RegistersOnce` adds that nobody but this device makes rows
  (`OnlyMine`); it assumes `~ReadMayFail`, without which it is false (section 6).
* **EepromProofs** - Begins with indexes: the index of a dongle is the number of those
  before it, so on any bus that holds still dongles and indexes below their number
  correspond one to one (`IndexInjective`, `IndexTaken`, `BusPorts`). `EepromTypeCorrect`
  needs that dedupe finds a free serial: serials in use and dongles still to look at
  are together never more than ports (`Counted`), and uniqueSerial tries twice as many
  (`UniqueSerialIsNew`). `ListedWhileBusy`: a dongle that was listed right has its serial
  in the cache under its port (`Cached`); each read of strings keeps that of every other
  port, and the final pruning keeps the ports of a bus that was all listed
  (`CachedEntries`). `PassedIsRestored`: while the calls of a self-test go through, only
  the dongle it addresses may differ, and only between its two writes (`Restoring`).
  `DedupeMakesUnique`: the dongles that dedupe has passed will report serials in
  use, each its own; those it awaits are untouched, each listed once under its index and
  serial (`ToDo`, `NotYet`, `Distinct`). That dedupe was given all of them is
  where `ListedWhileBusy`'s invariant is used: the history variable `kept` is all that is
  plugged. `Restoring` and `Deduping` were also checked with TLC before they were
  proved, on the instance of run `ee`.

The proofs also cover what the runs leave out by choice of constants: any number
of ports, relays, commands, versions, setups, supervisors, savers and dongles, and in
particular, for `DecoderManager`, a role of `off` and a second feed endpoint.

**Only model-checked**: all liveness (`Converges`, `PauseStops`, `CancelledEnds`,
`Reconnects`, `CommandsAcked`, `FollowsServer`, `NotStranded`, `LaunchesNew`, `StartsInTheEnd`,
`FollowsManager`), because TLAPS has no support for ENABLED and fairness here. Every safety
property of a passing run, and each of the two refinements, is stated by a theorem; those of
`DeviceConfig`, but for type correctness, under `[]Exclusive`.

## 6. Where code and comments disagree

Four disagreements have a run and an entry under `findings`:

1. `dm_shift`: a kept relay reads a port its decoder has left (decoders.go 275). In the
   trace a receiver runs alone on the first slot; one that librtlsdr lists ahead of it is
   plugged in and takes that slot; the first one's decoder is recycled onto the second,
   its relay is not.
2. `rl_hidden`: relays of one kind share a link bit (stats.go 33).
3. `dc_savers`: two saves share a temporary file (config.go 174). In the trace both
   goroutines open it before either has written, both write it, and what they leave does
   not parse when it becomes `agent.json`. (The run is that of Windows, where a file that is
   open is not renamed; elsewhere a second open could also truncate the file that the first
   is about to rename.)
4. `setup_driver`: Setup that is run again, as it tells the user to, is an upgrade and never
   binds the driver (flightpatch.iss 211). In the trace the dongle is there all along, and
   the power goes after a first setup has put its files in place and before its driver step.
   A first setup that was completed without the dongle leads to the same second one.

Others were seen with TLC or while modelling, and are recorded as hazards without a run:

* a role forced to off leaves the running decoder (decoders.go 237; main.go 349 lists
  off among the roles a server can force);
* a changed feed may never reach relays that run, because the 1.5 s bounce falls
  between two reconciles (main.go 360);
* a restart whose acknowledgement arrived but was not answered is struck off and never
  carried out (main.go 300), though the log says "postponing": why `CommandQueue` only speaks of
  commands that are begun;
* an ADS-B relay whose receiver frame could not be written keeps its link reported, and
  for good if it is cancelled then (forward.go 111): the reason why `DownUnlessCopying`
  speaks of UAT and VDL2 relays;
* the connected flag is stored out of order (stats.go 53);
* the fallback of an aborted probe is saved (decoders.go 361, 425), and a role the server
  forces is overwritten by a probe. For a port whose role the user confirmed, every beat
  bounces, and each bounce ends with feeding enabled, so that no pause lasts (main.go 350,
  362): what `FollowsServer` excludes with `Overruled`;
* while libusb gives no ports, dongles are tracked by serial (decoders.go 58): a role the
  user confirmed for a port is not found, and two dongles of one serial recycle each other's
  decoder at every reconcile. `LocalRoleWins` speaks of keys, `Converges` assumes that
  enumerations are right in the end;
* a dongle that was the last one stays reported (decoders.go 213);
* a pause is undone until the next beat (main.go 362);
* a read error is taken for a missing configuration (config.go 94), and a save that
  wait-ready blocks is lost unnoticed (decoders.go 362);
* between two renames there is no executable to start (update.go 104), also after a stop
  by Setup: the exception in `NotStranded`;
* one failure of libusb empties the cache, and a dongle in use is listed no more
  (dongles_windows.go 97); a plug between count, ports and strings files an identity
  under another port (dongles_windows.go 58);
* the self-test returns with the test serial in place when its read-back fails
  (eeprom_windows.go 227);
* dedupe gives a serial again that is in an EEPROM and not reported yet (decoders.go
  384), and both dongles report it after the reset. Two ways lead there: `-set-serial`,
  which resets nothing, and a write that was cut off or not verified (decoders.go 385).
  `DedupedUnique` is the promise without these: its conjuncts `fresh` and `clean`.

## 7. Not modelled, and why

* The unsynchronised access to the fields of `cfg` from two goroutines: reads and
  writes are atomic in the models. The race detector is the tool for it.
* Durability below rename (no `fsync`): a rename is final, a crash loses nothing
  that was written.
* Payloads (Beast, AVR, JSON), byte rates, logging, the tuner gain, wizard pages,
  Windows API calls, and the patches to third-party decoders.
* Command-line diagnostics that change nothing (`-probe-only`, `-watch`, `-job-test`,
  `-eeprom-dump`), and `-reset-usb`, which is the reset of `-dedupe` by itself.
* Waiting times: backoffs (that of superviseUAT never resets), timeouts and tickers only
  appear as steps that may happen.
* Setup's wizard pages, the arguments it writes to the service definition, and the
  uninstaller.
* A job object or an assignment Windows refuses: `assignChildToJob` is best-effort, and
  `NoOrphans` assumes that it succeeds.
* The file protocol of `receivers.json`: that of `agent.json` with one writer.
* The composition of `PhoneHome` with `DecoderManager`, and of `Supervise` and `Enumeration`
  with it: the products are too large for TLC. `DecoderManager` takes from phoneHome any
  `SetEnabled` and what `applyConfig` does with any edit; `PhoneHome` takes from the manager
  the write of `Overrule`, and nothing of what decoders do with the flag; `Supervise` takes
  any series of schedules, cancels and recycles; `DecoderManager` takes any part of the bus
  with any ports missing, but no plug in the middle of an enumeration and no identity
  that the cache holds of another dongle: those are in `Enumeration` only.

## 8. Plan

The modules are complete, and every safety property of the passing runs is proved. What
could still be proved: the defects' counterparts, that is, which single assumption makes
each property of a violated run hold, as `DistinctBitsNotHidden` and `AgentFileWhole` do
for two of them.
