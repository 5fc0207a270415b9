------------------------------- MODULE Installer -------------------------------
(***************************************************************************)
(* Setup (installer/flightpatch.iss) next to the service it installs and   *)
(* the agent that updates itself (SelfUpdate): stop, replace, bind the     *)
(* driver, install, start, verify, and the start that follows a setup that *)
(* was cancelled.  Setup may be run again.                                 *)
(*                                                                         *)
(* The service is WinSW under the service control manager, external: it    *)
(* starts the agent while it is wanted, and a stop ends the agent wherever *)
(* it is, or fails.  The driver installer is external too: it binds the    *)
(* driver to a dongle that is plugged in.  The power may go at any time.   *)
(***************************************************************************)
EXTENDS SelfUpdate

CONSTANT MaxSetups   \* bound: times Setup is run

ASSUME SetupAssumption == MaxSetups \in Nat \ {0}

VARIABLES
    svc,       \* the service
    hosted,    \* adsbiq-service.exe is there
    plugged,   \* the dongle is plugged in
    driver,    \* WinUSB is bound to it
    setup,     \* where Setup is
    bundle,    \* version of the agent it carries
    upgrade,   \* IsUpgrade
    setups,    \* times it was started
    placed     \* history: the executable is the one it put there, not started yet

machineVars == <<hosted, plugged, driver>>
setupVars   == <<setup, bundle, upgrade, setups>>
installVars == <<vars, svc, machineVars, setupVars, placed>>

SetupTypeOK ==
    /\ TypeOK
    /\ svc \in {"absent", "stopped", "wanted"}
    /\ hosted \in BOOLEAN
    /\ plugged \in BOOLEAN
    /\ driver \in BOOLEAN
    /\ setup \in {"files", "driver", "install", "start", "verify", "deinit", "ended"}
    /\ bundle \in Versions
    /\ upgrade \in BOOLEAN
    /\ setups \in 0..MaxSetups
    /\ placed \in BOOLEAN

\* A machine without the agent.
Fresh ==
    /\ latest \in Versions
    /\ exe = None
    /\ new = None
    /\ old = None
    /\ running = None
    /\ image = "none"
    /\ pc = "down"
    /\ target = bundle
    /\ last = bundle

SetupInit ==
    /\ bundle \in Versions
    /\ \/ Init /\ svc = "wanted" /\ hosted = TRUE /\ driver = TRUE
       \/ Fresh /\ svc = "absent" /\ hosted = FALSE /\ driver = FALSE
    /\ plugged \in BOOLEAN
    /\ setup = "ended"
    /\ upgrade = FALSE
    /\ setups = 0
    /\ placed = FALSE

-----------------------------------------------------------------------------
(* The machine                                                             *)

\* What the agent does while it runs, and releases.
AgentRuns ==
    /\ \/ \E v \in Versions : Release(v)
       \/ CheckUpdate \/ Download \/ Swap \/ Postpone
    /\ placed' = (placed /\ ~(Install \/ Rollback))
    /\ UNCHANGED <<svc, machineVars, setupVars>>

\* It exits for a command, or crashes: the service will restart it.
AgentDies ==
    /\ Die
    /\ UNCHANGED <<svc, machineVars, setupVars, placed>>

\* <onfailure action="restart">, the start at boot and the start by Setup.
Launch ==
    /\ svc = "wanted"
    /\ Relaunch
    /\ placed' = FALSE
    /\ UNCHANGED <<svc, machineVars, setupVars>>

\* Everything is gone but the files; the service starts at boot.
PowerLoss ==
    /\ running' = None
    /\ image' = "none"
    /\ pc' = "down"
    /\ svc' = IF svc = "absent" THEN "absent" ELSE "wanted"
    /\ setup' = "ended"
    /\ UNCHANGED <<latest, files, target, last, machineVars, bundle, upgrade, setups, placed>>

PlugOrUnplug ==
    /\ plugged' = ~plugged
    /\ UNCHANGED <<vars, svc, hosted, driver, setupVars, placed>>

-----------------------------------------------------------------------------
(* Setup                                                                   *)

\* Setup is run, with any version, up to PrepareToInstall.  It stops the service of
\* an installation; the result of the stop is not looked at, and it may have done
\* nothing.
PrepareToInstall ==
    /\ setup = "ended"
    /\ setups < MaxSetups
    /\ setups' = setups + 1
    /\ bundle' \in Versions
    /\ setup' = "files"
    /\ upgrade' = hosted
    /\ \/ /\ hosted /\ svc # "absent"
          /\ svc' = "stopped"
          /\ IF running = None THEN UNCHANGED vars ELSE Die
       \/ UNCHANGED <<vars, svc>>
    /\ UNCHANGED <<machineVars, placed>>

\* [Files].  The file of a running image cannot be replaced.
InstallFiles ==
    /\ setup = "files"
    /\ image # "exe"
    /\ exe' = bundle
    /\ placed' = TRUE
    /\ hosted' = TRUE
    /\ setup' = "driver"
    /\ UNCHANGED <<latest, new, old, running, image, pc, target, last>>
    /\ UNCHANGED <<svc, plugged, driver, bundle, upgrade, setups>>

\* A step of Setup that is about the service or the driver.
SetupStep(from, to) ==
    /\ setup = from
    /\ setup' = to
    /\ UNCHANGED <<vars, hosted, plugged, bundle, upgrade, setups, placed>>

\* The user cancels, or a file cannot be replaced.
CancelSetup == SetupStep("files", "deinit") /\ UNCHANGED <<svc, driver>>

\* DriverInstallNeeded: not for an upgrade.
BindDriver ==
    /\ SetupStep("driver", "install")
    /\ driver' = (driver \/ (~upgrade /\ plugged))
    /\ UNCHANGED svc

\* The service is registered, unless it is.
InstallService ==
    /\ SetupStep("install", "start")
    /\ svc' = IF svc = "absent" THEN "stopped" ELSE svc
    /\ UNCHANGED driver

\* (Definitions named after another with a suffix, such as this one, are faulty
\* variants: the properties are tried against them.)
StartServiceNever ==
    /\ SetupStep("start", "verify")
    /\ UNCHANGED <<svc, driver>>

StartService ==
    /\ SetupStep("start", "verify")
    /\ svc' = "wanted"
    /\ UNCHANGED driver

\* The waiting process returns by its deadline, with any verdict.
VerifyFeeding == SetupStep("verify", "deinit") /\ UNCHANGED <<svc, driver>>

DeinitializeSetupNever ==
    /\ SetupStep("deinit", "ended")
    /\ UNCHANGED <<svc, driver>>

\* An upgrade ends with a start, however far it came.
DeinitializeSetup ==
    /\ SetupStep("deinit", "ended")
    /\ svc' = IF upgrade /\ svc # "absent" THEN "wanted" ELSE svc
    /\ UNCHANGED driver

-----------------------------------------------------------------------------

Setup ==
    \/ InstallFiles \/ CancelSetup \/ BindDriver \/ InstallService
    \/ StartService \/ VerifyFeeding \/ DeinitializeSetup

SetupNext ==
    \/ AgentRuns \/ AgentDies \/ Launch \/ PowerLoss \/ PlugOrUnplug
    \/ PrepareToInstall \/ Setup

\* The service control manager does its work, and a user who has gone past
\* "Install" ends up with an installation or cancels it.
SetupSpec ==
    /\ SetupInit
    /\ [][SetupNext]_installVars
    /\ WF_installVars(Launch)
    /\ WF_installVars(Setup)

-----------------------------------------------------------------------------
(* Properties                                                              *)

\* Releases that are withdrawn, failed updates, crashes and a setup in the middle
\* of any of them: an agent starts in an older version than the one before it only
\* as the first start of what Setup put in place.
OnlySetupDowngrades == [][last' >= last \/ placed]_installVars

\* "never strand the previously working installation offline"
\* (installer/flightpatch.iss:220): once a setup has ended, however, an agent that is
\* installed runs again.  (Unless Setup, an exit or the power stopped the agent
\* between its two renames, which leaves nothing to start.)
NotStranded ==
    setup = "ended" /\ svc # "absent" ~> setup # "ended" \/ running # None \/ exe = None

\* "Upgrades must actually launch the newly installed agent"
\* (installer/flightpatch.iss:190): what Setup put in place is started in the end.
\* (Unless an old agent runs on from a renamed file, because the stop failed or the
\* service was restarting it, or the power went before there was a service.)
LaunchesNew == placed ~> ~placed \/ image = "old" \/ svc = "absent"

\* "Setup installs the dongle's driver, so it needs to be connected right now"
\* (installer/flightpatch.iss:116), and a setup that found no receiver asks to
\* reconnect it and run Setup again (:99): a setup that gets past its driver step
\* with the dongle plugged in leaves the driver bound.
SetupBindsDriver ==
    [][setup = "driver" /\ setup' = "install" /\ plugged => driver']_installVars
=============================================================================
