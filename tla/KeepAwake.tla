------------------------------ MODULE KeepAwake ------------------------------
(***************************************************************************)
(* The keep-awake core of Chiu as one system: the automatic download path, *)
(* the manual session and the wake coordinator they share, driven by the   *)
(* threads that run them, up to and through an ordered shutdown.           *)
(*                                                                         *)
(*   network worker      delivers receive activity to the detector         *)
(*   power observer      publishes the power source                        *)
(*   main thread         runs tray commands, one at a time                 *)
(*   session scheduler   ends finite sessions                              *)
(*   shutdown thread     stops the capabilities in reverse start order     *)
(*                       (product_composition.rs, application.rs); after   *)
(*                       an update it is not the main thread, so a command *)
(*                       may be in flight while it runs                    *)
(*                                                                         *)
(* Locks are nested in one order (monitor, controller, coordinator and     *)
(* session, coordinator) and held to the end of an operation, so each      *)
(* operation of a component is one step here; the places where the code    *)
(* releases every lock in the middle of an operation are separate steps.   *)
(***************************************************************************)
EXTENDS AutomaticDownload, ManualSession

CONSTANT TrayOperations  \* the kinds of commands the tray offers

VARIABLES
  persisted,    \* the settings the settings service has acknowledged
  trayStage,    \* how far the tray command in flight has come
  trayOp,       \* its kind
  update,       \* the settings it is about to persist or to apply
  powerLeaked,  \* the power observer could not be unregistered
  stage         \* how far startup and shutdown have come

coordinatorVars == <<reasons, native>>
trayVars == <<trayStage, trayOp, update>>
vars == <<coordinatorVars, controllerVars, detectorVars, sessionVars,
          persisted, trayVars, powerLeaked, stage>>

AllTrayOperations == {"ToggleAutomatic", "ToggleBattery", "Tune", "Manual"}

ASSUME TrayAssumption == TrayOperations \subseteq AllTrayOperations

Settings == [policy : Policy, tuning : Tuning]
TrayStage == {"Idle", "Admitted", "Persisting", "Applying"}
Stage == {"Starting", "Operational", "Begun", "NetworkStopped",
          "PowerStopped", "DetectorStopped", "SchedulerStopping",
          "SchedulerStopped", "Stopped"}

(* The product has been composed from its saved settings; no capability    *)
(* has been started yet.                                                   *)
Init ==
  /\ CoordinatorInit
  /\ DetectorInit
  /\ SessionInit
  /\ persisted = [policy |-> policy, tuning |-> tuning]
  /\ trayStage = "Idle"
  /\ trayOp = "None"
  /\ update = persisted
  /\ powerLeaked = FALSE
  /\ stage = "Starting"

-----------------------------------------------------------------------------
(* Background threads.                                                     *)

(* The session scheduler is the last required capability with a thread of  *)
(* its own; the power observer and the network worker start after it.      *)
StartSession ==
  /\ stage = "Starting"
  /\ StartScheduler
  /\ UNCHANGED <<coordinatorVars, controllerVars, detectorVars, persisted,
                 trayVars, powerLeaked, stage>>

(* Startup has gone through: tray commands are admitted from here on.      *)
FinishStartup ==
  /\ stage = "Starting"
  /\ scheduler # "NotStarted"
  /\ stage' = "Operational"
  /\ UNCHANGED <<coordinatorVars, controllerVars, detectorVars, sessionVars,
                 persisted, trayVars, powerLeaked>>

ObserversRunning ==
  \/ stage = "Starting" /\ scheduler # "NotStarted"
  \/ stage \in {"Operational", "Begun"}

(* The network worker hands one event to the detector.  Shutdown joins it. *)
NetworkEvent(ok) ==
  /\ ObserversRunning
  /\ Consume(ok)
  /\ UNCHANGED <<sessionVars, persisted, trayVars, powerLeaked, stage>>

(* The observer publishes what it sampled; a failed sample publishes       *)
(* Unknown.  An observer that could not be unregistered keeps publishing,  *)
(* and a callback that was running when it was unregistered still ends.    *)
PowerEvent(power, ok) ==
  /\ ObserversRunning \/ stage = "NetworkStopped" \/ powerLeaked
  /\ SetPowerSource(power, ok)
  /\ UNCHANGED <<detectorVars, sessionVars, persisted, trayVars, powerLeaked,
                 stage>>

Clock ==
  /\ Tick
  /\ UNCHANGED <<coordinatorVars, controllerVars, detectorVars, persisted,
                 trayVars, powerLeaked, stage>>

SchedulerStep ==
  /\ SchedulerCheck \/ SchedulerTimeout
  /\ UNCHANGED <<coordinatorVars, controllerVars, detectorVars, persisted,
                 trayVars, powerLeaked, stage>>

SpuriousWake ==
  /\ SchedulerSpuriousWake
  /\ UNCHANGED <<coordinatorVars, controllerVars, detectorVars, persisted,
                 trayVars, powerLeaked, stage>>

SchedulerExpiry(ok) ==
  /\ ExpireDue(ok)
  /\ UNCHANGED <<controllerVars, detectorVars, persisted, trayVars,
                 powerLeaked, stage>>

-----------------------------------------------------------------------------
(* Tray commands.                                                          *)

(* TrayApplication::execute checks the application status once; shutdown   *)
(* may begin any time after that.                                          *)
AdmitCommand(op) ==
  /\ trayStage = "Idle"
  /\ stage = "Operational"
  /\ trayStage' = "Admitted"
  /\ trayOp' = op
  /\ UNCHANGED <<coordinatorVars, controllerVars, detectorVars, sessionVars,
                 persisted, update, powerLeaked, stage>>

FinishCommand == trayStage' = "Idle" /\ trayOp' = "None"

(* A manual command: executed, or rejected for the state it finds.         *)
RunManualCommand(ok) ==
  /\ trayStage = "Admitted"
  /\ trayOp = "Manual"
  /\ \/ Command(ok)
     \/ ok /\ UNCHANGED <<sessionVars, coordinatorVars>>
  /\ FinishCommand
  /\ UNCHANGED <<controllerVars, detectorVars, persisted, update,
                 powerLeaked, stage>>

(* A toggle reads the live policy to decide what to save.                  *)
ReadToggle ==
  /\ trayStage = "Admitted"
  /\ trayOp \in {"ToggleAutomatic", "ToggleBattery"}
  /\ update' = [update EXCEPT !.policy =
                  IF trayOp = "ToggleAutomatic"
                  THEN [policy EXCEPT !.enabled = ~@]
                  ELSE [policy EXCEPT !.onBattery = ~@]]
  /\ trayStage' = "Persisting"
  /\ UNCHANGED <<coordinatorVars, controllerVars, detectorVars, sessionVars,
                 persisted, trayOp, powerLeaked, stage>>

(* Tuning changes the threshold or the grace of the live settings; a       *)
(* choice that changes nothing is not saved.                               *)
ReadTuning(chosen) ==
  /\ trayStage = "Admitted"
  /\ trayOp = "Tune"
  /\ chosen.threshold = tuning.threshold \/ chosen.grace = tuning.grace
  /\ IF chosen = tuning
     THEN FinishCommand /\ UNCHANGED update
     ELSE /\ trayStage' = "Persisting"
          /\ update' = [update EXCEPT !.tuning = chosen]
          /\ UNCHANGED trayOp
  /\ UNCHANGED <<coordinatorVars, controllerVars, detectorVars, sessionVars,
                 persisted, powerLeaked, stage>>

(* What the settings service acknowledges: the saved settings with only    *)
(* the commanded fields changed.                                           *)
Acknowledged ==
  CASE trayOp = "ToggleAutomatic" ->
         [persisted EXCEPT !.policy.enabled = update.policy.enabled]
    [] trayOp = "ToggleBattery" ->
         [persisted EXCEPT !.policy.onBattery = update.policy.onBattery]
    [] OTHER -> [persisted EXCEPT !.tuning = update.tuning]

(* Mutant: a failed save is applied to the live settings all the same.     *)
PersistUpdate_AppliesUnsaved(saved) ==
  /\ trayStage = "Persisting"
  /\ trayStage' = "Applying"
  /\ persisted' = IF saved THEN Acknowledged ELSE persisted
  /\ update' = Acknowledged
  /\ UNCHANGED <<coordinatorVars, controllerVars, detectorVars, sessionVars,
                 trayOp, powerLeaked, stage>>

(* The settings service saves, or refuses and the command ends there.      *)
PersistUpdate(saved) ==
  /\ trayStage = "Persisting"
  /\ IF saved
     THEN /\ trayStage' = "Applying"
          /\ persisted' = Acknowledged
          /\ update' = Acknowledged
          /\ UNCHANGED trayOp
     ELSE /\ FinishCommand
          /\ update' = persisted
          /\ UNCHANGED persisted
  /\ UNCHANGED <<coordinatorVars, controllerVars, detectorVars, sessionVars,
                 powerLeaked, stage>>

(* The live component takes over what was saved.                           *)
ApplyUpdate(ok) ==
  /\ trayStage = "Applying"
  /\ IF trayOp = "Tune"
     THEN ApplyTuning(update.tuning, ok)
     ELSE SetSettings(update.policy, ok) /\ UNCHANGED detectorVars
  /\ FinishCommand
  /\ UNCHANGED <<sessionVars, persisted, update, powerLeaked, stage>>

-----------------------------------------------------------------------------
(* Shutdown: capabilities are popped in reverse order, and a failure of    *)
(* one does not keep the rest from being cleaned up.                       *)

BeginShutdown ==
  /\ stage = "Operational"
  /\ stage' = "Begun"
  /\ UNCHANGED <<coordinatorVars, controllerVars, detectorVars, sessionVars,
                 persisted, trayVars, powerLeaked>>

StopNetwork ==
  /\ stage = "Begun"
  /\ stage' = "NetworkStopped"
  /\ UNCHANGED <<coordinatorVars, controllerVars, detectorVars, sessionVars,
                 persisted, trayVars, powerLeaked>>

StopPower(ok) ==
  /\ stage = "NetworkStopped"
  /\ stage' = "PowerStopped"
  /\ powerLeaked' \in BOOLEAN
  /\ SetPowerSource("Unknown", ok)
  /\ UNCHANGED <<detectorVars, sessionVars, persisted, trayVars>>

StopDetector(ok) ==
  /\ stage = "PowerStopped"
  /\ stage' = "DetectorStopped"
  /\ MonitorShutdown(ok)
  /\ UNCHANGED <<sessionVars, persisted, trayVars, powerLeaked>>

StopScheduler ==
  /\ stage = "DetectorStopped"
  /\ stage' = "SchedulerStopping"
  /\ RequestSchedulerShutdown
  /\ UNCHANGED <<coordinatorVars, controllerVars, detectorVars, persisted,
                 trayVars, powerLeaked>>

JoinScheduler ==
  /\ stage = "SchedulerStopping"
  /\ SchedulerJoined
  /\ stage' = "SchedulerStopped"
  /\ UNCHANGED <<coordinatorVars, controllerVars, detectorVars, sessionVars,
                 persisted, trayVars, powerLeaked>>

StopCoordinator(ok) ==
  /\ stage = "SchedulerStopped"
  /\ stage' = "Stopped"
  /\ CoordinatorShutdown(ok)
  /\ UNCHANGED <<controllerVars, detectorVars, sessionVars, persisted,
                 trayVars, powerLeaked>>

-----------------------------------------------------------------------------
Shutdown ==
  \/ StopNetwork
  \/ \E ok \in BOOLEAN : StopPower(ok)
  \/ \E ok \in BOOLEAN : StopDetector(ok)
  \/ StopScheduler
  \/ JoinScheduler
  \/ \E ok \in BOOLEAN : StopCoordinator(ok)

(* The main thread carries on with the command it has admitted.            *)
TrayStep ==
  \/ \E ok \in BOOLEAN : RunManualCommand(ok)
  \/ ReadToggle
  \/ \E chosen \in Tuning : ReadTuning(chosen)
  \/ \E saved \in BOOLEAN : PersistUpdate(saved)
  \/ \E ok \in BOOLEAN : ApplyUpdate(ok)

Next ==
  \/ \E ok \in BOOLEAN : NetworkEvent(ok)
  \/ \E power \in PowerSource, ok \in BOOLEAN : PowerEvent(power, ok)
  \/ StartSession
  \/ FinishStartup
  \/ Clock
  \/ SchedulerStep
  \/ SpuriousWake
  \/ \E ok \in BOOLEAN : SchedulerExpiry(ok)
  \/ \E op \in TrayOperations : AdmitCommand(op)
  \/ TrayStep
  \/ BeginShutdown
  \/ Shutdown

Spec == Init /\ [][Next]_vars

(* What the threads of the program grant: the scheduler, an admitted       *)
(* command and the shutdown sequence run on; time passes.  The network     *)
(* worker goes on sampling, but while its counters cannot be read that     *)
(* delivers nothing (network_activity/mod.rs), and native calls may fail   *)
(* for ever: neither is assumed.  The user owes nothing.                   *)
Fairness ==
  /\ WF_vars(StartSession)
  /\ WF_vars(SchedulerStep)
  /\ WF_vars(\E ok \in BOOLEAN : SchedulerExpiry(ok))
  /\ WF_vars(TrayStep)
  /\ WF_vars(Clock)
  /\ WF_vars(Shutdown)

FairSpec == Spec /\ Fairness

-----------------------------------------------------------------------------
(* Properties.                                                             *)

(* Every variable has its type.                                            *)
TypeOK ==
  /\ native \in ProtectionState
  /\ reasons \subseteq WakeReason
  /\ detectorIntent \in BOOLEAN
  /\ policy \in Policy
  /\ powerSource \in PowerSource
  /\ lastCommandedDesired \in BOOLEAN
  /\ coordinationFailure \in BOOLEAN
  /\ phase \in Phase
  /\ tuning \in Tuning
  /\ now \in Nat
  /\ intent \in Intent
  /\ backgroundFailure \in BOOLEAN
  /\ accepting \in BOOLEAN
  /\ scheduler \in SchedulerState
  /\ wakeAt \in Nat
  /\ persisted \in Settings
  /\ trayStage \in TrayStage
  /\ trayOp \in AllTrayOperations \cup {"None"}
  /\ update \in Settings
  /\ powerLeaked \in BOOLEAN
  /\ stage \in Stage

(* Until the coordinator is shut down, the reasons it holds are exactly    *)
(* what the session and the policy ask for, and the policy acts on what    *)
(* the detector has qualified, whatever native calls failed on the way.    *)
(* The tray warns of anything else (tray.rs, protection_is_inconsistent).  *)
RequestsMatchReasons ==
  stage # "Stopped" =>
    /\ intent.kind # "Inactive" <=> "ManualKeepAwake" \in reasons
    /\ Desired <=> "AutomaticDownload" \in reasons
    /\ detectorIntent <=> phase.state # "Idle"

(* The controller never believes in protection it does not have: an        *)
(* automatic reason without a recorded failure is protected, even though   *)
(* the manual session shares and gives up the same native protection.      *)
AutomaticFailureIsRecorded ==
  lastCommandedDesired /\ ~coordinationFailure => native = "Active"

(* The settings in force are the settings that were saved, except in the   *)
(* gap between saving and applying them; a failed save changes neither.    *)
SavedSettingsAreLive ==
  trayStage # "Applying" =>
    /\ policy = persisted.policy
    /\ tuning = persisted.tuning

(* The scheduler never sleeps through a deadline: when it waits without a  *)
(* timeout no finite session exists, when it waits with one it is the      *)
(* session's deadline, and it does not wait once it has been told to stop. *)
SchedulerWaitsForTheDeadline ==
  /\ scheduler = "Parked" => accepting /\ intent.kind # "Finite"
  /\ scheduler = "Timed" => accepting /\ intent = Finite(wakeAt)

(* After the last shutdown step no reason is ever held again, although the *)
(* tray and a power observer that could not be unregistered go on calling. *)
NoReasonOutlivesShutdown == stage = "Stopped" => reasons = {}

(* A session ends by a command, or at its deadline: the scheduler never    *)
(* ends one that was extended or started while it was between its check    *)
(* and the expiry.                                                         *)
SessionsEndOnTime ==
  [][intent.kind # "Inactive" /\ intent'.kind = "Inactive" =>
       Due \/ (trayOp = "Manual" /\ trayOp' = "None")]_vars

(* What has the controller look at its desire again, with a native call,   *)
(* if one is made, that succeeds: an event the detector is given, a power  *)
(* source that is published, settings that are applied, and the shutdown of*)
(* the observer and of the detector.                                       *)
Reconsiders ==
  \/ NetworkEvent(TRUE)
  \/ \E power \in PowerSource : PowerEvent(power, TRUE)
  \/ ApplyUpdate(TRUE)
  \/ StopPower(TRUE)
  \/ StopDetector(TRUE)

(* A failed automatic command is not left at that: the first occasion with *)
(* a native call that succeeds makes up for it, also where the desire has  *)
(* not changed, or has changed back; and then the system is kept awake     *)
(* exactly if a reason is left, whether automatic or manual, whoever's     *)
(* calls had failed before (automatic_protection.rs, reconcile).           *)
FailureIsMadeUpFor ==
  [][coordinationFailure /\ Reconsiders =>
       /\ ~coordinationFailure'
       /\ native' = "Active" <=> reasons' # {}]_vars

(* Adding time extends the deadline that was there, overdue or not         *)
(* (CONTEXT.md, "extends its existing deadline").                          *)
AddExtendsTheDeadline ==
  [][intent.kind = "Finite" /\ intent'.kind = "Finite" =>
       \E duration \in AddDurations \cup {0} :
         intent'.deadline = intent.deadline + duration]_vars

(* The inductive invariant: RequestsMatchReasons taken apart, with what    *)
(* each shutdown step leaves true for the rest of the shutdown, and with   *)
(* what a tray command knows between saving and applying.                  *)
AutomaticReasonIsDesired ==
  /\ lastCommandedDesired = Desired
  /\ "AutomaticDownload" \in reasons <=> lastCommandedDesired

ManualReasonIsIntended ==
  "ManualKeepAwake" \in reasons <=> intent.kind # "Inactive" /\ stage # "Stopped"

IntentIsQualified == detectorIntent <=> phase.state # "Idle"

ShutdownProgress ==
  /\ stage \in {"DetectorStopped", "SchedulerStopping", "SchedulerStopped",
                "Stopped"} => ~detectorIntent
  /\ stage \in {"SchedulerStopping", "SchedulerStopped", "Stopped"} => ~accepting

CommandKnowsSettings ==
  /\ trayStage # "Applying" => persisted = [policy |-> policy, tuning |-> tuning]
  /\ trayStage = "Applying" => update = persisted
  /\ trayOp = "Tune" => policy = persisted.policy
  /\ trayOp # "Tune" => tuning = persisted.tuning
  /\ trayStage \in {"Persisting", "Applying"} =>
       trayOp \in {"ToggleAutomatic", "ToggleBattery", "Tune"}

InductiveInvariant ==
  /\ TypeOK
  /\ AutomaticReasonIsDesired
  /\ ManualReasonIsIntended
  /\ IntentIsQualified
  /\ AutomaticFailureIsRecorded
  /\ ShutdownProgress
  /\ CommandKnowsSettings
  /\ SchedulerWaitsForTheDeadline

(* The reasons somebody wants the system awake for, read off the owners of *)
(* the wish and not off the coordinator.                                   *)
Wanted ==
  IF stage = "Stopped"
  THEN {}
  ELSE {reason \in WakeReason :
          IF reason = "ManualKeepAwake" THEN intent.kind # "Inactive" ELSE Desired}

Contract == INSTANCE ProtectionContract WITH
  Reasons <- WakeReason,
  wanted <- Wanted,
  held <- (native = "Active"),
  closed <- (stage = "Stopped")

(* The system keeps the promise: one reason ending never cancels another,  *)
(* protection is never taken without a wish and never given up against     *)
(* one, and nothing is wanted after shutdown.                              *)
ImplementsContract == Contract!Spec

(* A finite session ends, unless shutdown overtakes it.                    *)
FiniteSessionsEnd ==
  intent.kind = "Finite" ~> (intent.kind # "Finite" \/ ~accepting)

(* Shutdown runs to its end: the join of the scheduler thread returns.     *)
ShutdownCompletes == stage = "Begun" ~> stage = "Stopped"

=============================================================================
