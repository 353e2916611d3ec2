--------------------------- MODULE KeepAwakeProofs ---------------------------
(***************************************************************************)
(* Proofs about the keep-awake core, for every choice of durations, rates, *)
(* thresholds and graces, and for every set of tray operations.            *)
(*                                                                         *)
(* The first lemmas say what one call of a component does to the           *)
(* coordinator; the inductive step then goes through the actions of        *)
(* KeepAwake one by one.                                                   *)
(*                                                                         *)
(* The last part is about the views of the product.  What is shown of the  *)
(* services holds while they are being sampled too; that the coordinator   *)
(* is sampled last then makes a calm view a true one, and that owners and  *)
(* reasons agree leaves a warning no cause but a native call.              *)
(***************************************************************************)
EXTENDS ProductViews, TLAPS

(* What the controller and the coordinator have agreed on so far.          *)
ControllerOK ==
  /\ native \in ProtectionState
  /\ reasons \subseteq WakeReason
  /\ lastCommandedDesired \in BOOLEAN
  /\ coordinationFailure \in BOOLEAN
  /\ "AutomaticDownload" \in reasons <=> lastCommandedDesired
  /\ AutomaticFailureIsRecorded

(* Native protection stays as it is or follows the reasons there now are.  *)
NativeFollows ==
  \/ native' = native
  \/ native' = "Active" /\ reasons' # {}
  \/ native' = "Inactive" /\ reasons' = {}

-----------------------------------------------------------------------------
(* One call of set_reason_active changes one reason and lets native        *)
(* protection follow.  It reports success only when the two agree.         *)
LEMMA SetReasonActiveEffect ==
  ASSUME NEW reason \in WakeReason, NEW active \in BOOLEAN, NEW ok \in BOOLEAN,
         native \in ProtectionState,
         reasons \subseteq WakeReason,
         SetReasonActive(reason, active, ok)
  PROVE  /\ native' \in ProtectionState
         /\ reasons' \subseteq WakeReason
         /\ reasons' = IF active THEN reasons \cup {reason} ELSE reasons \ {reason}
         /\ NativeFollows
         /\ ok => (native' = "Active" <=> reasons' # {})
BY DEF SetReasonActive, Reconcile, Acquire, Release, ProtectionState,
       WakeReason, NativeFollows

(* What every setter of the controller has done when it returns.           *)
AutomaticStep(desired) ==
  /\ native' \in ProtectionState
  /\ reasons' \subseteq WakeReason
  /\ lastCommandedDesired' = desired
  /\ coordinationFailure' \in BOOLEAN
  /\ "AutomaticDownload" \in reasons' <=> desired
  /\ "ManualKeepAwake" \in reasons' <=> "ManualKeepAwake" \in reasons
  /\ desired /\ ~coordinationFailure' => native' = "Active"
  /\ NativeFollows

LEMMA ReconcileAutomaticEffect ==
  ASSUME NEW desired \in BOOLEAN, NEW ok \in BOOLEAN,
         ControllerOK,
         ReconcileAutomatic(desired, ok)
  PROVE  AutomaticStep(desired)
<1>1. CASE desired = lastCommandedDesired /\ ~coordinationFailure
  BY <1>1 DEF ReconcileAutomatic, ControllerOK, AutomaticStep, NativeFollows,
              AutomaticFailureIsRecorded
<1>2. CASE ~(desired = lastCommandedDesired /\ ~coordinationFailure)
  <2>1. /\ SetReasonActive("AutomaticDownload", desired, ok)
        /\ lastCommandedDesired' = desired
        /\ coordinationFailure' = ~ok
    BY <1>2 DEF ReconcileAutomatic
  <2>2. "AutomaticDownload" \in WakeReason
    BY DEF WakeReason
  <2>3. /\ native' \in ProtectionState
        /\ reasons' \subseteq WakeReason
        /\ reasons' = IF desired
                      THEN reasons \cup {"AutomaticDownload"}
                      ELSE reasons \ {"AutomaticDownload"}
        /\ NativeFollows
        /\ ok => (native' = "Active" <=> reasons' # {})
    BY <2>1, <2>2, SetReasonActiveEffect DEF ControllerOK
  <2>4. /\ "AutomaticDownload" \in reasons' <=> desired
        /\ "ManualKeepAwake" \in reasons' <=> "ManualKeepAwake" \in reasons
    BY <2>3
  <2>5. desired /\ ~coordinationFailure' => native' = "Active"
    BY <2>1, <2>3, <2>4
  <2> QED
    BY <2>1, <2>3, <2>4, <2>5 DEF AutomaticStep
<1> QED
  BY <1>1, <1>2

(* The coordinator's last call leaves no reason.                           *)
LEMMA CoordinatorShutdownEffect ==
  ASSUME NEW ok \in BOOLEAN,
         native \in ProtectionState,
         CoordinatorShutdown(ok)
  PROVE  /\ reasons' = {}
         /\ native' \in ProtectionState
         /\ NativeFollows
BY DEF CoordinatorShutdown, Reconcile, Acquire, Release, ProtectionState,
       NativeFollows

(* The detector stays within its phases, whatever it consumes.             *)
LEMMA AfterSampleType ==
  ASSUME NEW observed \in Sample, phase \in Phase, tuning \in Tuning
  PROVE  AfterSample(phase, observed) \in Phase
<1>1. /\ phase.state \in {"Idle", "Active", "Hold"}
      /\ phase.elapsed \in Nat
      /\ observed.span \in Nat
      /\ observed.rate \in Nat
  BY DetectorAssumption DEF Phase, Sample
<1>2. phase.elapsed + observed.span \in Nat
  BY <1>1
<1>3. /\ Active \in Phase
      /\ Quiescent \in Phase
      /\ Idle(phase.elapsed + observed.span) \in Phase
      /\ Hold(phase.elapsed + observed.span) \in Phase
  BY <1>2 DEF Active, Quiescent, Idle, Hold, Phase
<1>4. AfterMeaningful(phase, observed.span) \in Phase
  BY <1>3 DEF AfterMeaningful
<1>5. AfterQuiet(phase, observed.span, tuning.grace) \in Phase
  BY <1>3 DEF AfterQuiet
<1> QED
  BY <1>4, <1>5 DEF AfterSample

-----------------------------------------------------------------------------
(* The inductive invariant.                                                *)

LEMMA InitInvariant == Init => InductiveInvariant
<1> SUFFICES ASSUME Init PROVE InductiveInvariant
  OBVIOUS
<1> USE DEF Init, CoordinatorInit, InhibitorInit, DetectorInit, ControllerInit,
            SessionInit
<1>1. TypeOK
  <2>1. persisted \in Settings
    BY DEF Settings
  <2>2. phase \in Phase
    BY DEF Phase, Quiescent, Idle
  <2>3. intent \in Intent
    BY DEF Intent, Inactive
  <2> QED
    BY <2>1, <2>2, <2>3
       DEF TypeOK, ProtectionState, PowerSource, SchedulerState, TrayStage, Stage
<1>2. AutomaticReasonIsDesired /\ ManualReasonIsIntended
  BY DEF AutomaticReasonIsDesired, ManualReasonIsIntended, Desired, DesiredUnder,
         Inactive
<1>3. IntentIsQualified
  BY DEF IntentIsQualified, Quiescent, Idle
<1>4. AutomaticFailureIsRecorded /\ ShutdownProgress
  BY DEF AutomaticFailureIsRecorded, ShutdownProgress
<1>5. CommandKnowsSettings /\ SchedulerWaitsForTheDeadline
  BY DEF CommandKnowsSettings, SchedulerWaitsForTheDeadline
<1> QED
  BY <1>1, <1>2, <1>3, <1>4, <1>5 DEF InductiveInvariant

(* The parts of the invariant that a step of one component disturbs.  A    *)
(* step of the controller keeps them when detector, policy and power keep  *)
(* their types and the controller has commanded what is now desired.       *)
CoreOK ==
  /\ native \in ProtectionState
  /\ reasons \subseteq WakeReason
  /\ detectorIntent \in BOOLEAN
  /\ policy \in Policy
  /\ powerSource \in PowerSource
  /\ lastCommandedDesired \in BOOLEAN
  /\ coordinationFailure \in BOOLEAN
  /\ AutomaticReasonIsDesired
  /\ AutomaticFailureIsRecorded

SessionOK ==
  /\ now \in Nat
  /\ intent \in Intent
  /\ backgroundFailure \in BOOLEAN
  /\ accepting \in BOOLEAN
  /\ scheduler \in SchedulerState
  /\ wakeAt \in Nat
  /\ SchedulerWaitsForTheDeadline

ShellOK ==
  /\ persisted \in Settings
  /\ trayStage \in TrayStage
  /\ trayOp \in AllTrayOperations \cup {"None"}
  /\ update \in Settings
  /\ powerLeaked \in BOOLEAN
  /\ stage \in Stage

InvariantParts ==
  /\ CoreOK
  /\ phase \in Phase
  /\ tuning \in Tuning
  /\ IntentIsQualified
  /\ SessionOK
  /\ ManualReasonIsIntended
  /\ ShellOK
  /\ ShutdownProgress
  /\ CommandKnowsSettings

LEMMA InvariantIsItsParts == InductiveInvariant <=> InvariantParts
BY DEF InductiveInvariant, TypeOK, CoreOK, SessionOK, ShellOK, InvariantParts

LEMMA DesiredType ==
  ASSUME NEW i \in BOOLEAN, NEW settings \in Policy, NEW power
  PROVE  DesiredUnder(i, settings, power) \in BOOLEAN
BY DEF DesiredUnder, Policy

LEMMA CoreIsController ==
  ASSUME CoreOK
  PROVE  ControllerOK
BY DEF CoreOK, ControllerOK, AutomaticReasonIsDesired

(* What a setter of the controller leaves behind.                          *)
ControllerStep ==
  /\ CoreOK'
  /\ "ManualKeepAwake" \in reasons' <=> "ManualKeepAwake" \in reasons
  /\ NativeFollows

LEMMA SetDetectorIntentStep ==
  ASSUME CoreOK, NEW i \in BOOLEAN, NEW ok \in BOOLEAN, SetDetectorIntent(i, ok)
  PROVE  ControllerStep
<1>1. DesiredUnder(i, policy, powerSource) \in BOOLEAN
  BY DesiredType DEF CoreOK
<1>2. AutomaticStep(DesiredUnder(i, policy, powerSource))
  BY <1>1, ReconcileAutomaticEffect, CoreIsController DEF SetDetectorIntent
<1>3. Desired' = DesiredUnder(i, policy, powerSource)
  BY DEF SetDetectorIntent, Desired, DesiredUnder
<1> QED
  BY <1>1, <1>2, <1>3
     DEF ControllerStep, CoreOK, AutomaticStep, AutomaticReasonIsDesired,
         AutomaticFailureIsRecorded, SetDetectorIntent

LEMMA SetPowerSourceStep ==
  ASSUME CoreOK, NEW power \in PowerSource, NEW ok \in BOOLEAN,
         SetPowerSource(power, ok)
  PROVE  ControllerStep
<1>1. DesiredUnder(detectorIntent, policy, power) \in BOOLEAN
  BY DesiredType DEF CoreOK
<1>2. AutomaticStep(DesiredUnder(detectorIntent, policy, power))
  BY <1>1, ReconcileAutomaticEffect, CoreIsController DEF SetPowerSource
<1>3. Desired' = DesiredUnder(detectorIntent, policy, power)
  BY DEF SetPowerSource, Desired, DesiredUnder
<1> QED
  BY <1>1, <1>2, <1>3
     DEF ControllerStep, CoreOK, AutomaticStep, AutomaticReasonIsDesired,
         AutomaticFailureIsRecorded, SetPowerSource

LEMMA SetSettingsStep ==
  ASSUME CoreOK, NEW settings \in Policy, NEW ok \in BOOLEAN,
         SetSettings(settings, ok)
  PROVE  ControllerStep
<1>1. DesiredUnder(detectorIntent, settings, powerSource) \in BOOLEAN
  BY DesiredType DEF CoreOK
<1>2. AutomaticStep(DesiredUnder(detectorIntent, settings, powerSource))
  BY <1>1, ReconcileAutomaticEffect, CoreIsController DEF SetSettings
<1>3. Desired' = DesiredUnder(detectorIntent, settings, powerSource)
  BY DEF SetSettings, Desired, DesiredUnder
<1> QED
  BY <1>1, <1>2, <1>3
     DEF ControllerStep, CoreOK, AutomaticStep, AutomaticReasonIsDesired,
         AutomaticFailureIsRecorded, SetSettings

(* Whatever the detector publishes, the intent is what it has qualified.   *)
LEMMA PublishStep ==
  ASSUME CoreOK, NEW next \in Phase, NEW ok \in BOOLEAN, Publish(next, ok)
  PROVE  /\ ControllerStep
         /\ phase' = next
         /\ IntentIsQualified'
         /\ UNCHANGED <<policy, powerSource>>
<1>1. SetDetectorIntent(next.state # "Idle", ok)
  BY DEF Publish
<1>2. ControllerStep
  BY <1>1, SetDetectorIntentStep
<1> QED
  BY <1>1, <1>2 DEF Publish, IntentIsQualified, SetDetectorIntent

LEMMA QuiescentType == Quiescent \in Phase
BY DEF Quiescent, Idle, Phase

LEMMA ConsumeStep ==
  ASSUME CoreOK, phase \in Phase, tuning \in Tuning, NEW ok \in BOOLEAN,
         Consume(ok)
  PROVE  /\ ControllerStep
         /\ phase' \in Phase
         /\ IntentIsQualified'
         /\ UNCHANGED <<policy, powerSource, tuning>>
<1>1. CASE \E observed \in Sample : ConsumeSample(observed, ok)
  <2>1. PICK observed \in Sample : ConsumeSample(observed, ok)
    BY <1>1
  <2>2. AfterSample(phase, observed) \in Phase
    BY AfterSampleType
  <2> QED
    BY <2>1, <2>2, PublishStep DEF ConsumeSample
<1>2. CASE ConsumeContinuityLost(ok)
  BY <1>2, QuiescentType, PublishStep DEF ConsumeContinuityLost
<1>3. CASE ConsumeAvailabilityChanged(ok)
  BY <1>3, PublishStep DEF ConsumeAvailabilityChanged
<1> QED
  BY <1>1, <1>2, <1>3 DEF Consume

-----------------------------------------------------------------------------
(* The manual session.                                                     *)

(* What a step of the session leaves behind, towards the coordinator.      *)
ReasonStep ==
  /\ native' \in ProtectionState
  /\ reasons' \subseteq WakeReason
  /\ "AutomaticDownload" \in reasons' <=> "AutomaticDownload" \in reasons
  /\ "ManualKeepAwake" \in reasons' <=> intent'.kind # "Inactive"
  /\ NativeFollows

LEMMA CommitStep ==
  ASSUME SessionOK, native \in ProtectionState, reasons \subseteq WakeReason,
         NEW new \in Intent, NEW ok \in BOOLEAN, Commit(new, ok)
  PROVE  SessionOK' /\ ReasonStep
<1>1. SetReasonActive("ManualKeepAwake", new.kind # "Inactive", ok)
  BY DEF Commit
<1>2. "ManualKeepAwake" \in WakeReason /\ (new.kind # "Inactive") \in BOOLEAN
  BY DEF WakeReason
<1>3. /\ native' \in ProtectionState
      /\ reasons' \subseteq WakeReason
      /\ reasons' = IF new.kind # "Inactive"
                    THEN reasons \cup {"ManualKeepAwake"}
                    ELSE reasons \ {"ManualKeepAwake"}
      /\ NativeFollows
  BY <1>1, <1>2, SetReasonActiveEffect
<1>4. ReasonStep
  BY <1>3 DEF ReasonStep, Commit
<1>5. SessionOK'
  BY DEF SessionOK, Commit, NotifyAll, SchedulerState,
         SchedulerWaitsForTheDeadline
<1> QED
  BY <1>4, <1>5

LEMMA CommandStep ==
  ASSUME SessionOK, native \in ProtectionState, reasons \subseteq WakeReason,
         NEW ok \in BOOLEAN, Command(ok)
  PROVE  accepting /\ SessionOK' /\ ReasonStep
<1>1. \E new \in Intent : Commit(new, ok)
  <2>1. now \in Nat /\ intent.deadline \in Nat
    BY DEF SessionOK, Intent
  <2>2. ASSUME NEW deadline \in Nat PROVE Finite(deadline) \in Intent
    BY DEF Finite, Intent
  <2>3. UntilDisabled \in Intent /\ Inactive \in Intent
    BY DEF UntilDisabled, Inactive, Intent
  <2>4. CASE \E duration \in StartDurations : StartFinite(duration, ok)
    <3>1. PICK duration \in StartDurations : StartFinite(duration, ok)
      BY <2>4
    <3>2. now + duration \in Nat
      BY <2>1, SessionAssumption
    <3> QED
      BY <3>1, <3>2, <2>2 DEF StartFinite
  <2>5. CASE StartUntilDisabled(ok)
    BY <2>5, <2>3 DEF StartUntilDisabled
  <2>6. CASE \E duration \in AddDurations : Add(duration, ok)
    <3>1. PICK duration \in AddDurations : Add(duration, ok)
      BY <2>6
    <3>2. intent.deadline + duration \in Nat
      BY <2>1, SessionAssumption
    <3> QED
      BY <3>1, <3>2, <2>2 DEF Add
  <2>7. CASE ConvertToUntilDisabled(ok)
    BY <2>7, <2>3 DEF ConvertToUntilDisabled
  <2>8. CASE Stop(ok)
    BY <2>8, <2>3 DEF Stop
  <2> QED
    BY <2>4, <2>5, <2>6, <2>7, <2>8 DEF Command
<1>2. PICK new \in Intent : Commit(new, ok)
  BY <1>1
<1> QED
  BY <1>2, CommitStep DEF Commit

LEMMA SchedulerLoopStep ==
  ASSUME SessionOK, SchedulerCheck \/ SchedulerTimeout \/ SchedulerSpuriousWake
  PROVE  SessionOK' /\ UNCHANGED <<intent, accepting>>
<1>1. CASE SchedulerCheck
  <2>1. intent.deadline \in Nat
    BY DEF SessionOK, Intent
  <2>2. intent.kind = "Finite" => intent = Finite(intent.deadline)
    BY DEF SessionOK, Intent, Finite
  <2> QED
    BY <1>1, <2>1, <2>2
       DEF SessionOK, SchedulerCheck, SchedulerState, SchedulerWaitsForTheDeadline,
           Finite
<1>2. CASE SchedulerTimeout
  BY <1>2 DEF SessionOK, SchedulerTimeout, SchedulerState,
              SchedulerWaitsForTheDeadline
<1>3. CASE SchedulerSpuriousWake
  BY <1>3 DEF SessionOK, SchedulerSpuriousWake, SchedulerState,
              SchedulerWaitsForTheDeadline
<1> QED
  BY <1>1, <1>2, <1>3

LEMMA ExpireDueStep ==
  ASSUME SessionOK, native \in ProtectionState, reasons \subseteq WakeReason,
         NEW ok \in BOOLEAN, ExpireDue(ok)
  PROVE  /\ SessionOK'
         /\ UNCHANGED accepting
         /\ \/ ReasonStep
            \/ UNCHANGED <<intent, reasons, native>>
<1>1. Inactive \in Intent
  BY DEF Inactive, Intent
<1>2. SessionOK' /\ UNCHANGED accepting
  BY <1>1 DEF SessionOK, ExpireDue, SchedulerState, SchedulerWaitsForTheDeadline
<1>3. CASE Due
  <2>1. SetReasonActive("ManualKeepAwake", FALSE, ok) /\ intent' = Inactive
    BY <1>3 DEF ExpireDue
  <2>2. "ManualKeepAwake" \in WakeReason
    BY DEF WakeReason
  <2>3. /\ native' \in ProtectionState
        /\ reasons' \subseteq WakeReason
        /\ reasons' = reasons \ {"ManualKeepAwake"}
        /\ NativeFollows
    BY <2>1, <2>2, SetReasonActiveEffect
  <2>4. ReasonStep
    BY <2>1, <2>3 DEF ReasonStep, Inactive
  <2> QED
    BY <2>4, <1>2
<1>4. CASE ~Due
  BY <1>4, <1>2 DEF ExpireDue
<1> QED
  BY <1>3, <1>4

(* The manual reason never vouches for the automatic one: the session      *)
(* gives up native protection only when no reason is left.                 *)
LEMMA ReasonStepKeepsCore ==
  ASSUME CoreOK, ReasonStep, UNCHANGED controllerVars
  PROVE  CoreOK'
<1>1. Desired' = Desired
  BY DEF controllerVars, Desired, DesiredUnder
<1>2. AutomaticReasonIsDesired'
  BY <1>1 DEF CoreOK, ReasonStep, AutomaticReasonIsDesired, controllerVars
<1>3. AutomaticFailureIsRecorded'
  BY <1>2 DEF CoreOK, ReasonStep, AutomaticReasonIsDesired, NativeFollows,
              AutomaticFailureIsRecorded, controllerVars
<1> QED
  BY <1>2, <1>3 DEF CoreOK, ReasonStep, controllerVars

-----------------------------------------------------------------------------
(* The inductive step, one proof step per action.                          *)

(* What all actions of the controller and the detector have in common: the *)
(* session and its reason are not touched.                                 *)
LEMMA ControllerStepKeepsManual ==
  ASSUME ControllerStep, ManualReasonIsIntended, SessionOK,
         UNCHANGED <<sessionVars, stage>>
  PROVE  CoreOK' /\ SessionOK' /\ ManualReasonIsIntended'
BY DEF ControllerStep, ManualReasonIsIntended, SessionOK, sessionVars,
       SchedulerWaitsForTheDeadline

LEMMA ReasonStepKeepsManual ==
  ASSUME ReasonStep, UNCHANGED stage, stage # "Stopped"
  PROVE  ManualReasonIsIntended'
BY DEF ReasonStep, ManualReasonIsIntended

LEMMA NextKeepsParts ==
  ASSUME InvariantParts, [Next]_vars
  PROVE  InvariantParts'
<1>p. /\ CoreOK
      /\ phase \in Phase
      /\ tuning \in Tuning
      /\ IntentIsQualified
      /\ SessionOK
      /\ ManualReasonIsIntended
      /\ ShellOK
      /\ ShutdownProgress
      /\ CommandKnowsSettings
  BY DEF InvariantParts
<1>n. native \in ProtectionState /\ reasons \subseteq WakeReason
  BY <1>p DEF CoreOK
(* Steps that leave the controller alone keep what is said about it.       *)
<1>s. ASSUME UNCHANGED <<coordinatorVars, controllerVars>> PROVE CoreOK'
  BY <1>p, <1>s DEF CoreOK, coordinatorVars, controllerVars, Desired,
                    DesiredUnder, AutomaticReasonIsDesired,
                    AutomaticFailureIsRecorded
<1>d. ASSUME UNCHANGED <<controllerVars, detectorVars>>
      PROVE  /\ IntentIsQualified'
             /\ phase' \in Phase
             /\ tuning' \in Tuning
  BY <1>p, <1>d DEF controllerVars, detectorVars, IntentIsQualified
<1>q. ASSUME UNCHANGED <<trayVars, persisted, policy, tuning>>
      PROVE  CommandKnowsSettings'
  BY <1>p, <1>q DEF trayVars, CommandKnowsSettings
<1>1. ASSUME NEW ok \in BOOLEAN, NetworkEvent(ok) PROVE InvariantParts'
  <2>1. /\ ControllerStep
        /\ phase' \in Phase
        /\ IntentIsQualified'
        /\ UNCHANGED <<policy, powerSource, tuning>>
    BY <1>1, <1>p, ConsumeStep DEF NetworkEvent
  <2>2. UNCHANGED <<sessionVars, persisted, trayVars, powerLeaked, stage>>
    BY <1>1 DEF NetworkEvent
  <2>3. CoreOK' /\ SessionOK' /\ ManualReasonIsIntended'
    BY <2>1, <2>2, <1>p, ControllerStepKeepsManual
  <2>4. CommandKnowsSettings'
    BY <2>1, <2>2, <1>q
  <2>5. ShellOK'
    BY <2>2, <1>p DEF ShellOK, trayVars
  <2>6. ShutdownProgress'
    BY <1>1, <2>2, <1>p DEF ShutdownProgress, NetworkEvent, ObserversRunning
  <2> QED
    BY <2>1, <2>3, <2>4, <2>5, <2>6, <1>p DEF InvariantParts
<1>2. ASSUME NEW power \in PowerSource, NEW ok \in BOOLEAN, PowerEvent(power, ok)
      PROVE  InvariantParts'
  <2>1. /\ SetPowerSource(power, ok)
        /\ UNCHANGED <<detectorVars, sessionVars, persisted, trayVars,
                       powerLeaked, stage>>
    BY <1>2 DEF PowerEvent
  <2>2. ControllerStep
    BY <2>1, <1>p, SetPowerSourceStep
  <2>3. CoreOK' /\ SessionOK' /\ ManualReasonIsIntended'
    BY <2>1, <2>2, <1>p, ControllerStepKeepsManual
  <2>4. UNCHANGED <<policy, detectorIntent>>
    BY <2>1 DEF SetPowerSource
  <2>5. CommandKnowsSettings'
    BY <2>1, <2>4, <1>q DEF detectorVars
  <2>6. ShellOK'
    BY <2>1, <1>p DEF ShellOK, trayVars
  <2>7. ShutdownProgress' /\ IntentIsQualified'
    BY <2>1, <2>4, <1>p
       DEF ShutdownProgress, IntentIsQualified, detectorVars, sessionVars
  <2> QED
    BY <2>1, <2>3, <2>5, <2>6, <2>7, <1>p DEF InvariantParts, detectorVars
<1>3. CASE StartSession
  <2>1. SessionOK' /\ UNCHANGED <<intent, accepting>>
    BY <1>3, <1>p DEF StartSession, StartScheduler, SessionOK, SchedulerState,
                      SchedulerWaitsForTheDeadline
  <2>2. UNCHANGED <<coordinatorVars, controllerVars, detectorVars, persisted,
                    trayVars, powerLeaked, stage>>
    BY <1>3 DEF StartSession
  <2>3. CoreOK' /\ IntentIsQualified' /\ phase' \in Phase /\ tuning' \in Tuning
    BY <2>2, <1>s, <1>d
  <2>4. CommandKnowsSettings'
    BY <2>2, <1>q DEF controllerVars, detectorVars
  <2>5. ShellOK' /\ ManualReasonIsIntended' /\ ShutdownProgress'
    BY <2>1, <2>2, <1>p DEF ShellOK, trayVars, ManualReasonIsIntended,
                            ShutdownProgress, coordinatorVars, controllerVars
  <2> QED
    BY <2>1, <2>3, <2>4, <2>5 DEF InvariantParts
<1>4. CASE Clock
  <2>1. SessionOK' /\ UNCHANGED <<intent, accepting>>
    BY <1>4, <1>p DEF Clock, Tick, SessionOK, SchedulerWaitsForTheDeadline
  <2>2. UNCHANGED <<coordinatorVars, controllerVars, detectorVars, persisted,
                    trayVars, powerLeaked, stage>>
    BY <1>4 DEF Clock
  <2>3. CoreOK' /\ IntentIsQualified' /\ phase' \in Phase /\ tuning' \in Tuning
    BY <2>2, <1>s, <1>d
  <2>4. CommandKnowsSettings'
    BY <2>2, <1>q DEF controllerVars, detectorVars
  <2>5. ShellOK' /\ ManualReasonIsIntended' /\ ShutdownProgress'
    BY <2>1, <2>2, <1>p DEF ShellOK, trayVars, ManualReasonIsIntended,
                            ShutdownProgress, coordinatorVars, controllerVars
  <2> QED
    BY <2>1, <2>3, <2>4, <2>5 DEF InvariantParts
<1>5. CASE SchedulerStep \/ SpuriousWake
  <2>1. SessionOK' /\ UNCHANGED <<intent, accepting>>
    BY <1>5, <1>p, SchedulerLoopStep DEF SchedulerStep, SpuriousWake
  <2>2. UNCHANGED <<coordinatorVars, controllerVars, detectorVars, persisted,
                    trayVars, powerLeaked, stage>>
    BY <1>5 DEF SchedulerStep, SpuriousWake
  <2>3. CoreOK' /\ IntentIsQualified' /\ phase' \in Phase /\ tuning' \in Tuning
    BY <2>2, <1>s, <1>d
  <2>4. CommandKnowsSettings'
    BY <2>2, <1>q DEF controllerVars, detectorVars
  <2>5. ShellOK' /\ ManualReasonIsIntended' /\ ShutdownProgress'
    BY <2>1, <2>2, <1>p DEF ShellOK, trayVars, ManualReasonIsIntended,
                            ShutdownProgress, coordinatorVars, controllerVars
  <2> QED
    BY <2>1, <2>3, <2>4, <2>5 DEF InvariantParts
<1>6. ASSUME NEW ok \in BOOLEAN, SchedulerExpiry(ok) PROVE InvariantParts'
  <2>1. /\ SessionOK'
        /\ UNCHANGED accepting
        /\ ReasonStep \/ UNCHANGED <<intent, reasons, native>>
    BY <1>6, <1>p, <1>n, ExpireDueStep DEF SchedulerExpiry
  <2>2. UNCHANGED <<controllerVars, detectorVars, persisted, trayVars,
                    powerLeaked, stage>>
    BY <1>6 DEF SchedulerExpiry
  <2>3. CoreOK'
    BY <2>1, <2>2, <1>p, <1>s, ReasonStepKeepsCore DEF coordinatorVars
  <2>4. IntentIsQualified' /\ phase' \in Phase /\ tuning' \in Tuning
    BY <2>2, <1>d
  <2>5. CommandKnowsSettings'
    BY <2>2, <1>q DEF controllerVars, detectorVars
  <2>6. ShellOK' /\ ShutdownProgress'
    BY <2>1, <2>2, <1>p DEF ShellOK, trayVars, ShutdownProgress, controllerVars
  <2>7. ManualReasonIsIntended'
    <3>1. CASE UNCHANGED <<intent, reasons, native>>
      BY <3>1, <2>2, <1>p DEF ManualReasonIsIntended
    <3>2. CASE ReasonStep /\ stage # "Stopped"
      BY <3>2, <2>2, ReasonStepKeepsManual
    <3>3. CASE ReasonStep /\ stage = "Stopped"
      BY <3>3, <2>2, <1>6, <1>p, <1>n, SetReasonActiveEffect
         DEF ManualReasonIsIntended, SchedulerExpiry, ExpireDue, WakeReason
    <3> QED
      BY <2>1, <3>1, <3>2, <3>3
  <2> QED
    BY <2>1, <2>3, <2>4, <2>5, <2>6, <2>7 DEF InvariantParts
(* Steps that only move the shell around the components.                   *)
<1>k. ASSUME UNCHANGED <<coordinatorVars, controllerVars, detectorVars, sessionVars>>
      PROVE  /\ CoreOK'
             /\ phase' \in Phase
             /\ tuning' \in Tuning
             /\ IntentIsQualified'
             /\ SessionOK'
  BY <1>p, <1>k, <1>s, <1>d
     DEF SessionOK, sessionVars, SchedulerWaitsForTheDeadline
<1>t. ASSUME UNCHANGED <<intent, reasons, accepting, detectorIntent, stage>>
      PROVE  ManualReasonIsIntended' /\ ShutdownProgress'
  BY <1>p, <1>t DEF ManualReasonIsIntended, ShutdownProgress
<1>7. CASE FinishStartup \/ BeginShutdown \/ StopNetwork \/ JoinScheduler
  <2>1. UNCHANGED <<coordinatorVars, controllerVars, detectorVars, sessionVars,
                    persisted, trayVars, powerLeaked>>
    BY <1>7 DEF FinishStartup, BeginShutdown, StopNetwork, JoinScheduler
  <2>2. \/ stage' \in {"Operational", "Begun", "NetworkStopped"}
        \/ stage = "SchedulerStopping" /\ stage' = "SchedulerStopped"
    BY <1>7 DEF FinishStartup, BeginShutdown, StopNetwork, JoinScheduler
  <2>3. stage # "Stopped"
    BY <1>7 DEF FinishStartup, BeginShutdown, StopNetwork, JoinScheduler
  <2>4. ShellOK'
    BY <2>1, <2>2, <1>p DEF ShellOK, trayVars, Stage
  <2>5. ManualReasonIsIntended' /\ ShutdownProgress'
    BY <2>1, <2>2, <2>3, <1>p DEF ManualReasonIsIntended, ShutdownProgress,
                            coordinatorVars, controllerVars, sessionVars
  <2>6. CommandKnowsSettings'
    BY <2>1, <1>q DEF controllerVars, detectorVars
  <2> QED
    BY <2>1, <2>4, <2>5, <2>6, <1>k DEF InvariantParts
<1>8. ASSUME NEW op \in TrayOperations, AdmitCommand(op) PROVE InvariantParts'
  <2>1. UNCHANGED <<coordinatorVars, controllerVars, detectorVars, sessionVars,
                    persisted, update, powerLeaked, stage>>
    BY <1>8 DEF AdmitCommand
  <2>2. trayStage = "Idle" /\ trayStage' = "Admitted" /\ trayOp' = op
    BY <1>8 DEF AdmitCommand
  <2>3. ShellOK'
    BY <2>1, <2>2, <1>p, TrayAssumption DEF ShellOK, TrayStage
  <2>4. CommandKnowsSettings'
    BY <2>1, <2>2, <1>p DEF CommandKnowsSettings, controllerVars, detectorVars
  <2>5. ManualReasonIsIntended' /\ ShutdownProgress'
    BY <2>1, <1>t DEF coordinatorVars, controllerVars, sessionVars
  <2> QED
    BY <2>1, <2>3, <2>4, <2>5, <1>k DEF InvariantParts
<1>9. ASSUME NEW ok \in BOOLEAN, RunManualCommand(ok) PROVE InvariantParts'
  <2>1. UNCHANGED <<controllerVars, detectorVars, persisted, update, powerLeaked,
                    stage>>
    BY <1>9 DEF RunManualCommand
  <2>2. trayStage = "Admitted" /\ trayStage' = "Idle" /\ trayOp' = "None"
    BY <1>9 DEF RunManualCommand, FinishCommand
  <2>3. ShellOK'
    BY <2>1, <2>2, <1>p DEF ShellOK, TrayStage
  <2>4. CommandKnowsSettings'
    BY <2>1, <2>2, <1>p DEF CommandKnowsSettings, controllerVars, detectorVars
  <2>5. IntentIsQualified' /\ phase' \in Phase /\ tuning' \in Tuning
    BY <2>1, <1>d
  <2>6. CASE Command(ok)
    <3>1. accepting /\ SessionOK' /\ ReasonStep
      BY <2>6, <1>p, <1>n, CommandStep
    <3>2. stage # "Stopped" /\ accepting' = accepting
      BY <3>1, <2>6, <1>p DEF ShutdownProgress, Command, StartFinite,
         StartUntilDisabled, Add, ConvertToUntilDisabled, Stop, Commit
    <3>3. CoreOK' /\ ManualReasonIsIntended'
      BY <3>1, <3>2, <2>1, <1>p, ReasonStepKeepsCore, ReasonStepKeepsManual
    <3>4. ShutdownProgress'
      BY <3>2, <2>1, <1>p DEF ShutdownProgress, controllerVars
    <3> QED
      BY <3>1, <3>3, <3>4, <2>3, <2>4, <2>5 DEF InvariantParts
  <2>7. CASE UNCHANGED <<sessionVars, coordinatorVars>>
    <3>1. ManualReasonIsIntended' /\ ShutdownProgress'
      BY <2>1, <2>7, <1>t DEF coordinatorVars, controllerVars, sessionVars
    <3> QED
      BY <3>1, <2>1, <2>7, <2>3, <2>4, <1>k DEF InvariantParts
  <2> QED
    BY <1>9, <2>6, <2>7 DEF RunManualCommand
<1>10. CASE ReadToggle
  <2>1. UNCHANGED <<coordinatorVars, controllerVars, detectorVars, sessionVars,
                    persisted, trayOp, powerLeaked, stage>>
    BY <1>10 DEF ReadToggle
  <2>2. /\ trayStage = "Admitted" /\ trayStage' = "Persisting"
        /\ trayOp \in {"ToggleAutomatic", "ToggleBattery"}
    BY <1>10 DEF ReadToggle
  <2>3. update' \in Settings
    <3>1. policy \in Policy /\ update \in Settings
      BY <1>p DEF CoreOK, ShellOK
    <3>2. /\ [policy EXCEPT !.enabled = ~@] \in Policy
          /\ [policy EXCEPT !.onBattery = ~@] \in Policy
      BY <3>1 DEF Policy
    <3> QED
      BY <1>10, <3>1, <3>2 DEF ReadToggle, Settings
  <2>4. ShellOK'
    BY <2>1, <2>2, <2>3, <1>p DEF ShellOK, TrayStage
  <2>5. CommandKnowsSettings'
    BY <2>1, <2>2, <1>p DEF CommandKnowsSettings, controllerVars, detectorVars
  <2>6. ManualReasonIsIntended' /\ ShutdownProgress'
    BY <2>1, <1>t DEF coordinatorVars, controllerVars, sessionVars
  <2> QED
    BY <2>1, <2>4, <2>5, <2>6, <1>k DEF InvariantParts
<1>11. ASSUME NEW chosen \in Tuning, ReadTuning(chosen) PROVE InvariantParts'
  <2>1. UNCHANGED <<coordinatorVars, controllerVars, detectorVars, sessionVars,
                    persisted, powerLeaked, stage>>
    BY <1>11 DEF ReadTuning
  <2>2. /\ trayStage = "Admitted"
        /\ trayOp = "Tune"
        /\ \/ trayStage' = "Idle" /\ trayOp' = "None" /\ update' = update
           \/ /\ trayStage' = "Persisting"
              /\ trayOp' = trayOp
              /\ update' = [update EXCEPT !.tuning = chosen]
    BY <1>11 DEF ReadTuning, FinishCommand
  <2>3. ShellOK'
    BY <2>1, <2>2, <1>p DEF ShellOK, TrayStage, Settings
  <2>4. CommandKnowsSettings'
    BY <2>1, <2>2, <1>p DEF CommandKnowsSettings, controllerVars, detectorVars
  <2>5. ManualReasonIsIntended' /\ ShutdownProgress'
    BY <2>1, <1>t DEF coordinatorVars, controllerVars, sessionVars
  <2> QED
    BY <2>1, <2>3, <2>4, <2>5, <1>k DEF InvariantParts
<1>12. ASSUME NEW saved \in BOOLEAN, PersistUpdate(saved) PROVE InvariantParts'
  <2>1. UNCHANGED <<coordinatorVars, controllerVars, detectorVars, sessionVars,
                    powerLeaked, stage>>
    BY <1>12 DEF PersistUpdate
  <2>2. persisted \in Settings /\ update \in Settings
    BY <1>p DEF ShellOK
  <2>3. trayOp \in {"ToggleAutomatic", "ToggleBattery", "Tune"}
    BY <1>12, <1>p DEF PersistUpdate, CommandKnowsSettings
  <2>4. /\ Acknowledged \in Settings
        /\ trayOp = "Tune" => Acknowledged.policy = persisted.policy
        /\ trayOp # "Tune" => Acknowledged.tuning = persisted.tuning
    <3>1. CASE trayOp = "Tune"
      BY <3>1, <2>2 DEF Acknowledged, Settings
    <3>2. CASE trayOp = "ToggleAutomatic"
      BY <3>2, <2>2 DEF Acknowledged, Settings, Policy
    <3>3. CASE trayOp = "ToggleBattery"
      BY <3>3, <2>2 DEF Acknowledged, Settings, Policy
    <3> QED
      BY <2>3, <3>1, <3>2, <3>3
  <2>5. \/ /\ trayStage' = "Applying"
           /\ persisted' = Acknowledged
           /\ update' = Acknowledged
           /\ UNCHANGED trayOp
        \/ /\ trayStage' = "Idle"
           /\ trayOp' = "None"
           /\ update' = persisted
           /\ UNCHANGED persisted
    BY <1>12 DEF PersistUpdate, FinishCommand
  <2>6. trayStage = "Persisting"
    BY <1>12 DEF PersistUpdate
  <2>7. ShellOK'
    BY <2>1, <2>2, <2>4, <2>5, <1>p DEF ShellOK, TrayStage
  <2>8. CommandKnowsSettings'
    BY <2>1, <2>3, <2>4, <2>5, <2>6, <1>p
       DEF CommandKnowsSettings, controllerVars, detectorVars
  <2>9. ManualReasonIsIntended' /\ ShutdownProgress'
    BY <2>1, <1>t DEF coordinatorVars, controllerVars, sessionVars
  <2> QED
    BY <2>1, <2>7, <2>8, <2>9, <1>k DEF InvariantParts
<1>13. ASSUME NEW ok \in BOOLEAN, ApplyUpdate(ok) PROVE InvariantParts'
  <2>1. UNCHANGED <<sessionVars, persisted, update, powerLeaked, stage>>
    BY <1>13 DEF ApplyUpdate
  <2>2. /\ trayStage = "Applying"
        /\ trayStage' = "Idle"
        /\ trayOp' = "None"
        /\ update = persisted
        /\ update \in Settings
    BY <1>13, <1>p DEF ApplyUpdate, FinishCommand, CommandKnowsSettings, ShellOK
  <2>3. /\ ControllerStep
        /\ phase' \in Phase
        /\ IntentIsQualified'
        /\ policy' = persisted.policy
        /\ tuning' = persisted.tuning
        /\ detectorIntent' => detectorIntent
    <3>1. CASE trayOp = "Tune"
      <4>1. ApplyTuning(update.tuning, ok)
        BY <1>13, <3>1 DEF ApplyUpdate
      <4>2. Publish(Quiescent, ok) /\ tuning' = update.tuning
        BY <4>1 DEF ApplyTuning
      <4>3. detectorIntent' = FALSE
        BY <4>2 DEF Publish, SetDetectorIntent, Quiescent, Idle
      <4> QED
        BY <4>2, <4>3, <3>1, <2>2, <1>p, QuiescentType, PublishStep
           DEF CommandKnowsSettings
    <3>2. CASE trayOp # "Tune"
      <4>1. SetSettings(update.policy, ok) /\ UNCHANGED detectorVars
        BY <1>13, <3>2 DEF ApplyUpdate
      <4>2. update.policy \in Policy
        BY <2>2 DEF Settings
      <4>3. ControllerStep
        BY <4>1, <4>2, <1>p, SetSettingsStep
      <4> QED
        BY <4>1, <4>3, <3>2, <2>2, <1>p
           DEF SetSettings, detectorVars, CommandKnowsSettings, IntentIsQualified
    <3> QED
      BY <3>1, <3>2
  <2>4. CoreOK' /\ SessionOK' /\ ManualReasonIsIntended'
    BY <2>1, <2>3, <1>p, ControllerStepKeepsManual
  <2>5. tuning' \in Tuning /\ persisted = [policy |-> policy', tuning |-> tuning']
    BY <2>2, <2>3 DEF Settings
  <2>6. ShellOK' /\ CommandKnowsSettings'
    BY <2>1, <2>2, <2>5, <1>p DEF ShellOK, TrayStage, CommandKnowsSettings
  <2>7. ShutdownProgress'
    BY <2>1, <2>3, <2>4, <1>p DEF ShutdownProgress, sessionVars, CoreOK
  <2> QED
    BY <2>3, <2>4, <2>5, <2>6, <2>7 DEF InvariantParts
<1>14. ASSUME NEW ok \in BOOLEAN, StopPower(ok) PROVE InvariantParts'
  <2>1. /\ SetPowerSource("Unknown", ok)
        /\ UNCHANGED <<detectorVars, sessionVars, persisted, trayVars>>
        /\ powerLeaked' \in BOOLEAN
        /\ stage = "NetworkStopped" /\ stage' = "PowerStopped"
    BY <1>14 DEF StopPower
  <2>2. "Unknown" \in PowerSource
    BY DEF PowerSource
  <2>3. ControllerStep
    BY <2>1, <2>2, <1>p, SetPowerSourceStep
  <2>4. UNCHANGED <<policy, detectorIntent>>
    BY <2>1 DEF SetPowerSource
  <2>5. CoreOK' /\ SessionOK' /\ ManualReasonIsIntended'
    BY <2>1, <2>3, <1>p
       DEF ControllerStep, ManualReasonIsIntended, SessionOK, sessionVars,
           SchedulerWaitsForTheDeadline
  <2>6. CommandKnowsSettings'
    BY <2>1, <2>4, <1>q DEF detectorVars
  <2>7. ShellOK' /\ ShutdownProgress'
    BY <2>1, <1>p DEF ShellOK, trayVars, Stage, ShutdownProgress
  <2>8. IntentIsQualified'
    BY <2>1, <2>4, <1>p DEF IntentIsQualified, detectorVars
  <2> QED
    BY <2>1, <2>5, <2>6, <2>7, <2>8, <1>p DEF InvariantParts, detectorVars
<1>15. ASSUME NEW ok \in BOOLEAN, StopDetector(ok) PROVE InvariantParts'
  <2>1. /\ Publish(Quiescent, ok)
        /\ UNCHANGED <<tuning, sessionVars, persisted, trayVars, powerLeaked>>
        /\ stage = "PowerStopped" /\ stage' = "DetectorStopped"
    BY <1>15 DEF StopDetector, MonitorShutdown
  <2>2. /\ ControllerStep
        /\ phase' = Quiescent
        /\ IntentIsQualified'
        /\ UNCHANGED policy
    BY <2>1, <1>p, QuiescentType, PublishStep
  <2>3. CoreOK' /\ SessionOK' /\ ManualReasonIsIntended'
    BY <2>1, <2>2, <1>p
       DEF ControllerStep, ManualReasonIsIntended, SessionOK, sessionVars,
           SchedulerWaitsForTheDeadline
  <2>4. ~detectorIntent'
    BY <2>2, <2>3 DEF IntentIsQualified, Quiescent, Idle, CoreOK
  <2>5. ShellOK' /\ ShutdownProgress'
    BY <2>1, <2>4, <1>p DEF ShellOK, trayVars, Stage, ShutdownProgress
  <2>6. CommandKnowsSettings'
    BY <2>1, <2>2, <1>q
  <2> QED
    BY <2>1, <2>2, <2>3, <2>5, <2>6, <1>p, QuiescentType DEF InvariantParts
<1>16. CASE StopScheduler
  <2>1. /\ UNCHANGED <<coordinatorVars, controllerVars, detectorVars, persisted,
                       trayVars, powerLeaked>>
        /\ stage = "DetectorStopped" /\ stage' = "SchedulerStopping"
        /\ RequestSchedulerShutdown
    BY <1>16 DEF StopScheduler
  <2>2. SessionOK' /\ accepting' = FALSE /\ UNCHANGED intent
    BY <2>1, <1>p DEF RequestSchedulerShutdown, NotifyAll, SessionOK,
                      SchedulerState, SchedulerWaitsForTheDeadline
  <2>3. CoreOK' /\ IntentIsQualified' /\ phase' \in Phase /\ tuning' \in Tuning
    BY <2>1, <1>s, <1>d
  <2>4. ShellOK' /\ ManualReasonIsIntended' /\ ShutdownProgress'
    BY <2>1, <2>2, <1>p DEF ShellOK, trayVars, Stage, ManualReasonIsIntended,
                            ShutdownProgress, coordinatorVars, controllerVars
  <2>5. CommandKnowsSettings'
    BY <2>1, <1>q DEF controllerVars, detectorVars
  <2> QED
    BY <2>2, <2>3, <2>4, <2>5 DEF InvariantParts
<1>17. ASSUME NEW ok \in BOOLEAN, StopCoordinator(ok) PROVE InvariantParts'
  <2>1. /\ UNCHANGED <<controllerVars, detectorVars, sessionVars, persisted,
                       trayVars, powerLeaked>>
        /\ stage = "SchedulerStopped" /\ stage' = "Stopped"
        /\ CoordinatorShutdown(ok)
    BY <1>17 DEF StopCoordinator
  <2>2. reasons' = {} /\ native' \in ProtectionState
    BY <2>1, <1>n, CoordinatorShutdownEffect
  <2>3. ~detectorIntent /\ ~Desired /\ ~lastCommandedDesired
    BY <2>1, <1>p DEF ShutdownProgress, Desired, DesiredUnder, CoreOK,
                      AutomaticReasonIsDesired
  <2>4. ~Desired' /\ lastCommandedDesired' = lastCommandedDesired
    BY <2>1, <2>3 DEF controllerVars, Desired, DesiredUnder
  <2>5. CoreOK'
    BY <2>1, <2>2, <2>3, <2>4, <1>p
       DEF CoreOK, controllerVars, AutomaticReasonIsDesired, Desired, DesiredUnder,
           AutomaticFailureIsRecorded
  <2>6. IntentIsQualified' /\ phase' \in Phase /\ tuning' \in Tuning
    BY <2>1, <1>d
  <2>7. SessionOK' /\ ManualReasonIsIntended'
    BY <2>1, <2>2, <1>p DEF SessionOK, sessionVars, SchedulerWaitsForTheDeadline,
                            ManualReasonIsIntended
  <2>8. ShellOK' /\ ShutdownProgress'
    BY <2>1, <1>p DEF ShellOK, trayVars, Stage, ShutdownProgress, sessionVars,
                      controllerVars
  <2>9. CommandKnowsSettings'
    BY <2>1, <1>q DEF controllerVars, detectorVars
  <2> QED
    BY <2>5, <2>6, <2>7, <2>8, <2>9 DEF InvariantParts
<1>18. CASE UNCHANGED vars
  <2>1. /\ UNCHANGED <<coordinatorVars, controllerVars, detectorVars, sessionVars>>
        /\ UNCHANGED <<persisted, trayVars, powerLeaked, stage>>
    BY <1>18 DEF vars
  <2>2. ShellOK' /\ CommandKnowsSettings'
    BY <2>1, <1>p, <1>q DEF ShellOK, trayVars, controllerVars, detectorVars
  <2>3. ManualReasonIsIntended' /\ ShutdownProgress'
    BY <2>1, <1>t DEF coordinatorVars, controllerVars, sessionVars
  <2> QED
    BY <2>1, <2>2, <2>3, <1>k DEF InvariantParts
<1>19. CASE TrayStep
  BY <1>19, <1>9, <1>10, <1>11, <1>12, <1>13 DEF TrayStep
<1>20. CASE Shutdown
  BY <1>20, <1>7, <1>14, <1>15, <1>16, <1>17 DEF Shutdown
<1> QED
  BY <1>1, <1>2, <1>3, <1>4, <1>5, <1>6, <1>7, <1>8, <1>18, <1>19, <1>20 DEF Next

-----------------------------------------------------------------------------
(* The invariant and what follows from it.                                 *)

(* Every reachable state satisfies the inductive invariant.                *)
THEOREM InvariantHolds == Spec => []InductiveInvariant
<1>1. Init => InvariantParts
  BY InitInvariant, InvariantIsItsParts
<1>2. InvariantParts /\ [Next]_vars => InvariantParts'
  BY NextKeepsParts
<1>3. Spec => []InvariantParts
  BY <1>1, <1>2, PTL DEF Spec
<1>4. InvariantParts => InductiveInvariant
  BY InvariantIsItsParts
<1> QED
  BY <1>3, <1>4, PTL

(* The variables keep their types, for every choice of durations, rates,   *)
(* thresholds and graces.                                                  *)
THEOREM TypeCorrectness == Spec => []TypeOK
<1>1. InductiveInvariant => TypeOK
  BY DEF InductiveInvariant
<1> QED
  BY <1>1, InvariantHolds, PTL

(* The coordinator holds exactly the reasons the session and the policy    *)
(* ask for, whatever native calls failed, until it is shut down            *)
(* (manual_session.rs command_inner, automatic_protection.rs reconcile).   *)
THEOREM ReasonsAreRequests == Spec => []RequestsMatchReasons
<1>1. InductiveInvariant => RequestsMatchReasons
  BY DEF InductiveInvariant, RequestsMatchReasons, AutomaticReasonIsDesired,
         ManualReasonIsIntended, IntentIsQualified
<1> QED
  BY <1>1, InvariantHolds, PTL

(* An automatic reason the controller has no failure on record for is      *)
(* protected, although the session shares the native protection.           *)
THEOREM FailuresAreRecorded == Spec => []AutomaticFailureIsRecorded
<1>1. InductiveInvariant => AutomaticFailureIsRecorded
  BY DEF InductiveInvariant
<1> QED
  BY <1>1, InvariantHolds, PTL

(* Live settings and saved settings differ only between saving and         *)
(* applying (tray.rs, set_automatic_protection and its siblings).          *)
THEOREM SettingsAreLive == Spec => []SavedSettingsAreLive
<1>1. InductiveInvariant => SavedSettingsAreLive
  BY DEF InductiveInvariant, CommandKnowsSettings, SavedSettingsAreLive
<1> QED
  BY <1>1, InvariantHolds, PTL

(* The scheduler never sleeps through a deadline, whatever commands run    *)
(* while it decides how long to wait (manual_session.rs run_scheduler).    *)
THEOREM SchedulerWakesInTime == Spec => []SchedulerWaitsForTheDeadline
<1>1. InductiveInvariant => SchedulerWaitsForTheDeadline
  BY DEF InductiveInvariant
<1> QED
  BY <1>1, InvariantHolds, PTL

(* After the last step of shutdown nothing is held.                        *)
LEMMA StoppedHoldsNothing == InductiveInvariant => NoReasonOutlivesShutdown
<1> SUFFICES ASSUME InductiveInvariant, stage = "Stopped" PROVE reasons = {}
  BY DEF NoReasonOutlivesShutdown
<1>1. "AutomaticDownload" \notin reasons
  BY DEF InductiveInvariant, ShutdownProgress, AutomaticReasonIsDesired, Desired,
         DesiredUnder
<1>2. "ManualKeepAwake" \notin reasons
  BY DEF InductiveInvariant, ManualReasonIsIntended
<1> QED
  BY <1>1, <1>2 DEF InductiveInvariant, TypeOK, WakeReason

(* After shutdown no reason is held again, although callers are left       *)
(* (wake_coordinator.rs shutdown, which closes nothing behind it).         *)
THEOREM ShutdownIsFinal == Spec => []NoReasonOutlivesShutdown
BY StoppedHoldsNothing, InvariantHolds, PTL

-----------------------------------------------------------------------------
(* Sessions.                                                               *)

(* Only a command and an expiry change the session's intent.               *)
LEMMA WhoChangesTheIntent ==
  ASSUME [Next]_vars
  PROVE  \/ UNCHANGED intent
         \/ \E ok \in BOOLEAN : RunManualCommand(ok) /\ Command(ok)
         \/ \E ok \in BOOLEAN : SchedulerExpiry(ok) /\ Due /\ intent' = Inactive
<1>1. ASSUME NEW ok \in BOOLEAN, SchedulerExpiry(ok)
      PROVE  UNCHANGED intent \/ (Due /\ intent' = Inactive)
  BY <1>1 DEF SchedulerExpiry, ExpireDue
<1>2. ASSUME NEW ok \in BOOLEAN, RunManualCommand(ok)
      PROVE  UNCHANGED intent \/ Command(ok)
  BY <1>2 DEF RunManualCommand, sessionVars
<1>3. CASE \/ \E ok \in BOOLEAN : NetworkEvent(ok)
           \/ \E power \in PowerSource, ok \in BOOLEAN : PowerEvent(power, ok)
           \/ StartSession \/ FinishStartup \/ Clock
           \/ SchedulerStep \/ SpuriousWake
           \/ \E op \in TrayOperations : AdmitCommand(op)
           \/ BeginShutdown
  BY <1>3 DEF NetworkEvent, PowerEvent, StartSession, StartScheduler,
              FinishStartup, Clock, Tick, SchedulerStep, SchedulerCheck,
              SchedulerTimeout, SpuriousWake, SchedulerSpuriousWake,
              AdmitCommand, BeginShutdown, sessionVars
<1>4. CASE Shutdown
  BY <1>4 DEF Shutdown, StopNetwork, StopPower, StopDetector, StopScheduler,
              RequestSchedulerShutdown, JoinScheduler, StopCoordinator, sessionVars
<1>5. CASE \/ ReadToggle
           \/ \E chosen \in Tuning : ReadTuning(chosen)
           \/ \E saved \in BOOLEAN : PersistUpdate(saved)
           \/ \E ok \in BOOLEAN : ApplyUpdate(ok)
  BY <1>5 DEF ReadToggle, ReadTuning, PersistUpdate, ApplyUpdate, sessionVars
<1>6. CASE UNCHANGED vars
  BY <1>6 DEF vars, sessionVars
<1> QED
  BY <1>1, <1>2, <1>3, <1>4, <1>5, <1>6 DEF Next, TrayStep

(* A session ends by a command or at its deadline, never by a scheduler    *)
(* acting on a check that a command has overtaken (expire_due).            *)
THEOREM SessionsAreNotCutShort == Spec => SessionsEndOnTime
<1>1. [Next]_vars =>
        [intent.kind # "Inactive" /\ intent'.kind = "Inactive" =>
           Due \/ (trayOp = "Manual" /\ trayOp' = "None")]_vars
  BY WhoChangesTheIntent DEF RunManualCommand, FinishCommand
<1> QED
  BY <1>1, PTL DEF Spec, SessionsEndOnTime

(* Time is added to the deadline there is, never to the present instant    *)
(* (manual_session.rs command_inner).                                      *)
THEOREM AddedTimeIsKept == Spec => AddExtendsTheDeadline
<1> DEFINE Extends ==
      intent.kind = "Finite" /\ intent'.kind = "Finite" =>
        \E duration \in AddDurations \cup {0} :
          intent'.deadline = intent.deadline + duration
<1>1. ASSUME InductiveInvariant, [Next]_vars PROVE [Extends]_vars
  <2>1. intent.deadline \in Nat
    BY <1>1 DEF InductiveInvariant, TypeOK, Intent
  <2>2. CASE UNCHANGED intent
    <3>1. intent'.deadline = intent.deadline + 0
      BY <2>1, <2>2
    <3> QED
      BY <3>1
  <2>3. ASSUME NEW ok \in BOOLEAN, Command(ok) PROVE Extends
    BY <2>3 DEF Command, StartFinite, StartUntilDisabled, Add,
                ConvertToUntilDisabled, Stop, Commit, Finite, UntilDisabled,
                Inactive
  <2>4. CASE intent' = Inactive
    BY <2>4 DEF Inactive
  <2> QED
    BY <1>1, <2>2, <2>3, <2>4, WhoChangesTheIntent
<1>2. InductiveInvariant /\ [Next]_vars => [Extends]_vars
  BY <1>1
<1> QED
  BY <1>2, InvariantHolds, PTL DEF Spec, AddExtendsTheDeadline

-----------------------------------------------------------------------------
(* Failures of automatic protection.                                       *)

(* A command with a failure on record is given again whatever the desire,  *)
(* and a call that succeeds leaves native protection as the reasons are.   *)
LEMMA ReconcileMakesUpForFailure ==
  ASSUME CoreOK, coordinationFailure, NEW desired \in BOOLEAN,
         ReconcileAutomatic(desired, TRUE)
  PROVE  ~coordinationFailure' /\ (native' = "Active" <=> reasons' # {})
<1>1. SetReasonActive("AutomaticDownload", desired, TRUE)
      /\ coordinationFailure' = FALSE
  BY DEF ReconcileAutomatic
<1>2. native' = "Active" <=> reasons' # {}
  BY <1>1, SetReasonActiveEffect DEF CoreOK, WakeReason
<1> QED
  BY <1>1, <1>2

(* The first occasion with a native call that succeeds makes up for a      *)
(* failed automatic command, whether or not the desire has changed, and    *)
(* leaves the system kept awake exactly if a reason is left                *)
(* (automatic_protection.rs reconcile).                                    *)
THEOREM FailuresAreMadeUpFor == Spec => FailureIsMadeUpFor
<1> DEFINE MadeUpFor ==
      ~coordinationFailure' /\ (native' = "Active" <=> reasons' # {})
<1>1. ASSUME InductiveInvariant, coordinationFailure, Reconsiders
      PROVE  MadeUpFor
  <2>1. CoreOK
    BY <1>1, InvariantIsItsParts DEF InvariantParts
  <2>2. ASSUME NEW i \in BOOLEAN, SetDetectorIntent(i, TRUE)
        PROVE  MadeUpFor
    <3>1. DesiredUnder(i, policy, powerSource) \in BOOLEAN
      BY <2>1, DesiredType DEF CoreOK
    <3> QED
      BY <1>1, <2>1, <2>2, <3>1, ReconcileMakesUpForFailure
         DEF SetDetectorIntent
  <2>3. ASSUME NEW power \in PowerSource, SetPowerSource(power, TRUE)
        PROVE  MadeUpFor
    <3>1. DesiredUnder(detectorIntent, policy, power) \in BOOLEAN
      BY <2>1, DesiredType DEF CoreOK
    <3> QED
      BY <1>1, <2>1, <2>3, <3>1, ReconcileMakesUpForFailure DEF SetPowerSource
  <2>4. ASSUME NEW next, Publish(next, TRUE)
        PROVE  MadeUpFor
    BY <2>2, <2>4 DEF Publish
  <2>5. CASE NetworkEvent(TRUE)
    BY <2>4, <2>5 DEF NetworkEvent, Consume, ConsumeSample,
                      ConsumeContinuityLost, ConsumeAvailabilityChanged
  <2>6. CASE \E power \in PowerSource : PowerEvent(power, TRUE)
    BY <2>3, <2>6 DEF PowerEvent
  <2>7. CASE ApplyUpdate(TRUE)
    <3>1. CASE trayOp = "Tune"
      BY <2>4, <2>7, <3>1 DEF ApplyUpdate, ApplyTuning
    <3>2. CASE trayOp # "Tune"
      <4>1. /\ update.policy \in Policy
            /\ SetSettings(update.policy, TRUE)
        BY <1>1, <2>7, <3>2 DEF ApplyUpdate, InductiveInvariant, TypeOK, Settings
      <4>2. DesiredUnder(detectorIntent, update.policy, powerSource) \in BOOLEAN
        BY <2>1, <4>1, DesiredType DEF CoreOK
      <4> QED
        BY <1>1, <2>1, <4>1, <4>2, ReconcileMakesUpForFailure DEF SetSettings
    <3> QED
      BY <3>1, <3>2
  <2>8. CASE StopPower(TRUE)
    BY <2>3, <2>8 DEF StopPower, PowerSource
  <2>9. CASE StopDetector(TRUE)
    BY <2>4, <2>9 DEF StopDetector, MonitorShutdown
  <2> QED
    BY <1>1, <2>5, <2>6, <2>7, <2>8, <2>9 DEF Reconsiders
<1>2. InductiveInvariant =>
        [coordinationFailure /\ Reconsiders =>
           /\ ~coordinationFailure'
           /\ native' = "Active" <=> reasons' # {}]_vars
  BY <1>1
<1> QED
  BY <1>2, InvariantHolds, PTL DEF FailureIsMadeUpFor

-----------------------------------------------------------------------------
(* The refinement.                                                         *)

(* What the owners of the wish want is what the coordinator holds.         *)
LEMMA WantedIsHeld == InductiveInvariant => Wanted = reasons
<1> SUFFICES ASSUME InductiveInvariant PROVE Wanted = reasons
  OBVIOUS
<1>1. reasons \subseteq {"AutomaticDownload", "ManualKeepAwake"}
  BY DEF InductiveInvariant, TypeOK, WakeReason
<1>2. CASE stage = "Stopped"
  BY <1>1, <1>2, StoppedHoldsNothing DEF NoReasonOutlivesShutdown, Wanted
<1>3. CASE stage # "Stopped"
  <2>1. "ManualKeepAwake" \in reasons <=> intent.kind # "Inactive"
    BY <1>3 DEF InductiveInvariant, ManualReasonIsIntended
  <2>2. "AutomaticDownload" \in reasons <=> Desired
    BY DEF InductiveInvariant, AutomaticReasonIsDesired
  <2> QED
    BY <1>1, <1>3, <2>1, <2>2 DEF Wanted, WakeReason
<1> QED
  BY <1>2, <1>3

(* Every step but the last of the shutdown touches at most one reason, and *)
(* native protection only ever follows the reasons.                        *)
OneReasonStep ==
  /\ NativeFollows
  /\ stage' = "Stopped" <=> stage = "Stopped"
  /\ \/ "ManualKeepAwake" \in reasons' <=> "ManualKeepAwake" \in reasons
     \/ "AutomaticDownload" \in reasons' <=> "AutomaticDownload" \in reasons

LEMMA NextTouchesOneReason ==
  ASSUME InvariantParts, [Next]_vars
  PROVE  \/ OneReasonStep
         \/ NativeFollows /\ stage # "Stopped" /\ stage' = "Stopped"
<1>p. CoreOK /\ phase \in Phase /\ tuning \in Tuning /\ SessionOK /\ ShellOK
  BY DEF InvariantParts
<1>n. native \in ProtectionState /\ reasons \subseteq WakeReason
  BY <1>p DEF CoreOK
<1>c. ASSUME ControllerStep, stage' = "Stopped" <=> stage = "Stopped"
      PROVE  OneReasonStep
  BY <1>c DEF ControllerStep, OneReasonStep
<1>u. ASSUME UNCHANGED coordinatorVars, stage' = "Stopped" <=> stage = "Stopped"
      PROVE  OneReasonStep
  BY <1>u DEF coordinatorVars, OneReasonStep, NativeFollows
<1>r. ASSUME ReasonStep, UNCHANGED stage PROVE OneReasonStep
  BY <1>r DEF ReasonStep, OneReasonStep
<1>1. ASSUME NEW ok \in BOOLEAN, NetworkEvent(ok) PROVE OneReasonStep
  BY <1>1, <1>p, <1>c, ConsumeStep DEF NetworkEvent
<1>2. ASSUME NEW power \in PowerSource, NEW ok \in BOOLEAN, PowerEvent(power, ok)
      PROVE  OneReasonStep
  BY <1>2, <1>p, <1>c, SetPowerSourceStep DEF PowerEvent
<1>3. CASE \/ StartSession \/ FinishStartup \/ Clock \/ SchedulerStep
           \/ SpuriousWake \/ BeginShutdown \/ StopNetwork \/ StopScheduler
           \/ JoinScheduler \/ ReadToggle
           \/ \E op \in TrayOperations : AdmitCommand(op)
           \/ \E chosen \in Tuning : ReadTuning(chosen)
           \/ \E saved \in BOOLEAN : PersistUpdate(saved)
  BY <1>3, <1>u DEF StartSession, FinishStartup, Clock, SchedulerStep,
                    SpuriousWake, BeginShutdown, StopNetwork, StopScheduler,
                    JoinScheduler, ReadToggle, AdmitCommand, ReadTuning,
                    PersistUpdate
<1>4. ASSUME NEW ok \in BOOLEAN, SchedulerExpiry(ok) PROVE OneReasonStep
  <2>1. ReasonStep \/ UNCHANGED <<intent, reasons, native>>
    BY <1>4, <1>p, <1>n, ExpireDueStep DEF SchedulerExpiry
  <2> QED
    BY <2>1, <1>4, <1>r, <1>u DEF SchedulerExpiry, coordinatorVars
<1>5. ASSUME NEW ok \in BOOLEAN, RunManualCommand(ok) PROVE OneReasonStep
  <2>1. CASE Command(ok)
    BY <2>1, <1>5, <1>p, <1>n, <1>r, CommandStep DEF RunManualCommand
  <2>2. CASE UNCHANGED coordinatorVars
    BY <2>2, <1>5, <1>u DEF RunManualCommand
  <2> QED
    BY <1>5, <2>1, <2>2 DEF RunManualCommand
<1>6. ASSUME NEW ok \in BOOLEAN, ApplyUpdate(ok) PROVE OneReasonStep
  <2>1. update \in Settings /\ UNCHANGED stage
    BY <1>6, <1>p DEF ShellOK, ApplyUpdate
  <2>2. CASE trayOp = "Tune"
    BY <2>1, <2>2, <1>6, <1>p, <1>c, QuiescentType, PublishStep
       DEF ApplyUpdate, ApplyTuning
  <2>3. CASE trayOp # "Tune"
    BY <2>1, <2>3, <1>6, <1>p, <1>c, SetSettingsStep DEF ApplyUpdate, Settings
  <2> QED
    BY <2>2, <2>3
<1>7. ASSUME NEW ok \in BOOLEAN, StopPower(ok) PROVE OneReasonStep
  BY <1>7, <1>p, <1>c, SetPowerSourceStep DEF StopPower, PowerSource
<1>8. ASSUME NEW ok \in BOOLEAN, StopDetector(ok) PROVE OneReasonStep
  BY <1>8, <1>p, <1>c, QuiescentType, PublishStep DEF StopDetector, MonitorShutdown
<1>9. ASSUME NEW ok \in BOOLEAN, StopCoordinator(ok)
      PROVE  NativeFollows /\ stage # "Stopped" /\ stage' = "Stopped"
  BY <1>9, <1>n, CoordinatorShutdownEffect DEF StopCoordinator
<1>10. CASE UNCHANGED vars
  BY <1>10, <1>u DEF vars
<1> QED
  BY <1>1, <1>2, <1>3, <1>4, <1>5, <1>6, <1>7, <1>8, <1>9, <1>10
     DEF Next, TrayStep, Shutdown

LEMMA StepKeepsContract ==
  ASSUME InductiveInvariant, InductiveInvariant', [Next]_vars
  PROVE  [Contract!Next]_(Contract!contractVars)
<1>1. Wanted = reasons /\ Wanted' = reasons'
  <2>1. (InductiveInvariant => Wanted = reasons)'
    BY WantedIsHeld, PTL
  <2> QED
    BY <2>1, WantedIsHeld
<1>2. /\ reasons \subseteq {"AutomaticDownload", "ManualKeepAwake"}
      /\ reasons' \subseteq {"AutomaticDownload", "ManualKeepAwake"}
  BY DEF InductiveInvariant, TypeOK, WakeReason
<1>3. ASSUME NativeFollows PROVE Contract!Follow
  BY <1>1, <1>3 DEF NativeFollows, Contract!Follow
<1>4. CASE NativeFollows /\ stage # "Stopped" /\ stage' = "Stopped"
  <2>1. Contract!Close
    BY <1>1, <1>3, <1>4 DEF Contract!Close, Wanted
  <2> QED
    BY <2>1 DEF Contract!Next
<1>5. CASE OneReasonStep
  <2>1. Contract!Follow /\ (stage' = "Stopped" <=> stage = "Stopped")
    BY <1>3, <1>5 DEF OneReasonStep
  <2>2. CASE reasons' = reasons
    BY <1>1, <2>1, <2>2 DEF Contract!Next, Contract!Retry
  <2>3. CASE reasons' # reasons
    <3>1. stage # "Stopped"
      BY <1>1, <2>1, <2>3 DEF Wanted
    <3>2. PICK reason \in {"AutomaticDownload", "ManualKeepAwake"} :
             \/ reasons' = reasons \cup {reason}
             \/ reasons' = reasons \ {reason}
      <4>1. CASE "ManualKeepAwake" \in reasons' <=> "ManualKeepAwake" \in reasons
        <5>1. \/ reasons' = reasons \cup {"AutomaticDownload"}
              \/ reasons' = reasons \ {"AutomaticDownload"}
          BY <1>2, <4>1
        <5> QED
          BY <5>1
      <4>2. CASE "AutomaticDownload" \in reasons' <=> "AutomaticDownload" \in reasons
        <5>1. \/ reasons' = reasons \cup {"ManualKeepAwake"}
              \/ reasons' = reasons \ {"ManualKeepAwake"}
          BY <1>2, <4>2
        <5> QED
          BY <5>1
      <4> QED
        BY <1>5, <4>1, <4>2 DEF OneReasonStep
    <3>3. Contract!Ask(reason) \/ Contract!Withdraw(reason)
      BY <1>1, <2>1, <3>1, <3>2 DEF Contract!Ask, Contract!Withdraw
    <3> QED
      BY <3>3 DEF Contract!Next, WakeReason
  <2> QED
    BY <2>2, <2>3
<1>6. InvariantParts
  BY InvariantIsItsParts
<1> QED
  BY <1>4, <1>5, <1>6, NextTouchesOneReason

(* The keep-awake core implements the contract: one reason ending never    *)
(* cancels another, protection is neither taken without a wish nor given   *)
(* up against one, and nothing is wanted after shutdown.                   *)
THEOREM CoreImplementsContract == Spec => ImplementsContract
<1>1. Init => Contract!Init
  BY DEF Init, CoordinatorInit, InhibitorInit, DetectorInit, ControllerInit,
         SessionInit, Contract!Init, Wanted, WakeReason, Desired, DesiredUnder,
         Inactive
<1>2. InductiveInvariant /\ InductiveInvariant' /\ [Next]_vars =>
        [Contract!Next]_(Contract!contractVars)
  BY StepKeepsContract
<1> QED
  BY <1>1, <1>2, InvariantHolds, PTL DEF Spec, Contract!Spec, ImplementsContract

-----------------------------------------------------------------------------
(* The views of the product (ProductViews).                                *)

(* What a view in the making holds.                                        *)
SampleType ==
  [enabled : BOOLEAN, manualIntent : BOOLEAN, manualFailure : BOOLEAN,
   detecting : BOOLEAN, detectorIntent : BOOLEAN, desired : BOOLEAN,
   automaticFailure : BOOLEAN, reasons : SUBSET WakeReason,
   protection : ProtectionState]

ViewsType ==
  /\ taken \in 0 .. 5
  /\ sample \in SampleType

(* A complete sample holds the coordinator's present state.                *)
WakeIsSampledLast ==
  taken = 5 => sample.reasons = reasons /\ sample.protection = native

ViewsInvariant == InvariantParts /\ ViewsType /\ WakeIsSampledLast

LEMMA OrderOfSampling ==
  /\ Len(SamplingOrder) = 5
  /\ SamplingOrder[1] = "Status"
  /\ SamplingOrder[2] = "Manual"
  /\ SamplingOrder[3] = "Detector"
  /\ SamplingOrder[4] = "Automatic"
  /\ SamplingOrder[5] = "Wake"
BY DEF SamplingOrder

(* What the services give out has the types a sample has.                  *)
LEMMA ServicesType ==
  ASSUME InvariantParts
  PROVE  /\ Desired \in BOOLEAN
         /\ detectorIntent \in BOOLEAN
         /\ coordinationFailure \in BOOLEAN
         /\ backgroundFailure \in BOOLEAN
         /\ reasons \in SUBSET WakeReason
         /\ native \in ProtectionState
<1>1. TypeOK
  BY InvariantIsItsParts DEF InductiveInvariant
<1>2. Desired \in BOOLEAN
  BY <1>1, DesiredType DEF TypeOK, Desired
<1> QED
  BY <1>1, <1>2 DEF TypeOK

LEMMA SnapshotStep ==
  ASSUME ViewsInvariant, TakeSnapshot
  PROVE  ViewsType' /\ WakeIsSampledLast'
<1>1. /\ taken \in 0 .. 4
      /\ taken' = taken + 1
      /\ sample' = WithSnapshot(sample, SamplingOrder[taken + 1])
      /\ UNCHANGED <<reasons, native>>
  BY OrderOfSampling
     DEF ViewsInvariant, ViewsType, TakeSnapshot, Complete, vars, coordinatorVars
<1>2. InvariantParts /\ sample \in SampleType
  BY DEF ViewsInvariant, ViewsType
<1>3. CASE taken = 0
  <2>1. sample' = [sample EXCEPT !.enabled = (stage = "Operational")]
    BY <1>1, <1>3, OrderOfSampling DEF WithSnapshot
  <2>2. sample' \in SampleType
    BY <2>1, <1>2 DEF SampleType
  <2> QED
    BY <2>2, <1>1, <1>3 DEF ViewsType, WakeIsSampledLast
<1>4. CASE taken = 1
  <2>1. sample' = [sample EXCEPT !.manualIntent = (intent.kind # "Inactive"),
                                 !.manualFailure = backgroundFailure]
    BY <1>1, <1>4, OrderOfSampling DEF WithSnapshot
  <2>2. sample' \in SampleType
    BY <2>1, <1>2, ServicesType DEF SampleType
  <2> QED
    BY <2>2, <1>1, <1>4 DEF ViewsType, WakeIsSampledLast
<1>5. CASE taken = 2
  <2>1. sample' = [sample EXCEPT !.detecting = (phase.state # "Idle")]
    BY <1>1, <1>5, OrderOfSampling DEF WithSnapshot
  <2>2. sample' \in SampleType
    BY <2>1, <1>2 DEF SampleType
  <2> QED
    BY <2>2, <1>1, <1>5 DEF ViewsType, WakeIsSampledLast
<1>6. CASE taken = 3
  <2>1. sample' = [sample EXCEPT !.detectorIntent = detectorIntent,
                                 !.desired = Desired,
                                 !.automaticFailure = coordinationFailure]
    BY <1>1, <1>6, OrderOfSampling DEF WithSnapshot
  <2>2. sample' \in SampleType
    BY <2>1, <1>2, ServicesType DEF SampleType
  <2> QED
    BY <2>2, <1>1, <1>6 DEF ViewsType, WakeIsSampledLast
<1>7. CASE taken = 4
  <2>1. sample' = [sample EXCEPT !.reasons = reasons, !.protection = native]
    BY <1>1, <1>7, OrderOfSampling DEF WithSnapshot
  <2>2. sample' \in SampleType
    BY <2>1, <1>2, ServicesType DEF SampleType
  <2>3. sample'.reasons = reasons' /\ sample'.protection = native'
    BY <2>1, <1>1, <1>2 DEF SampleType
  <2> QED
    BY <2>2, <2>3, <1>1, <1>7 DEF ViewsType, WakeIsSampledLast
<1> QED
  BY <1>1, <1>3, <1>4, <1>5, <1>6, <1>7

LEMMA ViewsStep ==
  ASSUME ViewsInvariant, [ViewsNext]_<<vars, viewVars>>
  PROVE  ViewsInvariant'
<1>1. [Next]_vars
  BY DEF ViewsNext, TakeSnapshot, ShowView, SystemStep
<1>2. InvariantParts'
  BY <1>1, NextKeepsParts DEF ViewsInvariant
<1>3. CASE TakeSnapshot
  BY <1>2, <1>3, SnapshotStep DEF ViewsInvariant
<1>4. CASE ShowView
  <2>1. taken' = 0 /\ sample' = NoSample
    BY <1>4 DEF ShowView
  <2>2. NoSample \in SampleType
    BY DEF NoSample, SampleType, ProtectionState
  <2> QED
    BY <1>2, <2>1, <2>2 DEF ViewsInvariant, ViewsType, WakeIsSampledLast
<1>5. CASE SystemStep
  <2>1. taken # 5 /\ taken' = taken /\ sample' = sample
    BY <1>5, OrderOfSampling DEF SystemStep, Complete, viewVars
  <2> QED
    BY <1>2, <2>1 DEF ViewsInvariant, ViewsType, WakeIsSampledLast
<1>6. CASE UNCHANGED <<vars, viewVars>>
  <2>1. UNCHANGED <<taken, sample, reasons, native>>
    BY <1>6 DEF vars, viewVars, coordinatorVars
  <2> QED
    BY <1>2, <2>1 DEF ViewsInvariant, ViewsType, WakeIsSampledLast
<1> QED
  BY <1>3, <1>4, <1>5, <1>6 DEF ViewsNext

LEMMA ViewsInvariantHolds == ViewsSpec => []ViewsInvariant
<1>1. ViewsInit => ViewsInvariant
  <2> SUFFICES ASSUME ViewsInit PROVE ViewsInvariant
    OBVIOUS
  <2>1. InvariantParts
    BY InitInvariant, InvariantIsItsParts DEF ViewsInit
  <2>2. taken = 0 /\ sample = NoSample
    BY DEF ViewsInit
  <2>3. NoSample \in SampleType
    BY DEF NoSample, SampleType, ProtectionState
  <2> QED
    BY <2>1, <2>2, <2>3 DEF ViewsInvariant, ViewsType, WakeIsSampledLast
<1>2. ViewsInvariant /\ [ViewsNext]_<<vars, viewVars>> => ViewsInvariant'
  BY ViewsStep
<1> QED
  BY <1>1, <1>2, PTL DEF ViewsSpec

-----------------------------------------------------------------------------
(* A view without the warning that sleep protection needs attention is     *)
(* true when it is complete, for all durations and tray operations, and    *)
(* whatever the services did while they were asked (tray.rs, input).       *)
THEOREM CalmViewsCanBeTrusted == ViewsSpec => []CalmViewsAreTrue
<1>1. ViewsInvariant => CalmViewsAreTrue
  <2> SUFFICES ASSUME ViewsInvariant, Complete, Calm(sample)
               PROVE  /\ sample.manualIntent = ("ManualKeepAwake" \in Wanted)
                      /\ sample.desired = ("AutomaticDownload" \in Wanted)
                      /\ (Primary(sample) = "KeepingAwake") = (native = "Active")
                      /\ (native = "Active") = (Wanted # {})
    BY DEF CalmViewsAreTrue
  <2>1. sample.reasons = reasons /\ sample.protection = native
    BY OrderOfSampling DEF Complete, ViewsInvariant, WakeIsSampledLast
  <2>2. Wanted = reasons
    BY WantedIsHeld, InvariantIsItsParts DEF ViewsInvariant
  <2>3. native = "Active" \/ native = "Inactive"
    BY ServicesType DEF ViewsInvariant, ProtectionState
  <2>4. /\ sample.enabled
        /\ sample.manualIntent = ("ManualKeepAwake" \in reasons)
        /\ sample.desired = ("AutomaticDownload" \in reasons)
        /\ (reasons = {}) = (native = "Inactive")
    BY <2>1 DEF Calm, NeedsAttention, ProtectionIsInconsistent
  <2>5. (Primary(sample) = "KeepingAwake") = (native = "Active")
    BY <2>1, <2>3, <2>4 DEF Primary
  <2> QED
    BY <2>2, <2>3, <2>4, <2>5
<1> QED
  BY <1>1, ViewsInvariantHolds, PTL

(* A warning in a view that nothing overtook has a cause: what is wanted   *)
(* and what is held agree in the reasons, so it can only come from a native*)
(* call (tray.rs, needs_attention).                                        *)
THEOREM WarningsAreCaused == ViewsSpec => []WarningsHaveCause
<1>1. ViewsInvariant => WarningsHaveCause
  <2> SUFFICES ASSUME ViewsInvariant, sample = Truth, sample.enabled,
                      NeedsAttention(sample), ~coordinationFailure,
                      ~backgroundFailure
               PROVE  (native = "Active") # (Wanted # {})
    BY DEF WarningsHaveCause
  <2>1. /\ sample.enabled = (stage = "Operational")
        /\ sample.manualIntent = (intent.kind # "Inactive")
        /\ sample.manualFailure = backgroundFailure
        /\ sample.detecting = (phase.state # "Idle")
        /\ sample.detectorIntent = detectorIntent
        /\ sample.desired = Desired
        /\ sample.automaticFailure = coordinationFailure
        /\ sample.reasons = reasons
        /\ sample.protection = native
    <3>1. Truth =
            [enabled |-> stage = "Operational",
             manualIntent |-> intent.kind # "Inactive",
             manualFailure |-> backgroundFailure,
             detecting |-> phase.state # "Idle",
             detectorIntent |-> detectorIntent,
             desired |-> Desired,
             automaticFailure |-> coordinationFailure,
             reasons |-> reasons,
             protection |-> native]
      <4> DEFINE s1 == WithSnapshot(NoSample, "Status")
                 s2 == WithSnapshot(s1, "Manual")
                 s3 == WithSnapshot(s2, "Detector")
                 s4 == WithSnapshot(s3, "Automatic")
                 s5 == WithSnapshot(s4, "Wake")
      <4>1. s1 = [NoSample EXCEPT !.enabled = (stage = "Operational")]
        BY DEF WithSnapshot
      <4>2. s2 = [s1 EXCEPT !.manualIntent = (intent.kind # "Inactive"),
                            !.manualFailure = backgroundFailure]
        BY DEF WithSnapshot
      <4>3. s3 = [s2 EXCEPT !.detecting = (phase.state # "Idle")]
        BY DEF WithSnapshot
      <4>4. s4 = [s3 EXCEPT !.detectorIntent = detectorIntent,
                            !.desired = Desired,
                            !.automaticFailure = coordinationFailure]
        BY DEF WithSnapshot
      <4>5. s5 = [s4 EXCEPT !.reasons = reasons, !.protection = native]
        BY DEF WithSnapshot
      <4>6. Truth = s5
        BY OrderOfSampling DEF Truth
      <4> HIDE DEF s1, s2, s3, s4, s5
      <4> QED
        BY <4>1, <4>2, <4>3, <4>4, <4>5, <4>6 DEF NoSample
    <3> HIDE DEF Truth
    <3> QED
      BY <3>1
  <2>2. Wanted = reasons
    BY WantedIsHeld, InvariantIsItsParts DEF ViewsInvariant
  <2>3. native = "Active" \/ native = "Inactive"
    BY ServicesType DEF ViewsInvariant, ProtectionState
  <2>4. /\ (intent.kind # "Inactive") = ("ManualKeepAwake" \in reasons)
        /\ Desired = ("AutomaticDownload" \in reasons)
    <3>1. Desired \in BOOLEAN
      BY ServicesType DEF ViewsInvariant
    <3>2. stage # "Stopped"
      BY <2>1
    <3> QED
      BY <2>2, <3>1, <3>2 DEF Wanted, WakeReason
  <2>5. sample.detectorIntent = sample.detecting
    BY <2>1, ServicesType DEF ViewsInvariant, InvariantParts, IntentIsQualified
  <2>6. (reasons = {}) # (native = "Inactive")
    BY <2>1, <2>4, <2>5 DEF NeedsAttention, ProtectionIsInconsistent
  <2> QED
    BY <2>2, <2>3, <2>6
<1> QED
  BY <1>1, ViewsInvariantHolds, PTL

=============================================================================
