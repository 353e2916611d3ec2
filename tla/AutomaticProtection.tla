------------------------ MODULE AutomaticProtection ------------------------
(***************************************************************************)
(* The automatic protection controller                                     *)
(* (src-tauri/src/automatic_protection.rs).  It combines the detector's    *)
(* intent, the live policy settings and the observed power source into one *)
(* desired automatic reason, and commands the wake coordinator when that   *)
(* desire changes or the last command failed.                              *)
(*                                                                         *)
(* Every setter holds the controller's mutex while it calls the            *)
(* coordinator, so a setter and the reconciliation it ends with are one    *)
(* step.  ok is what the native call returned, and TRUE when none is made. *)
(***************************************************************************)
EXTENDS WakeCoordinator

VARIABLES
  detectorIntent,        \* what the detector last asked for
  policy,                \* the live automatic protection settings
  powerSource,           \* the last power source the observer published
  lastCommandedDesired,  \* what the coordinator was last asked for
  coordinationFailure    \* whether that last command failed

controllerVars == <<detectorIntent, policy, powerSource,
                    lastCommandedDesired, coordinationFailure>>

PowerSource == {"External", "Limited", "Unknown"}
Policy == [enabled : BOOLEAN, onBattery : BOOLEAN]

ControllerInit ==
  /\ detectorIntent = FALSE
  /\ policy \in Policy
  /\ powerSource = "Unknown"
  /\ lastCommandedDesired = FALSE
  /\ coordinationFailure = FALSE

DesiredUnder(intent, settings, power) ==
  intent /\ settings.enabled /\ (settings.onBattery \/ power = "External")

Desired == DesiredUnder(detectorIntent, policy, powerSource)

(* Mutant: only a change of desire is commanded, a failure is never        *)
(* retried.                                                                *)
ReconcileAutomatic_NeverRetries(desired, ok) ==
  IF desired = lastCommandedDesired
  THEN /\ ok
       /\ UNCHANGED <<reasons, native, lastCommandedDesired,
                      coordinationFailure>>
  ELSE /\ SetReasonActive("AutomaticDownload", desired, ok)
       /\ lastCommandedDesired' = desired
       /\ coordinationFailure' = ~ok

(* Mutant: the outcome of a command is not recorded.                       *)
ReconcileAutomatic_ForgetsFailure(desired, ok) ==
  IF desired = lastCommandedDesired /\ ~coordinationFailure
  THEN /\ ok
       /\ UNCHANGED <<reasons, native, lastCommandedDesired,
                      coordinationFailure>>
  ELSE /\ SetReasonActive("AutomaticDownload", desired, ok)
       /\ lastCommandedDesired' = desired
       /\ coordinationFailure' = FALSE

(* Command the coordinator unless the last command asked for the same and  *)
(* succeeded.                                                              *)
ReconcileAutomatic(desired, ok) ==
  IF desired = lastCommandedDesired /\ ~coordinationFailure
  THEN /\ ok
       /\ UNCHANGED <<reasons, native, lastCommandedDesired,
                      coordinationFailure>>
  ELSE /\ SetReasonActive("AutomaticDownload", desired, ok)
       /\ lastCommandedDesired' = desired
       /\ coordinationFailure' = ~ok

SetDetectorIntent(intent, ok) ==
  /\ detectorIntent' = intent
  /\ ReconcileAutomatic(DesiredUnder(intent, policy, powerSource), ok)
  /\ UNCHANGED <<policy, powerSource>>

(* Mutant: a change of power waits for the next sample to be acted on.     *)
SetPowerSource_WithoutReconcile(power, ok) ==
  /\ powerSource' = power
  /\ ok
  /\ UNCHANGED <<detectorIntent, policy, lastCommandedDesired,
                 coordinationFailure, reasons, native>>

SetPowerSource(power, ok) ==
  /\ powerSource' = power
  /\ ReconcileAutomatic(DesiredUnder(detectorIntent, policy, power), ok)
  /\ UNCHANGED <<detectorIntent, policy>>

SetSettings(settings, ok) ==
  /\ policy' = settings
  /\ ReconcileAutomatic(DesiredUnder(detectorIntent, settings, powerSource), ok)
  /\ UNCHANGED <<detectorIntent, powerSource>>

=============================================================================
