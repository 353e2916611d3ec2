-------------------------- MODULE AutomaticDownload --------------------------
(***************************************************************************)
(* The automatic download detector                                         *)
(* (src-tauri/src/automatic_download.rs).  It turns samples of receive     *)
(* activity into an intent to keep the system awake: Idle until meaningful *)
(* activity has lasted for the qualification, Active while it lasts, Hold  *)
(* while a quiet spell is shorter than the grace.                          *)
(*                                                                         *)
(* The monitor's mutex is held across the call to the protection           *)
(* controller, so one event is one step, down to the native call.          *)
(*                                                                         *)
(* A sample is a receive rate over an observed duration; both are small    *)
(* numbers.  The average a sample is classified by, bytes * 10^9 / nanos,  *)
(* is abstracted to its rate: only its comparison with the threshold is    *)
(* ever used.                                                              *)
(***************************************************************************)
EXTENDS AutomaticProtection, Naturals

CONSTANTS
  Qualification,  \* meaningful activity needed to become Active
  Thresholds,     \* the receive rates that may count as meaningful
  Graces,         \* the quiet spells protection may survive
  Rates,          \* the receive rates samples may have
  Spans           \* the durations samples may be observed over

(* A zero qualification or threshold is refused by                         *)
(* AutomaticDownloadSettings::try_new; a sample spans a positive duration. *)
ASSUME DetectorAssumption ==
  /\ Qualification \in Nat \ {0}
  /\ Thresholds \subseteq Nat \ {0}
  /\ Thresholds # {}
  /\ Graces \subseteq Nat
  /\ Graces # {}
  /\ Rates \subseteq Nat
  /\ Spans \subseteq Nat \ {0}

VARIABLES
  phase,   \* the detector's state, and the time it has accumulated in it
  tuning   \* the live threshold and grace

detectorVars == <<phase, tuning>>

(* elapsed is activation_elapsed in Idle, quiet_elapsed in Hold, and 0 in  *)
(* Active.                                                                 *)
Phase == [state : {"Idle", "Active", "Hold"}, elapsed : Nat]
Tuning == [threshold : Thresholds, grace : Graces]
Sample == [rate : Rates, span : Spans]

Idle(elapsed) == [state |-> "Idle", elapsed |-> elapsed]
Active == [state |-> "Active", elapsed |-> 0]
Hold(elapsed) == [state |-> "Hold", elapsed |-> elapsed]

Quiescent == Idle(0)

DetectorInit ==
  /\ ControllerInit
  /\ phase = Quiescent
  /\ tuning \in Tuning

-----------------------------------------------------------------------------
(* The phase a stretch of meaningful activity leads to.                    *)

AfterMeaningful(from, span) ==
  IF from.state # "Idle" \/ from.elapsed + span >= Qualification
  THEN Active
  ELSE Idle(from.elapsed + span)

(* Mutant: the quiet sample that leaves Active does not count towards the  *)
(* grace.                                                                  *)
AfterQuiet_FirstSpanFree(from, span, grace) ==
  IF from.state = "Idle" \/ (from.state = "Hold" /\ from.elapsed + span >= grace)
  THEN Quiescent
  ELSE IF from.state = "Active" THEN Hold(0) ELSE Hold(from.elapsed + span)

(* The phase a quiet stretch leads to: elapsed is 0 in Active, so the      *)
(* first quiet sample counts in full.                                      *)
AfterQuiet(from, span, grace) ==
  IF from.state = "Idle" \/ from.elapsed + span >= grace
  THEN Quiescent
  ELSE Hold(from.elapsed + span)

AfterSample(from, sample) ==
  IF sample.rate >= tuning.threshold
  THEN AfterMeaningful(from, sample.span)
  ELSE AfterQuiet(from, sample.span, tuning.grace)

-----------------------------------------------------------------------------
(* The consumer of network activity, one action per kind of event.  Each   *)
(* ends by passing the intent on, whether or not the phase changed.        *)

Publish(next, ok) ==
  /\ phase' = next
  /\ SetDetectorIntent(next.state # "Idle", ok)

ConsumeSample(sample, ok) ==
  /\ Publish(AfterSample(phase, sample), ok)
  /\ UNCHANGED tuning

ConsumeContinuityLost(ok) ==
  /\ Publish(Quiescent, ok)
  /\ UNCHANGED tuning

ConsumeAvailabilityChanged(ok) ==
  /\ Publish(phase, ok)
  /\ UNCHANGED tuning

(* One event of the network source.                                        *)
Consume(ok) ==
  \/ \E sample \in Sample : ConsumeSample(sample, ok)
  \/ ConsumeContinuityLost(ok)
  \/ ConsumeAvailabilityChanged(ok)

(* New settings start the detector afresh (apply_settings).                *)
ApplyTuning(new, ok) ==
  /\ tuning' = new
  /\ Publish(Quiescent, ok)

MonitorShutdown(ok) ==
  /\ Publish(Quiescent, ok)
  /\ UNCHANGED tuning

=============================================================================
