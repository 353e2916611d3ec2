---------------------------- MODULE ProductViews ----------------------------
(***************************************************************************)
(* What the product says of itself: the view that the tray shows           *)
(* (src-tauri/src/tray.rs) and the facts that diagnostics are made of      *)
(* (src-tauri/src/diagnostics.rs).  Both are put together from one snapshot*)
(* of each service, taken one after the other while the threads of         *)
(* KeepAwake go on: every snapshot is consistent, the view as a whole need *)
(* not be.  "Coordinator truth is sampled last so transient cross-service  *)
(* states fail safe" (tray.rs, TrayProduct::input).                        *)
(*                                                                         *)
(* A view is put together by one thread at a time, the presentation worker *)
(* or the one that runs the tray's commands; one sampler stands for either.*)
(* What it samples of the services outside KeepAwake (network, power       *)
(* source, launch at login, updater, the health of the settings) it only   *)
(* passes on.                                                              *)
(***************************************************************************)
EXTENDS KeepAwake, Sequences

VARIABLES
  taken,  \* how many snapshots have been taken for the view in the making
  sample  \* what they hold

viewVars == <<taken, sample>>

(* Mutant: the coordinator is asked first.                                 *)
SamplingOrder_WakeFirst == <<"Status", "Wake", "Manual", "Detector", "Automatic">>

(* The order of TrayApplication::view and TrayProduct::input, and that of  *)
(* DiagnosticInput::capture, as far as these services are concerned.       *)
SamplingOrder == <<"Status", "Manual", "Detector", "Automatic", "Wake">>

NoSample ==
  [enabled |-> FALSE, manualIntent |-> FALSE, manualFailure |-> FALSE,
   detecting |-> FALSE, detectorIntent |-> FALSE, desired |-> FALSE,
   automaticFailure |-> FALSE, reasons |-> {}, protection |-> "Inactive"]

(* The sample s, with what a service gives out under its own lock.         *)
WithSnapshot(s, service) ==
  CASE service = "Status" ->
         [s EXCEPT !.enabled = (stage = "Operational")]
    [] service = "Manual" ->
         [s EXCEPT !.manualIntent = (intent.kind # "Inactive"),
                   !.manualFailure = backgroundFailure]
    [] service = "Detector" ->
         [s EXCEPT !.detecting = (phase.state # "Idle")]
    [] service = "Automatic" ->
         [s EXCEPT !.detectorIntent = detectorIntent,
                   !.desired = Desired,
                   !.automaticFailure = coordinationFailure]
    [] service = "Wake" ->
         [s EXCEPT !.reasons = reasons, !.protection = native]

Complete == taken = Len(SamplingOrder)

(* A view that is begun before startup has gone through or after shutdown  *)
(* has begun says no more than that, and is left out.                      *)
TakeSnapshot ==
  /\ ~Complete
  /\ taken = 0 => stage = "Operational"
  /\ taken' = taken + 1
  /\ sample' = WithSnapshot(sample, SamplingOrder[taken + 1])
  /\ UNCHANGED vars

(* The view goes to the menu, or the facts into the report.                *)
ShowView ==
  /\ Complete
  /\ taken' = 0
  /\ sample' = NoSample
  /\ UNCHANGED vars

(* What is made of a complete sample needs no other state, and no time.    *)
SystemStep ==
  /\ ~Complete
  /\ Next
  /\ UNCHANGED viewVars

ViewsInit ==
  /\ Init
  /\ taken = 0
  /\ sample = NoSample

ViewsNext == TakeSnapshot \/ ShowView \/ SystemStep

ViewsSpec == ViewsInit /\ [][ViewsNext]_<<vars, viewVars>>

-----------------------------------------------------------------------------
(* The projection (tray.rs).                                               *)

(* Mutant: what the detector asks for is taken for what is desired of it.  *)
ProtectionIsInconsistent_IgnoresPolicy(s) ==
  \/ s.manualIntent # ("ManualKeepAwake" \in s.reasons)
  \/ s.detectorIntent # ("AutomaticDownload" \in s.reasons)
  \/ s.detectorIntent # s.detecting
  \/ (s.reasons = {}) # (s.protection = "Inactive")

ProtectionIsInconsistent(s) ==
  \/ s.manualIntent # ("ManualKeepAwake" \in s.reasons)
  \/ s.desired # ("AutomaticDownload" \in s.reasons)
  \/ s.detectorIntent # s.detecting
  \/ (s.reasons = {}) # (s.protection = "Inactive")

(* "Sleep protection needs attention"; warnings are shown while commands   *)
(* are.                                                                    *)
NeedsAttention(s) ==
  s.manualFailure \/ s.automaticFailure \/ ProtectionIsInconsistent(s)

Calm(s) == s.enabled /\ ~NeedsAttention(s)

(* The first line of the menu, where it speaks of protection.              *)
Primary(s) ==
  CASE ~s.enabled -> "NotOperational"
    [] s.enabled /\ s.reasons # {} /\ s.protection = "Inactive" -> "ProtectionFailed"
    [] s.enabled /\ s.reasons = {} /\ s.protection = "Active" -> "CouldNotStop"
    [] s.enabled /\ s.reasons # {} /\ s.protection = "Active" -> "KeepingAwake"
    [] OTHER -> "NotKeepingAwake"

-----------------------------------------------------------------------------
(* Properties.                                                             *)

(* A view without the warning that sleep protection needs attention can be *)
(* trusted, however much went on while it was put together: at the moment  *)
(* it is complete the session and the automatic reason it shows are what is*)
(* wanted, and the system is kept awake exactly if the first line says so  *)
(* and something is wanted.                                                *)
CalmViewsAreTrue ==
  Complete /\ Calm(sample) =>
    /\ sample.manualIntent = ("ManualKeepAwake" \in Wanted)
    /\ sample.desired = ("AutomaticDownload" \in Wanted)
    /\ (Primary(sample) = "KeepingAwake") = (native = "Active")
    /\ (native = "Active") = (Wanted # {})

(* The services as they are, had they all been asked at once.              *)
Truth ==
  LET asked(s, i) == WithSnapshot(s, SamplingOrder[i])
  IN  asked(asked(asked(asked(asked(NoSample, 1), 2), 3), 4), 5)

(* The warning is not given for nothing: in a view that nothing overtook,  *)
(* it means that the system is not kept awake as it should be, or that a   *)
(* native call failed for the automatic reason or for an expiry and was not*)
(* repeated for either since.  A policy that suppresses protection is no   *)
(* cause for it.                                                           *)
WarningsHaveCause ==
  Complete /\ sample = Truth /\ sample.enabled /\ NeedsAttention(sample) =>
    \/ (native = "Active") # (Wanted # {})
    \/ coordinationFailure
    \/ backgroundFailure

=============================================================================
