-------------------------- MODULE DetectorReference --------------------------
(***************************************************************************)
(* The detector against a definition of what it is to detect               *)
(* (docs/automatic-detection.md).  The detector folds the samples it sees  *)
(* into a phase and one duration; here the samples themselves are kept, up *)
(* to a bound, each with the time at which it ended, and the phase they    *)
(* call for is defined over all of them.                                   *)
(* Power and policy are left as they start: they act on the intent, not on *)
(* the phase.                                                              *)
(***************************************************************************)
EXTENDS AutomaticDownload, Sequences

CONSTANT MaxSamples  \* bound: samples since the detector last started afresh

VARIABLE history  \* the samples since the detector last started afresh

referenceVars == <<controllerVars, reasons, native, phase, tuning, history>>

Init ==
  /\ CoordinatorInit
  /\ DetectorInit
  /\ history = <<>>

(* The time at which sample i ended.                                       *)
End(i) == IF i = 0 THEN 0 ELSE history[i].end

ObserveSample(sample, ok) ==
  /\ Len(history) < MaxSamples
  /\ ConsumeSample(sample, ok)
  /\ history' = Append(history, [rate |-> sample.rate,
                                 end |-> End(Len(history)) + sample.span])

LoseContinuity(ok) ==
  /\ ConsumeContinuityLost(ok)
  /\ history' = <<>>

Retune(new, ok) ==
  /\ ApplyTuning(new, ok)
  /\ history' = <<>>

Next ==
  \E ok \in BOOLEAN :
    \/ \E sample \in Sample : ObserveSample(sample, ok)
    \/ LoseContinuity(ok)
    \/ ConsumeAvailabilityChanged(ok) /\ UNCHANGED history
    \/ \E new \in Tuning : Retune(new, ok)

Spec == Init /\ [][Next]_referenceVars

-----------------------------------------------------------------------------
(* The reference.  A stretch is a run of samples that are all meaningful,  *)
(* or all quiet.                                                           *)

Meaningful(i) == history[i].rate >= tuning.threshold

Stretch(first, last, meaningful) ==
  \A i \in first .. last : Meaningful(i) <=> meaningful

(* The time the samples first .. last span.                                *)
Lasted(first, last) == End(last) - End(first - 1)

(* Enough meaningful activity without a break ends with sample i.          *)
QualifiesAt(i) ==
  \E first \in 1 .. i :
    Stretch(first, i, TRUE) /\ Lasted(first, i) >= Qualification

(* A quiet stretch that has used up the grace ends with sample i.          *)
LapsesAt(i) ==
  \E first \in 1 .. i :
    Stretch(first, i, FALSE) /\ Lasted(first, i) >= tuning.grace

Qualified ==
  \E i \in 1 .. Len(history) :
    /\ QualifiesAt(i)
    /\ \A j \in (i + 1) .. Len(history) : ~LapsesAt(j)

(* The latest stretch starts at first: at no sample yet, if the latest one *)
(* is of the other kind.                                                   *)
Starts(first, meaningful) ==
  /\ Stretch(first, Len(history), meaningful)
  /\ first > 1 => (Meaningful(first - 1) <=> ~meaningful)

(* How long it has lasted.                                                 *)
Latest(meaningful) ==
  Lasted(CHOOSE first \in 1 .. Len(history) + 1 : Starts(first, meaningful),
         Len(history))

PhaseCalledFor ==
  IF ~Qualified THEN Idle(Latest(TRUE))
  ELSE IF Meaningful(Len(history)) THEN Active
  ELSE Hold(Latest(FALSE))

(* The detector is in the phase the samples call for: it asks for          *)
(* protection exactly when enough activity has been seen without a break   *)
(* and no quiet stretch since has used up the grace, however the samples   *)
(* divide the time up; and what it has accumulated is the stretch it is in.*)
PhaseMatchesHistory == phase = PhaseCalledFor

=============================================================================
