-------------------------- MODULE NetworkDetection --------------------------
(***************************************************************************)
(* The network activity source with the detector it feeds                  *)
(* (product_composition.rs hands the detector to NetworkActivitySource::   *)
(* start as its consumer).  The detector sees one event at a time, after   *)
(* the source has published the state that belongs to it.                  *)
(*                                                                         *)
(* Native calls succeed here and automatic protection is on: what failures *)
(* and policy do is KeepAwake's.                                           *)
(***************************************************************************)
EXTENDS AutomaticDownload, NetworkActivity

detectionVars == <<controllerVars, reasons, native, detectorVars>>
vars == <<sourceVars, detectionVars>>

Init ==
  /\ SourceInit
  /\ CoordinatorInit
  /\ DetectorInit
  /\ policy = [enabled |-> TRUE, onBattery |-> TRUE]

(* The rate a sample is classified by (apply_sample).                      *)
RateOf(event) == event.bytes \div event.span

(* consume, for the event at the head of what is to be delivered.          *)
ConsumeEvent(event) ==
  CASE event.kind = "Sample" ->
         ConsumeSample([rate |-> RateOf(event), span |-> event.span], TRUE)
    [] event.kind = "ContinuityLost" -> ConsumeContinuityLost(TRUE)
    [] OTHER -> ConsumeAvailabilityChanged(TRUE)

Deliver ==
  /\ EventDelivered
  /\ ConsumeEvent(Head(events))

(* New settings may be applied between any two events.                     *)
Retune ==
  /\ \E new \in Tuning : ApplyTuning(new, TRUE)
  /\ UNCHANGED sourceVars

WorkerStep ==
  /\ \/ StartWorker
     \/ Read
     \/ FinishSample
     \/ SampleInterval
     \/ RequestStop
     \/ ExitWorker
  /\ UNCHANGED detectionVars

Next == WorkerStep \/ Deliver \/ Retune

Spec == Init /\ [][Next]_vars

-----------------------------------------------------------------------------
(* A sample never reports more than external interfaces have received      *)
(* since the reading before it: not what came in before a gap, not a       *)
(* counter that went backwards, not an interface that has just appeared,   *)
(* not the loopback.  Old counters are never a sudden transfer.            *)
SamplesAreReceived ==
  \A n \in 1 .. Len(events) :
    events[n].kind = "Sample" =>
      /\ lastRead.trusted
      /\ events[n].bytes <= lastRead.received

(* Once the source has lost continuity, and until it has a sample to offer *)
(* again, the detector has nothing qualified and nothing accumulated:      *)
(* repeated failures, which are not events, included.                      *)
LostContinuityIsForgotten ==
  events = <<>> /\ (lastRead.outcome = "Failed" \/ ~initialized
                    \/ ~lastRead.trusted)
    => phase = Quiescent

(* docs/automatic-detection.md: a counter reset or interface-topology      *)
(* change clears prior qualification, grace and automatic intent.  A       *)
(* reading too short to qualify by itself would then leave no intent.      *)
TopologyChangeClearsIntent ==
  (/\ events = <<>>
   /\ lastRead.outcome = "Read"
   /\ lastRead.changed
   /\ MaxTrusted < Qualification)
  => ~detectorIntent

=============================================================================
