--------------------------- MODULE NetworkActivity ---------------------------
(***************************************************************************)
(* The network activity source (src-tauri/src/network_activity/mod.rs): a  *)
(* worker thread reads the receive counters of all interfaces, normalises  *)
(* what it reads against the previous reading, publishes its status and    *)
(* hands the resulting events to its consumer, one by one.                 *)
(*                                                                         *)
(* The counters themselves are external.  Between two readings interfaces  *)
(* come and go, receive bytes, and may have their counters reset.          *)
(*                                                                         *)
(* Left out: the diagnostic rows that are kept beside the counters, their  *)
(* identifiers, and the log.                                               *)
(***************************************************************************)
EXTENDS Naturals, FiniteSets, Sequences, FiniteSetsExt

CONSTANTS
  Interfaces,  \* the interfaces the machine may have
  Loopbacks,   \* those that are loopback interfaces
  MaxCounter,  \* the largest value of a counter, and of their sum
  MaxTrusted,  \* the longest interval a sample may be observed over
  MaxGap       \* bound: the longest time between two readings

ASSUME NetworkAssumption ==
  /\ IsFiniteSet(Interfaces)
  /\ Loopbacks \subseteq Interfaces
  /\ MaxCounter \in Nat
  /\ MaxTrusted \in Nat
  /\ MaxGap \in Nat

VARIABLES
  counters,       \* external: the counters as they are
  initialized,    \* the normaliser has a reading to compare with
  previous,       \* that reading
  availability,   \* what the last reading said of the provider
  status,         \* the status the source publishes
  latestFailure,  \* the failure it publishes beside it
  worker,         \* where the worker thread is
  stopRequested,  \* the runtime is shutting down
  events,         \* what the worker still has to hand to its consumer
  lastRead        \* history: what the last reading was about

normalizerVars == <<initialized, previous, availability>>
sourceVars == <<counters, normalizerVars, status, latestFailure, worker,
                stopRequested, events, lastRead>>

NoReading == [i \in {} |-> 0]

SumOver(f, set) == MapThenSumSet(LAMBDA i : f[i], set)

Available == [kind |-> "Available"]
Unavailable == [kind |-> "Unavailable"]
ContinuityLost == [kind |-> "ContinuityLost"]
SampleOf(bytes, span) == [kind |-> "Sample", bytes |-> bytes, span |-> span]

SourceInit ==
  /\ counters = [i \in Interfaces |-> 0]
  /\ initialized = FALSE
  /\ previous = NoReading
  /\ availability = "Unknown"
  /\ status = "NotStarted"
  /\ latestFailure = FALSE
  /\ worker = "NotStarted"
  /\ stopRequested = FALSE
  /\ events = <<>>
  /\ lastRead = [outcome |-> "None"]

-----------------------------------------------------------------------------
(* What happens to the counters between two readings.                      *)

(* The readings that are possible when every interface i has received      *)
(* got[i] bytes since the last one and those in resets started again from  *)
(* zero at some point in between.                                          *)
CountersAfter(got, resets) ==
  {now \in [Interfaces -> 0 .. MaxCounter] :
     \A i \in Interfaces :
       IF i \in resets THEN now[i] <= got[i] ELSE now[i] = counters[i] + got[i]}

(* The counters as they now are of the interfaces that are up; one that is *)
(* down, or has vanished since they were listed, is left out.              *)
Reading(up) == [i \in up |-> counters'[i]]

-----------------------------------------------------------------------------
(* The normaliser.                                                         *)

(* The interfaces whose counter can be compared with the previous reading. *)
Continuous(reading) ==
  {i \in DOMAIN reading \cap DOMAIN previous : reading[i] >= previous[i]}

Delta(reading) == [i \in Continuous(reading) |-> reading[i] - previous[i]]

Aggregate(reading) == SumOver(Delta(reading), Continuous(reading) \ Loopbacks)

(* Mutant: an interval that cannot be trusted is passed over in silence.   *)
Observe_SkipsUntrusted(reading, gap) ==
  IF ~initialized \/ gap = 0 \/ gap > MaxTrusted THEN <<>>
  ELSE IF Aggregate(reading) > MaxCounter
       THEN <<ContinuityLost>>
       ELSE <<SampleOf(Aggregate(reading), gap)>>

(* Nothing for a first reading, a loss of continuity for an interval that  *)
(* is not trusted and for a sum that overflows, and a sample otherwise.    *)
Observe(reading, gap) ==
  IF ~initialized THEN <<>>
  ELSE IF gap = 0 \/ gap > MaxTrusted \/ Aggregate(reading) > MaxCounter
       THEN <<ContinuityLost>>
       ELSE <<SampleOf(Aggregate(reading), gap)>>

(* The readings differ in which interfaces there are, or a counter has     *)
(* gone backwards.                                                         *)
TopologyChanged(reading) ==
  initialized /\ (DOMAIN reading # DOMAIN previous
                  \/ Continuous(reading) # DOMAIN reading)

-----------------------------------------------------------------------------
(* The worker thread.                                                      *)

(* start: the status is published before the thread exists, and taken back *)
(* when it cannot be spawned, which leaves everything as it was.           *)
StartWorker ==
  /\ worker = "NotStarted"
  /\ worker' = "Sampling"
  /\ status' = "Starting"
  /\ UNCHANGED <<counters, normalizerVars, latestFailure, stopRequested,
                 events, lastRead>>

PublishSuccess(recovered) ==
  /\ status' = IF recovered THEN "Available" ELSE status
  /\ latestFailure' = (latestFailure /\ ~recovered)

(* One reading of the provider that succeeds: what is published is         *)
(* published before the consumer hears of it.                              *)
ReadSucceeds(up, got, resets, gap) ==
  /\ worker = "Sampling"
  /\ counters' \in CountersAfter(got, resets)
  /\ LET reading == Reading(up)
         recovered == availability # "Available"
     IN  /\ events' = (IF recovered THEN <<Available>> ELSE <<>>)
                      \o Observe(reading, gap)
         /\ previous' = reading
         /\ lastRead' = [outcome |-> "Read",
                         received |-> SumOver(got, up \ Loopbacks),
                         trusted |-> initialized /\ gap \in 1 .. MaxTrusted,
                         changed |-> TopologyChanged(reading)]
         /\ PublishSuccess(recovered)
  /\ initialized' = TRUE
  /\ availability' = "Available"
  /\ worker' = "Delivering"
  /\ UNCHANGED stopRequested

(* Mutant: a failed reading is reported, but keeps the old reading to      *)
(* compare the next one with.                                              *)
ReadFails_KeepsBaseline(got, resets) ==
  /\ worker = "Sampling"
  /\ UNCHANGED <<initialized, previous>>
  /\ availability' = "Unavailable"
  /\ latestFailure' = TRUE
  /\ lastRead' = [outcome |-> "Failed"]
  /\ IF availability = "Unavailable"
     THEN events' = <<>> /\ UNCHANGED status
     ELSE events' = <<ContinuityLost, Unavailable>> /\ status' = "Unavailable"
  /\ worker' = "Delivering"
  /\ counters' \in CountersAfter(got, resets)
  /\ UNCHANGED stopRequested

(* A reading that fails: everything known is forgotten; only the first of  *)
(* several failures is an event.                                           *)
ReadFails(got, resets) ==
  /\ worker = "Sampling"
  /\ initialized' = FALSE
  /\ previous' = NoReading
  /\ availability' = "Unavailable"
  /\ latestFailure' = TRUE
  /\ lastRead' = [outcome |-> "Failed"]
  /\ IF availability = "Unavailable"
     THEN events' = <<>> /\ UNCHANGED status
     ELSE events' = <<ContinuityLost, Unavailable>> /\ status' = "Unavailable"
  /\ worker' = "Delivering"
  /\ counters' \in CountersAfter(got, resets)
  /\ UNCHANGED stopRequested

(* The consumer has returned from the event at the head.                   *)
EventDelivered ==
  /\ worker = "Delivering"
  /\ events # <<>>
  /\ events' = Tail(events)
  /\ UNCHANGED <<counters, normalizerVars, status, latestFailure, worker,
                 stopRequested, lastRead>>

FinishSample ==
  /\ worker = "Delivering"
  /\ events = <<>>
  /\ worker' = "Waiting"
  /\ UNCHANGED <<counters, normalizerVars, status, latestFailure,
                 stopRequested, events, lastRead>>

(* The wait for a command runs out after the sample interval.              *)
SampleInterval ==
  /\ worker = "Waiting"
  /\ ~stopRequested
  /\ worker' = "Sampling"
  /\ UNCHANGED <<counters, normalizerVars, status, latestFailure,
                 stopRequested, events, lastRead>>

RequestStop ==
  /\ worker # "NotStarted"
  /\ ~stopRequested
  /\ stopRequested' = TRUE
  /\ UNCHANGED <<counters, normalizerVars, status, latestFailure, worker,
                 events, lastRead>>

ExitWorker ==
  /\ worker = "Waiting"
  /\ stopRequested
  /\ worker' = "Exited"
  /\ status' = "Stopped"
  /\ latestFailure' = FALSE
  /\ UNCHANGED <<counters, normalizerVars, stopRequested, events, lastRead>>

Read ==
  \E got \in [Interfaces -> 0 .. MaxCounter], resets \in SUBSET Interfaces :
    \/ \E up \in SUBSET Interfaces, gap \in 0 .. MaxGap :
         ReadSucceeds(up, got, resets, gap)
    \/ ReadFails(got, resets)

=============================================================================
