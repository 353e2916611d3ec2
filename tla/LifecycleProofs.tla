--------------------------- MODULE LifecycleProofs ---------------------------
(***************************************************************************)
(* Proofs about the lifecycle, for every plan, and about the tray that     *)
(* shows it.  What makes the nesting of capabilities inductive is that the *)
(* stack holds what runs, but for what failed to stop, in the order of the *)
(* plan, and that a startup in progress has come by every participant      *)
(* before the next one.                                                    *)
(* What makes the arrival of refreshes inductive is that the flag is only  *)
(* set while a refresh is in the queue, or about to be.                    *)
(***************************************************************************)
EXTENDS TrayPresentation, Integers, SequenceTheorems, TLAPS

Depth == 1 .. Len(resources)

Owned == {resources[k] : k \in Depth}

StackIsInOrder ==
  /\ \A k, l \in Depth : k < l => resources[k] < resources[l]
  /\ \A k \in Depth : resources[k] < next
  /\ Owned \subseteq running
  /\ running \subseteq Owned \cup cleanupFailures

StartupSkipsNone ==
  /\ settingsPending => next = 1
  /\ call = "Start" => ~settingsPending
  /\ call = "Start" => \A i \in Positions : i < next => i \in running \cup unavailable

RunningIsNested ==
  \A i, j \in Positions :
    i < j /\ j \in running \ cleanupFailures => i \in running \cup unavailable

EndsEmpty ==
  status \in {"Failed", "Stopped"} /\ call = "None" => resources = <<>>

IInv ==
  TypeOK /\ StackIsInOrder /\ StartupSkipsNone /\ RunningIsNested /\ EndsEmpty

(* A stack of positions that are all below the first one is empty.         *)
LEMMA NothingStartedYet ==
  ASSUME TypeOK, StackIsInOrder, next = 1
  PROVE  resources = <<>>
<1>1. Len(resources) \in Nat /\ resources \in Seq(Positions)
  BY DEF TypeOK
<1>2. ASSUME NEW k \in Depth PROVE FALSE
  <2>1. resources[k] \in Positions /\ resources[k] < 1
    BY <1>1, <1>2 DEF StackIsInOrder, Depth
  <2> QED
    BY <2>1, PlanAssumption DEF Positions
<1>3. Len(resources) = 0
  BY <1>1, <1>2 DEF Depth
<1> QED
  BY <1>1, <1>3

(* What popping the stack leaves of it (cleanup_owned_resources).          *)
LEMMA Popped ==
  ASSUME TypeOK, StackIsInOrder, resources # <<>>,
         resources' = SubSeq(resources, 1, Len(resources) - 1)
  PROVE  /\ resources' \in Seq(Positions)
         /\ Depth' = 1 .. Len(resources) - 1
         /\ \A k \in Depth' : resources'[k] = resources[k]
         /\ Latest \in Owned /\ Latest \in Positions
         /\ Owned' = Owned \ {Latest}
         /\ \A i \in Owned' : i < Latest
<1>1. resources \in Seq(Positions) /\ Len(resources) \in Nat \ {0}
  BY DEF TypeOK
<1>2. resources' \in Seq(Positions) /\ Len(resources') = Len(resources) - 1
  <2> DEFINE n == Len(resources) - 1
  <2>1. 1 \in Int /\ n \in Int /\ \A i \in 1 .. n : resources[i] \in Positions
    BY <1>1
  <2> HIDE DEF n
  <2>2. /\ SubSeq(resources, 1, n) \in Seq(Positions)
        /\ Len(SubSeq(resources, 1, n)) = IF 1 <= n THEN n - 1 + 1 ELSE 0
    BY <2>1, SubSeqProperties
  <2>3. resources' = SubSeq(resources, 1, n)
    BY DEF n
  <2>4. resources' \in Seq(Positions)
    BY <2>2, <2>3, Zenon
  <2>5. Len(resources') = IF 1 <= n THEN n - 1 + 1 ELSE 0
    BY <2>2, <2>3, Zenon
  <2>6. n \in Nat
    BY <1>1 DEF n
  <2>7. (IF 1 <= n THEN n - 1 + 1 ELSE 0) = n
    BY <2>6
  <2>8. Len(resources') = n
    BY <2>5, <2>7, Zenon
  <2> QED
    BY <2>4, <2>8 DEF n
<1>3. Depth' = 1 .. Len(resources) - 1
  BY <1>2 DEF Depth
<1>4. \A k \in Depth' : resources'[k] = resources[k]
  BY <1>1, <1>3
<1>5. Latest \in Owned /\ Latest \in Positions /\ Len(resources) \in Depth
  BY <1>1 DEF Latest, Depth, Owned
<1>6. \A k \in Depth' : k \in Depth /\ resources[k] < Latest
  BY <1>1, <1>3 DEF StackIsInOrder, Depth, Latest
<1>7. Positions \subseteq Int
  BY PlanAssumption DEF Positions
<1>8. Owned' = {resources[k] : k \in Depth'}
  BY <1>4 DEF Owned
<1>9. Owned \ {Latest} \subseteq Owned'
  <2> SUFFICES ASSUME NEW i \in Owned, i # Latest PROVE \E k \in Depth' : i = resources[k]
    BY <1>8
  <2>1. PICK k \in Depth : i = resources[k]
    BY DEF Owned
  <2>2. k # Len(resources)
    BY <2>1 DEF Latest
  <2>3. k \in Depth'
    BY <1>1, <1>3, <2>2 DEF Depth
  <2> QED
    BY <2>1, <2>3
<1>10. \A i \in Owned' : i < Latest /\ i \in Owned /\ i # Latest
  <2> SUFFICES ASSUME NEW k \in Depth'
               PROVE  resources[k] < Latest /\ resources[k] \in Owned /\ resources[k] # Latest
    BY <1>8
  <2>1. k \in Depth /\ resources[k] < Latest /\ resources[k] \in Owned
    BY <1>6 DEF Owned
  <2>2. \A l \in Depth : resources[l] \in Positions
    BY <1>1 DEF Depth
  <2>3. resources[k] \in Int /\ Latest \in Int
    BY <1>5, <1>7, <2>1, <2>2
  <2> QED
    BY <2>1, <2>3
<1> QED
  BY <1>2, <1>3, <1>4, <1>5, <1>9, <1>10

LEMMA StopKeepsInvariant ==
  ASSUME IInv, StopResource PROVE IInv'
<1> USE DEF IInv
<1>0. TypeOK /\ StackIsInOrder /\ resources # <<>>
  BY DEF StopResource
<1>1. /\ resources' = SubSeq(resources, 1, Len(resources) - 1)
      /\ UNCHANGED <<status, settingsPending, next, unavailable, startupFailure, call>>
      /\ call \in {"RollBack", "ShutDown"}
  BY DEF StopResource
<1>2. /\ resources' \in Seq(Positions)
      /\ Depth' = 1 .. Len(resources) - 1
      /\ \A k \in Depth' : resources'[k] = resources[k]
      /\ Latest \in Owned /\ Latest \in Positions
      /\ Owned' = Owned \ {Latest}
      /\ \A i \in Owned' : i < Latest
  BY <1>0, <1>1, Popped
<1>3. Len(resources) \in Nat /\ Depth' \subseteq Depth
  BY <1>0, <1>2 DEF TypeOK, Depth
<1>4. /\ running \ {Latest} \subseteq running' /\ running' \subseteq running
      /\ cleanupFailures \subseteq cleanupFailures'
      /\ cleanupFailures' \subseteq cleanupFailures \cup {Latest}
      /\ Latest \in running' => Latest \in cleanupFailures'
  BY DEF StopResource, Stops, FailsToStop
<1>5. TypeOK'
  BY <1>1, <1>2, <1>4 DEF TypeOK, Positions, ApplicationStatus, Capability
<1>6. StackIsInOrder'
  <2>1. Owned' \subseteq running' /\ running' \subseteq Owned' \cup cleanupFailures'
    BY <1>0, <1>2, <1>4 DEF StackIsInOrder
  <2> QED
    BY <1>1, <1>2, <1>3, <2>1 DEF StackIsInOrder
<1>7. StartupSkipsNone'
  BY <1>1 DEF StartupSkipsNone
<1>8. RunningIsNested'
  <2> SUFFICES ASSUME NEW i \in Positions, NEW j \in Positions, i < j,
                      j \in running' \ cleanupFailures'
               PROVE  i \in running' \cup unavailable'
    BY DEF RunningIsNested, Positions
  <2>1. j \in running \ cleanupFailures /\ j # Latest
    BY <1>4
  <2>2. j \in Owned' /\ j < Latest
    BY <1>0, <1>2, <2>1 DEF StackIsInOrder
  <2>3. i \in running \cup unavailable
    BY <2>1 DEF RunningIsNested
  <2>4. i # Latest
    BY <1>2, <2>2, PlanAssumption DEF Positions
  <2> QED
    BY <1>1, <1>4, <2>3, <2>4
<1>9. EndsEmpty'
  BY <1>1 DEF EndsEmpty
<1> QED
  BY <1>5, <1>6, <1>7, <1>8, <1>9

LEMMA StartKeepsInvariant ==
  ASSUME IInv, StartParticipant PROVE IInv'
<1> USE DEF IInv
<1>1. /\ call = "Start" /\ next \in Positions /\ next' = next + 1
      /\ UNCHANGED <<settingsPending, cleanupFailures>>
  BY DEF StartParticipant
<1>2. Positions \subseteq Int /\ Len(Plan) \in Nat /\ Positions = 1 .. Len(Plan)
  BY PlanAssumption DEF Positions
<1>3. ~settingsPending /\ \A i \in Positions : i < next => i \in running \cup unavailable
  BY <1>1 DEF StartupSkipsNone
<1>4. Len(resources) \in Nat /\ resources \in Seq(Positions)
      /\ \A k \in Depth : resources[k] \in Positions
  BY DEF TypeOK, Depth
<1>5. next' \in 1 .. Len(Plan) + 1
  BY <1>1, <1>2
<1>6. CASE Started
  <2>1. /\ resources' = Append(resources, next)
        /\ running' = running \cup {next}
        /\ UNCHANGED <<status, unavailable, startupFailure, call>>
    BY <1>6 DEF Started
  <2>2. /\ Len(resources') = Len(resources) + 1
        /\ resources' \in Seq(Positions)
        /\ Depth' = Depth \cup {Len(resources) + 1}
    BY <1>1, <1>4, <2>1 DEF Depth
  <2>3. /\ \A k \in Depth : resources'[k] = resources[k]
        /\ resources'[Len(resources) + 1] = next
    BY <1>4, <2>1 DEF Depth
  <2>4. TypeOK'
    BY <1>1, <1>2, <1>5, <2>1, <2>2 DEF TypeOK, Positions, ApplicationStatus, Capability
  <2>5. StackIsInOrder'
    <3>1. \A k \in Depth' : resources'[k] < next'
      <4>1. \A k \in Depth : resources[k] < next /\ resources[k] \in Int
        BY <1>2, <1>4 DEF StackIsInOrder
      <4>2. next \in Int /\ next' \in Int /\ next < next'
        BY <1>1, <1>2
      <4>3. \A k \in Depth : resources'[k] < next'
        BY <2>3, <4>1, <4>2
      <4>4. resources'[Len(resources) + 1] < next'
        BY <2>3, <4>2
      <4> QED
        BY <2>2, <4>3, <4>4
    <3>2. ASSUME NEW k \in Depth', NEW l \in Depth', k < l
          PROVE  resources'[k] < resources'[l]
      <4>1. k \in Depth
        BY <1>4, <2>2, <3>2 DEF Depth
      <4>2. CASE l \in Depth
        BY <2>3, <3>2, <4>1, <4>2 DEF StackIsInOrder
      <4>3. CASE l = Len(resources) + 1
        BY <2>3, <4>1, <4>3 DEF StackIsInOrder
      <4> QED
        BY <2>2, <4>2, <4>3
    <3>3. Owned' = Owned \cup {next}
      BY <2>2, <2>3 DEF Owned
    <3>4. Owned' \subseteq running' /\ running' \subseteq Owned' \cup cleanupFailures'
      BY <1>1, <2>1, <3>3 DEF StackIsInOrder
    <3> QED
      BY <3>1, <3>2, <3>4 DEF StackIsInOrder
  <2>6. StartupSkipsNone'
    BY <1>1, <1>2, <1>3, <2>1 DEF StartupSkipsNone, Positions
  <2>7. RunningIsNested'
    BY <1>1, <1>2, <1>3, <2>1 DEF RunningIsNested, Positions
  <2>8. EndsEmpty'
    BY <1>1, <2>1 DEF EndsEmpty
  <2> QED
    BY <2>4, <2>5, <2>6, <2>7, <2>8
<1>7. CASE OptionalUnavailable
  <2>1. /\ unavailable' = unavailable \cup {next}
        /\ UNCHANGED <<status, resources, startupFailure, call, running>>
    BY <1>7 DEF OptionalUnavailable
  <2>2. TypeOK'
    BY <1>1, <1>2, <1>5, <2>1 DEF TypeOK, Positions, ApplicationStatus, Capability
  <2>3. StackIsInOrder'
    BY <1>1, <1>2, <1>4, <2>1 DEF StackIsInOrder, Depth, Owned
  <2>4. StartupSkipsNone'
    BY <1>1, <1>2, <1>3, <2>1 DEF StartupSkipsNone, Positions
  <2>5. RunningIsNested'
    BY <1>1, <2>1 DEF RunningIsNested, Positions
  <2>6. EndsEmpty'
    BY <2>1 DEF EndsEmpty
  <2> QED
    BY <2>2, <2>3, <2>4, <2>5, <2>6
<1>8. CASE RequiredFails
  <2>1. /\ call' = "RollBack"
        /\ status' = "Failed"
        /\ startupFailure' = Capability(next)
        /\ UNCHANGED <<resources, unavailable, running>>
    BY <1>8 DEF RequiredFails, MarkStartupFailed
  <2>2. TypeOK'
    BY <1>1, <1>2, <1>5, <2>1 DEF TypeOK, Positions, ApplicationStatus, Capability
  <2>3. StackIsInOrder'
    BY <1>1, <1>2, <1>4, <2>1 DEF StackIsInOrder, Depth, Owned
  <2>4. StartupSkipsNone'
    BY <1>1, <1>3, <2>1 DEF StartupSkipsNone
  <2>5. RunningIsNested'
    BY <1>1, <2>1 DEF RunningIsNested, Positions
  <2>6. EndsEmpty'
    BY <2>1 DEF EndsEmpty
  <2> QED
    BY <2>2, <2>3, <2>4, <2>5, <2>6
<1> QED
  BY <1>6, <1>7, <1>8 DEF StartParticipant

LEMMA OthersKeepInvariant ==
  ASSUME IInv,
         \/ BeginStart \/ FinishStart \/ FinishCleanup
         \/ RequestShutdown \/ Shutdown \/ UNCHANGED vars
  PROVE  IInv'
<1> USE DEF IInv
<1>1. UNCHANGED <<next, resources, unavailable, cleanupFailures, running>>
  BY DEF BeginStart, FinishStart, FinishCleanup, RequestShutdown, Shutdown, vars
<1>2. TypeOK'
  BY <1>1 DEF TypeOK, Positions, ApplicationStatus, Capability, BeginStart,
              MarkStartupFailed, FinishStart, FinishCleanup, RequestShutdown,
              Shutdown, ShutdownRequested, vars
<1>3. StackIsInOrder' /\ RunningIsNested'
  BY <1>1 DEF StackIsInOrder, Depth, Owned, RunningIsNested, Positions
<1>4. StartupSkipsNone'
  BY <1>1, PlanAssumption DEF StartupSkipsNone, Positions, BeginStart, FinishStart,
              FinishCleanup, RequestShutdown, Shutdown, vars
<1>5. EndsEmpty'
  <2>1. CASE BeginStart
    <3>1. resources = <<>>
      BY <2>1, NothingStartedYet DEF BeginStart, StartupSkipsNone
    <3> QED
      BY <1>1, <3>1 DEF EndsEmpty
  <2>2. CASE ~BeginStart
    BY <1>1, <2>2 DEF EndsEmpty, FinishStart, FinishCleanup, RequestShutdown,
                      Shutdown, ShutdownRequested, vars
  <2> QED
    BY <2>1, <2>2
<1> QED
  BY <1>2, <1>3, <1>4, <1>5

THEOREM LifecycleInvariant == Spec => []IInv
<1>1. Init => IInv
  <2> SUFFICES ASSUME Init PROVE IInv
    OBVIOUS
  <2> USE PlanAssumption DEF Init
  <2>1. TypeOK
    BY DEF TypeOK, ApplicationStatus, Positions
  <2>2. StackIsInOrder /\ StartupSkipsNone /\ RunningIsNested /\ EndsEmpty
    BY DEF StackIsInOrder, Depth, Owned, StartupSkipsNone, RunningIsNested, EndsEmpty
  <2> QED
    BY <2>1, <2>2 DEF IInv
<1>2. IInv /\ [Next]_vars => IInv'
  BY StopKeepsInvariant, StartKeepsInvariant, OthersKeepInvariant DEF Next
<1> QED
  BY <1>1, <1>2, PTL DEF Spec

(* For every plan: nothing is stopped while something started after it has *)
(* not been asked to stop, and a failed startup or a shutdown that is over *)
(* leaves nothing running but what failed to stop and is on record for it  *)
(* (application.rs, cleanup_owned_resources).                              *)
THEOREM CapabilitiesStayNested == Spec => []CapabilitiesAreNested
<1>1. IInv => CapabilitiesAreNested
  BY DEF IInv, RunningIsNested, EndsEmpty, StackIsInOrder, Depth, Owned,
         CapabilitiesAreNested
<1> QED
  BY <1>1, LifecycleInvariant, PTL

-----------------------------------------------------------------------------
(* Refreshes.                                                              *)

RefreshIsQueued == \E i \in 1 .. Len(queue) : queue[i] = "Refresh"

FlagMeansQueued == refreshPending => main = "Sending" \/ RefreshIsQueued

RInv ==
  /\ queue \in Seq({"Refresh", "StopAndExit"})
  /\ FlagMeansQueued
  /\ RefreshesAreNotLost

(* Appending a command takes none away.                                    *)
LEMMA QueueGrows ==
  ASSUME queue \in Seq({"Refresh", "StopAndExit"}),
         NEW command \in {"Refresh", "StopAndExit"},
         queue' = Append(queue, command)
  PROVE  /\ queue' \in Seq({"Refresh", "StopAndExit"})
         /\ RefreshIsQueued \/ command = "Refresh" => RefreshIsQueued'
<1>1. /\ queue' \in Seq({"Refresh", "StopAndExit"})
      /\ Len(queue') = Len(queue) + 1
      /\ \A i \in 1 .. Len(queue) : queue'[i] = queue[i]
      /\ queue'[Len(queue) + 1] = command
      /\ Len(queue) \in Nat
  BY AppendProperties
<1>2. ASSUME RefreshIsQueued PROVE RefreshIsQueued'
  <2>1. PICK i \in 1 .. Len(queue) : queue[i] = "Refresh"
    BY <1>2 DEF RefreshIsQueued
  <2>2. i \in 1 .. Len(queue') /\ queue'[i] = "Refresh"
    BY <1>1, <2>1
  <2> QED
    BY <2>2 DEF RefreshIsQueued
<1>3. ASSUME command = "Refresh" PROVE RefreshIsQueued'
  <2>1. Len(queue) + 1 \in 1 .. Len(queue') /\ queue'[Len(queue) + 1] = "Refresh"
    BY <1>1, <1>3
  <2> QED
    BY <2>1 DEF RefreshIsQueued
<1> QED
  BY <1>1, <1>2, <1>3

(* A stop that is received leaves the refreshes behind it.                 *)
LEMMA QueueShrinks ==
  ASSUME queue \in Seq({"Refresh", "StopAndExit"}), queue # <<>>,
         queue' = Tail(queue)
  PROVE  /\ queue' \in Seq({"Refresh", "StopAndExit"})
         /\ RefreshIsQueued /\ Head(queue) # "Refresh" => RefreshIsQueued'
<1>1. /\ queue' \in Seq({"Refresh", "StopAndExit"})
      /\ Len(queue') = Len(queue) - 1
      /\ \A i \in 1 .. Len(queue') : queue'[i] = queue[i + 1]
      /\ Len(queue) \in Nat
  BY HeadTailProperties
<1>2. ASSUME RefreshIsQueued, Head(queue) # "Refresh" PROVE RefreshIsQueued'
  <2>1. PICK i \in 1 .. Len(queue) : queue[i] = "Refresh"
    BY <1>2 DEF RefreshIsQueued
  <2>2. i # 1
    BY <1>2, <2>1
  <2>3. i - 1 \in 1 .. Len(queue') /\ queue'[i - 1] = "Refresh"
    BY <1>1, <2>1, <2>2
  <2> QED
    BY <2>3 DEF RefreshIsQueued
<1> QED
  BY <1>1, <1>2

LEMMA MainThreadKeepsRefreshes ==
  ASSUME RInv,
         \/ StartStep \/ StartReturns \/ ExecuteCommand \/ RequestRefresh
         \/ SendRefresh \/ RequestExit \/ Finish \/ FinishStep \/ ServicesChange
  PROVE  RInv'
<1> USE DEF RInv
<1>1. CASE StartStep \/ FinishStep \/ ServicesChange
  BY <1>1 DEF StartStep, FinishStep, ServicesChange, presentationVars, workerVars,
              FlagMeansQueued, RefreshIsQueued, RefreshesAreNotLost
<1>2. CASE StartReturns \/ ExecuteCommand
  BY <1>2 DEF StartReturns, ExecuteCommand, RefreshIsDue, workerVars,
              FlagMeansQueued, RefreshIsQueued, RefreshesAreNotLost
<1>3. CASE RequestRefresh
  BY <1>3 DEF RequestRefresh, workerVars, FlagMeansQueued, RefreshIsQueued,
              RefreshesAreNotLost
<1>4. CASE SendRefresh
  <2>1. queue' \in Seq({"Refresh", "StopAndExit"}) /\ RefreshIsQueued'
    BY <1>4, QueueGrows DEF SendRefresh
  <2> QED
    BY <2>1 DEF FlagMeansQueued, RefreshIsQueued, RefreshesAreNotLost
<1>5. CASE RequestExit
  <2>1. /\ queue' \in Seq({"Refresh", "StopAndExit"})
        /\ RefreshIsQueued => RefreshIsQueued'
    BY <1>5, QueueGrows DEF RequestExit
  <2>2. UNCHANGED <<main, worker, refreshPending, unseen>>
    BY <1>5 DEF RequestExit, workerVars
  <2> QED
    BY <2>1, <2>2 DEF FlagMeansQueued, RefreshIsQueued, RefreshesAreNotLost
<1>6. CASE Finish
  BY <1>6 DEF Finish, workerVars, FlagMeansQueued, RefreshIsQueued,
              RefreshesAreNotLost
<1> QED
  BY <1>1, <1>2, <1>3, <1>4, <1>5, <1>6

LEMMA WorkerKeepsRefreshes ==
  ASSUME RInv,
         \/ ReceiveRefresh \/ ReceiveTimeout \/ ReceiveStop
         \/ SampleStatus \/ SampleProduct \/ Render
  PROVE  RInv'
<1> USE DEF RInv
<1>1. CASE ReceiveRefresh
  BY <1>1, QueueShrinks DEF ReceiveRefresh, FlagMeansQueued, RefreshesAreNotLost
<1>2. CASE ReceiveTimeout
  BY <1>2 DEF ReceiveTimeout, FlagMeansQueued, RefreshIsQueued, RefreshesAreNotLost
<1>3. CASE ReceiveStop
  <2>1. /\ queue' \in Seq({"Refresh", "StopAndExit"})
        /\ RefreshIsQueued => RefreshIsQueued'
    BY <1>3, QueueShrinks DEF ReceiveStop
  <2>2. worker' = "Stopped" /\ UNCHANGED <<main, refreshPending>>
    BY <1>3 DEF ReceiveStop
  <2> QED
    BY <2>1, <2>2 DEF FlagMeansQueued, RefreshesAreNotLost
<1>4. CASE SampleStatus
  BY <1>4 DEF SampleStatus, FlagMeansQueued, RefreshIsQueued, RefreshesAreNotLost
<1>5. CASE SampleProduct
  BY <1>5 DEF SampleProduct, FlagMeansQueued, RefreshIsQueued, RefreshesAreNotLost
<1>6. CASE Render
  BY <1>6 DEF Render, FlagMeansQueued, RefreshIsQueued, RefreshesAreNotLost
<1> QED
  BY <1>1, <1>2, <1>3, <1>4, <1>5, <1>6

(* The outcome of startup and of every command reaches the worker: requests*)
(* to refresh may be merged, and none is lost (tray_host.rs,               *)
(* request_refresh).                                                       *)
THEOREM RefreshesReachTheWorker == PresentationSpec => []RefreshesAreNotLost
<1>1. PresentationInit => RInv
  BY DEF PresentationInit, RInv, FlagMeansQueued, RefreshesAreNotLost
<1>2. RInv /\ [PresentationNext]_<<vars, presentationVars>> => RInv'
  <2>1. ASSUME RInv, PresentationNext PROVE RInv'
    BY <2>1, MainThreadKeepsRefreshes, WorkerKeepsRefreshes DEF PresentationNext
  <2>2. ASSUME RInv, UNCHANGED <<vars, presentationVars>> PROVE RInv'
    BY <2>2 DEF presentationVars, RInv, FlagMeansQueued, RefreshIsQueued,
                RefreshesAreNotLost
  <2> QED
    BY <2>1, <2>2
<1>3. RInv => RefreshesAreNotLost
  BY DEF RInv
<1> QED
  BY <1>1, <1>2, <1>3, PTL DEF PresentationSpec

(* The main thread drives the lifecycle by its own steps only, whatever the*)
(* tray does beside it (main.rs).                                          *)
THEOREM TrayDrivesLifecycle == PresentationSpec => Spec
<1>1. PresentationInit => Init
  BY DEF PresentationInit
<1>2. [PresentationNext]_<<vars, presentationVars>> => [Next]_vars
  BY DEF PresentationNext, Next, StartStep, StartReturns, ExecuteCommand,
         RequestRefresh, SendRefresh, RequestExit, Finish, FinishStep,
         ServicesChange, ReceiveRefresh, ReceiveTimeout, ReceiveStop,
         SampleStatus, SampleProduct, Render
<1> QED
  BY <1>1, <1>2, PTL DEF PresentationSpec, Spec

=============================================================================
