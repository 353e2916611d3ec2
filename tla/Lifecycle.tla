------------------------------ MODULE Lifecycle ------------------------------
(***************************************************************************)
(* The application lifecycle (src-tauri/src/application.rs): starts the    *)
(* participants of a plan one after the other, owns what each acquires, and*)
(* releases it in reverse, after a failed startup or at shutdown.          *)
(*                                                                         *)
(* Calls exclude each other (the lifecycle is behind the product owner's   *)
(* lock), but the status is published step by step and read by others in   *)
(* between, so every participant's start and stop is a step of its own.    *)
(* A participant that fails to start keeps nothing (application.rs,        *)
(* Participant); one that fails to stop may run on, and is not asked again.*)
(***************************************************************************)
EXTENDS Naturals, Sequences, FiniteSets

CONSTANT Plan  \* the participants, in the order in which they are started

(* The source's CapabilityId and its required flag; no two are the same.   *)
ASSUME PlanAssumption ==
  /\ Plan \in Seq([capability : STRING, required : BOOLEAN])
  /\ \A i, j \in 1 .. Len(Plan) : Plan[i].capability = Plan[j].capability => i = j

VARIABLES
  status,           \* the published ApplicationStatus
  settingsPending,  \* the settings have still to be restored
  next,             \* the participant that is started next
  resources,        \* the stack of participants that own something
  unavailable,      \* the optional participants that failed to start
  startupFailure,   \* what startup failed at
  cleanupFailures,  \* the participants that failed to stop
  call,             \* what the lifecycle is in the middle of
  running           \* external: the participants that may have something running

vars == <<status, settingsPending, next, resources, unavailable,
          startupFailure, cleanupFailures, call, running>>

Positions == 1 .. Len(Plan)
Capability(i) == Plan[i].capability

ApplicationStatus == {"Starting", "Ready", "Degraded", "Failed",
                      "ShuttingDown", "Stopped"}

Init ==
  /\ status = "Starting"
  /\ settingsPending = TRUE
  /\ next = 1
  /\ resources = <<>>
  /\ unavailable = {}
  /\ startupFailure = "None"
  /\ cleanupFailures = {}
  /\ call = "None"
  /\ running = {}

-----------------------------------------------------------------------------
(* start                                                                   *)

MarkStartupFailed(point) ==
  /\ status' = "Failed"
  /\ startupFailure' = point

(* Restoring the settings comes first, and is tried once.                  *)
BeginStart ==
  /\ call = "None"
  /\ status = "Starting"
  /\ settingsPending
  /\ settingsPending' = FALSE
  /\ \/ call' = "Start" /\ UNCHANGED <<status, startupFailure>>
     \/ MarkStartupFailed("Settings") /\ UNCHANGED call
  /\ UNCHANGED <<next, resources, unavailable, cleanupFailures, running>>

Started ==
  /\ resources' = Append(resources, next)
  /\ running' = running \cup {next}
  /\ UNCHANGED <<status, unavailable, startupFailure, call>>

OptionalUnavailable ==
  /\ ~Plan[next].required
  /\ unavailable' = unavailable \cup {next}
  /\ UNCHANGED <<status, resources, startupFailure, call, running>>

(* A required participant fails: the failure is published before anything  *)
(* that runs already is released.                                          *)
RequiredFails ==
  /\ Plan[next].required
  /\ MarkStartupFailed(Capability(next))
  /\ call' = "RollBack"
  /\ UNCHANGED <<resources, unavailable, running>>

StartParticipant ==
  /\ call = "Start"
  /\ next \in Positions
  /\ next' = next + 1
  /\ Started \/ OptionalUnavailable \/ RequiredFails
  /\ UNCHANGED <<settingsPending, cleanupFailures>>

FinishStart ==
  /\ call = "Start"
  /\ next \notin Positions
  /\ call' = "None"
  /\ status' = IF unavailable = {} THEN "Ready" ELSE "Degraded"
  /\ UNCHANGED <<settingsPending, next, resources, unavailable, startupFailure,
                 cleanupFailures, running>>

-----------------------------------------------------------------------------
(* Cleaning up, for a failed startup and for a shutdown.                   *)

Latest == resources[Len(resources)]

Stops == running' = running \ {Latest} /\ UNCHANGED cleanupFailures

(* A refused unregistration or release leaves something behind, and its    *)
(* owner is gone.                                                          *)
FailsToStop == cleanupFailures' = cleanupFailures \cup {Latest} /\ UNCHANGED running

(* Mutant: a failure to stop one skips the rest.                           *)
StopResource_SkipsRest ==
  /\ call \in {"RollBack", "ShutDown"}
  /\ resources # <<>>
  /\ \/ Stops /\ resources' = SubSeq(resources, 1, Len(resources) - 1)
     \/ FailsToStop /\ resources' = <<>>
  /\ UNCHANGED <<status, settingsPending, next, unavailable, startupFailure, call>>

(* Mutant: the resources are stopped in the order they were started in.    *)
StopResource_FirstFirst ==
  /\ call \in {"RollBack", "ShutDown"}
  /\ resources # <<>>
  /\ resources' = Tail(resources)
  /\ \/ running' = running \ {Head(resources)} /\ UNCHANGED cleanupFailures
     \/ cleanupFailures' = cleanupFailures \cup {Head(resources)} /\ UNCHANGED running
  /\ UNCHANGED <<status, settingsPending, next, unavailable, startupFailure, call>>

(* The latest is stopped first; a failure to stop it is only noted.        *)
StopResource ==
  /\ call \in {"RollBack", "ShutDown"}
  /\ resources # <<>>
  /\ resources' = SubSeq(resources, 1, Len(resources) - 1)
  /\ Stops \/ FailsToStop
  /\ UNCHANGED <<status, settingsPending, next, unavailable, startupFailure, call>>

FinishCleanup ==
  /\ call \in {"RollBack", "ShutDown"}
  /\ resources = <<>>
  /\ call' = "None"
  /\ status' = IF call = "ShutDown" THEN "Stopped" ELSE status
  /\ UNCHANGED <<settingsPending, next, resources, unavailable, startupFailure,
                 cleanupFailures, running>>

-----------------------------------------------------------------------------
(* request_shutdown and shutdown                                           *)

ShutdownRequested ==
  status' = IF status = "Stopped" THEN status ELSE "ShuttingDown"

RequestShutdown ==
  /\ call = "None"
  /\ ShutdownRequested
  /\ UNCHANGED <<settingsPending, next, resources, unavailable, startupFailure,
                 cleanupFailures, call, running>>

Shutdown ==
  /\ call = "None"
  /\ status # "Stopped"
  /\ ShutdownRequested
  /\ call' = "ShutDown"
  /\ UNCHANGED <<settingsPending, next, resources, unavailable, startupFailure,
                 cleanupFailures, running>>

Next ==
  \/ BeginStart
  \/ StartParticipant
  \/ FinishStart
  \/ StopResource
  \/ FinishCleanup
  \/ RequestShutdown
  \/ Shutdown

Spec == Init /\ [][Next]_vars

-----------------------------------------------------------------------------
(* Properties.                                                             *)

(* Every variable has its type.                                            *)
TypeOK ==
  /\ status \in ApplicationStatus
  /\ settingsPending \in BOOLEAN
  /\ next \in 1 .. Len(Plan) + 1
  /\ resources \in Seq(Positions)
  /\ unavailable \subseteq Positions
  /\ startupFailure \in {"None", "Settings"} \cup {Capability(i) : i \in Positions}
  /\ cleanupFailures \subseteq Positions
  /\ call \in {"None", "Start", "RollBack", "ShutDown"}
  /\ running \subseteq Positions

(* What has not been asked to stop has under it everything that was started*)
(* before it (docs/architecture.md, "Shutdown is ordered"): nothing goes   *)
(* away under a participant that may depend on it.  And a failure does not *)
(* make cleanup skip anything: once startup has failed, or the application *)
(* has stopped, and the call is over, what may run on is only what is on   *)
(* record as a cleanup failure.                                            *)
CapabilitiesAreNested ==
  /\ \A i, j \in Positions :
       i < j /\ j \in running \ cleanupFailures => i \in running \cup unavailable
  /\ status \in {"Failed", "Stopped"} /\ call = "None" => running \subseteq cleanupFailures

=============================================================================
