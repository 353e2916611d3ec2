----------------------------- MODULE PowerSource -----------------------------
(***************************************************************************)
(* The power source observer (src-tauri/src/power_source): the system's    *)
(* notifications are published to the observer's snapshot, and handed to   *)
(* the automatic protection policy from there.                             *)
(*                                                                         *)
(* A publication is two steps: the snapshot is written under its mutex, the*)
(* mutex is released, and then the policy is called (mod.rs, publish and   *)
(* stopped).  On Windows a notification comes on a thread of the system's, *)
(* one at a time, and finds its observer in a registry of tokens           *)
(* (windows.rs); on macOS it comes in the run loop of the thread that      *)
(* registered it, and is given a context in memory (macos.rs).             *)
(***************************************************************************)
EXTENDS Naturals

VARIABLES
  platform,      \* what the build is for
  snapshot,      \* what the observer shows: source, health, latest failure
  policyPower,   \* external: the source the policy was last given
  toPolicy,      \* per thread, a source recorded and not yet handed over
  stage,         \* how far the owner of the runtime is
  reachable,     \* the token is in the registry, or the context is alive
  native,        \* external: the system has the registration, and may call
  notification   \* how far the notification in progress is

vars == <<platform, snapshot, policyPower, toPolicy, stage, reachable, native,
          notification>>

Sources == {"External", "Limited", "Unknown"}

Threads == {"Owner", "Notification"}

(* The source a reading gives, or the operation that failed.               *)
Readings == Sources \cup {"Sample"}

Init ==
  /\ platform \in {"Windows", "MacOs"}
  /\ snapshot = [source |-> "Unknown", health |-> "Starting", failure |-> "None"]
  /\ policyPower = "Unknown"
  /\ toPolicy = [t \in Threads |-> "Nothing"]
  /\ stage = "NotStarted"
  /\ reachable = FALSE
  /\ native = FALSE
  /\ notification = "None"

-----------------------------------------------------------------------------
(* What both platforms share (mod.rs).                                     *)

Record(thread, shown) ==
  /\ snapshot' = shown
  /\ toPolicy' = [toPolicy EXCEPT ![thread] = shown.source]

(* Mutant: a failure leaves the source that was read last on show.         *)
Shown_KeepsSource(reading) ==
  IF reading \in Sources
  THEN [source |-> reading, health |-> "Observing", failure |-> "None"]
  ELSE [source |-> snapshot.source, health |-> "Degraded", failure |-> reading]

(* What is shown for a reading; for a failure the source is unknown.       *)
Shown(reading) ==
  IF reading \in Sources
  THEN [source |-> reading, health |-> "Observing", failure |-> "None"]
  ELSE [source |-> "Unknown", health |-> "Degraded", failure |-> reading]

Publish(thread, reading) == Record(thread, Shown(reading))

(* Observation has ended; a failure shown before stays unless there is one *)
(* to replace it.                                                          *)
Stopped(thread, failure) ==
  Record(thread,
         [source |-> "Unknown", health |-> "Stopped",
          failure |-> IF failure = "None" THEN snapshot.failure ELSE failure])

(* The second step: the policy is called, without the snapshot's mutex.    *)
HandToPolicy(thread) ==
  /\ toPolicy[thread] # "Nothing"
  /\ policyPower' = toPolicy[thread]
  /\ toPolicy' = [toPolicy EXCEPT ![thread] = "Nothing"]
  /\ UNCHANGED <<platform, snapshot, stage, reachable, native, notification>>

OwnerIdle == toPolicy["Owner"] = "Nothing"
Notified == notification # "None" \/ toPolicy["Notification"] # "Nothing"

-----------------------------------------------------------------------------
(* start                                                                   *)

(* The way from a notification to the observer is there before the system  *)
(* is asked for notifications.                                             *)
Prepare ==
  /\ stage = "NotStarted"
  /\ stage' = "Registering"
  /\ reachable' = TRUE
  /\ UNCHANGED <<platform, snapshot, policyPower, toPolicy, native, notification>>

(* Windows calls back with the current source by itself; on macOS the first*)
(* reading is taken here.                                                  *)
Register ==
  /\ stage = "Registering"
  /\ stage' = "Running"
  /\ native' = TRUE
  /\ \/ /\ platform = "Windows"
        /\ UNCHANGED <<snapshot, toPolicy>>
     \/ /\ platform = "MacOs"
        /\ \E reading \in Readings : Publish("Owner", reading)
  /\ UNCHANGED <<platform, policyPower, reachable, notification>>

RegistrationFails ==
  /\ stage = "Registering"
  /\ stage' = "Failed"
  /\ reachable' = FALSE
  /\ Publish("Owner", "Registration")
  /\ UNCHANGED <<platform, policyPower, native, notification>>

-----------------------------------------------------------------------------
(* A notification.                                                         *)

(* The run loop calls back when its thread is not in a call of the owner's.*)
SystemNotifies ==
  /\ native
  /\ ~Notified
  /\ platform = "Windows" \/ stage # "Running" \/ OwnerIdle
  /\ notification' = "Called"
  /\ UNCHANGED <<platform, snapshot, policyPower, toPolicy, stage, reachable,
                 native>>

(* Windows looks the token up, and keeps the observer it finds; macOS has  *)
(* nothing to ask.                                                         *)
FindObserver ==
  /\ notification = "Called"
  /\ notification' = IF reachable \/ platform = "MacOs" THEN "Found" ELSE "None"
  /\ UNCHANGED <<platform, snapshot, policyPower, toPolicy, stage, reachable,
                 native>>

PublishNotification ==
  /\ notification = "Found"
  /\ notification' = "None"
  /\ \E reading \in Readings : Publish("Notification", reading)
  /\ UNCHANGED <<platform, policyPower, stage, reachable, native>>

-----------------------------------------------------------------------------
(* PowerSourceRuntime::shutdown                                            *)

(* Mutant: on macOS the context is freed while the source is still valid.  *)
Unregister_FreesFirst ==
  /\ stage = "Running"
  /\ OwnerIdle
  /\ stage' = "Unregistered"
  /\ \/ platform = "Windows" /\ native' \in BOOLEAN /\ UNCHANGED reachable
     \/ platform = "MacOs" /\ ~Notified /\ reachable' = FALSE /\ UNCHANGED native
  /\ UNCHANGED <<platform, snapshot, policyPower, toPolicy, notification>>

(* Windows may refuse.  macOS invalidates the source and takes it from the *)
(* run loop, on the thread that registered it and so between notifications.*)
Unregister ==
  /\ stage = "Running"
  /\ OwnerIdle
  /\ stage' = "Unregistered"
  /\ \/ platform = "Windows" /\ native' \in BOOLEAN
     \/ platform = "MacOs" /\ ~Notified /\ native' = FALSE
  /\ UNCHANGED <<platform, snapshot, policyPower, toPolicy, reachable,
                 notification>>

(* On any other thread macOS refuses, and the source goes on notifying.    *)
ShutDownElsewhere ==
  /\ platform = "MacOs"
  /\ stage = "Running"
  /\ OwnerIdle
  /\ stage' = "Released"
  /\ UNCHANGED <<platform, snapshot, policyPower, toPolicy, reachable, native,
                 notification>>

(* Mutant: a refused unregistration returns before the token is removed.   *)
Release_WhenUnregistered ==
  /\ stage = "Unregistered"
  /\ stage' = "Released"
  /\ reachable' = native
  /\ UNCHANGED <<platform, snapshot, policyPower, toPolicy, native, notification>>

(* The token is removed, or the context freed, refused or not.             *)
Release ==
  /\ stage = "Unregistered"
  /\ stage' = "Released"
  /\ reachable' = FALSE
  /\ UNCHANGED <<platform, snapshot, policyPower, toPolicy, native, notification>>

Stop ==
  /\ stage = "Released"
  /\ stage' = "Stopped"
  /\ Stopped("Owner", IF native THEN "Unregistration" ELSE "None")
  /\ UNCHANGED <<platform, policyPower, reachable, native, notification>>

(* Dropping the runtime shuts it down once more: there is nothing left to  *)
(* unregister, and it is stopped without a failure.                        *)
DropRuntime ==
  /\ stage = "Stopped"
  /\ OwnerIdle
  /\ stage' = "Dropped"
  /\ Stopped("Owner", "None")
  /\ UNCHANGED <<platform, policyPower, reachable, native, notification>>

Next ==
  \/ Prepare
  \/ Register
  \/ RegistrationFails
  \/ SystemNotifies
  \/ FindObserver
  \/ PublishNotification
  \/ Unregister
  \/ ShutDownElsewhere
  \/ Release
  \/ Stop
  \/ DropRuntime
  \/ \E thread \in Threads : HandToPolicy(thread)

Spec == Init /\ [][Next]_vars

-----------------------------------------------------------------------------
(* Properties.                                                             *)

(* Every variable has its type.                                            *)
TypeOK ==
  /\ platform \in {"Windows", "MacOs"}
  /\ snapshot \in [source : Sources,
                   health : {"Starting", "Observing", "Degraded", "Stopped"},
                   failure : {"None", "Registration", "Sample", "Unregistration"}]
  /\ policyPower \in Sources
  /\ toPolicy \in [Threads -> Sources \cup {"Nothing"}]
  /\ stage \in {"NotStarted", "Registering", "Running", "Failed",
                "Unregistered", "Released", "Stopped", "Dropped"}
  /\ reachable \in BOOLEAN
  /\ native \in BOOLEAN
  /\ notification \in {"None", "Called", "Found"}

PublishingNothing == \A t \in Threads : toPolicy[t] = "Nothing"

(* The owner's shutdown runs on one thread and a notification on another.  *)
ShutdownOverlaps ==
  /\ stage \in {"Unregistered", "Released", "Stopped", "Dropped"}
  /\ platform = "Windows" \/ native

(* When no publication is under way the policy acts on the source on show, *)
(* and a source is only shown as known while it is observed.  A shutdown   *)
(* that overlaps a notification is left out: the two hand their sources to *)
(* the policy in either order, so it may be left acting on one that the    *)
(* observer shows as unknown (mod.rs, publish and stopped).                *)
PolicyFollowsObserver ==
  PublishingNothing /\ ~ShutdownOverlaps =>
    /\ policyPower = snapshot.source
    /\ snapshot.source # "Unknown" => snapshot.health = "Observing"

(* The system never calls back into a context that was freed (macos.rs,    *)
(* SAFETY comment of power_source_changed): it outlives the registration   *)
(* and every notification, wherever the runtime is shut down.              *)
ContextOutlivesSource ==
  platform = "MacOs" /\ (native \/ notification # "None") => reachable

(* On Windows a notification that comes once the runtime was shut down     *)
(* changes nothing and finds no observer to change, though the system may  *)
(* have refused to unregister it (windows.rs, "late_callbacks_are_no_ops");*)
(* one that had found its observer before still counts.                    *)
LateNotificationsAreIgnored ==
  [][ platform = "Windows" /\ stage = "Dropped" /\ PublishingNothing
        /\ notification # "Found"
      => /\ UNCHANGED <<snapshot, policyPower>>
         /\ notification' # "Found" ]_vars

=============================================================================
