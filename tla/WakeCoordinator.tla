-------------------------- MODULE WakeCoordinator --------------------------
(***************************************************************************)
(* The wake coordinator (src-tauri/src/wake_coordinator.rs): the one owner *)
(* of the set of active wake reasons and of the native inhibitor.  Each of *)
(* its operations runs under the coordinator's own mutex, the native call  *)
(* included, so each is one step.                                          *)
(*                                                                         *)
(* A native failure is returned to the caller, but the change of reason it *)
(* accompanied is kept.  The coordinator never retries by itself: whether  *)
(* a failure is retried depends on who calls next.                         *)
(***************************************************************************)
EXTENDS SleepInhibitor

VARIABLE reasons

WakeReason == {"AutomaticDownload", "ManualKeepAwake"}

CoordinatorInit == InhibitorInit /\ reasons = {}

(* Mutant: removing any reason releases, whatever reasons remain.          *)
Reconcile_ReleasesOnAnyRemoval(wanted, ok) ==
  IF wanted # {} /\ reasons \subseteq wanted
  THEN Acquire(ok)
  ELSE Release(ok)

(* Acquire when the first reason appears, release when the last is gone,   *)
(* touch nothing while the native state already agrees.                    *)
Reconcile(wanted, ok) ==
  \/ wanted # {} /\ native = "Inactive" /\ Acquire(ok)
  \/ wanted = {} /\ native = "Active" /\ Release(ok)
  \/ /\ wanted = {} <=> native = "Inactive"
     /\ ok
     /\ UNCHANGED native

SetReasonActive(reason, active, ok) ==
  LET wanted == IF active THEN reasons \cup {reason} ELSE reasons \ {reason}
  IN  /\ reasons' = wanted
      /\ Reconcile(wanted, ok)

(* Shutdown clears every reason and reconciles once more.                  *)
CoordinatorShutdown(ok) ==
  /\ reasons' = {}
  /\ Reconcile({}, ok)

=============================================================================
