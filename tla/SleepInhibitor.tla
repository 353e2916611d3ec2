--------------------------- MODULE SleepInhibitor ---------------------------
(***************************************************************************)
(* The native sleep inhibitor as the wake coordinator sees it: the         *)
(* IdleSleepInhibitor of src-tauri/src/sleep_inhibitor/mod.rs, without the *)
(* platform below it.  Its whole observable state is whether it holds      *)
(* protection.  Both calls are idempotent, and both may fail.              *)
(*                                                                         *)
(* The parameter ok of an action is the Result the call returns.  A failed *)
(* acquisition never leaves protection behind.  A failed release may: the  *)
(* Windows adapter reports Active when the request could not be cleared    *)
(* and Inactive when only closing its handle failed; the macOS adapter     *)
(* keeps its assertion.                                                    *)
(***************************************************************************)
VARIABLE native

ProtectionState == {"Inactive", "Active"}

InhibitorInit == native = "Inactive"

Acquire(ok) ==
  \/ /\ native = "Active"
     /\ ok
     /\ UNCHANGED native
  \/ /\ native = "Inactive"
     /\ native' = IF ok THEN "Active" ELSE "Inactive"

Release(ok) ==
  \/ /\ native = "Inactive"
     /\ ok
     /\ UNCHANGED native
  \/ /\ native = "Active"
     /\ IF ok THEN native' = "Inactive" ELSE native' \in ProtectionState

=============================================================================
