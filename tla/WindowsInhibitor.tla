-------------------------- MODULE WindowsInhibitor --------------------------
(***************************************************************************)
(* The Windows adapter of the sleep inhibitor                              *)
(* (src-tauri/src/sleep_inhibitor/windows.rs): power requests that are     *)
(* created, set, cleared and closed by four calls into the system, each of *)
(* which may fail.  A request whose close failed stays with the adapter as *)
(* a debt, to be closed before the next request is created.                *)
(*                                                                         *)
(* The system's side, external, is the set of requests that are open and   *)
(* the set of those that keep the machine awake.  Closing a request ends   *)
(* what it asked for.  The adapter is exclusively borrowed for a call, so  *)
(* a call is one step, all its system calls included.                      *)
(***************************************************************************)
EXTENDS Naturals

CONSTANT MaxRequests  \* bound: requests created over the adapter's life

ASSUME RequestsAssumption == MaxRequests \in Nat

VARIABLES
  ownership,  \* what the adapter owns, and in which condition
  dropped,    \* the adapter has been dropped
  created,    \* requests the system has handed out
  open,       \* requests the system keeps open
  awake       \* requests that keep the system awake

adapterVars == <<ownership, dropped>>
systemVars == <<created, open, awake>>
vars == <<adapterVars, systemVars>>

NoHandle == 0
Handle == 1 .. MaxRequests

Unowned == [state |-> "Inactive", handle |-> NoHandle]
Owned(handle) == [state |-> "Active", handle |-> handle]
CleanupDebt(handle) == [state |-> "CleanupDebt", handle |-> handle]

Ownership ==
  {Unowned} \cup {Owned(handle) : handle \in Handle}
            \cup {CleanupDebt(handle) : handle \in Handle}

Init ==
  /\ ownership = Unowned
  /\ dropped = FALSE
  /\ created = 0
  /\ open = {}
  /\ awake = {}

-----------------------------------------------------------------------------
(* acquire                                                                 *)

NewHandle == created + 1

(* What is open once the debt, if there is one, is paid.                   *)
DebtPaid == open \ {ownership.handle}

(* Closing the old request fails again: no new one is created.             *)
DebtRefused ==
  /\ ownership.state = "CleanupDebt"
  /\ UNCHANGED <<adapterVars, systemVars>>

CreateRefused ==
  /\ ownership' = Unowned
  /\ open' = DebtPaid
  /\ UNCHANGED <<dropped, created, awake>>

(* The new request cannot be set, and is closed again or becomes a debt.   *)
SetRefused(closed) ==
  /\ created < MaxRequests
  /\ created' = NewHandle
  /\ ownership' = IF closed THEN Unowned ELSE CleanupDebt(NewHandle)
  /\ open' = IF closed THEN DebtPaid ELSE DebtPaid \cup {NewHandle}
  /\ UNCHANGED <<dropped, awake>>

(* Mutant: a debt is forgotten when the next request succeeds.             *)
Acquired_ForgetsDebt ==
  /\ created < MaxRequests
  /\ created' = NewHandle
  /\ ownership' = Owned(NewHandle)
  /\ open' = open \cup {NewHandle}
  /\ awake' = awake \cup {NewHandle}
  /\ UNCHANGED dropped

(* Mutant: the request is reported as set without having been set.         *)
Acquired_NeverSet ==
  /\ created < MaxRequests
  /\ created' = NewHandle
  /\ ownership' = Owned(NewHandle)
  /\ open' = DebtPaid \cup {NewHandle}
  /\ UNCHANGED <<dropped, awake>>

Acquired ==
  /\ created < MaxRequests
  /\ created' = NewHandle
  /\ ownership' = Owned(NewHandle)
  /\ open' = DebtPaid \cup {NewHandle}
  /\ awake' = awake \cup {NewHandle}
  /\ UNCHANGED dropped

(* ok is the Result.  The gate in front of both calls answers Ok when      *)
(* there is nothing to do (IdleSleepInhibitor, sleep_inhibitor/mod.rs).    *)
Acquire(ok) ==
  /\ ~dropped
  /\ \/ ok /\ ownership.state = "Active" /\ UNCHANGED vars
     \/ ok /\ ownership.state # "Active" /\ Acquired
     \/ /\ ~ok
        /\ ownership.state # "Active"
        /\ \/ DebtRefused
           \/ CreateRefused
           \/ \E closed \in BOOLEAN : SetRefused(closed)

-----------------------------------------------------------------------------
(* release                                                                 *)

(* Mutant: ownership has been taken out, and is not put back when clearing *)
(* the request fails.                                                      *)
ClearRefused_KeepsDebtOnly ==
  /\ ownership' = CleanupDebt(ownership.handle)
  /\ UNCHANGED <<dropped, systemVars>>

ClearRefused == UNCHANGED <<adapterVars, systemVars>>

Cleared(closed) ==
  /\ awake' = awake \ {ownership.handle}
  /\ ownership' = IF closed THEN Unowned ELSE CleanupDebt(ownership.handle)
  /\ open' = IF closed THEN open \ {ownership.handle} ELSE open
  /\ UNCHANGED <<dropped, created>>

Release(ok) ==
  /\ ~dropped
  /\ \/ ok /\ ownership.state # "Active" /\ UNCHANGED vars
     \/ ~ok /\ ownership.state = "Active" /\ ClearRefused
     \/ ownership.state = "Active" /\ Cleared(ok)

(* cleanup_on_drop: both calls are made once, whatever they return.        *)
Drop ==
  /\ ~dropped
  /\ dropped' = TRUE
  /\ ownership' = Unowned
  /\ \E cleared, closed \in BOOLEAN :
       /\ open' = IF closed THEN open \ {ownership.handle} ELSE open
       /\ awake' = IF cleared \/ closed
                   THEN awake \ {ownership.handle}
                   ELSE awake
  /\ UNCHANGED created

Next ==
  \/ \E ok \in BOOLEAN : Acquire(ok)
  \/ \E ok \in BOOLEAN : Release(ok)
  \/ Drop

Spec == Init /\ [][Next]_vars

-----------------------------------------------------------------------------
(* Properties.                                                             *)

(* Every variable has its type; an adapter without a request has no handle.*)
TypeOK ==
  /\ ownership \in Ownership
  /\ dropped \in BOOLEAN
  /\ created \in 0 .. MaxRequests
  /\ open \subseteq 1 .. created
  /\ awake \subseteq open

(* The adapter owns every request it has opened, whatever failed, so none  *)
(* is left open behind its back and there is never a second one            *)
(* (windows.rs acquire, release).                                          *)
NoRequestIsForgotten ==
  ~dropped => open = {ownership.handle} \ {NoHandle}

(* The adapter reports protection exactly when the system grants it.       *)
ReportedProtectionIsReal ==
  ~dropped => (ownership.state = "Active" <=> awake # {})

(* Together they are inductive.                                            *)
InductiveInvariant == TypeOK /\ NoRequestIsForgotten /\ ReportedProtectionIsReal

(* What the coordinator builds on.  Judged by whether the machine is kept  *)
(* awake, and not by what the adapter says of itself, every call with      *)
(* every result does what the coordinator takes it to have done.           *)
Inhibitor == INSTANCE SleepInhibitor WITH
  native <- IF awake # {} THEN "Active" ELSE "Inactive"

CallsAreInhibitorCalls ==
  \A ok \in BOOLEAN : /\ Acquire(ok) => Inhibitor!Acquire(ok)
                      /\ Release(ok) => Inhibitor!Release(ok)

ImplementsInhibitor == Inhibitor!InhibitorInit /\ [][CallsAreInhibitorCalls]_vars

=============================================================================
