------------------------- MODULE ProtectionContract -------------------------
(***************************************************************************)
(* What Chiu promises about sleep protection, with none of the machinery   *)
(* that keeps the promise (docs/architecture.md, "Protection reasons and   *)
(* wake coordination").  wanted is the set of reasons somebody has to keep *)
(* the system awake, held says whether the operating system is being kept  *)
(* awake, closed that the product has let go for good.                     *)
(*                                                                         *)
(* Native calls may fail, so held may lag behind wanted.  It never moves   *)
(* the wrong way: it is not dropped while a reason remains and not taken   *)
(* up when none does.                                                      *)
(***************************************************************************)
CONSTANT Reasons

VARIABLES wanted, held, closed

contractVars == <<wanted, held, closed>>

Init ==
  /\ wanted = {}
  /\ held = FALSE
  /\ closed = FALSE

(* Protection follows what is wanted, or stays as it is.                   *)
Follow == held' = held \/ held' = (wanted' # {})

(* Somebody asks to be kept awake.                                         *)
Ask(reason) ==
  /\ ~closed
  /\ wanted' = wanted \cup {reason}
  /\ Follow
  /\ UNCHANGED closed

(* Somebody no longer needs it.                                            *)
Withdraw(reason) ==
  /\ ~closed
  /\ wanted' = wanted \ {reason}
  /\ Follow
  /\ UNCHANGED closed

(* A native call that failed before is tried again.                        *)
Retry ==
  /\ Follow
  /\ UNCHANGED <<wanted, closed>>

(* The product shuts down: nothing is wanted from here on.                 *)
Close ==
  /\ ~closed
  /\ closed' = TRUE
  /\ wanted' = {}
  /\ Follow

Next ==
  \/ \E reason \in Reasons : Ask(reason) \/ Withdraw(reason)
  \/ Retry
  \/ Close

Spec == Init /\ [][Next]_contractVars

=============================================================================
