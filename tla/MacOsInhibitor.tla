--------------------------- MODULE MacOsInhibitor ---------------------------
(***************************************************************************)
(* The macOS adapter of the sleep inhibitor                                *)
(* (src-tauri/src/sleep_inhibitor/macos.rs): power assertions that are     *)
(* created and released by one call each.  An assertion whose release      *)
(* failed stays with the adapter and goes on keeping the system awake.     *)
(*                                                                         *)
(* The system's side, external, is the set of assertions it honours.       *)
(***************************************************************************)
EXTENDS Naturals

CONSTANT MaxAssertions  \* bound: assertions created over the adapter's life

VARIABLES
  assertionId,  \* the assertion the adapter owns
  dropped,      \* the adapter has been dropped
  created,      \* assertions the system has handed out
  honoured      \* assertions that keep the system awake

vars == <<assertionId, dropped, created, honoured>>

None == 0

Init ==
  /\ assertionId = None
  /\ dropped = FALSE
  /\ created = 0
  /\ honoured = {}

(* The gate in front of both calls: acquiring what is held and releasing   *)
(* what is not does nothing (IdleSleepInhibitor, sleep_inhibitor/mod.rs).  *)
IsActive == assertionId # None

Created ==
  /\ created < MaxAssertions
  /\ created' = created + 1
  /\ assertionId' = created + 1
  /\ honoured' = honoured \cup {created + 1}
  /\ UNCHANGED dropped

Acquire(ok) ==
  /\ ~dropped
  /\ \/ ok /\ IsActive /\ UNCHANGED vars
     \/ ok /\ ~IsActive /\ Created
     \/ ~ok /\ ~IsActive /\ UNCHANGED vars

(* Mutant: the assertion is taken out before it is known to be released.   *)
ReleaseAssertion_TakesFirst(ok) ==
  /\ assertionId' = None
  /\ honoured' = IF ok THEN honoured \ {assertionId} ELSE honoured
  /\ UNCHANGED <<dropped, created>>

ReleaseAssertion(ok) ==
  /\ IF ok
     THEN /\ assertionId' = None
          /\ honoured' = honoured \ {assertionId}
     ELSE UNCHANGED <<assertionId, honoured>>
  /\ UNCHANGED <<dropped, created>>

Release(ok) ==
  /\ ~dropped
  /\ \/ ok /\ ~IsActive /\ UNCHANGED vars
     \/ IsActive /\ ReleaseAssertion(ok)

(* cleanup_on_drop: the release is tried once.                             *)
Drop ==
  /\ ~dropped
  /\ dropped' = TRUE
  /\ assertionId' = None
  /\ \/ honoured' = honoured \ {assertionId}
     \/ UNCHANGED honoured
  /\ UNCHANGED created

Next ==
  \/ \E ok \in BOOLEAN : Acquire(ok)
  \/ \E ok \in BOOLEAN : Release(ok)
  \/ Drop

Spec == Init /\ [][Next]_vars

(* Every variable has its type.                                            *)
TypeOK ==
  /\ assertionId \in Nat
  /\ dropped \in BOOLEAN
  /\ created \in Nat
  /\ honoured \subseteq 1 .. created

(* The adapter owns exactly the assertion the system honours, of which     *)
(* there is at most one: what it reports is real and nothing is forgotten. *)
OwnsWhatIsHonoured == ~dropped => honoured = {assertionId} \ {None}

(* What the coordinator builds on.  Judged by whether the machine is kept  *)
(* awake, and not by what the adapter says of itself, every call with      *)
(* every result does what the coordinator takes it to have done.           *)
Inhibitor == INSTANCE SleepInhibitor WITH
  native <- IF honoured # {} THEN "Active" ELSE "Inactive"

CallsAreInhibitorCalls ==
  \A ok \in BOOLEAN : /\ Acquire(ok) => Inhibitor!Acquire(ok)
                      /\ Release(ok) => Inhibitor!Release(ok)

ImplementsInhibitor == Inhibitor!InhibitorInit /\ [][CallsAreInhibitorCalls]_vars

=============================================================================
