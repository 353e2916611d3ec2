--------------------------- MODULE SettingsContract ---------------------------
(***************************************************************************)
(* What the settings service promises: the settings are a register that    *)
(* survives the end of the process and the loss of power.                  *)
(*                                                                         *)
(* The register is changed as a whole or not at all.  Once a change has    *)
(* been acknowledged nothing but damage to the document brings an earlier  *)
(* value back, and then it is the value that change replaced, and no older *)
(* one.  A change that was refused leaves the live settings alone; whether *)
(* it may all the same be found at the next start is up to the platform.   *)
(***************************************************************************)
CONSTANT Values

VARIABLES
  running,   \* there is a process
  updating,  \* it has an update in progress
  live,      \* the settings it goes by
  proposed,  \* the settings of the latest update
  possible,  \* what the next start may come up with
  fallback,  \* ... and if the document were damaged before it
  atomic     \* a document is replaced in one step that cannot fail halfway

register == <<running, updating, live, proposed, possible, fallback, atomic>>

NonEmpty(values) == (SUBSET values) \ {{}}

Init ==
  /\ running = FALSE
  /\ updating = FALSE
  /\ live \in Values
  /\ proposed \in Values
  /\ \E value \in Values : possible = {value}
  /\ \E value \in Values : fallback = {value}
  /\ atomic \in BOOLEAN

Start ==
  /\ ~running
  /\ running' = TRUE
  /\ live' \in possible
  /\ UNCHANGED <<updating, proposed, possible, fallback, atomic>>

Begin ==
  /\ running
  /\ ~updating
  /\ updating' = TRUE
  /\ proposed' \in Values
  /\ UNCHANGED <<running, live, possible, fallback, atomic>>

(* The value to be replaced is made the one to fall back on, for certain or*)
(* not yet; what was left uncertain before may be settled by that.         *)
BackUp ==
  /\ updating
  /\ \/ fallback' = fallback \union {live} /\ possible' = possible
     \/ fallback' = {live} /\ possible' \in NonEmpty(possible)
  /\ UNCHANGED <<running, updating, live, proposed, atomic>>

(* The new value is on the disk, but need not stay there.                  *)
Land ==
  /\ updating
  /\ ~atomic
  /\ possible' = possible \union {proposed}
  /\ UNCHANGED <<running, updating, live, proposed, fallback, atomic>>

Acknowledge ==
  /\ updating
  /\ updating' = FALSE
  /\ live' = proposed
  /\ possible' = {proposed}
  /\ fallback' = {live}
  /\ UNCHANGED <<running, proposed, atomic>>

Refuse ==
  /\ updating
  /\ updating' = FALSE
  /\ UNCHANGED <<running, live, proposed, possible, fallback, atomic>>

Stop ==
  /\ running
  /\ running' = FALSE
  /\ updating' = FALSE
  /\ UNCHANGED <<live, proposed, possible, fallback, atomic>>

PowerLoss ==
  /\ running' = FALSE
  /\ updating' = FALSE
  /\ possible' \in NonEmpty(possible)
  /\ fallback' \in NonEmpty(fallback)
  /\ UNCHANGED <<live, proposed, atomic>>

Damage ==
  /\ ~running
  /\ possible' = fallback
  /\ UNCHANGED <<running, updating, live, proposed, fallback, atomic>>

Next ==
  \/ Start
  \/ Begin
  \/ BackUp
  \/ Land
  \/ Acknowledge
  \/ Refuse
  \/ Stop
  \/ PowerLoss
  \/ Damage

Spec == Init /\ [][Next]_register

=============================================================================
