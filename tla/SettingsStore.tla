---------------------------- MODULE SettingsStore ----------------------------
(***************************************************************************)
(* The settings service (src-tauri/src/settings.rs): a primary document, a *)
(* backup of the one before it and a quarantine, all in one directory;     *)
(* loaded when the process starts, replaced when a setting changes.        *)
(*                                                                         *)
(* An update holds the service's mutex to its end, so no two overlap, but  *)
(* it goes to the disk several times: the process may end, and the machine *)
(* may lose power, between any two of them.                                *)
(*                                                                         *)
(* External, the file system: a rename is atomic; what power loss leaves   *)
(* is the directory as it was at some point since it was last synchronised *)
(* (documents are synchronised before they are renamed).  On macOS         *)
(* renaming and synchronising are two calls, each of which may fail; on    *)
(* Windows one call does both or nothing.                                  *)
(*                                                                         *)
(* The settings are one value here: which field an update changes makes no *)
(* difference to how it is saved.  The temporary files are left out, since *)
(* nothing reads them; so are the warnings about artifacts and the log.    *)
(***************************************************************************)
EXTENDS SequencesExt, Naturals

CONSTANTS
  Values,          \* the values the settings may have
  Default,         \* the one a fresh installation starts with
  ClockStepsBack,  \* the wall clock may be set back
  MaxMalformed,    \* bound: how often the primary document is corrupted
  MaxQuarantine    \* bound: files in quarantine at any time

ASSUME StoreAssumption ==
  /\ Default \in Values
  /\ ClockStepsBack \in BOOLEAN
  /\ MaxMalformed \in Nat
  /\ MaxQuarantine \in Nat

VARIABLES
  dir,                   \* the directory as a running process sees it
  survivors,             \* what power loss may leave of it
  stage,                 \* where the process and its update are
  snapshot,              \* the live settings
  condition,             \* what loading found
  preservationRequired,  \* the primary must be copied before it is replaced
  proposed,              \* the settings the update in progress is to save
  lastSaveFailure,       \* the latest update could not be saved
  syncsSeparately,       \* the platform: replacing a document takes two calls
                         \* (macOS) or one (Windows)
  source                 \* history: the latest document that was not usable

storeVars == <<dir, survivors, stage, snapshot, condition,
               preservationRequired, proposed, lastSaveFailure>>
vars == <<storeVars, syncsSeparately, source>>

QuarantineRetention == 2

Nothing == 0
Document(kind, value) == [kind |-> kind, value |-> value]
Missing == Document("Missing", Nothing)

(* Current: complete, of this schema version.  Partial: of this version,   *)
(* with fields that have to be defaulted.  Unversioned: without a usable   *)
(* version.  Future: of a later version.  Malformed: not an object at all, *)
(* each one different.  Unreadable: not even bytes.                        *)
Readable(kinds) == {Document(kind, value) : kind \in kinds, value \in Values}
Foreign == {Document(kind, Nothing) : kind \in {"Future", "Malformed", "Unreadable"}}

(* What the process may find when it is first started.                     *)
FirstDocuments ==
  {Missing} \cup Foreign \cup Readable({"Current", "Partial", "Unversioned"})

LoadCondition == {"FirstRun", "CurrentVersion", "PartialRecovery",
                  "RecoveredFromBackup", "MalformedDefaulted",
                  "PersistenceUnavailable", "SchemaMetadataRecovered",
                  "UnsupportedFutureSchema"}

-----------------------------------------------------------------------------
(* Loading.                                                                *)

Load(as, value) == [condition |-> as, snapshot |-> value]

(* Mutant: a backup of a future version is merely unusable.                *)
LoadBackup_IgnoresFuture(d, otherwise) ==
  IF d.backup.kind = "Current"
  THEN Load("RecoveredFromBackup", d.backup.value)
  ELSE Load(otherwise, Default)

(* Only a complete backup of this version is used.                         *)
LoadBackup(d, otherwise) ==
  CASE d.backup.kind = "Current" -> Load("RecoveredFromBackup", d.backup.value)
    [] d.backup.kind = "Future" -> Load("UnsupportedFutureSchema", Default)
    [] OTHER -> Load(otherwise, Default)

LoadSettings(d) ==
  CASE d.primary.kind = "Current" -> Load("CurrentVersion", d.primary.value)
    [] d.primary.kind = "Partial" -> Load("PartialRecovery", d.primary.value)
    [] d.primary.kind = "Unversioned" ->
         Load("SchemaMetadataRecovered", d.primary.value)
    [] d.primary.kind = "Future" -> Load("UnsupportedFutureSchema", Default)
    [] d.primary.kind = "Malformed" -> LoadBackup(d, "MalformedDefaulted")
    [] d.primary.kind = "Missing" -> LoadBackup(d, "FirstRun")
    [] d.primary.kind = "Unreadable" -> Load("PersistenceUnavailable", Default)

Writable ==
  condition \notin {"UnsupportedFutureSchema", "PersistenceUnavailable"}

(* The quarantine's files are kept in the order of their names, which      *)
(* begin with the time they were made at.                                  *)
Quarantined(d, document) ==
  {[d EXCEPT !.quarantine = InsertAt(@, i, document)] :
     i \in IF ClockStepsBack THEN 1 .. Len(d.quarantine) + 1
                             ELSE {Len(d.quarantine) + 1}}

(* Removing all but the last names, or as many as can be removed.          *)
Pruned(d) ==
  LET surplus == Len(d.quarantine) - QuarantineRetention
  IN  {d} \cup {[d EXCEPT !.quarantine = SubSeq(@, n + 1, Len(@))] : n \in 1 .. surplus}

Init ==
  /\ dir \in [primary : FirstDocuments, backup : FirstDocuments, quarantine : {<<>>}]
  /\ survivors = {dir}
  /\ stage = "Down"
  /\ snapshot = Default
  /\ condition = "PersistenceUnavailable"
  /\ preservationRequired = FALSE
  /\ proposed = Default
  /\ lastSaveFailure = FALSE
  /\ syncsSeparately \in BOOLEAN
  /\ source = IF dir.primary.kind \in {"Malformed", "Unversioned"}
              THEN dir.primary ELSE Missing

(* A malformed primary goes to the quarantine, unless it cannot be moved.  *)
Boot ==
  /\ stage = "Down"
  /\ stage' = "Idle"
  /\ snapshot' = LoadSettings(dir).snapshot
  /\ condition' = LoadSettings(dir).condition
  /\ IF dir.primary.kind = "Malformed"
     THEN /\ Len(dir.quarantine) < MaxQuarantine
          /\ \E moved \in {dir} \cup Quarantined([dir EXCEPT !.primary = Missing],
                                                 dir.primary) :
               /\ dir' \in Pruned(moved)
               /\ survivors' = survivors \cup {moved, dir'}
     ELSE UNCHANGED <<dir, survivors>>
  /\ preservationRequired' =
       (/\ dir'.primary # Missing
        /\ condition' \in {"SchemaMetadataRecovered", "MalformedDefaulted",
                           "RecoveredFromBackup"})
  /\ lastSaveFailure' = FALSE
  /\ UNCHANGED <<proposed, source>>

-----------------------------------------------------------------------------
(* Updating.                                                               *)

(* Mutant: the document that is replaced is not backed up.                 *)
Proceed_WithoutBackup(required) ==
  stage' = IF required THEN "Preserve" ELSE "Primary"

(* The next thing to be done, given whether the primary must be preserved. *)
Proceed(required) ==
  stage' = IF required THEN "Preserve"
           ELSE IF dir.primary # Missing THEN "Backup" ELSE "Primary"

(* Every failure on the way ends the update there.                         *)
Refuse ==
  /\ stage' = "Idle"
  /\ lastSaveFailure' = TRUE
  /\ UNCHANGED <<snapshot, condition, proposed, source>>

(* The new document is written beside the old one, or cannot be.           *)
BeginUpdate(value) ==
  /\ stage = "Idle"
  /\ Writable
  /\ \/ /\ Proceed(preservationRequired)
        /\ proposed' = value
        /\ UNCHANGED <<snapshot, condition, lastSaveFailure, source>>
     \/ Refuse
  /\ UNCHANGED <<dir, survivors, preservationRequired>>

(* A copy that fails may leave a fragment behind, or a whole copy that     *)
(* could not be synchronised.                                              *)
Copied(document) == Quarantined(dir, document)

(* Mutant: the primary is replaced whether or not it could be copied.      *)
PreserveSource_Once ==
  /\ stage = "Preserve"
  /\ Len(dir.quarantine) < MaxQuarantine
  /\ \/ \E copied \in Copied(dir.primary) :
          /\ dir' \in Pruned(copied)
          /\ survivors' = survivors \cup {copied, dir'}
     \/ UNCHANGED <<dir, survivors>>
  /\ preservationRequired' = FALSE
  /\ Proceed(FALSE)
  /\ UNCHANGED <<snapshot, condition, proposed, lastSaveFailure, source>>

PreserveSource ==
  /\ stage = "Preserve"
  /\ Len(dir.quarantine) < MaxQuarantine
  /\ \/ /\ \E copied \in Copied(dir.primary) :
             /\ dir' \in Pruned(copied)
             /\ survivors' = survivors \cup {copied, dir'}
        /\ preservationRequired' = FALSE
        /\ Proceed(FALSE)
        /\ UNCHANGED <<snapshot, condition, proposed, lastSaveFailure, source>>
     \/ /\ dir' \in {dir} \cup Copied(dir.primary)
                          \cup Copied(Document("Fragment", Nothing))
        /\ survivors' = survivors \cup {dir'}
        /\ Refuse
        /\ UNCHANGED preservationRequired

(* A document is replaced: renamed on macOS, to be synchronised next.      *)
Replaced(d) ==
  /\ dir' = d
  /\ survivors' = IF syncsSeparately THEN survivors \cup {d} ELSE {d}

ReplaceBackup ==
  /\ stage = "Backup"
  /\ \/ /\ Replaced([dir EXCEPT !.backup = Document("Current", snapshot)])
        /\ stage' = IF syncsSeparately THEN "SyncBackup" ELSE "Primary"
        /\ UNCHANGED <<snapshot, condition, proposed, lastSaveFailure, source>>
     \/ Refuse /\ UNCHANGED <<dir, survivors>>
  /\ UNCHANGED preservationRequired

SyncBackup ==
  /\ stage = "SyncBackup"
  /\ \/ /\ survivors' = {dir}
        /\ stage' = "Primary"
        /\ UNCHANGED <<snapshot, condition, proposed, lastSaveFailure, source>>
     \/ Refuse /\ UNCHANGED survivors
  /\ UNCHANGED <<dir, preservationRequired>>

(* The update is acknowledged, and goes live.                              *)
Acknowledge ==
  /\ stage' = "Idle"
  /\ snapshot' = proposed
  /\ lastSaveFailure' = FALSE
  /\ UNCHANGED <<condition, proposed, preservationRequired, source>>

Saved == [dir EXCEPT !.primary = Document("Current", proposed)]

(* Mutant: an update is acknowledged when it is renamed.                   *)
ReplacePrimary_AcknowledgesEarly ==
  /\ stage = "Primary"
  /\ \/ Replaced(Saved) /\ Acknowledge
     \/ Refuse /\ UNCHANGED <<dir, survivors, preservationRequired>>

(* Mutant: the live settings change before it is known that they are saved.*)
ReplacePrimary_GoesLiveFirst ==
  /\ stage = "Primary"
  /\ \/ /\ ~syncsSeparately
        /\ Replaced(Saved)
        /\ Acknowledge
     \/ /\ stage' = "Idle"
        /\ lastSaveFailure' = TRUE
        /\ snapshot' = proposed
        /\ UNCHANGED <<dir, survivors, preservationRequired, condition,
                       proposed, source>>

ReplacePrimary ==
  /\ stage = "Primary"
  /\ \/ /\ syncsSeparately
        /\ Replaced(Saved)
        /\ stage' = "SyncPrimary"
        /\ UNCHANGED <<snapshot, condition, preservationRequired, proposed,
                       lastSaveFailure, source>>
     \/ /\ ~syncsSeparately
        /\ Replaced(Saved)
        /\ Acknowledge
     \/ Refuse /\ UNCHANGED <<dir, survivors, preservationRequired>>

SyncPrimary ==
  /\ stage = "SyncPrimary"
  /\ \/ survivors' = {dir} /\ Acknowledge
     \/ Refuse /\ UNCHANGED <<survivors, preservationRequired>>
  /\ UNCHANGED dir

-----------------------------------------------------------------------------
(* What happens to the process, the machine and the disk.                  *)

ProcessEnds ==
  /\ stage # "Down"
  /\ stage' = "Down"
  /\ UNCHANGED <<dir, survivors, snapshot, condition, preservationRequired,
                 proposed, lastSaveFailure, source>>

PowerLoss ==
  /\ stage' = "Down"
  /\ dir' \in survivors
  /\ survivors' = {dir'}
  /\ UNCHANGED <<snapshot, condition, preservationRequired, proposed,
                 lastSaveFailure, source>>

(* The primary is damaged while no process runs: the next one has to do    *)
(* with the backup.                                                        *)
CorruptPrimary ==
  /\ stage = "Down"
  /\ survivors = {dir}
  /\ dir.primary.kind = "Current"
  /\ \E n \in 1 .. MaxMalformed :
       /\ n > (IF source.kind = "Malformed" THEN source.value ELSE 0)
       /\ source' = Document("Malformed", n)
  /\ dir' = [dir EXCEPT !.primary = source']
  /\ survivors' = {dir'}
  /\ UNCHANGED <<stage, snapshot, condition, preservationRequired, proposed,
                 lastSaveFailure>>

Next ==
  /\ \/ Boot
     \/ \E value \in Values : BeginUpdate(value)
     \/ PreserveSource
     \/ ReplaceBackup
     \/ SyncBackup
     \/ ReplacePrimary
     \/ SyncPrimary
     \/ ProcessEnds
     \/ PowerLoss
     \/ CorruptPrimary
  /\ UNCHANGED syncsSeparately

Spec == Init /\ [][Next]_vars

-----------------------------------------------------------------------------
(* Properties.                                                             *)

(* Every variable has its type.                                            *)
TypeOK ==
  /\ survivors # {}
  /\ dir \in survivors
  /\ stage \in {"Down", "Idle", "Preserve", "Backup", "SyncBackup", "Primary",
                "SyncPrimary"}
  /\ snapshot \in Values
  /\ condition \in LoadCondition
  /\ preservationRequired \in BOOLEAN
  /\ proposed \in Values
  /\ lastSaveFailure \in BOOLEAN
  /\ syncsSeparately \in BOOLEAN

(* A document of a future version that stands in the way of the settings   *)
(* goes on doing so, whatever is started or fails: it is not replaced,     *)
(* normalised or moved (CONTEXT.md, "Settings changes remain blocked").    *)
Blocked(d) ==
  \/ d.primary.kind = "Future"
  \/ d.primary.kind \in {"Missing", "Malformed"} /\ d.backup.kind = "Future"

FutureDocumentsBlock == [][Blocked(dir) => Blocked(dir')]_vars

(* A primary that is malformed or of no known version is kept, in place or *)
(* in quarantine, through every failure of moving, copying or replacing it *)
(* (settings/tests.rs, "preserves_source_before_normalizing").             *)
SourceIsPreserved ==
  source # Missing =>
    \A d \in survivors : source = d.primary \/ Contains(d.quarantine, source)

Register ==
  INSTANCE SettingsContract WITH
    running <- stage # "Down",
    updating <- stage \notin {"Down", "Idle"},
    live <- snapshot,
    possible <- {LoadSettings(d).snapshot : d \in survivors},
    fallback <- {LoadBackup(d, "FirstRun").snapshot : d \in survivors},
    atomic <- ~syncsSeparately

(* For all its documents, the store is a register.  However the process or *)
(* the machine stops, the next start finds the settings acknowledged last, *)
(* or those of an update that came after it, never older ones and never    *)
(* defaults; damage costs at most the latest update (CONTEXT.md, "a        *)
(* last-known-good copy"); and an update that is refused has not gone live *)
(* (settings/tests.rs, "failed_primary_replacement_keeps_memory_and_       *)
(* last_known_good_files"), though on macOS it may be found on the disk.   *)
ImplementsRegister == Register!Spec

=============================================================================
