------------------------- MODULE SettingsStoreProofs -------------------------
(***************************************************************************)
(* That the settings on the disk are a register, for all values, all       *)
(* bounds, and a wall clock that may be set back; and that, while it is not*)
(* set back, the source of every recovery is preserved.                    *)
(*                                                                         *)
(* What a start would find depends on a directory's primary and backup     *)
(* only.  The invariant says how these two hang together with the live     *)
(* settings at each stage of an update: where the primary is of no use the *)
(* live settings came from the backup, and whenever the primary is about to*)
(* be replaced the backup holds what the live settings are.                *)
(***************************************************************************)
EXTENDS SettingsStore, TLAPS

Loaded(d) == LoadSettings(d).snapshot
Backed(d) == LoadBackup(d, "FirstRun").snapshot

Possible == {Loaded(d) : d \in survivors}
Fallback == {Backed(d) : d \in survivors}

IsDirectory(d) ==
  d = [primary |-> d.primary, backup |-> d.backup, quarantine |-> d.quarantine]

Useless(document) == document.kind \in {"Malformed", "Missing"}

Updating == {"Preserve", "Backup", "SyncBackup", "Primary", "SyncPrimary"}

IInv ==
  /\ stage \in {"Down", "Idle"} \cup Updating
  /\ dir \in survivors
  /\ \A d \in survivors : IsDirectory(d)
  /\ stage # "Down" /\ Useless(dir.primary) => Backed(dir) = snapshot
  /\ stage \in {"SyncBackup", "Primary", "SyncPrimary"} => Backed(dir) = snapshot
  /\ stage = "SyncPrimary" => Loaded(dir) = proposed

-----------------------------------------------------------------------------
(* What loading finds, in terms of the documents it looks at.              *)

LEMMA BackedByBackup ==
  ASSUME NEW d, NEW e, d.backup = e.backup PROVE Backed(d) = Backed(e)
BY DEF Backed, LoadBackup, Load

LEMMA BackedByCurrent ==
  ASSUME NEW d, d.backup.kind = "Current" PROVE Backed(d) = d.backup.value
BY DEF Backed, LoadBackup, Load

LEMMA BackedWhatever ==
  ASSUME NEW d, NEW otherwise
  PROVE  LoadBackup(d, otherwise).snapshot = Backed(d)
BY DEF Backed, LoadBackup, Load

LEMMA LoadedFromBackup ==
  ASSUME NEW d, Useless(d.primary) PROVE Loaded(d) = Backed(d)
<1>1. \/ LoadSettings(d) = LoadBackup(d, "MalformedDefaulted")
      \/ LoadSettings(d) = LoadBackup(d, "FirstRun")
  BY DEF Useless, LoadSettings
<1> QED
  BY <1>1, BackedWhatever DEF Loaded

LEMMA LoadedFromCurrent ==
  ASSUME NEW d, d.primary.kind = "Current" PROVE Loaded(d) = d.primary.value
BY DEF Loaded, LoadSettings, Load

LEMMA LoadedByPrimary ==
  ASSUME NEW d, NEW e, d.primary = e.primary, ~Useless(d.primary)
  PROVE  Loaded(d) = Loaded(e)
BY DEF Loaded, LoadSettings, Useless, Load

LEMMA LoadedByBoth ==
  ASSUME NEW d, NEW e, d.primary = e.primary, d.backup = e.backup
  PROVE  Loaded(d) = Loaded(e) /\ Backed(d) = Backed(e)
<1>1. Backed(d) = Backed(e)
  BY BackedByBackup
<1>2. CASE Useless(d.primary)
  BY <1>1, <1>2, LoadedFromBackup
<1>3. CASE ~Useless(d.primary)
  BY <1>1, <1>3, LoadedByPrimary
<1> QED
  BY <1>2, <1>3

-----------------------------------------------------------------------------
(* Directories.                                                            *)

Alike(d, e) == IsDirectory(e) /\ e.primary = d.primary /\ e.backup = d.backup

LEMMA QuarantineOnly ==
  ASSUME NEW d, IsDirectory(d), NEW document, NEW e \in Quarantined(d, document)
  PROVE  Alike(d, e)
<1>1. PICK q : e = [d EXCEPT !.quarantine = q]
  BY DEF Quarantined
<1> QED
  BY <1>1 DEF Alike, IsDirectory

LEMMA PruneOnly ==
  ASSUME NEW d, IsDirectory(d), NEW e \in Pruned(d)
  PROVE  Alike(d, e)
<1>1. e = d \/ \E q : e = [d EXCEPT !.quarantine = q]
  BY DEF Pruned
<1> QED
  BY <1>1 DEF Alike, IsDirectory

LEMMA AlikeLoadsAlike ==
  ASSUME NEW d, NEW e, Alike(d, e)
  PROVE  Loaded(e) = Loaded(d) /\ Backed(e) = Backed(d)
BY LoadedByBoth DEF Alike

(* A survivor more that loads what another does makes no difference.       *)
LEMMA MoreSurvivors ==
  ASSUME survivors \subseteq survivors',
         \A e \in survivors' \ survivors : Loaded(e) \in Possible /\ Backed(e) \in Fallback
  PROVE  Possible' = Possible /\ Fallback' = Fallback
<1>1. Possible' = {Loaded(d) : d \in survivors'} /\ Fallback' = {Backed(d) : d \in survivors'}
  BY DEF Possible, Fallback, Loaded, Backed
<1>2. Possible = {Loaded(d) : d \in survivors} /\ Fallback = {Backed(d) : d \in survivors}
  BY DEF Possible, Fallback
<1>3. Possible' = Possible
  BY <1>1, <1>2
<1>4. Fallback' = Fallback
  BY <1>1, <1>2
<1> QED
  BY <1>3, <1>4

LEMMA OneSurvivor ==
  ASSUME survivors' = {dir'}
  PROVE  Possible' = {Loaded(dir')} /\ Fallback' = {Backed(dir')}
BY DEF Possible, Fallback

LEMMA OneMoreSurvivor ==
  ASSUME survivors' = survivors \cup {dir'}
  PROVE  /\ Possible' = Possible \cup {Loaded(dir')}
         /\ Fallback' = Fallback \cup {Backed(dir')}
BY DEF Possible, Fallback

LEMMA DirSurvives ==
  ASSUME IInv
  PROVE  IsDirectory(dir) /\ Loaded(dir) \in Possible /\ Backed(dir) \in Fallback
BY DEF IInv, Possible, Fallback

(* What only touches the quarantine: the directory, and what power loss may*)
(* leave of it, go on loading what they did.                               *)
Harmless ==
  /\ Alike(dir, dir')
  /\ survivors \subseteq survivors'
  /\ dir' \in survivors'
  /\ \A e \in survivors' \ survivors : Alike(dir, e)

LEMMA HarmlessChangesNothing ==
  ASSUME IInv, Harmless
  PROVE  /\ Possible' = Possible /\ Fallback' = Fallback
         /\ dir'.primary = dir.primary
         /\ Loaded(dir') = Loaded(dir) /\ Backed(dir') = Backed(dir)
         /\ dir' \in survivors' /\ \A d \in survivors' : IsDirectory(d)
<1>1. \A e \in survivors' \ survivors : /\ Loaded(e) \in Possible /\ Backed(e) \in Fallback
                                        /\ IsDirectory(e)
  BY DirSurvives, AlikeLoadsAlike DEF Harmless, Alike
<1>2. Possible' = Possible /\ Fallback' = Fallback
  BY <1>1, MoreSurvivors DEF Harmless
<1>3. \A d \in survivors' : IsDirectory(d)
  BY <1>1 DEF IInv
<1> QED
  BY <1>2, <1>3, AlikeLoadsAlike DEF Harmless, Alike

-----------------------------------------------------------------------------
(* Each step of the store is a step of the register.                       *)

(* A primary that is moved away was of no use, so what a start finds is the*)
(* same before and after.                                                  *)
LEMMA BootStarts ==
  ASSUME IInv, Boot, UNCHANGED syncsSeparately
  PROVE  IInv' /\ Register!Start
<1>1. /\ stage = "Down" /\ stage' = "Idle"
      /\ snapshot' = Loaded(dir)
      /\ UNCHANGED proposed
  BY DEF Boot, Loaded
<1>2. IsDirectory(dir) /\ Loaded(dir) \in Possible /\ Backed(dir) \in Fallback
  BY DirSurvives
<1> DEFINE LoadsAlike(e) ==
      IsDirectory(e) /\ Loaded(e) = Loaded(dir) /\ Backed(e) = Backed(dir)
<1>3. /\ LoadsAlike(dir') /\ dir' \in survivors'
      /\ Useless(dir'.primary) => Useless(dir.primary)
      /\ survivors \subseteq survivors'
      /\ \A e \in survivors' \ survivors : LoadsAlike(e)
  <2>1. CASE dir.primary.kind = "Malformed"
    <3> DEFINE emptied == [dir EXCEPT !.primary = Missing]
    <3>1. PICK moved \in {dir} \cup Quarantined(emptied, dir.primary) :
            /\ dir' \in Pruned(moved)
            /\ survivors' = survivors \cup {moved, dir'}
      BY <2>1 DEF Boot
    <3>2. /\ IsDirectory(emptied)
          /\ emptied.primary = Missing /\ emptied.backup = dir.backup
      BY <1>2 DEF IsDirectory
    <3> HIDE DEF emptied
    <3>3. Useless(dir.primary) /\ Useless(emptied.primary)
      BY <2>1, <3>2 DEF Useless, Missing, Document
    <3>4. Backed(emptied) = Backed(dir)
      BY <3>2, BackedByBackup
    <3>5. Loaded(emptied) = Loaded(dir)
      BY <3>3, <3>4, LoadedFromBackup
    <3>6. moved = dir \/ Alike(emptied, moved)
      BY <3>1, <3>2, QuarantineOnly
    <3>7. LoadsAlike(moved)
      BY <1>2, <3>4, <3>5, <3>6, AlikeLoadsAlike DEF Alike
    <3>8. Alike(moved, dir')
      BY <3>1, <3>7, PruneOnly
    <3>9. LoadsAlike(dir')
      BY <3>7, <3>8, AlikeLoadsAlike DEF Alike
    <3> HIDE DEF LoadsAlike
    <3> QED
      BY <3>1, <3>3, <3>7, <3>9
  <2>2. CASE dir.primary.kind # "Malformed"
    <3>1. UNCHANGED <<dir, survivors>>
      BY <2>2 DEF Boot
    <3> QED
      BY <1>2, <3>1 DEF IInv
  <2> QED
    BY <2>1, <2>2
<1>4. Possible' = Possible /\ Fallback' = Fallback
  BY <1>2, <1>3, MoreSurvivors
<1>5. \A d \in survivors' : IsDirectory(d)
  BY <1>3 DEF IInv
<1>6. Useless(dir'.primary) => Backed(dir') = snapshot'
  BY <1>1, <1>3, LoadedFromBackup
<1>7. IInv'
  BY <1>1, <1>3, <1>5, <1>6 DEF IInv, Updating, Useless, Backed, Loaded, IsDirectory
<1> QED
  BY <1>1, <1>2, <1>4, <1>7 DEF Register!Start, Possible, Fallback, Loaded, Backed

(* Where there is no primary to be backed up, the settings came from the   *)
(* backup.                                                                 *)
LEMMA BeginUpdateBegins ==
  ASSUME IInv, NEW value \in Values, BeginUpdate(value), UNCHANGED syncsSeparately
  PROVE  IInv' /\ (Register!Begin \/ UNCHANGED Register!register)
<1>1. stage = "Idle" /\ UNCHANGED <<dir, survivors, snapshot>>
  BY DEF BeginUpdate, Refuse
<1>2. Possible' = Possible /\ Fallback' = Fallback
  BY <1>1 DEF Possible, Fallback
<1>3. CASE Proceed(preservationRequired) /\ proposed' = value
  <2>1. stage' \in {"Preserve", "Backup", "Primary"}
        /\ (stage' = "Primary" => dir.primary = Missing)
    BY <1>3 DEF Proceed
  <2>2. stage' = "Primary" => Backed(dir) = snapshot
    BY <1>1, <2>1 DEF IInv, Useless, Missing, Document
  <2>3. IInv'
    BY <1>1, <2>1, <2>2 DEF IInv, Updating, Useless, Backed, Loaded, IsDirectory
  <2> QED
    BY <1>1, <1>2, <1>3, <2>1, <2>3
    DEF Register!Begin, Possible, Fallback, Loaded, Backed
<1>4. CASE Refuse
  <2>1. IInv'
    BY <1>1, <1>4 DEF Refuse, IInv, Updating, Useless, Backed, Loaded, IsDirectory
  <2> QED
    BY <1>1, <1>2, <1>4, <2>1
    DEF Refuse, Register!register, Possible, Fallback, Loaded, Backed
<1> QED
  BY <1>3, <1>4 DEF BeginUpdate

(* An update may be refused at any stage, if the directory loads as before.*)
LEMMA RefuseRefuses ==
  ASSUME IInv, Refuse, Harmless, stage \in Updating, UNCHANGED syncsSeparately
  PROVE  IInv' /\ Register!Refuse
<1>1. /\ Possible' = Possible /\ Fallback' = Fallback
      /\ dir'.primary = dir.primary
      /\ Loaded(dir') = Loaded(dir) /\ Backed(dir') = Backed(dir)
      /\ dir' \in survivors' /\ \A d \in survivors' : IsDirectory(d)
  BY HarmlessChangesNothing
<1>2. stage' = "Idle" /\ UNCHANGED <<snapshot, proposed>> /\ stage \notin {"Down", "Idle"}
  BY DEF Refuse, Updating
<1>3. IInv'
  BY <1>1, <1>2 DEF IInv, Updating, Useless, Backed, Loaded, IsDirectory
<1> QED
  BY <1>1, <1>2, <1>3 DEF Register!Refuse, Possible, Fallback, Loaded, Backed

LEMMA NothingIsHarmless ==
  ASSUME IInv, UNCHANGED <<dir, survivors>> PROVE Harmless
BY DirSurvives DEF Harmless, Alike, IInv

LEMMA PreserveSourceStutters ==
  ASSUME IInv, PreserveSource, UNCHANGED syncsSeparately
  PROVE  IInv' /\ (Register!Refuse \/ UNCHANGED Register!register)
<1>1. stage = "Preserve" /\ IsDirectory(dir) /\ dir \in survivors
  BY DirSurvives DEF PreserveSource, IInv
<1>2. ASSUME NEW document, dir' \in Quarantined(dir, document),
             survivors' = survivors \cup {dir'}
      PROVE  Harmless
  BY <1>1, <1>2, QuarantineOnly DEF Harmless, Copied
<1>3. CASE /\ \E copied \in Copied(dir.primary) :
                /\ dir' \in Pruned(copied)
                /\ survivors' = survivors \cup {copied, dir'}
           /\ Proceed(FALSE)
           /\ UNCHANGED <<snapshot, proposed>>
  <2>1. PICK copied \in Copied(dir.primary) :
          /\ dir' \in Pruned(copied)
          /\ survivors' = survivors \cup {copied, dir'}
    BY <1>3
  <2>2. Alike(dir, copied)
    BY <1>1, <2>1, QuarantineOnly DEF Copied
  <2>3. Alike(copied, dir')
    BY <2>1, <2>2, PruneOnly DEF Alike
  <2>4. Harmless
    BY <2>1, <2>2, <2>3 DEF Harmless, Alike
  <2>5. /\ Possible' = Possible /\ Fallback' = Fallback
        /\ dir'.primary = dir.primary
        /\ Loaded(dir') = Loaded(dir) /\ Backed(dir') = Backed(dir)
        /\ dir' \in survivors' /\ \A d \in survivors' : IsDirectory(d)
    BY <2>4, HarmlessChangesNothing
  <2>6. stage' \in {"Backup", "Primary"} /\ (stage' = "Primary" => dir.primary = Missing)
    BY <1>3 DEF Proceed
  <2>7. stage' = "Primary" => Backed(dir) = snapshot
    BY <1>1, <2>6 DEF IInv, Useless, Missing, Document
  <2>8. IInv'
    BY <1>1, <1>3, <2>5, <2>6, <2>7
    DEF IInv, Updating, Useless, Backed, Loaded, IsDirectory
  <2> QED
    BY <1>1, <1>3, <2>5, <2>6, <2>8
    DEF Register!register, Possible, Fallback, Loaded, Backed
<1>4. CASE /\ dir' \in {dir} \cup Copied(dir.primary)
                             \cup Copied(Document("Fragment", Nothing))
           /\ survivors' = survivors \cup {dir'}
           /\ Refuse
  <2>1. Harmless
    <3>1. CASE dir' = dir
      BY <1>1, <1>4, <3>1, NothingIsHarmless
    <3>2. CASE dir' # dir
      BY <1>2, <1>4, <3>2 DEF Copied
    <3> QED
      BY <3>1, <3>2
  <2> QED
    BY <1>1, <1>4, <2>1, RefuseRefuses DEF Updating
<1> QED
  BY <1>3, <1>4 DEF PreserveSource

(* Replacing the backup changes what a start finds only where the primary  *)
(* is of no use, and there the backup already held the live settings.      *)
LEMMA ReplaceBackupBacksUp ==
  ASSUME IInv, ReplaceBackup, UNCHANGED syncsSeparately
  PROVE  IInv' /\ (Register!BackUp \/ Register!Refuse)
<1>1. stage = "Backup"
  BY DEF ReplaceBackup
<1>2. IsDirectory(dir) /\ Loaded(dir) \in Possible /\ Backed(dir) \in Fallback
  BY DirSurvives
<1> DEFINE saved == [dir EXCEPT !.backup = Document("Current", snapshot)]
<1>3. CASE /\ Replaced(saved)
           /\ stage' = IF syncsSeparately THEN "SyncBackup" ELSE "Primary"
           /\ UNCHANGED <<snapshot, proposed>>
  <2>1. /\ IsDirectory(dir') /\ dir'.primary = dir.primary
        /\ dir'.backup = Document("Current", snapshot)
    BY <1>2, <1>3 DEF Replaced, IsDirectory
  <2>2. Backed(dir') = snapshot
    BY <2>1, BackedByCurrent DEF Document
  <2>3. Loaded(dir') = Loaded(dir)
    <3>1. CASE Useless(dir.primary)
      <4>1. Backed(dir) = snapshot
        BY <1>1, <3>1 DEF IInv
      <4> QED
        BY <2>1, <2>2, <3>1, <4>1, LoadedFromBackup
    <3>2. CASE ~Useless(dir.primary)
      BY <2>1, <3>2, LoadedByPrimary
    <3> QED
      BY <3>1, <3>2
  <2>4. survivors' = IF syncsSeparately THEN survivors \cup {dir'} ELSE {dir'}
    BY <1>3 DEF Replaced
  <2>5. dir' \in survivors' /\ \A d \in survivors' : IsDirectory(d)
    BY <2>1, <2>4 DEF IInv
  <2>6. stage' \in {"SyncBackup", "Primary"}
    BY <1>3
  <2>7. IInv'
    BY <1>3, <2>2, <2>5, <2>6 DEF IInv, Updating, Useless, Backed, Loaded, IsDirectory
  <2>8. CASE syncsSeparately
    <3>1. Possible' = Possible /\ Fallback' = Fallback \cup {snapshot}
      BY <1>2, <2>2, <2>3, <2>4, <2>8, OneMoreSurvivor
    <3> QED
      BY <1>1, <1>3, <2>6, <2>7, <3>1
      DEF Register!BackUp, Possible, Fallback, Loaded, Backed
  <2>9. CASE ~syncsSeparately
    <3>1. Possible' = {Loaded(dir)} /\ Fallback' = {snapshot}
      BY <2>2, <2>3, <2>4, <2>9, OneSurvivor
    <3>2. Possible' \in (SUBSET Possible) \ {{}}
      BY <1>2, <3>1
    <3> QED
      BY <1>1, <1>3, <2>6, <2>7, <3>1, <3>2
      DEF Register!BackUp, Register!NonEmpty, Possible, Fallback, Loaded, Backed
  <2> QED
    BY <2>8, <2>9
<1>4. CASE Refuse /\ UNCHANGED <<dir, survivors>>
  BY <1>1, <1>4, NothingIsHarmless, RefuseRefuses DEF Updating
<1> QED
  BY <1>3, <1>4 DEF ReplaceBackup

LEMMA SyncBackupBacksUp ==
  ASSUME IInv, SyncBackup, UNCHANGED syncsSeparately
  PROVE  IInv' /\ (Register!BackUp \/ Register!Refuse)
<1>1. stage = "SyncBackup" /\ dir' = dir
  BY DEF SyncBackup
<1>2. IsDirectory(dir) /\ Loaded(dir) \in Possible /\ Backed(dir) = snapshot
  BY <1>1, DirSurvives DEF IInv
<1>3. CASE survivors' = {dir} /\ stage' = "Primary" /\ UNCHANGED <<snapshot, proposed>>
  <2>1. Possible' = {Loaded(dir)} /\ Fallback' = {snapshot}
    BY <1>1, <1>2, <1>3 DEF Possible, Fallback
  <2>2. Possible' \in (SUBSET Possible) \ {{}}
    BY <1>2, <2>1
  <2>3. IInv'
    BY <1>1, <1>2, <1>3 DEF IInv, Updating, Useless, Backed, Loaded, IsDirectory
  <2> QED
    BY <1>1, <1>3, <2>1, <2>2, <2>3
    DEF Register!BackUp, Register!NonEmpty, Possible, Fallback, Loaded, Backed
<1>4. CASE Refuse /\ UNCHANGED survivors
  BY <1>1, <1>4, NothingIsHarmless, RefuseRefuses DEF Updating
<1> QED
  BY <1>3, <1>4 DEF SyncBackup

(* The backup holds what the primary is replaced from.                     *)
LEMMA ReplacePrimaryLands ==
  ASSUME IInv, ReplacePrimary, UNCHANGED syncsSeparately
  PROVE  IInv' /\ (Register!Land \/ Register!Acknowledge \/ Register!Refuse)
<1>1. stage = "Primary"
  BY DEF ReplacePrimary
<1>2. IsDirectory(dir) /\ Backed(dir) \in Fallback /\ Backed(dir) = snapshot
  BY <1>1, DirSurvives DEF IInv
<1>3. ASSUME Replaced(Saved)
      PROVE  /\ IsDirectory(dir')
             /\ ~Useless(dir'.primary)
             /\ Loaded(dir') = proposed /\ Backed(dir') = snapshot
             /\ dir' \in survivors' /\ \A d \in survivors' : IsDirectory(d)
             /\ survivors' = IF syncsSeparately THEN survivors \cup {dir'} ELSE {dir'}
  <2>1. /\ IsDirectory(dir') /\ dir'.backup = dir.backup
        /\ dir'.primary = Document("Current", proposed)
    BY <1>2, <1>3 DEF Replaced, Saved, IsDirectory
  <2>2. Loaded(dir') = proposed /\ ~Useless(dir'.primary)
    BY <2>1, LoadedFromCurrent DEF Document, Useless
  <2>3. Backed(dir') = snapshot
    BY <1>2, <2>1, BackedByBackup
  <2>4. survivors' = IF syncsSeparately THEN survivors \cup {dir'} ELSE {dir'}
    BY <1>3 DEF Replaced
  <2>5. dir' \in survivors' /\ \A d \in survivors' : IsDirectory(d)
    BY <2>1, <2>4 DEF IInv
  <2> QED
    BY <2>1, <2>2, <2>3, <2>4, <2>5
<1>4. CASE /\ syncsSeparately /\ Replaced(Saved) /\ stage' = "SyncPrimary"
           /\ UNCHANGED <<snapshot, proposed>>
  <2>1. Possible' = Possible \cup {proposed} /\ Fallback' = Fallback
    BY <1>2, <1>3, <1>4, OneMoreSurvivor
  <2>2. IInv'
    BY <1>3, <1>4 DEF IInv, Updating, Useless, Backed, Loaded, IsDirectory
  <2> QED
    BY <1>1, <1>4, <2>1, <2>2 DEF Register!Land, Possible, Fallback, Loaded, Backed
<1>5. CASE ~syncsSeparately /\ Replaced(Saved) /\ Acknowledge
  <2>1. Possible' = {proposed} /\ Fallback' = {snapshot}
    BY <1>3, <1>5, OneSurvivor
  <2>2. stage' = "Idle" /\ snapshot' = proposed /\ UNCHANGED proposed
    BY <1>5 DEF Acknowledge
  <2>3. IInv'
    BY <1>3, <1>5, <2>2 DEF IInv, Updating, Useless, Backed, Loaded, IsDirectory
  <2> QED
    BY <1>1, <2>1, <2>2, <2>3
    DEF Register!Acknowledge, Possible, Fallback, Loaded, Backed
<1>6. CASE Refuse /\ UNCHANGED <<dir, survivors>>
  BY <1>1, <1>6, NothingIsHarmless, RefuseRefuses DEF Updating
<1> QED
  BY <1>4, <1>5, <1>6 DEF ReplacePrimary

LEMMA SyncPrimaryAcknowledges ==
  ASSUME IInv, SyncPrimary, UNCHANGED syncsSeparately
  PROVE  IInv' /\ (Register!Acknowledge \/ Register!Refuse)
<1>1. stage = "SyncPrimary" /\ dir' = dir
  BY DEF SyncPrimary
<1>2. IsDirectory(dir) /\ Loaded(dir) = proposed /\ Backed(dir) = snapshot
  BY <1>1, DirSurvives DEF IInv
<1>3. CASE survivors' = {dir} /\ Acknowledge
  <2>1. Possible' = {proposed} /\ Fallback' = {snapshot}
    BY <1>1, <1>2, <1>3 DEF Possible, Fallback
  <2>2. stage' = "Idle" /\ snapshot' = proposed /\ UNCHANGED proposed
    BY <1>3 DEF Acknowledge
  <2>3. Useless(dir.primary) => Backed(dir) = proposed
    BY <1>2, LoadedFromBackup
  <2>4. IInv'
    BY <1>1, <1>2, <1>3, <2>2, <2>3
    DEF IInv, Updating, Useless, Backed, Loaded, IsDirectory
  <2> QED
    BY <1>1, <2>1, <2>2, <2>4
    DEF Register!Acknowledge, Possible, Fallback, Loaded, Backed
<1>4. CASE Refuse /\ UNCHANGED survivors
  BY <1>1, <1>4, NothingIsHarmless, RefuseRefuses DEF Updating
<1> QED
  BY <1>3, <1>4 DEF SyncPrimary

LEMMA ProcessEndsStops ==
  ASSUME IInv, ProcessEnds, UNCHANGED syncsSeparately
  PROVE  IInv' /\ Register!Stop
<1>1. stage # "Down" /\ stage' = "Down" /\ UNCHANGED <<dir, survivors, snapshot, proposed>>
  BY DEF ProcessEnds
<1>2. Possible' = Possible /\ Fallback' = Fallback
  BY <1>1 DEF Possible, Fallback
<1>3. IInv'
  BY <1>1 DEF IInv, Updating, Useless, Backed, Loaded, IsDirectory
<1> QED
  BY <1>1, <1>2, <1>3 DEF Register!Stop, Possible, Fallback, Loaded, Backed

LEMMA PowerLossLoses ==
  ASSUME IInv, PowerLoss, UNCHANGED syncsSeparately
  PROVE  IInv' /\ Register!PowerLoss
<1>1. /\ stage' = "Down" /\ dir' \in survivors /\ survivors' = {dir'}
      /\ UNCHANGED <<snapshot, proposed>>
  BY DEF PowerLoss
<1>2. Possible' = {Loaded(dir')} /\ Fallback' = {Backed(dir')}
  BY <1>1, OneSurvivor
<1>3. Loaded(dir') \in Possible /\ Backed(dir') \in Fallback
  BY <1>1 DEF Possible, Fallback
<1>4. Possible' \in (SUBSET Possible) \ {{}} /\ Fallback' \in (SUBSET Fallback) \ {{}}
  BY <1>2, <1>3
<1>5. IInv'
  BY <1>1 DEF IInv, Updating, Useless, Backed, Loaded, IsDirectory
<1> QED
  BY <1>1, <1>4, <1>5
  DEF Register!PowerLoss, Register!NonEmpty, Possible, Fallback, Loaded, Backed

LEMMA CorruptPrimaryDamages ==
  ASSUME IInv, CorruptPrimary, UNCHANGED syncsSeparately
  PROVE  IInv' /\ Register!Damage
<1>1. /\ stage = "Down" /\ UNCHANGED <<stage, snapshot, proposed>>
      /\ survivors = {dir} /\ survivors' = {dir'}
      /\ dir' = [dir EXCEPT !.primary = source']
  BY DEF CorruptPrimary
<1>2. source'.kind = "Malformed"
  BY DEF CorruptPrimary, Document
<1>3. IsDirectory(dir') /\ Useless(dir'.primary) /\ dir'.backup = dir.backup
  BY <1>1, <1>2, DirSurvives DEF IsDirectory, Useless
<1>4. Backed(dir') = Backed(dir) /\ Loaded(dir') = Backed(dir)
  BY <1>3, BackedByBackup, LoadedFromBackup
<1>5. Possible' = {Backed(dir)} /\ Fallback' = {Backed(dir)}
  BY <1>1, <1>4, OneSurvivor
<1>6. Fallback = {Backed(dir)}
  BY <1>1 DEF Fallback
<1>7. IInv'
  BY <1>1, <1>3 DEF IInv, Updating, Useless, Backed, Loaded, IsDirectory
<1> QED
  BY <1>1, <1>5, <1>6, <1>7 DEF Register!Damage, Possible, Fallback, Loaded, Backed

-----------------------------------------------------------------------------

LEMMA FirstStart == Init => IInv /\ Register!Init
<1> SUFFICES ASSUME Init PROVE IInv /\ Register!Init
  OBVIOUS
<1>1. /\ dir \in [primary : FirstDocuments, backup : FirstDocuments, quarantine : {<<>>}]
      /\ survivors = {dir} /\ stage = "Down" /\ snapshot = Default /\ proposed = Default
      /\ syncsSeparately \in BOOLEAN /\ Default \in Values
  BY StoreAssumption DEF Init
<1>2. \A document \in FirstDocuments :
        document.kind \in {"Current", "Partial", "Unversioned"} => document.value \in Values
  BY DEF FirstDocuments, Foreign, Readable, Missing, Document
<1>3. IsDirectory(dir) /\ dir.primary \in FirstDocuments /\ dir.backup \in FirstDocuments
  BY <1>1 DEF IsDirectory
<1>4. Backed(dir) \in Values
  BY <1>1, <1>2, <1>3 DEF Backed, LoadBackup, Load
<1>5. Loaded(dir) \in Values
  <2>1. CASE Useless(dir.primary)
    BY <1>4, <2>1, LoadedFromBackup
  <2>2. CASE ~Useless(dir.primary)
    <3>1. dir.primary.kind \in {"Current", "Partial", "Unversioned", "Future", "Unreadable"}
      BY <1>3, <2>2
      DEF FirstDocuments, Foreign, Readable, Missing, Document, Useless
    <3> QED
      BY <1>1, <1>2, <1>3, <3>1 DEF Loaded, LoadSettings, Load
  <2> QED
    BY <2>1, <2>2
<1>6. Possible = {Loaded(dir)} /\ Fallback = {Backed(dir)}
  BY <1>1 DEF Possible, Fallback
<1>7. IInv
  BY <1>1, <1>3 DEF IInv
<1> QED
  BY <1>1, <1>4, <1>5, <1>6, <1>7
  DEF Register!Init, Possible, Fallback, Loaded, Backed

LEMMA StoreStep ==
  IInv /\ [Next]_vars => IInv' /\ [Register!Next]_Register!register
<1> SUFFICES ASSUME IInv, [Next]_vars
             PROVE  IInv' /\ [Register!Next]_Register!register
  OBVIOUS
<1>1. CASE Boot /\ UNCHANGED syncsSeparately
  BY <1>1, BootStarts DEF Register!Next
<1>2. ASSUME NEW value \in Values, BeginUpdate(value), UNCHANGED syncsSeparately
      PROVE  IInv' /\ [Register!Next]_Register!register
  BY <1>2, BeginUpdateBegins DEF Register!Next
<1>3. CASE PreserveSource /\ UNCHANGED syncsSeparately
  BY <1>3, PreserveSourceStutters DEF Register!Next
<1>4. CASE ReplaceBackup /\ UNCHANGED syncsSeparately
  BY <1>4, ReplaceBackupBacksUp DEF Register!Next
<1>5. CASE SyncBackup /\ UNCHANGED syncsSeparately
  BY <1>5, SyncBackupBacksUp DEF Register!Next
<1>6. CASE ReplacePrimary /\ UNCHANGED syncsSeparately
  BY <1>6, ReplacePrimaryLands DEF Register!Next
<1>7. CASE SyncPrimary /\ UNCHANGED syncsSeparately
  BY <1>7, SyncPrimaryAcknowledges DEF Register!Next
<1>8. CASE ProcessEnds /\ UNCHANGED syncsSeparately
  BY <1>8, ProcessEndsStops DEF Register!Next
<1>9. CASE PowerLoss /\ UNCHANGED syncsSeparately
  BY <1>9, PowerLossLoses DEF Register!Next
<1>10. CASE CorruptPrimary /\ UNCHANGED syncsSeparately
  BY <1>10, CorruptPrimaryDamages DEF Register!Next
<1>11. CASE UNCHANGED vars
  <2>1. UNCHANGED <<dir, survivors, stage, snapshot, proposed, syncsSeparately>>
    BY <1>11 DEF vars, storeVars
  <2>2. Possible' = Possible /\ Fallback' = Fallback
    BY <2>1 DEF Possible, Fallback
  <2>3. IInv'
    BY <2>1 DEF IInv, Updating, Useless, Backed, Loaded, IsDirectory
  <2> QED
    BY <2>1, <2>2, <2>3 DEF Register!register, Possible, Fallback, Loaded, Backed
<1> QED
  BY <1>1, <1>2, <1>3, <1>4, <1>5, <1>6, <1>7, <1>8, <1>9, <1>10, <1>11 DEF Next

(* What the settings are at every stage of an update follows from the      *)
(* documents as the invariant says.                                        *)
THEOREM StoreInvariant == Spec => []IInv
BY FirstStart, StoreStep, PTL DEF Spec

(* For any values, any documents found at the first start, and any order of*)
(* updates, failures, ends of the process and losses of power, the store is*)
(* a register (settings.rs, "load_settings" and "commit_locked").          *)
THEOREM StoreImplementsRegister == Spec => ImplementsRegister
BY FirstStart, StoreStep, StoreInvariant, PTL
DEF Spec, ImplementsRegister, Register!Spec

-----------------------------------------------------------------------------
(* Documents of a future version.                                          *)

(* Such a document is found before anything is written, and nothing else is*)
(* left by then for power loss to bring back.                              *)
BInv ==
  Blocked(dir) => /\ stage # "Down" => stage = "Idle" /\ ~Writable
                  /\ \A d \in survivors : Blocked(d)

LEMMA AlikeBlocksAlike ==
  ASSUME NEW d, NEW e, Alike(d, e) PROVE Blocked(e) <=> Blocked(d)
BY DEF Alike, Blocked

LEMMA HarmlessBlocksAlike ==
  ASSUME Harmless
  PROVE  /\ Blocked(dir') <=> Blocked(dir)
         /\ \A e \in survivors' \ survivors : Blocked(e) <=> Blocked(dir)
BY AlikeBlocksAlike DEF Harmless

LEMMA BootStaysBlocked ==
  ASSUME IInv, BInv, Boot PROVE BInv' /\ (Blocked(dir) => Blocked(dir'))
<1>1. IsDirectory(dir) /\ stage' = "Idle" /\ condition' = LoadSettings(dir).condition
  BY DirSurvives DEF Boot
<1>2. Blocked(dir) => ~Writable'
  BY <1>1 DEF Blocked, LoadSettings, LoadBackup, Load, Writable
<1>3. CASE dir.primary.kind = "Malformed"
  <2> DEFINE emptied == [dir EXCEPT !.primary = Missing]
  <2>1. PICK moved \in {dir} \cup Quarantined(emptied, dir.primary) :
          /\ dir' \in Pruned(moved)
          /\ survivors' = survivors \cup {moved, dir'}
    BY <1>3 DEF Boot
  <2>2. IsDirectory(emptied) /\ emptied.primary = Missing /\ emptied.backup = dir.backup
    BY <1>1 DEF IsDirectory
  <2> HIDE DEF emptied
  <2>3. Blocked(emptied) <=> Blocked(dir)
    BY <1>3, <2>2 DEF Blocked, Missing, Document
  <2>4. moved = dir \/ Alike(emptied, moved)
    BY <2>1, <2>2, QuarantineOnly
  <2>5. IsDirectory(moved) /\ (Blocked(moved) <=> Blocked(dir))
    BY <1>1, <2>3, <2>4, AlikeBlocksAlike DEF Alike
  <2>6. Blocked(dir') <=> Blocked(dir)
    BY <2>1, <2>5, PruneOnly, AlikeBlocksAlike
  <2> QED
    BY <1>1, <1>2, <2>1, <2>5, <2>6 DEF BInv
<1>4. CASE dir.primary.kind # "Malformed"
  <2>1. UNCHANGED <<dir, survivors>>
    BY <1>4 DEF Boot
  <2> QED
    BY <1>1, <1>2, <2>1 DEF BInv, Blocked
<1> QED
  BY <1>3, <1>4

LEMMA UpdateStaysBlocked ==
  ASSUME IInv, BInv,
         \/ \E value \in Values : BeginUpdate(value)
         \/ PreserveSource \/ ReplaceBackup \/ SyncBackup \/ ReplacePrimary
         \/ SyncPrimary
  PROVE  BInv' /\ (Blocked(dir) => Blocked(dir'))
<1>1. ~Blocked(dir)
  BY DEF BInv, BeginUpdate, PreserveSource, ReplaceBackup, SyncBackup, ReplacePrimary,
         SyncPrimary
<1>2. IsDirectory(dir)
  BY DirSurvives
<1>3. ~Blocked(dir')
  <2>1. CASE \/ \E value \in Values : BeginUpdate(value)
             \/ SyncBackup \/ SyncPrimary
    BY <1>1, <2>1 DEF BeginUpdate, SyncBackup, SyncPrimary, Refuse, Blocked
  <2>2. CASE PreserveSource
    <3>1. CASE dir' = dir
      BY <1>1, <3>1
    <3>2. ASSUME NEW document, dir' \in Quarantined(dir, document) PROVE ~Blocked(dir')
      BY <1>1, <1>2, <3>2, QuarantineOnly, AlikeBlocksAlike
    <3>3. ASSUME NEW copied \in Copied(dir.primary), dir' \in Pruned(copied)
          PROVE  ~Blocked(dir')
      <4>1. Alike(dir, copied)
        BY <1>2, <3>3, QuarantineOnly DEF Copied
      <4>2. Alike(copied, dir')
        BY <3>3, <4>1, PruneOnly DEF Alike
      <4> QED
        BY <1>1, <4>1, <4>2, AlikeBlocksAlike
    <3> QED
      BY <2>2, <3>1, <3>2, <3>3 DEF PreserveSource, Copied
  <2>3. CASE ReplaceBackup
    <3>1. CASE UNCHANGED dir
      BY <1>1, <3>1
    <3>2. CASE dir' = [dir EXCEPT !.backup = Document("Current", snapshot)]
      <4>1. dir'.primary = dir.primary /\ dir'.backup.kind = "Current"
        BY <1>2, <3>2 DEF IsDirectory, Document
      <4> QED
        BY <1>1, <4>1 DEF Blocked
    <3> QED
      BY <2>3, <3>1, <3>2 DEF ReplaceBackup, Replaced
  <2>4. CASE ReplacePrimary
    <3>1. CASE UNCHANGED dir
      BY <1>1, <3>1
    <3>2. CASE dir' = Saved
      <4>1. dir'.primary.kind = "Current"
        BY <1>2, <3>2 DEF Saved, IsDirectory, Document
      <4> QED
        BY <4>1 DEF Blocked
    <3> QED
      BY <2>4, <3>1, <3>2 DEF ReplacePrimary, Replaced
  <2> QED
    BY <2>1, <2>2, <2>3, <2>4
<1> QED
  BY <1>1, <1>3 DEF BInv

LEMMA BlockedStep ==
  IInv /\ BInv /\ [Next]_vars => BInv' /\ (Blocked(dir) => Blocked(dir'))
<1> SUFFICES ASSUME IInv, BInv, [Next]_vars
             PROVE  BInv' /\ (Blocked(dir) => Blocked(dir'))
  OBVIOUS
<1>1. CASE Boot
  BY <1>1, BootStaysBlocked
<1>2. CASE \/ \E value \in Values : BeginUpdate(value)
           \/ PreserveSource \/ ReplaceBackup \/ SyncBackup \/ ReplacePrimary
           \/ SyncPrimary
  BY <1>2, UpdateStaysBlocked
<1>3. CASE ProcessEnds
  BY <1>3 DEF ProcessEnds, BInv, Blocked
<1>4. CASE PowerLoss
  BY <1>4 DEF PowerLoss, BInv, Blocked
<1>5. CASE CorruptPrimary
  <2>1. dir.primary.kind = "Current" /\ survivors' = {dir'} /\ stage' = "Down"
    BY <1>5 DEF CorruptPrimary
  <2> QED
    BY <2>1 DEF BInv, Blocked
<1>6. CASE UNCHANGED vars
  BY <1>6 DEF vars, storeVars, BInv, Blocked, Writable
<1> QED
  BY <1>1, <1>2, <1>3, <1>4, <1>5, <1>6 DEF Next

LEMMA BlockedAtFirst == Init => BInv
BY DEF Init, BInv

(* For all values and bounds: whatever is started, fails or is cut off, a  *)
(* document of a future version that stands in the way goes on doing so.   *)
THEOREM FutureDocumentsStay == Spec => FutureDocumentsBlock
<1>1. IInv /\ BInv /\ [Next]_vars => [Blocked(dir) => Blocked(dir')]_vars
  BY BlockedStep
<1>2. Spec => []BInv
  BY StoreInvariant, BlockedAtFirst, BlockedStep, PTL DEF Spec
<1> QED
  BY <1>1, <1>2, StoreInvariant, PTL DEF Spec, FutureDocumentsBlock

-----------------------------------------------------------------------------
(* Sources of recovery.                                                    *)

Kinds == {"Missing", "Current", "Partial", "Unversioned", "Future", "Malformed",
          "Unreadable"}

Doc == [kind : Kinds \cup {"Fragment"}, value : Values \cup Int]

(* What is kept, as evidence or to recover from, before it is replaced.    *)
Unusable(document) == document.kind \in {"Malformed", "Unversioned"}

Preserved(d) == source = d.primary \/ Contains(d.quarantine, source)

Sound(d) ==
  /\ d.quarantine \in Seq(Doc)
  /\ d.primary.kind \in Kinds
  /\ d.primary.kind = "Missing" => d.primary = Missing
  /\ Unusable(d.primary) => d.primary = source
  /\ source # Missing => Preserved(d)

(* A document that has to be preserved is still the primary, and what may  *)
(* be replaced has been preserved.                                         *)
Careful ==
  /\ stage \in Updating => Writable
  /\ stage = "Preserve" => preservationRequired
  /\ stage \in Updating \ {"Preserve"} => ~preservationRequired
  /\ stage # "Down" /\ preservationRequired => Unusable(dir.primary)
  /\ stage # "Down" /\ Writable /\ ~preservationRequired /\ source # Missing =>
       Contains(dir.quarantine, source)

SInv ==
  /\ source \in Doc
  /\ source = Missing \/ Unusable(source)
  /\ \A d \in survivors : Sound(d)
  /\ Careful

LEMMA QuarantinedLast ==
  ASSUME ~ClockStepsBack, NEW d, IsDirectory(d), d.quarantine \in Seq(Doc),
         NEW document \in Doc, NEW e \in Quarantined(d, document)
  PROVE  /\ IsDirectory(e)
         /\ e.primary = d.primary
         /\ e.quarantine \in Seq(Doc)
         /\ Len(e.quarantine) = Len(d.quarantine) + 1
         /\ e.quarantine[Len(e.quarantine)] = document
         /\ \A i \in 1 .. Len(d.quarantine) : e.quarantine[i] = d.quarantine[i]
<1> DEFINE q == d.quarantine
<1>1. e = [d EXCEPT !.quarantine = InsertAt(@, Len(q) + 1, document)]
  BY DEF Quarantined
<1>2. IsDirectory(e) /\ e.primary = d.primary
      /\ e.quarantine = InsertAt(q, Len(q) + 1, document)
  BY <1>1 DEF IsDirectory
<1>3. ASSUME NEW s \in Seq(Doc)
      PROVE  /\ InsertAt(s, Len(s) + 1, document) \in Seq(Doc)
             /\ Len(InsertAt(s, Len(s) + 1, document)) = Len(s) + 1
             /\ InsertAt(s, Len(s) + 1, document)[Len(s) + 1] = document
             /\ \A i \in 1 .. Len(s) : InsertAt(s, Len(s) + 1, document)[i] = s[i]
  <2> DEFINE front == SubSeq(s, 1, Len(s) + 1 - 1)
             back == SubSeq(s, Len(s) + 1, Len(s))
  <2>1. /\ front \in Seq(Doc) /\ Len(front) = Len(s)
        /\ \A i \in 1 .. Len(s) : front[i] = s[i]
    OBVIOUS
  <2>2. back \in Seq(Doc) /\ Len(back) = 0
    OBVIOUS
  <2>3. InsertAt(s, Len(s) + 1, document) = front \o <<document>> \o back
    BY DEF InsertAt
  <2> DEFINE copied == front \o <<document>>
  <2> HIDE DEF front, back
  <2>4. /\ copied \in Seq(Doc) /\ Len(copied) = Len(s) + 1
        /\ copied[Len(s) + 1] = document
        /\ \A i \in 1 .. Len(s) : copied[i] = s[i]
    BY <2>1
  <2>5. InsertAt(s, Len(s) + 1, document) = copied \o back
    BY <2>3
  <2> HIDE DEF copied
  <2>6. copied \o back = copied
    BY <2>2, <2>4
  <2> QED
    BY <2>4, <2>5, <2>6
<1>4. /\ InsertAt(q, Len(q) + 1, document) \in Seq(Doc)
      /\ Len(InsertAt(q, Len(q) + 1, document)) = Len(q) + 1
      /\ InsertAt(q, Len(q) + 1, document)[Len(q) + 1] = document
      /\ \A i \in 1 .. Len(q) : InsertAt(q, Len(q) + 1, document)[i] = q[i]
  BY <1>3
<1> QED
  BY <1>2, <1>4

LEMMA TailKeepsLast ==
  ASSUME NEW s \in Seq(Doc), NEW n \in 1 .. Len(s) - 2
  PROVE  /\ SubSeq(s, n + 1, Len(s)) \in Seq(Doc)
         /\ Len(SubSeq(s, n + 1, Len(s))) = Len(s) - n
         /\ SubSeq(s, n + 1, Len(s))[Len(s) - n] = s[Len(s)]
<1>1. Len(s) \in Nat /\ n \in Nat /\ n < Len(s)
  OBVIOUS
<1>2. SubSeq(s, n + 1, Len(s)) \in Seq(Doc)
  BY <1>1
<1>3. Len(SubSeq(s, n + 1, Len(s))) = Len(s) - n
  BY <1>1
<1>4. SubSeq(s, n + 1, Len(s))[Len(s) - n] = s[Len(s)]
  BY <1>1
<1> QED
  BY <1>2, <1>3, <1>4

LEMMA PruneKeepsLast ==
  ASSUME NEW d, IsDirectory(d), d.quarantine \in Seq(Doc), Len(d.quarantine) > 0,
         NEW e \in Pruned(d)
  PROVE  /\ e.quarantine \in Seq(Doc)
         /\ Contains(e.quarantine, d.quarantine[Len(d.quarantine)])
<1> DEFINE q == d.quarantine
<1>1. CASE e = d
  BY <1>1 DEF Contains
<1>2. CASE e # d
  <2>1. PICK n \in 1 .. Len(q) - 2 : e = [d EXCEPT !.quarantine = SubSeq(@, n + 1, Len(@))]
    BY <1>2 DEF Pruned, QuarantineRetention
  <2>2. e.quarantine = SubSeq(q, n + 1, Len(q))
    BY <2>1 DEF IsDirectory
  <2>3. /\ SubSeq(q, n + 1, Len(q)) \in Seq(Doc)
        /\ Len(SubSeq(q, n + 1, Len(q))) = Len(q) - n
        /\ SubSeq(q, n + 1, Len(q))[Len(q) - n] = q[Len(q)]
    BY <2>1, TailKeepsLast
  <2>4. Len(q) - n \in 1 .. Len(q) - n
    BY <2>1
  <2> QED
    BY <2>2, <2>3, <2>4 DEF Contains
<1> QED
  BY <1>1, <1>2

(* A copy of the source in the quarantine is its last file, and pruning    *)
(* keeps that.                                                             *)
LEMMA SourceIsCopied ==
  ASSUME ~ClockStepsBack, NEW d, IsDirectory(d), d.quarantine \in Seq(Doc),
         source \in Doc, NEW copied \in Quarantined(d, source), NEW e \in Pruned(copied)
  PROVE  /\ copied.quarantine \in Seq(Doc) /\ Contains(copied.quarantine, source)
         /\ e.quarantine \in Seq(Doc) /\ Contains(e.quarantine, source)
         /\ copied.primary = d.primary /\ e.primary = d.primary
         /\ IsDirectory(copied)
<1>1. /\ IsDirectory(copied)
      /\ copied.primary = d.primary
      /\ copied.quarantine \in Seq(Doc)
      /\ Len(copied.quarantine) = Len(d.quarantine) + 1
      /\ copied.quarantine[Len(copied.quarantine)] = source
  BY QuarantinedLast
<1>2. Len(copied.quarantine) > 0
  BY <1>1
<1>3. e.quarantine \in Seq(Doc) /\ Contains(e.quarantine, source)
  BY <1>1, <1>2, PruneKeepsLast
<1>4. Contains(copied.quarantine, source)
  BY <1>1, <1>2 DEF Contains
<1>5. e.primary = d.primary
  BY <1>1, PruneOnly DEF Alike
<1> QED
  BY <1>1, <1>3, <1>4, <1>5

LEMMA BootPreserves ==
  ASSUME ~ClockStepsBack, IInv, SInv, Boot PROVE SInv'
<1>1. /\ IsDirectory(dir) /\ dir \in survivors /\ Sound(dir)
      /\ source' = source /\ stage' = "Idle"
      /\ condition' = LoadSettings(dir).condition
      /\ preservationRequired' =
           (/\ dir'.primary # Missing
            /\ condition' \in {"SchemaMetadataRecovered", "MalformedDefaulted",
                               "RecoveredFromBackup"})
  BY DirSurvives DEF Boot, IInv, SInv
<1>2. CASE dir.primary.kind = "Malformed"
  <2> DEFINE emptied == [dir EXCEPT !.primary = Missing]
  <2>1. PICK moved \in {dir} \cup Quarantined(emptied, dir.primary) :
          /\ dir' \in Pruned(moved)
          /\ survivors' = survivors \cup {moved, dir'}
    BY <1>2 DEF Boot
  <2>2. dir.primary = source /\ source # Missing
    BY <1>1, <1>2 DEF Sound, Unusable, Missing, Document
  <2>3. CASE moved = dir
    <3>1. Alike(dir, dir') /\ dir'.quarantine \in Seq(Doc)
      <4>1. dir' = dir \/ \E n \in 1 .. Len(dir.quarantine) - 2 :
              dir' = [dir EXCEPT !.quarantine = SubSeq(@, n + 1, Len(@))]
        BY <2>1, <2>3 DEF Pruned, QuarantineRetention
      <4>2. dir.quarantine \in Seq(Doc)
        BY <1>1 DEF Sound
      <4>3. ASSUME NEW n \in 1 .. Len(dir.quarantine) - 2
            PROVE  SubSeq(dir.quarantine, n + 1, Len(dir.quarantine)) \in Seq(Doc)
        BY <4>2
      <4> QED
        BY <1>1, <4>1, <4>2, <4>3 DEF Alike, IsDirectory
    <3>2. Sound(dir')
      BY <1>1, <2>2, <3>1 DEF Sound, Alike, Preserved
    <3>3. dir'.primary = source
      BY <2>2, <3>1 DEF Alike
    <3>4. ~Writable' \/ preservationRequired'
      BY <1>1, <1>2, <2>2, <3>3 DEF LoadSettings, LoadBackup, Load, Writable
    <3>5. Careful'
      BY <1>1, <1>2, <2>2, <3>3, <3>4 DEF Careful, Updating, Unusable
    <3>6. \A d \in survivors' : Sound(d)'
      BY <1>1, <2>1, <2>3, <3>2 DEF SInv, Sound, Preserved
    <3> QED
      BY <1>1, <3>5, <3>6 DEF SInv
  <2>4. CASE moved # dir
    <3>1. /\ IsDirectory(emptied) /\ emptied.primary = Missing
          /\ emptied.quarantine \in Seq(Doc)
      BY <1>1 DEF IsDirectory, Sound
    <3>2. moved \in Quarantined(emptied, source)
      BY <2>1, <2>2, <2>4
    <3> HIDE DEF emptied
    <3>3. /\ moved.quarantine \in Seq(Doc) /\ Contains(moved.quarantine, source)
          /\ dir'.quarantine \in Seq(Doc) /\ Contains(dir'.quarantine, source)
          /\ moved.primary = Missing /\ dir'.primary = Missing
      BY <2>1, <3>1, <3>2, SourceIsCopied DEF SInv
    <3>4. Sound(moved) /\ Sound(dir')
      BY <3>3 DEF Sound, Preserved, Kinds, Unusable, Missing, Document
    <3>5. Careful'
      BY <1>1, <3>3 DEF Careful, Updating
    <3>6. \A d \in survivors' : Sound(d)'
      BY <1>1, <2>1, <3>4 DEF SInv, Sound, Preserved
    <3> QED
      BY <1>1, <3>5, <3>6 DEF SInv
  <2> QED
    BY <2>3, <2>4
<1>3. CASE dir.primary.kind # "Malformed"
  <2>1. UNCHANGED <<dir, survivors>>
    BY <1>3 DEF Boot
  <2>2. preservationRequired' => Unusable(dir.primary)
    BY <1>1, <1>3, <2>1
    DEF Sound, Kinds, LoadSettings, LoadBackup, Load, Unusable, Missing, Document
  <2>3. Writable' /\ ~preservationRequired' /\ source # Missing =>
          Contains(dir.quarantine, source)
    <3> SUFFICES ASSUME ~preservationRequired', source # Missing
                 PROVE  Contains(dir.quarantine, source)
      OBVIOUS
    <3>1. dir.primary.kind # "Unversioned"
      BY <1>1, <2>1 DEF LoadSettings, Load, Missing, Document
    <3>2. dir.primary # source
      BY <1>3, <3>1 DEF SInv, Unusable
    <3> QED
      BY <1>1, <3>2 DEF Sound, Preserved
  <2>4. Careful'
    BY <1>1, <2>1, <2>2, <2>3 DEF Careful, Updating, Unusable
  <2>5. \A d \in survivors' : Sound(d)'
    BY <1>1, <2>1 DEF SInv, Sound, Preserved
  <2> QED
    BY <1>1, <2>4, <2>5 DEF SInv
<1> QED
  BY <1>2, <1>3

(* Copying the source, whole or in part, leaves it where it is.            *)
LEMMA CopyingPreserves ==
  ASSUME ~ClockStepsBack, IInv, SInv, PreserveSource PROVE SInv'
<1>1. /\ IsDirectory(dir) /\ dir \in survivors /\ Sound(dir)
      /\ stage = "Preserve" /\ source' = source /\ condition' = condition
      /\ dir.primary = source /\ source # Missing /\ source \in Doc
  <2>1. /\ IsDirectory(dir) /\ dir \in survivors /\ Sound(dir)
        /\ stage = "Preserve" /\ source' = source /\ condition' = condition
    BY DirSurvives DEF PreserveSource, IInv, SInv, Refuse
  <2>2. Unusable(dir.primary)
    BY <2>1 DEF SInv, Careful
  <2> QED
    BY <2>1, <2>2 DEF SInv, Sound, Unusable, Missing, Document
<1>2. \A d : /\ d.primary = source
             /\ d.quarantine \in Seq(Doc)
             => Sound(d)
  BY <1>1 DEF SInv, Sound, Preserved
<1>3. ASSUME \A d \in survivors' \ survivors : Sound(d) PROVE \A d \in survivors' : Sound(d)'
  BY <1>1, <1>3 DEF SInv, Sound, Preserved
<1>4. CASE /\ \E copied \in Copied(dir.primary) :
                /\ dir' \in Pruned(copied)
                /\ survivors' = survivors \cup {copied, dir'}
           /\ preservationRequired' = FALSE
           /\ Proceed(FALSE)
  <2>1. PICK copied \in Quarantined(dir, source) :
          /\ dir' \in Pruned(copied)
          /\ survivors' = survivors \cup {copied, dir'}
    BY <1>1, <1>4 DEF Copied
  <2>2. /\ copied.quarantine \in Seq(Doc)
        /\ dir'.quarantine \in Seq(Doc) /\ Contains(dir'.quarantine, source)
        /\ copied.primary = source /\ dir'.primary = source
    BY <1>1, <2>1, SourceIsCopied DEF Sound
  <2>3. Sound(copied) /\ Sound(dir')
    BY <1>2, <2>2
  <2>4. \A d \in survivors' : Sound(d)'
    BY <1>3, <2>1, <2>3
  <2>5. stage' \in {"Backup", "Primary"}
    BY <1>4 DEF Proceed
  <2>6. Careful'
    BY <1>1, <1>4, <2>2, <2>5 DEF SInv, Careful, Updating, Writable
  <2> QED
    BY <1>1, <2>4, <2>6 DEF SInv, Unusable
<1>5. CASE /\ dir' \in {dir} \cup Copied(dir.primary)
                             \cup Copied(Document("Fragment", Nothing))
           /\ survivors' = survivors \cup {dir'}
           /\ Refuse
           /\ UNCHANGED preservationRequired
  <2>1. Document("Fragment", Nothing) \in Doc
    BY DEF Document, Nothing, Doc, Kinds
  <2>2. ASSUME NEW document \in Doc, dir' \in Quarantined(dir, document)
        PROVE  dir'.primary = source /\ dir'.quarantine \in Seq(Doc)
    BY <1>1, <2>2, QuarantinedLast DEF Sound
  <2>3. dir'.primary = source /\ dir'.quarantine \in Seq(Doc)
    BY <1>1, <1>5, <2>1, <2>2 DEF Copied, Sound
  <2>4. \A d \in survivors' : Sound(d)'
    BY <1>2, <1>3, <1>5, <2>3
  <2>5. Careful'
    BY <1>1, <1>5, <2>3 DEF SInv, Careful, Refuse, Updating, Unusable
  <2> QED
    BY <1>1, <2>4, <2>5 DEF SInv, Unusable
<1> QED
  BY <1>4, <1>5 DEF PreserveSource

(* Where a document is replaced, the source is in the quarantine.          *)
LEMMA ReplacingPreserves ==
  ASSUME IInv, SInv, ReplaceBackup \/ SyncBackup \/ ReplacePrimary \/ SyncPrimary
  PROVE  SInv'
<1>1. /\ IsDirectory(dir) /\ dir \in survivors /\ Sound(dir)
      /\ stage \in Updating \ {"Preserve"} /\ stage' \in {"Idle"} \cup (Updating \ {"Preserve"})
      /\ UNCHANGED <<source, condition, preservationRequired>>
  BY DirSurvives DEF ReplaceBackup, SyncBackup, ReplacePrimary, SyncPrimary, IInv,
     SInv, Refuse, Acknowledge, Updating
<1>2. Writable /\ ~preservationRequired /\ (source # Missing => Contains(dir.quarantine, source))
  BY <1>1 DEF SInv, Careful, Updating
<1>3. dir'.quarantine = dir.quarantine /\ Sound(dir')
  <2>1. CASE dir' = dir
    BY <1>1, <2>1
  <2>2. CASE dir' = [dir EXCEPT !.backup = Document("Current", snapshot)]
    BY <1>1, <2>2 DEF IsDirectory, Sound, Preserved
  <2>3. CASE dir' = Saved
    <3>1. dir'.primary = Document("Current", proposed) /\ dir'.quarantine = dir.quarantine
      BY <1>1, <2>3 DEF IsDirectory, Saved
    <3> QED
      BY <1>1, <1>2, <3>1 DEF Sound, Preserved, Document, Kinds, Unusable
  <2> QED
    BY <2>1, <2>2, <2>3 DEF ReplaceBackup, SyncBackup, ReplacePrimary, SyncPrimary, Replaced
<1>4. survivors' \subseteq survivors \cup {dir'}
  BY <1>1 DEF ReplaceBackup, SyncBackup, ReplacePrimary, SyncPrimary, Replaced
<1>5. \A d \in survivors' : Sound(d)'
  BY <1>1, <1>3, <1>4 DEF SInv, Sound, Preserved
<1>6. Careful'
  BY <1>1, <1>2, <1>3 DEF SInv, Careful, Updating, Writable
<1> QED
  BY <1>1, <1>5, <1>6 DEF SInv, Unusable

LEMMA SourceStep ==
  ASSUME ~ClockStepsBack, IInv, SInv, [Next]_vars PROVE SInv'
<1>1. CASE Boot
  BY <1>1, BootPreserves
<1>2. CASE \E value \in Values : BeginUpdate(value)
  <2>1. /\ UNCHANGED <<dir, survivors, source, condition, preservationRequired>>
        /\ stage = "Idle" /\ Writable
        /\ \/ stage' = "Idle"
           \/ stage' = "Preserve" /\ preservationRequired
           \/ stage' \in {"Backup", "Primary"} /\ ~preservationRequired
    BY <1>2 DEF BeginUpdate, Refuse, Proceed
  <2>2. \A d \in survivors' : Sound(d)'
    BY <2>1 DEF SInv, Sound, Preserved
  <2>3. Careful'
    BY <2>1 DEF SInv, Careful, Updating, Writable, Unusable
  <2> QED
    BY <2>1, <2>2, <2>3 DEF SInv, Unusable
<1>3. CASE PreserveSource
  BY <1>3, CopyingPreserves
<1>4. CASE ReplaceBackup \/ SyncBackup \/ ReplacePrimary \/ SyncPrimary
  BY <1>4, ReplacingPreserves
<1>5. CASE ProcessEnds \/ PowerLoss
  <2>1. stage' = "Down" /\ source' = source /\ survivors' \subseteq survivors
    BY <1>5 DEF ProcessEnds, PowerLoss
  <2> QED
    BY <2>1 DEF SInv, Sound, Preserved, Careful, Updating, Unusable
<1>6. CASE CorruptPrimary
  <2>1. /\ stage' = "Down" /\ survivors' = {dir'}
        /\ \E n \in 1 .. MaxMalformed : source' = Document("Malformed", n)
        /\ dir' = [dir EXCEPT !.primary = source']
    BY <1>6 DEF CorruptPrimary
  <2>2. IsDirectory(dir) /\ dir \in survivors /\ Sound(dir)
    BY DirSurvives DEF IInv, SInv
  <2>3. dir'.primary = source' /\ dir'.quarantine \in Seq(Doc)
    BY <2>1, <2>2 DEF IsDirectory, Sound
  <2>4. source' \in Doc /\ source'.kind = "Malformed"
    BY <2>1 DEF Document, Doc, Kinds
  <2>5. Sound(dir)'
    BY <2>3, <2>4 DEF Sound, Preserved, Kinds
  <2>6. \A d \in survivors' : Sound(d)'
    BY <2>1, <2>5 DEF Sound, Preserved
  <2> QED
    BY <2>1, <2>4, <2>6 DEF SInv, Careful, Updating, Unusable
<1>7. CASE UNCHANGED vars
  <2>1. UNCHANGED <<dir, survivors, source, stage, condition, preservationRequired>>
    BY <1>7 DEF vars, storeVars
  <2> QED
    BY <2>1 DEF SInv, Sound, Preserved, Careful, Updating, Unusable, Writable
<1> QED
  BY <1>1, <1>2, <1>3, <1>4, <1>5, <1>6, <1>7 DEF Next

LEMMA SourceAtFirst == Init => SInv
<1> SUFFICES ASSUME Init PROVE SInv
  OBVIOUS
<1>1. /\ dir \in [primary : FirstDocuments, backup : FirstDocuments, quarantine : {<<>>}]
      /\ survivors = {dir} /\ stage = "Down"
      /\ source = IF dir.primary.kind \in {"Malformed", "Unversioned"}
                  THEN dir.primary ELSE Missing
  BY DEF Init
<1>2. \A document \in FirstDocuments :
        /\ document \in Doc
        /\ document.kind \in Kinds
        /\ document.kind = "Missing" => document = Missing
  BY SMTT(30) DEF FirstDocuments, Foreign, Readable, Document, Missing, Nothing, Doc, Kinds
<1>3. Missing \in Doc
  BY DEF Missing, Document, Nothing, Doc, Kinds
<1>4. Sound(dir) /\ source \in Doc /\ (source = Missing \/ Unusable(source))
  <2>1. dir.primary \in FirstDocuments /\ dir.quarantine = <<>>
    BY <1>1
  <2>2. dir.quarantine \in Seq(Doc)
    BY <2>1
  <2>3. source \in Doc /\ (source = Missing \/ Unusable(source))
    BY <1>1, <1>2, <1>3, <2>1 DEF Unusable
  <2>4. /\ Unusable(dir.primary) => dir.primary = source
        /\ source # Missing => source = dir.primary
    BY <1>1 DEF Unusable
  <2> QED
    BY <1>2, <2>1, <2>2, <2>3, <2>4 DEF Sound, Preserved
<1> QED
  BY <1>1, <1>4 DEF SInv, Careful, Updating

(* For all values and bounds, as long as the clock is not set back: a      *)
(* document that could not be used is still there, in place or in          *)
(* quarantine, whatever fails or is cut off on the way (settings.rs,       *)
(* quarantine and preserve_source).                                        *)
THEOREM SourcesArePreserved == ~ClockStepsBack => (Spec => []SourceIsPreserved)
<1> SUFFICES ASSUME ~ClockStepsBack PROVE Spec => []SourceIsPreserved
  OBVIOUS
<1>1. IInv /\ SInv /\ [Next]_vars => SInv'
  BY SourceStep
<1>2. SInv => SourceIsPreserved
  BY DEF SInv, Sound, Preserved, SourceIsPreserved
<1> QED
  BY <1>1, <1>2, SourceAtFirst, StoreInvariant, PTL DEF Spec

=============================================================================
