------------------------------ MODULE LocalLog ------------------------------
(***************************************************************************)
(* The local log (src-tauri/src/local_log.rs): threads record lines, one   *)
(* at a time under the log's lock, in a current file that is rotated into  *)
(* numbered archives when the next line would not fit.                     *)
(*                                                                         *)
(* A rotation is several operations on files, each of which may fail, and  *)
(* the process may end between any two of them, or in the middle of a      *)
(* line.  A failure disables the log until the process starts again, but   *)
(* `record` lets go of the lock before it takes it once more to do so:     *)
(* meanwhile other threads go on with the writer that has failed.          *)
(*                                                                         *)
(* Only one process runs (external: tauri_plugin_single_instance exits in  *)
(* the second before it sets anything up).  A file is opened in append     *)
(* mode and its handle stays with it when it is renamed (external; on      *)
(* Windows, Rust shares files for deletion).  What the system loses with   *)
(* the power is not modelled: the log never asks it to write through.      *)
(***************************************************************************)
EXTENDS Integers, FiniteSets, Sequences, TLC

Free == "Free"

CONSTANTS
  Threads,           \* threads that record
  ArchiveCount,      \* archives kept beside the current file
  MaximumFileBytes,  \* size at which a file is rotated
  LongestLine,       \* size of the longest line there is
  MaxLines           \* bound: lines ever recorded

(* A line is far shorter than a file (MAX_FILE_SIZE is 1 MiB).             *)
ASSUME LogAssumption ==
  /\ ArchiveCount \in Nat \ {0}
  /\ MaximumFileBytes \in Nat \ {0}
  /\ LongestLine \in 1 .. MaximumFileBytes
  /\ IsFiniteSet(Threads) /\ Threads # {}
  /\ Free \notin Threads
  /\ MaxLines \in Nat

VARIABLES
  files,     \* the files there are: 0 is the current one, i > 0 is archive i
  running,   \* the process runs
  health,    \* whether the log has a writer
  handle,    \* the file that writer has open
  length,    \* the length it takes the file to have
  lock,      \* who holds the log's lock
  step,      \* what the holder does next
  index,     \* the archive that a rotation is about to fill
  line,      \* the line it records
  failed,    \* threads that have yet to disable the log
  lines,     \* history: how many lines have been recorded
  written    \* history: the lines written as a whole

vars == <<files, running, health, handle, length, lock, step, index, line,
          failed, lines, written>>

Nowhere == -1  \* where the handle is when its file has been removed
Current == 0

(* An archive beyond the count is one of an earlier version that kept more.*)
Beyond == ArchiveCount + 1

(* A file is the lines it holds as a whole, and its size, which counts the *)
(* fragments of others as well.                                            *)
EmptyFile == [lines |-> <<>>, bytes |-> 0]

Exists(i) == i \in DOMAIN files
Removed(i) == [j \in DOMAIN files \ {i} |-> files[j]]
Renamed(from, to) ==
  [j \in (DOMAIN files \ {from}) \union {to} |->
     files[IF j = to THEN from ELSE j]]

(* Mutant: opened for writing, and truncated, rather than for appending.   *)
WithCurrent_Truncated(fs) ==
  [j \in DOMAIN fs \union {Current} |-> IF j = Current THEN EmptyFile ELSE fs[j]]

(* The current file is created if it is not there.                         *)
WithCurrent(fs) ==
  [j \in DOMAIN fs \union {Current} |->
     IF j \in DOMAIN fs THEN fs[j] ELSE EmptyFile]

Init ==
  /\ \/ files = <<>> /\ written = {}
     \/ /\ files = [j \in {Beyond} |-> [lines |-> <<0>>, bytes |-> 1]]
        /\ written = {0}
  /\ running = FALSE
  /\ health = "Unavailable"
  /\ handle = Nowhere
  /\ length = 0
  /\ lock = Free
  /\ step = "None"
  /\ index = 0
  /\ line = [number |-> 0, bytes |-> 1]
  /\ failed = {}
  /\ lines = 0

-----------------------------------------------------------------------------
(* The process starts, and ends.                                           *)

(* prune_owned_archives.                                                   *)
Pruned == Removed(Beyond)

(* Mutant: the file opened is taken to be empty.                           *)
LengthFound_Zero(file) == 0

(* open asks for the length of the file that it goes on with.              *)
LengthFound(file) == file.bytes

(* LocalLog::initialize.  Creating the directory, pruning, opening and     *)
(* asking for the length may fail in turn; the log is then unavailable.    *)
Initialize ==
  /\ ~running
  /\ running' = TRUE
  /\ \/ /\ files' = WithCurrent(Pruned)
        /\ health' = "Available"
        /\ handle' = Current
        /\ length' = LengthFound(files'[Current])
     \/ /\ files' \in {files, Pruned, WithCurrent(Pruned)}
        /\ UNCHANGED <<health, handle, length>>
  /\ UNCHANGED <<lock, step, index, line, failed, lines, written>>

(* The file the handle is on, with a line more, or a part of one.          *)
Appended(whole, bytes) ==
  IF handle = Nowhere
  THEN files
  ELSE [files EXCEPT ![handle] =
          [lines |-> @.lines \o whole, bytes |-> @.bytes + bytes]]

(* What a write that does not come to its end may leave of the line.       *)
Fragments == {Appended(<<>>, b) : b \in 0 .. line.bytes - 1}

(* What one that does leaves.                                              *)
LineWritten ==
  /\ files' = Appended(<<line.number>>, line.bytes)
  /\ written' = written \union {line.number}

(* The process ends, by itself or not, at any point.                       *)
ProcessEnds ==
  /\ running
  /\ running' = FALSE
  /\ files' \in IF step = "Write" THEN Fragments ELSE {files}
  /\ health' = "Unavailable"
  /\ handle' = Nowhere
  /\ length' = 0
  /\ lock' = Free
  /\ step' = "None"
  /\ failed' = {}
  /\ UNCHANGED <<index, line, lines, written>>

-----------------------------------------------------------------------------
(* record, under the lock.                                                 *)

(* Without a writer the line goes to the standard error, and nothing here  *)
(* changes.                                                                *)
Record(t) ==
  /\ running
  /\ health = "Available"
  /\ lock = Free
  /\ t \notin failed
  /\ lines < MaxLines
  /\ \E bytes \in 1 .. LongestLine :
       /\ line' = [number |-> lines + 1, bytes |-> bytes]
       /\ step' = IF length > 0 /\ length + bytes > MaximumFileBytes
                  THEN "Remove"
                  ELSE "Write"
  /\ lock' = t
  /\ lines' = lines + 1
  /\ UNCHANGED <<files, running, health, handle, length, index, failed, written>>

(* An operation on the files fails, and with it the record; the lock is    *)
(* given up.                                                               *)
Fail ==
  /\ failed' = failed \union {lock}
  /\ lock' = Free
  /\ step' = "None"
  /\ UNCHANGED <<running, health, handle, length, index, line, lines>>

(* rotate: nothing is left to flush, but that may fail too; then the oldest*)
(* archive is removed ...                                                  *)
RemoveOldest ==
  /\ step = "Remove"
  /\ \/ /\ files' = Removed(ArchiveCount)
        /\ handle' = IF handle = ArchiveCount THEN Nowhere ELSE handle
        /\ step' = "Shift"
        /\ index' = ArchiveCount
        /\ UNCHANGED <<running, health, length, lock, line, failed, lines>>
     \/ Fail /\ UNCHANGED files
  /\ UNCHANGED written

(* ... and, from the oldest to the current, each file that is there is     *)
(* renamed to the next.                                                    *)
Shift ==
  /\ step = "Shift"
  /\ \/ /\ IF Exists(index - 1)
           THEN /\ files' = Renamed(index - 1, index)
                /\ handle' = CASE handle = index - 1 -> index
                               [] handle = index -> Nowhere
                               [] OTHER -> handle
           ELSE UNCHANGED <<files, handle>>
        /\ index' = index - 1
        /\ step' = IF index = 1 THEN "Reopen" ELSE "Shift"
        /\ UNCHANGED <<running, health, length, lock, line, failed, lines>>
     \/ Exists(index - 1) /\ Fail /\ UNCHANGED files
  /\ UNCHANGED written

(* The writer goes on with a new file, and lets go of the old one.         *)
Reopen ==
  /\ step = "Reopen"
  /\ \/ /\ files' = WithCurrent(files)
        /\ handle' = Current
        /\ length' = 0
        /\ step' = "Write"
        /\ UNCHANGED <<running, health, lock, index, line, failed, lines>>
     \/ Fail /\ UNCHANGED files
  /\ UNCHANGED written

(* write_line, at last.  A failure may leave a part of the line, or, if it *)
(* is the flush that fails, all of it; the length is not brought up to date*)
(* then, and the next line is appended to what is there.                   *)
Write ==
  /\ step = "Write"
  /\ \/ /\ LineWritten
        /\ length' = length + line.bytes
        /\ lock' = Free
        /\ step' = "None"
        /\ UNCHANGED <<running, health, handle, index, line, failed, lines>>
     \/ /\ Fail
        /\ \/ files' \in Fragments /\ UNCHANGED written
           \/ LineWritten

(* A thread whose record failed takes the lock again, to disable the log.  *)
Disable(t) ==
  /\ t \in failed
  /\ lock = Free
  /\ failed' = failed \ {t}
  /\ health' = "Unavailable"
  /\ handle' = Nowhere
  /\ UNCHANGED <<files, running, length, lock, step, index, line, lines, written>>

LogStep ==
  \/ \E t \in Threads : Record(t) \/ Disable(t)
  \/ RemoveOldest
  \/ Shift
  \/ Reopen
  \/ Write

Next ==
  \/ Initialize
  \/ ProcessEnds
  \/ LogStep

Spec == Init /\ [][Next]_vars

-----------------------------------------------------------------------------
(* Properties.                                                             *)

Held(i, n) == \E k \in DOMAIN files[i].lines : files[i].lines[k] = n

(* Wherever a rotation fails, whoever records in spite of it, and whenever *)
(* the process ends: read from the oldest archive to the current file, the *)
(* log holds its lines in the order they were recorded, each of them once, *)
(* and of those that were written only the oldest are missing              *)
(* (docs/privacy.md, "one current file plus four archives").               *)
FilesAreSorted ==
  \A i \in DOMAIN files : \A k, m \in DOMAIN files[i].lines :
    k < m => files[i].lines[k] < files[i].lines[m]

ArchivesAreOlder ==
  \A i, j \in DOMAIN files : \A m, n \in written :
    i < j /\ Held(j, m) /\ Held(i, n) => m < n

OnlyTheOldestAreMissing ==
  \A i \in DOMAIN files : \A k \in DOMAIN files[i].lines :
    /\ files[i].lines[k] \in written
    /\ \A n \in written :
         files[i].lines[k] < n => \E j \in DOMAIN files : Held(j, n)

LinesStayInOrder ==
  /\ FilesAreSorted
  /\ ArchivesAreOlder
  /\ OnlyTheOldestAreMissing

(* The threads are interchangeable.                                        *)
ThreadSymmetry == Permutations(Threads)

(* A log that records keeps no more files than it promises, and none grows *)
(* beyond its maximum by more than what failed records can leave behind the*)
(* writer's back before all threads that are in the middle of one have     *)
(* disabled it: a line for each but one.                                   *)
FilesStayBounded ==
  /\ health = "Available" => ~Exists(Beyond)
  /\ \A i \in DOMAIN files :
       files[i].bytes <= MaximumFileBytes + (Cardinality(Threads) - 1) * LongestLine

=============================================================================
