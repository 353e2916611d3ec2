----------------------------- MODULE Diagnostics -----------------------------
(***************************************************************************)
(* The diagnostics service (src-tauri/src/diagnostics.rs), the bounded text*)
(* it makes of what it captures (diagnostics/report.rs), and the system    *)
(* clipboard it puts the text on (clipboard.rs).                           *)
(*                                                                         *)
(* Its calls come from the tray, on the main thread, one at a time; the    *)
(* log may fail and shutdown begin at any point of one.  What is captured  *)
(* is the subject of ProductViews: here it is a number of lines with their *)
(* lengths.                                                                *)
(*                                                                         *)
(* External: the clipboard.  On Windows one process at a time has it open, *)
(* and whoever sets a movable block of memory on it gives that block away; *)
(* on macOS the pasteboard is cleared and written in two calls between     *)
(* which any process may write to it.  Every call may fail.                *)
(***************************************************************************)
EXTENDS Integers, SequencesExt

CONSTANTS
  ReportLimit,  \* MAX_DIAGNOSTIC_BYTES, at least the marker's length
  MarkerBytes,  \* the length of the marker that says output was omitted
  LineBytes,    \* lengths of lines, their ends included
  MaxLines      \* bound: lines of a report

VARIABLES
  onWindows,  \* the clipboard is that of Windows
  accepting,  \* the service has not been shut down
  logs,       \* the log has a directory to show
  stage,      \* what the call of the service does next
  result,     \* what the last call of copy told the tray
  report,     \* the text that call made
  opener,     \* the process that has the clipboard open
  contents,   \* what is on it
  memory,     \* whose the block of memory is
  replaced    \* history: someone else has written to it since our last call

vars == <<onWindows, accepting, logs, stage, result, report, opener, contents,
          memory, replaced>>

clipboard == <<opener, contents, memory, replaced>>

-----------------------------------------------------------------------------
(* The report.                                                             *)

Empty == [bytes |-> 0, lines |-> 0, omitted |-> FALSE]

(* Mutant: no room is left for the marker.                                 *)
BoundedLine_WithoutMarker(text, bytes) ==
  IF text.omitted \/ text.bytes + bytes > ReportLimit
  THEN [text EXCEPT !.omitted = TRUE]
  ELSE [text EXCEPT !.bytes = @ + bytes, !.lines = @ + 1]

(* BoundedText::line: once a line has been left out, so is every other.    *)
BoundedLine(text, bytes) ==
  IF text.omitted \/ text.bytes + bytes + MarkerBytes > ReportLimit
  THEN [text EXCEPT !.omitted = TRUE]
  ELSE [text EXCEPT !.bytes = @ + bytes, !.lines = @ + 1]

(* render, with BoundedText::finish: the lines of all sections in turn.    *)
Rendered(lengths) ==
  LET text == FoldLeft(BoundedLine, Empty, lengths)
  IN  IF text.omitted THEN [text EXCEPT !.bytes = @ + MarkerBytes] ELSE text

Captures == UNION {[1 .. n -> LineBytes] : n \in 0 .. MaxLines}

-----------------------------------------------------------------------------

Init ==
  /\ onWindows \in BOOLEAN
  /\ accepting = TRUE
  /\ logs \in BOOLEAN
  /\ stage = "Idle"
  /\ result = "None"
  /\ report = Empty
  /\ opener = "None"
  /\ contents = "Foreign"
  /\ memory = "None"
  /\ replaced = FALSE

BeginShutdown ==
  /\ accepting
  /\ accepting' = FALSE
  /\ UNCHANGED <<onWindows, logs, stage, result, report, clipboard>>

(* A record fails, on some thread.                                         *)
LogFails ==
  /\ logs
  /\ logs' = FALSE
  /\ UNCHANGED <<onWindows, accepting, stage, result, report, clipboard>>

(* The call returns, having recorded its outcome.                          *)
Return(outcome) == stage' = "Idle" /\ result' = outcome

(* copy, while the service accepts: the report is captured and rendered.   *)
Copy ==
  /\ stage = "Idle"
  /\ IF accepting
     THEN /\ \E lengths \in Captures : report' = Rendered(lengths)
          /\ stage' = IF onWindows THEN "Open" ELSE "Clear"
          /\ UNCHANGED result
     ELSE Return("Unavailable") /\ UNCHANGED report
  /\ UNCHANGED <<onWindows, accepting, logs, clipboard>>

(* open_logs looks at the log twice, and reports a failure to nobody.      *)
OpenLogs ==
  /\ stage = "Idle"
  /\ accepting
  /\ logs
  /\ stage' = "OpenDirectory"
  /\ UNCHANGED <<onWindows, accepting, logs, result, report, clipboard>>

OpenDirectory ==
  /\ stage = "OpenDirectory"
  /\ stage' = "Idle"
  /\ UNCHANGED <<onWindows, accepting, logs, result, report, clipboard>>

-----------------------------------------------------------------------------
(* clipboard::write_text on Windows.  The guard that closes the clipboard  *)
(* exists from when it was opened, so every way out leads to Close.        *)

unaffected == <<onWindows, accepting, logs, report>>

OpenClipboard ==
  /\ stage = "Open"
  /\ \/ /\ opener = "None"
        /\ opener' = "Us"
        /\ stage' = "Empty"
        /\ UNCHANGED result
     \/ Return("Failed") /\ UNCHANGED opener
  /\ UNCHANGED <<unaffected, contents, memory, replaced>>

(* Emptying the clipboard frees the block it owned.                        *)
EmptyClipboard ==
  /\ stage = "Empty"
  /\ \/ /\ stage' = "Allocate"
        /\ contents' = "Empty"
        /\ memory' = "None"
        /\ replaced' = FALSE
     \/ stage' = "CloseFailed" /\ UNCHANGED <<contents, memory, replaced>>
  /\ UNCHANGED <<unaffected, result, opener>>

Allocate ==
  /\ stage = "Allocate"
  /\ \/ stage' = "Fill" /\ memory' = "Ours"
     \/ stage' = "CloseFailed" /\ UNCHANGED memory
  /\ UNCHANGED <<unaffected, result, opener, contents, replaced>>

(* GlobalLock, the copy and GlobalUnlock; a block that cannot be locked is *)
(* freed.                                                                  *)
Fill ==
  /\ stage = "Fill"
  /\ \/ stage' = "Set" /\ UNCHANGED memory
     \/ stage' = "CloseFailed" /\ memory' = "None"
  /\ UNCHANGED <<unaffected, result, opener, contents, replaced>>

(* Mutant: the block is freed whether or not the clipboard took it.        *)
SetData_AlwaysFrees ==
  /\ stage = "Set"
  /\ \/ stage' = "CloseCopied" /\ memory' = "Dangling" /\ contents' = "Report"
     \/ stage' = "CloseFailed" /\ memory' = "None" /\ UNCHANGED contents
  /\ UNCHANGED <<unaffected, result, opener, replaced>>

(* Ownership of the block passes to the system only if it takes it.        *)
SetData ==
  /\ stage = "Set"
  /\ \/ stage' = "CloseCopied" /\ memory' = "Clipboard" /\ contents' = "Report"
     \/ stage' = "CloseFailed" /\ memory' = "None" /\ UNCHANGED contents
  /\ UNCHANGED <<unaffected, result, opener, replaced>>

Close ==
  /\ \/ stage = "CloseCopied" /\ Return("Copied")
     \/ stage = "CloseFailed" /\ Return("Failed")
  /\ opener' = "None"
  /\ UNCHANGED <<unaffected, contents, memory, replaced>>

(* write_text on macOS.                                                    *)
ClearPasteboard ==
  /\ stage = "Clear"
  /\ stage' = "SetString"
  /\ contents' = "Empty"
  /\ replaced' = FALSE
  /\ UNCHANGED <<unaffected, result, opener, memory>>

SetString ==
  /\ stage = "SetString"
  /\ \/ Return("Copied") /\ contents' = "Report"
     \/ Return("Failed") /\ UNCHANGED contents
  /\ UNCHANGED <<unaffected, opener, memory, replaced>>

(* External: another process uses the clipboard.                           *)
OtherOpens ==
  /\ onWindows
  /\ opener = "None"
  /\ opener' = "Other"
  /\ UNCHANGED <<unaffected, stage, result, contents, memory, replaced>>

OtherWrites ==
  /\ onWindows => opener = "Other"
  /\ opener' = "None"
  /\ contents' = "Foreign"
  /\ memory' = IF memory = "Clipboard" THEN "None" ELSE memory
  /\ replaced' = TRUE
  /\ UNCHANGED <<unaffected, stage, result>>

Next ==
  \/ BeginShutdown
  \/ LogFails
  \/ Copy
  \/ OpenLogs
  \/ OpenDirectory
  \/ OpenClipboard
  \/ EmptyClipboard
  \/ Allocate
  \/ Fill
  \/ SetData
  \/ Close
  \/ ClearPasteboard
  \/ SetString
  \/ OtherOpens
  \/ OtherWrites

Spec == Init /\ [][Next]_vars

-----------------------------------------------------------------------------
(* Properties.                                                             *)

(* Whatever fails on the way, a call leaves the clipboard closed and no    *)
(* block of memory with two owners or none ("System ownership starts only  *)
(* after SetClipboardData accepts the movable allocation", clipboard.rs);  *)
(* and when the tray is told that the report was copied, the report is on  *)
(* the clipboard until someone else writes to it.  What is put there never *)
(* exceeds its limit, the marker that says it was cut short included       *)
(* (docs/privacy.md, "caps it at 64 KiB").                                 *)
ClipboardIsGivenBack ==
  /\ memory # "Dangling"
  /\ report.bytes <= ReportLimit
  /\ stage = "Idle" =>
       /\ opener # "Us"
       /\ memory # "Ours"
       /\ result = "Copied" /\ ~replaced => contents = "Report"

=============================================================================
