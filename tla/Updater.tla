------------------------------- MODULE Updater -------------------------------
(***************************************************************************)
(* The updater (src-tauri/src/updater.rs): a service that the tray calls,  *)
(* a worker thread that checks, downloads and installs, and the dialog     *)
(* that asks for consent in between.                                       *)
(*                                                                         *)
(* A flag, claimed, admits one operation at a time.  It is taken by the    *)
(* service or by an automatic check, travels with the commands and with    *)
(* the open dialog, and is given back where the operation ends.            *)
(*                                                                         *)
(* The backend is external: it may find any version, or none, or fail, as  *)
(* often as it is asked.  The cadence (automatic_due over the wall clock   *)
(* and a saved timestamp) is abstracted to its three outcomes, since the   *)
(* wall clock may be set; the timer of recv_timeout to whether it is       *)
(* armed.  Download progress is left out.                                  *)
(***************************************************************************)
EXTENDS Naturals, Sequences, FiniteSets

CONSTANTS
  Versions,    \* the versions that may be found
  NoUpdate,    \* not a version
  MaxCommands  \* bound: commands waiting while a toggle is sent

ASSUME UpdaterAssumption ==
  /\ NoUpdate \notin Versions
  /\ MaxCommands \in Nat

VARIABLES
  status,         \* the published status, and the version it names
  enabled,        \* automatic checks are enabled, as saved
  accepting,      \* commands are accepted
  claimed,        \* an operation is in progress
  commands,       \* what the worker has still to receive
  dialogs,        \* the versions that confirmation dialogs are open for
  worker,         \* where the worker thread is
  pending,        \* the update the worker holds on to
  target,         \* the update it is downloading or installing
  nextAutomatic,  \* the timer of the next automatic check is armed
  verdict,        \* the status it publishes next, while "Settling"
  workerExit,     \* what it has told a shutdown that waits for it
  requesting,     \* the tray is between the two halves of request_install
  restart,        \* a restart of the application has been requested
  consent,        \* history: the version last agreed to
  nativeExit      \* the platform: installing ends the process (Windows) or
                  \* returns (macOS)

serviceVars == <<status, enabled, accepting, claimed, commands, dialogs>>
workerVars == <<worker, pending, target, nextAutomatic, verdict, workerExit>>
updaterVars == <<serviceVars, workerVars, requesting, restart, consent,
                 nativeExit>>

Offer == Versions \cup {NoUpdate}
Status(kind, version) == [kind |-> kind, version |-> version]
StatusKind == {"Idle", "Checking", "UpToDate", "AwaitingConfirmation",
               "UpdateAvailable", "Downloading", "Installing", "Failed"}
Worker == {"Waiting", "CheckingAutomatic", "CheckingManual", "Downloading",
           "Installing", "NativeExit", "Settling", "Exited"}

Plain(op) == [op |-> op]
Confirmation(confirmed, version) ==
  [op |-> "Confirmation", confirmed |-> confirmed, version |-> version]
Command ==
  {Plain(op) : op \in {"Activate", "Toggle", "ManualCheck", "RequestInstall",
                       "Stop"}}
  \cup {Confirmation(confirmed, version) :
          confirmed \in BOOLEAN, version \in Versions}

(* Activating the tray at the end of startup sends the first command.      *)
UpdaterInit ==
  /\ status = Status("Idle", NoUpdate)
  /\ enabled \in BOOLEAN
  /\ accepting = TRUE
  /\ claimed = FALSE
  /\ commands = <<Plain("Activate")>>
  /\ dialogs = {}
  /\ worker = "Waiting"
  /\ pending = NoUpdate
  /\ target = NoUpdate
  /\ nextAutomatic = FALSE
  /\ verdict = status
  /\ workerExit = "Running"
  /\ requesting = FALSE
  /\ restart = FALSE
  /\ consent = NoUpdate
  /\ nativeExit \in BOOLEAN

-----------------------------------------------------------------------------
(* The service, called by tray commands on the main thread.                *)

ToggleAutomaticChecks ==
  /\ accepting
  /\ ~requesting
  /\ Len(commands) < MaxCommands
  /\ commands' = Append(commands, Plain("Toggle"))
  /\ UNCHANGED <<status, enabled, accepting, claimed, dialogs, workerVars,
                 requesting, restart, consent>>

(* Mutant: a manual check does not wait for the operation in progress.     *)
CheckManually_WithoutClaim ==
  /\ accepting
  /\ ~requesting
  /\ Len(commands) < MaxCommands
  /\ claimed' = TRUE
  /\ commands' = Append(commands, Plain("ManualCheck"))
  /\ UNCHANGED <<status, enabled, accepting, dialogs, workerVars, requesting,
                 restart, consent>>

CheckManually ==
  /\ accepting
  /\ ~requesting
  /\ ~claimed
  /\ claimed' = TRUE
  /\ commands' = Append(commands, Plain("ManualCheck"))
  /\ UNCHANGED <<status, enabled, accepting, dialogs, workerVars, requesting,
                 restart, consent>>

(* request_install looks at the published status first ...                 *)
RequestInstall ==
  /\ ~requesting
  /\ \/ status.kind = "UpdateAvailable"
     \/ status.kind = "Failed" /\ status.version # NoUpdate
  /\ requesting' = TRUE
  /\ UNCHANGED <<serviceVars, workerVars, restart, consent>>

(* ... and claims the operation after that.                                *)
ClaimInstall ==
  /\ requesting
  /\ requesting' = FALSE
  /\ IF accepting /\ ~claimed
     THEN /\ claimed' = TRUE
          /\ commands' = Append(commands, Plain("RequestInstall"))
     ELSE UNCHANGED <<claimed, commands>>
  /\ UNCHANGED <<status, enabled, accepting, dialogs, workerVars, restart,
                 consent>>

(* Mutant: an answer that comes too late keeps the operation claimed.      *)
AnswerDialog_KeepsClaim(version, confirmed) ==
  /\ version \in dialogs
  /\ dialogs' = dialogs \ {version}
  /\ IF accepting /\ worker # "Exited"
     THEN commands' = Append(commands, Confirmation(confirmed, version))
     ELSE UNCHANGED commands
  /\ UNCHANGED <<status, enabled, accepting, claimed, workerVars, requesting,
                 restart, consent>>

(* The callback of the dialog.                                             *)
AnswerDialog(version, confirmed) ==
  /\ version \in dialogs
  /\ dialogs' = dialogs \ {version}
  /\ IF accepting /\ worker # "Exited"
     THEN /\ commands' = Append(commands, Confirmation(confirmed, version))
          /\ UNCHANGED claimed
     ELSE /\ claimed' = FALSE
          /\ UNCHANGED commands
  /\ UNCHANGED <<status, enabled, accepting, workerVars, requesting, restart,
                 consent>>

BeginUpdaterShutdown ==
  /\ accepting' = FALSE
  /\ UNCHANGED <<status, enabled, claimed, commands, dialogs, workerVars,
                 requesting, restart, consent>>

(* The part of UpdaterRuntime::shutdown before the wait for the worker.    *)
StopUpdater ==
  /\ accepting' = FALSE
  /\ commands' = Append(commands, Plain("Stop"))
  /\ UNCHANGED <<status, enabled, claimed, dialogs, workerVars, requesting,
                 restart, consent>>

-----------------------------------------------------------------------------
(* The worker thread: what it does with a command it has received.         *)

(* finish_with_status: the claim is given back, then the status published. *)
Settle(next) ==
  /\ claimed' = FALSE
  /\ verdict' = next
  /\ worker' = "Settling"

PublishVerdict ==
  /\ worker = "Settling"
  /\ worker' = "Waiting"
  /\ status' = IF accepting THEN verdict ELSE status
  /\ UNCHANGED <<enabled, accepting, claimed, commands, dialogs, pending,
                 target, nextAutomatic, verdict, workerExit, requesting,
                 restart, consent>>

Receive(op) ==
  /\ worker = "Waiting"
  /\ commands # <<>>
  /\ Head(commands).op = op
  /\ commands' = Tail(commands)

(* Mutant: finding an operation in progress disarms the timer.             *)
AttemptAutomatic_DisarmsWhenBusy(wanted) ==
  \/ /\ ~wanted \/ pending # NoUpdate \/ claimed
     /\ nextAutomatic' = FALSE
     /\ UNCHANGED <<status, claimed, worker, verdict>>
  \/ /\ wanted
     /\ pending = NoUpdate
     /\ ~claimed
     /\ nextAutomatic' = TRUE
     /\ \/ UNCHANGED <<status, claimed, worker, verdict>>
        \/ Settle(Status("Failed", NoUpdate)) /\ UNCHANGED status
        \/ /\ claimed' = TRUE
           /\ status' = Status("Checking", NoUpdate)
           /\ worker' = "CheckingAutomatic"
           /\ UNCHANGED verdict

(* An automatic check is pointless while an update is pending, and waits   *)
(* for the timer while an operation is in progress.  Otherwise it is not   *)
(* due, or the cadence cannot be saved, or it begins.                      *)
AttemptAutomatic(wanted) ==
  \/ /\ ~wanted \/ pending # NoUpdate
     /\ nextAutomatic' = FALSE
     /\ UNCHANGED <<status, claimed, worker, verdict>>
  \/ /\ wanted
     /\ pending = NoUpdate
     /\ claimed
     /\ UNCHANGED <<status, claimed, worker, verdict, nextAutomatic>>
  \/ /\ wanted
     /\ pending = NoUpdate
     /\ ~claimed
     /\ nextAutomatic' = TRUE
     /\ \/ UNCHANGED <<status, claimed, worker, verdict>>
        \/ Settle(Status("Failed", NoUpdate)) /\ UNCHANGED status
        \/ /\ claimed' = TRUE
           /\ status' = Status("Checking", NoUpdate)
           /\ worker' = "CheckingAutomatic"
           /\ UNCHANGED verdict

(* A received Activate, or the timer running out.                          *)
Activate ==
  /\ \/ Receive("Activate")
     \/ worker = "Waiting" /\ nextAutomatic /\ UNCHANGED commands
  /\ accepting
  /\ AttemptAutomatic(enabled)
  /\ UNCHANGED <<enabled, accepting, dialogs, pending, target, workerExit,
                 requesting, restart, consent>>

(* The new preference is saved, or refused and nothing changes.            *)
Toggle ==
  /\ Receive("Toggle")
  /\ accepting
  /\ \/ /\ enabled' = ~enabled
        /\ AttemptAutomatic(enabled')
     \/ UNCHANGED <<enabled, nextAutomatic, status, claimed, worker, verdict>>
  /\ UNCHANGED <<accepting, dialogs, pending, target, workerExit, requesting,
                 restart, consent>>

BeginManualCheck ==
  /\ Receive("ManualCheck")
  /\ accepting
  /\ nextAutomatic' = TRUE
  /\ status' = Status("Checking", NoUpdate)
  /\ worker' = "CheckingManual"
  /\ UNCHANGED <<enabled, accepting, claimed, dialogs, pending, target,
                 verdict, workerExit, requesting, restart, consent>>

(* A request that finds nothing pending any more ends there.               *)
BeginInstallRequest ==
  /\ Receive("RequestInstall")
  /\ accepting
  /\ IF pending = NoUpdate
     THEN claimed' = FALSE /\ UNCHANGED <<status, dialogs>>
     ELSE /\ status' = Status("AwaitingConfirmation", pending)
          /\ dialogs' = dialogs \cup {pending}
          /\ UNCHANGED claimed
  /\ UNCHANGED <<enabled, accepting, workerVars, requesting, restart, consent>>

HandleConfirmation ==
  /\ Receive("Confirmation")
  /\ accepting
  /\ \/ /\ ~Head(commands).confirmed
        /\ Settle(Status("UpdateAvailable", pending))
        /\ UNCHANGED <<status, pending, target, consent>>
     \/ /\ Head(commands).confirmed
        /\ consent' = Head(commands).version
        /\ IF pending = NoUpdate
           THEN claimed' = FALSE /\ UNCHANGED <<status, worker, pending, target>>
           ELSE /\ target' = pending
                /\ pending' = NoUpdate
                /\ status' = Status("Downloading", pending)
                /\ worker' = "Downloading"
                /\ UNCHANGED claimed
        /\ UNCHANGED verdict
  /\ UNCHANGED <<enabled, accepting, dialogs, nextAutomatic, workerExit,
                 requesting, restart>>

(* Once shutdown has begun a command is given up, and its claim with it;   *)
(* an automatic check and a toggle hold none.                              *)
RefuseCommand ==
  /\ ~accepting
  /\ \/ /\ \E op \in {"ManualCheck", "RequestInstall", "Confirmation"} : Receive(op)
        /\ claimed' = FALSE
     \/ /\ \E op \in {"Activate", "Toggle"} : Receive(op)
        /\ UNCHANGED claimed
  /\ UNCHANGED <<status, enabled, accepting, dialogs, workerVars, requesting,
                 restart, consent>>

ExitWorker ==
  /\ Receive("Stop")
  /\ worker' = "Exited"
  /\ workerExit' = "Finished"
  /\ UNCHANGED <<status, enabled, accepting, claimed, dialogs, pending, target,
                 nextAutomatic, verdict, requesting, restart, consent>>

-----------------------------------------------------------------------------
(* The worker thread: how its operations end.                              *)

AutomaticCheckEnds ==
  /\ worker = "CheckingAutomatic"
  /\ \/ \E version \in Versions :
          /\ pending' = version
          /\ nextAutomatic' = FALSE
          /\ Settle(Status("UpdateAvailable", version))
     \/ /\ \E kind \in {"UpToDate", "Failed"} : Settle(Status(kind, NoUpdate))
        /\ UNCHANGED <<pending, nextAutomatic>>
  /\ UNCHANGED <<status, enabled, accepting, commands, dialogs, target,
                 workerExit, requesting, restart, consent>>

(* A manual check replaces what was pending, unless it fails, and asks at  *)
(* once unless shutdown has begun.                                         *)
ManualCheckEnds ==
  /\ worker = "CheckingManual"
  /\ \/ /\ pending' = NoUpdate
        /\ Settle(Status("UpToDate", NoUpdate))
        /\ UNCHANGED <<status, dialogs>>
     \/ /\ Settle(Status("Failed", pending))
        /\ UNCHANGED <<status, dialogs, pending>>
     \/ /\ pending' \in Versions
        /\ worker' = "Waiting"
        /\ IF accepting
           THEN /\ status' = Status("AwaitingConfirmation", pending')
                /\ dialogs' = dialogs \cup {pending'}
                /\ UNCHANGED claimed
           ELSE claimed' = FALSE /\ UNCHANGED <<status, dialogs>>
        /\ UNCHANGED verdict
  /\ UNCHANGED <<enabled, accepting, commands, target, nextAutomatic,
                 workerExit, requesting, restart, consent>>

(* Mutant: an update that could not be installed is not held on to.        *)
RetainFailedUpdate_Drops ==
  /\ Settle(Status("Failed", target))
  /\ UNCHANGED <<pending, status>>

RetainFailedUpdate ==
  /\ pending' = target
  /\ Settle(Status("Failed", target))
  /\ UNCHANGED status

DownloadEnds ==
  /\ worker = "Downloading"
  /\ \/ RetainFailedUpdate
     \/ /\ ~accepting
        /\ pending' = target
        /\ claimed' = FALSE
        /\ worker' = "Waiting"
        /\ UNCHANGED <<status, verdict>>
     \/ /\ accepting
        /\ status' = Status("Installing", target)
        /\ worker' = "Installing"
        /\ UNCHANGED <<claimed, pending, verdict>>
  /\ UNCHANGED <<enabled, accepting, commands, dialogs, target, nextAutomatic,
                 workerExit, requesting, restart, consent>>

InstallFails ==
  /\ worker = "Installing"
  /\ RetainFailedUpdate
  /\ UNCHANGED <<enabled, accepting, commands, dialogs, target, nextAutomatic,
                 workerExit, requesting, restart, consent>>

(* macOS: installing returns, and the application is asked to restart      *)
(* unless it is stopping anyway.                                           *)
InstallReturns ==
  /\ worker = "Installing"
  /\ ~nativeExit
  /\ restart' = (restart \/ accepting)
  /\ claimed' = FALSE
  /\ worker' = "Waiting"
  /\ UNCHANGED <<status, enabled, accepting, commands, dialogs, pending, target,
                 nextAutomatic, verdict, workerExit, requesting, consent>>

(* Mutant: whoever waits for the worker is not told that it will not end.  *)
InstallHandsOver_WithoutMark ==
  /\ worker = "Installing"
  /\ nativeExit
  /\ worker' = "NativeExit"
  /\ UNCHANGED <<serviceVars, pending, target, nextAutomatic, verdict,
                 workerExit, requesting, restart, consent>>

(* Windows: the installer takes over, and the process is about to end on   *)
(* this very thread, once it has been cleaned up (on_before_exit).         *)
InstallHandsOver ==
  /\ worker = "Installing"
  /\ nativeExit
  /\ worker' = "NativeExit"
  /\ workerExit' = "NativeExitPending"
  /\ UNCHANGED <<serviceVars, pending, target, nextAutomatic, verdict,
                 requesting, restart, consent>>

-----------------------------------------------------------------------------
ServiceStep ==
  \/ ToggleAutomaticChecks
  \/ CheckManually
  \/ RequestInstall
  \/ ClaimInstall
  \/ \E version \in Versions, confirmed \in BOOLEAN :
       AnswerDialog(version, confirmed)

WorkerStep ==
  \/ Activate
  \/ Toggle
  \/ BeginManualCheck
  \/ BeginInstallRequest
  \/ HandleConfirmation
  \/ RefuseCommand
  \/ ExitWorker
  \/ PublishVerdict
  \/ AutomaticCheckEnds
  \/ ManualCheckEnds
  \/ DownloadEnds
  \/ InstallFails
  \/ InstallReturns
  \/ InstallHandsOver

(* The updater on its own: shutdown may begin, and stop it, at any time.   *)
ShutdownStep ==
  \/ accepting /\ BeginUpdaterShutdown
  \/ Plain("Stop") \notin {commands[n] : n \in 1 .. Len(commands)}
     /\ worker # "Exited" /\ StopUpdater

UpdaterNext ==
  /\ ServiceStep \/ WorkerStep \/ ShutdownStep
  /\ UNCHANGED nativeExit

UpdaterSpec == UpdaterInit /\ [][UpdaterNext]_updaterVars

-----------------------------------------------------------------------------
(* Properties.                                                             *)

(* Where the operation in progress may be: on its way to the worker, with  *)
(* the user, or with the worker.                                           *)
ClaimedCommands ==
  {n \in 1 .. Len(commands) :
     commands[n].op \in {"ManualCheck", "RequestInstall", "Confirmation"}}

Working == worker \in {"CheckingAutomatic", "CheckingManual", "Downloading",
                       "Installing", "NativeExit"}

Operations ==
  Cardinality(ClaimedCommands) + Cardinality(dialogs) + (IF Working THEN 1 ELSE 0)

(* There is never more than one operation, and the claim is held exactly   *)
(* as long as there is one: it is not given back under an operation that   *)
(* runs on, and it does not outlive the last.  A claim that did would shut *)
(* the user out of checking and installing for good.                       *)
OneOperationAtATime ==
  /\ Operations <= 1
  /\ claimed <=> Operations = 1

(* What is downloaded and installed is what the user agreed to, although   *)
(* the dialog's answer carries no version and a check may find another one *)
(* (docs/how-it-works.md, "Finding an update never authorizes              *)
(* installation").                                                         *)
ConsentIsForThisUpdate ==
  worker \in {"Downloading", "Installing", "NativeExit"} => consent = target

(* What the status offers for installation is what the worker holds on to, *)
(* and the other way round: no update is lost by a failure or a refusal,   *)
(* and the user is asked about none that has gone.                         *)
OfferIsHeld ==
  /\ accepting /\ worker = "Waiting" /\ status.kind # "Installing" =>
       status.version = pending
  /\ NoUpdate \notin dialogs

(* The timer of the automatic checks is never given up while they are      *)
(* enabled and no update is pending: not by an operation in progress, a    *)
(* check that fails or a preference that cannot be saved.                  *)
ScheduleIsKept ==
  [][nextAutomatic /\ ~nextAutomatic' => ~enabled' \/ pending' # NoUpdate]_updaterVars

(* While automatic checks are enabled and there is nothing to install, the *)
(* next one is scheduled, whatever operations have come in between         *)
(* (updater/tests.rs, enabling_automatic_checks_re_evaluates_due_work_     *)
(* from_persisted_preference).                                             *)
AutomaticChecksGoOn ==
  (/\ accepting
   /\ worker = "Waiting"
   /\ enabled
   /\ pending = NoUpdate
   /\ ~claimed
   /\ status.kind # "Installing")
  => nextAutomatic \/ Plain("Activate") \in {commands[n] : n \in 1 .. Len(commands)}

=============================================================================
