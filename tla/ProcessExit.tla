----------------------------- MODULE ProcessExit -----------------------------
(***************************************************************************)
(* How the process ends: the shutdown coordinator, the event loop and the  *)
(* exit handling of src-tauri/src/main.rs, the tray presentation worker of *)
(* src-tauri/src/tray_host.rs, and the updater, which has to be joined and *)
(* which on Windows ends the process itself.                               *)
(*                                                                         *)
(* Two threads may run ShutdownCoordinator::finish: the main thread, when  *)
(* the event loop lets it exit, and the updater's worker, from the         *)
(* installer's hook.  Both take the locks of the product owner and of the  *)
(* presentation owner and keep them while they join what they own.         *)
(*                                                                         *)
(* Menus may be changed on the main thread only (external: tauri hands a   *)
(* menu operation to the event loop and waits for it), so a render of the  *)
(* tray does not end before the event loop has turned to it.  An exit that *)
(* restarts the application may not be prevented (external: tauri ignores  *)
(* prevent_exit for the code of a restart): when the handler of            *)
(* ExitRequested returns, the process ends and is started anew.            *)
(*                                                                         *)
(* The capabilities below the updater are one step here: KeepAwake models  *)
(* their shutdown.                                                         *)
(***************************************************************************)
EXTENDS Updater

CONSTANT MaxQuits  \* bound: how often the user may choose Quit

ASSUME QuitsAssumption == MaxQuits \in Nat

VARIABLES
  at,              \* where each of the two threads is
  productLock,     \* who holds the product owner's lock
  productOwned,    \* the product is still there to be shut down
  productStopped,  \* its shutdown has come to its end
  presentLock,     \* who holds the presentation owner's lock
  presentOwned,    \* the presentation is still there to be shut down
  tray,            \* what the presentation worker is doing
  trayCommands,    \* what it has been told, refreshes aside
  exitPhase,       \* what request_exit has come to
  finishing,       \* the FinishState
  exitEvents,      \* ExitRequested events for the event loop; the one being
                   \* handled stays first until its handler is done with it
  quits,           \* how often the user has chosen Quit
  restarting       \* the restart request has reached the event loop

exitVars == <<at, productLock, productOwned, productStopped, presentLock,
              presentOwned, tray, trayCommands, exitPhase, finishing,
              exitEvents, quits, restarting>>
vars == <<updaterVars, exitVars>>

Thread == {"Main", "Updater"}
Free == "Free"

(* Loop: the event loop, or the updater's own work.  The others name the   *)
(* step of the exit handler, of finish or of finish_claimed that comes     *)
(* next; Gone: the process has ended on this thread.                       *)
Place == {"Loop", "ExitBegin", "ExitRequest", "Finish", "AwaitFinish",
          "CleanBegin", "StopPresentation", "JoinPresentation", "StopProduct",
          "JoinUpdater", "StopRest", "Complete", "Finished", "Gone"}

Init ==
  /\ UpdaterInit
  /\ at = [t \in Thread |-> "Loop"]
  /\ productLock = Free
  /\ productOwned = TRUE
  /\ productStopped = FALSE
  /\ presentLock = Free
  /\ presentOwned = TRUE
  /\ tray = "Waiting"
  /\ trayCommands = <<>>
  /\ exitPhase = "Running"
  /\ finishing = "Idle"
  /\ exitEvents = <<>>
  /\ quits = 0
  /\ restarting = FALSE

Alive == \A t \in Thread : at[t] # "Gone"

Go(t, from, to) == at[t] = from /\ at' = [at EXCEPT ![t] = to]

-----------------------------------------------------------------------------
(* What asks for the exit.                                                 *)

(* The tray's Quit command calls app.exit(0).                              *)
Quit ==
  /\ at["Main"] = "Loop"
  /\ quits < MaxQuits
  /\ quits' = quits + 1
  /\ exitEvents' = Append(exitEvents, "Exit")
  /\ UNCHANGED <<updaterVars, at, productLock, productOwned, productStopped,
                 presentLock, presentOwned, tray, trayCommands, exitPhase,
                 finishing, restarting>>

(* request_restart, after an installation on macOS.                        *)
Restart ==
  /\ restart
  /\ ~restarting
  /\ restarting' = TRUE
  /\ exitEvents' = Append(exitEvents, "Restart")
  /\ UNCHANGED <<updaterVars, at, productLock, productOwned, productStopped,
                 presentLock, presentOwned, tray, trayCommands, exitPhase,
                 finishing, quits>>

-----------------------------------------------------------------------------
(* The presentation worker.                                                *)

StartRender ==
  /\ tray = "Waiting"
  /\ tray' = "Rendering"
  /\ UNCHANGED <<updaterVars, at, productLock, productOwned, productStopped,
                 presentLock, presentOwned, trayCommands, exitPhase, finishing,
                 exitEvents, quits, restarting>>

(* The event loop turns to the menu operation the worker waits for.        *)
ServeMenu ==
  /\ at["Main"] = "Loop"
  /\ tray = "Rendering"
  /\ tray' = "Waiting"
  /\ UNCHANGED <<updaterVars, at, productLock, productOwned, productStopped,
                 presentLock, presentOwned, trayCommands, exitPhase, finishing,
                 exitEvents, quits, restarting>>

(* The worker receives a command to stop.  Either way the phase ends as    *)
(* Stopped, and an exit that was deferred to the worker is asked for again.*)
StopTray ==
  /\ tray = "Waiting"
  /\ trayCommands # <<>>
  /\ trayCommands' = Tail(trayCommands)
  /\ tray' = "Stopped"
  /\ exitPhase' = "Stopped"
  /\ exitEvents' = IF Head(trayCommands) = "StopAndExit" \/ exitPhase = "StopRequested"
                   THEN Append(exitEvents, "Exit")
                   ELSE exitEvents
  /\ UNCHANGED <<updaterVars, at, productLock, productOwned, productStopped,
                 presentLock, presentOwned, finishing, quits, restarting>>

-----------------------------------------------------------------------------
(* The handler of ExitRequested, on the main thread.                       *)

HandleExit ==
  /\ exitEvents # <<>>
  /\ Go("Main", "Loop", "ExitBegin")
  /\ UNCHANGED <<updaterVars, productLock, productOwned, productStopped,
                 presentLock, presentOwned, tray, trayCommands, exitPhase,
                 finishing, exitEvents, quits, restarting>>

(* begin: the product stops accepting, if it is still there.               *)
Begin(t, from, to) ==
  /\ Go(t, from, to)
  /\ productLock = Free
  /\ IF productOwned THEN BeginUpdaterShutdown ELSE UNCHANGED updaterVars
  /\ UNCHANGED <<productLock, productOwned, productStopped, presentLock,
                 presentOwned, tray, trayCommands, exitPhase, finishing,
                 exitEvents, quits, restarting>>

(* request_presentation_exit: while the presentation worker runs, the exit *)
(* is prevented, and the worker told to ask for it again when it has       *)
(* stopped; the event loop goes on.  A restart does not wait for that: the *)
(* process is gone before the worker has read its command.                 *)
RequestExit ==
  /\ presentLock = Free
  /\ IF presentOwned /\ exitPhase # "Stopped"
     THEN /\ Go("Main", "ExitRequest",
                IF Head(exitEvents) = "Restart" THEN "Gone" ELSE "Loop")
          /\ exitPhase' = "StopRequested"
          /\ trayCommands' = IF exitPhase = "Running"
                             THEN Append(trayCommands, "StopAndExit")
                             ELSE trayCommands
     ELSE /\ Go("Main", "ExitRequest", "Finish")
          /\ UNCHANGED <<exitPhase, trayCommands>>
  /\ exitEvents' = Tail(exitEvents)
  /\ UNCHANGED <<updaterVars, productLock, productOwned, productStopped,
                 presentLock, presentOwned, tray, finishing, quits, restarting>>

-----------------------------------------------------------------------------
(* ShutdownCoordinator::finish, on thread t.                               *)

(* The installer's hook runs on the updater's worker.                      *)
EnterHook ==
  /\ worker = "NativeExit"
  /\ Go("Updater", "Loop", "Finish")
  /\ UNCHANGED <<updaterVars, productLock, productOwned, productStopped,
                 presentLock, presentOwned, tray, trayCommands, exitPhase,
                 finishing, exitEvents, quits, restarting>>

(* Mutant: whoever comes second does not wait for the first.               *)
ClaimFinish_WithoutWait(t) ==
  /\ IF finishing = "Idle"
     THEN finishing' = "Running" /\ Go(t, "Finish", "CleanBegin")
     ELSE Go(t, "Finish", "Finished") /\ UNCHANGED finishing
  /\ UNCHANGED <<updaterVars, productLock, productOwned, productStopped,
                 presentLock, presentOwned, tray, trayCommands, exitPhase,
                 exitEvents, quits, restarting>>

ClaimFinish(t) ==
  /\ CASE finishing = "Idle" ->
            finishing' = "Running" /\ Go(t, "Finish", "CleanBegin")
       [] finishing = "Running" ->
            Go(t, "Finish", "AwaitFinish") /\ UNCHANGED finishing
       [] finishing = "Complete" ->
            Go(t, "Finish", "Finished") /\ UNCHANGED finishing
  /\ UNCHANGED <<updaterVars, productLock, productOwned, productStopped,
                 presentLock, presentOwned, tray, trayCommands, exitPhase,
                 exitEvents, quits, restarting>>

(* The condition variable is waited on until the state is Complete.        *)
FinishAwaited(t) ==
  /\ finishing = "Complete"
  /\ Go(t, "AwaitFinish", "Finished")
  /\ UNCHANGED <<updaterVars, productLock, productOwned, productStopped,
                 presentLock, presentOwned, tray, trayCommands, exitPhase,
                 finishing, exitEvents, quits, restarting>>

(* finish_presentation_shutdown takes the presentation out under its lock, *)
(* tells the worker to stop and joins it with the lock still held.         *)
StopPresentation(t) ==
  /\ presentLock = Free
  /\ IF presentOwned
     THEN /\ Go(t, "StopPresentation", "JoinPresentation")
          /\ presentLock' = t
          /\ presentOwned' = FALSE
          /\ trayCommands' = Append(trayCommands, "Stop")
     ELSE /\ Go(t, "StopPresentation", "StopProduct")
          /\ UNCHANGED <<presentLock, presentOwned, trayCommands>>
  /\ UNCHANGED <<updaterVars, productLock, productOwned, productStopped, tray,
                 exitPhase, finishing, exitEvents, quits, restarting>>

JoinPresentation(t) ==
  /\ tray = "Stopped"
  /\ Go(t, "JoinPresentation", "StopProduct")
  /\ presentLock' = Free
  /\ UNCHANGED <<updaterVars, productLock, productOwned, productStopped,
                 presentOwned, tray, trayCommands, exitPhase, finishing,
                 exitEvents, quits, restarting>>

(* finish_product_shutdown keeps the lock until the product has shut down. *)
(* The updater was started last and is stopped first; its own worker does  *)
(* not join itself.                                                        *)
StopProduct(t) ==
  /\ productLock = Free
  /\ IF productOwned
     THEN /\ Go(t, "StopProduct", IF t = "Updater" THEN "StopRest" ELSE "JoinUpdater")
          /\ productLock' = t
          /\ productOwned' = FALSE
          /\ StopUpdater
     ELSE /\ Go(t, "StopProduct", "Complete")
          /\ UNCHANGED <<updaterVars, productLock, productOwned>>
  /\ UNCHANGED <<productStopped, presentLock, presentOwned, tray, trayCommands,
                 exitPhase, finishing, exitEvents, quits, restarting>>

(* Mutant: the worker is told to stop and its handle dropped.              *)
JoinUpdater_Detaches(t) ==
  /\ Go(t, "JoinUpdater", "StopRest")
  /\ UNCHANGED <<updaterVars, productLock, productOwned, productStopped,
                 presentLock, presentOwned, tray, trayCommands, exitPhase,
                 finishing, exitEvents, quits, restarting>>

(* The worker has ended, or has announced that it never will.              *)
JoinUpdater(t) ==
  /\ workerExit # "Running"
  /\ Go(t, "JoinUpdater", "StopRest")
  /\ UNCHANGED <<updaterVars, productLock, productOwned, productStopped,
                 presentLock, presentOwned, tray, trayCommands, exitPhase,
                 finishing, exitEvents, quits, restarting>>

StopRest(t) ==
  /\ Go(t, "StopRest", "Complete")
  /\ productStopped' = TRUE
  /\ productLock' = Free
  /\ UNCHANGED <<updaterVars, productOwned, presentLock, presentOwned, tray,
                 trayCommands, exitPhase, finishing, exitEvents, quits,
                 restarting>>

CompleteFinish(t) ==
  /\ Go(t, "Complete", "Finished")
  /\ finishing' = "Complete"
  /\ UNCHANGED <<updaterVars, productLock, productOwned, productStopped,
                 presentLock, presentOwned, tray, trayCommands, exitPhase,
                 exitEvents, quits, restarting>>

(* The process ends: main returns (after one more finish, which finds the  *)
(* state Complete) or, once a restart was asked for, tauri starts it anew; *)
(* or the installer's hook returns, and the installer has the process exit.*)
EndProcess(t) ==
  /\ Go(t, "Finished", "Gone")
  /\ UNCHANGED <<updaterVars, productLock, productOwned, productStopped,
                 presentLock, presentOwned, tray, trayCommands, exitPhase,
                 finishing, exitEvents, quits, restarting>>

-----------------------------------------------------------------------------
(* The updater.  The tray's commands and the dialog's answer run on the    *)
(* main thread; the worker is busy while it is in the hook.                *)

UpdaterStep ==
  /\ \/ at["Main"] = "Loop" /\ ServiceStep
     \/ WorkerStep
  /\ UNCHANGED exitVars

TrayStep == ServeMenu \/ StopTray

MainStep ==
  \/ HandleExit
  \/ Begin("Main", "ExitBegin", "ExitRequest")
  \/ RequestExit

FinishStep(t) ==
  \/ ClaimFinish(t)
  \/ FinishAwaited(t)
  \/ Begin(t, "CleanBegin", "StopPresentation")
  \/ StopPresentation(t)
  \/ JoinPresentation(t)
  \/ StopProduct(t)
  \/ JoinUpdater(t)
  \/ StopRest(t)
  \/ CompleteFinish(t)
  \/ EndProcess(t)

(* Any step of the process: it has not ended, and its platform is what it  *)
(* is.                                                                     *)
InProcess(Step) == Alive /\ Step /\ UNCHANGED nativeExit

Next ==
  /\ Alive
  /\ UNCHANGED nativeExit
  /\ \/ UpdaterStep
     \/ Quit
     \/ Restart
     \/ StartRender
     \/ TrayStep
     \/ MainStep
     \/ EnterHook
     \/ \E t \in Thread : FinishStep(t)

Spec == Init /\ [][Next]_vars

(* Threads that can go on do, and what the worker waits for (the network,  *)
(* the installer) comes to an end.  The event loop does not neglect an     *)
(* event because menu operations keep coming, nor the worker a command     *)
(* because there is always something to render.  The user owes nothing.    *)
Fairness ==
  /\ WF_vars(InProcess(WorkerStep /\ UNCHANGED exitVars))
  /\ WF_vars(InProcess(Restart))
  /\ WF_vars(InProcess(ServeMenu))
  /\ SF_vars(InProcess(StopTray))
  /\ WF_vars(InProcess(HandleExit))
  /\ WF_vars(InProcess(Begin("Main", "ExitBegin", "ExitRequest") \/ RequestExit))
  /\ WF_vars(InProcess(EnterHook))
  /\ \A t \in Thread : WF_vars(InProcess(FinishStep(t)))

FairSpec == Spec /\ Fairness

-----------------------------------------------------------------------------
(* Properties.                                                             *)

(* The one end without cleanup: a restart whose exit is handled while the  *)
(* tray's worker still runs.  The handler has told the product to stop     *)
(* accepting and the worker to stop, and has put off the rest to an exit   *)
(* that never comes (main.rs, request_restart in updater/tauri_adapter.rs).*)
RestartOvertakesCleanup ==
  /\ restarting
  /\ ~nativeExit
  /\ finishing = "Idle"
  /\ productOwned
  /\ presentOwned

(* The process never ends in the middle of its cleanup, whichever threads  *)
(* get there and in whatever order: the product has been shut down and the *)
(* tray has stopped (docs/architecture.md, "Shutdown is ordered,           *)
(* idempotent"), or a restart on macOS has kept cleanup from so much as    *)
(* beginning.                                                              *)
EndsCleanedUp ==
  ~Alive =>
    \/ productStopped /\ tray = "Stopped" /\ finishing = "Complete"
    \/ RestartOvertakesCleanup

(* One thread at a time shuts the product down, and the updater's worker   *)
(* is not at work on the product's behalf any more when the rest of it is  *)
(* stopped: it has ended, or is in the installer's hook.                   *)
UpdaterStopsFirst ==
  \A t \in Thread :
    at[t] \in {"StopRest", "Complete"} /\ productLock # Free =>
      productLock = t /\ worker \in {"Exited", "NativeExit"}

(* Three threads that wait for each other: the installer's hook holds the  *)
(* presentation's lock and waits for its worker, the worker waits for the  *)
(* event loop to change a menu, and the event loop's exit handler waits    *)
(* for the lock.  The code does not exclude it.                            *)
PresentationDeadlock ==
  /\ at["Updater"] = "JoinPresentation"
  /\ presentLock = "Updater"
  /\ tray = "Rendering"
  /\ at["Main"] = "ExitRequest"

(* A request to exit ends the process, on either platform and whatever the *)
(* updater is doing, although the main thread waits for the updater's      *)
(* worker, which may be waiting for this very exit (shutdown_tests.rs,     *)
(* updater_callback_racing_normal_finish_cannot_block_lifecycle_join).     *)
(* That deadlock is the only thing that can prevent it.                    *)
ExitCompletes == exitEvents # <<>> ~> ~Alive \/ PresentationDeadlock

=============================================================================
