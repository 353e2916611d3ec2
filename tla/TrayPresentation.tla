-------------------------- MODULE TrayPresentation --------------------------
(***************************************************************************)
(* The tray's presentation (src-tauri/src/tray_host.rs, tray.rs) over the  *)
(* application lifecycle, in the order in which main.rs drives the two.  A *)
(* worker thread samples a view of the product, every second and whenever  *)
(* it is asked to, and renders it into the native menu.  The main thread   *)
(* starts the product, then runs the event loop: it answers menu commands, *)
(* serves the worker's native menu operations, and exits.                  *)
(*                                                                         *)
(* A view is abstracted to what the application's status gives, to whether *)
(* commands are enabled, and to what the services show: which rows their   *)
(* part of the menu has, and what these say.  How the end of the process   *)
(* joins the worker is the subject of ProcessExit.                         *)
(***************************************************************************)
EXTENDS ProductLifecycle

VARIABLES
  activated,       \* the tray has been given the product
  services,        \* external: what the product's services would show
  main,            \* what the main thread is doing
  exitPhase,       \* PresentationControl's exit_phase
  refreshPending,  \* PresentationControl's refresh_pending
  queue,           \* the worker's commands
  worker,          \* what the worker is doing
  forced,          \* this sample is rendered even if nothing has changed
  sampledStatus,   \* the first part of the worker's sample
  sampledView,     \* ... and all of it
  lastView,        \* the view rendered last, unless rendering failed since
  renderedView,    \* the view the native menu was last brought to
  torn,            \* external: the menu has been updated only in part
  unseen           \* history: no sample was begun since a refresh was due

presentationVars == <<activated, services, main, exitPhase, refreshPending,
                      queue, worker, forced, sampledStatus, sampledView,
                      lastView, renderedView, torn, unseen>>
workerVars == <<worker, forced, sampledStatus, sampledView, lastView,
                renderedView, torn>>

(* Rows, and what they say; <<0, 0>> while there is no product.            *)
NoServices == <<0, 0>>
Services == {<<1, 1>>, <<1, 2>>, <<2, 1>>}

Operational(appStatus) == appStatus \in {"Ready", "Degraded"}

(* What the tray shows without the product, and with it.                   *)
Ended(appStatus) ==
  IF appStatus = "Failed" THEN "Startup failed" ELSE "Shutting down"

LifecycleOnlyView(appStatus) ==
  [primary |-> IF appStatus \in {"Failed", "ShuttingDown", "Stopped"}
               THEN Ended(appStatus) ELSE "Starting",
   enabled |-> FALSE,
   rows    |-> NoServices]

(* What is shown of the services says more than Operational.               *)
Project(appStatus, shown) ==
  [primary |-> IF Operational(appStatus) THEN "Operational"
               ELSE IF appStatus = "Starting" THEN "Starting" ELSE Ended(appStatus),
   enabled |-> Operational(appStatus),
   rows    |-> shown]

ViewOf(appStatus) ==
  IF activated THEN Project(appStatus, services) ELSE LifecycleOnlyView(appStatus)

(* What a menu has to be built anew for.                                   *)
Structure(view) == <<view.enabled, view.rows[1]>>

PresentationInit ==
  /\ Init
  /\ activated = FALSE
  /\ services \in Services
  /\ main = "Starting"
  /\ exitPhase = "Running"
  /\ refreshPending = FALSE
  /\ queue = <<>>
  /\ worker = "Waiting"
  /\ forced = FALSE
  /\ sampledStatus = "Starting"
  /\ sampledView = LifecycleOnlyView("Starting")
  /\ lastView = {LifecycleOnlyView("Starting")}
  /\ renderedView = LifecycleOnlyView("Starting")
  /\ torn = FALSE
  /\ unseen = FALSE

-----------------------------------------------------------------------------
(* The main thread.                                                        *)

StartStep ==
  /\ main = "Starting"
  /\ BeginStart \/ StartParticipant \/ FinishStart \/ StopResource \/ FinishCleanup
  /\ UNCHANGED presentationVars

RefreshIsDue ==
  /\ main' = "Requesting"
  /\ unseen' = TRUE

(* ProductRuntime::start returns: the tray is given a product that started,*)
(* and asked to show what came of it (main.rs, orchestrate_startup).       *)
StartReturns ==
  /\ main = "Starting"
  /\ call = "None"
  /\ status # "Starting"
  /\ activated' = Operational(status)
  /\ RefreshIsDue
  /\ UNCHANGED <<vars, services, exitPhase, refreshPending, queue, workerVars>>

(* A menu command that is admitted changes what the services show.         *)
ExecuteCommand ==
  /\ main = "Idle"
  /\ Operational(status)
  /\ activated
  /\ services' \in Services
  /\ RefreshIsDue
  /\ UNCHANGED <<vars, activated, exitPhase, refreshPending, queue, workerVars>>

(* request_refresh: only who sets the flag sends.                          *)
RequestRefresh ==
  /\ main = "Requesting"
  /\ main' = IF refreshPending THEN "Idle" ELSE "Sending"
  /\ refreshPending' = TRUE
  /\ UNCHANGED <<vars, activated, services, exitPhase, queue, workerVars, unseen>>

SendRefresh ==
  /\ main = "Sending"
  /\ main' = "Idle"
  /\ queue' = Append(queue, "Refresh")
  /\ UNCHANGED <<vars, activated, services, exitPhase, refreshPending,
                 workerVars, unseen>>

(* An exit is requested: shutdown is published, and the exit is put off    *)
(* until the worker has stopped.                                           *)
RequestExit ==
  /\ main = "Idle"
  /\ exitPhase = "Running"
  /\ RequestShutdown
  /\ exitPhase' = "StopRequested"
  /\ queue' = Append(queue, "StopAndExit")
  /\ UNCHANGED <<activated, services, main, refreshPending, workerVars, unseen>>

(* The worker asked for the exit again.                                    *)
Finish ==
  /\ main = "Idle"
  /\ exitPhase = "Stopped"
  /\ main' = "Finishing"
  /\ Shutdown
  /\ UNCHANGED <<activated, services, exitPhase, refreshPending, queue,
                 workerVars, unseen>>

FinishStep ==
  /\ main = "Finishing"
  /\ StopResource \/ FinishCleanup
  /\ UNCHANGED presentationVars

(* What the services show changes by itself too.                           *)
ServicesChange ==
  /\ activated
  /\ Operational(status)
  /\ services' \in Services \ {services}
  /\ UNCHANGED <<vars, activated, main, exitPhase, refreshPending, queue,
                 workerVars, unseen>>

-----------------------------------------------------------------------------
(* The worker (tray_host.rs, run).                                         *)

(* Mutant: the flag stays set.                                             *)
ReceiveRefresh_KeepsFlag ==
  /\ worker = "Waiting"
  /\ queue # <<>> /\ Head(queue) = "Refresh"
  /\ queue' = Tail(queue)
  /\ forced' = TRUE
  /\ worker' = "Sampling"
  /\ UNCHANGED <<vars, activated, services, main, exitPhase, refreshPending,
                 sampledStatus, sampledView, lastView, renderedView, torn, unseen>>

(* The flag is cleared before anything is sampled.                         *)
ReceiveRefresh ==
  /\ worker = "Waiting"
  /\ queue # <<>> /\ Head(queue) = "Refresh"
  /\ queue' = Tail(queue)
  /\ refreshPending' = FALSE
  /\ forced' = TRUE
  /\ worker' = "Sampling"
  /\ UNCHANGED <<vars, activated, services, main, exitPhase, sampledStatus,
                 sampledView, lastView, renderedView, torn, unseen>>

ReceiveTimeout ==
  /\ worker = "Waiting"
  /\ queue = <<>>
  /\ forced' = FALSE
  /\ worker' = "Sampling"
  /\ UNCHANGED <<vars, activated, services, main, exitPhase, refreshPending,
                 queue, sampledStatus, sampledView, lastView, renderedView,
                 torn, unseen>>

ReceiveStop ==
  /\ worker = "Waiting"
  /\ queue # <<>> /\ Head(queue) = "StopAndExit"
  /\ queue' = Tail(queue)
  /\ exitPhase' = "Stopped"
  /\ worker' = "Stopped"
  /\ UNCHANGED <<vars, activated, services, main, refreshPending, forced,
                 sampledStatus, sampledView, lastView, renderedView, torn, unseen>>

(* The status is read first, and the services after it.                    *)
SampleStatus ==
  /\ worker = "Sampling"
  /\ worker' = "Projecting"
  /\ sampledStatus' = status
  /\ unseen' = FALSE
  /\ UNCHANGED <<vars, activated, services, main, exitPhase, refreshPending,
                 queue, forced, sampledView, lastView, renderedView, torn>>

SampleProduct ==
  /\ worker = "Projecting"
  /\ sampledView' = ViewOf(sampledStatus)
  /\ worker' = IF ~forced /\ lastView = {ViewOf(sampledStatus)}
               THEN "Waiting" ELSE "Rendering"
  /\ UNCHANGED <<vars, activated, services, main, exitPhase, refreshPending,
                 queue, forced, sampledStatus, lastView, renderedView, torn,
                 unseen>>

(* Mutant: a view is taken for rendered though rendering it failed.        *)
Render_ForgetsFailure ==
  /\ worker = "Rendering"
  /\ main = "Idle"
  /\ worker' = "Waiting"
  /\ lastView' = {sampledView}
  /\ \/ renderedView' = sampledView /\ torn' = FALSE
     \/ /\ torn' = (torn \/ Structure(renderedView) = Structure(sampledView))
        /\ UNCHANGED renderedView
  /\ UNCHANGED <<vars, activated, services, main, exitPhase, refreshPending,
                 queue, forced, sampledStatus, sampledView, unseen>>

(* The event loop carries the native operations out.  If one fails, a menu *)
(* that was being built anew is given up, one that was being updated is    *)
(* left as it is; either way nothing counts as rendered any more.          *)
Render ==
  /\ worker = "Rendering"
  /\ main = "Idle"
  /\ worker' = "Waiting"
  /\ \/ /\ lastView' = {sampledView}
        /\ renderedView' = sampledView
        /\ torn' = FALSE
     \/ /\ lastView' = {}
        /\ torn' = (torn \/ Structure(renderedView) = Structure(sampledView))
        /\ UNCHANGED renderedView
  /\ UNCHANGED <<vars, activated, services, main, exitPhase, refreshPending,
                 queue, forced, sampledStatus, sampledView, unseen>>

PresentationNext ==
  \/ StartStep
  \/ StartReturns
  \/ ExecuteCommand
  \/ RequestRefresh
  \/ SendRefresh
  \/ RequestExit
  \/ Finish
  \/ FinishStep
  \/ ServicesChange
  \/ ReceiveRefresh
  \/ ReceiveTimeout
  \/ ReceiveStop
  \/ SampleStatus
  \/ SampleProduct
  \/ Render

PresentationSpec ==
  PresentationInit /\ [][PresentationNext]_<<vars, presentationVars>>

MainThreadRuns ==
  StartStep \/ StartReturns \/ RequestRefresh \/ SendRefresh \/ FinishStep

WorkerRuns ==
  ReceiveRefresh \/ ReceiveTimeout \/ ReceiveStop \/ SampleStatus \/ SampleProduct

RenderSucceeds == Render /\ renderedView' = sampledView /\ ~torn'

(* Threads run, the interval elapses, and the native menu, tried again and *)
(* again, does not fail for ever.                                          *)
FairPresentationSpec ==
  /\ PresentationSpec
  /\ WF_<<vars, presentationVars>>(MainThreadRuns)
  /\ WF_<<vars, presentationVars>>(WorkerRuns)
  /\ SF_<<vars, presentationVars>>(RenderSucceeds)

-----------------------------------------------------------------------------
(* Properties.                                                             *)

MenuIsTrue == renderedView = ViewOf(status) /\ ~torn

(* When what the services show comes to rest, the menu comes to show it,   *)
(* all of it, until the tray is stopped, whatever failed to be rendered on *)
(* the way: the worker never takes a view for rendered, and so no longer   *)
(* tries to, that the menu does not show (tray_host.rs, "last_view").  A   *)
(* startup that failed comes to be shown in the same way.                  *)
MenuCatchesUp ==
  \A shown \in Services :
    <>[](services = shown) => []<>(MenuIsTrue \/ worker = "Stopped")

(* The outcome of startup and the result of every command are sampled      *)
(* without waiting for the interval: until they are, a refresh is on its   *)
(* way or the tray is being stopped (docs/architecture.md, "Tray           *)
(* presentation": the next projection reflects the result).                *)
RefreshesAreNotLost ==
  unseen =>
    \/ main \in {"Requesting", "Sending"}
    \/ \E i \in 1 .. Len(queue) : queue[i] = "Refresh"
    \/ worker = "Sampling"
    \/ worker = "Stopped"

=============================================================================
