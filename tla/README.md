# A verification of Chiu in TLA+

Chiu is a tray application (Rust, Tauri) for macOS and Windows that keeps the
machine awake while a download is running, or for as long as the user asks it
to. This directory holds TLA+ modules of its program logic, the TLC
configurations that check them on small instances, and proofs, checked by
TLAPS, for all values of the constants.

Paths such as `settings.rs:393` are relative to `src/src-tauri/src/`.
`PROJECT.json` maps every definition to the lines it models, and lists the
runs, the mutants, the hazards and the theorems.

## 1. The system

| Component | Source | State it keeps | Operations |
|---|---|---|---|
| Wake coordinator | `wake_coordinator.rs` | the set of wake reasons; the native inhibitor | start, set/remove a reason, shutdown |
| Sleep inhibitor | `sleep_inhibitor/` | a power assertion (macOS) or a power request and its cleanup debt (Windows) | acquire, release, drop |
| Automatic protection policy | `automatic_protection.rs` | detector intent, live policy, power source, last commanded desire, failure | set intent / power source / settings, two persisted toggles, shutdown |
| Automatic download detector | `automatic_download.rs` | phase (Idle, Qualifying, Active, Hold) with one accumulated duration; live tuning | consume a network event, tune, shutdown |
| Manual session | `manual_session.rs` | intent with deadline, background failure, a scheduler thread | start, extend, convert, stop, expire, shutdown |
| Network activity | `network_activity/` | counters of the previous reading, availability, published status, a worker thread | sample, deliver events, stop |
| Power source observer | `power_source/` | an OS subscription, the way from it to the observer, a snapshot | start, notify, publish, shutdown, drop |
| Settings | `settings.rs` | live snapshot, load condition, preservation flag; primary, backup and quarantine on disk | load, update |
| Application lifecycle | `application.rs` | published status, the stack of started participants | start, request shutdown, shutdown |
| Product composition | `product_composition.rs` | which participants exist, and in which order | wires the above |
| Updater | `updater.rs`, `updater/worker_exit.rs`, `updater/tauri_adapter.rs` | published status, a claim, a command queue, the pending update, a timer | toggle, check, install, confirm, shutdown |
| Process exit | `main.rs` | finish state, product and presentation owners, each behind a lock | begin, finish, exit handler, installer's hook |
| Tray application | `tray.rs` | none of its own: a view is put together from the services | sample a view, admit and execute commands |
| Tray presentation | `tray_host.rs`, `tray_host/` | exit phase, refresh flag, a worker with the last view it rendered, the rows of the native menu | request a refresh, build or update the menu, handle a click, stop |
| Launch at login | `launch_at_login.rs` | last observation and failure | reconcile, toggle |
| Diagnostics | `diagnostics.rs`, `diagnostics/`, `clipboard.rs` | whether it accepts, the last outcome; the system's clipboard | copy a report, open the logs, shutdown |
| Local log | `local_log.rs` | writer, length of the current file; the current file and its archives | initialize, record, rotate, disable |

How they interact:

- The network worker thread hands events to the detector, which holds its mutex
  while it tells the policy its intent, which holds its mutex while it asks the
  coordinator, which holds its mutex while it calls the inhibitor. The session
  takes the same last step. Power observer callbacks enter at the policy.
- Tray commands run on the main thread, one at a time, after one look at the
  application status. Toggles and tuning are saved through the settings
  service and applied to the live component after that.
- The lifecycle starts participants in order and stops them in reverse order.
  Shutdown runs on the main thread; when an installer ends the process on
  Windows it runs on the updater's thread, with the main thread still serving
  commands.
- The updater's worker talks to the tray through its published status, to the
  user through a dialog, and to the process through a restart request or the
  installer's hook.
- The tray's worker, a command and a diagnostic report take one snapshot of each
  service, one after the other, while every thread above goes on. The worker
  hands what it made of them to the main thread, which writes it into the menu.
- Every thread records in the local log; diagnostics asks it where it is and
  whether it works.

What is hard, and what makes each component correct:

- **Coordinator, policy, session, detector.** Four threads add and remove
  reasons while native calls fail. Correct: protection is held for exactly as
  long as somebody wants it, failures apart; a failed change is retried; a
  saved setting is a live one; a session ends when it was asked to and no
  earlier; nothing survives shutdown.
- **Adapters.** Setting succeeds and closing fails, or the other way round.
  Correct: no request is forgotten, none is reported that is not there.
- **Power source.** Notifications come on a thread of the system's and may not
  stop when told to. Correct: the policy acts on the source that is shown, and
  no notification meets a context that is gone.
- **Network source.** Counters reset, wrap, appear, vanish and fail. Correct: a
  sample is never more than what was received; what was lost is forgotten.
- **Settings.** The process or the power may go between any two of six file
  operations. Correct: acknowledged settings, the document before them and the
  source of a recovery all survive.
- **Updater and exit.** A claim is passed between three threads; two threads
  finish the process at once. Correct: one operation at a time, consent for
  that update, and an exit that completes, and never in the middle of cleanup.
- **Tray.** A view is sampled from services that do not stand still; requests
  to refresh are merged while the worker samples; a menu is written row by row,
  any row may fail, and a click flips a check by itself. Correct: a view that
  does not warn is true, no request is lost, and what the worker takes the menu
  to show is what it shows.
- **Lifecycle, launch at login.** One step of several fails. Correct: reverse
  order, nothing skipped, what did not stop is on record; what is displayed is
  what was found.
- **Diagnostics.** Every call on the clipboard may fail after others have
  succeeded. Correct: the clipboard is closed, its memory has one owner, and
  the tray is told of a copy only if there is one.
- **Local log.** A rotation is several renames, the process may end between any
  two, and other threads go on with a writer that has failed. Correct: lines
  stay in order, only the oldest go, and files stay bounded.

## 2. The modules

```
SleepInhibitor                     the facade the coordinator is built on
  WakeCoordinator                  reasons and reconciliation
    AutomaticProtection            policy
      AutomaticDownload            detector
    ManualSession                  session and scheduler thread
      KeepAwake                    all of them, tray commands, shutdown
        ProductViews               under a tray, or a report, that samples it
          KeepAwakeProofs          about both
ProtectionContract                 what KeepAwake implements

WindowsInhibitor, MacOsInhibitor   implement SleepInhibitor
PowerSource                        what gives the policy its source
LaunchAtLogin
Diagnostics                        reports, and the clipboard
TrayMenu                           the native menu, row by row
  NativeAdapters                   these six, one per behaviour
    MCNativeAdapters               with views of the product for the menu
    NativeAdaptersProofs           about each of them

AutomaticDownload
  DetectorReference                against a definition over the history
    DetectorReferenceProofs
  NetworkDetection                 with NetworkActivity, which feeds it
    NetworkDetectionProofs

Updater
  ProcessExit                      with the exit of the process around it
    ProcessExitProofs

SettingsContract                   what SettingsStore implements
SettingsStore
  SettingsStoreProofs

Lifecycle                          for any plan
  ProductLifecycle                 with the plan of the product
    TrayPresentation               with the main thread and the tray's worker
      LifecycleProofs

LocalLog
  LocalLogProofs
```

Each module's head says which file it models. Actions carry the names of the
functions they stand for; a few correspondences are worth spelling out.

**Steps.** Locks are nested in one order (monitor, controller, coordinator;
session, coordinator; settings service, then nothing), and each operation keeps
its outermost lock until the native call has returned. Such an operation is
one step with a parameter `ok` for what the native call returned. Where the
code lets go of every lock in the middle, the model has several steps:

- a tray command is admitted (`tray.rs:190-220`), and then runs;
- a toggle or a change of tuning is read, saved, and applied
  (`KeepAwake`: `ReadToggle`/`ReadTuning`, `PersistUpdate`, `ApplyUpdate`);
- the scheduler finds a deadline due, drops the mutex, and takes it again in
  `expire_due` (`ManualSession`: state "Expiring");
- shutdown is one step per participant, with the join of the scheduler apart;
- the network worker reads, delivers one event after the other, and waits;
- an update of the settings is one step per file operation;
- `request_install` reads the status and claims the operation after that;
- `finish` is one step per lock, join and stop, on either of its two threads.

**KeepAwake.** `persisted` is what the settings service acknowledged;
`SettingsStore` has the files. `powerLeaked` says that the observer could not
be unregistered: on macOS the subscription refuses to be removed off the
thread that made it, on Windows unregistration may fail or a callback may still
be running. Such an observer goes on publishing after shutdown, and the model
lets it. A failing start of a required participant is `Lifecycle`'s.

**ProtectionContract** says what the product promises with three variables:
what is wanted (read off the owners of the wish, not off the coordinator),
whether the system is held awake, and whether the product has closed. A native
call may fail, so `held` may lag; it never moves the wrong way.

**Updater.** `claimed` is the operation flag. A compare-and-swap that is given
back within the same function (not due) is one step. The cadence, over the wall
clock and a saved timestamp, is its three outcomes: not due, cannot be saved,
due. `nativeExit` is the platform; it is chosen once. `finish` of an installed
update cannot fail in the code, so a restart is always requested.

**ProcessExit.** `exitEvents` are the requests to exit that the event loop has
yet to handle, of two kinds. One by Quit, or by the tray's worker, may be
prevented, and the handler does so while the worker runs. One by
`request_restart` may not (external: tauri ignores `prevent_exit` for the code
of a restart): the handler still tells the worker to stop, but when it returns
the process is gone.

**Lifecycle.** `running` are the participants that may have something running.
One that fails to stop stays among them, and on record in `cleanupFailures`,
although its owner has let go of it: a refused unregistration or release leaves
the observer, or the request, behind. What that does to the rest of the product
is `KeepAwake`'s (`powerLeaked`, releases that fail).

**SettingsStore.** The directory is a primary, a backup and a quarantine in
name order. `survivors` is what power loss may leave: the directory as of some
moment since it was last synchronised. The settings are one value. An
unreadable file is a kind of document; temporary files, warnings about
leftovers and the log are left out. `syncsSeparately` is the platform.

**SettingsContract** is a register with two more values: what the next start
may come up with, and what it would fall back on if the document were damaged.
The refinement mapping takes `possible` and `fallback` from what loading makes
of every directory in `survivors`, as it is and without its primary. Documents
of a later version, and directories from which no settings can be loaded, are
outside the register; `FutureDocumentsBlock` speaks of the former.

**PowerSource.** Publishing is two steps, since the snapshot's mutex is dropped
before the policy is called (`power_source/mod.rs:112-155`); `toPolicy` holds
what a thread has recorded and not yet handed over. `reachable` is the token in
the registry on Windows and the context in memory on macOS; `native` says that
the system goes on calling. `KeepAwake.PowerEvent` is both steps at once, which
is what the policy sees. The model assumes that Windows delivers the
notifications of one registration one at a time.

**TrayPresentation.** A view is abstracted to the primary line, whether
commands are enabled, and what the services show. The status is sampled before
the services (`tray.rs:180-188`), and both may change in between. Rendering is
carried out by the event loop, so it needs the main thread to be idle; a menu
that is built anew is given up when that fails, one that is updated in place is
left torn. Startup, its rollback and shutdown are `Lifecycle`'s steps in the
order in which `main.rs` runs them. `unseen` is a history variable.

**ProductViews** puts a view together as `TrayApplication::view` and
`TrayProduct::input` do, one snapshot per step, with all of `KeepAwake` going on
in between; the facts of a report are captured in the same way. One sampler
stands for the worker and for the thread that runs commands. What is sampled of
other services is only passed on, and left out.

**TrayMenu** has the menu as a function from the names of its rows to the rows,
and `Rows` says which names there are, in the order in which an update comes by
them. Each row says which of its fields an update in place writes, and which are
read back after it. Whether a menu is built anew is decided by `MenuStructure`,
as in the code. A new menu is
one step, since nothing of it is shown before `set_menu`; an update is one step
per row, which may stop at any field. Of each list of presets two stand for all,
and separators are left out. That a click flips a check before the program
learns of it is an external assumption. That the application may be running and
the product not yet be active is `TrayPresentation`'s subject.

**Diagnostics** has a report as the lengths of its lines, with a limit that
counts the marker of truncation. On Windows each call on the clipboard is a
step with the block of memory it was given; on macOS another process may write
between clearing and writing.

**LocalLog** has a file as a sequence of numbered lines. `record` lets go of the
lock after a failure and takes it again to disable the log, so another thread
may write in between with a length that is no longer right. A write that fails,
or is cut off by the end of the process, leaves none, a part or all of its line.
A writer whose file has been rotated away (`handle = Nowhere`) writes where
nothing is kept, and `record` succeeds; no older line is kept then either. Lines
are no longer than `LongestLine`, which is at most the size of a file
(`MAX_FILE_SIZE` is 1 MiB). Of the archives that an earlier version may have left
beyond the count, one stands for all.
Only one process runs, by the single-instance plugin (external). The log never
asks the system to write through, so what a loss of power takes is not
modelled. `Path::exists` is taken to be right.

**LaunchAtLogin.** The registration is external: it may fail, or report success
and do nothing, and the user may change it. An update of the preference is
saved or refused, and settings may be unavailable, with defaults in their place.

## 3. The runs

All bounds are constants in the `.cfg` files. `CHECK_DEADLOCK FALSE` stands
where a process that has stopped, or a bound that has been reached, ends the
behaviour.

| Run | What it asks | Bounds, and why they are enough | States |
|---|---|---|---|
| `keep_awake` | Safety of the composed product, what makes up for failures, and its refinement of the contract | Durations 1 and 2 on a clock to 2: a session can be due, extended while due, replaced by a longer or a shorter one, and expire at any of three instants. Graces 0 and 1 are two tunings. Every tray command | 1.43 M |
| `keep_awake_liveness` | Expiry and shutdown under fairness | One duration on a clock to 2, manual commands only: no property here depends on which setting was changed | 98 k |
| `product_views` | A view that does not warn is true of the machine, and a warning has a cause | One duration, grace and threshold: a view says of a session and of the detector no more than that they are there. Five snapshots, with any number of steps of any thread between two | 1.63 M |
| `native_adapters` | Both inhibitors, the power observer, the registration at login, the clipboard and the native menu, against calls that fail and whatever the system and the user do meanwhile; that each inhibitor is a `SleepInhibitor` | 30 requests; an adapter's own state repeats after two. Up to four lines of one to three bytes against a limit of seven, the marker two: lines that fit, fit without the marker only, and do not fit. 17 views, in which each part that a menu is built anew for varies by itself, and two clicks or failures: a click or a failure, and a second one while the first is dealt with. The rest is finite | 418 k |
| `detector_reference` | The phase is what a definition over the whole history calls for | Six samples of rates 0-2 over spans 1-2, qualification 3, grace 0 or 3: long enough to qualify, go quiet, resume and lapse | 1.26 M |
| `network_detection` | Samples, and what the detector keeps after a loss | Two external interfaces and the loopback, counters 0-1 (a sum of two overflows), gaps 0-2 with 1 trusted | 10.6 k |
| `process_exit` | One operation at a time, consent, offer and schedule of the updater; no end in the middle of cleanup, order, and that exits complete | Two versions (an offer can be replaced by another), two queued commands besides those the claim admits, one Quit beside the exits the updater and the worker ask for; the handler runs again for a deferred exit; a restart at any point of a quit | 636 k |
| `settings_store` | What survives failures, restarts and power loss, and what a refusal changes: that the store is the register of `SettingsContract` | Two values, two corruptions of the primary, three files in quarantine (one over the retention of two), any number of updates and restarts | 1.68 M |
| `tray_presentation` | Order and completeness of start and stop, with stops that fail, under the tray that shows them; which refreshes are seen; that the menu comes to show the product | The product's plan of seven participants, any subset failing either way; services with two structures, one of them with two contents | 619 k |
| `local_log` | Lines in order, files bounded | Three threads (one rotates, one records with the failed writer, one fails in turn), two archives, files of two bytes and lines of one or two, six lines: more than the files hold | 741 k |

Two runs show where the code departs from what is said of it:

- `network_topology`: `docs/automatic-detection.md:75` has a change of the
  interface topology clear qualification, grace and intent. The code lets a
  new, vanished or reset interface contribute nothing and goes on with the
  sample (`network_activity/mod.rs:724-792`); the detector stays as it was.
  The run's qualification is longer than any trusted interval, so the sample
  that comes with the change cannot account for the intent.
- `updater_schedule`: switching automatic checks off and on again is to resume
  them (`updater/tests.rs:395`). If an install request holds the claim when
  they are switched on, the timer is not armed (`updater.rs:617-623`), and an
  install request that finds nothing pending gives the claim back without
  arming it (`updater.rs:579-584`). Checks stay enabled and are not made until
  the next manual one. `ScheduleIsKept`, in `process_exit`, is the part that
  does hold: an armed timer is never given up while it is wanted.

### What the passing properties leave open

Some properties name the one case in which the code does not do better, so
that everything else is still checked:

- `EndsCleanedUp` excepts `RestartOvertakesCleanup`. After an update on macOS the
  adapter calls `request_restart` (`updater/tauri_adapter.rs:241`), and the
  handler answers as it does to Quit: while the presentation worker runs, it
  prevents the exit and leaves `finish` to the exit that the worker asks for
  (`main.rs:354-363`). tauri does not let the exit of a restart be prevented, so
  the process is replaced before that, with the product told to stop accepting
  and nothing stopped: no ordered shutdown as in `docs/architecture.md:107`. TLC
  reaches this state whenever a restart is handled with the worker alive, which
  is the usual case; without the exception the property is violated. What the
  property does show is that there is nothing in between: no end of the process
  interrupts a cleanup that has begun. It rests on the external assumption
  about tauri named above.
- `ExitCompletes` excepts `PresentationDeadlock`. On Windows the installer's
  hook joins the presentation worker with the presentation lock held
  (`main.rs:444-453`). If the worker is in the middle of a menu operation, it
  waits for the event loop, and if that has just begun to handle an exit it
  waits for the lock (`main.rs:429-435`). TLC reaches this state. It rests on
  the external assumption that a menu operation waits for the event loop.
- `SettingsContract.Land` lets a value that is then refused be what the next
  start finds. On macOS the rename may have happened when the synchronisation
  after it fails (`settings.rs:466-472`): the live settings are the old ones, and
  a restart brings the new ones. Where a file is replaced with a write-through,
  `atomic` is true and this cannot be.
- `SourceIsPreserved` is checked with `ClockStepsBack = FALSE`. Quarantined
  files are named by the wall clock and pruned in the order of their names
  (`settings.rs:726-752`). With the clock set back, the newest is pruned first
  and the invariant fails; set the constant to see it.
- `FutureDocumentsBlock` speaks of documents that stand in the way. A backup of
  a later version beside a readable primary does not, and the next update
  overwrites it (`settings.rs:393-412`).
- `ProtectionContract` lets protection lag for ever when a native release
  fails as a manual session is stopped: the reason is gone, and nothing calls
  the coordinator again until another reason comes or goes
  (`manual_session.rs:295-305`). Automatic failures are made up for, but only
  when there is an occasion: `FailureIsMadeUpFor` speaks of the next event,
  setting, power source or step of shutdown whose native call succeeds. That
  there will be one is not claimed. While the counters cannot be read, the
  worker delivers no event (`network_activity/mod.rs:251-252`), and a failed
  release stands until they can.
- `CapabilitiesAreNested` says of a participant that failed to stop no more than
  that it is on record; it may run on without what it was started after.
- `PolicyFollowsObserver` excepts a shutdown that overlaps a notification: the
  two publish to the snapshot in one order and may reach the policy in the
  other (`power_source/mod.rs:136`, `:153`), which leaves the policy on a source
  the observer shows as unknown. The policy is shut down right after, so
  nothing comes of it in the product.
- `LateNotificationsAreIgnored` speaks of Windows. On macOS a shutdown off the
  owner thread leaves the source registered and its context alive
  (`power_source/macos.rs:200`), and notifications go on publishing.
- `CalmViewsAreTrue` speaks of the moment a view is complete. The menu shows it
  for up to an interval more.
- `WarningsHaveCause` counts `backgroundFailure` as one. It is set when an expiry
  could not release, and stays until a command of the session succeeds, also
  after the coordinator has recovered through another reason.
- `MenuIsWhatItIsTakenFor` excepts the time until a click has been handled, and
  the menu of an application that has begun to stop since.
- `LinesStayInOrder` speaks of whole lines. After a fragment that a failure or
  the end of the process has left, the next line begins in the middle of a line.
  Timestamps are taken before the lock, so theirs need not be the order of lines.
- `FilesStayBounded` lets a file exceed its maximum by one line for each thread
  but one that was in the middle of `record` when another failed
  (`local_log.rs`, `record`).
- `NoReasonOutlivesShutdown` holds although the coordinator has no flag that
  closes it: the session and the policy are what refuse.

### Fairness

`KeepAwake.Fairness`: threads that can run do (weak fairness of the scheduler,
of the tray command in flight, of shutdown, of the clock). No event is assumed
to come: the network worker samples for ever, but delivers nothing while its
counters cannot be read. Nor is any native call assumed to succeed. Nothing is
assumed of the user or of a spurious wake-up.

`ProcessExit.Fairness`: weak for each thread, and for the worker's network
and installer calls, which end. `SF(StopTray)`: the presentation worker takes
a stop command out of its queue although there may always be something to
render. The user owes nothing.

`TrayPresentation.FairPresentationSpec`: weak for the main thread, whose
functions return, and for the worker, whose receive times out; strong for
rendering: each attempt may fail, not all of them. No fairness is needed of
startup's outcome, or of the services.

## 4. The proofs

`KeepAwakeProofs` proves, for every set of durations, thresholds, graces and
rates and every bound on the clock:

- `TypeCorrectness`, `ReasonsAreRequests`, `FailuresAreRecorded`,
  `SettingsAreLive`, `SchedulerWakesInTime`, `ShutdownIsFinal` (invariants);
- `SessionsAreNotCutShort`, `AddedTimeIsKept`, `FailuresAreMadeUpFor` (action
  properties);
- `CoreImplementsContract`: `Spec => Contract!Spec`.

They follow from one inductive invariant, `KeepAwake.InductiveInvariant`. The
invariants of interest are not inductive by themselves:

- `AutomaticReasonIsDesired` and `ManualReasonIsIntended` tie each reason to
  its owner. Without them, what the coordinator holds says nothing about what
  is wanted, and the refinement could not be shown.
- `IntentIsQualified` ties the policy's intent to the detector's phase, since a
  step of the detector overwrites one from the other.
- `ShutdownProgress` says which owner has let go by which stage of shutdown:
  `NoReasonOutlivesShutdown` only speaks of the last stage, and an observer may
  publish after it.
- `CommandKnowsSettings` says that the settings a command in flight is about
  to save are the live ones with one field changed; `SavedSettingsAreLive`
  only speaks of the time between commands.
- `SchedulerWaitsForTheDeadline` is inductive beside `TypeOK`.

The proof has one lemma per group of actions and, in it, one step per conjunct
that the action can disturb. The assumptions used are the named ones of the
modules (`DetectorAssumption`, `SessionAssumption`, `TrayAssumption`).

`NativeAdaptersProofs` is about the six modules that run beside each other in
`NativeAdapters`. Each is proved about by itself; `EachIsItself` then says that a
behaviour of `AdaptersSpec` is one of every component, and the theorems are
stated of `AdaptersSpec`, which is what the run checks.

- *Inhibitors.* Their invariants hold for any number of requests, and from them
  each call implements the call of `SleepInhibitor` with the same result
  (`AdapterImplementsInhibitor`, `MacOsAdapterImplementsInhibitor`). This is what
  allows `KeepAwake` to be built on `SleepInhibitor` alone.
- *Power source.* `PolicyActsOnWhatIsShown`, `ContextsOutliveSources` and
  `LateNotificationsChangeNothing`. The module has no parameters, so the proofs'
  worth is in the argument: an invariant about the stages of the runtime (what
  is registered and reachable at each) carries all three.
- *Launch at login.* `LoginWarningsCanBeTrusted`. `LoginInv` adds that an
  operation only runs with settings that could be loaded, without which its end
  would say nothing of the preference.
- *Clipboard.* `ClipboardComesBack`, for every limit, marker and set of line
  lengths. `CopyInv` says who owns the block of memory at each step. That a
  report keeps to its limit is about a fold over its lines, and needs more than
  the limit itself: however far it has come, the text leaves room for the marker
  (`Fits`).
- *Menu.* `MenuShowsItsView`, for any views and any number of clicks and
  failures. What has to be shown is that writing row by row ends in the menu
  that building anew would give, from whatever an update that stopped half-way,
  and a click, have left. `MenuInv` says that the menu always has the rows of
  `renderedFor`'s structure, each of which differs from what building would give
  in written fields only (`RowsKept`), and that the rows an update has come by
  are right (`WrittenSoFar`). It is kept because views with one structure have
  the same rows, equal but for what an update writes
  (`SameStructureSameButWritten`), which is what `MenuStructure` is for. Of a
  view it is only assumed that its session is of one of the three kinds
  (`ViewAssumption`).

`KeepAwakeProofs` goes on to `CalmViewsAreTrue` (`CalmViewsCanBeTrusted`) of
`ProductViews`: the inductive invariant of the product holds while it is
sampled, and a complete sample holds the coordinator's present state, because
that is taken last. Whatever the other snapshots missed then shows as a
difference between what is desired and what is held, and so as a warning.
`WarningsHaveCause` (`WarningsAreCaused`) rests on the same invariant: between
the owners' wishes and the reasons there is never a difference to warn of.

`LifecycleProofs` proves `CapabilitiesAreNested` for every plan. The invariant
says that what may run is on the stack or on record as a failure of cleanup,
that the stack is in the order of the plan, and that a startup in progress has
come by every participant before the next one. It also proves
`RefreshesAreNotLost` (the flag is set only while a refresh is in the queue or
is about to be, and a stop is received before nothing that mattered), and that
the main thread drives the lifecycle by the lifecycle's own
steps (`TrayDrivesLifecycle`), so that the first theorem holds under the tray.

`SettingsStoreProofs` proves the refinement of the register
(`StoreImplementsRegister`) and `FutureDocumentsBlock`, for any values, bounds,
and a wall clock that may be set back. The invariant is about the primary and
the backup of the directory and of every survivor: if the primary is of no use,
the live settings came from the backup; and whenever the primary is about to
be replaced, the backup holds the live settings. What only touches the
quarantine changes nothing of what a start would find. `SourceIsPreserved`
(`SourcesArePreserved`) is proved from `~ClockStepsBack`, and is about the
quarantine: a document that has to be preserved is still the primary, what may
be replaced is among the files, and a copy of it is the last of these, which
pruning spares.

`ProcessExitProofs` proves all safety of `process_exit`, for any versions and
any number of commands and quits. Of the updater: the operation in progress is
with one command, the open dialog or the worker, and while it is with one of
them nothing else changes the pending update; therefore an answer that does not
name an update is about the one that was asked about. Of the exit: one thread
cleans up, and where it is tells what has stopped; nothing is stopped before
one does, which is what a restart that overtakes cleanup leaves; and a restart
reaches the event loop on macOS only. The two halves of the
invariant are kept independently but for one fact, that a worker which has
ended, or is in the installer's hook, stays there.

`DetectorReferenceProofs` proves `PhaseMatchesHistory`
(`DetectorPhaseMatchesHistory`) for sequences of any length, rates and spans.
The definition over the history speaks of stretches of samples, the detector
adds up one duration; the two meet in lemmas that say what one more sample does
to the latest stretch, which it lengthens (`LongerStretch`) or ends
(`BrokenStretch`), and to what had qualified before (`QualifiedNext`).
`PhaseMatchesHistory` is inductive beside the types, once the ends of samples
are known to be in order.

`NetworkDetectionProofs` proves `SamplesAreReceived` and
`LostContinuityIsForgotten` for any finite set of interfaces and any largest
counter. `NetworkInv` says that the reading the normaliser compares with agrees
with the counters until they move on (`BaselineIsCurrent`), and that,
until the detector has forgotten, the event that makes it forget is on its way
and no sample is (`LossIsOnItsWay`). That the sum of the deltas over some
interfaces is at most what all of them received is `SumMonotone`.

`LocalLogProofs` proves `LinesStayInOrder` and `FilesStayBounded` for any number
of threads, archives and lines of any size. `LinesStayInOrder` is not inductive:
a rotation that was cut short leaves gaps among the archives, and the file a
failed writer has open may have moved. `LogInv` says where each is: the handle
is on the newest file there is, or there is none (`WriterIsOnNewest`), the place
a rename goes to is free (`RotationHasRoom`), and the file is longer than the
writer takes it to be by at
most a line for each thread that has failed and has not disabled the log yet
(`LengthIsTrusted`), which gives the bound.

Sums and reports are recursive definitions (folds), and an induction theorem
with an operator as its parameter cannot be used. Where a proof needs induction
over data, it takes the least counterexample instead: a set of numbers for which
the claim fails would have a least member (`LeastOfNaturals`, from the
well-foundedness of `<`), and the fold is taken apart by one step there.

Only model-checked: liveness (`FiniteSessionsEnd`, `ShutdownCompletes`,
`ExitCompletes`, `MenuCatchesUp`), which needs fairness and ENABLED.
Every other property of the passing runs is a theorem.

## 5. What is not modelled

- What a line of the log, a line of a report and a row of the menu say.
- Building the product's objects and the application, and the surface that is
  shown when startup fails.
- The reset of the network source that only tests call.
- Arithmetic on durations and byte counts beyond what the models have: the
  average a sample is classified by is its rate, an overflowing sum loses
  continuity, a deadline past the last instant is refused.
- Build, packaging and release.

## 6. Plan

Done, in this order: the keep-awake core with its contract and proofs, the
adapters with their proofs, the detector's reference and the network source,
the updater and the exit, the settings, the lifecycle, launch at login, the
power source with its proofs, the tray's presentation; then the settings as a
register, the views of the product, diagnostics, the local log, the native
menu, and the proofs of `Lifecycle`, `SettingsStore`, `ProcessExit`,
`TrayPresentation` and `ProductViews`; then those of `DetectorReference`,
`NetworkDetection`, `LocalLog` and all of `NativeAdapters`.

Next:

1. Composing the coordinator with the adapters in one run, the power source with
   the policy, and `LaunchAtLogin` with the settings it reads.
2. Proofs of safety that liveness rests on, beyond `SchedulerWakesInTime` and
   `ScheduleIsNeverLost`: the cycle of waits that `ExitCompletes` excepts is the
   only one, and a rendering that failed is remembered until one succeeds.
