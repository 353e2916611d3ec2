--------------------------- MODULE NativeAdapters ---------------------------
(***************************************************************************)
(* The adapters between the product and the system it runs on: the sleep   *)
(* inhibitor over Windows power requests, the one over macOS power         *)
(* assertions (IdleSleepInhibitor::new, src-tauri/src/sleep_inhibitor/     *)
(* mod.rs), the power source observer of both, the registration that       *)
(* launches the product at login, the clipboard that diagnostics are copied*)
(* to, and the native menu of the tray.  They share no state: a behaviour  *)
(* exercises one of them.                                                  *)
(***************************************************************************)
EXTENDS WindowsInhibitor

VARIABLES
  exercised,    \* which adapter this behaviour is about
  assertionId,  \* the macOS inhibitor ...
  macDropped,
  macCreated,   \* ... and the system below it
  honoured,
  platform,     \* the power source observer
  snapshot,
  policyPower,
  toPolicy,
  stage,
  reachable,
  registered,   \* the system below it
  notification,
  saved,        \* launch at login ...
  writable,
  available,
  loginStage,
  applyFailed,
  observed,
  failure,
  touched,
  login,        \* ... and what the system does at login
  onWindows,    \* diagnostics ...
  accepting,
  logs,
  copyStage,
  result,
  report,
  opener,       \* ... and the clipboard
  contents,
  memory,
  replaced,
  phase,        \* the tray's menu
  menu,
  renderedFor,
  lastView,
  worker,
  target,
  position,
  refreshPending,
  clicked,
  mishaps

macVars == <<assertionId, macDropped, macCreated, honoured>>
powerVars == <<platform, snapshot, policyPower, toPolicy, stage, reachable,
               registered, notification>>
loginVars == <<saved, writable, available, loginStage, applyFailed, observed,
               failure, touched, login>>
copyVars == <<onWindows, accepting, logs, copyStage, result, report, opener,
              contents, memory, replaced>>

menuVars == <<phase, menu, renderedFor, lastView, worker, target, position,
              refreshPending, clicked, mishaps>>

CONSTANTS
  ReportLimit, MarkerBytes, LineBytes, MaxLines,  \* see Diagnostics
  MenuViews, MaxMishaps                           \* see TrayMenu

(* A report has room for the marker that says it was cut short             *)
(* (MAX_DIAGNOSTIC_BYTES and OMITTED_MARKER, diagnostics/report.rs).       *)
ASSUME ReportAssumption ==
  /\ ReportLimit \in Nat
  /\ MarkerBytes \in 0 .. ReportLimit
  /\ LineBytes \subseteq Nat
  /\ MaxLines \in Nat

(* A session is of one of three kinds (KeepAwakeView, tray.rs); of the rest*)
(* of a view, anything will do.                                            *)
ASSUME ViewAssumption ==
  \A view \in MenuViews :
    view.session \in {"Inactive", "Finite", "UntilDisabled"}

-----------------------------------------------------------------------------

MacOs == INSTANCE MacOsInhibitor WITH
  MaxAssertions <- MaxRequests, dropped <- macDropped, created <- macCreated

Power == INSTANCE PowerSource WITH native <- registered

Login == INSTANCE LaunchAtLogin WITH stage <- loginStage, registered <- login

Copying == INSTANCE Diagnostics WITH stage <- copyStage

Tray == INSTANCE TrayMenu WITH Views <- MenuViews

(* What is not exercised stays as it is, so one initial state will do.     *)
AdaptersInit ==
  /\ exercised \in {"WindowsInhibitor", "MacOsInhibitor", "PowerSource",
                    "LaunchAtLogin", "Diagnostics", "TrayMenu"}
  /\ Init
  /\ MacOs!Init
  /\ Power!Init
  /\ Login!Init
  /\ Copying!Init
  /\ Tray!Init
  /\ exercised # "PowerSource" => platform = "Windows"
  /\ exercised # "LaunchAtLogin" => saved /\ login
  /\ exercised # "Diagnostics" => onWindows /\ logs

AdaptersNext ==
  \/ /\ exercised = "WindowsInhibitor"
     /\ Next
     /\ UNCHANGED <<exercised, macVars, powerVars, loginVars, copyVars, menuVars>>
  \/ /\ exercised = "MacOsInhibitor"
     /\ MacOs!Next
     /\ UNCHANGED <<exercised, vars, powerVars, loginVars, copyVars, menuVars>>
  \/ /\ exercised = "PowerSource"
     /\ Power!Next
     /\ UNCHANGED <<exercised, vars, macVars, loginVars, copyVars, menuVars>>
  \/ /\ exercised = "LaunchAtLogin"
     /\ Login!Next
     /\ UNCHANGED <<exercised, vars, macVars, powerVars, copyVars, menuVars>>
  \/ /\ exercised = "Diagnostics"
     /\ Copying!Next
     /\ UNCHANGED <<exercised, vars, macVars, powerVars, loginVars, menuVars>>
  \/ /\ exercised = "TrayMenu"
     /\ Tray!Next
     /\ UNCHANGED <<exercised, vars, macVars, powerVars, loginVars, copyVars>>

AdaptersSpec ==
  /\ AdaptersInit
  /\ [][AdaptersNext]_<<exercised, vars, macVars, powerVars, loginVars, copyVars,
                       menuVars>>

-----------------------------------------------------------------------------
(* Judged by whether the machine is kept awake, every call on the macOS    *)
(* adapter with every result does what the coordinator takes it to have    *)
(* done.                                                                   *)
MacOsImplementsInhibitor == MacOs!ImplementsInhibitor

(* Outside publications the policy acts on the source the observer shows,  *)
(* but for a shutdown that overlaps a notification (power_source/mod.rs).  *)
PolicyFollowsObserver == Power!PolicyFollowsObserver

(* A tray that does not warn of launch at login can be trusted             *)
(* (launch_at_login.rs, tray.rs).                                          *)
NoWarningMeansAgreement == Login!NoWarningMeansAgreement

(* Copying diagnostics leaves the clipboard closed, its memory owned once, *)
(* and the report on it, within its limit, if that is what the tray is told*)
(* (clipboard.rs, diagnostics/report.rs).                                  *)
ClipboardIsGivenBack == Copying!ClipboardIsGivenBack

(* The native menu shows what the tray takes it to show (tray_host.rs).    *)
MenuIsWhatItIsTakenFor == Tray!MenuIsWhatItIsTakenFor

(* Notifications after shutdown are no-ops, even when unregistering failed *)
(* (power_source/windows.rs).                                              *)
LateNotificationsAreIgnored == Power!LateNotificationsAreIgnored

=============================================================================
