---------------------------- MODULE LaunchAtLogin ----------------------------
(***************************************************************************)
(* Launch at login (src-tauri/src/launch_at_login.rs): the saved preference *)
(* is the authority, the operating system's registration follows it when   *)
(* the process starts and when the preference is toggled.                  *)
(*                                                                         *)
(* An operation holds the service's mutex to its end, so no two overlap,   *)
(* but it calls the system several times: the process may end between any  *)
(* two calls, and the user may change the registration behind its back.    *)
(*                                                                         *)
(* External: the adapter (tauri_plugin_autostart).  Each call may fail,    *)
(* and one that sets the registration may leave it as it was whatever it   *)
(* returns; that is why the service looks again.  The settings are either  *)
(* readable and writable, or unavailable and their defaults in use;        *)
(* SettingsStore models how an update is saved.                            *)
(***************************************************************************)
EXTENDS Naturals

VARIABLES
  saved,       \* the preference on the disk
  writable,    \* the settings could be loaded, and updates be saved
  available,   \* the adapter was registered
  registered,  \* external: what the operating system does at login
  stage,       \* where the process and its operation are
  applyFailed, \* the call that sets the registration failed
  observed,    \* the registration as last observed
  failure,     \* the latest failure
  touched      \* history: the user changed the registration since then

vars == <<saved, writable, available, registered, stage, applyFailed, observed,
          failure, touched>>

Registration == {"Enabled", "Disabled", "Unknown"}
Failure == {"None", "Initialize", "Enable", "Disable", "Verify"}

Observation(enabled) == IF enabled THEN "Enabled" ELSE "Disabled"

(* The preference is on unless the settings say otherwise.                 *)
Desired == IF writable THEN saved ELSE TRUE

Init ==
  /\ saved \in BOOLEAN
  /\ writable = TRUE
  /\ available = TRUE
  /\ registered \in BOOLEAN
  /\ stage = "Down"
  /\ applyFailed = FALSE
  /\ observed = "Unknown"
  /\ failure = "None"
  /\ touched = FALSE

-----------------------------------------------------------------------------

Record(what, why) ==
  /\ observed' = what
  /\ failure' = why
  /\ stage' = "Idle"

(* Mutant: a default that was never saved is reconciled as well.           *)
Reconcile_Unguarded ==
  /\ stage = "Down"
  /\ writable' \in BOOLEAN
  /\ available' \in BOOLEAN
  /\ IF available'
     THEN stage' = "Observe" /\ observed' = "Unknown" /\ failure' = "None"
     ELSE Record("Unknown", "Initialize")
  /\ UNCHANGED <<saved, registered, applyFailed, touched>>

(* The process starts, with whatever settings it can load.                 *)
Reconcile ==
  /\ stage = "Down"
  /\ writable' \in BOOLEAN
  /\ available' \in BOOLEAN
  /\ CASE ~available' -> Record("Unknown", "Initialize")
       [] available' /\ ~writable' -> Record("Unknown", "Verify")
       [] OTHER -> stage' = "Observe" /\ observed' = "Unknown" /\ failure' = "None"
  /\ UNCHANGED <<saved, registered, applyFailed, touched>>

(* Nothing is set when the registration is known to be what is desired.    *)
Inspect ==
  /\ stage = "Observe"
  /\ \/ /\ registered = Desired
        /\ Record(Observation(registered), "None")
        /\ touched' = FALSE
     \/ /\ stage' = "Apply"
        /\ UNCHANGED <<observed, failure, touched>>
  /\ UNCHANGED <<saved, writable, available, registered, applyFailed>>

(* The preference is saved first; a refused update ends the operation.     *)
Toggle ==
  /\ stage = "Idle"
  /\ available
  /\ writable
  /\ saved' = ~saved
  /\ stage' = "Apply"
  /\ UNCHANGED <<writable, available, registered, applyFailed, observed, failure,
                 touched>>

(* set_enabled returns.                                                    *)
Apply ==
  /\ stage = "Apply"
  /\ registered' \in {registered, Desired}
  /\ applyFailed' \in BOOLEAN
  /\ stage' = "Verify"
  /\ UNCHANGED <<saved, writable, available, observed, failure, touched>>

(* The registration is observed, or cannot be.  A failure to set it is     *)
(* reported before anything the observation shows.                         *)
Verify ==
  /\ stage = "Verify"
  /\ LET refused == IF Desired THEN "Enable" ELSE "Disable"
     IN  \/ /\ Record(Observation(registered),
                      CASE applyFailed -> refused
                        [] ~applyFailed /\ registered # Desired -> "Verify"
                        [] OTHER -> "None")
            /\ touched' = FALSE
         \/ /\ Record("Unknown", IF applyFailed THEN refused ELSE "Verify")
            /\ UNCHANGED touched
  /\ UNCHANGED <<saved, writable, available, registered, applyFailed>>

(* The process may end at any time.                                        *)
ProcessEnds ==
  /\ stage # "Down"
  /\ stage' = "Down"
  /\ UNCHANGED <<saved, writable, available, registered, applyFailed, observed,
                 failure, touched>>

(* The user changes the registration in the system's own settings.         *)
UserRegisters ==
  /\ registered' = ~registered
  /\ touched' = TRUE
  /\ UNCHANGED <<saved, writable, available, stage, applyFailed, observed, failure>>

Next ==
  \/ Reconcile
  \/ Inspect
  \/ Toggle
  \/ Apply
  \/ Verify
  \/ ProcessEnds
  \/ UserRegisters

Spec == Init /\ [][Next]_vars

-----------------------------------------------------------------------------
(* Properties.                                                             *)

(* The tray's warning (tray.rs, launch_at_login_warning): given for every  *)
(* failure, and for an observation that is not what is desired.            *)
Warned ==
  \/ ~available
  \/ failure # "None"
  \/ observed # Observation(Desired)

(* A tray that does not warn of launch at login can be trusted: the service*)
(* has seen the system do what the saved preference says, and nothing but  *)
(* the user can have changed that since.  A call that silently did nothing,*)
(* a toggle cut short by the end of the process and defaults put in place  *)
(* of unreadable settings all show (launch_at_login/tests.rs,              *)
(* "startup_does_not_apply_an_unpersistable_default_preference").          *)
NoWarningMeansAgreement ==
  stage = "Idle" /\ ~Warned /\ ~touched => registered = saved

=============================================================================
