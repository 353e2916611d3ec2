------------------------------ MODULE TrayMenu ------------------------------
(***************************************************************************)
(* The native menu of the tray: its rows (src-tauri/src/tray_host/         *)
(* menu_layout.rs, manual_menu.rs, settings_menu.rs) and how they are      *)
(* brought to a view of the product (tray_host.rs, NativeRenderer).  A view*)
(* with the structure of the one before is written into the rows there are,*)
(* one native call after the other; for any other a menu is built anew.    *)
(*                                                                         *)
(* Which view is sampled when is TrayPresentation's: here any view that    *)
(* fits the application's status may be.  Separators are left out, and of  *)
(* each list of presets two stand for all.                                 *)
(*                                                                         *)
(* External: the native menu.  Each of its calls may fail, and a click on a*)
(* row with a check flips the check before the program learns of it.       *)
(***************************************************************************)
EXTENDS Naturals, SequencesExt

CONSTANTS
  Views,       \* the views that may be sampled, one of them at startup
  MaxMishaps   \* bound: clicks and failures

VARIABLES
  phase,           \* the application's status: "Starting", "Running", "Ended"
  menu,            \* external: the rows of the native menu, by their names
  renderedFor,     \* NativeRenderer's view
  lastView,        \* the worker's last_view, unless rendering failed since
  worker,          \* what the worker is doing
  target,          \* the view it renders
  position,        \* the row it writes next
  refreshPending,  \* a refresh is in the worker's queue
  clicked,         \* a click that is still to be handled
  mishaps          \* clicks and failures so far

vars == <<phase, menu, renderedFor, lastView, worker, target, position,
          refreshPending, clicked, mishaps>>

-----------------------------------------------------------------------------
(* Rows, by their names.  `written` is what an update in place writes of a *)
(* row, `verified` what is read back after it; an optional text is a       *)
(* sequence.                                                               *)

Row(text, enabled, checked, written, verified) ==
  [text |-> text, enabled |-> enabled, checked |-> checked,
   written |-> written, verified |-> verified]

Status(text) == Row(text, FALSE, FALSE, {"text"}, {})

Enabled(view) == view.phase = "Running"

(* The name of a row that is only there when it has something to say.      *)
Optional(name, texts) == IF texts = <<>> THEN <<>> ELSE <<name>>

(* MenuLayout::from: what a menu consists of at its top.                   *)
TopLevel(view) ==
  <<"status.primary">>
  \o Optional("status.detail", view.detail)
  \o Optional("status.warning", view.warning)
  \o <<"automatic", "battery", "detection", "manual", "quit">>

TopLevelNames == {"status.primary", "status.detail", "status.warning", "automatic",
                  "battery", "detection", "manual", "quit"}

TopLevelRow(view, name) ==
  LET toggle(checked) ==
        Row(name, Enabled(view), checked, {"text", "enabled", "checked"},
            {"enabled", "checked"})
      submenu(usable, verified) ==
        Row(name, usable, FALSE, {"text", "enabled"}, verified)
  IN  CASE name = "status.primary" -> Status(view.primary)
        [] name = "status.detail" -> Status(view.detail[1])
        [] name = "status.warning" -> Status(view.warning[1])
        [] name = "automatic" -> toggle(view.automatic)
        [] name = "battery" -> toggle(view.battery)
        [] name = "detection" -> submenu(TRUE, {})
        [] name = "manual" -> submenu(Enabled(view), {"enabled"})
        [] name = "quit" -> submenu(TRUE, {"enabled"})

(* manual_menu_entries: only the time that remains is ever written again.  *)
Manual(view) ==
  CASE view.session = "Inactive" -> <<"start.hour", "start.forever">>
    [] view.session = "Finite" ->
         <<"manual.remaining", "stop", "add.hour", "convert">>
    [] view.session = "UntilDisabled" -> <<"manual.remaining", "stop">>

ManualNames == {"manual.remaining", "start.hour", "start.forever", "stop",
                "add.hour", "convert"}

ManualRow(view, name) ==
  IF name # "manual.remaining"
  THEN Row(name, Enabled(view), FALSE, {}, {"enabled"})
  ELSE IF view.session = "Finite" THEN Status(view.remaining)
  ELSE Row("Active until disabled", FALSE, FALSE, {}, {})

(* build_choices, update_choices: the presets, and the choice that is none *)
(* of them.                                                                *)
Thresholds == <<"256 KB/s", "1 MB/s">>
Graces == <<"30 s", "2 min">>

ChoiceNames(name, presets, custom, choice) ==
  <<name>> \o presets \o IF choice \in Range(presets) THEN <<>> ELSE <<custom>>

(* build_detection.                                                        *)
Detection(view) ==
  <<"detection.state">>
  \o Optional("detection.rate", view.rate)
  \o <<"detection.power">>
  \o ChoiceNames("threshold", Thresholds, "threshold.custom", view.threshold)
  \o ChoiceNames("grace", Graces, "grace.custom", view.grace)

DetectionNames ==
  {"detection.state", "detection.rate", "detection.power", "threshold",
   "threshold.custom", "grace", "grace.custom"} \cup Range(Thresholds) \cup Range(Graces)

DetectionRow(view, name) ==
  LET custom(choice) == Row(choice, FALSE, TRUE, {"text", "checked"}, {})
      preset(choice) ==
        Row(name, Enabled(view), name = choice, {"checked"}, {"enabled"})
  IN  CASE name = "detection.state" -> Status(view.state)
        [] name = "detection.rate" -> Status(view.rate[1])
        [] name = "detection.power" -> Status(view.power)
        [] name \in {"threshold", "grace"} ->
             Row(name, Enabled(view), FALSE, {"enabled"}, {"enabled"})
        [] name \in Range(Thresholds) -> preset(view.threshold)
        [] name = "threshold.custom" -> custom(view.threshold)
        [] name \in Range(Graces) -> preset(view.grace)
        [] name = "grace.custom" -> custom(view.grace)

(* SettingsMenu::build.                                                    *)
Settings(view) ==
  <<"login", "updates", "check">>
  \o Optional("result", view.result)
  \o Optional("install", view.install)
  \o <<"copy", "logs">>

SettingsNames == {"login", "updates", "check", "result", "install", "copy", "logs"}

SettingsRow(view, name) ==
  LET toggle(checked) ==
        Row(name, Enabled(view), checked, {"text", "enabled", "checked"},
            {"text", "enabled", "checked"})
      command(text, usable) ==
        Row(text, usable, FALSE, {"text", "enabled"}, {"text", "enabled"})
  IN  CASE name = "login" -> toggle(view.login)
        [] name = "updates" -> toggle(view.updates)
        [] name = "check" -> command(name, view.checkEnabled)
        [] name = "result" ->
             Row(view.result[1], FALSE, FALSE, {"text"}, {"text", "enabled"})
        [] name = "install" -> command(view.install[1], Enabled(view))
        [] name = "copy" -> command(name, TRUE)
        [] name = "logs" -> command(name, view.logs)

RowNamed(view, name) ==
  CASE name \in TopLevelNames -> TopLevelRow(view, name)
    [] name \in ManualNames -> ManualRow(view, name)
    [] name \in DetectionNames -> DetectionRow(view, name)
    [] name \in SettingsNames -> SettingsRow(view, name)

(* In the order in which update writes them.                               *)
Rows(view) == TopLevel(view) \o Manual(view) \o Detection(view) \o Settings(view)

(* NativeMenu::build.                                                      *)
Built(view) == [name \in Range(Rows(view)) |-> RowNamed(view, name)]

(* Mutant: the kind of session is not part of the structure.               *)
MenuStructure_WithoutSession(view) ==
  [enabled |-> Enabled(view),
   shape |-> <<view.detail # <<>>, view.warning # <<>>, view.result # <<>>,
               view.install # <<>>, view.rate # <<>>>>,
   custom |-> <<view.threshold \in Range(Thresholds), view.grace \in Range(Graces)>>]

(* MenuStructure: what a menu is built anew for.                           *)
MenuStructure(view) ==
  [enabled |-> Enabled(view),
   shape |-> <<view.detail # <<>>, view.warning # <<>>, view.result # <<>>,
               view.install # <<>>, view.rate # <<>>>>,
   session |-> view.session,
   custom |-> <<view.threshold \in Range(Thresholds), view.grace \in Range(Graces)>>]

-----------------------------------------------------------------------------

Init ==
  /\ phase = "Starting"
  /\ target \in {view \in Views : view.phase = phase}
  /\ menu = Built(target)
  /\ renderedFor = target
  /\ lastView = {target}
  /\ worker = "Waiting"
  /\ position = 1
  /\ refreshPending = FALSE
  /\ clicked = FALSE
  /\ mishaps = 0

(* External: startup and shutdown.                                         *)
StatusChanges ==
  /\ \/ phase = "Starting" /\ phase' \in {"Running", "Ended"}
     \/ phase = "Running" /\ phase' = "Ended"
  /\ UNCHANGED <<menu, renderedFor, lastView, worker, target, position,
                 refreshPending, clicked, mishaps>>

(* External: a row with a check flips it.                                  *)
Click ==
  /\ ~clicked
  /\ mishaps < MaxMishaps
  /\ \E name \in DOMAIN menu :
       /\ menu[name].enabled
       /\ "checked" \in menu[name].written
       /\ menu' = [menu EXCEPT ![name].checked = ~@]
  /\ clicked' = TRUE
  /\ mishaps' = mishaps + 1
  /\ UNCHANGED <<phase, renderedFor, lastView, worker, target, position,
                 refreshPending>>

(* TrayApplication::execute and dispatch_command_outcome: a command that is*)
(* run asks for a refresh, whatever came of it; any other is ignored.      *)
HandleClick ==
  /\ clicked
  /\ clicked' = FALSE
  /\ refreshPending' = (refreshPending \/ phase = "Running")
  /\ UNCHANGED <<phase, menu, renderedFor, lastView, worker, target, position,
                 mishaps>>

(* Mutant: a refresh is a sample like any other.                           *)
Sample_NeverForced ==
  /\ worker = "Waiting"
  /\ refreshPending' = FALSE
  /\ target' \in {view \in Views : view.phase = phase}
  /\ position' = 1
  /\ worker' = IF lastView = {target'} THEN "Waiting"
               ELSE IF MenuStructure(renderedFor) = MenuStructure(target')
               THEN "Updating" ELSE "Building"
  /\ UNCHANGED <<phase, menu, renderedFor, lastView, clicked, mishaps>>

(* run: unless a refresh was asked for, a view that has been rendered is   *)
(* not rendered again.                                                     *)
Sample ==
  /\ worker = "Waiting"
  /\ refreshPending' = FALSE
  /\ target' \in {view \in Views : view.phase = phase}
  /\ position' = 1
  /\ worker' = IF ~refreshPending /\ lastView = {target'} THEN "Waiting"
               ELSE IF MenuStructure(renderedFor) = MenuStructure(target')
               THEN "Updating" ELSE "Building"
  /\ UNCHANGED <<phase, menu, renderedFor, lastView, clicked, mishaps>>

Rendered ==
  /\ worker' = "Waiting"
  /\ lastView' = {target}
  /\ renderedFor' = target

RenderFails ==
  /\ worker' = "Waiting"
  /\ lastView' = {}
  /\ UNCHANGED renderedFor

(* The new menu is shown when all of it is there.                          *)
Build ==
  /\ worker = "Building"
  /\ \/ Rendered /\ menu' = Built(target) /\ UNCHANGED mishaps
     \/ /\ mishaps < MaxMishaps
        /\ RenderFails
        /\ mishaps' = mishaps + 1
        /\ UNCHANGED menu
  /\ UNCHANGED <<phase, target, position, refreshPending, clicked>>

(* A row with some of its fields written.                                  *)
Written(row, new, fields) ==
  [field \in DOMAIN row |-> IF field \in fields THEN new[field] ELSE row[field]]

(* NativeMenu::update, row by row.  Some rows that are missing are an      *)
(* error; the others are passed over.                                      *)
Required(name) ==
  name \in {"status.detail", "status.warning", "result", "install"}

UpdateRow ==
  LET rows == Rows(target)
      name == rows[position]
      new == RowNamed(target, name)
  IN  /\ worker = "Updating"
      /\ position <= Len(rows)
      /\ name \notin DOMAIN menu => ~Required(name)
      /\ menu' = IF name \in DOMAIN menu
                 THEN [menu EXCEPT ![name] = Written(@, new, new.written)]
                 ELSE menu
      /\ position' = position + 1
      /\ UNCHANGED <<phase, renderedFor, lastView, worker, target,
                     refreshPending, clicked, mishaps>>

(* The fields of a row are written one after the other, up to a failure.   *)
UpdateFails ==
  LET rows == Rows(target)
      name == rows[position]
      new == RowNamed(target, name)
  IN  /\ worker = "Updating"
      /\ position <= Len(rows)
      /\ IF name \in DOMAIN menu
         THEN /\ mishaps < MaxMishaps
              /\ mishaps' = mishaps + 1
              /\ \E done \in {{}, {"text"}, {"text", "enabled"}} :
                   /\ ~(new.written \subseteq done)
                   /\ menu' = [menu EXCEPT ![name] =
                                 Written(@, new, new.written \intersect done)]
         ELSE Required(name) /\ UNCHANGED <<menu, mishaps>>
      /\ RenderFails
      /\ UNCHANGED <<phase, target, position, refreshPending, clicked>>

(* SettingsMenu::verify, verify_action_access.                             *)
Verified ==
  \A name \in Range(Rows(target)) \intersect DOMAIN menu :
    LET new == RowNamed(target, name)
    IN  \A field \in new.verified : menu[name][field] = new[field]

Verify ==
  /\ worker = "Updating"
  /\ position > Len(Rows(target))
  /\ IF Verified THEN Rendered ELSE RenderFails
  /\ UNCHANGED <<phase, menu, target, position, refreshPending, clicked, mishaps>>

Next ==
  \/ StatusChanges
  \/ Click
  \/ HandleClick
  \/ Sample
  \/ Build
  \/ UpdateRow
  \/ UpdateFails
  \/ Verify

Spec == Init /\ [][Next]_vars

-----------------------------------------------------------------------------
(* Properties.                                                             *)

(* A view that the worker will not render again is what the native menu    *)
(* shows, row for row, as if the menu had been built for it: whichever     *)
(* rows were written in place, whatever failed half way, and whatever      *)
(* checks clicks have flipped in the meantime.  Excepted are the time until*)
(* a click has been handled, and a menu of an application that has since   *)
(* begun to stop, which is replaced (tray_host.rs, NativeRenderer::render; *)
(* "required_menu_ref" and "verify_action_access" only guard parts of it). *)
MenuIsWhatItIsTakenFor ==
  \A view \in lastView :
    worker = "Waiting" /\ ~clicked /\ ~refreshPending /\ view.phase = phase =>
      menu = Built(view)

=============================================================================
