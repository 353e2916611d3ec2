SPECIFICATION Spec
CONSTANTS
  Qualification = 1
  Thresholds = {1}
  Graces = {0, 1}
  Rates = {0, 1}
  Spans = {1}
  StartDurations = {1, 2}
  AddDurations = {1}
  MaxInstant = 2
  TrayOperations = {"ToggleAutomatic", "ToggleBattery", "Tune", "Manual"}
INVARIANTS
  TypeOK
  SchedulerWaitsForTheDeadline
  NoReasonOutlivesShutdown
  RequestsMatchReasons
  AutomaticFailureIsRecorded
  SavedSettingsAreLive
PROPERTIES
  SessionsEndOnTime
  ImplementsContract
  FailureIsMadeUpFor
CHECK_DEADLOCK FALSE
