SPECIFICATION FairSpec
CONSTANTS
  Qualification = 1
  Thresholds = {1}
  Graces = {1}
  Rates = {0, 1}
  Spans = {1}
  StartDurations = {1}
  AddDurations = {1}
  MaxInstant = 2
  TrayOperations = {"Manual"}
PROPERTIES
  FiniteSessionsEnd
  ShutdownCompletes
CHECK_DEADLOCK FALSE
