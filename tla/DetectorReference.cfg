SPECIFICATION Spec
CONSTANTS
  Qualification = 3
  Thresholds = {1, 2}
  Graces = {0, 3}
  Rates = {0, 1, 2}
  Spans = {1, 2}
  MaxSamples = 6
INVARIANT PhaseMatchesHistory
CHECK_DEADLOCK FALSE
