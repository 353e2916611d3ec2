SPECIFICATION Spec
CONSTANTS
  Interfaces = {"en0", "en1", "lo0"}
  Loopbacks = {"lo0"}
  MaxCounter = 1
  MaxTrusted = 1
  MaxGap = 2
  Qualification = 2
  Thresholds = {1}
  Graces = {2}
  Rates = {0, 1}
  Spans = {1}
INVARIANTS
  TopologyChangeClearsIntent
CHECK_DEADLOCK FALSE
