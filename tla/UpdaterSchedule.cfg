SPECIFICATION UpdaterSpec
CONSTANTS
  Versions = {v1}
  NoUpdate = NoUpdate
  MaxCommands = 3
INVARIANT AutomaticChecksGoOn
CHECK_DEADLOCK FALSE
