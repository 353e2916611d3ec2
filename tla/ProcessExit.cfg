SPECIFICATION FairSpec
CONSTANTS
  Versions = {v1, v2}
  NoUpdate = NoUpdate
  MaxCommands = 2
  MaxQuits = 1
INVARIANTS
  EndsCleanedUp
  UpdaterStopsFirst
  OneOperationAtATime
  ConsentIsForThisUpdate
  OfferIsHeld
PROPERTIES
  ExitCompletes
  ScheduleIsKept
CHECK_DEADLOCK FALSE
