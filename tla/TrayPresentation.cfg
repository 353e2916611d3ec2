SPECIFICATION FairPresentationSpec
CONSTANT Plan <- ProductPlan
INVARIANTS
  CapabilitiesAreNested
  RefreshesAreNotLost
PROPERTY MenuCatchesUp
CHECK_DEADLOCK FALSE
