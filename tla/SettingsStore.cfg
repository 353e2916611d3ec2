SPECIFICATION Spec
CONSTANTS
  Values = {v1, v2}
  Default = v1
  ClockStepsBack = FALSE
  MaxMalformed = 2
  MaxQuarantine = 3
INVARIANT SourceIsPreserved
PROPERTIES
  FutureDocumentsBlock
  ImplementsRegister
CHECK_DEADLOCK FALSE
