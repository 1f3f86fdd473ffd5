SPECIFICATION Spec
CONSTANTS
  ChartReplicas = 1
  Others = 1
  MaxSpecs = 2
  MaxRuns = 2
INVARIANTS
  TypeOK
  BodyHasItsOperatorAlone
  LeftDownOnlyByFailure
PROPERTIES
  EverySpecEnds
CHECK_DEADLOCK FALSE
