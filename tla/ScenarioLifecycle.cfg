SPECIFICATION Spec
CONSTANTS
  Scenario = {s1}
  Kinds <- MCKinds
  FlakeAttempts = 2
  MaxRuns = 2
INVARIANTS
  TypeOK
  StaleNamespacesAreGone
  UrlsAreOfThisRun
  OverLeavesNothing
PROPERTIES
  PassedMeansRecovered
  EveryAttemptEnds
CHECK_DEADLOCK FALSE
