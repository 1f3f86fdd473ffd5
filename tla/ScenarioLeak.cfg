SPECIFICATION Spec
CONSTANTS
  Scenario = {s1}
  Kinds <- MCKinds
  FlakeAttempts = 2
  MaxRuns = 2
INVARIANTS
  AbortedRunsLeakNothing
CHECK_DEADLOCK FALSE
