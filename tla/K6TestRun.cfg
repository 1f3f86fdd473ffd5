SPECIFICATION Spec
CONSTANTS
  MaxAttempts = 2
  MaxEvents = 2
  MaxCloses = 1
INVARIANTS
  TypeOK
  VerdictIsOfThisRun
  NoMissedTransition
PROPERTIES
  TimeoutIsNotFinished
  WaitReturns
CHECK_DEADLOCK FALSE
