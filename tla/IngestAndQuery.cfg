SPECIFICATION Spec
CONSTANTS
  Samples = 2
  ApplyAttempts = 5
  WriteAttempts = 5
  QueryAttempts = 3
  ScanRetries = 5
  MaxEvents = 2
INVARIANTS
  TypeOK
  NoMissedAddress
  VerdictIsAboutTheWrites
PROPERTIES
  TestEnds
CHECK_DEADLOCK FALSE
