SPECIFICATION Spec
CONSTANTS
  i = i
  u = u
  v = v
  Base = Base
  Names <- MCNames
  Existing <- MCExisting
  Caller <- MCCaller
  Choices <- MCChoices
  Target <- MCTarget
  RetrySteps = 2
  MaxRV = 4
SYMMETRY MCSymmetry
INVARIANTS
  TypeOK
  InstalledIsRolledOut
  WrittenIsKept
PROPERTIES
  FailureIsOwn
CHECK_DEADLOCK FALSE
