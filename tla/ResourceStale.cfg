SPECIFICATION Spec
CONSTANTS
  i = i
  u = u
  v = v
  Base = Base
  Names <- MCNames
  Existing <- MCExisting
  Caller <- MCOneCaller
  Choices <- MCUpdateChoice
  Target <- MCUpdateTarget
  RetrySteps = 2
  MaxRV = 4
INVARIANTS
  UpdateIsRolledOut
CHECK_DEADLOCK FALSE
