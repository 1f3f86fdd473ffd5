SPECIFICATION Spec
CONSTANTS
  c1 = c1
  c2 = c2
  c3 = c3
  p1 = p1
  p2 = p2
  u0 = u0
  u1 = u1
  u2 = u2
  NoCall = NoCall
  Call <- MCCall
  Proc <- MCProc
  ProcOf <- MCProcOf
  Url <- MCUrl
  UrlOf <- MCUrlOf
  InitUrls <- MCInitUrls
  RetrySteps = 2
  MaxRV = 3
INVARIANTS
  TypeOK
  MutualExclusion
  NoDuplicates
  EnsuredURLStays
  ConflictsAreForeignWrites
PROPERTIES
  EveryCallReturns
  OnlyAppends
  Implements
CHECK_DEADLOCK FALSE
