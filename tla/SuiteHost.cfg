SPECIFICATION Spec
CONSTANTS
  p1 = p1
  p2 = p2
  Suites <- MCVMChaos
  Proc <- MCProc
  First = p1
  Preset <- MCNoPreset
INVARIANTS
  SpecsFindHost
CHECK_DEADLOCK FALSE
