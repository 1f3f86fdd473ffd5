SPECIFICATION Spec
CONSTANTS
  p1 = p1
  p2 = p2
  Suites <- AllSuites
  Proc <- MCProc
  First = p1
  Preset <- MCPreset
INVARIANTS
  TypeOK
  SpecsNeedWholeBootstrap
  OperatorFindsCRDs
PROPERTIES
  EveryProcessGoesOn
CHECK_DEADLOCK FALSE
