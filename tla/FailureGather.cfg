SPECIFICATION Spec
CONSTANTS
  Kinds <- MCAllKinds
  vmGatherExportAttempts = 3
  vmGatherExportTimeout = 30
  ResourceWaitTimeout = 18
  VMClusterWaitTimeout = 30
  VMDistributedWaitTimeout = 60
  PollingTimeout = 90
  RequestTime = 2
INVARIANTS
  TypeOK
  NamespaceDeletionHasItsTime
  ExportsFollowEachOther
PROPERTIES
  GatheringEnds
CHECK_DEADLOCK FALSE
