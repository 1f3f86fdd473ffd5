SPECIFICATION Spec
CONSTANTS
  Kinds <- MCOnlyNFS
  vmGatherExportAttempts = 3
  vmGatherExportTimeout = 30
  ResourceWaitTimeout = 18
  VMClusterWaitTimeout = 30
  VMDistributedWaitTimeout = 60
  PollingTimeout = 90
  RequestTime = 0
INVARIANTS
  TimeoutExceedsSummedCaps
CHECK_DEADLOCK FALSE
