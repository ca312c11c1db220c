SPECIFICATION FairSpec
CONSTANTS
  i1 = i1
  i2 = i2
  Nobody = Nobody
  Instance <- MCInstance
  Job <- MCJob
  at <- MCAt
  kind <- Mixed
  LockName <- TwoLocks
  MaxFaults = 1
INVARIANTS
  TypeOK
  MutexAdmits
  OneJobPerType
PROPERTIES
  JobsSettle
  LocksAreFreed
CHECK_DEADLOCK FALSE
