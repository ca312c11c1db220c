SPECIFICATION FairSpec
CONSTANTS
  acct = acct
  low = low
  high = high
  p1 = p1
  p2 = p2
  SyncJob = SyncJob
  Nobody = Nobody
  DeadHolder = DeadHolder
  NoRisk = NoRisk
  Excessive = Excessive
  Malformed = Malformed
  Foreign = Foreign
  Address <- MCAddress
  Risk <- MCRisk
  Poll <- MCPoll
  Batch <- MCBatch
  PollCount = 2
  MaxRetryCount = 3
  MaxUpdates = 1
  MaxBatches = 1
  MaxFaults = 1
INVARIANTS
  TypeOK
  AckedWasApplied
  WritersBounded
PROPERTIES
  EveryUpdateSettled
