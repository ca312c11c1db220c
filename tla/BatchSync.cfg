SPECIFICATION BatchFairSpec
CONSTANTS
  daily = daily
  cli = cli
  a1 = a1
  a2 = a2
  w1 = w1
  w2 = w2
  w3 = w3
  NoLockFile = NoLockFile
  Process <- MCProcess
  Scheduled <- MCScheduled
  Incremental <- MCIncremental
  Retrying <- MCRetrying
  Address <- MCAddress
  Entry <- MCEntry
  AddressOf <- MCAddressOf
  Listable <- MCListable
  New <- MCNew
  BatchMax = 1
  MaxManual = 1
  MaxErrors = 1
INVARIANTS
  BatchTypeOK
  SyncedHasProfile
PROPERTIES
  ListingsRecorded
CHECK_DEADLOCK FALSE
