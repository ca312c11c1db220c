SPECIFICATION Spec
CONSTANTS
  r1 = r1
  r2 = r2
  r3 = r3
  chain = chain
  rootA = rootA
  rootB = rootB
  ZeroRoot = ZeroRoot
  Account <- MCAccount
  Admin = r1
  Sender <- MCSender
  Root <- MCRoot
  InitialRoot = rootA
  Update <- MCUpdate
  MaxHistory = 1
  MinOracleUpdateInterval = 3
  StartTime = 2
  MaxTime = 4
  MaxWrites = 4
  SyncTolerance = 1
  FutureBound = 1
  MinSyncInterval = 1
  MaxRootHistory = 2
SYMMETRY Relabelling
INVARIANTS
  TypeOK
  OneUpdatePerNonce
  LatestSyncsKept
PROPERTIES
  SyncHasQuorum
