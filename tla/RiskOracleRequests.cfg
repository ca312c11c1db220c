SPECIFICATION RequestsSpec
CONSTANTS
  a = a
  op1 = op1
  ZeroAddress = ZeroAddress
  Account <- MCAccount
  Assessment = {}
  MinUpdateInterval = 1
  MaxTags = 0
  MaxTime = 4
  Caller <- MCCaller
  Answer <- MCAnswer
  CallerCooldown = 1
  Day = 2
  DailyRequests = 2
  MaxAllRequestIds = 2
  MaxQueueSize = 3
  BatchSize = 2
  MaxRequests = 3
INVARIANTS
  RequestsTypeOK
  DeferredCountExact
  LatestRequestsKept
PROPERTIES
  ImplementsFeed
