SPECIFICATION Spec
CONSTANTS
  o1 = o1
  o2 = o2
  o3 = o3
  acct = acct
  ZeroAddress = ZeroAddress
  NoResponse = NoResponse
  Account <- MCAccount
  Assessment <- MCAssessment
  Oracle <- MCOracle
  Response <- MCResponse
  MinUpdateInterval = 1
  MaxTags = 1
  MaxOracles = 3
  MinStake = 0
  StakeAmount = {}
  MaxStake = 0
  MinStakeDuration = 0
  UpdateDelay = 0
  UpdateCooldown = 2
  MaxTime = 6
SYMMETRY Symmetry
INVARIANTS
  TypeOK
  ThresholdReachable
PROPERTIES
  DecisionHasQuorum
