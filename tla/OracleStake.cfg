SPECIFICATION HSpec
CONSTANTS
  o1 = o1
  acct = acct
  ZeroAddress = ZeroAddress
  NoResponse = NoResponse
  Account <- MCAccount
  Response <- OneResponse
  MaxTags = 1
  UpdateDelay = 0
  Assessment = {}
  Oracle <- OneOracle
  MinUpdateInterval = 1
  MaxOracles = 1
  MinStake = 2
  StakeAmount = {1, 2}
  MaxStake = 3
  MinStakeDuration = 2
  UpdateCooldown = 1
  MaxTime = 6
PROPERTIES
  VoterStakeUnbroken
