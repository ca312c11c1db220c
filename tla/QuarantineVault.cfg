SPECIFICATION Spec
CONSTANTS
  alice = alice
  bob = bob
  plain = plain
  taxed = taxed
  Account <- MCAccount
  Token <- MCToken
  Fee <- MCFee
  Amount = {2}
  Disabled = Disabled
  ClaimDelay = {1}
  MinPauseDuration = 1
  WithdrawalDelay = 1
  MaxRecords = 2
  MaxEther = 2
  StartTime = 1
  MaxTime = 2
SYMMETRY Symmetry
INVARIANTS
  TypeOK
  TotalsMatchRecords
  VaultSolvent
  OwnersPaidOnce
  FrozenStaysHeld
