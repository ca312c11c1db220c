SPECIFICATION RegistrySpec
CONSTANTS
  a1 = a1
  a2 = a2
  a3 = a3
  ZeroAddress = ZeroAddress
  Account <- MCAccount
  Assessment <- MCAssessment
  MinUpdateInterval = 2
  MaxTags = 1
  MaxTime = 5
SYMMETRY Symmetry
INVARIANTS
  RegistryTypeOK
  ListsMatchProfiles
  ProfileCountExact

