SPECIFICATION FairSpec
CONSTANTS
  a1 = a1
  a2 = a2
  a3 = a3
  Down = Down
  Blank = Blank
  NoSnapshot = NoSnapshot
  Address <- MCAddress
  Primary = "ofac"
  Secondary <- MCSecondary
  ByRecords <- MCByRecords
  StaticList <- NoStatic
  MaxAge = 1
  Standing <- MCStanding
  Unlisted <- MCUnlisted
  BatchSize = 1
  MaxChanges = 1
  MaxFaults = 2
  MaxShort = 0
INVARIANTS
  TypeOK
  ExitZeroInStep
PROPERTIES
  StandingNeverCleared
  ListingsArrive
  DelistingsArrive
CHECK_DEADLOCK FALSE
