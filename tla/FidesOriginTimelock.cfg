SPECIFICATION Spec
CONSTANTS
  p = p
  q = q
  batch = batch
  safe = safe
  guard = guard
  NoOp = NoOp
  Op <- MCOp
  SingleOp <- MCSingleOp
  Predecessor <- MCPredecessor
  Actor <- TwoActors
  Deployed <- OneActor
  Delay = {1, 2}
  MinDelay = 2
  EmergencyDelay = 1
  MaxTime = 5
INVARIANTS
  TypeOK
  PendingListExact
PROPERTIES
  ImplementsTimelock
