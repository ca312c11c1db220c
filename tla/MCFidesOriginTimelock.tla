------------------------ MODULE MCFidesOriginTimelock ------------------------
(***************************************************************************)
(* Three operations: two that can be emergency operations, one of them     *)
(* with a predecessor, and a batch.  A tick is half of EMERGENCY_DELAY's   *)
(* order of magnitude: 1 tick against 2 for MIN_DELAY, so that an          *)
(* emergency operation can overtake an ordinary one.                       *)
(***************************************************************************)
EXTENDS FidesOriginTimelock

CONSTANTS p, q, batch, safe, guard

MCOp == {p, q, batch}
MCSingleOp == {p, q}
MCPredecessor == [op \in MCOp |-> IF op = q THEN p ELSE NoOp]
OneActor == {safe}
TwoActors == {safe, guard}
=============================================================================
