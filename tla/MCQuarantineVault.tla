------------------------- MODULE MCQuarantineVault -------------------------
(***************************************************************************)
(* A token that keeps a fee and one that does not, and two owners.         *)
(***************************************************************************)
EXTENDS QuarantineVault, TLC

CONSTANTS alice, bob, plain, taxed

MCAccount == {alice, bob}
MCToken == {plain, taxed}
MCFee == [t \in MCToken |-> IF t = taxed THEN 1 ELSE 0]
Symmetry == Permutations(MCAccount)
=============================================================================
