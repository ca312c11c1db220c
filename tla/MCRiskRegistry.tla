--------------------------- MODULE MCRiskRegistry ---------------------------
(***************************************************************************)
(* Three addresses, so that swap-and-pop moves an address that is neither  *)
(* the one removed nor the first, and assessments on both sides of every   *)
(* threshold the code tests.                                               *)
(***************************************************************************)
EXTENDS RiskRegistry, TLC

CONSTANTS a1, a2, a3

MCAccount == {a1, a2, a3}

Assess(s, b, n) == [score |-> s, tier |-> 2, sanctioned |-> b, tags |-> n]

MCAssessment ==
  {Assess(79, FALSE, 0), Assess(80, FALSE, 1), Assess(100, TRUE, 0),
   Assess(101, TRUE, 0), Assess(80, TRUE, 2)}

Symmetry == Permutations(MCAccount)
=============================================================================
