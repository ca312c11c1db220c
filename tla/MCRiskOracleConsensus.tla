----------------------- MODULE MCRiskOracleConsensus -----------------------
(***************************************************************************)
(* Three possible oracles (the number at which the threshold is raised),   *)
(* one account, two conflicting responses and a third writer of the        *)
(* registry.  A tick stands for two blocks, so UPDATE_DELAY_BLOCKS = 1     *)
(* is 0 ticks.                                                             *)
(***************************************************************************)
EXTENDS RiskOracleConsensus, TLC

CONSTANTS o1, o2, o3, acct

MCOracle == {o1, o2, o3}
MCAccount == {acct}

Clean == [score |-> 20, tier |-> 1, sanctioned |-> FALSE, tags |-> 0]
Listed == [score |-> 95, tier |-> 4, sanctioned |-> TRUE, tags |-> 0]

MCResponse == {Clean, Listed}
MCAssessment == {Listed}

Symmetry == Permutations(MCOracle)
=============================================================================
