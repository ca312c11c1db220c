------------------------ MODULE MCRiskOracleHistory ------------------------
(***************************************************************************)
(* The instance of RiskOracleHistory for TLC: one oracle that raises,      *)
(* withdraws and loses its stake and votes on one account.                 *)
(***************************************************************************)
EXTENDS RiskOracleHistory

CONSTANTS o1, acct

MCAccount == {acct}
OneOracle == {o1}
OneResponse == {[score |-> 95, tier |-> 4, sanctioned |-> TRUE, tags |-> 0]}
=============================================================================
