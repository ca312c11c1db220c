--------------------------- MODULE MCRiskPublisher ---------------------------
(***************************************************************************)
(* Instances of RiskPublisher for TLC: one address and two polls at a      *)
(* time, updates of the backend and a batch that sanctions.                *)
(***************************************************************************)
EXTENDS RiskPublisher

CONSTANTS acct, low, high, p1, p2

MCAddress == {acct}
MCRisk == {low, high}
MCPoll == {p1, p2}

Listing == [address |-> acct, risk |-> high, sanctioned |-> TRUE, source |-> "sync"]
MCBatch == {<<Listing>>}
=============================================================================
