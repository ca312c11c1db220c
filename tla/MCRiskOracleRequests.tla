------------------------ MODULE MCRiskOracleRequests ------------------------
(***************************************************************************)
(* Three requests over a ring of two request ids, and a queue of three     *)
(* addresses that is emptied two by two, so that both rings wrap; answers  *)
(* that fit, that overflow the queue, that carry address(0), that revert   *)
(* and that fail.                                                          *)
(***************************************************************************)
EXTENDS RiskOracleRequests

CONSTANTS a, op1

MCAccount == {a}
MCCaller == {op1}
Reply(effect, list) == [effect |-> effect, list |-> list]

MCAnswer ==
  {Reply("list", <<a, ZeroAddress>>), Reply("list", <<ZeroAddress, ZeroAddress, a>>),
   Reply("revert", <<>>), Reply("error", <<>>)}
=============================================================================
