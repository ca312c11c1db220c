---------------------------- MODULE MCBatchSync ----------------------------
(***************************************************************************)
(* Instances of BatchSync for TLC: the daily run, a run from the command   *)
(* line beside it, an address that both sources list and OFAC twice, one   *)
(* that OFAC adds.                                                         *)
(***************************************************************************)
EXTENDS BatchSync

CONSTANTS daily, cli, a1, a2, w1, w2, w3

MCProcess == {daily, cli}
MCScheduled == {daily}
MCIncremental == {cli}
MCRetrying == {cli}
MCAddress == {a1, a2}
MCEntry == {w1, w2, w3}
MCAddressOf == [e \in MCEntry |-> IF e = w3 THEN a2 ELSE a1]
MCListable == [s \in Source |-> IF s = "ofac" THEN MCEntry ELSE {w1}]
MCNew == {w3}
=============================================================================
