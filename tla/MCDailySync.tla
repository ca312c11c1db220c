---------------------------- MODULE MCDailySync ----------------------------
(***************************************************************************)
(* Instances of DailySync for TLC: an address only one secondary source    *)
(* lists, one that comes and goes, one that was delisted long ago.         *)
(***************************************************************************)
EXTENDS DailySync

CONSTANTS a1, a2, a3

MCAddress == {a1, a2, a3}
MCSecondary == {"hmt", "open"}
MCByRecords == {"hmt"}
MCStanding == [s \in Source |-> IF s = "hmt" THEN {a1} ELSE {a2}]
MCUnlisted == {a3}
NoStatic == {}
=============================================================================
