----------------------------- MODULE MCSyncJobs -----------------------------
(***************************************************************************)
(* Instances of SyncJobs for TLC: two publisher processes, of which one    *)
(* starts three jobs, the first of them incremental, and the other one.    *)
(***************************************************************************)
EXTENDS SyncJobs

CONSTANTS i1, i2

MCInstance == {i1, i2}
MCJob == 1..4
TwoLocks == {"full", "incremental"}
MCAt == [j \in MCJob |-> IF j = 4 THEN i2 ELSE i1]
Mixed == [j \in MCJob |-> IF j = 1 THEN "incremental" ELSE "full"]
=============================================================================
