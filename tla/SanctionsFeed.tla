---------------------------- MODULE SanctionsFeed ----------------------------
(***************************************************************************)
(* What the risk oracle promises about the answers it gets from Chainlink  *)
(* Functions: the list of addresses in an answer enters a first-in,        *)
(* first-out queue exactly once, at once or, when the oracle was paused,   *)
(* when an operator releases the answer; only what does not fit is         *)
(* dropped; and what was queued is taken in order.  No ring, no flags:     *)
(* RiskOracleRequests.tla has them and implements this.                    *)
(***************************************************************************)
EXTENDS SequencesExt, Naturals

CONSTANTS
  RequestId,  \* identifiers of requests
  Lists,      \* the lists of addresses an answer may carry
  Capacity,   \* how many updates can wait
  Batch       \* how many an operator takes at a time

VARIABLES
  stage,    \* "none", "open", "held" or "settled", for each request
  held,     \* the list of a held answer
  waiting   \* the addresses waiting to be written, oldest first

feedVars == <<stage, held, waiting>>

Fitting(s) == SubSeq(s, 1, IF Len(s) < Capacity THEN Len(s) ELSE Capacity)

FeedInit ==
  /\ stage = [id \in RequestId |-> "none"]
  /\ held = [id \in RequestId |-> <<>>]
  /\ waiting = <<>>

Ask(id) ==
  /\ stage[id] = "none"
  /\ stage' = [stage EXCEPT ![id] = "open"]
  /\ UNCHANGED <<held, waiting>>

Settle(id, list) ==
  /\ stage[id] = "open"
  /\ stage' = [stage EXCEPT ![id] = "settled"]
  /\ waiting' = Fitting(waiting \o list)
  /\ UNCHANGED held

Hold(id, list) ==
  /\ stage[id] = "open"
  /\ stage' = [stage EXCEPT ![id] = "held"]
  /\ held' = [held EXCEPT ![id] = list]
  /\ UNCHANGED waiting

\* Held answers are released one after the other, in an order of the
\* operator's choice.
Release(ids) ==
  /\ \A i \in 1 .. Len(ids) : stage[ids[i]] = "held"
  /\ stage' = [id \in RequestId |-> IF id \in ToSet(ids) THEN "settled" ELSE stage[id]]
  /\ held' = [id \in RequestId |-> IF id \in ToSet(ids) THEN <<>> ELSE held[id]]
  /\ waiting' = FoldLeft(LAMBDA w, id : Fitting(w \o held[id]), waiting, ids)

Take ==
  /\ waiting # <<>>
  /\ waiting' = SubSeq(waiting, 1 + Batch, Len(waiting))
  /\ UNCHANGED <<stage, held>>

FeedNext ==
  \/ \E id \in RequestId :
       \/ Ask(id)
       \/ \E list \in Lists : Settle(id, list) \/ Hold(id, list)
       \/ Release(<<id>>)
  \/ \E id1, id2 \in RequestId : id1 # id2 /\ Release(<<id1, id2>>)
  \/ Take

FeedSpec == FeedInit /\ [][FeedNext]_feedVars
=============================================================================
