-------------------------- MODULE RiskOracleHistory --------------------------
(***************************************************************************)
(* RiskOracleConsensus with a history variable: how long a stake has been  *)
(* there.  It records and never constrains; the property that needs it is  *)
(* stated here.                                                            *)
(***************************************************************************)
EXTENDS RiskOracleConsensus

VARIABLE bareUntil  \* last time an oracle had no stake at all

HInit == Init /\ bareUntil = [o \in Oracle |-> now]

\* Oracle o votes r on account a in this step.
Votes(o, a, r) ==
  /\ lastUpdateBlock'[a] # lastUpdateBlock[a]
  /\ responses'[a][o] = r
  /\ confirmations'[a] = [Revoked(a, o) EXCEPT ![r] = @ + 1]

Record == bareUntil' = [o \in Oracle |-> IF stakes'[o] = 0 THEN now' ELSE bareUntil[o]]

HNext == Next /\ Record

HSpec == HInit /\ [][HNext]_<<vars, bareUntil>>

-----------------------------------------------------------------------------
\* A vote is only accepted from an oracle that has had some stake, without a
\* gap, for MIN_STAKE_DURATION: withdrawing everything, or losing everything
\* to a slash, starts the waiting time again.
VoterStakeUnbroken ==
  [][\A o \in Oracle, a \in Account, r \in Response :
       Votes(o, a, r) /\ responses'[a][o] # responses[a][o]
         => now - bareUntil[o] >= MinStakeDuration]_<<vars, bareUntil>>
=============================================================================
