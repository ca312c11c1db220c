------------------------- MODULE RiskOracleConsensus -------------------------
(***************************************************************************)
(* RiskOracleConsensus.sol behind the RiskOracle.sol facade: authorised    *)
(* oracles with a stake vote on the risk of an account; when a response    *)
(* has enough confirmations the contract writes it to the RiskRegistry.    *)
(*                                                                         *)
(* The contract is composed with the registry it calls: a vote that        *)
(* reaches the threshold and is refused by the registry (paused, written   *)
(* too recently, invalid score or confidence) reverts as a whole, and the  *)
(* vote is not recorded.  The registry's other writers act in between.     *)
(*                                                                         *)
(* oracleList and authorizedOracles are one set here: the code changes     *)
(* them together and uses the list for its length and for a loop whose     *)
(* order does not matter.  One clock counts both blocks and time.          *)
(***************************************************************************)
EXTENDS RiskRegistry

CONSTANTS
  Oracle,           \* addresses that may be authorised
  Response,         \* what an oracle may report of an account
  NoResponse,       \* bytes32(0) in oracleResponses
  MaxOracles,       \* MAX_ORACLES
  MinStake,         \* _getMinStakeAmount()
  StakeAmount,      \* amounts a caller stakes, withdraws or has slashed
  MinStakeDuration, \* MIN_STAKE_DURATION, in ticks
  UpdateDelay,      \* UPDATE_DELAY_BLOCKS, in ticks
  UpdateCooldown,   \* updateCooldown, in ticks
  MaxStake          \* bound of a stake, for model checking only

ASSUME ConsensusAssumption ==
  /\ IsFiniteSet(Oracle)
  /\ Response \subseteq AssessmentType
  /\ NoResponse \notin Response
  /\ StakeAmount \subseteq Nat
  /\ {MaxOracles, MinStake, MinStakeDuration, UpdateDelay, UpdateCooldown, MaxStake}
       \subseteq Nat

VARIABLES
  oracles,         \* authorizedOracles, oracleList
  required,        \* requiredOracleConfirmations
  responses,       \* oracleResponses: account -> oracle -> response
  confirmations,   \* responseConfirmations: account -> response -> count
  confirmed,       \* confirmedUpdates
  lastUpdateBlock, \* block of the last vote on an account
  lastUpdateTime,  \* time of the last consensus write of an account, 0 if none
  stakes,          \* oracleStakes
  stakeTime,       \* stakeTime
  oraclePaused     \* Pausable, of the oracle contract

oracleVars == <<oracles, required, responses, confirmations, confirmed,
                lastUpdateBlock, lastUpdateTime, stakes, stakeTime, oraclePaused>>
votingVars == <<responses, confirmations, confirmed, lastUpdateBlock, lastUpdateTime>>
stakeVars  == <<stakes, stakeTime>>
vars == <<registryVars, oracleVars>>

TypeOK ==
  /\ RegistryTypeOK
  /\ oracles \subseteq Oracle
  /\ required \in Nat
  /\ responses \in [Account -> [Oracle -> Response \cup {NoResponse}]]
  /\ confirmations \in [Account -> [Response -> Nat]]
  /\ confirmed \in [Account -> BOOLEAN]
  /\ lastUpdateBlock \in [Account -> Nat]
  /\ lastUpdateTime \in [Account -> Nat]
  /\ stakes \in [Oracle -> Nat]
  /\ stakeTime \in [Oracle -> Nat]
  /\ oraclePaused \in BOOLEAN

\* The constructor authorises the deployer; the threshold starts at 1.
Init ==
  /\ RegistryInit
  /\ \E deployer \in Oracle : oracles = {deployer}
  /\ required = 1
  /\ responses = [a \in Account |-> [o \in Oracle |-> NoResponse]]
  /\ confirmations = [a \in Account |-> [r \in Response |-> 0]]
  /\ confirmed = [a \in Account |-> FALSE]
  /\ lastUpdateBlock = [a \in Account |-> 0]
  /\ lastUpdateTime = [a \in Account |-> 0]
  /\ stakes = [o \in Oracle |-> 0]
  /\ stakeTime = [o \in Oracle |-> 0]
  /\ oraclePaused = FALSE

-----------------------------------------------------------------------------
(***************************************************************************)
(* The set of oracles and the threshold (ADMIN_ROLE).                      *)
(***************************************************************************)

\* Three authorised oracles raise a lower threshold to 3.
AddAuthorizedOracle(o) ==
  /\ o \notin oracles
  /\ Cardinality(oracles) < MaxOracles
  /\ oracles' = oracles \cup {o}
  /\ required' = IF required < 3 /\ Cardinality(oracles') >= 3 THEN 3 ELSE required
  /\ UNCHANGED <<registryVars, votingVars, stakeVars, oraclePaused>>

\* Mutant of RemoveAuthorizedOracle: the threshold stays (before H-4).
RemoveKeepingThreshold(o) ==
  /\ o \in oracles
  /\ oracles' = oracles \ {o}
  /\ UNCHANGED <<registryVars, required, votingVars, stakeVars, oraclePaused>>

\* The threshold follows the list down; the votes of o stay as they are.
RemoveAuthorizedOracle(o) ==
  /\ o \in oracles
  /\ oracles' = oracles \ {o}
  /\ required' = IF required > Cardinality(oracles') THEN Cardinality(oracles') ELSE required
  /\ UNCHANGED <<registryVars, votingVars, stakeVars, oraclePaused>>

SetRequiredConfirmations(n) ==
  /\ n > 0
  /\ n <= Cardinality(oracles)
  /\ required' = n
  /\ UNCHANGED <<registryVars, oracles, votingVars, stakeVars, oraclePaused>>

-----------------------------------------------------------------------------
(***************************************************************************)
(* Stakes.                                                                 *)
(***************************************************************************)

\* Mutant of Stake: the time of the first stake is kept for good.
StakeTimedOnce(o, amount) ==
  /\ stakes[o] + amount <= MaxStake
  /\ stakes' = [stakes EXCEPT ![o] = @ + amount]
  /\ stakeTime' = IF stakeTime[o] = 0 THEN [stakeTime EXCEPT ![o] = now] ELSE stakeTime
  /\ UNCHANGED <<registryVars, oracles, required, votingVars, oraclePaused>>

\* The staking time is set when the balance was zero, and not by a top-up.
Stake(o, amount) ==
  /\ stakes[o] + amount <= MaxStake
  /\ stakes' = [stakes EXCEPT ![o] = @ + amount]
  /\ stakeTime' = IF stakes[o] = 0 THEN [stakeTime EXCEPT ![o] = now] ELSE stakeTime
  /\ UNCHANGED <<registryVars, oracles, required, votingVars, oraclePaused>>

Unstake(o, amount) ==
  /\ stakes[o] >= amount
  /\ stakes' = [stakes EXCEPT ![o] = @ - amount]
  /\ UNCHANGED <<registryVars, oracles, required, votingVars, stakeTime, oraclePaused>>

\* slashOracleStake (ADMIN_ROLE, treasury configured): at most the whole stake.
SlashOracleStake(o, amount) ==
  LET slashAmount == IF amount > stakes[o] THEN stakes[o] ELSE amount
  IN  /\ slashAmount > 0
      /\ stakes' = [stakes EXCEPT ![o] = @ - slashAmount]
      /\ UNCHANGED <<registryVars, oracles, required, votingVars, stakeTime, oraclePaused>>

-----------------------------------------------------------------------------
(***************************************************************************)
(* Votes.                                                                  *)
(***************************************************************************)

MayVote(o, a) ==
  /\ ~oraclePaused
  /\ o \in oracles
  /\ stakes[o] >= MinStake
  /\ now >= stakeTime[o] + MinStakeDuration
  /\ now > lastUpdateBlock[a] + UpdateDelay

\* The counters of a after o's previous vote, if any, has been revoked.
Revoked(a, o) ==
  LET prev == responses[a][o]
  IN  IF prev = NoResponse THEN confirmations[a]
      ELSE [confirmations[a] EXCEPT ![prev] = @ - 1]

\* Mutant of RevocationPossible: unchecked arithmetic.
RevokedUnchecked(a, o) == TRUE

\* The decrement is checked: at zero the transaction reverts.
RevocationPossible(a, o) ==
  responses[a][o] # NoResponse => confirmations[a][responses[a][o]] > 0

\* currentConfirmations after o votes r.
CountAfterVote(o, a, r) == Revoked(a, o)[r] + 1

\* A response that nobody else holds clears the flag of the last update.
StillConfirmed(o, a, r) == confirmed[a] /\ CountAfterVote(o, a, r) # 1

ReachesThreshold(o, a, r) ==
  /\ CountAfterVote(o, a, r) >= required
  /\ ~StillConfirmed(o, a, r)

\* uint8((currentConfirmations * 100) / oracleList.length)
Confidence(count) == ((count * 100) \div Cardinality(oracles)) % 256

RecordVote(o, a, r) ==
  /\ MayVote(o, a)
  /\ RevocationPossible(a, o)
  /\ responses' = [responses EXCEPT ![a][o] = r]
  /\ confirmations' = [confirmations EXCEPT ![a] = [Revoked(a, o) EXCEPT ![r] = @ + 1]]
  /\ lastUpdateBlock' = [lastUpdateBlock EXCEPT ![a] = now]
  /\ UNCHANGED <<oracles, required, stakeVars, oraclePaused>>

\* submitOracleResponse below the threshold, or for a confirmed account.
SubmitVote(o, a, r) ==
  /\ RecordVote(o, a, r)
  /\ ~ReachesThreshold(o, a, r)
  /\ confirmed' = [confirmed EXCEPT ![a] = StillConfirmed(o, a, r)]
  /\ UNCHANGED <<registryVars, lastUpdateTime>>

\* submitOracleResponse that reaches the threshold and updates the registry.
SubmitDecidingVote(o, a, r) ==
  LET confidence == Confidence(CountAfterVote(o, a, r))
  IN  /\ RecordVote(o, a, r)
      /\ ReachesThreshold(o, a, r)
      /\ lastUpdateTime[a] # 0 => now - lastUpdateTime[a] >= UpdateCooldown
      /\ Accepts(a, r, confidence)
      /\ registry' = Write(registry, a, r, confidence, now)
      /\ confirmed' = [confirmed EXCEPT ![a] = TRUE]
      /\ lastUpdateTime' = [lastUpdateTime EXCEPT ![a] = now]
      /\ UNCHANGED <<registryPaused, now>>

\* Mutant of ResetConfirmations: the counters survive (before C-2).
ResetKeepingCounters(a) ==
  /\ confirmed' = [confirmed EXCEPT ![a] = FALSE]
  /\ responses' = [responses EXCEPT ![a] =
       [o \in Oracle |-> IF o \in oracles THEN NoResponse ELSE @[o]]]
  /\ UNCHANGED <<registryVars, oracles, required, confirmations, lastUpdateBlock,
                 lastUpdateTime, stakeVars, oraclePaused>>

\* resetConfirmations (ADMIN_ROLE): the loop runs over the listed oracles only.
ResetConfirmations(a) ==
  LET cleared == {responses[a][o] : o \in oracles}
  IN  /\ confirmed' = [confirmed EXCEPT ![a] = FALSE]
      /\ confirmations' = [confirmations EXCEPT ![a] =
           [r \in Response |-> IF r \in cleared THEN 0 ELSE @[r]]]
      /\ responses' = [responses EXCEPT ![a] =
           [o \in Oracle |-> IF o \in oracles THEN NoResponse ELSE @[o]]]
      /\ UNCHANGED <<registryVars, oracles, required, lastUpdateBlock,
                     lastUpdateTime, stakeVars, oraclePaused>>

-----------------------------------------------------------------------------
PauseOracle ==
  /\ ~oraclePaused
  /\ oraclePaused' = TRUE
  /\ UNCHANGED <<registryVars, oracles, required, votingVars, stakeVars>>

UnpauseOracle ==
  /\ oraclePaused
  /\ oraclePaused' = FALSE
  /\ UNCHANGED <<registryVars, oracles, required, votingVars, stakeVars>>

\* Time passes, or the registry changes without the oracle contract.
RegistryStep == RegistryNext /\ UNCHANGED oracleVars

Next ==
  \/ \E o \in Oracle : AddAuthorizedOracle(o) \/ RemoveAuthorizedOracle(o)
  \/ \E n \in 1 .. MaxOracles : SetRequiredConfirmations(n)
  \/ \E o \in Oracle, amount \in StakeAmount :
       Stake(o, amount) \/ Unstake(o, amount) \/ SlashOracleStake(o, amount)
  \/ \E o \in Oracle, a \in Account, r \in Response :
       SubmitVote(o, a, r) \/ SubmitDecidingVote(o, a, r)
  \/ \E a \in Account : ResetConfirmations(a)
  \/ PauseOracle \/ UnpauseOracle
  \/ RegistryStep

Spec == Init /\ [][Next]_vars

-----------------------------------------------------------------------------
(***************************************************************************)
(* Properties.                                                             *)
(***************************************************************************)

Voters(a, r) == {o \in Oracle : responses[a][o] = r}

\* A counter never exceeds the number of distinct oracles whose recorded
\* response it counts: no oracle is counted twice, however often it votes,
\* changes its mind, leaves and comes back, and whatever is reset in between.
ConfirmationsBacked ==
  \A a \in Account, r \in Response :
    confirmations[a][r] <= Cardinality(Voters(a, r))

\* A consensus write of the registry has at least required distinct oracles
\* holding exactly the response that is written, at the moment it is written.
DecisionHasQuorum ==
  [][\A a \in Account :
       lastUpdateTime'[a] # lastUpdateTime[a] =>
         \E r \in Response :
           /\ registry'.profiles[a].score = r.score
           /\ registry'.profiles[a].sanctioned = r.sanctioned
           /\ Cardinality(Voters(a, r)') >= required]_vars

\* The threshold can always be met by the authorised oracles (H-4: removing
\* oracles must not leave the consensus deadlocked).
ThresholdReachable == required <= Cardinality(oracles)
=============================================================================
