------------------------- MODULE MerkleRiskRegistry -------------------------
(***************************************************************************)
(* The root of MerkleRiskRegistry.sol: who replaces it, how often, and the *)
(* ring of former roots.  An administrator (the bridge is one) replaces it *)
(* at will, a data publisher at most once an hour.  Proofs against the     *)
(* root, signatures and tags are left out.                                 *)
(***************************************************************************)
EXTENDS Sequences, Integers

CONSTANTS
  Root,                     \* Merkle roots
  ZeroRoot,                 \* bytes32(0)
  InitialRoot,              \* initialMerkleRoot
  MaxHistory,               \* MAX_HISTORY
  MinOracleUpdateInterval,  \* MIN_ORACLE_UPDATE_INTERVAL, in ticks
  StartTime,                \* the time of deployment
  MaxTime,                  \* bound of the clock, for model checking only
  MaxWrites                 \* bound of the number of writes, for model checking only

ASSUME MerkleAssumption ==
  /\ InitialRoot \in Root \ {ZeroRoot}
  /\ MaxHistory \in Nat \ {0}
  /\ {MinOracleUpdateInterval, StartTime, MaxTime, MaxWrites} \subseteq Nat

VARIABLES
  merkleRoot,            \* merkleRoot
  merkleRootHistory,     \* merkleRootHistory
  merkleHistoryIndex,    \* historyIndex
  lastOracleRootUpdate,  \* lastOracleRootUpdate
  merklePaused,          \* paused()
  now                    \* block.timestamp

rootVars == <<merkleRoot, merkleRootHistory, merkleHistoryIndex>>
merkleVars == <<rootVars, lastOracleRootUpdate, merklePaused>>

MerkleTypeOK ==
  /\ merkleRoot \in Root \ {ZeroRoot}
  /\ merkleRootHistory \in Seq(Root)
  /\ Len(merkleRootHistory) <= MaxHistory
  /\ merkleHistoryIndex \in Nat
  /\ lastOracleRootUpdate \in Nat
  /\ merklePaused \in BOOLEAN
  /\ now \in Nat

\* The constructor stores the first root without moving the index.
MerkleInit ==
  /\ merkleRoot = InitialRoot
  /\ merkleRootHistory = <<InitialRoot>>
  /\ merkleHistoryIndex = 0
  /\ lastOracleRootUpdate = 0
  /\ merklePaused = FALSE
  /\ now = StartTime

-----------------------------------------------------------------------------
\* Mutant of Recorded: the ring never stops growing.
RecordedForever(ring, index, size, root) == Append(ring, root)

\* A ring of at most size roots: it grows, then the slot of the index is reused.
Recorded(ring, index, size, root) ==
  IF Len(ring) < size THEN Append(ring, root)
  ELSE [ring EXCEPT ![(index % size) + 1] = root]

\* updateMerkleRoot, after the check of the role.
ReplaceRoot(root) ==
  /\ merkleHistoryIndex < MaxWrites
  /\ ~merklePaused
  /\ root # ZeroRoot
  /\ root # merkleRoot
  /\ merkleRoot' = root
  /\ merkleRootHistory' = Recorded(merkleRootHistory, merkleHistoryIndex, MaxHistory, root)
  /\ merkleHistoryIndex' = merkleHistoryIndex + 1

UpdateMerkleRoot(root) ==
  /\ ReplaceRoot(root)
  /\ UNCHANGED <<lastOracleRootUpdate, merklePaused, now>>

UpdateMerkleRootFromOracle(root) ==
  /\ ReplaceRoot(root)
  /\ now - lastOracleRootUpdate >= MinOracleUpdateInterval
  /\ lastOracleRootUpdate' = now
  /\ UNCHANGED <<merklePaused, now>>

PauseMerkle ==
  /\ ~merklePaused
  /\ merklePaused' = TRUE
  /\ UNCHANGED <<rootVars, lastOracleRootUpdate, now>>

UnpauseMerkle ==
  /\ merklePaused
  /\ merklePaused' = FALSE
  /\ UNCHANGED <<rootVars, lastOracleRootUpdate, now>>

MerkleNext ==
  \/ \E root \in Root : UpdateMerkleRoot(root) \/ UpdateMerkleRootFromOracle(root)
  \/ PauseMerkle \/ UnpauseMerkle
=============================================================================
