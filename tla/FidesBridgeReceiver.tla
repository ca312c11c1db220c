------------------------ MODULE FidesBridgeReceiver ------------------------
(***************************************************************************)
(* FidesBridgeReceiver.sol: relayers hand over updates of the Merkle root  *)
(* that were sent on another chain; three distinct relayers make an update *)
(* pass on to the MerkleRiskRegistry of this chain, which other writers    *)
(* use too.  Updates are numbered and pass strictly one after the other,   *)
(* but they may be relayed late, in any order and by any relayer, and      *)
(* relayers may disagree about one.                                        *)
(*                                                                         *)
(* An update hash is its update.  The bridge is an administrator of the    *)
(* registry and keeps the same registry; its own upgrades are left out.    *)
(***************************************************************************)
EXTENDS MerkleRiskRegistry, FiniteSets

CONSTANTS
  Account,         \* accounts that may be relayers
  Admin,           \* the deployer, the first relayer
  Sender,          \* source chain and sender
  Update,          \* what may be relayed
  SyncTolerance,   \* SYNC_TOLERANCE, in ticks
  FutureBound,     \* 1 hours, in ticks
  MinSyncInterval, \* MIN_SYNC_INTERVAL, in ticks
  MaxRootHistory   \* MAX_ROOT_HISTORY

RequiredConfirmations == 3

ASSUME BridgeAssumption ==
  /\ Admin \in Account
  /\ Update \subseteq [sender : Sender, root : Root, timestamp : Nat, nonce : Nat]
  /\ {SyncTolerance, FutureBound, MinSyncInterval} \subseteq Nat
  /\ MaxRootHistory \in Nat \ {0}

VARIABLES
  relayers,          \* holders of BRIDGE_RELAYER_ROLE
  authorizedSenders, \* authorizedSenders
  approvals,         \* relayerApprovals
  approvalCount,     \* approvalCount
  executedUpdates,   \* executedUpdates
  seenRelayers,      \* _seenRelayers, _knownRelayer
  syncNonce,         \* syncNonce
  lastSyncTime,      \* lastSyncTime
  lastSyncedRoot,    \* lastSyncedRoot
  rootHistory,       \* rootHistory
  historyIndex       \* historyIndex

roleVars == <<relayers, authorizedSenders>>
approvalVars == <<approvals, approvalCount, seenRelayers>>
syncVars == <<executedUpdates, syncNonce, lastSyncTime, lastSyncedRoot, rootHistory, historyIndex>>
vars == <<merkleVars, now, roleVars, approvalVars, syncVars>>

TypeOK ==
  /\ MerkleTypeOK
  /\ relayers \subseteq Account
  /\ authorizedSenders \subseteq Sender
  /\ approvals \in [Update -> SUBSET seenRelayers]
  /\ approvalCount \in [Update -> Nat]
  /\ executedUpdates \subseteq Update
  /\ seenRelayers \subseteq Account /\ IsFiniteSet(seenRelayers)
  /\ syncNonce \in Nat
  /\ lastSyncTime \in Nat
  /\ lastSyncedRoot \in Root \cup {ZeroRoot}
  /\ rootHistory \in Seq(Root)
  /\ Len(rootHistory) <= MaxRootHistory
  /\ historyIndex \in Nat

Init ==
  /\ MerkleInit
  /\ relayers = {Admin}
  /\ authorizedSenders = {}
  /\ approvals = [u \in Update |-> {}]
  /\ approvalCount = [u \in Update |-> 0]
  /\ executedUpdates = {}
  /\ seenRelayers = {}
  /\ syncNonce = 0
  /\ lastSyncTime = 0
  /\ lastSyncedRoot = ZeroRoot
  /\ rootHistory = <<>>
  /\ historyIndex = 0

-----------------------------------------------------------------------------
(***************************************************************************)
(* receiveCrossChainUpdate.                                                *)
(***************************************************************************)

\* Mutant of NextNonce: any later number will do (before L-12).
LaterNonce(u) == u.nonce > syncNonce

NextNonce(u) == u.nonce = syncNonce + 1

\* The checks before an approval is recorded.
Acceptable(r, u) ==
  /\ r \in relayers
  /\ u.sender \in authorizedSenders
  /\ NextNonce(u)
  /\ u.timestamp + SyncTolerance >= lastSyncTime
  /\ u.timestamp <= now + FutureBound
  /\ u.root # ZeroRoot
  /\ u \notin executedUpdates

\* Mutant of CountWith: every call counts.
CountEveryCall(r, u) == approvalCount[u] + 1

\* The approvals of the update with this call; a relayer counts once.
CountWith(r, u) == IF r \in approvals[u] THEN approvalCount[u] ELSE approvalCount[u] + 1

\* Too few approvals: this one is recorded.
Approve(r, u) ==
  /\ Acceptable(r, u)
  /\ CountWith(r, u) < RequiredConfirmations
  /\ seenRelayers' = seenRelayers \cup {r}
  /\ approvals' = [approvals EXCEPT ![u] = @ \cup {r}]
  /\ approvalCount' = [approvalCount EXCEPT ![u] = CountWith(r, u)]
  /\ UNCHANGED <<merkleVars, now, roleVars, syncVars>>

\* The storage of the approvals is freed by a walk over the relayers seen.
ForgetApprovals(r, u) ==
  /\ seenRelayers' = seenRelayers \cup {r}
  /\ approvalCount' = [approvalCount EXCEPT ![u] = 0]
  /\ approvals' = [approvals EXCEPT ![u] = (@ \cup {r}) \ seenRelayers']

\* Mutant of RecordRoot: the slot follows the nonce.
RecordByNonce(u) ==
  /\ rootHistory' = Recorded(rootHistory, u.nonce, MaxRootHistory, u.root)
  /\ historyIndex' = historyIndex + 1

RecordRoot(u) ==
  /\ rootHistory' = Recorded(rootHistory, historyIndex, MaxRootHistory, u.root)
  /\ historyIndex' = historyIndex + 1

\* Enough approvals.  When the interval or the registry refuses, the whole call
\* is undone, this approval included.
Sync(r, u) ==
  /\ Acceptable(r, u)
  /\ CountWith(r, u) >= RequiredConfirmations
  /\ now - lastSyncTime >= MinSyncInterval
  /\ ForgetApprovals(r, u)
  /\ syncNonce' = u.nonce
  /\ lastSyncTime' = now
  /\ lastSyncedRoot' = u.root
  /\ executedUpdates' = executedUpdates \cup {u}
  /\ RecordRoot(u)
  /\ UpdateMerkleRoot(u.root)
  /\ UNCHANGED roleVars

-----------------------------------------------------------------------------
(***************************************************************************)
(* Administration, and the other users of the registry.                    *)
(***************************************************************************)

SetRelayers(s) ==
  /\ relayers' = s
  /\ UNCHANGED <<merkleVars, now, authorizedSenders, approvalVars, syncVars>>

GrantRelayer(r) == SetRelayers(relayers \cup {r})
RevokeRelayer(r) == SetRelayers(relayers \ {r})

SetSenders(s) ==
  /\ authorizedSenders' = s
  /\ UNCHANGED <<merkleVars, now, relayers, approvalVars, syncVars>>

AuthorizeSender(s) == SetSenders(authorizedSenders \cup {s})
DeauthorizeSender(s) == SetSenders(authorizedSenders \ {s})

RegistryStep == MerkleNext /\ UNCHANGED <<roleVars, approvalVars, syncVars>>

Tick ==
  /\ now < MaxTime
  /\ now' = now + 1
  /\ UNCHANGED <<merkleVars, roleVars, approvalVars, syncVars>>

Next ==
  \/ \E r \in Account :
       \/ \E u \in Update : Approve(r, u) \/ Sync(r, u)
       \/ GrantRelayer(r) \/ RevokeRelayer(r)
  \/ \E s \in Sender : AuthorizeSender(s) \/ DeauthorizeSender(s)
  \/ RegistryStep
  \/ Tick

Spec == Init /\ [][Next]_vars

-----------------------------------------------------------------------------
(***************************************************************************)
(* Properties.                                                             *)
(***************************************************************************)

\* The counter of an update is the number of relayers whose approval is stored,
\* also when a relayer calls again or loses its role, and after the walk over
\* the relayers seen has freed the approvals of an executed update.
ApprovalsCounted ==
  \A u \in Update : approvalCount[u] = Cardinality(approvals[u])

\* One update was executed for each number up to the last, and no other: no
\* number is skipped, none is used by two rival updates.
OneUpdatePerNonce ==
  /\ {u.nonce : u \in executedUpdates} = 1 .. syncNonce
  /\ \A u, v \in executedUpdates : u.nonce = v.nonce => u = v

\* An update on which some relayers already agreed cannot become stale while it
\* waits for the others: its number is next, and it still passes the checks of
\* its time and its root.
OpenApprovalsValid ==
  \A u \in Update : approvalCount[u] > 0 /\ u.nonce > syncNonce =>
    /\ u.nonce = syncNonce + 1
    /\ u.timestamp + SyncTolerance >= lastSyncTime
    /\ u.timestamp <= now + FutureBound
    /\ u.root # ZeroRoot

\* The ring of roots holds the roots of the latest updates, each at the slot of
\* its number, before and after it wraps around.
LatestSyncsKept ==
  \A u \in executedUpdates : u.nonce + MaxRootHistory > syncNonce =>
    LET slot == ((u.nonce - 1) % MaxRootHistory) + 1
    IN  slot <= Len(rootHistory) /\ rootHistory[slot] = u.root

\* The bridge passes an update on only with the approvals of three relayers,
\* in the same step as the registry takes its root.
SyncHasQuorum ==
  [][syncNonce' # syncNonce =>
       \E u \in Update \ executedUpdates :
         /\ executedUpdates' = executedUpdates \cup {u}
         /\ u.nonce = syncNonce'
         /\ lastSyncedRoot' = u.root /\ merkleRoot' = u.root
         /\ \E r \in relayers :
              Cardinality(approvals[u] \cup {r}) >= RequiredConfirmations]_vars
=============================================================================
