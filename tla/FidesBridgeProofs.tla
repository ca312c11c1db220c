-------------------------- MODULE FidesBridgeProofs --------------------------
(***************************************************************************)
(* The theorems about the bridge, for any relayers, updates, intervals and *)
(* ring sizes.                                                             *)
(*                                                                         *)
(* The argument: the counter of an update changes with the set of its      *)
(* approvals, so three counted are three relayers; approvals are only      *)
(* taken for the next number, so that when a number is used no update of a *)
(* later one has any, and the time that the checks refer to does not move  *)
(* while an update waits for its third approval.                           *)
(***************************************************************************)
EXTENDS FidesBridgeReceiver, FiniteSetTheorems, TLAPS

IInv == TypeOK /\ ApprovalsCounted /\ OneUpdatePerNonce /\ OpenApprovalsValid

-----------------------------------------------------------------------------
\* A ring keeps its bound and its type.
LEMMA RingTyped ==
  ASSUME NEW ring \in Seq(Root), NEW index \in Nat, NEW size \in Nat \ {0},
         NEW root \in Root, Len(ring) <= size
  PROVE  /\ Recorded(ring, index, size, root) \in Seq(Root)
         /\ Len(Recorded(ring, index, size, root)) <= size
<1>1. CASE Len(ring) < size
  BY <1>1 DEF Recorded
<1>2. CASE ~(Len(ring) < size)
  <2>1. Len(ring) = size
    BY <1>2
  <2>2. (index % size) + 1 \in 1 .. Len(ring)
    BY <2>1
  <2> QED BY <1>2, <2>1, <2>2 DEF Recorded
<1> QED BY <1>1, <1>2

\* A step of the registry keeps its types.
LEMMA ReplaceRootTyped ==
  ASSUME MerkleTypeOK, NEW root \in Root, ReplaceRoot(root)
  PROVE  /\ merkleRoot' \in Root \ {ZeroRoot}
         /\ merkleRootHistory' \in Seq(Root)
         /\ Len(merkleRootHistory') <= MaxHistory
         /\ merkleHistoryIndex' \in Nat
BY MerkleAssumption, RingTyped DEF MerkleTypeOK, ReplaceRoot

LEMMA MerkleStepTyped ==
  ASSUME MerkleTypeOK, MerkleNext
  PROVE  MerkleTypeOK' /\ now' = now
<1>1. ASSUME NEW root \in Root, UpdateMerkleRoot(root)
      PROVE  MerkleTypeOK' /\ now' = now
  BY <1>1, ReplaceRootTyped DEF UpdateMerkleRoot, MerkleTypeOK
<1>2. ASSUME NEW root \in Root, UpdateMerkleRootFromOracle(root)
      PROVE  MerkleTypeOK' /\ now' = now
  BY <1>2, ReplaceRootTyped DEF UpdateMerkleRootFromOracle, MerkleTypeOK
<1>3. CASE PauseMerkle \/ UnpauseMerkle
  BY <1>3 DEF PauseMerkle, UnpauseMerkle, rootVars, MerkleTypeOK
<1> QED BY <1>1, <1>2, <1>3 DEF MerkleNext

\* The approvals of an update are counted with the call of one more relayer.
LEMMA CountWithIsCardinality ==
  ASSUME TypeOK, ApprovalsCounted, NEW r \in Account, NEW u \in Update
  PROVE  /\ CountWith(r, u) \in Nat
         /\ CountWith(r, u) = Cardinality(approvals[u] \cup {r})
<1>1. IsFiniteSet(approvals[u])
  BY FS_Subset DEF TypeOK
<1>2. Cardinality(approvals[u]) \in Nat /\ approvalCount[u] = Cardinality(approvals[u])
  BY <1>1, FS_CardinalityType DEF ApprovalsCounted
<1>3. Cardinality(approvals[u] \cup {r}) =
        IF r \in approvals[u] THEN Cardinality(approvals[u]) ELSE Cardinality(approvals[u]) + 1
  BY <1>1, FS_AddElement
<1> QED BY <1>2, <1>3 DEF CountWith

-----------------------------------------------------------------------------
LEMMA InitInv == Init => IInv
<1> SUFFICES ASSUME Init PROVE IInv
  OBVIOUS
<1> USE MerkleAssumption, BridgeAssumption DEF Init, MerkleInit
<1>1. TypeOK
  <2>1. <<InitialRoot>> \in Seq(Root) /\ Len(<<InitialRoot>>) = 1
    OBVIOUS
  <2>2. MerkleTypeOK
    <3>1. merkleRootHistory \in Seq(Root) /\ Len(merkleRootHistory) <= MaxHistory
      BY <2>1
    <3>2. StartTime \in Nat
      OBVIOUS
    <3> QED BY <3>1, <3>2 DEF MerkleTypeOK
  <2>3. rootHistory \in Seq(Root) /\ Len(rootHistory) <= MaxRootHistory
    OBVIOUS
  <2>4. IsFiniteSet(seenRelayers)
    BY FS_EmptySet
  <2>5. approvals \in [Update -> SUBSET seenRelayers] /\ approvalCount \in [Update -> Nat]
    OBVIOUS
  <2> QED BY <2>2, <2>3, <2>4, <2>5 DEF TypeOK
<1>2. ApprovalsCounted
  BY FS_EmptySet DEF ApprovalsCounted
<1>3. OneUpdatePerNonce
  BY DEF OneUpdatePerNonce
<1>4. OpenApprovalsValid
  BY DEF OpenApprovalsValid
<1> QED BY <1>1, <1>2, <1>3, <1>4 DEF IInv

\* An approval is recorded.
LEMMA ApproveKeepsInv ==
  ASSUME IInv, NEW r \in Account, NEW u \in Update, Approve(r, u)
  PROVE  IInv'
<1> USE DEF IInv
<1>1. CountWith(r, u) \in Nat /\ CountWith(r, u) = Cardinality(approvals[u] \cup {r})
  BY CountWithIsCardinality
<1>2. UNCHANGED <<merkleVars, rootVars, now, roleVars, syncVars>>
  BY DEF Approve, merkleVars
<1>3. TypeOK'
  <2>1. seenRelayers' \subseteq Account /\ IsFiniteSet(seenRelayers')
    BY FS_AddElement DEF Approve, TypeOK
  <2>2. approvals' \in [Update -> SUBSET seenRelayers']
    BY DEF Approve, TypeOK
  <2>3. approvalCount' \in [Update -> Nat]
    BY <1>1 DEF Approve, TypeOK
  <2> QED
    BY <1>2, <2>1, <2>2, <2>3
    DEF TypeOK, MerkleTypeOK, merkleVars, rootVars, roleVars, syncVars
<1>4. ApprovalsCounted'
  BY <1>1 DEF Approve, TypeOK, ApprovalsCounted
<1>5. OneUpdatePerNonce'
  BY <1>2 DEF OneUpdatePerNonce, syncVars
<1>6. OpenApprovalsValid'
  BY <1>2 DEF OpenApprovalsValid, Approve, Acceptable, NextNonce, TypeOK, syncVars
<1> QED BY <1>3, <1>4, <1>5, <1>6

\* An update passes.
LEMMA SyncKeepsInv ==
  ASSUME IInv, NEW r \in Account, NEW u \in Update, Sync(r, u)
  PROVE  IInv'
<1> USE DEF IInv
<1>1. /\ u.root \in Root /\ u.nonce \in Nat /\ u.nonce = syncNonce + 1
      /\ syncNonce' = u.nonce /\ lastSyncTime' = now
      /\ executedUpdates' = executedUpdates \cup {u}
  BY BridgeAssumption DEF Sync, Acceptable, NextNonce
<1>2. /\ seenRelayers' = seenRelayers \cup {r}
      /\ approvalCount' = [approvalCount EXCEPT ![u] = 0]
      /\ approvals' = [approvals EXCEPT ![u] = {}]
  BY DEF Sync, ForgetApprovals, TypeOK
<1>3. TypeOK'
  <2>1. MerkleTypeOK'
    <3>1. UpdateMerkleRoot(u.root)
      BY DEF Sync
    <3> QED BY <1>1, <3>1, MerkleStepTyped DEF MerkleNext, TypeOK
  <2>2. seenRelayers' \subseteq Account /\ IsFiniteSet(seenRelayers')
    BY <1>2, FS_AddElement DEF TypeOK
  <2>3. approvals' \in [Update -> SUBSET seenRelayers'] /\ approvalCount' \in [Update -> Nat]
    BY <1>2 DEF TypeOK
  <2>4. rootHistory' \in Seq(Root) /\ Len(rootHistory') <= MaxRootHistory /\ historyIndex' \in Nat
    BY <1>1, RingTyped, BridgeAssumption DEF Sync, RecordRoot, TypeOK
  <2>5. lastSyncTime' \in Nat /\ syncNonce' \in Nat
    BY <1>1 DEF TypeOK, MerkleTypeOK
  <2>6. /\ relayers' \subseteq Account /\ authorizedSenders' \subseteq Sender
        /\ executedUpdates' \subseteq Update /\ lastSyncedRoot' \in Root \cup {ZeroRoot}
    BY <1>1 DEF Sync, roleVars, TypeOK
  <2> QED BY <2>1, <2>2, <2>3, <2>4, <2>5, <2>6 DEF TypeOK
<1>4. ApprovalsCounted'
  BY <1>2, FS_EmptySet DEF TypeOK, ApprovalsCounted
<1>5. OneUpdatePerNonce'
  <2>1. {v.nonce : v \in executedUpdates'} = {v.nonce : v \in executedUpdates} \cup {u.nonce}
    BY <1>1
  <2>2. 1 .. syncNonce' = (1 .. syncNonce) \cup {syncNonce + 1}
    BY <1>1 DEF TypeOK
  <2>3. ASSUME NEW v \in executedUpdates
        PROVE  v.nonce # u.nonce
    <3>1. v.nonce \in 1 .. syncNonce
      BY DEF OneUpdatePerNonce
    <3> QED BY <1>1, <3>1 DEF TypeOK
  <2>4. {v.nonce : v \in executedUpdates'} = 1 .. syncNonce'
    BY <1>1, <2>1, <2>2 DEF OneUpdatePerNonce
  <2>5. \A v, w \in executedUpdates' : v.nonce = w.nonce => v = w
    BY <1>1, <2>3 DEF OneUpdatePerNonce
  <2> QED BY <2>4, <2>5 DEF OneUpdatePerNonce
<1>6. OpenApprovalsValid'
  <2> SUFFICES ASSUME NEW v \in Update, approvalCount'[v] > 0, v.nonce > syncNonce'
               PROVE  FALSE
    BY DEF OpenApprovalsValid
  <2>1. v # u /\ approvalCount[v] > 0
    BY <1>2 DEF TypeOK
  <2>2. v.nonce \in Nat /\ syncNonce \in Nat
    BY BridgeAssumption DEF TypeOK
  <2>3. v.nonce > syncNonce
    BY <1>1, <2>2
  <2>4. v.nonce = syncNonce + 1
    BY <2>1, <2>3 DEF OpenApprovalsValid
  <2> QED BY <1>1, <2>2, <2>4
<1> QED BY <1>3, <1>4, <1>5, <1>6

LEMMA NextInv == IInv /\ [Next]_vars => IInv'
<1> SUFFICES ASSUME IInv, [Next]_vars PROVE IInv'
  OBVIOUS
<1> USE DEF IInv
<1>1. ASSUME NEW r \in Account, NEW u \in Update, Approve(r, u) \/ Sync(r, u)
      PROVE  IInv'
  BY <1>1, ApproveKeepsInv, SyncKeepsInv
<1>2. ASSUME NEW r \in Account, GrantRelayer(r) \/ RevokeRelayer(r)
      PROVE  IInv'
  BY <1>2
  DEF GrantRelayer, RevokeRelayer, SetRelayers, merkleVars, rootVars, approvalVars, syncVars,
      TypeOK, MerkleTypeOK, ApprovalsCounted, OneUpdatePerNonce, OpenApprovalsValid
<1>3. ASSUME NEW s \in Sender, AuthorizeSender(s) \/ DeauthorizeSender(s)
      PROVE  IInv'
  BY <1>3
  DEF AuthorizeSender, DeauthorizeSender, SetSenders, merkleVars, rootVars, approvalVars,
      syncVars, TypeOK, MerkleTypeOK, ApprovalsCounted, OneUpdatePerNonce, OpenApprovalsValid
<1>4. CASE RegistryStep
  <2>1. MerkleTypeOK' /\ now' = now
    BY <1>4, MerkleStepTyped DEF RegistryStep, TypeOK
  <2> QED
    BY <1>4, <2>1
    DEF RegistryStep, roleVars, approvalVars, syncVars,
        TypeOK, ApprovalsCounted, OneUpdatePerNonce, OpenApprovalsValid
<1>5. CASE Tick
  <2>1. now \in Nat /\ now' = now + 1
    BY <1>5 DEF Tick, TypeOK, MerkleTypeOK
  <2>2. UNCHANGED <<merkleVars, roleVars, approvalVars, syncVars>>
    BY <1>5 DEF Tick
  <2>3. TypeOK'
    BY <2>1, <2>2
    DEF merkleVars, rootVars, roleVars, approvalVars, syncVars, TypeOK, MerkleTypeOK
  <2>4. OpenApprovalsValid'
    <3> SUFFICES ASSUME NEW u \in Update, approvalCount[u] > 0, u.nonce > syncNonce
                 PROVE  /\ u.nonce = syncNonce + 1
                        /\ u.timestamp + SyncTolerance >= lastSyncTime
                        /\ u.timestamp <= now' + FutureBound
                        /\ u.root # ZeroRoot
      BY <2>2 DEF OpenApprovalsValid, approvalVars, syncVars
    <3>1. u.timestamp \in Nat
      BY BridgeAssumption
    <3> QED BY <2>1, <3>1, BridgeAssumption DEF OpenApprovalsValid
  <2> QED
    BY <2>2, <2>3, <2>4 DEF approvalVars, syncVars, ApprovalsCounted, OneUpdatePerNonce
<1>6. CASE UNCHANGED vars
  BY <1>6
  DEF vars, merkleVars, rootVars, roleVars, approvalVars, syncVars,
      TypeOK, MerkleTypeOK, ApprovalsCounted, OneUpdatePerNonce, OpenApprovalsValid
<1> QED BY <1>1, <1>2, <1>3, <1>4, <1>5, <1>6 DEF Next

\* The invariant holds always.
LEMMA InvAlways == Spec => []IInv
BY InitInv, NextInv, PTL DEF Spec

-----------------------------------------------------------------------------
(* The ring of roots *)

\* Numbers that are less than the size of the ring apart have slots of their own.
LEMMA DivisionFacts ==
  ASSUME NEW m \in Nat \ {0}, NEW a \in Nat
  PROVE  a \div m \in Nat /\ a % m \in 0 .. m - 1 /\ a = m * (a \div m) + (a % m)
OBVIOUS

LEMMA SmallModulo ==
  ASSUME NEW m \in Nat \ {0}, NEW a \in Nat, a < m
  PROVE  a % m = a
OBVIOUS

LEMMA MultipleOf ==
  ASSUME NEW m \in Nat \ {0}, NEW q \in Int
  PROVE  m * q >= m \/ m * q <= 0
<1>1. CASE q >= 1
  BY <1>1
<1>2. CASE q <= 0
  BY <1>2
<1> QED BY <1>1, <1>2

LEMMA SlotsApart ==
  ASSUME NEW m \in Nat \ {0}, NEW a \in Nat, NEW b \in Nat, a < b, b < a + m
  PROVE  a % m # b % m
<1> DEFINE p == a \div m
           q == b \div m
<1>1. p \in Nat /\ q \in Nat /\ a = m * p + (a % m) /\ b = m * q + (b % m)
  BY DivisionFacts
<1>2. q - p \in Int /\ m * (q - p) = m * q - m * p
  BY <1>1
<1>3. m * (q - p) >= m \/ m * (q - p) <= 0
  BY <1>2, MultipleOf
<1>4. m * p \in Nat /\ m * q \in Nat /\ a % m \in Nat
  BY <1>1, DivisionFacts
<1> HIDE DEF p, q
<1> SUFFICES ASSUME a % m = b % m PROVE FALSE
  OBVIOUS
<1>5. m * q - m * p = b - a
  BY <1>1, <1>4
<1> QED BY <1>2, <1>3, <1>5

\* The ring grows with the number of updates and is then full.
RingFollows ==
  /\ historyIndex = syncNonce
  /\ Len(rootHistory) = IF syncNonce < MaxRootHistory THEN syncNonce ELSE MaxRootHistory

RInv == IInv /\ RingFollows /\ LatestSyncsKept

\* The slot of a new root holds it, no other slot changes.
LEMMA RecordedRoot ==
  ASSUME NEW ring \in Seq(Root), NEW n \in Nat, NEW root \in Root, NEW m \in Nat \ {0},
         Len(ring) = IF n < m THEN n ELSE m
  PROVE  LET after == Recorded(ring, n, m, root)
         IN  /\ Len(after) = IF n + 1 < m THEN n + 1 ELSE m
             /\ after[(n % m) + 1] = root
             /\ (n % m) + 1 \in 1 .. Len(after)
             /\ \A k \in 1 .. Len(ring) : k # (n % m) + 1 => after[k] = ring[k]
             /\ Len(ring) <= Len(after)
<1> DEFINE after == Recorded(ring, n, m, root)
<1>1. CASE n < m
  <2>1. after = Append(ring, root) /\ Len(ring) = n
    BY <1>1 DEF Recorded
  <2>2. n % m = n
    BY <1>1, SmallModulo
  <2>3. /\ Len(after) = n + 1 /\ after[n + 1] = root
        /\ \A k \in 1 .. n : after[k] = ring[k]
    BY <2>1
  <2> HIDE DEF after
  <2>4. Len(after) = IF n + 1 < m THEN n + 1 ELSE m
    BY <1>1, <2>3
  <2> QED BY <2>1, <2>2, <2>3, <2>4 DEF after
<1>2. CASE ~ (n < m)
  <2>1. after = [ring EXCEPT ![(n % m) + 1] = root] /\ Len(ring) = m
    BY <1>2 DEF Recorded
  <2>2. (n % m) + 1 \in 1 .. m
    <3>1. n % m \in 0 .. m - 1
      BY DivisionFacts
    <3> QED BY <3>1
  <2>3. Len(after) = m
    BY <2>1, <2>2
  <2>4. /\ after[(n % m) + 1] = root
        /\ \A k \in 1 .. m : k # (n % m) + 1 => after[k] = ring[k]
    BY <2>1, <2>2
  <2> HIDE DEF after
  <2>5. Len(after) = IF n + 1 < m THEN n + 1 ELSE m
    BY <1>2, <2>3
  <2> QED BY <2>1, <2>2, <2>3, <2>4, <2>5 DEF after
<1> QED BY <1>1, <1>2

LEMMA SyncKeepsRing ==
  ASSUME RInv, NEW r \in Account, NEW u \in Update, Sync(r, u)
  PROVE  RingFollows' /\ LatestSyncsKept'
<1> DEFINE m == MaxRootHistory
           n == syncNonce
           Slot(x) == ((x - 1) % m) + 1
<1>1. /\ u.root \in Root /\ u.nonce = n + 1 /\ syncNonce' = n + 1
      /\ executedUpdates' = executedUpdates \cup {u}
      /\ m \in Nat \ {0} /\ n \in Nat /\ rootHistory \in Seq(Root)
  BY BridgeAssumption DEF Sync, Acceptable, NextNonce, RInv, IInv, TypeOK
<1>2. /\ rootHistory' = Recorded(rootHistory, n, m, u.root) /\ historyIndex' = n + 1
      /\ Len(rootHistory) = IF n < m THEN n ELSE m
  BY DEF Sync, RecordRoot, RInv, RingFollows
<1>3. /\ Len(rootHistory') = IF n + 1 < m THEN n + 1 ELSE m
      /\ rootHistory'[(n % m) + 1] = u.root
      /\ (n % m) + 1 \in 1 .. Len(rootHistory')
      /\ \A k \in 1 .. Len(rootHistory) : k # (n % m) + 1 => rootHistory'[k] = rootHistory[k]
      /\ Len(rootHistory) <= Len(rootHistory')
  BY <1>1, <1>2, RecordedRoot
<1>4. RingFollows'
  BY <1>1, <1>2, <1>3 DEF RingFollows
<1>5. Slot(n + 1) = (n % m) + 1
  BY <1>1
<1>6. ASSUME NEW v \in executedUpdates', v.nonce + m > n + 1
      PROVE  Slot(v.nonce) <= Len(rootHistory') /\ rootHistory'[Slot(v.nonce)] = v.root
  <2>1. CASE v = u
    BY <1>1, <1>3, <1>5, <2>1
  <2>2. CASE v # u
    <3>1. v \in executedUpdates /\ v.nonce \in 1 .. n
      BY <1>1, <2>2 DEF RInv, IInv, OneUpdatePerNonce
    <3>2. v.nonce - 1 \in Nat /\ v.nonce - 1 < n /\ n < (v.nonce - 1) + m /\ v.nonce + m > n
      BY <1>1, <1>6, <3>1
    <3>3. Slot(v.nonce) <= Len(rootHistory) /\ rootHistory[Slot(v.nonce)] = v.root
      BY <3>1, <3>2 DEF RInv, LatestSyncsKept
    <3>4. (v.nonce - 1) % m # n % m
      BY <1>1, <3>2, SlotsApart
    <3>5. (v.nonce - 1) % m \in 0 .. m - 1 /\ n % m \in 0 .. m - 1
      BY <1>1, <3>2, DivisionFacts
    <3>6. Slot(v.nonce) \in 1 .. Len(rootHistory) /\ Slot(v.nonce) # (n % m) + 1
      BY <1>1, <3>3, <3>4, <3>5
    <3> HIDE DEF Slot
    <3> QED BY <1>1, <1>3, <3>3, <3>6
  <2> QED BY <2>1, <2>2
<1>7. LatestSyncsKept'
  BY <1>1, <1>6 DEF LatestSyncsKept
<1> QED BY <1>4, <1>7

LEMMA RingStays ==
  ASSUME RingFollows, LatestSyncsKept, UNCHANGED syncVars
  PROVE  RingFollows' /\ LatestSyncsKept'
BY DEF RingFollows, LatestSyncsKept, syncVars

LEMMA NextRing == RInv /\ [Next]_vars => RInv'
<1> SUFFICES ASSUME RInv, [Next]_vars PROVE RInv'
  OBVIOUS
<1>1. IInv'
  BY NextInv DEF RInv
<1>2. CASE \E r \in Account, u \in Update : Sync(r, u)
  BY <1>1, <1>2, SyncKeepsRing DEF RInv
<1>3. CASE ~ \E r \in Account, u \in Update : Sync(r, u)
  <2>1. UNCHANGED syncVars
    BY <1>3 DEF Next, Approve, GrantRelayer, RevokeRelayer, SetRelayers, AuthorizeSender,
                DeauthorizeSender, SetSenders, RegistryStep, Tick, vars
  <2> QED BY <1>1, <2>1, RingStays DEF RInv
<1> QED BY <1>2, <1>3

LEMMA InitRing == Init => RInv
<1> SUFFICES ASSUME Init PROVE RingFollows /\ LatestSyncsKept
  BY InitInv DEF RInv
<1>1. RingFollows
  BY BridgeAssumption DEF Init, RingFollows
<1>2. LatestSyncsKept
  BY DEF Init, LatestSyncsKept
<1> QED BY <1>1, <1>2

-----------------------------------------------------------------------------
\* The storage of the bridge and of its registry stays well-typed.
THEOREM BridgeTypeSafety == Spec => []TypeOK
BY InvAlways, PTL DEF IInv

\* The counter of an update is the number of its stored approvals.
THEOREM ApprovalsAlwaysCounted == Spec => []ApprovalsCounted
BY InvAlways, PTL DEF IInv

\* Each number up to the last was used by exactly one update.
THEOREM NoncesNeverSkipped == Spec => []OneUpdatePerNonce
BY InvAlways, PTL DEF IInv

\* A partly approved update never becomes stale.
THEOREM OpenApprovalsStayValid == Spec => []OpenApprovalsValid
BY InvAlways, PTL DEF IInv

\* The number only moves in Sync.
LEMMA SyncNonceMoves ==
  ASSUME [Next]_vars, syncNonce' # syncNonce
  PROVE  \E r \in Account, u \in Update : Sync(r, u)
BY DEF Next, Approve, GrantRelayer, RevokeRelayer, SetRelayers, AuthorizeSender,
       DeauthorizeSender, SetSenders, RegistryStep, Tick, vars, syncVars

\* No root reaches the registry through the bridge without three relayers.
THEOREM SyncsHaveQuorum == Spec => SyncHasQuorum
<1>1. ASSUME IInv, [Next]_vars, syncNonce' # syncNonce
      PROVE  \E u \in Update \ executedUpdates :
               /\ executedUpdates' = executedUpdates \cup {u}
               /\ u.nonce = syncNonce'
               /\ lastSyncedRoot' = u.root /\ merkleRoot' = u.root
               /\ \E r \in relayers :
                    Cardinality(approvals[u] \cup {r}) >= RequiredConfirmations
  <2>1. PICK r \in Account, u \in Update : Sync(r, u)
    BY <1>1, SyncNonceMoves
  <2>2. r \in relayers /\ u \notin executedUpdates
    BY <2>1 DEF Sync, Acceptable
  <2>3. Cardinality(approvals[u] \cup {r}) >= RequiredConfirmations
    BY <1>1, <2>1, CountWithIsCardinality DEF IInv, Sync
  <2>4. /\ executedUpdates' = executedUpdates \cup {u} /\ u.nonce = syncNonce'
        /\ lastSyncedRoot' = u.root /\ merkleRoot' = u.root
    BY <2>1 DEF Sync, UpdateMerkleRoot, ReplaceRoot
  <2> QED BY <2>2, <2>3, <2>4
<1> QED BY <1>1, InvAlways, PTL DEF Spec, SyncHasQuorum

\* The ring holds the roots of the latest updates, also after it wrapped around.
THEOREM LatestRootsKept == Spec => []LatestSyncsKept
<1>1. RInv => LatestSyncsKept
  BY DEF RInv
<1> QED BY <1>1, InitRing, NextRing, PTL DEF Spec
=============================================================================
