------------------------ MODULE RiskPublisherProofs ------------------------
(***************************************************************************)
(* Safety of the publisher, for any addresses, polls, batches and bounds:  *)
(* a message is acknowledged only after its profile was on chain, and no   *)
(* more workers read and write the chain at a time than one and as many as *)
(* renewals of the lock failed.                                            *)
(*                                                                         *)
(* The acknowledgement comes two steps after the receipt.  What carries    *)
(* the fact over those steps, the reclaims of the message by other polls   *)
(* and the transactions nobody waits for, is the inductive invariant: a    *)
(* transaction some poll waits for is the only one with this waiter and    *)
(* has the profile of the message the poll handles, and a poll that        *)
(* succeeded handles a message that was applied.                           *)
(*                                                                         *)
(* A failed renewal lets one lease run out.  What lets no more writers in  *)
(* is a debt: the writers without the lock, and one more when no timer     *)
(* renews the lease of a live holder, are at most the failed renewals.  A  *)
(* late release that stops the timer of another holder pays with the       *)
(* writer it ends.                                                         *)
(***************************************************************************)
EXTENDS RiskPublisher, SequenceTheorems, FiniteSetTheorems, TLAPS

Succeeded == {"skipped", "confirmed", "handled"}

OffIsEmpty == \A p \in Poll : stage[p] = "off" => todo[p] = {}

MessageType == [address : Address, risk : Payload, source : {"backend", "publisher"}]

Publishes(p) == Handling(p) /\ Current(p).risk \in Publishable

BusyPollsHandle == \A p \in Poll : step[p] # "none" => Publishes(p)

SuccessesApplied == \A p \in Poll : step[p] \in Succeeded => CurrentId(p) \in applied

Awaited ==
  \A i \in 1 .. Len(mempool), w \in Worker : mempool[i].waiter = w =>
    /\ step[w] = "sent"
    /\ \A j \in 1 .. Len(mempool) : mempool[j].waiter = w => j = i
    /\ w \in Poll => mempool[i].profile = Profile(w)

TimerIsHolders == watchdog # Nobody => watchdog = lock

Unrenewed == IF lock \in Worker /\ watchdog # lock THEN 1 ELSE 0

DebtBounded == Cardinality(Writers \ {lock}) + Unrenewed <= misses

LockInv == TimerIsHolders /\ DebtBounded

IInv ==
  /\ TypeOK
  /\ OffIsEmpty
  /\ BusyPollsHandle
  /\ SuccessesApplied
  /\ Awaited
  /\ AckedWasApplied
  /\ LockInv

\* A sync job that is publishing has a profile to publish.
JobHasBatch == step[SyncJob] # "none" => batch # <<>>

\* The stream keeps its messages and their positions.
StreamKept ==
  /\ Len(stream') \in Nat
  /\ Len(stream) <= Len(stream')
  /\ \A i \in 1 .. Len(stream) : stream'[i] = stream[i]

-----------------------------------------------------------------------------
(* The polls *)

\* A poll that handles something handles one of its messages.
LEMMA CurrentInTodo ==
  ASSUME NEW p \in Poll, Handling(p)
  PROVE  CurrentId(p) \in todo[p]
BY DEF Handling, CurrentId

\* It is a message of the stream.
LEMMA CurrentInStream ==
  ASSUME TypeOK, NEW p \in Poll, Handling(p)
  PROVE  CurrentId(p) \in 1 .. delivered /\ CurrentId(p) \in 1 .. Len(stream)
<1>1. CurrentId(p) \in todo[p] /\ todo[p] \subseteq 1 .. delivered
  BY CurrentInTodo DEF TypeOK
<1>2. Len(stream) \in Nat /\ delivered \in 0 .. Len(stream)
  BY DEF TypeOK
<1> QED BY <1>1, <1>2

\* What a poll handles does not change with the messages of the others.
LEMMA SameTodo ==
  ASSUME NEW p \in Poll, todo'[p] = todo[p]
  PROVE  /\ Handling(p)' <=> Handling(p)
         /\ CurrentId(p)' = CurrentId(p)
BY DEF Handling, CurrentId, IsFirst

\* Nor does the message itself: the stream keeps it.
LEMMA SameCurrent ==
  ASSUME TypeOK, StreamKept, NEW p \in Poll, todo'[p] = todo[p], Handling(p)
  PROVE  Current(p)' = Current(p) /\ Handling(p)'
<1>1. CurrentId(p)' = CurrentId(p) /\ CurrentId(p) \in 1 .. Len(stream) /\ Handling(p)'
  BY SameTodo, CurrentInStream
<1>2. stream'[CurrentId(p)] = stream[CurrentId(p)]
  BY <1>1 DEF StreamKept
<1> QED BY <1>1, <1>2 DEF Current

\* So a poll that publishes goes on publishing,
LEMMA SamePublishes ==
  ASSUME TypeOK, StreamKept, NEW p \in Poll, todo'[p] = todo[p], Publishes(p)
  PROVE  Publishes(p)'
BY SameCurrent DEF Publishes

\* and publishes the same profile.
LEMMA SameProfileAfter ==
  ASSUME TypeOK, StreamKept, NEW p \in Poll, todo'[p] = todo[p], Handling(p)
  PROVE  Profile(p)' = Profile(p)
<1>1. Current(p)' = Current(p)
  BY SameCurrent
<1>2. p # SyncJob
  BY PublisherConstants
<1> QED BY <1>1, <1>2 DEF Profile

\* The observer forgets nothing and sees what is on chain.
LEMMA Observed ==
  ASSUME Observe
  PROVE  /\ applied \subseteq applied'
         /\ \A id \in 1 .. Len(stream') : OnChain(id)' => id \in applied'
BY DEF Observe

\* A poll whose profile is on chain after the step handles an applied message.
LEMMA ProfileOnChain ==
  ASSUME TypeOK, Observe, NEW p \in Poll, Handling(p),
         stream' = stream, todo'[p] = todo[p],
         registry'[Profile(p).address].risk = Profile(p).risk,
         registry'[Profile(p).address].sanctioned = FALSE
  PROVE  CurrentId(p)' \in applied'
<1>1. CurrentId(p)' = CurrentId(p) /\ CurrentId(p) \in 1 .. Len(stream)
  BY SameTodo, CurrentInStream
<1>2. /\ Profile(p).address = stream[CurrentId(p)].address
      /\ Profile(p).risk = stream[CurrentId(p)].risk
  BY PublisherConstants DEF Profile, Current
<1>3. OnChain(CurrentId(p))'
  BY <1>1, <1>2 DEF OnChain
<1> QED BY <1>1, <1>3, Observed

-----------------------------------------------------------------------------
(* Steps that send and mine nothing *)

\* What holds of polls and transactions outlives a step that leaves the mempool
\* and does not end a wait for a receipt.
LEMMA SameMempool ==
  ASSUME TypeOK, BusyPollsHandle, SuccessesApplied, Awaited, StreamKept, Observe,
         mempool' = mempool,
         \A w \in Worker : step'[w] = step[w] \/ step[w] # "sent"
                           \/ \A i \in 1 .. Len(mempool) : mempool[i].waiter # w,
         \A q \in Poll :
           \/ todo'[q] = todo[q] /\ step'[q] = step[q]
           \/ step'[q] = "none"
           \/ /\ todo'[q] = todo[q]
              /\ Publishes(q)
              /\ step'[q] \in Succeeded => CurrentId(q)' \in applied'
  PROVE  BusyPollsHandle' /\ SuccessesApplied' /\ Awaited'
<1>1. BusyPollsHandle'
  BY SamePublishes DEF BusyPollsHandle
<1>2. SuccessesApplied'
  BY SameTodo, Observed DEF SuccessesApplied, Succeeded
<1>3. Awaited'
  <2> SUFFICES ASSUME NEW i \in 1 .. Len(mempool), NEW w \in Worker,
                      mempool[i].waiter = w
               PROVE  /\ step'[w] = "sent"
                      /\ \A j \in 1 .. Len(mempool) : mempool[j].waiter = w => j = i
                      /\ w \in Poll => mempool[i].profile = Profile(w)'
    BY DEF Awaited
  <2>2. step[w] = "sent" /\ \A j \in 1 .. Len(mempool) : mempool[j].waiter = w => j = i
    BY DEF Awaited
  <2>3. step'[w] = "sent"
    BY <2>2
  <2>4. ASSUME w \in Poll
        PROVE  mempool[i].profile = Profile(w)'
    <3>1. todo'[w] = todo[w] /\ Handling(w)
      BY <2>2, <2>3, <2>4 DEF BusyPollsHandle, Publishes
    <3>2. mempool[i].profile = Profile(w)
      BY <2>4 DEF Awaited
    <3> QED BY <2>4, <3>1, <3>2, SameProfileAfter
  <2> QED BY <2>2, <2>3, <2>4
<1> QED BY <1>1, <1>2, <1>3

-----------------------------------------------------------------------------
(* Acknowledgements *)

\* What stops being pending was applied, is a dead letter or is nobody's.
LEMMA AckedKept ==
  ASSUME TypeOK, AckedWasApplied, Observe, StreamKept,
         deadLetters \subseteq deadLetters',
         \A id \in 1 .. delivered' : id \in 1 .. delivered \/ id \in pending',
         \A id \in pending : \/ id \in pending' \cup applied \cup deadLetters'
                            \/ stream[id].risk = Foreign
  PROVE  AckedWasApplied'
<1> SUFFICES ASSUME NEW id \in 1 .. delivered', id \notin pending'
             PROVE  id \in applied' \cup deadLetters' \/ stream'[id].risk = Foreign
  BY DEF AckedWasApplied
<1>1. id \in 1 .. delivered
  OBVIOUS
<1>2. id \in applied \cup deadLetters' \/ stream[id].risk = Foreign
  BY <1>1 DEF AckedWasApplied
<1>3. stream'[id] = stream[id]
  BY <1>1 DEF StreamKept, TypeOK
<1> QED BY <1>2, <1>3, Observed

-----------------------------------------------------------------------------
(* The debt of the lock *)

\* The workers are the polls and the sync job.
LEMMA WorkersFinite == IsFiniteSet(Worker)
<1>1. IsFiniteSet({SyncJob})
  BY FS_Singleton
<1> QED BY <1>1, PublisherConstants, FS_Union DEF Worker

\* Sets of workers have a size.
LEMMA DebtTyped ==
  ASSUME TypeOK, NEW S, S \subseteq Worker
  PROVE  IsFiniteSet(S) /\ Cardinality(S) \in Nat /\ misses \in Nat /\ faults \in Nat
<1>1. IsFiniteSet(S)
  BY WorkersFinite, FS_Subset
<1> QED BY <1>1, FS_CardinalityType DEF TypeOK

\* A worker that is where it was writes if it did.
LEMMA WritersWithin ==
  ASSUME \A w \in Worker : step'[w] \in {"reading", "sent"} \cup Finished
                            => step[w] \in {"reading", "sent"} \cup Finished
  PROVE  Writers' \subseteq Writers
BY DEF Writers, Finished

\* No new writer, and the lock and its timer stay.
LEMMA SameLock ==
  ASSUME TypeOK, LockInv, UNCHANGED <<lockVars, misses>>, Writers' \subseteq Writers
  PROVE  LockInv'
<1> USE DEF lockVars
<1>1. TimerIsHolders' /\ Unrenewed' = Unrenewed /\ Unrenewed \in {0, 1}
  BY DEF LockInv, TimerIsHolders, Unrenewed
<1>2. Writers' \ {lock'} \subseteq Writers \ {lock} /\ Writers \ {lock} \subseteq Worker
  BY DEF Writers
<1>3. Cardinality(Writers' \ {lock'}) <= Cardinality(Writers \ {lock})
  BY <1>2, DebtTyped, FS_Subset
<1>4. /\ Cardinality(Writers \ {lock}) \in Nat /\ Cardinality(Writers' \ {lock'}) \in Nat
      /\ misses \in Nat
  <2>1. Writers' \ {lock'} \subseteq Worker
    BY <1>2
  <2> QED BY <1>2, <2>1, DebtTyped
<1>5. Cardinality(Writers \ {lock}) + Unrenewed <= misses
  BY DEF LockInv, DebtBounded
<1>6. Cardinality(Writers' \ {lock'}) + Unrenewed' <= misses'
  BY <1>1, <1>3, <1>4, <1>5
<1> QED BY <1>1, <1>6 DEF LockInv, DebtBounded

\* A release ends a writer: with the lock it leaves no debt, without it the
\* timer it stops is paid for.
LEMMA ReleaseKeepsDebt ==
  ASSUME TypeOK, LockInv, NEW w \in Writers, Release(w), Writers' \subseteq Writers \ {w}
  PROVE  LockInv'
<1> USE DEF Release
<1>1. TimerIsHolders'
  BY DEF TimerIsHolders
<1>2. Writers \subseteq Worker /\ w \in Worker
  BY DEF Writers
<1>3. misses' = misses /\ Cardinality(Writers \ {lock}) + Unrenewed <= misses
  BY DEF LockInv, DebtBounded
<1>4. Cardinality(Writers' \ {lock'}) + Unrenewed' <= Cardinality(Writers \ {lock})
  <2> DEFINE A == Writers' \ {lock'}
             B == Writers \ {lock}
  <2>1. A \subseteq Worker /\ B \subseteq Worker
    BY <1>2
  <2>2. CASE lock = w
    <3>1. lock' \notin Worker /\ Unrenewed' = 0
      BY <2>2, PublisherConstants DEF Unrenewed
    <3>2. A \subseteq B
      BY <2>2
    <3>3. Cardinality(A) <= Cardinality(B) /\ Cardinality(A) \in Nat
      BY <2>1, <3>2, DebtTyped, FS_Subset
    <3> QED BY <3>1, <3>3
  <2>3. CASE lock # w
    <3>1. lock' = lock /\ Unrenewed' \in {0, 1}
      BY <2>3 DEF Unrenewed
    <3>2. A \subseteq B \ {w} /\ w \in B
      BY <2>3, <3>1
    <3>3. IsFiniteSet(B) /\ IsFiniteSet(B \ {w}) /\ Cardinality(B) \in Nat /\ Cardinality(A) \in Nat
      BY <2>1, DebtTyped
    <3>4. Cardinality(B \ {w}) = Cardinality(B) - 1
      BY <3>2, <3>3, FS_RemoveElement
    <3>5. Cardinality(A) <= Cardinality(B \ {w})
      BY <3>2, <3>3, FS_Subset
    <3> QED BY <3>1, <3>3, <3>4, <3>5
  <2> QED BY <2>2, <2>3
<1>5. /\ Cardinality(Writers \ {lock}) \in Nat /\ Cardinality(Writers' \ {lock'}) \in Nat
      /\ misses \in Nat /\ Unrenewed \in {0, 1} /\ Unrenewed' \in {0, 1}
  <2>1. Writers \ {lock} \subseteq Worker /\ Writers' \ {lock'} \subseteq Worker
    BY <1>2
  <2> QED BY <2>1, DebtTyped DEF Unrenewed
<1>6. Cardinality(Writers' \ {lock'}) + Unrenewed' <= misses'
  BY <1>3, <1>4, <1>5
<1> QED BY <1>1, <1>6 DEF LockInv, DebtBounded

-----------------------------------------------------------------------------
(* Typing *)

\* Appending a message keeps the stream.
LEMMA StreamExtended ==
  ASSUME TypeOK, NEW m \in MessageType,
         PublishRiskUpdate(m)
  PROVE  /\ StreamKept
         /\ stream' \in Seq(MessageType)
         /\ Len(stream') = Len(stream) + 1
BY DEF TypeOK, PublishRiskUpdate, StreamKept, MessageType

\* An unchanged stream is kept.
LEMMA StreamSame == ASSUME TypeOK, stream' = stream PROVE StreamKept
BY DEF TypeOK, StreamKept

\* The part of the types that is about the stream and its polls
StreamTypes ==
  /\ stream \in Seq(MessageType)
  /\ delivered \in 0 .. Len(stream)
  /\ idle \subseteq pending
  /\ pending \subseteq 1 .. delivered
  /\ deadLetters \subseteq 1 .. delivered
  /\ stage \in [Poll -> {"off", "reclaimed", "fresh"}]
  /\ todo \in [Poll -> SUBSET (1 .. delivered)]

\* The part that is about the chain and the workers, and that about the lock and
\* the faults
WorkerTypes ==
  /\ registry \in [Address -> [risk : Risk \cup {NoRisk}, sanctioned : BOOLEAN, recent : BOOLEAN]]
  /\ mempool \in Seq([profile : ProfileType, waiter : Worker \cup {Nobody}])
  /\ batch \in Seq(ProfileType)
  /\ step \in [Worker -> {"none", "reading", "sent", "handled"} \cup Finished]

LockTypes ==
  /\ nonceLost \in BOOLEAN
  /\ lock \in Worker \cup {Nobody, DeadHolder}
  /\ watchdog \in Worker \cup {Nobody}
  /\ faults \in Nat
  /\ misses \in 0 .. faults

\* The observer stays within the stream.
LEMMA TypesTogether ==
  ASSUME TypeOK, Observe, StreamKept, StreamTypes', WorkerTypes', LockTypes'
  PROVE  TypeOK'
<1>1. applied' \subseteq 1 .. Len(stream')
  <2>1. applied \subseteq 1 .. Len(stream) /\ Len(stream) \in Nat
    BY DEF TypeOK
  <2>2. 1 .. Len(stream) \subseteq 1 .. Len(stream')
    BY <2>1 DEF StreamKept
  <2> QED BY <2>1, <2>2 DEF Observe
<1> QED BY <1>1 DEF TypeOK, StreamTypes, WorkerTypes, LockTypes, MessageType

\* The types, taken apart
LEMMA TypesApart == ASSUME TypeOK PROVE StreamTypes /\ WorkerTypes /\ LockTypes
BY DEF TypeOK, StreamTypes, WorkerTypes, LockTypes, MessageType

\* Each part stays when its variables do.
LEMMA SameStreamTypes ==
  ASSUME StreamTypes, UNCHANGED streamVars
  PROVE  StreamTypes'
BY DEF StreamTypes, streamVars

\* The same for the workers
LEMMA SameWorkerTypes ==
  ASSUME WorkerTypes, UNCHANGED <<registry, mempool, step, batch>>
  PROVE  WorkerTypes'
BY DEF WorkerTypes

\* The same for the lock and the faults
LEMMA SameLockTypes ==
  ASSUME LockTypes, UNCHANGED <<nonceLost, lockVars, faultVars>>
  PROVE  LockTypes'
BY DEF LockTypes, lockVars, faultVars

\* A fault other than a renewal
LEMMA FaultTypes ==
  ASSUME LockTypes, Fault \/ UNCHANGED faults, UNCHANGED misses
  PROVE  faults' \in Nat /\ misses' \in 0 .. faults'
<1>1. faults \in Nat /\ misses \in 0 .. faults
  BY DEF LockTypes
<1> QED BY <1>1 DEF Fault

\* A release, whether Redis does it or not
LEMMA ReleaseTypes ==
  ASSUME LockTypes, NEW w \in Worker, Release(w), UNCHANGED nonceLost
  PROVE  LockTypes'
<1>1. faults' \in Nat /\ misses' \in 0 .. faults'
  BY FaultTypes DEF Release
<1> QED BY <1>1 DEF LockTypes, Release

-----------------------------------------------------------------------------
(* The steps of the stream *)

\* An update of the backend
LEMMA BackendUpdateStep ==
  ASSUME IInv, Observe, NEW a \in Address, NEW r \in Payload, BackendUpdate(a, r)
  PROVE  IInv'
<1> USE DEF BackendUpdate, chainVars, lockVars
<1>1. Message(a, r, "backend") \in
        MessageType
  BY DEF Message, MessageType
<1>2. /\ StreamKept
      /\ stream' \in Seq(MessageType)
      /\ Len(stream') = Len(stream) + 1
  BY <1>1, StreamExtended DEF IInv
<1>3. TypeOK'
  <2>1. StreamTypes'
    BY <1>2, TypesApart DEF IInv, StreamTypes
  <2>2. WorkerTypes'
    BY TypesApart, SameWorkerTypes DEF IInv
  <2>3. LockTypes'
    BY TypesApart, SameLockTypes DEF IInv
  <2> QED BY <1>2, <2>1, <2>2, <2>3, TypesTogether DEF IInv
<1>4. OffIsEmpty' /\ LockInv'
  <2>1. LockInv'
    BY WritersWithin, SameLock DEF IInv, faultVars
  <2> QED BY <2>1 DEF IInv, OffIsEmpty
<1>5. BusyPollsHandle' /\ SuccessesApplied' /\ Awaited'
  BY <1>2, SameMempool DEF IInv
<1>6. AckedWasApplied'
  BY <1>2, AckedKept DEF IInv
<1> QED BY <1>3, <1>4, <1>5, <1>6 DEF IInv

\* XAUTOCLAIM
LEMMA StartPollStep ==
  ASSUME IInv, Observe, NEW p \in Poll, StartPoll(p)
  PROVE  IInv'
<1> USE DEF StartPoll, ReclaimStalled, StreamOnly, chainVars, lockVars
<1>1. StreamKept
  BY StreamSame DEF IInv
<1>2. step[p] = "none"
  <2>1. ~Handling(p)
    BY DEF IInv, OffIsEmpty, Handling
  <2> QED BY <2>1 DEF IInv, BusyPollsHandle, Publishes
<1>3. TypeOK'
  <2>1. Oldest(PollCount, idle) \subseteq idle
    BY DEF Oldest
  <2>2. StreamTypes'
    BY <2>1, TypesApart DEF IInv, StreamTypes
  <2>3. WorkerTypes' /\ LockTypes'
    BY TypesApart, SameWorkerTypes, SameLockTypes DEF IInv
  <2> QED BY <1>1, <2>2, <2>3, TypesTogether DEF IInv
<1>4. OffIsEmpty'
  BY DEF IInv, OffIsEmpty, TypeOK
<1>5. BusyPollsHandle' /\ SuccessesApplied' /\ Awaited'
  <2>1. \A q \in Poll : q # p => todo'[q] = todo[q]
    BY DEF IInv, TypeOK
  <2> QED BY <1>1, <1>2, <2>1, SameMempool DEF IInv
<1>6. AckedWasApplied' /\ LockInv'
  <2>1. LockInv'
    BY WritersWithin, SameLock DEF IInv, faultVars
  <2> QED BY <1>1, <2>1, AckedKept DEF IInv
<1> QED BY <1>3, <1>4, <1>5, <1>6 DEF IInv

\* XREADGROUP
LEMMA PollNewStep ==
  ASSUME IInv, Observe, NEW p \in Poll, PollNew(p)
  PROVE  IInv'
<1> USE DEF PollNew, ReadNew, StreamOnly, chainVars, lockVars
<1>1. StreamKept
  BY StreamSame DEF IInv
<1>2. step[p] = "none"
  <2>1. ~Handling(p)
    BY DEF Handling
  <2> QED BY <2>1 DEF IInv, BusyPollsHandle, Publishes
<1>3. /\ Len(stream) \in Nat /\ delivered \in 0 .. Len(stream)
      /\ delivered' \in delivered .. Len(stream)
      /\ todo'[p] = delivered + 1 .. delivered'
      /\ pending' = pending \cup (delivered + 1 .. delivered')
  BY StreamConstants DEF IInv, TypeOK
<1>4. TypeOK'
  <2>1. StreamTypes'
    <3>1. todo' \in [Poll -> SUBSET (1 .. delivered')]
      <4>1. \A q \in Poll : q # p => todo'[q] = todo[q] /\ todo[q] \subseteq 1 .. delivered
        BY DEF IInv, TypeOK
      <4>2. \A q \in Poll : todo'[q] \subseteq 1 .. delivered'
        BY <1>3, <4>1
      <4> QED BY <4>2 DEF IInv, TypeOK
    <3>2. /\ pending' \subseteq 1 .. delivered' /\ idle' \subseteq pending'
          /\ deadLetters' \subseteq 1 .. delivered' /\ delivered' \in 0 .. Len(stream')
      <4>1. /\ pending \subseteq 1 .. delivered /\ idle \subseteq pending
            /\ deadLetters \subseteq 1 .. delivered
        BY DEF IInv, TypeOK
      <4>2. 1 .. delivered \subseteq 1 .. delivered' /\ delivered' \in 0 .. Len(stream)
        BY <1>3
      <4>3. delivered + 1 .. delivered' \subseteq 1 .. delivered'
        BY <1>3
      <4>4. UNCHANGED <<stream, idle, deadLetters>>
        OBVIOUS
      <4> QED BY ONLY <1>3, <4>1, <4>2, <4>3, <4>4
    <3>3. stage' \in [Poll -> {"off", "reclaimed", "fresh"}]
      BY DEF IInv, TypeOK
    <3> QED BY <3>1, <3>2, <3>3, TypesApart DEF IInv, StreamTypes
  <2>2. WorkerTypes' /\ LockTypes'
    BY TypesApart, SameWorkerTypes, SameLockTypes DEF IInv
  <2> QED BY <1>1, <2>1, <2>2, TypesTogether DEF IInv
<1>5. OffIsEmpty'
  BY DEF IInv, OffIsEmpty, TypeOK
<1>6. BusyPollsHandle' /\ SuccessesApplied' /\ Awaited'
  <2>1. \A q \in Poll : q # p => todo'[q] = todo[q]
    BY DEF IInv, TypeOK
  <2> QED BY <1>1, <1>2, <2>1, SameMempool DEF IInv
<1>7. AckedWasApplied'
  <2>1. \A id \in 1 .. delivered' : id \in 1 .. delivered \/ id \in pending'
    BY <1>3
  <2> QED BY <1>1, <1>3, <2>1, AckedKept DEF IInv
<1>8. LockInv'
  BY WritersWithin, SameLock DEF IInv, faultVars
<1> QED BY <1>4, <1>5, <1>6, <1>7, <1>8 DEF IInv

\* Sixty seconds
LEMMA StallStep ==
  ASSUME IInv, Observe, NEW id \in pending, StallMessage(id)
  PROVE  IInv'
<1> USE DEF StallMessage, Stall, StreamOnly, chainVars, lockVars
<1>1. StreamKept
  BY StreamSame DEF IInv
<1>2. TypeOK'
  <2>1. StreamTypes'
    BY TypesApart DEF IInv, StreamTypes
  <2> QED BY <1>1, <2>1, TypesApart, SameWorkerTypes, SameLockTypes, TypesTogether DEF IInv
<1>3. OffIsEmpty' /\ LockInv'
  <2>1. LockInv'
    BY WritersWithin, SameLock DEF IInv, faultVars
  <2> QED BY <2>1 DEF IInv, OffIsEmpty
<1>4. BusyPollsHandle' /\ SuccessesApplied' /\ Awaited'
  BY <1>1, SameMempool DEF IInv
<1>5. AckedWasApplied'
  BY <1>1, AckedKept DEF IInv
<1> QED BY <1>2, <1>3, <1>4, <1>5 DEF IInv

\* What a poll has in common with its messages after it is done with one
LEMMA NextMessageTypes ==
  ASSUME IInv, NEW p \in Poll, NextMessage(p)
  PROVE  /\ todo' \in [Poll -> SUBSET (1 .. delivered)]
         /\ stage' \in [Poll -> {"off", "reclaimed", "fresh"}]
         /\ \A q \in Poll : q # p => todo'[q] = todo[q]
         /\ OffIsEmpty'
<1>1. /\ todo \in [Poll -> SUBSET (1 .. delivered)]
      /\ stage \in [Poll -> {"off", "reclaimed", "fresh"}]
  BY DEF IInv, TypeOK
<1>2. /\ todo'[p] = todo[p] \ {CurrentId(p)}
      /\ \A q \in Poll : q # p => todo'[q] = todo[q] /\ stage'[q] = stage[q]
      /\ todo' \in [Poll -> SUBSET (1 .. delivered)]
      /\ stage' \in [Poll -> {"off", "reclaimed", "fresh"}]
  BY <1>1 DEF NextMessage
<1>3. stage'[p] = "off" => todo'[p] = {}
  BY <1>1, <1>2 DEF NextMessage, IInv, OffIsEmpty
<1> QED BY <1>2, <1>3 DEF IInv, OffIsEmpty

\* The handler returned or threw: the message is acknowledged, stays pending or is
\* a dead letter.
LEMMA MessageDone ==
  ASSUME IInv, Observe, NEW p \in Poll, Handling(p),
         \/ MessageFailed(p)
         \/ /\ MessageHandled(p)
            /\ CurrentId(p) \in applied \/ Current(p).risk = Foreign,
         UNCHANGED <<registry, mempool, batch>>,
         step'[p] = "none", step[p] # "sent",
         \A w \in Worker : w # p => step'[w] = step[w],
         step' \in [Worker -> {"none", "reading", "sent", "handled"} \cup Finished],
         LockTypes', LockInv'
  PROVE  IInv'
<1> USE DEF MessageFailed, MessageHandled
<1>1. StreamKept
  BY StreamSame DEF IInv
<1>2. CurrentId(p) \in 1 .. delivered
  BY CurrentInStream DEF IInv
<1>3. /\ todo' \in [Poll -> SUBSET (1 .. delivered)]
      /\ stage' \in [Poll -> {"off", "reclaimed", "fresh"}]
      /\ \A q \in Poll : q # p => todo'[q] = todo[q]
      /\ OffIsEmpty'
  BY NextMessageTypes
<1>4. TypeOK'
  <2>1. StreamTypes'
    BY <1>2, <1>3, TypesApart DEF IInv, StreamTypes, AcknowledgeMessage
  <2>2. WorkerTypes'
    BY TypesApart DEF IInv, WorkerTypes
  <2> QED BY <1>1, <2>1, <2>2, TypesTogether DEF IInv
<1>5. BusyPollsHandle' /\ SuccessesApplied' /\ Awaited'
  BY <1>1, <1>3, SameMempool DEF IInv, Worker
<1>6. AckedWasApplied'
  <2>1. \A id \in pending : \/ id \in pending' \cup applied \cup deadLetters'
                            \/ stream[id].risk = Foreign
    BY DEF AcknowledgeMessage, Current
  <2>2. deadLetters \subseteq deadLetters' /\ delivered' = delivered
    OBVIOUS
  <2> QED BY <1>1, <2>1, <2>2, AckedKept DEF IInv
<1> QED BY <1>3, <1>4, <1>5, <1>6 DEF IInv

\* The same without a lock: nobody's messages, malformed ones and 30 seconds
LEMMA MessageDoneUnlocked ==
  ASSUME IInv, Observe, NEW p \in Poll, Handling(p), step[p] = "none", StreamOnly,
         \/ MessageFailed(p)
         \/ MessageHandled(p) /\ Current(p).risk = Foreign
  PROVE  IInv'
<1> USE DEF StreamOnly, chainVars, lockVars
<1>1. LockTypes' /\ LockInv'
  BY TypesApart, SameLockTypes, WritersWithin, SameLock DEF IInv, faultVars
<1>2. step' = step /\ step \in [Worker -> {"none", "reading", "sent", "handled"} \cup Finished]
  BY DEF IInv, TypeOK
<1> QED BY <1>1, <1>2, MessageDone

\* 30 seconds without the lock
LEMMA PollGivesUpStep ==
  ASSUME IInv, Observe, NEW p \in Poll, PollGivesUp(p)
  PROVE  IInv'
<1>1. Handling(p) /\ step[p] = "none"
  BY PublisherConstants DEF PollGivesUp, Waiting
<1> QED BY <1>1, MessageDoneUnlocked DEF PollGivesUp

\* A message without a handler
LEMMA DropForeignStep ==
  ASSUME IInv, Observe, NEW p \in Poll, DropForeign(p)
  PROVE  IInv'
BY MessageDoneUnlocked DEF DropForeign

\* A payload the handler refuses
LEMMA RejectMalformedStep ==
  ASSUME IInv, Observe, NEW p \in Poll, RejectMalformed(p)
  PROVE  IInv'
BY MessageDoneUnlocked DEF RejectMalformed

-----------------------------------------------------------------------------
(* The steps of the lock and of a publication that send and mine nothing *)

\* What those steps share: the stream of messages and the mempool stay, each
\* worker keeps its place or was not waiting for a receipt.
LEMMA WorkerStep ==
  ASSUME IInv, Observe, UNCHANGED <<streamVars, mempool>>, WorkerTypes', LockTypes', LockInv',
         \A w \in Worker : step'[w] = step[w] \/ step[w] # "sent"
                           \/ \A i \in 1 .. Len(mempool) : mempool[i].waiter # w,
         \A q \in Poll :
           \/ step'[q] = step[q]
           \/ /\ Publishes(q)
              /\ step'[q] \in Succeeded => CurrentId(q)' \in applied'
  PROVE  IInv'
<1> USE DEF streamVars
<1>1. StreamKept
  BY StreamSame DEF IInv
<1>2. TypeOK'
  <2>1. StreamTypes'
    BY TypesApart, SameStreamTypes DEF IInv
  <2> QED BY <1>1, <2>1, TypesTogether DEF IInv
<1>3. BusyPollsHandle' /\ SuccessesApplied' /\ Awaited'
  BY <1>1, SameMempool DEF IInv
<1>4. OffIsEmpty' /\ AckedWasApplied'
  BY <1>1, AckedKept DEF IInv, OffIsEmpty
<1> QED BY <1>2, <1>3, <1>4 DEF IInv

\* The same when the lock, its timer and the writers stay
LEMMA WorkerStepSameLock ==
  ASSUME IInv, Observe, UNCHANGED <<streamVars, mempool, lockVars, misses>>,
         WorkerTypes', LockTypes',
         \A w \in Worker : step'[w] = step[w] \/ step[w] # "sent"
                           \/ \A i \in 1 .. Len(mempool) : mempool[i].waiter # w,
         \A w \in Worker : step'[w] # step[w] => w \in Writers,
         \A q \in Poll :
           \/ step'[q] = step[q]
           \/ /\ Publishes(q)
              /\ step'[q] \in Succeeded => CurrentId(q)' \in applied'
  PROVE  IInv'
<1>1. Writers' \subseteq Writers
  BY WritersWithin DEF Writers
<1>2. LockInv'
  BY <1>1, SameLock DEF IInv
<1> QED BY <1>2, WorkerStep

\* A sync job begins.
LEMMA StartBatchStep ==
  ASSUME IInv, Observe, NEW b \in Batch, StartBatch(b)
  PROVE  IInv'
<1> USE DEF StartBatch, chainVars
<1>1. WorkerTypes' /\ LockTypes'
  BY TypesApart, SameLockTypes, PublisherConstants DEF IInv, WorkerTypes
<1> QED BY <1>1, WorkerStepSameLock DEF faultVars

\* A sync job gets no lock.
LEMMA BatchGivesUpStep ==
  ASSUME IInv, Observe, BatchGivesUp
  PROVE  IInv'
<1> USE DEF BatchGivesUp, chainVars
<1>1. WorkerTypes' /\ LockTypes'
  BY TypesApart, SameLockTypes DEF IInv, WorkerTypes
<1> QED BY <1>1, WorkerStepSameLock DEF faultVars

\* MIN_UPDATE_INTERVAL is over.
LEMMA IntervalPassesStep ==
  ASSUME IInv, Observe, NEW a \in Address, IntervalPasses(a)
  PROVE  IInv'
<1> USE DEF IntervalPasses
<1>1. WorkerTypes' /\ LockTypes'
  BY TypesApart, SameLockTypes DEF IInv, WorkerTypes
<1> QED BY <1>1, WorkerStepSameLock DEF faultVars

\* A worker takes the free lock: it is no writer without the lock, and the timer
\* is its own.
LEMMA AcquireStep ==
  ASSUME IInv, Observe, NEW w \in Worker, Acquire(w)
  PROVE  IInv'
<1> USE DEF Acquire, chainVars
<1>1. /\ step'[w] = "reading" /\ \A v \in Worker : v # w => step'[v] = step[v]
      /\ step[w] = "none"
  BY DEF IInv, TypeOK, Waiting
<1>2. WorkerTypes' /\ LockTypes'
  BY TypesApart DEF IInv, WorkerTypes, LockTypes, faultVars
<1>3. LockInv'
  <2>1. Writers' \ {lock'} \subseteq Writers \ {lock} /\ Writers \ {lock} \subseteq Worker
    BY <1>1, PublisherConstants DEF Writers
  <2>2. Writers' \ {lock'} \subseteq Worker
    BY <2>1
  <2>3. Cardinality(Writers' \ {lock'}) <= Cardinality(Writers \ {lock})
    BY <2>1, DebtTyped, FS_Subset DEF IInv
  <2>4. /\ Cardinality(Writers \ {lock}) \in Nat /\ Cardinality(Writers' \ {lock'}) \in Nat
        /\ misses \in Nat
    BY <2>1, <2>2, DebtTyped DEF IInv
  <2>5. Unrenewed' = 0 /\ Unrenewed = 0 /\ misses' = misses
    BY PublisherConstants DEF Unrenewed, faultVars
  <2>6. Cardinality(Writers \ {lock}) + Unrenewed <= misses
    BY DEF IInv, LockInv, DebtBounded
  <2>7. Cardinality(Writers' \ {lock'}) + Unrenewed' <= misses'
    BY <2>3, <2>4, <2>5, <2>6
  <2> QED BY <2>7 DEF LockInv, DebtBounded, TimerIsHolders
<1>4. w \in Poll => Publishes(w)
  BY PublisherConstants DEF Waiting, Publishes
<1> QED BY <1>1, <1>2, <1>3, <1>4, WorkerStep DEF Succeeded, Worker

\* The failed renewal is counted when the timer stops.
LEMMA RenewalFailsStep ==
  ASSUME IInv, Observe, RenewalFails
  PROVE  IInv'
<1> USE DEF RenewalFails, chainVars
<1>1. faults' \in Nat /\ misses' \in 0 .. faults' /\ misses' = misses + 1 /\ misses \in Nat
  <2>1. faults \in Nat /\ misses \in 0 .. faults
    BY DEF IInv, TypeOK
  <2> QED BY <2>1 DEF Fault
<1>2. WorkerTypes' /\ LockTypes'
  BY <1>1, TypesApart DEF IInv, WorkerTypes, LockTypes
<1>3. LockInv'
  <2>1. Writers' = Writers /\ lock' = lock
    BY DEF Writers, Finished
  <2>2. Unrenewed = 0 /\ Unrenewed' \in {0, 1}
    BY DEF IInv, LockInv, TimerIsHolders, Unrenewed
  <2>3. Cardinality(Writers \ {lock}) \in Nat
    <3>1. Writers \ {lock} \subseteq Worker
      BY DEF Writers
    <3> QED BY <3>1, DebtTyped DEF IInv
  <2>4. Cardinality(Writers \ {lock}) + Unrenewed <= misses
    BY DEF IInv, LockInv, DebtBounded
  <2>5. Cardinality(Writers \ {lock}) + Unrenewed' <= misses'
    BY <1>1, <2>2, <2>3, <2>4
  <2> QED BY <2>1, <2>5 DEF LockInv, DebtBounded, TimerIsHolders
<1> QED BY <1>2, <1>3, WorkerStep

\* The lease nobody renews ends: its holder, if it lives, is now a writer
\* without the lock, and was the debt before.
LEMMA LeaseExpiresStep ==
  ASSUME IInv, Observe, LeaseExpires
  PROVE  IInv'
<1> USE DEF LeaseExpires, chainVars
<1>1. WorkerTypes' /\ LockTypes'
  BY TypesApart DEF IInv, WorkerTypes, LockTypes, faultVars
<1>2. LockInv'
  <2> DEFINE A == Writers \ {lock}
  <2>1. /\ Writers' = Writers /\ Nobody \notin Writers /\ A \subseteq Worker
        /\ Writers \subseteq Worker
    BY PublisherConstants DEF Writers, Finished
  <2>2. /\ IsFiniteSet(A) /\ Cardinality(A) \in Nat /\ misses \in Nat
        /\ Cardinality(Writers) \in Nat /\ IsFiniteSet(Writers)
    BY <2>1, DebtTyped DEF IInv
  <2>3. Cardinality(Writers) <= Cardinality(A) + Unrenewed
    <3>1. CASE lock \in Writers
      <4>1. Cardinality(A) = Cardinality(Writers) - 1
        BY <2>2, <3>1, FS_RemoveElement
      <4>2. Unrenewed = 1
        BY <2>1, <3>1 DEF Unrenewed
      <4> QED BY <2>2, <4>1, <4>2
    <3>2. CASE lock \notin Writers
      <4>1. A = Writers
        BY <3>2
      <4> QED BY <2>2, <4>1 DEF Unrenewed
    <3> QED BY <3>1, <3>2
  <2>4. Writers' \ {lock'} = Writers /\ Unrenewed' = 0 /\ misses' = misses
    BY <2>1, PublisherConstants DEF Unrenewed, faultVars
  <2>5. Cardinality(A) + Unrenewed <= misses
    BY DEF IInv, LockInv, DebtBounded
  <2>6. Unrenewed \in {0, 1}
    BY DEF Unrenewed
  <2>7. Cardinality(Writers) <= misses
    BY <2>2, <2>3, <2>5, <2>6
  <2>8. DebtBounded'
    BY <2>2, <2>4, <2>7 DEF DebtBounded
  <2>9. TimerIsHolders'
    BY DEF IInv, LockInv, TimerIsHolders
  <2> QED BY <2>8, <2>9 DEF LockInv
<1> QED BY <1>1, <1>2, WorkerStep

\* A profile that is on chain is skipped: it was observed there.
LEMMA SkipProfileStep ==
  ASSUME IInv, Observe, NEW w \in Worker, SkipProfile(w)
  PROVE  IInv'
<1> USE DEF SkipProfile, chainVars
<1>1. /\ step'[w] = "skipped" /\ \A v \in Worker : v # w => step'[v] = step[v]
      /\ step[w] = "reading"
  BY DEF IInv, TypeOK
<1>2. WorkerTypes' /\ LockTypes'
  BY <1>1, TypesApart, SameLockTypes DEF IInv, WorkerTypes, Finished
<1>3. ASSUME w \in Poll PROVE Publishes(w) /\ CurrentId(w)' \in applied'
  <2>1. Publishes(w) /\ Handling(w)
    BY <1>1, <1>3 DEF IInv, BusyPollsHandle, Publishes
  <2>2. Profile(w).sanctioned = FALSE
    BY <1>3, PublisherConstants DEF Profile
  <2> QED BY <1>3, <2>1, <2>2, ProfileOnChain DEF IInv, SameProfile, streamVars
<1>4. w \in Writers
  BY <1>1 DEF Writers
<1> QED BY <1>1, <1>2, <1>3, <1>4, WorkerStepSameLock DEF faultVars, Worker

\* A transaction that is not in the mempool has no receipt to wait for.
LEMMA HeldUpStep ==
  ASSUME IInv, Observe, NEW w \in Worker, HeldUp(w)
  PROVE  IInv'
<1> USE DEF HeldUp, chainVars
<1>1. /\ step'[w] = "unconfirmed" /\ \A v \in Worker : v # w => step'[v] = step[v]
      /\ step[w] = "sent"
  BY DEF IInv, TypeOK
<1>2. WorkerTypes' /\ LockTypes'
  BY <1>1, TypesApart, SameLockTypes DEF IInv, WorkerTypes, Finished
<1>3. w \in Poll => Publishes(w)
  BY <1>1 DEF IInv, BusyPollsHandle
<1>4. w \in Writers
  BY <1>1 DEF Writers
<1> QED BY <1>1, <1>2, <1>3, <1>4, WorkerStepSameLock DEF faultVars, Worker, Succeeded

\* The lock goes, the message is still to be acknowledged.
LEMMA ReleaseLockStep ==
  ASSUME IInv, Observe, NEW p \in Poll, ReleaseLock(p)
  PROVE  IInv'
<1> USE DEF ReleaseLock, chainVars
<1>1. /\ step'[p] = "handled" /\ \A v \in Worker : v # p => step'[v] = step[v]
      /\ step[p] \in {"skipped", "confirmed"} /\ p \in Worker
  BY DEF IInv, TypeOK, Worker
<1>2. WorkerTypes' /\ LockTypes'
  BY <1>1, TypesApart, ReleaseTypes DEF IInv, WorkerTypes
<1>3. LockInv'
  <2>1. p \in Writers
    BY <1>1 DEF Writers, Finished
  <2>2. Writers' \subseteq Writers \ {p}
    BY <1>1 DEF Writers, Finished
  <2> QED BY <2>1, <2>2, ReleaseKeepsDebt DEF IInv
<1>4. Publishes(p) /\ CurrentId(p)' \in applied'
  <2>1. Publishes(p) /\ CurrentId(p) \in applied
    BY <1>1 DEF IInv, BusyPollsHandle, SuccessesApplied, Succeeded
  <2> QED BY <2>1, SameTodo, Observed DEF streamVars
<1> QED BY <1>1, <1>2, <1>3, <1>4, WorkerStep DEF Worker

-----------------------------------------------------------------------------
(* The end of a message *)

\* XACK after a success
LEMMA AcknowledgeStep ==
  ASSUME IInv, Observe, NEW p \in Poll, Acknowledge(p)
  PROVE  IInv'
<1> USE DEF Acknowledge, chainVars
<1>1. /\ step'[p] = "none" /\ \A v \in Worker : v # p => step'[v] = step[v]
      /\ step[p] = "handled" /\ p \in Worker
      /\ step' \in [Worker -> {"none", "reading", "sent", "handled"} \cup Finished]
  BY DEF IInv, TypeOK, Worker
<1>2. Handling(p) /\ CurrentId(p) \in applied
  BY <1>1 DEF IInv, BusyPollsHandle, SuccessesApplied, Succeeded, Publishes
<1>3. LockTypes' /\ LockInv'
  <2>1. Writers' \subseteq Writers
    BY <1>1, WritersWithin DEF Finished
  <2> QED BY <2>1, TypesApart, SameLockTypes, SameLock DEF IInv, faultVars
<1> QED BY <1>1, <1>2, <1>3, MessageDone

\* The handler throws after a failed publication.
LEMMA FailStep ==
  ASSUME IInv, Observe, NEW p \in Poll, Fail(p)
  PROVE  IInv'
<1> USE DEF Fail, chainVars
<1>1. /\ step'[p] = "none" /\ \A v \in Worker : v # p => step'[v] = step[v]
      /\ step[p] = "unconfirmed" /\ p \in Worker
      /\ step' \in [Worker -> {"none", "reading", "sent", "handled"} \cup Finished]
  BY DEF IInv, TypeOK, Worker
<1>2. Handling(p)
  BY <1>1 DEF IInv, BusyPollsHandle, Publishes
<1>3. LockTypes' /\ LockInv'
  <2>1. p \in Writers /\ Writers' \subseteq Writers \ {p}
    BY <1>1 DEF Writers, Finished
  <2> QED BY <1>1, <2>1, TypesApart, ReleaseTypes, ReleaseKeepsDebt DEF IInv
<1> QED BY <1>1, <1>2, <1>3, MessageDone

-----------------------------------------------------------------------------
(* The mempool *)

\* What a worker publishes is a profile.
LEMMA ProfileTyped ==
  ASSUME IInv, JobHasBatch, NEW w \in Worker, step[w] # "none"
  PROVE  Profile(w) \in ProfileType
<1>1. CASE w = SyncJob
  BY <1>1 DEF IInv, TypeOK, JobHasBatch, Profile
<1>2. CASE w \in Poll
  <2>1. CurrentId(w) \in 1 .. Len(stream)
    BY <1>2, CurrentInStream DEF IInv, BusyPollsHandle, Publishes
  <2>2. stream \in Seq(MessageType)
    BY DEF IInv, TypeOK, MessageType
  <2>3. Current(w) \in MessageType
    BY <2>1, <2>2, ElementOfSeq, Zenon DEF Current
  <2>4. Current(w).risk \in Publishable
    BY <1>2 DEF IInv, BusyPollsHandle, Publishes
  <2> QED BY <1>2, <2>3, <2>4, PublisherConstants DEF Profile, ProfileType, MessageType
<1> QED BY <1>1, <1>2 DEF Worker

\* A worker's transaction joins the mempool, with the worker waiting for it or,
\* when the answer of the node was lost, with nobody.
LEMMA TransactionAdded ==
  ASSUME IInv, JobHasBatch, Observe, NEW w \in Worker, NEW x \in {w, Nobody},
         step[w] = "reading",
         step' = [step EXCEPT ![w] = IF x = w THEN "sent" ELSE "unconfirmed"],
         mempool' = Append(mempool, [profile |-> Profile(w), waiter |-> x]),
         UNCHANGED <<streamVars, registry, lockVars, misses, batch>>, LockTypes'
  PROVE  IInv'
<1> USE DEF streamVars
<1>1. StreamKept
  BY StreamSame DEF IInv
<1>2. /\ step'[w] = (IF x = w THEN "sent" ELSE "unconfirmed")
      /\ \A v \in Worker : v # w => step'[v] = step[v]
      /\ w # Nobody
  BY PublisherConstants DEF IInv, TypeOK
<1>3. /\ Len(mempool) \in Nat
      /\ Len(mempool') = Len(mempool) + 1
      /\ \A i \in 1 .. Len(mempool) : mempool'[i] = mempool[i]
      /\ mempool'[Len(mempool) + 1] = [profile |-> Profile(w), waiter |-> x]
      /\ mempool' \in Seq([profile : ProfileType, waiter : Worker \cup {Nobody}])
  <2>1. Profile(w) \in ProfileType
    BY ProfileTyped
  <2>2. [profile |-> Profile(w), waiter |-> x] \in
          [profile : ProfileType, waiter : Worker \cup {Nobody}]
    BY <2>1
  <2> QED BY <2>2 DEF IInv, TypeOK
<1>4. TypeOK'
  <2>1. StreamTypes'
    BY TypesApart, SameStreamTypes DEF IInv
  <2>2. WorkerTypes'
    BY <1>3, TypesApart DEF IInv, WorkerTypes, Finished
  <2> QED BY <1>1, <2>1, <2>2, TypesTogether DEF IInv
<1>5. BusyPollsHandle'
  BY <1>1, <1>2, SamePublishes DEF IInv, BusyPollsHandle, Worker
<1>6. SuccessesApplied'
  BY <1>2, SameTodo, Observed DEF IInv, SuccessesApplied, Succeeded, Worker
<1>7. Awaited'
  <2> SUFFICES ASSUME NEW i \in 1 .. Len(mempool) + 1, NEW v \in Worker,
                      mempool'[i].waiter = v
               PROVE  /\ step'[v] = "sent"
                      /\ \A j \in 1 .. Len(mempool) + 1 : mempool'[j].waiter = v => j = i
                      /\ v \in Poll => mempool'[i].profile = Profile(v)'
    BY <1>3 DEF Awaited
  <2>1. \A j \in 1 .. Len(mempool) : mempool'[j].waiter # w
    BY <1>3 DEF IInv, Awaited
  <2>2. CASE i = Len(mempool) + 1
    <3>1. v = w /\ x = w
      BY <1>3, <2>2, PublisherConstants
    <3>2. \A j \in 1 .. Len(mempool) + 1 : mempool'[j].waiter = v => j = i
      BY <1>3, <2>1, <2>2, <3>1
    <3>3. ASSUME w \in Poll PROVE Profile(w)' = Profile(w)
      BY <1>1, <1>2, <3>3, SameProfileAfter DEF IInv, BusyPollsHandle, Publishes
    <3> QED BY <1>2, <1>3, <2>2, <3>1, <3>2, <3>3
  <2>3. CASE i \in 1 .. Len(mempool)
    <3>1. v # w
      BY <2>1, <2>3
    <3>2. /\ step[v] = "sent"
          /\ \A j \in 1 .. Len(mempool) : mempool[j].waiter = v => j = i
          /\ v \in Poll => mempool[i].profile = Profile(v)
      BY <1>3, <2>3 DEF IInv, Awaited
    <3>3. \A j \in 1 .. Len(mempool) + 1 : mempool'[j].waiter = v => j = i
      <4>1. mempool'[Len(mempool) + 1].waiter # v
        BY <1>3, <3>1, PublisherConstants
      <4>2. \A j \in 1 .. Len(mempool) + 1 :
              j \in 1 .. Len(mempool) \/ j = Len(mempool) + 1
        BY <1>3
      <4> QED BY <1>3, <3>2, <4>1, <4>2
    <3>4. ASSUME v \in Poll PROVE Profile(v)' = Profile(v)
      BY <1>1, <3>2, <3>4, SameProfileAfter DEF IInv, BusyPollsHandle, Publishes
    <3> QED BY <1>2, <1>3, <2>3, <3>1, <3>2, <3>3, <3>4
  <2> QED BY <1>3, <2>2, <2>3
<1>8. OffIsEmpty' /\ AckedWasApplied'
  BY <1>1, AckedKept DEF IInv, OffIsEmpty
<1>9. LockInv'
  <2>1. Writers' \subseteq Writers
    BY <1>2, WritersWithin
  <2> QED BY <2>1, SameLock DEF IInv
<1> QED BY <1>4, <1>5, <1>6, <1>7, <1>8, <1>9 DEF IInv

\* Nothing joins it: the transaction is held up, or never had a nonce.
LEMMA NothingAdded ==
  ASSUME IInv, Observe, NEW w \in Worker, NEW x \in {"sent", "unconfirmed"},
         step[w] = "reading", step' = [step EXCEPT ![w] = x],
         UNCHANGED <<streamVars, registry, mempool, lockVars, misses, batch>>, LockTypes'
  PROVE  IInv'
<1>1. step'[w] = x /\ \A v \in Worker : v # w => step'[v] = step[v]
  BY DEF IInv, TypeOK
<1>2. WorkerTypes'
  BY TypesApart DEF IInv, WorkerTypes, Finished
<1>3. w \in Poll => Publishes(w)
  BY DEF IInv, BusyPollsHandle
<1>4. w \in Writers
  BY DEF Writers
<1> QED BY <1>1, <1>2, <1>3, <1>4, WorkerStepSameLock DEF Worker, Succeeded

\* A transaction is sent.
LEMMA SendStep ==
  ASSUME IInv, JobHasBatch, Observe, NEW w \in Worker, Send(w)
  PROVE  IInv'
<1> USE DEF Send
<1>1. LockTypes'
  BY TypesApart, SameLockTypes DEF IInv
<1>2. CASE nonceLost
  BY <1>1, <1>2, NothingAdded DEF faultVars
<1>3. CASE ~nonceLost
  BY <1>1, <1>3, TransactionAdded DEF faultVars
<1> QED BY <1>2, <1>3

\* A transaction is not sent, or not known to be.
LEMMA SendFailsStep ==
  ASSUME IInv, JobHasBatch, Observe, NEW w \in Worker, SendFails(w)
  PROVE  IInv'
<1> USE DEF SendFails
<1>1. LockTypes'
  BY TypesApart, FaultTypes DEF IInv, LockTypes, lockVars
<1>2. CASE UNCHANGED mempool
  BY <1>1, <1>2, NothingAdded
<1>3. CASE mempool' = Append(mempool, [profile |-> Profile(w), waiter |-> Nobody])
  <2>1. Nobody # w
    BY PublisherConstants
  <2> QED BY <1>1, <1>3, <2>1, TransactionAdded
<1> QED BY <1>2, <1>3

\* A transaction is mined: who waited for it goes on, and if it was written its
\* profile was observed on chain.
LEMMA MineStep ==
  ASSUME IInv, Observe, Mine
  PROVE  IInv'
<1> USE DEF streamVars
<1> DEFINE tx == Head(mempool)
           reverts == registry[tx.profile.address].recent \/ tx.profile.risk = Excessive
           outcome == IF reverts THEN "unconfirmed" ELSE "confirmed"
<1>1. StreamKept
  BY StreamSame DEF IInv, Mine
<1>2. /\ UNCHANGED <<stream, delivered, pending, idle, deadLetters, stage, todo, lockVars, misses, batch>>
      /\ registry' = IF reverts THEN registry
                     ELSE [registry EXCEPT ![tx.profile.address] =
                            [risk |-> tx.profile.risk, sanctioned |-> tx.profile.sanctioned,
                             recent |-> TRUE]]
      /\ step' = IF tx.waiter = Nobody THEN step
                 ELSE [step EXCEPT ![tx.waiter] = outcome]
  BY DEF Mine, faultVars
<1>3. /\ tx \in [profile : ProfileType, waiter : Worker \cup {Nobody}]
      /\ tx = mempool[1]
      /\ Len(mempool) \in Nat \ {0}
      /\ mempool' \in Seq([profile : ProfileType, waiter : Worker \cup {Nobody}])
      /\ Len(mempool') = Len(mempool) - 1
      /\ \A i \in 1 .. Len(mempool') : i + 1 \in 1 .. Len(mempool) /\ mempool'[i] = mempool[i + 1]
  <2> DEFINE T == [profile : ProfileType, waiter : Worker \cup {Nobody}]
  <2>1. mempool \in Seq(T)
    BY DEF IInv, TypeOK
  <2>2. mempool # <<>> /\ mempool' = Tail(mempool)
    BY DEF Mine
  <2> HIDE DEF T
  <2>3. /\ Head(mempool) \in T /\ Head(mempool) = mempool[1]
        /\ Len(mempool) \in Nat \ {0}
    BY <2>1, <2>2
  <2>4. /\ mempool' \in Seq(T) /\ Len(mempool') = Len(mempool) - 1
        /\ \A i \in 1 .. Len(mempool') : mempool'[i] = mempool[i + 1]
    BY <2>1, <2>2, HeadTailProperties
  <2>5. \A i \in 1 .. Len(mempool') : i + 1 \in 1 .. Len(mempool)
    BY <2>3, <2>4
  <2> QED BY <2>3, <2>4, <2>5 DEF T
<1>4. \A v \in Worker : v # tx.waiter => step'[v] = step[v]
  BY <1>2, <1>3 DEF IInv, TypeOK
<1>5. ASSUME NEW v \in Worker, v = tx.waiter
      PROVE  /\ step'[v] = outcome /\ step[v] = "sent"
             /\ v \in Poll => tx.profile = Profile(v)
  <2>1. v # Nobody
    BY PublisherConstants
  <2>2. 1 \in 1 .. Len(mempool)
    BY <1>3
  <2>3. step[v] = "sent" /\ (v \in Poll => tx.profile = Profile(v))
    BY <1>3, <1>5, <2>2 DEF IInv, Awaited
  <2> QED BY <1>2, <1>5, <2>1, <2>3 DEF IInv, TypeOK
<1> HIDE DEF tx, outcome
<1>6. TypeOK'
  <2>1. StreamTypes'
    BY <1>2, TypesApart, SameStreamTypes DEF IInv
  <2>2. registry' \in [Address -> [risk : Risk \cup {NoRisk}, sanctioned : BOOLEAN, recent : BOOLEAN]]
    <3>1. ~reverts => tx.profile.risk \in Risk
      BY <1>3 DEF ProfileType, Publishable
    <3> QED BY <1>2, <1>3, <3>1 DEF IInv, TypeOK, ProfileType
  <2>3. step' \in [Worker -> {"none", "reading", "sent", "handled"} \cup Finished]
    BY <1>2 DEF IInv, TypeOK, Finished, outcome
  <2>4. WorkerTypes'
    BY <1>2, <1>3, <2>2, <2>3, TypesApart DEF IInv, WorkerTypes
  <2>5. LockTypes'
    BY TypesApart, SameLockTypes DEF IInv, Mine
  <2> QED BY <1>1, <2>1, <2>4, <2>5, TypesTogether DEF IInv
<1>7. BusyPollsHandle'
  <2> SUFFICES ASSUME NEW p \in Poll, step'[p] # "none" PROVE Publishes(p)'
    BY DEF BusyPollsHandle
  <2>1. step[p] # "none"
    BY <1>4, <1>5 DEF Worker
  <2> QED BY <1>1, <1>2, <2>1, SamePublishes DEF IInv, BusyPollsHandle
<1>8. SuccessesApplied'
  <2> SUFFICES ASSUME NEW p \in Poll, step'[p] \in Succeeded PROVE CurrentId(p)' \in applied'
    BY DEF SuccessesApplied
  <2>1. CASE p = tx.waiter
    <3>1. /\ step'[p] = outcome /\ step[p] = "sent" /\ tx.profile = Profile(p)
      BY <1>5, <2>1 DEF Worker
    <3>2. ~reverts
      BY <3>1 DEF outcome, Succeeded
    <3>3. Profile(p).address \in Address /\ Profile(p).sanctioned = FALSE
      BY <1>3, <3>1, PublisherConstants DEF ProfileType, Profile
    <3>4. /\ registry'[Profile(p).address].risk = Profile(p).risk
          /\ registry'[Profile(p).address].sanctioned = FALSE
      BY <1>2, <3>1, <3>2, <3>3 DEF IInv, TypeOK
    <3>5. Handling(p)
      BY <3>1 DEF IInv, BusyPollsHandle, Publishes
    <3> QED BY <1>2, <3>4, <3>5, ProfileOnChain DEF IInv
  <2>2. CASE p # tx.waiter
    <3>1. CurrentId(p) \in applied
      BY <1>4, <2>2 DEF Worker, IInv, SuccessesApplied
    <3> QED BY <1>2, <3>1, SameTodo, Observed
  <2> QED BY <2>1, <2>2
<1>9. Awaited'
  <2> SUFFICES ASSUME NEW i \in 1 .. Len(mempool'), NEW v \in Worker,
                      mempool'[i].waiter = v
               PROVE  /\ step'[v] = "sent"
                      /\ \A j \in 1 .. Len(mempool') : mempool'[j].waiter = v => j = i
                      /\ v \in Poll => mempool'[i].profile = Profile(v)'
    BY DEF Awaited
  <2>1. i + 1 \in 1 .. Len(mempool) /\ mempool[i + 1].waiter = v
    BY <1>3
  <2>2. /\ step[v] = "sent"
        /\ \A j \in 1 .. Len(mempool) : mempool[j].waiter = v => j = i + 1
        /\ v \in Poll => mempool[i + 1].profile = Profile(v)
    BY <2>1 DEF IInv, Awaited
  <2>3. v # tx.waiter
    <3>1. 1 \in 1 .. Len(mempool) /\ i + 1 # 1
      BY <1>3
    <3> QED BY <1>3, <2>2, <3>1
  <2>4. \A j \in 1 .. Len(mempool') : mempool'[j].waiter = v => j = i
    <3> TAKE j \in 1 .. Len(mempool')
    <3> HAVE mempool'[j].waiter = v
    <3>1. j + 1 \in 1 .. Len(mempool) /\ mempool[j + 1].waiter = v
      BY <1>3
    <3>2. j + 1 = i + 1
      BY <2>2, <3>1
    <3>3. i \in Nat /\ j \in Nat
      BY <1>3
    <3> QED BY <3>2, <3>3
  <2>5. ASSUME v \in Poll PROVE Profile(v)' = Profile(v)
    BY <1>1, <1>2, <2>2, <2>5, SameProfileAfter DEF IInv, BusyPollsHandle, Publishes
  <2> QED BY <1>3, <1>4, <2>2, <2>3, <2>4, <2>5
<1>10. OffIsEmpty' /\ AckedWasApplied'
  BY <1>1, <1>2, AckedKept DEF IInv, OffIsEmpty
<1>11. LockInv'
  <2>1. Writers' \subseteq Writers
    BY <1>4, <1>5, WritersWithin
  <2> QED BY <1>2, <2>1, SameLock DEF IInv
<1> QED BY <1>6, <1>7, <1>8, <1>9, <1>10, <1>11 DEF IInv

\* Receipts that did not come in time: those transactions have no waiter.
LEMMA ConfirmationTimeoutStep ==
  ASSUME IInv, Observe, NEW w \in Worker, ConfirmationTimeout(w)
  PROVE  IInv'
<1> USE DEF ConfirmationTimeout, streamVars
<1>1. StreamKept
  BY StreamSame DEF IInv
<1>2. /\ step'[w] = "unconfirmed" /\ \A v \in Worker : v # w => step'[v] = step[v]
      /\ step[w] = "sent"
  BY DEF IInv, TypeOK
<1>3. /\ mempool' \in Seq([profile : ProfileType, waiter : Worker \cup {Nobody}])
      /\ Len(mempool') = Len(mempool)
      /\ \A i \in 1 .. Len(mempool) :
           /\ mempool'[i].waiter = IF mempool[i].waiter = w THEN Nobody ELSE mempool[i].waiter
           /\ mempool'[i].profile = mempool[i].profile
  <2>1. mempool \in Seq([profile : ProfileType, waiter : Worker \cup {Nobody}])
    BY DEF IInv, TypeOK
  <2>2. /\ Len(mempool) \in Nat
        /\ mempool \in [1 .. Len(mempool) -> [profile : ProfileType, waiter : Worker \cup {Nobody}]]
    BY <2>1, LenProperties
  <2>3. mempool' \in [1 .. Len(mempool) -> [profile : ProfileType, waiter : Worker \cup {Nobody}]]
    BY <2>2 DEF Forget
  <2>4. \A i \in 1 .. Len(mempool) :
          /\ mempool'[i].waiter = IF mempool[i].waiter = w THEN Nobody ELSE mempool[i].waiter
          /\ mempool'[i].profile = mempool[i].profile
    BY <2>2 DEF Forget
  <2>5. mempool' \in Seq([profile : ProfileType, waiter : Worker \cup {Nobody}]) /\ Len(mempool') = Len(mempool)
    BY <2>2, <2>3 DEF Forget
  <2> QED BY <2>4, <2>5
<1>4. TypeOK'
  <2>1. StreamTypes'
    BY TypesApart, SameStreamTypes DEF IInv
  <2>2. WorkerTypes'
    BY <1>3, TypesApart DEF IInv, WorkerTypes, Finished
  <2>3. LockTypes'
    BY TypesApart, FaultTypes DEF IInv, LockTypes, lockVars
  <2> QED BY <1>1, <2>1, <2>2, <2>3, TypesTogether DEF IInv
<1>5. BusyPollsHandle'
  BY <1>1, <1>2, SamePublishes DEF IInv, BusyPollsHandle, Worker
<1>6. SuccessesApplied'
  BY <1>2, SameTodo, Observed DEF IInv, SuccessesApplied, Succeeded, Worker
<1>7. Awaited'
  <2> SUFFICES ASSUME NEW i \in 1 .. Len(mempool), NEW v \in Worker,
                      mempool'[i].waiter = v
               PROVE  /\ step'[v] = "sent"
                      /\ \A j \in 1 .. Len(mempool) : mempool'[j].waiter = v => j = i
                      /\ v \in Poll => mempool'[i].profile = Profile(v)'
    BY <1>3 DEF Awaited
  <2>1. v # w /\ mempool[i].waiter = v
    BY <1>3, PublisherConstants
  <2>2. /\ step[v] = "sent"
        /\ \A j \in 1 .. Len(mempool) : mempool[j].waiter = v => j = i
        /\ v \in Poll => mempool[i].profile = Profile(v)
    BY <2>1 DEF IInv, Awaited
  <2>3. \A j \in 1 .. Len(mempool) : mempool'[j].waiter = v => mempool[j].waiter = v
    BY <1>3, PublisherConstants
  <2>4. ASSUME v \in Poll PROVE Profile(v)' = Profile(v)
    BY <1>1, <2>2, <2>4, SameProfileAfter DEF IInv, BusyPollsHandle, Publishes
  <2> QED BY <1>2, <1>3, <2>1, <2>2, <2>3, <2>4
<1>8. OffIsEmpty' /\ AckedWasApplied'
  BY <1>1, AckedKept DEF IInv, OffIsEmpty
<1>9. LockInv'
  <2>1. Writers' \subseteq Writers
    BY <1>2, WritersWithin
  <2> QED BY <2>1, SameLock DEF IInv
<1> QED BY <1>4, <1>5, <1>6, <1>7, <1>8, <1>9 DEF IInv

\* Nobody waits, nobody writes, the lock is that of a dead process.
LEMMA CrashStep ==
  ASSUME IInv, Observe, Crash
  PROVE  IInv'
<1> USE DEF Crash, PollsDie
<1>1. StreamKept
  BY StreamSame DEF IInv
<1>2. \A w \in Worker : step'[w] = "none"
  OBVIOUS
<1>3. /\ mempool' \in Seq([profile : ProfileType, waiter : Worker \cup {Nobody}])
      /\ Len(mempool') = Len(mempool)
      /\ \A i \in 1 .. Len(mempool) : mempool'[i].waiter = Nobody
  <2>1. mempool \in Seq([profile : ProfileType, waiter : Worker \cup {Nobody}])
    BY DEF IInv, TypeOK
  <2>2. /\ Len(mempool) \in Nat
        /\ mempool \in [1 .. Len(mempool) -> [profile : ProfileType, waiter : Worker \cup {Nobody}]]
    BY <2>1, LenProperties
  <2>3. /\ mempool' \in [1 .. Len(mempool) -> [profile : ProfileType, waiter : Worker \cup {Nobody}]]
        /\ \A i \in 1 .. Len(mempool) : mempool'[i].waiter = Nobody
    BY <2>2
  <2> QED BY <2>2, <2>3
<1>4. TypeOK'
  <2>1. StreamTypes'
    BY TypesApart DEF IInv, StreamTypes
  <2>2. WorkerTypes'
    <3>1. batch' \in Seq(ProfileType)
      OBVIOUS
    <3>2. step' \in [Worker -> {"none", "reading", "sent", "handled"} \cup Finished]
      OBVIOUS
    <3> QED BY <1>3, <3>1, <3>2, TypesApart DEF IInv, WorkerTypes
  <2>3. LockTypes'
    BY TypesApart, FaultTypes DEF IInv, LockTypes
  <2> QED BY <1>1, <2>1, <2>2, <2>3, TypesTogether DEF IInv
<1>5. BusyPollsHandle' /\ SuccessesApplied' /\ OffIsEmpty'
  BY <1>2 DEF BusyPollsHandle, SuccessesApplied, Succeeded, OffIsEmpty, Worker
<1>6. Awaited'
  BY <1>3, PublisherConstants DEF Awaited
<1>7. AckedWasApplied'
  BY <1>1, AckedKept DEF IInv
<1>8. LockInv'
  <2>1. Writers' = {} /\ lock' \notin Worker /\ watchdog' = Nobody /\ misses' = misses
    BY <1>2, PublisherConstants, TypesApart DEF Writers, Finished, IInv, LockTypes
  <2>2. Writers' \ {lock'} = {} /\ misses \in Nat
    BY <2>1, DebtTyped DEF IInv
  <2>3. Cardinality({}) = 0
    BY FS_EmptySet
  <2> QED BY <2>1, <2>2, <2>3 DEF LockInv, TimerIsHolders, DebtBounded, Unrenewed
<1> QED BY <1>4, <1>5, <1>6, <1>7, <1>8 DEF IInv

-----------------------------------------------------------------------------
(* The sync job *)

\* The sync job goes on to its next profile, or releases the lock.
LEMMA NextProfileStep ==
  ASSUME IInv, JobHasBatch, Observe, NextProfile
  PROVE  IInv'
<1> USE DEF NextProfile
<1>1. /\ step[SyncJob] \in Finished
      /\ SyncJob \in Worker
      /\ step'[SyncJob] \in {"none", "reading"}
      /\ \A v \in Worker : v # SyncJob => step'[v] = step[v]
      /\ step' \in [Worker -> {"none", "reading", "sent", "handled"} \cup Finished]
  BY DEF IInv, TypeOK, Worker
<1>2. LockTypes' /\ LockInv'
  <2>1. SyncJob \in Writers
    BY <1>1 DEF Writers
  <2>2. CASE Len(batch) = 1
    <3>1. step'[SyncJob] = "none" /\ Release(SyncJob)
      BY <1>1, <2>2 DEF IInv, TypeOK
    <3>2. Writers' \subseteq Writers \ {SyncJob}
      BY <1>1, <3>1 DEF Writers, Finished
    <3> QED BY <1>1, <2>1, <3>1, <3>2, TypesApart, ReleaseTypes, ReleaseKeepsDebt
         DEF IInv, chainVars
  <2>3. CASE Len(batch) # 1
    <3>1. Writers' \subseteq Writers
      BY <1>1, <2>1, WritersWithin DEF Writers
    <3> QED BY <2>3, <3>1, TypesApart, SameLockTypes, SameLock DEF IInv, chainVars, faultVars
  <2> QED BY <2>2, <2>3
<1>3. batch # <<>> /\ Head(batch) \in ProfileType /\ batch' \in Seq(ProfileType)
  <2>1. batch # <<>> /\ batch \in Seq(ProfileType)
    BY <1>1 DEF JobHasBatch, Finished, IInv, TypeOK
  <2> QED BY <2>1
<1>4. /\ StreamKept
      /\ stream' \in Seq(MessageType)
      /\ Len(stream') \in Nat
  <2>1. CASE step[SyncJob] = "confirmed"
    <3> DEFINE m == Message(Head(batch).address, Head(batch).risk, "publisher")
    <3>1. m \in MessageType
      BY <1>3 DEF ProfileType, Publishable, Payload, Message, MessageType
    <3>2. PublishRiskUpdate(m)
      BY <2>1
    <3> HIDE DEF m
    <3> QED BY <3>1, <3>2, StreamExtended DEF IInv, StreamKept
  <2>2. CASE step[SyncJob] # "confirmed"
    BY <2>2, StreamSame DEF IInv, TypeOK, StreamKept, MessageType
  <2> QED BY <2>1, <2>2
<1>5. TypeOK'
  <2>1. StreamTypes'
    <3>1. delivered' \in 0 .. Len(stream')
      BY <1>4 DEF IInv, TypeOK, StreamKept
    <3> QED BY <1>4, <3>1, TypesApart DEF IInv, StreamTypes
  <2>2. WorkerTypes'
    BY <1>1, <1>3, TypesApart DEF IInv, WorkerTypes, chainVars
  <2> QED BY <1>2, <1>4, <2>1, <2>2, TypesTogether DEF IInv
<1>6. BusyPollsHandle' /\ SuccessesApplied' /\ Awaited'
  <2>1. \A w \in Worker : step'[w] = step[w] \/ step[w] # "sent"
    BY <1>1 DEF Finished
  <2>2. \A q \in Poll : q # SyncJob /\ q \in Worker
    BY PublisherConstants DEF Worker
  <2> QED BY <1>1, <1>4, <2>1, <2>2, SameMempool DEF IInv, chainVars
<1>7. OffIsEmpty' /\ AckedWasApplied'
  BY <1>4, AckedKept DEF IInv, OffIsEmpty
<1> QED BY <1>2, <1>5, <1>6, <1>7 DEF IInv

\* The job has a profile to publish until it is done with the last one.
LEMMA JobHasBatchStep ==
  ASSUME IInv, JobHasBatch, Step
  PROVE  JobHasBatch'
<1> USE DEF JobHasBatch, IInv
<1>1. SyncJob \in Worker /\ \A p \in Poll : p # SyncJob
  BY PublisherConstants DEF Worker
<1>2. ASSUME NEW p \in Poll, PollStep(p) \/ Advance(p) \/ PollGivesUp(p)
      PROVE  JobHasBatch'
  <2>1. batch' = batch /\ step'[SyncJob] = step[SyncJob]
    BY <1>1, <1>2 DEF PollStep, Advance, PollGivesUp, StartPoll, PollNew, DropForeign,
       RejectMalformed, ReleaseLock, Acknowledge, Fail, Acquire, SkipProfile, Send, HeldUp,
       StreamOnly, TypeOK
  <2> QED BY <2>1
<1>3. ASSUME Advance(SyncJob) PROVE JobHasBatch'
  BY <1>1, <1>3 DEF Advance, Acquire, SkipProfile, Send, HeldUp, Waiting, TypeOK
<1>4. ASSUME NextProfile PROVE JobHasBatch'
  <2>1. batch \in Seq(ProfileType) /\ batch # <<>>
    BY <1>4 DEF NextProfile, Finished, TypeOK
  <2>2. Len(batch) # 1 => Tail(batch) # <<>>
    <3>1. Len(Tail(batch)) = Len(batch) - 1 /\ Len(batch) \in Nat
      BY <2>1, HeadTailProperties, LenProperties
    <3>2. Len(batch) # 0
      BY <2>1, EmptySeq
    <3>3. Len(batch) # 1 => Len(Tail(batch)) # 0
      BY <3>1, <3>2
    <3> QED BY <3>3, EmptySeq
  <2>3. Len(batch) = 1 => step'[SyncJob] = "none"
    BY <1>1, <1>4 DEF NextProfile, TypeOK
  <2> QED BY <1>4, <2>2, <2>3 DEF NextProfile
<1>5. ASSUME Mine \/ LeaseExpires PROVE JobHasBatch'
  <2>1. CASE LeaseExpires
    BY <2>1 DEF LeaseExpires
  <2>2. CASE Mine
    <3>1. mempool # <<>> /\ mempool \in Seq([profile : ProfileType, waiter : Worker \cup {Nobody}])
      BY <2>2 DEF Mine, TypeOK
    <3>2. 1 \in 1 .. Len(mempool) /\ Head(mempool) = mempool[1]
      BY <3>1
    <3>3. Head(mempool).waiter = SyncJob => step[SyncJob] = "sent"
      BY <1>1, <3>2 DEF Awaited
    <3>4. Head(mempool).waiter # SyncJob => step'[SyncJob] = step[SyncJob]
      BY <1>1, <2>2 DEF Mine, TypeOK
    <3> QED BY <2>2, <3>3, <3>4 DEF Mine
  <2> QED BY <1>5, <2>1, <2>2
<1>6. ASSUME NEW b \in Batch, StartBatch(b) PROVE JobHasBatch'
  BY <1>6, PublisherConstants DEF StartBatch
<1>7. ASSUME NEW w \in Worker, SendFails(w) \/ ConfirmationTimeout(w) PROVE JobHasBatch'
  BY <1>1, <1>7 DEF SendFails, ConfirmationTimeout, TypeOK
<1>8. ASSUME BatchGivesUp \/ RenewalFails PROVE JobHasBatch'
  BY <1>8 DEF BatchGivesUp, RenewalFails, Waiting
<1>9. ASSUME Crash PROVE JobHasBatch'
  BY <1>1, <1>9 DEF Crash
<1>10. ASSUME NEW a \in Address, NEW r \in Payload, BackendUpdate(a, r) PROVE JobHasBatch'
  BY <1>10 DEF BackendUpdate
<1>11. ASSUME NEW id \in pending, StallMessage(id) PROVE JobHasBatch'
  BY <1>11 DEF StallMessage, StreamOnly
<1>12. ASSUME NEW a \in Address, IntervalPasses(a) PROVE JobHasBatch'
  BY <1>12 DEF IntervalPasses
<1> QED BY <1>2, <1>3, <1>4, <1>5, <1>6, <1>7, <1>8, <1>9, <1>10, <1>11, <1>12
     DEF Step, ChainStep

-----------------------------------------------------------------------------
(* The theorems *)

\* The initial states
LEMMA InitInv == Init => IInv /\ JobHasBatch
<1> SUFFICES ASSUME Init PROVE IInv /\ JobHasBatch
  OBVIOUS
<1> USE DEF Init, StreamInit
<1>1. TypeOK
  <2>1. /\ Len(stream) = 0 /\ stream \in Seq(MessageType)
        /\ mempool \in Seq([profile : ProfileType, waiter : Worker \cup {Nobody}])
        /\ batch \in Seq(ProfileType)
    OBVIOUS
  <2>2. /\ delivered \in 0 .. 0 /\ pending \subseteq 1 .. delivered /\ idle \subseteq pending
        /\ deadLetters \subseteq 1 .. delivered /\ applied \subseteq 1 .. Len(stream)
        /\ todo \in [Poll -> SUBSET (1 .. delivered)]
        /\ stage \in [Poll -> {"off", "reclaimed", "fresh"}]
    OBVIOUS
  <2>3. /\ registry \in [Address -> [risk : Risk \cup {NoRisk}, sanctioned : BOOLEAN, recent : BOOLEAN]]
        /\ lock \in Worker \cup {Nobody, DeadHolder}
        /\ step \in [Worker -> {"none", "reading", "sent", "handled"} \cup Finished]
    OBVIOUS
  <2>4. faults \in Nat /\ misses \in 0 .. faults
    OBVIOUS
  <2>5. nonceLost \in BOOLEAN /\ watchdog \in Worker \cup {Nobody}
    OBVIOUS
  <2> QED BY <2>1, <2>2, <2>3, <2>4, <2>5 DEF TypeOK, MessageType
<1>2. OffIsEmpty /\ BusyPollsHandle /\ SuccessesApplied /\ JobHasBatch
  BY DEF OffIsEmpty, BusyPollsHandle, SuccessesApplied, Succeeded, JobHasBatch, Worker
<1>3. Awaited
  <2>1. Len(mempool) = 0
    OBVIOUS
  <2> QED BY <2>1 DEF Awaited
<1>4. AckedWasApplied
  BY DEF AckedWasApplied
<1>5. LockInv
  <2>1. Writers \ {lock} = {} /\ Unrenewed = 0
    <3>1. \A w \in Worker : step[w] = "none"
      OBVIOUS
    <3>2. lock \notin Worker
      BY PublisherConstants
    <3> QED BY <3>1, <3>2 DEF Writers, Finished, Unrenewed
  <2>2. Cardinality({}) = 0
    BY FS_EmptySet
  <2>3. watchdog = Nobody /\ misses = 0
    OBVIOUS
  <2> QED BY ONLY <2>1, <2>2, <2>3 DEF LockInv, TimerIsHolders, DebtBounded
<1> QED BY <1>1, <1>2, <1>3, <1>4, <1>5 DEF IInv

\* Every step
LEMMA NextInv == IInv /\ JobHasBatch /\ [Next]_vars => IInv' /\ JobHasBatch'
<1> SUFFICES ASSUME IInv, JobHasBatch, [Next]_vars PROVE IInv' /\ JobHasBatch'
  OBVIOUS
<1>1. CASE UNCHANGED vars
  <2> USE <1>1 DEF vars, streamVars, chainVars, lockVars, faultVars
  <2>1. \A p \in Poll : /\ Publishes(p)' <=> Publishes(p)
                       /\ CurrentId(p)' = CurrentId(p)
                       /\ Profile(p)' = Profile(p)
    BY SameTodo, PublisherConstants DEF Profile, Current, Publishes
  <2>2. TypeOK' /\ OffIsEmpty'
    BY DEF IInv, TypeOK, OffIsEmpty
  <2>3. BusyPollsHandle' /\ SuccessesApplied'
    BY <2>1 DEF IInv, BusyPollsHandle, SuccessesApplied
  <2>4. Awaited'
    BY <2>1 DEF IInv, Awaited
  <2>5. AckedWasApplied' /\ JobHasBatch'
    BY DEF IInv, AckedWasApplied, JobHasBatch
  <2>6. LockInv'
    BY WritersWithin, SameLock DEF IInv
  <2> QED BY <2>2, <2>3, <2>4, <2>5, <2>6 DEF IInv
<1>2. CASE Next
  <2> USE <1>2 DEF Next
  <2>1. JobHasBatch'
    BY JobHasBatchStep
  <2>2. ASSUME NEW p \in Poll, PollStep(p) PROVE IInv'
    BY <2>2, StartPollStep, PollNewStep, DropForeignStep, RejectMalformedStep, ReleaseLockStep,
       AcknowledgeStep, FailStep DEF PollStep
  <2>3. ASSUME NEW w \in Worker, Advance(w) PROVE IInv'
    BY <2>3, AcquireStep, SkipProfileStep, SendStep, HeldUpStep DEF Advance
  <2>4. ASSUME NEW p \in Poll, PollGivesUp(p) PROVE IInv'
    BY <2>4, PollGivesUpStep
  <2>5. ASSUME ChainStep PROVE IInv'
    BY <2>3, <2>5, NextProfileStep, MineStep, LeaseExpiresStep DEF ChainStep, Worker
  <2>6. ASSUME NEW a \in Address, NEW r \in Payload, BackendUpdate(a, r) PROVE IInv'
    BY <2>6, BackendUpdateStep
  <2>7. ASSUME NEW b \in Batch, StartBatch(b) PROVE IInv'
    BY <2>7, StartBatchStep
  <2>8. ASSUME NEW id \in pending, StallMessage(id) PROVE IInv'
    BY <2>8, StallStep
  <2>9. ASSUME NEW a \in Address, IntervalPasses(a) PROVE IInv'
    BY <2>9, IntervalPassesStep
  <2>10. ASSUME NEW w \in Worker, SendFails(w) \/ ConfirmationTimeout(w) PROVE IInv'
    BY <2>10, SendFailsStep, ConfirmationTimeoutStep
  <2>11. ASSUME BatchGivesUp \/ RenewalFails \/ Crash PROVE IInv'
    BY <2>11, BatchGivesUpStep, RenewalFailsStep, CrashStep
  <2>12. Poll \subseteq Worker
    BY DEF Worker
  <2> QED BY <2>1, <2>2, <2>3, <2>4, <2>5, <2>6, <2>7, <2>8, <2>9, <2>10, <2>11, <2>12 DEF Step
<1> QED BY <1>1, <1>2

\* The invariant of the specification
LEMMA Invariant == Spec => [](IInv /\ JobHasBatch)
BY InitInv, NextInv, PTL DEF Spec

\* The stream, its polls, the lock and the mempool keep their types; what is
\* pending, idle or a dead letter was delivered.
THEOREM PublisherTypeSafety == Spec => []TypeOK
<1>1. IInv /\ JobHasBatch => TypeOK
  BY DEF IInv
<1> QED BY <1>1, Invariant, PTL

\* A message that was acknowledged and is no dead letter had its profile on
\* chain after it was published (handleStreamMessage acknowledges when the
\* handler returned, and the handler throws unless the write was confirmed or
\* the profile was there).
THEOREM AckedMessagesWereApplied == Spec => []AckedWasApplied
<1>1. IInv /\ JobHasBatch => AckedWasApplied
  BY DEF IInv
<1> QED BY <1>1, Invariant, PTL

\* As long as every renewal of chain:write succeeded at most one worker reads or
\* writes the chain, beside the leases of dead processes and late releases too;
\* each renewal that failed lets in at most one more (the timer of the watchdog
\* ends with the first failure, and a release stops the timer of whoever holds
\* the lock by then).
THEOREM ChainWritersBounded == Spec => []WritersBounded
<1>1. IInv /\ JobHasBatch => WritersBounded
  <2> SUFFICES ASSUME IInv PROVE WritersBounded
    OBVIOUS
  <2> DEFINE A == Writers \ {lock}
  <2>1. Writers \subseteq Worker /\ A \subseteq Worker
    BY DEF Writers
  <2>2. IsFiniteSet(Writers) /\ Cardinality(Writers) \in Nat /\ Cardinality(A) \in Nat /\ misses \in Nat
    BY <2>1, DebtTyped DEF IInv
  <2>3. Cardinality(Writers) <= Cardinality(A) + 1
    <3>1. Cardinality(A) = IF lock \in Writers THEN Cardinality(Writers) - 1 ELSE Cardinality(Writers)
      BY <2>2, FS_RemoveElement
    <3> QED BY <2>2, <3>1
  <2>4. Unrenewed \in {0, 1} /\ Cardinality(A) + Unrenewed <= misses
    BY DEF IInv, LockInv, DebtBounded, Unrenewed
  <2>5. Cardinality(Writers) <= 1 + misses
    BY <2>2, <2>3, <2>4
  <2> QED BY <2>5 DEF WritersBounded
<1> QED BY <1>1, Invariant, PTL
=============================================================================
