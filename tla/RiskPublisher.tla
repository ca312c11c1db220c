--------------------------- MODULE RiskPublisher ---------------------------
(***************************************************************************)
(* The publisher process: data-publisher/src/publisher.ts over the stream  *)
(* of message-queue.ts, the Redis lock chain:write and the registry.       *)
(*                                                                         *)
(* Two kinds of workers write to the chain: the polls of the stream, one   *)
(* message at a time (publishSingleWithLock), and the sync job, a batch of *)
(* profiles (publish).  Both hold the lock while they read the profile on  *)
(* chain, skip it if it is already there, and otherwise send a transaction *)
(* and wait for its receipt, at most 120 seconds: a transaction nobody     *)
(* waits for any more may still be mined.  After each profile it wrote the *)
(* sync job publishes a confirmation in the stream, the one its own        *)
(* process reads.                                                          *)
(*                                                                         *)
(* The lock has a lease of 60 seconds.  The process has one timer that     *)
(* renews it, whoever of its workers holds the lock: taking the lock       *)
(* starts the timer for the taker, releasing it stops the timer, also when *)
(* the lock has gone to another worker meanwhile, and one renewal that     *)
(* fails stops it for good.  A lease nobody renews runs out, whether its   *)
(* holder is at work or not.                                               *)
(*                                                                         *)
(* All transactions have one signer and its nonces, so they are mined in   *)
(* the order they were sent.  A nonce that was given to a transaction the  *)
(* node never got holds up all later ones until the process restarts.      *)
(***************************************************************************)
EXTENDS RiskStream, FiniteSetsExt

CONSTANTS
  Address,      \* the addresses with a profile
  Risk,         \* score and tier of a profile
  Excessive,    \* a score above 100: the registry reverts
  Malformed,    \* a payload without address, score or known tier
  Foreign,      \* a message that is no JSON or has a type nobody handles
  NoRisk,       \* score and tier of an address without a profile
  Batch,        \* the batches of profiles a sync job may have
  SyncJob,      \* the worker that runs sync jobs
  Nobody,       \* the lock is free; nobody waits for a transaction
  DeadHolder,   \* the lock of a process that died
  MaxUpdates,   \* bound: updates the backend publishes
  MaxBatches,   \* bound: sync jobs that reach the chain
  MaxFaults     \* bound: crashes, failed sends and renewals, late confirmations

Worker == Poll \cup {SyncJob}

\* What a message may carry, and what a worker may publish
Payload == Risk \cup {Excessive, Malformed, Foreign}
Publishable == Risk \cup {Excessive}

ProfileType == [address : Address, risk : Publishable, sanctioned : BOOLEAN,
                source : {"sync", "backend", "publisher"}]

ASSUME PublisherConstants ==
  /\ SyncJob \notin Poll
  /\ Nobody \notin Worker \cup {DeadHolder}
  /\ DeadHolder \notin Worker
  /\ IsFiniteSet(Poll)
  /\ Excessive \notin Risk \cup {NoRisk, Malformed, Foreign}
  /\ Malformed \notin Risk \cup {NoRisk, Foreign}
  /\ Foreign \notin Risk \cup {NoRisk}
  /\ \A b \in Batch : b \in Seq(ProfileType) /\ b # <<>>

VARIABLES
  registry,  \* risk and sanctioned of each address, and whether it was rewritten
             \* less than MIN_UPDATE_INTERVAL ago
  mempool,   \* the transactions sent and not mined, in nonce order
  nonceLost, \* a nonce was given to a transaction the node never got
  lock,      \* who holds chain:write
  watchdog,  \* whose lock the timer renews
  step,      \* where each worker is
  batch,     \* the profiles the sync job still has to publish, in order
  updates,   \* updates published by the backend
  batches,   \* sync jobs started
  faults,    \* faults so far
  misses,    \* those of them that were renewals
  applied    \* observer: the messages whose profile was on chain at some time
             \* since they were published

chainVars == <<registry, mempool, nonceLost>>
lockVars == <<lock, watchdog>>
faultVars == <<faults, misses>>
boundVars == <<updates, batches>>
vars == <<streamVars, chainVars, lockVars, step, batch, faultVars, boundVars, applied>>

Init ==
  /\ StreamInit
  /\ registry = [a \in Address |-> [risk |-> NoRisk, sanctioned |-> FALSE, recent |-> FALSE]]
  /\ mempool = <<>>
  /\ nonceLost = FALSE
  /\ lock = Nobody
  /\ watchdog = Nobody
  /\ step = [w \in Worker |-> "none"]
  /\ batch = <<>>
  /\ updates = 0
  /\ batches = 0
  /\ faults = 0
  /\ misses = 0
  /\ applied = {}

Fault == faults < MaxFaults /\ faults' = faults + 1

-----------------------------------------------------------------------------
(* The backend and the polls *)

Message(a, r, source) == [address |-> a, risk |-> r, source |-> source]

\* sync_risk_to_chain of the backend: the message says nothing of sanctions,
\* and nothing checks what it carries.
BackendUpdate(a, r) ==
  /\ updates < MaxUpdates
  /\ updates' = updates + 1
  /\ PublishRiskUpdate(Message(a, r, "backend"))
  /\ UNCHANGED <<delivered, pending, idle, deadLetters, stage, todo,
                 chainVars, lockVars, step, batch, batches, faultVars>>

StreamOnly == UNCHANGED <<chainVars, lockVars, step, batch, faultVars, boundVars>>

StartPoll(p) == ReclaimStalled(p) /\ StreamOnly
PollNew(p) == ReadNew(p) /\ StreamOnly
StallMessage(id) == Stall(id) /\ StreamOnly

\* No handler has the message: it is acknowledged as it is.
DropForeign(p) ==
  /\ step[p] = "none"
  /\ Handling(p)
  /\ Current(p).risk = Foreign
  /\ MessageHandled(p)
  /\ StreamOnly

\* The handler throws before it asks for the lock.
RejectMalformed(p) ==
  /\ step[p] = "none"
  /\ Handling(p)
  /\ Current(p).risk = Malformed
  /\ MessageFailed(p)
  /\ StreamOnly

\* The profile a worker is publishing.  The handler of a message makes one
\* that is never sanctioned.
Profile(w) ==
  IF w = SyncJob THEN Head(batch)
  ELSE [address |-> Current(w).address, risk |-> Current(w).risk, sanctioned |-> FALSE,
        source |-> Current(w).source]

\* publish begins.  When the lock is taken it does not get past its check:
\* logger.warning is no method of the logger, and the batch fails there.
StartBatch(b) ==
  /\ batch = <<>>
  /\ lock = Nobody
  /\ batches < MaxBatches
  /\ batches' = batches + 1
  /\ batch' = b
  /\ UNCHANGED <<streamVars, chainVars, lockVars, step, updates, faultVars>>

Waiting(w) ==
  /\ step[w] = "none"
  /\ IF w = SyncJob THEN batch # <<>>
     ELSE Handling(w) /\ Current(w).risk \in Publishable

-----------------------------------------------------------------------------
(* The lock *)

Acquire(w) ==
  /\ Waiting(w)
  /\ lock = Nobody
  /\ lock' = w
  /\ watchdog' = w
  /\ step' = [step EXCEPT ![w] = "reading"]
  /\ UNCHANGED <<streamVars, chainVars, batch, faultVars, boundVars>>

\* Mutant: any skipped result counts as processed.
GivesUpAsProcessed(p) ==
  /\ Waiting(p)
  /\ lock # Nobody
  /\ MessageHandled(p)
  /\ StreamOnly

\* 30 seconds without the lock: the handler throws, or the batch is dropped.
PollGivesUp(p) ==
  /\ Waiting(p)
  /\ lock # Nobody
  /\ MessageFailed(p)
  /\ StreamOnly

BatchGivesUp ==
  /\ Waiting(SyncJob)
  /\ lock # Nobody
  /\ batch' = <<>>
  /\ UNCHANGED <<streamVars, chainVars, lockVars, step, faultVars, boundVars>>

\* One renewal fails, in Redis or because it was under way when the lock was
\* released: the timer ends, for whomever it was running.
RenewalFails ==
  /\ watchdog # Nobody
  /\ Fault
  /\ misses' = misses + 1
  /\ watchdog' = Nobody
  /\ UNCHANGED <<streamVars, chainVars, lock, step, batch, boundVars>>

\* Mutant: no timer renews the lease.
LeaseExpiresUnrenewed ==
  /\ lock # Nobody
  /\ lock' = Nobody
  /\ UNCHANGED <<streamVars, chainVars, watchdog, step, batch, faultVars, boundVars>>

LeaseExpires ==
  /\ lock \notin {Nobody, watchdog}
  /\ lock' = Nobody
  /\ UNCHANGED <<streamVars, chainVars, watchdog, step, batch, faultVars, boundVars>>

-----------------------------------------------------------------------------
(* publishSingle *)

SameProfile(w) ==
  LET onChain == registry[Profile(w).address] IN
  /\ Profile(w).risk = onChain.risk
  /\ Profile(w).sanctioned = onChain.sanctioned

\* What the profile on chain says decides whether to skip.
SkipProfile(w) ==
  /\ step[w] = "reading"
  /\ SameProfile(w)
  /\ step' = [step EXCEPT ![w] = "skipped"]
  /\ UNCHANGED <<streamVars, chainVars, lockVars, batch, faultVars, boundVars>>

\* Also when the profile is on chain: a reading that fails counts as none.  A
\* transaction that was sent earlier and is mined after the reading is mined
\* before this one either way, so reading and sending are one step.  Behind a
\* lost nonce the node keeps the transaction and does not mine it.
Send(w) ==
  /\ step[w] = "reading"
  /\ mempool' = IF nonceLost THEN mempool
                ELSE Append(mempool, [profile |-> Profile(w), waiter |-> w])
  /\ step' = [step EXCEPT ![w] = "sent"]
  /\ UNCHANGED <<streamVars, registry, nonceLost, lockVars, batch, faultVars, boundVars>>

\* The call throws: before the transaction had a nonce, after the node got it,
\* or between the two.
SendFails(w) ==
  /\ step[w] = "reading"
  /\ Fault
  /\ \/ UNCHANGED <<mempool, nonceLost>>
     \/ /\ ~nonceLost
        /\ mempool' = Append(mempool, [profile |-> Profile(w), waiter |-> Nobody])
        /\ UNCHANGED nonceLost
     \/ /\ nonceLost' = TRUE
        /\ UNCHANGED mempool
  /\ step' = [step EXCEPT ![w] = "unconfirmed"]
  /\ UNCHANGED <<streamVars, registry, lockVars, batch, misses, boundVars>>

\* The next transaction is mined, or reverts because the profile was
\* rewritten too recently or the score is none.
Mine ==
  LET tx == Head(mempool)
      reverts == registry[tx.profile.address].recent \/ tx.profile.risk = Excessive
  IN
  /\ mempool # <<>>
  /\ mempool' = Tail(mempool)
  /\ registry' = IF reverts THEN registry
                 ELSE [registry EXCEPT ![tx.profile.address] =
                        [risk |-> tx.profile.risk, sanctioned |-> tx.profile.sanctioned,
                         recent |-> TRUE]]
  /\ step' = IF tx.waiter = Nobody THEN step
             ELSE [step EXCEPT ![tx.waiter] = IF reverts THEN "unconfirmed" ELSE "confirmed"]
  /\ UNCHANGED <<streamVars, nonceLost, lockVars, batch, faultVars, boundVars>>

Forget(w) ==
  [i \in 1 .. Len(mempool) |->
     IF mempool[i].waiter = w THEN [mempool[i] EXCEPT !.waiter = Nobody] ELSE mempool[i]]

\* 120 seconds without a receipt: the transaction stays in the mempool.
ConfirmationTimeout(w) ==
  /\ step[w] = "sent"
  /\ Fault
  /\ mempool' = Forget(w)
  /\ step' = [step EXCEPT ![w] = "unconfirmed"]
  /\ UNCHANGED <<streamVars, registry, nonceLost, lockVars, batch, misses, boundVars>>

\* The same for a transaction the node cannot mine.
HeldUp(w) ==
  /\ step[w] = "sent"
  /\ \A i \in 1 .. Len(mempool) : mempool[i].waiter # w
  /\ step' = [step EXCEPT ![w] = "unconfirmed"]
  /\ UNCHANGED <<streamVars, chainVars, lockVars, batch, faultVars, boundVars>>

\* MIN_UPDATE_INTERVAL passes.
IntervalPasses(a) ==
  /\ registry[a].recent
  /\ registry' = [registry EXCEPT ![a].recent = FALSE]
  /\ UNCHANGED <<streamVars, mempool, nonceLost, lockVars, step, batch, faultVars, boundVars>>

-----------------------------------------------------------------------------
(* The end of a publication *)

Finished == {"skipped", "confirmed", "unconfirmed"}

\* The timer stops first, whosever it is.  When Redis fails the key stays, and
\* runs out like that of a dead process.
Release(w) ==
  /\ watchdog' = Nobody
  /\ \/ /\ lock' = IF lock = w THEN Nobody ELSE lock
        /\ UNCHANGED faults
     \/ /\ lock = w
        /\ Fault
        /\ lock' = DeadHolder
  /\ UNCHANGED misses

\* The handler of a message returns: its profile was written or was there
\* already.  The lock is released first, the message acknowledged later.
ReleaseLock(p) ==
  /\ step[p] \in {"skipped", "confirmed"}
  /\ Release(p)
  /\ step' = [step EXCEPT ![p] = "handled"]
  /\ UNCHANGED <<streamVars, chainVars, batch, boundVars>>

Acknowledge(p) ==
  /\ step[p] = "handled"
  /\ MessageHandled(p)
  /\ step' = [step EXCEPT ![p] = "none"]
  /\ UNCHANGED <<chainVars, lockVars, batch, faultVars, boundVars>>

\* The handler throws.
Fail(p) ==
  /\ step[p] = "unconfirmed"
  /\ Release(p)
  /\ MessageFailed(p)
  /\ step' = [step EXCEPT ![p] = "none"]
  /\ UNCHANGED <<chainVars, batch, boundVars>>

\* The loop of publish: a confirmation for a profile that was written, the
\* next profile whatever became of this one, the lock released after the last.
NextProfile ==
  /\ step[SyncJob] \in Finished
  /\ IF step[SyncJob] = "confirmed"
       THEN PublishRiskUpdate(Message(Head(batch).address, Head(batch).risk, "publisher"))
       ELSE UNCHANGED stream
  /\ batch' = Tail(batch)
  /\ IF Len(batch) = 1
       THEN /\ step' = [step EXCEPT ![SyncJob] = "none"]
            /\ Release(SyncJob)
       ELSE /\ step' = [step EXCEPT ![SyncJob] = "reading"]
            /\ UNCHANGED <<lockVars, faultVars>>
  /\ UNCHANGED <<delivered, pending, idle, deadLetters, stage, todo, chainVars, boundVars>>

\* The process dies and comes back as a new consumer of the group, with the
\* nonces the node has.
Crash ==
  /\ Fault
  /\ PollsDie
  /\ step' = [w \in Worker |-> "none"]
  /\ batch' = <<>>
  /\ lock' = IF lock \in Worker THEN DeadHolder ELSE lock
  /\ watchdog' = Nobody
  /\ nonceLost' = FALSE
  /\ mempool' = [i \in 1 .. Len(mempool) |-> [mempool[i] EXCEPT !.waiter = Nobody]]
  /\ UNCHANGED <<registry, misses, boundVars>>

-----------------------------------------------------------------------------
PollStep(p) ==
  \/ StartPoll(p) \/ PollNew(p) \/ DropForeign(p) \/ RejectMalformed(p)
  \/ ReleaseLock(p) \/ Acknowledge(p) \/ Fail(p)

Advance(w) == Acquire(w) \/ SkipProfile(w) \/ Send(w) \/ HeldUp(w)

ChainStep ==
  \/ Advance(SyncJob) \/ NextProfile
  \/ Mine \/ LeaseExpires

Step ==
  \/ \E a \in Address, r \in Payload : BackendUpdate(a, r)
  \/ \E b \in Batch : StartBatch(b)
  \/ \E p \in Poll : PollStep(p) \/ Advance(p) \/ PollGivesUp(p)
  \/ \E id \in pending : StallMessage(id)
  \/ ChainStep
  \/ \E a \in Address : IntervalPasses(a)
  \/ \E w \in Worker : SendFails(w) \/ ConfirmationTimeout(w)
  \/ BatchGivesUp
  \/ RenewalFails
  \/ Crash

\* The profile of a message is on chain.
OnChain(id) ==
  /\ registry[stream[id].address].risk = stream[id].risk
  /\ ~registry[stream[id].address].sanctioned

Observe == applied' = applied \cup {id \in 1 .. Len(stream') : OnChain(id)'}

Next == Step /\ Observe

Spec == Init /\ [][Next]_vars

\* Positions the stream can reach
Position == 1 .. MaxUpdates + MaxBatches * Max({Len(b) : b \in Batch} \cup {0})

\* The timers go on (polls, leases, the stall of 60 seconds, the interval), a
\* worker that can go on does, and transactions are mined in the end.  Nothing
\* forces an update, a batch, a timeout or a crash.
Fairness ==
  /\ \A p \in Poll : WF_vars((PollStep(p) \/ Advance(p)) /\ Observe)
  /\ WF_vars(ChainStep /\ Observe)
  /\ \A a \in Address : WF_vars(IntervalPasses(a) /\ Observe)
  /\ \A id \in Position : WF_vars(StallMessage(id) /\ Observe)

FairSpec == Spec /\ Fairness

-----------------------------------------------------------------------------
TypeOK ==
  /\ stream \in Seq([address : Address, risk : Payload, source : {"backend", "publisher"}])
  /\ delivered \in 0 .. Len(stream)
  /\ idle \subseteq pending
  /\ pending \subseteq 1 .. delivered
  /\ deadLetters \subseteq 1 .. delivered
  /\ stage \in [Poll -> {"off", "reclaimed", "fresh"}]
  /\ todo \in [Poll -> SUBSET (1 .. delivered)]
  /\ registry \in [Address -> [risk : Risk \cup {NoRisk}, sanctioned : BOOLEAN, recent : BOOLEAN]]
  /\ mempool \in Seq([profile : ProfileType, waiter : Worker \cup {Nobody}])
  /\ batch \in Seq(ProfileType)
  /\ nonceLost \in BOOLEAN
  /\ lock \in Worker \cup {Nobody, DeadHolder}
  /\ watchdog \in Worker \cup {Nobody}
  /\ faults \in Nat
  /\ misses \in 0 .. faults
  /\ step \in [Worker -> {"none", "reading", "sent", "handled"}
                         \cup Finished]
  /\ applied \subseteq 1 .. Len(stream)

\* A message the publisher can apply is acknowledged only when its profile has
\* been on chain since it was published, or when it went to the dead-letter
\* queue: whatever polls it was given to, whoever had the lock and however often
\* the process died.
AckedWasApplied ==
  \A id \in 1 .. delivered :
    id \notin pending => (id \in applied \cup deadLetters \/ stream[id].risk = Foreign)

\* The workers that took the lock and have not come to release it
Writers == {w \in Worker : step[w] \in {"reading", "sent"} \cup Finished}

\* As long as the renewals succeed one worker at a time reads and writes the
\* chain, also when the lease of a process that died runs out; a renewal that
\* fails lets in one more writer and not, through the timers that late releases
\* stop, any number of them.
WritersBounded == Cardinality(Writers) <= 1 + misses

\* What no attempt can apply
Unusable == {id \in 1 .. Len(stream) : stream[id].risk \in {Malformed, Excessive}}

\* A poll waits while another one has the lock.
Contended == \E p \in Poll : Waiting(p) /\ lock \in Poll

\* Every message of the stream but these is settled in the end (acknowledged, not
\* just read), through failed and repeated attempts, crashes, lost and dead
\* leases, intervals that have not passed and messages that fail for ever; unless
\* the process goes on with a lost nonce, or the polls get in each other's way for
\* ever.
EveryUpdateSettled ==
  []<>(\/ delivered = Len(stream) /\ pending \subseteq Unusable
       \/ nonceLost
       \/ Contended)

\* A confirmation reports a write; consuming it writes nothing.
ConfirmationsWriteNothing ==
  [][mempool # <<>> /\ mempool' = Tail(mempool) /\ Head(mempool).profile.source = "publisher"
       => registry' = registry]_vars
=============================================================================
