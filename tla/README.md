# FidesOrigin: a TLA+ verification development

FidesOrigin is a compliance protocol: off-chain services collect sanctions lists and risk scores, write
them to registries on several chains, and contracts refuse or quarantine what the registries flag. This
directory holds TLA+ models of the parts of it that keep state and interact, TLC configurations that check
them on small instances, and proofs for every instance.

Paths below are relative to the repository; `contracts/` stands for `apps/contracts/contracts/`.

## 1. The system

### Components, their state and operations

| Component | State | Operations | Correct when |
|---|---|---|---|
| Risk registry, `contracts/RiskRegistry.sol` | a profile per address; the lists of high-risk and of sanctioned addresses, each an array, an index and a counter; number of profiles; pause | single write, write with confidence, batch, removal, pause; UUPS upgrade with a proposal | lists, indexes and counters agree with the profiles; a profile is not rewritten within `MIN_UPDATE_INTERVAL` |
| Oracle consensus, `RiskOracleConsensus.sol` behind `RiskOracle.sol` | authorised oracles, threshold, stakes and their age, the last response of each oracle per account, a counter per response, a "confirmed" flag, two clocks per account | add/remove an oracle, set the threshold, stake, unstake, slash, vote, reset | a decision has its votes, no oracle counts twice, the threshold can be reached, decisions keep their distance, a vote can be changed |
| Oracle requests, `RiskOracle.sol`, `RiskOracleQueue.sol`, `RiskOracleStorage.sol` | requests and their state, a ring of request ids, a ring of addresses to write, rate limits | request, callback of the Chainlink router, deferred processing, batch out of the queue | each answer enters the queue once, in order; what leaves it is written |
| Timelock, `FidesOriginTimelock.sol` | the library's ready times, the contract's own for emergencies, a list of pending operations, the mode and its announced change | schedule, schedule emergency, execute, cancel, announce/call off/execute a mode change, roles | no early, repeated or out-of-order execution; the list is what is pending |
| Merkle registry, `MerkleRiskRegistry.sol` | root, time of the last oracle update, ring of former roots | update by an administrator or by an oracle; proofs against the root | the history holds the latest roots |
| Bridge receiver, `FidesBridgeReceiver.sol` | approvals per update, counters, executed updates, nonce, ring of roots, relayers, senders | approve, execute at the third approval, roles | three distinct relayers per update, one update per number, registry and bridge move together |
| Quarantine vault, `QuarantineVault.sol` | records, totals per token and overall, pause, claim delay, pending ether withdrawal | deposit (one, batch), release, governance unlock, batch release, claim, freeze, pause, ether withdrawal | totals equal the records, tokens cover what is owed, each record is paid once, frozen records stay |
| Compliance and policy engines, `ComplianceEngine.sol`, `PolicyEngine.sol`, `FidesCompliance.sol`, `layer1/`, `layer3/`, the Diamond and its `facets/` | frozen funds, policies, daily counters, selector tables | checks per transfer, administration | limits are kept per day and per asset |
| Publisher: stream and chain writer, `data-publisher/src/message-queue.ts`, `publisher.ts` | the Redis stream `risk_updates` with its consumer group and dead letters; the lock `chain:write`; transactions in flight | polls, reclaim, acknowledge; `publishSingleWithLock`, `publish` | an acknowledged update is on chain; one writer as long as the lock is renewed; no update is lost |
| Publisher: sync jobs, `scheduler.ts`, `cluster-coordinator.ts` | a mutex per process with its queue; a lock per job type in Redis, with watchdog and heartbeats | `runSyncJob` from the wait for the mutex to the finally block; `acquireLock` with the takeover of a dead owner, `releaseLock`; crashes | one job of a type at a time; each job ends and gives up what it holds, and no more |
| Publisher: batch sync, `batch-collector.ts`, `batch-scheduler.ts` | `synced-addresses.json` (per source: synced and failed), its backup and its lock file | a run: load, download, publish in batches, look every address up, save; from the schedule and from the command line | what counts as synced has a profile; no address is forgotten |
| Data sync: daily pipeline, `data-sync/scripts/daily-sync.js` | snapshots and health of the sources, `risk-database.json`; the profiles and the root on chain; the backend's table | read, merge, compare, write in batches, push the root, delist, follow up in the backend, save | the chain follows the lists; a source that is down never clears a sanction |
| Data sync, `data-sync/src` | a database of addresses with a synced flag, a retry queue, nonces, a dead-letter table, a cursor per source | collect, store, send batches, retry, take up cursors | nothing is retried for ever or dropped unseen |
| Backend, `backend/app` | PostgreSQL, the Python side of the stream and of the lock | REST handlers; `sync_address_risk_to_chain` publishes an update | updates reach the publisher |
| Subgraph, API, mempool watcher, guard SDK, Forta agent, SDKs, web | derived or none | read, forward, show | they add no state of their own |

### How they interact

- Calls inside one transaction: the consensus and the deferred queue call the registry; the bridge calls the
  Merkle registry; the timelock calls whatever it executes. A revert of the callee undoes the caller's step,
  except where the caller catches it (the queue, the batch release).
- Shared state: the registry has several writers (consensus, queue, publisher, administrators), and any of
  them may have written a profile just before another comes.
- Files: the daily run and the batch sync each remember what they did in files of their own; nothing ties a
  file to the chain but the run that writes it after the chain was written.
- Messages: the backend and the publisher's sync job append to one stream that the publisher's polls read;
  relayers deliver the bridge's messages late, repeatedly and in any order; the Chainlink router calls back
  when it wants.
- Locks: every off-chain chain writer takes `chain:write` in Redis, with a lease and a watchdog.

### What is hard here

Swap-and-pop lists over long histories; votes that outlive their voter; flags that outlive what they stood
for; answers and approvals that come late or twice; rings at the moment they wrap; partial failure in
batches; amounts that differ from what was announced (fee on transfer); timers that start overlapping polls;
receipts that come after their timeout; a process that dies holding a lock, or loses it while it works;
a mutex released twice on one path; a source that is down looking like a list that became shorter; a file that
is written after the chain it describes, by two processes at once. `PROJECT.json` lists each of
these at its line with the properties that would catch it, or says why none does yet.

## 2. The modules

| Module | Models | State and actions against the code |
|---|---|---|
| `IndexedList` | the array/index/counter triple of `RiskRegistry.sol` | `Push`, `SwapAndPop`, `Relist` |
| `RiskRegistry` | `RiskRegistry.sol` | `registry` is the storage as one record; `Write` is `_updateRiskProfileInternal`, `WriteItem` one round of the batch, `Erase` the removal; a reverting call is no step |
| `RiskOracleConsensus` | `RiskOracleConsensus.sol`, composed with `RiskRegistry` | `SubmitVote`, `SubmitDecidingVote` split `_submitOracleResponse` at the threshold; the deciding one contains the registry's write and is disabled when the registry would revert; `RegistryStep` is the other writers |
| `RiskOracleHistory` | the same with a history variable | since when an oracle has stake |
| `SanctionsFeed` | abstract: what the request side promises | a queue without rings and flags |
| `RiskOracleRequests` | request side of `RiskOracle.sol`, composed with `RiskRegistry` | `RequestRiskUpdate`, `FulfillRequest`, `DeferRequest`, `ProcessDeferredRequests`, `ProcessPendingQueue`; `Answer` is what the router may deliver |
| `OperationTimelock` | abstract: what the timelock promises | no lists, no roles, no storage slots |
| `FidesOriginTimelock` | `FidesOriginTimelock.sol` over OpenZeppelin's controller (external) | both stores of ready times, list and index, mode, roles |
| `MerkleRiskRegistry` | root and history of `MerkleRiskRegistry.sol` | `registryVars` |
| `FidesBridgeReceiver` | `FidesBridgeReceiver.sol`, composed with `MerkleRiskRegistry` | `Approve` is a call below three approvals, `Sync` the third with everything it does in the registry |
| `QuarantineVault` | `QuarantineVault.sol`; token ledgers are external | `books` is the storage of records and totals; `blocked` are recipients a token refuses |
| `RiskStream` | `message-queue.ts` | ids are positions; `todo` is what a poll still has to handle |
| `RiskPublisher` | `publisher.ts` over `RiskStream`, with lock, mempool and a one-field view of the registry | each `step` of a worker is the code between two awaits; `watchdog` is whose lock the one timer of the process renews; `nonceLost` is the state of the `NonceManager` of ethers (external) after a send that the node never got |
| `ClusterLock` | the lock and the heartbeats of `cluster-coordinator.ts` | one definition per Redis command: `TakeLock` is `SET NX`, `ForceRelease` and `DeleteLock` are deletions that no longer look at the owner; `LeaseExpires` is the time to live |
| `SyncJobs` | `runSyncJob` of `scheduler.ts`, over `ClusterLock` | `step` is where a job is between two awaits; `mutex` is `AsyncMutex`; `early`, `stuck` and `preempted` only observe |
| `SourceLists` | `fetchOFAC`, `fetchHMT`, `fetchOpenSanctions` of `daily-sync.js` | a reading is a list, something unreadable (`Blank`) or nothing (`Down`); `healthy` are the `...SourceOk` flags, `snapshot` the fallback files with their age |
| `DailySync` | the rest of `daily-sync.js`, over `SourceLists` and a one-field view of the registry | `phase` is the stage of the run; a profile is the set of its tags, so the origin of an entry is told apart |
| `BatchSync` | `batch-collector.ts` and `batch-scheduler.ts` | `memory` is the copy of the state a run works on, `file` and `backup` what is on disk; `todo` are entries of a list, of which two may have one address; `done` collects what became of the batches of a source until the last one; `fileLock` and `stale` are the lock file and its age |
| `MC...` | instances for TLC | |
| `...Proofs` | theorems | |

`PROJECT.json` maps every definition to its lines. Conventions: a contract call is atomic, a call that
reverts is not a step; a clock only grows and its tick stands for a fraction of the shortest delay that
matters; constants named `Max...` that are not the code's are bounds for TLC and are said to be so where
they are declared. A definition under the comment "Mutant" is not part of a model: it is a plausible slip in
the definition that follows, against which a property is tried.

### Choices that a reader may question

- The consensus uses one clock for blocks and seconds. A tick stands for two blocks, so a delay of one block
  is over after a tick.
- In the publisher, reading the chain and sending are one step. A transaction of the same signer that was
  sent before is mined before, whatever is read in between, so that a step between them changes nothing that
  can be observed.
- A batch of the sync job that meets the lock taken ends with an exception, because `logger.warning` is not a
  method of the logger (`publisher.ts:480`, `:514`); the model drops the batch there, as the code does.
- The lease of `chain:write` runs out as soon as no timer renews it: its process died, one renewal failed (the
  branch at `publisher.ts:189` calls `logger.warning`, which throws, and either way the timer stops for good), or
  another worker released late and stopped the timer that was by then the next holder's (`:111`). How long the
  holder still works is not compared with the sixty seconds: it may wait twice as long for one receipt.
  `WritersBounded` says what remains of the exclusive lock (`:509`): one writer, and one more for each renewal
  that failed. Two writers do occur in the run.
- A send that throws (`:631`-`:659`) ends in one of three ways: no nonce was used, the node has the transaction
  although the caller saw an error, or the `NonceManager` counted a nonce whose transaction the node never got.
  In the third case every later transaction waits behind the gap until the process restarts and reads the nonce
  from the node again, against the comment at `:277`. What the node then does with the transactions it had kept
  behind the gap is left out: they are never mined in the model.
- Of Redis, failures of a renewal and of a release are modelled. An error of `acquireLock`, `XACK` or of the
  confirmation has the effect of a lock that is taken or of a poll that dies, which are there; a Redis that
  loses keys is outside the model. `retryDLQMessage` is left out: nothing calls it.
- A worker of the publisher whose transaction reverted or whose receipt did not come in time is at
  `unconfirmed`, like one whose send failed: a poll then throws and leaves its message pending, the sync job goes on to the next profile.
- The registry inside `RiskPublisher` is reduced to risk, sanction and "written recently". The full registry
  is `RiskRegistry`.

- A sync job is one call of `runSyncJob`. `OneJobPerType` leaves out what `preempted` records: a live job lost
  its key because another instance took it for dead (its first heartbeat is sent one
  interval after the start, so a new owner looks dead), because the key ran out between the stopped watchdog and the deletion, or
  because the finally block after an early return looked at the lock again and found that of the next job of
  its own instance. These follow from the lock's design; the property says that no other path does it.
- `MutexAdmits` allows a second job per early return, since `release` is called twice there
  (`scheduler.ts:254`) and the second call lets in whoever is first in the queue, or unlocks the mutex of
  the job that was let in.
- In `BatchSync` an entry of a list stands for a wallet with its address. OFAC's list keeps two wallets of one
  address (`batch-collector.ts:472`), ScamSniffer's is freed of duplicates. A batch takes any entries of the right
  number, not those that come first.
- The age of a stake is that of its first unit: `VoterStakeUnbroken` says that *some* stake was there without a
  gap, since `RiskOracleConsensus.sol:218` compares the time of the first unit and `:213` the amount of now.
- In `DailySync` and `BatchSync` a profile on chain is who wrote it, not its score; the interval of the
  registry is the set `recent`, emptied by time. In `DailySync` no source delivers a readable list that is
  cut short (`MaxShort = 0`): the code only warns about it (`provenance.js:307`). The file of Chainalysis answers,
  which each run merges (`daily-sync.js:671`, `:1014`), is left out, and in the run no address is in the static
  OFAC file (`StaticList = {}`), so that a delisting which that file holds back is not exercised.

## 3. The runs

| Run | Question and bounds | Why they suffice |
|---|---|---|
| `registry` | lists and counters under any mix of writes, batches and removals; three addresses, scores at both sides of 80 and 100, tags at the limit, five ticks against an interval of two | swap-and-pop moves a third address; each threshold is met on both sides; a batch names an address twice |
| `consensus` | votes, membership and decisions beside another writer; three oracles, one account, two responses, six ticks against a cooldown of two | three oracles are where a removed oracle's vote matters and the threshold moves; two responses conflict |
| `stake` | a vote needs a stake without a gap; one oracle, amounts 1 and 2 against a minimum of 2 | every order of top-up, partial withdrawal and slash around the minimum |
| `timelock` | list against stores, refinement of `OperationTimelock`; three operations (one with a predecessor, one batch), two delays, two actors | both stores, both modes and a removal from the middle of the list occur |
| `requests` | refinement of `SanctionsFeed`, deferred counter, ring of ids, queue items written; three requests, ring of two ids, queue of three addresses taken two by two | both rings wrap, answers overflow the queue, carry the zero address, revert or fail |
| `bridge` | order, quorum, ring; three relayers, five updates (rivals for a number, one that was sent early, one with the registry's own root), ring of two | each refusal of the code occurs at the third approval; the ring wraps |
| `vault` | totals, solvency, single payment, freeze; two owners, a token with a fee, two records | a batch names a record twice, one of its transfers fails, every way out meets every state of a record |
| `publisher` | acknowledged means applied, bounded writers, every update settled; two polls, one sync job, one update (usable, refused by the handler, refused by the registry, or for nobody), one fault | overlapping polls reclaim from each other; a renewal, a release or a send fails, a receipt comes late, or the process dies, at any point; a second writer gets in |
| `sync_jobs` | mutex, lock of a type, takeover, early returns; two instances, one with three jobs (the first incremental), the other with one, one fault | three jobs are a holder, a waiter and a newcomer; the fourth competes for the same lock from elsewhere; a crash or an error of Redis at every point |
| `daily_sync` | standing and delisted addresses, exit code, arrival; three sources, an address only HMT lists, one OFAC and OpenSanctions list, one nobody lists any more, one change, two faults, snapshots trusted for one tick | two faults make a source fail and come back, or fail while a transaction is lost; the snapshot gets too old; batches of one put a crash between any two |
| `batch_sync` | the state file against chain and lists; the daily run beside one incremental `--retry-failed` run, an address that both sources list and OFAC twice, one that OFAC adds, batches of one, one fault | two runs load the same file and save over each other in every order; the holder of the lock file dies or cannot write; the backup is read; one of the two entries of an address succeeds and the other fails |
| `publisher_echo` | divergence, see section 5 | |

Deadlock is checked where a system never stops: with the clock at its bound a contract can still be paused, a
role granted or a message relayed again, and a poll of the publisher can always start. In `sync_jobs`,
`daily_sync` and `batch_sync` it is not: jobs are over when the last has ended.

### Fairness

Four runs check liveness; contracts promise none, since nobody has to call them.

`publisher`: `EveryUpdateSettled` says that again and again the group has read the whole
stream and nothing is pending, with three exemptions, each a behaviour of the code:
`Unusable`, messages that every attempt refuses and that stay pending for ever (section 5); `nonceLost`, a process
that goes on with a gap in its nonces; and `Contended`, polls that keep meeting each other's lock (a poll that gives
up after 30 seconds leaves its message to the next one, and nothing orders them). In the code an update
can also starve when ten messages that cannot be used are idle, because `XAUTOCLAIM` returns the oldest ten; the run
has fewer. It assumes weak fairness of what timers and the chain do by themselves: a poll
goes on (the interval timer of one second starts it, and a promise that can go on does), a transaction that
the node can mine is mined, a lease that nobody renews runs out, the update interval passes, and a message untouched
for 60 seconds counts as such. Nothing is assumed of the backend, of sync jobs, crashes or late receipts;
those are bounded by `MaxUpdates`, `MaxBatches` and `MaxFaults`, since no retry can win against faults that
never stop. That the holder keeps the lock for ever is not allowed, because the holder's own steps are fair.

`sync_jobs`: `JobsSettle` and `LocksAreFreed` assume that a job that can go on does, that the heartbeat timer of
a live process fires and a key that nobody renews runs out (Redis sees to it). That a job starts, a process dies or
Redis fails is never assumed.

`daily_sync`: `ListingsArrive` and `DelistingsArrive` assume that the schedule starts runs again and again and a
run goes on, and that time passes (so that the interval of the registry ends and files age). Faults and changes
are bounded, since no list arrives on a chain that refuses for ever. A run that always met a closed interval would
starve; the schedule is daily and the interval an hour, which is the fairness of `TimePasses`.

`batch_sync`: `ListingsRecorded` assumes the scheduled runs, that a run goes on, and that the lock file of a dead
process gets older than five minutes. Nothing is assumed of the command line. The scheduled run downloads the full
lists; with `BATCH_SYNC_INCREMENTAL` set (`index.ts:74`) OFAC's download brings only what changed lately, and an
address that one run missed may then be missed for good: the property is for the default. An address counts as
recorded when it is in the list of failures (section 5).

## 4. What is proved

Every theorem holds for all values of the constants that the named assumptions of the modules allow
(finite sets of actors, natural bounds, distinct special values, an initial root other than zero). Bounds
for TLC are arbitrary naturals in the proofs.

| Module | Theorems | Inductive invariant and why it is needed |
|---|---|---|
| `FoldLemmas` | what `FoldLeft` computes, and two inductions: `LeastNat`, `SubsetInduction`, `SequenceInduction`, `FoldEmpty`, `FoldStep`, `FoldKeeps` | see "Induction over data" below |
| `RiskOracleProofs`, part 1 | types, `ListsMatchProfiles`, `ProfileCountExact`, `RewriteInterval`, `FirstItemDecides` | "the list enumerates S" is kept by each list operation when S gains or loses one address; a write changes S by the address written; a batch is two writes, and the second write of an address in the same transaction comes too early |
| `RiskOracleProofs`, part 2 | types, `ConfirmationsBacked`, `ThresholdReachable`, `DecisionHasQuorum`, that the registry's invariants survive in the composition, `VoterStakeUnbroken` (for a minimum stake above zero, as `_getMinStakeAmount` guarantees) | a counter may be lower than the number of oracles that hold its response (a reset forgets those off the list) but never higher; the registry's invariant is reused as it stands; a stake that is there has been there since `stakeTime` |
| `RiskOracleProofs`, part 3 | types, `DeferredCountExact`, `LatestRequestsKept`, `ImplementsFeed` | the queue is a ring (`Rings`) whose array grows until its first turn is complete, and whose waiting positions have a slot each (`SlotsDiffer`); a request id occupies the slot of its position; a deferred request is one the count knows. Under the mapping (the queue read from its head, the stage of each request) every step is a step of the feed or a stutter |
| `FidesOriginTimelockProofs` | types, `PendingListExact`, `ImplementsTimelock` | an operation is never in both stores unless it is done, an announced mode is the opposite of the present one; with the exact list, each step of the contract is a step of the abstract timelock or a stutter |
| `FidesBridgeProofs` | types, `ApprovalsCounted`, `OneUpdatePerNonce`, `OpenApprovalsValid`, `SyncHasQuorum`, `LatestSyncsKept` | open approvals are for the next number only, and time only helps them; the ring's index is the number of updates, and numbers less than its size apart have slots of their own |
| `QuarantineVaultProofs` | types, `TotalsMatchRecords`, `VaultSolvent`, `OwnersPaidOnce`, `FrozenStaysHeld`, `HeldArePayable`, `WithdrawalCovered` | what a token holds covers what the vault owes in it, record by record of the batch; each operation moves one record between two sets, whose sums change by its amount (`WorthAdd`, `WorthDrop`) |
| `PublisherJobsProofs`, part 1 (`SyncJobs`) | types, `MutexAdmits`, `OneJobPerType` | the jobs inside are at most the early returns plus one if the mutex is locked; a release either hands its room to one waiter or gives it back, two releases compose, and a job that took its early return has left; unless a key was taken away, whoever counts on a key has it, alone. Any number of jobs, instances and locks, crashes included |
| `PublisherJobsProofs`, part 2 (`BatchSync`) | types, `SyncedHasProfile` | every copy of the state, in memory, on disk and in the backup, claims only what the chain has: the chain never loses a profile here, so a copy that was true stays true however old it is; what a run sent or has still to send it had not marked as published, and an address that has a result came from an entry that was sent, so that only an address with a second entry can get the other result too (`ResultsOf`) |
| `DailySyncProofs` | types, `ExitZeroInStep`, `StandingNeverCleared` | `DailyIInv`: from its stage on, each of chain, root, delisting and backend agrees with what the run merged, unless the run was told of a failure, and what is delisted is not on the list. While no list arrived short, a standing address is in its list, in every snapshot of it and in every run that trusts its source, so a planned delisting never names it, whichever source fails and for how long. TLC checked `DailyIInv` with `MaxShort` 0 and 1 before it was proved |
| `RiskPublisherProofs` | types, `AckedWasApplied`, `WritersBounded` | the workers without the lock that have not finished, and one more while the lease of a working holder is not renewed, are at most the renewals that failed: a late release stops a timer only if its own lock was lost before (`LockInv`). Between the receipt and the acknowledgement other polls, other writers and transactions nobody waits for may act: a transaction some worker waits for is the only one with this waiter and has the profile of its message, and a poll that succeeded handles a message that was applied |

Every invariant, action property and refinement that a passing run checks is proved.

### Induction over data

The loops of the contracts are folds (`FoldLeft` over an answer's addresses, over a batch of the queue, over the
ids an operator names), and the vault's totals are sums over sets. The community modules define both by
CHOOSE of a recursive function. `FoldLemmas` takes the folded operator as a CONSTANT `Op` and proves, for any
such operator, that the fold of the empty sequence is its base and that the fold of `Append(s, a)` is
`Op` of the fold of `s` and `a`. It shows first that the function which is chosen exists (`Iteration`), then
that its values do not depend on the set it was chosen over (`IterationsAgree`). The induction behind both is
first-order: a set of numbers has a least element, a non-empty set of subsets of a finite set a minimal one
(`WFMin` with the library's well-founded orders, none of which takes an operator), so "holds for all" is
proved of a set of values rather than of a predicate. A module of proofs instantiates `FoldLemmas` once per
operator it folds (`Enqueued`, `Written`, `Undeferred`, `Released`, `Sums`), and a bridging lemma says that
the fold in the model is the instance's, since both have one definition.

### What the theorems assume

- Nothing but the ASSUMEs of the models, each named where it is declared: finite sets of actors, addresses and
  sources; natural bounds, with positive sizes for rings and batches; special values (`Nobody`, `NoSnapshot`,
  the zero address and root) that are none of the ordinary ones. TLC evaluates each of them in its run. One
  theorem, `VotersStakeUnbroken`, has a hypothesis of its own: the minimum stake is not zero.
- The bounds named for TLC (`MaxTime`, `MaxRequests`, `MaxRecords`, `MaxFaults` and so on) are arbitrary naturals.
  A counter that only a bound stops is therefore as large as one likes, but 256-bit overflow is not part of any model.
- Calls that take an array keep the shape the model gives them: batches of the registry and of the vault have two
  items and the ids of a deferred batch are one or two, which is enough to name an item twice. The answers of
  the router and the batches out of the queue have any length.
- `StandingNeverCleared` is conditional on `shorts = 0`: the code only warns about a readable list that is cut
  short, and the theorem says that this is the only way to lose a standing address. In the run `MaxShort` is 0.

### What is only model-checked

Liveness (`EveryUpdateSettled`, `JobsSettle`, `LocksAreFreed`, `ListingsArrive`, `DelistingsArrive`,
`ListingsRecorded`), because ENABLED is out of the prover's reach, and the violation `ConfirmationsWriteNothing`.
Only proved, without a run of their own: `RewriteInterval`, `FirstItemDecides`, `ConfirmationsBacked`, `ApprovalsCounted`, `OpenApprovalsValid`, `HeldArePayable`, `WithdrawalCovered`.

## 5. Where the code and its comments disagree

A run shows the first; the others are read off the models and the code.

1. `publisher_echo`. The confirmation that the sync job publishes (`publisher.ts:548`) is read by the same
   process as an update (`:346`) with `isSanctioned: false`. After a sanctioned profile is written, its
   confirmation writes an unsanctioned one: the first attempt reverts when `MIN_UPDATE_INTERVAL` has not passed, the
   message stays pending, and a retry after it succeeds.
2. The comment at `RiskOracleConsensus.sol:248` says that the "confirmed" flag no longer swallows later
   updates. It is cleared only when a response has exactly one confirmation after the vote, so a response that
   kept an old vote reaches its quorum with the flag set, and nothing is written (`StillConfirmed`).
3. A reset clears the counters of the responses of listed oracles. The stored response of an oracle off the
   list survives, and when that oracle is listed again, the checked decrement at `:238` reverts each of its
   votes on the account (`RevocationPossible`).
4. The comments at `FidesOriginTimelock.sol:136` and `:196` say that a change of mode cancels all pending
   operations. Emergency operations are never on the list that is walked.
5. `batch-collector.ts:53` and `:721` say that a failed address is retried on the next sync. `:818` leaves out
   what is in the list of failures unless `--retry-failed` is given, which the schedule never does.
6. `message-queue.ts:287` says "failures must reach DLQ" and `:13` that messages go there after the last retry. The
   retry count grows only in a local copy (`:334`), so it never reaches the threshold: a message without address,
   score or tier (`publisher.ts:336`), with an unknown tier (`:393`), or with a score above 100, which the registry
   reverts, is reclaimed and refused every minute for ever (`Unusable`).
7. `publisher.ts:509` calls the lock on the chain exclusive. One renewal that fails, or a release that comes late,
   leaves its holder without a lease while it works, and a second worker gets in (`RenewalFails`, `Release`).
8. `publisher.ts:277` says that the nonce manager prevents failures of transactions. A send that throws after it
   counted the nonce blocks every later transaction until the process restarts (`SendFails`, `HeldUp`).
9. `RiskOracleConsensus.sol:217` says that the minimum duration keeps somebody from voting right after getting a
   stake. It is measured from the first unit: a small old stake with a top-up in the block of the vote passes.
10. `daily-sync.js:295` says that a page of HMT whose structure changed must stop the delisting. A page that still has
   rows but none of the known columns yields records without addresses (`sanctions-sync.js:431`), so that the source
   counts as healthy, its snapshot is overwritten with nothing (`:333`), and its addresses are delisted. In
   `SourceLists` this is a short reading, which `MaxShort = 0` keeps out of the run and `shorts = 0` out of
   `StandingNeverCleared`.

Known behaviour that no comment denies, and that the properties leave room for:

- the first wrap of the Merkle registry's history (`MerkleRiskRegistry.sol:158`), which overwrites its newest root,
  and the approvals of a relayer that outlive its role (`FidesBridgeReceiver.sol:180`);
- an address that OFAC lists twice can be in a batch that succeeded and in one that failed; `batch-collector.ts:836`
  then leaves it among the synced and among the failed. It is on chain and not sent again;
- `acquireLock` is called before the `try` (`scheduler.ts:152`): when Redis answers with an error, the mutex is
  kept and no job of the process runs again (`stuck`);
- an early return looks at the lock a second time after giving it up, and deletes what it finds in its own
  instance's name, even when that key has passed to a job of another instance in between (`preempted`);
- a full sync publishes the share of its instance. When the other instances found the lock taken, their shares
  are published by nobody (`cluster-coordinator.ts:207`);
- the scam list of the batch sync is published after OFAC's and with `sanctioned: false`, so an address on both
  ends up with the assessment of the later one (`chain` in `BatchSync`);
- what was delisted on chain while the backend's database failed is not delisted again, so its row is never set
  to zero (`daily-sync.js:1053`).

## 6. What is not modelled

- The upgrade proposals and role administration of the contracts; the table of data sources; the signature
  and proof checks of the Merkle registry (cryptography).
- The compliance and policy engines, the Diamond, `RiskRegistryV2`/`V3`; `RiskOracleLite` is deprecated.
- Of the publisher: collectors, key management, metrics, DLQ replay (no caller), the progress keys and the
  share of an instance; several instances writing to the chain at a time.
- Of data sync: `blockchainService.js` calls `batchUpdateRiskProfiles` with four arguments, a signature no
  contract of the repository has, so none of its transactions can succeed; its nonce manager goes with it. The
  dead-letter queue is planned. Of the daily pipeline: parsers, dry runs, the scam list, the file of Chainalysis answers.
- The backend's own queue and lock. Everything that shows or forwards data: web, API, SDKs and subgraph keep no
  state that a property could be about, and they are most of the repository's lines.

## 7. Plan

1. `IndexedList`, `RiskRegistry` with proofs: done.
2. `RiskOracleConsensus`, `RiskOracleHistory`: done, proved.
3. `OperationTimelock`, `FidesOriginTimelock`: done, refinement proved.
4. `SanctionsFeed`, `RiskOracleRequests`: done, refinement proved.
5. `MerkleRiskRegistry`, `FidesBridgeReceiver`: done, proved. To state: the ring of the Merkle registry.
6. `QuarantineVault`: done, proved with its sums.
7. `RiskStream`, `RiskPublisher`: done, safety proved.
8. `ClusterLock`, `SyncJobs`: done, safety proved.
9. `SourceLists`, `DailySync`: done, safety proved.
10. `BatchSync`: done, safety proved.
11. `DeadLetters` of `dlq.js` with the cursor of a source.
12. The daily limits and frozen funds of the compliance engine; the upgrade proposals of `RiskRegistry`.
13. An abstract registry (a mapping and two sets) that `RiskRegistry` implements, proved.
