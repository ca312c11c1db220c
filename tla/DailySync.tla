------------------------------ MODULE DailySync ------------------------------
(***************************************************************************)
(* One run after the other of data-sync/scripts/daily-sync.js: the lists   *)
(* are merged, what differs is written to the risk registry in batches,    *)
(* the Merkle root is pushed, what is no longer listed is taken off the    *)
(* chain, the backend's table follows, and the merged list is saved for    *)
(* the next run whose primary source is down.                              *)
(*                                                                         *)
(* A profile is the set of its tags; the empty set stands for "not         *)
(* sanctioned".  The registry refuses to rewrite a profile within its      *)
(* interval: a batch skips it, a single write reverts.  One run at a time. *)
(* The scam list, which only goes to the backend, shares no address with   *)
(* the sanctions lists.  The file of Chainalysis answers, merged in every  *)
(* run and written by nobody here, is left out: it is there only with an   *)
(* API key.                                                                *)
(***************************************************************************)
EXTENDS SourceLists, FiniteSetsExt

CONSTANTS
  BatchSize,  \* addresses per transaction
  MaxChanges, \* bound: list changes
  MaxFaults,  \* bound: failed readings, transactions, queries, crashes
  MaxShort    \* bound: readings that silently lose addresses

ASSUME DailyConstants ==
  /\ BatchSize \in Nat \ {0}
  /\ {MaxChanges, MaxFaults, MaxShort} \subseteq Nat

VARIABLES
  phase,      \* what the run does next
  merged,     \* the profiles of this run
  toWrite,    \* addresses that differ from the chain, not yet sent
  toDelist,   \* addresses to take off the chain, not yet sent
  delisted,   \* delistResult.addresses
  delistDone, \* the delisting was not called off
  skipped,    \* a receipt told of addresses the registry skipped
  failed,     \* the run will exit with 1
  pushed,     \* the backend took everything
  chain,      \* the profiles in the risk registry
  recent,     \* addresses the registry has rewritten within the interval
  root,       \* the list the Merkle root on chain stands for
  backend,    \* the profiles of the backend's table
  database,   \* risk-database.json
  changes, faults, shorts

runVars == <<phase, merged, toWrite, toDelist, delisted, delistDone, skipped, failed, pushed>>
chainVars == <<chain, recent, root>>
listVars == <<listed, snapshot, healthy>>
bounds == <<changes, faults, shorts>>
vars == <<listVars, runVars, chainVars, backend, database, bounds>>

Profiles == [Address -> SUBSET Tag]
Nothing == [a \in Address |-> {}]
Listed(profiles) == {a \in Address : profiles[a] # {}}

\* The chain still has the addresses that were delisted before the sync took any off.
Init ==
  /\ ListsInit
  /\ phase = "idle"
  /\ merged = Nothing
  /\ toWrite = {} /\ toDelist = {} /\ delisted = {}
  /\ delistDone = FALSE /\ skipped = FALSE /\ failed = TRUE /\ pushed = FALSE
  /\ chain = [a \in Address |-> IF a \in Unlisted THEN {<<Primary, "live">>} ELSE {}]
  /\ recent = {}
  /\ root = Nothing
  /\ backend = chain
  /\ database = Nothing
  /\ changes = 0 /\ faults = 0 /\ shorts = 0

Faults(n) == faults + n <= MaxFaults /\ faults' = faults + n

-----------------------------------------------------------------------------
(* Collecting *)

\* mergeData: every source an address comes from; yesterday's list only when
\* the primary source is not trusted.
Merge(got) ==
  [a \in Address |->
     {<<s, "live">> : s \in {s \in Source : a \in Live(got[s])}}
     \cup {<<s, "file">> : s \in {s \in Source : a \in FromFile(s, got[s])}}
     \cup (IF Trusted(Primary, got[Primary]) THEN {} ELSE database[a])]

Readings ==
  {got \in [Source -> UNION {Reading(s, shorts < MaxShort) : s \in Source}] :
     \A s \in Source : got[s] \in Reading(s, shorts < MaxShort)}

\* A run that collects nothing at all ends at once, with an error.
Collect ==
  /\ phase = "idle"
  /\ \E got \in Readings :
       /\ Faults(Cardinality({s \in Source : Failed(got[s])}))
       /\ shorts' = shorts + Cardinality({s \in Source : Short(s, got[s])})
       /\ shorts' <= MaxShort
       /\ ReadSources(got)
       /\ merged' = Merge(got)
  /\ phase' = IF Listed(merged') = {} THEN "idle" ELSE "comparing"
  /\ failed' = (Listed(merged') = {})
  /\ delisted' = {} /\ delistDone' = FALSE /\ skipped' = FALSE /\ pushed' = FALSE
  /\ UNCHANGED <<toWrite, toDelist, chainVars, backend, database, changes>>

-----------------------------------------------------------------------------
(* Writing the profiles *)

\* Mutant of Differs: the list is compared with yesterday's, not with the chain.
DiffersFromFile(unread) ==
  {a \in Listed(merged) : a \in unread \/ database[a] # merged[a]}

\* A profile that could not be read is written.
Differs(unread) ==
  {a \in Listed(merged) : a \in unread \/ chain[a] # merged[a]}

Compare(unread) ==
  /\ phase = "comparing"
  /\ toWrite' = Differs(unread)
  /\ phase' = IF toWrite' = {} THEN "rooting" ELSE "writing"
  /\ Faults(Cardinality(unread))
  /\ UNCHANGED <<listVars, merged, toDelist, delisted, delistDone, skipped, failed, pushed,
                 chainVars, backend, database, changes, shorts>>

\* batchUpdateRiskProfiles: what was rewritten too recently is skipped.
Written(batch) == [a \in Address |-> IF a \in batch \ recent THEN merged[a] ELSE chain[a]]

\* What becomes of a batch after all its attempts.  A transaction may land although
\* its receipt is lost: the registry skips the next attempt, and confirms it.
Outcome == {"refused", "unseen", "confirmed", "repeated"}

\* Mutant of WriteBatch: a batch that failed is only logged.
WriteBatchQuietly(batch, outcome) ==
  /\ phase = "writing"
  /\ Cardinality(batch) = Min({BatchSize, Cardinality(toWrite)})
  /\ toWrite' = toWrite \ batch
  /\ phase' = IF toWrite' = {} THEN "rooting" ELSE "writing"
  /\ IF outcome = "refused" THEN UNCHANGED <<chain, recent>>
     ELSE chain' = Written(batch) /\ recent' = recent \cup batch
  /\ skipped' = (skipped \/ outcome = "repeated"
                         \/ (outcome = "confirmed" /\ batch \cap recent # {}))
  /\ Faults(IF outcome = "confirmed" THEN 0 ELSE 1)
  /\ UNCHANGED <<listVars, merged, toDelist, delisted, delistDone, failed, pushed, root,
                 backend, database, changes, shorts>>

WriteBatch(batch, outcome) ==
  /\ phase = "writing"
  /\ Cardinality(batch) = Min({BatchSize, Cardinality(toWrite)})
  /\ toWrite' = toWrite \ batch
  /\ phase' = IF toWrite' = {} THEN "rooting" ELSE "writing"
  /\ IF outcome = "refused" THEN UNCHANGED <<chain, recent>>
     ELSE chain' = Written(batch) /\ recent' = recent \cup batch
  /\ skipped' = (skipped \/ outcome = "repeated"
                         \/ (outcome = "confirmed" /\ batch \cap recent # {}))
  /\ failed' = (failed \/ outcome \in {"refused", "unseen"})
  /\ Faults(IF outcome = "confirmed" THEN 0 ELSE 1)
  /\ UNCHANGED <<listVars, merged, toDelist, delisted, delistDone, pushed, root,
                 backend, database, changes, shorts>>

PushRoot(landed, confirmed) ==
  /\ phase = "rooting"
  /\ confirmed => landed
  /\ root' = IF landed THEN merged ELSE root
  /\ failed' = (failed \/ ~ confirmed)
  /\ phase' = "delisting"
  /\ Faults(IF confirmed THEN 0 ELSE 1)
  /\ UNCHANGED <<listVars, merged, toWrite, toDelist, delisted, delistDone, skipped, pushed,
                 chain, recent, backend, database, changes, shorts>>

-----------------------------------------------------------------------------
(* Taking off the chain what is no longer listed *)

\* The lists can be trusted to be complete: the primary source today, each
\* secondary one today or by a young snapshot.
MayDelist == Primary \in healthy /\ \A s \in Secondary \ healthy : Fresh(s)

\* Mutant of Held: a source that brought nothing lists nothing.
HeldNothing == {}

\* What a snapshot still lists is held back.
Held == UNION {Kept(s) : s \in Secondary \ healthy}

\* Mutant of PlanDelisting: the result does not name the addresses.
PlanDelistingUnnamed(read) ==
  /\ phase = "delisting"
  /\ delistDone' = (MayDelist /\ read)
  /\ toDelist' = IF delistDone' THEN Listed(chain) \ (Listed(merged) \cup Held) ELSE {}
  /\ delisted' = {}
  /\ phase' = IF toDelist' = {} THEN "pushing" ELSE "clearing"
  /\ Faults(IF read THEN 0 ELSE 1)
  /\ UNCHANGED <<listVars, merged, toWrite, skipped, failed, pushed, chainVars,
                 backend, database, changes, shorts>>

\* Mutant of PlanDelisting: what left the list is sought in yesterday's file.
PlanDelistingFromFile(read) ==
  /\ phase = "delisting"
  /\ delistDone' = (MayDelist /\ read)
  /\ toDelist' = IF delistDone' THEN Listed(database) \ (Listed(merged) \cup Held) ELSE {}
  /\ delisted' = toDelist'
  /\ phase' = IF toDelist' = {} THEN "pushing" ELSE "clearing"
  /\ Faults(IF read THEN 0 ELSE 1)
  /\ UNCHANGED <<listVars, merged, toWrite, skipped, failed, pushed, chainVars,
                 backend, database, changes, shorts>>

PlanDelisting(read) ==
  /\ phase = "delisting"
  /\ delistDone' = (MayDelist /\ read)
  /\ toDelist' = IF delistDone' THEN Listed(chain) \ (Listed(merged) \cup Held) ELSE {}
  /\ delisted' = toDelist'
  /\ phase' = IF toDelist' = {} THEN "pushing" ELSE "clearing"
  /\ Faults(IF read THEN 0 ELSE 1)
  /\ UNCHANGED <<listVars, merged, toWrite, skipped, failed, pushed, chainVars,
                 backend, database, changes, shorts>>

\* updateRiskProfile(addr, 0, 0, [], false): reverts within the interval.
Delist(a, landed, confirmed) ==
  /\ phase = "clearing"
  /\ a \in toDelist
  /\ confirmed => landed
  /\ landed => a \notin recent
  /\ toDelist' = toDelist \ {a}
  /\ phase' = IF toDelist' = {} THEN "pushing" ELSE "clearing"
  /\ IF landed THEN chain' = [chain EXCEPT ![a] = {}] /\ recent' = recent \cup {a}
     ELSE UNCHANGED <<chain, recent>>
  /\ failed' = (failed \/ ~ confirmed)
  /\ Faults(IF confirmed \/ a \in recent THEN 0 ELSE 1)
  /\ UNCHANGED <<listVars, merged, toWrite, delisted, delistDone, skipped, pushed, root,
                 backend, database, changes, shorts>>

-----------------------------------------------------------------------------
(* The backend's table and the file *)

\* pushToBackendDb: the merged profiles first, then zeros for what was
\* delisted; an error of the database ends it anywhere and is only logged.
PushToBackend(upserted, zeroed) ==
  /\ phase = "pushing"
  /\ upserted \subseteq Listed(merged) /\ zeroed \subseteq delisted
  /\ zeroed # {} => upserted = Listed(merged)
  /\ backend' = [a \in Address |-> IF a \in zeroed THEN {}
                                  ELSE IF a \in upserted THEN merged[a] ELSE backend[a]]
  /\ pushed' = (upserted = Listed(merged) /\ zeroed = delisted)
  /\ phase' = "saving"
  /\ Faults(IF pushed' THEN 0 ELSE 1)
  /\ UNCHANGED <<listVars, merged, toWrite, toDelist, delisted, delistDone, skipped, failed,
                 chainVars, database, changes, shorts>>

SaveDatabase ==
  /\ phase = "saving"
  /\ database' = merged
  /\ phase' = "idle"
  /\ UNCHANGED <<listVars, merged, toWrite, toDelist, delisted, delistDone, skipped, failed,
                 pushed, chainVars, backend, bounds>>

Crash ==
  /\ phase # "idle"
  /\ phase' = "idle"
  /\ toWrite' = {} /\ toDelist' = {}
  /\ failed' = TRUE
  /\ Faults(1)
  /\ UNCHANGED <<listVars, merged, delisted, delistDone, skipped, pushed, chainVars,
                 backend, database, changes, shorts>>

-----------------------------------------------------------------------------
(* The environment *)

ListChange(s, a) ==
  /\ changes < MaxChanges
  /\ changes' = changes + 1
  /\ ListChanges(s, a)
  /\ UNCHANGED <<runVars, chainVars, backend, database, faults, shorts>>

\* An hour and more: intervals are over, files are older.
TimePasses ==
  /\ SnapshotsAge
  /\ recent' = {}
  /\ UNCHANGED <<listed, healthy, runVars, chain, root, backend, database, bounds>>

RunStep ==
  \/ Collect
  \/ \E unread \in SUBSET Address : Compare(unread)
  \/ \E batch \in SUBSET toWrite, outcome \in Outcome : WriteBatch(batch, outcome)
  \/ \E landed, confirmed \in BOOLEAN :
       \/ PushRoot(landed, confirmed)
       \/ \E a \in toDelist : Delist(a, landed, confirmed)
  \/ \E read \in BOOLEAN : PlanDelisting(read)
  \/ \E upserted, zeroed \in SUBSET Address : PushToBackend(upserted, zeroed)
  \/ SaveDatabase

Next ==
  \/ RunStep
  \/ Crash
  \/ \E s \in Source, a \in Address : ListChange(s, a)
  \/ TimePasses

Spec == Init /\ [][Next]_vars

\* The schedule starts runs again and again, a run goes on, time passes.
FairSpec == Spec /\ WF_vars(RunStep) /\ WF_vars(TimePasses)

-----------------------------------------------------------------------------
(* Properties *)

TypeOK ==
  /\ listed \in [Source -> SUBSET Address]
  /\ snapshot \in [Secondary -> Snapshot \cup {NoSnapshot}]
  /\ healthy \subseteq Source
  /\ phase \in {"idle", "comparing", "writing", "rooting", "delisting", "clearing",
                "pushing", "saving"}
  /\ {merged, chain, root, backend, database} \subseteq Profiles
  /\ toWrite \subseteq Listed(merged)
  /\ toDelist \subseteq delisted /\ delisted \subseteq Address
  /\ {delistDone, skipped, failed, pushed} \subseteq BOOLEAN
  /\ recent \subseteq Address
  /\ {changes, faults, shorts} \subseteq Nat

\* An address that some source lists all the time never loses its sanction once
\* it is on chain, whatever endpoints fail, for how long, and whatever crashes:
\* a source that did not answer is never taken for a list that became shorter.
\* Only a readable list that is short can take it off: none has arrived so far.
StandingNeverCleared ==
  [][shorts = 0 =>
       \A s \in Source : \A a \in Standing[s] : chain[a] # {} => chain'[a] # {}]_vars

\* A run that exits with 0, was told of no skipped address and did not call the
\* delisting off leaves the chain, the Merkle root and its own list in step, but
\* for what a snapshot held back; and the backend too, if nothing was logged.
ExitZeroInStep ==
  phase = "idle" /\ ~ failed /\ ~ skipped /\ delistDone
    => /\ \A a \in Listed(merged) : chain[a] = merged[a]
       /\ Listed(chain) \ Listed(merged) \subseteq Held
       /\ root = merged
       /\ pushed => \A a \in Listed(merged) \cup delisted : backend[a] = chain[a]

\* What a source lists for good is on chain for good in the end, although
\* transactions are lost, batches skipped and runs cut short.
ListingsArrive ==
  \A s \in Source : \A a \in Standing[s] : <>[](chain[a] # {})

\* What no source lists is off the chain for good in the end.
DelistingsArrive == \A a \in Unlisted : <>[](chain[a] = {})
=============================================================================
