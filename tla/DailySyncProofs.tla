-------------------------- MODULE DailySyncProofs --------------------------
(***************************************************************************)
(* Safety of the daily sync, for any sources, addresses, sizes of batches, *)
(* failures, crashes and ages of snapshots, over any number of runs.       *)
(*                                                                         *)
(* A run leaves chain, root, list and backend in step if it was told of no *)
(* failure: each stage has its part of that (WrittenInStep to              *)
(* BackendInStep), and later stages keep what earlier ones established,    *)
(* because what is delisted is never on the list.  What a source has       *)
(* always listed is in every list, snapshot and trusted reading of it, so  *)
(* a delisting that may go on finds it listed or held back (StandingKept). *)
(***************************************************************************)
EXTENDS DailySync, FiniteSetTheorems, TLAPS

-----------------------------------------------------------------------------
(* The inductive invariant *)

\* The transactions a run still has to send belong to its stage.
Stages ==
  /\ phase # "writing" => toWrite = {}
  /\ phase # "clearing" => toDelist = {}

\* The run was told of no failure so far: nothing but its own log could tell.
Clean == ~ failed /\ ~ skipped

\* From the batches on, what is not to be written any more is on chain.
WrittenInStep ==
  phase # "comparing" /\ Clean
    => \A a \in Listed(merged) \ toWrite : chain[a] = merged[a]

\* From the delisting on, the root stands for the run's list.
RootInStep ==
  phase \notin {"comparing", "writing", "rooting"} /\ Clean => root = merged

\* What was planned for delisting is not on the list, and off the chain when sent.
DelistedOffChain ==
  /\ delisted \cap Listed(merged) = {}
  /\ Clean => \A a \in delisted \ toDelist : chain[a] = {}

\* Once the delisting is planned, what is on chain without being listed is held
\* back or about to be sent.
DelistingInStep ==
  phase \in {"clearing", "pushing", "saving", "idle"} /\ Clean /\ delistDone
    => Listed(chain) \ Listed(merged) \subseteq Held \cup toDelist

\* A backend that took everything agrees with the chain.
BackendInStep ==
  phase \in {"saving", "idle"} /\ Clean /\ pushed
    => \A a \in Listed(merged) \cup delisted : backend[a] = chain[a]

\* While no short list has arrived: a standing address is on its list, in the
\* snapshot, in the run if its source is trusted, and never about to be delisted.
StandingKept ==
  /\ \A s \in Source : Standing[s] \subseteq listed[s]
  /\ shorts = 0 =>
       /\ \A s \in Secondary : snapshot[s] # NoSnapshot => Standing[s] \subseteq snapshot[s].list
       /\ \A s \in healthy : Standing[s] \subseteq Listed(merged)
       /\ \A s \in Source : toDelist \cap Standing[s] = {}

DailyIInv ==
  /\ TypeOK /\ Stages /\ WrittenInStep /\ RootInStep /\ DelistedOffChain
  /\ DelistingInStep /\ BackendInStep /\ StandingKept

-----------------------------------------------------------------------------
(* The counters stay numbers *)

\* Addresses and sources can be counted.
LEMMA Finiteness ==
  /\ \A S \in SUBSET Address : Cardinality(S) \in Nat
  /\ \A S \in SUBSET Source : Cardinality(S) \in Nat
<1>1. IsFiniteSet(Source)
  BY FS_AddElement, SourceConstants, Secondary \cup {Primary} = Source DEF Source
<1>2. QED BY <1>1, FS_Subset, FS_CardinalityType, SourceConstants

\* The conjuncts of the type invariant that are not memberships as they stand.
LEMMA Typed ==
  ASSUME TypeOK
  PROVE  /\ merged \in Profiles /\ chain \in Profiles /\ root \in Profiles
         /\ backend \in Profiles /\ database \in Profiles
         /\ delistDone \in BOOLEAN /\ skipped \in BOOLEAN
         /\ failed \in BOOLEAN /\ pushed \in BOOLEAN
         /\ changes \in Nat /\ faults \in Nat /\ shorts \in Nat
         /\ toWrite \subseteq Address
BY DEF TypeOK, Listed

\* A fault that is counted keeps the count a number.
LEMMA FaultsCounted ==
  ASSUME NEW n \in Nat, faults \in Nat, Faults(n)
  PROVE  faults' \in Nat
BY DEF Faults

-----------------------------------------------------------------------------
(* Collecting *)

\* A reading is a failure, or a set of addresses; without a short one it is the list.
LEMMA ReadingsAre ==
  ASSUME TypeOK, NEW got \in Readings
  PROVE  /\ DOMAIN got = Source
         /\ \A s \in Source : Failed(got[s]) \/ got[s] \in SUBSET Address
<1>1. \A s \in Source : got[s] \in Reading(s, shorts < MaxShort)
  BY DEF Readings
<1>2. \A s \in Source : listed[s] \subseteq Address
  BY DEF TypeOK
<1>3. DOMAIN got = Source
  BY DEF Readings
<1>4. QED BY <1>1, <1>2, <1>3 DEF Reading, Failed

\* What a source brings into a run are addresses.
LEMMA LiveAre ==
  ASSUME TypeOK, NEW got \in Readings, NEW s \in Source
  PROVE  /\ Live(got[s]) \subseteq Address
         /\ FromFile(s, got[s]) \subseteq Address
<1>1. Live(got[s]) \subseteq Address
  BY ReadingsAre DEF Live
<1>2. CASE s = Primary
  BY <1>1, <1>2, SourceConstants DEF FromFile
<1>3. CASE s # Primary
  <2>1. s \in Secondary
    BY <1>3 DEF Source
  <2>2. Kept(s) \subseteq Address
    BY <2>1 DEF Kept, TypeOK, Snapshot
  <2>3. QED BY <1>1, <1>3, <2>2 DEF FromFile
<1>4. QED BY <1>1, <1>2, <1>3

\* The merged list has profiles of known tags.
LEMMA MergeTyped ==
  ASSUME TypeOK, NEW got \in Readings
  PROVE  Merge(got) \in Profiles
<1>1. \A a \in Address : database[a] \subseteq Tag
  BY Typed DEF Profiles
<1>2. ASSUME NEW a \in Address
      PROVE  /\ {<<s, "live">> : s \in {s \in Source : a \in Live(got[s])}} \subseteq Tag
             /\ {<<s, "file">> : s \in {s \in Source : a \in FromFile(s, got[s])}} \subseteq Tag
  BY DEF Tag
<1>3. QED BY <1>1, <1>2, Zenon DEF Merge, Profiles

\* A reading that is kept makes a snapshot.
LEMMA SnapshotsTyped ==
  ASSUME TypeOK, NEW got \in Readings, ReadSources(got)
  PROVE  snapshot' \in [Secondary -> Snapshot \cup {NoSnapshot}]
<1>1. ASSUME NEW s \in Secondary, Produced(s, got[s])
      PROVE  [list |-> got[s], age |-> 0] \in Snapshot
  <2>1. s \in Source
    BY DEF Source
  <2>2. got[s] \in SUBSET Address
    BY <1>1, <2>1, ReadingsAre DEF Produced
  <2>3. QED BY <2>2, SourceConstants DEF Snapshot
<1>2. QED BY <1>1 DEF ReadSources, TypeOK

\* Collecting keeps the types.
LEMMA CollectTyped ==
  ASSUME TypeOK, Stages, Collect
  PROVE  TypeOK'
<1>1. PICK got \in Readings :
        /\ Faults(Cardinality({s \in Source : Failed(got[s])}))
        /\ shorts' = shorts + Cardinality({s \in Source : Short(s, got[s])})
        /\ ReadSources(got)
        /\ merged' = Merge(got)
  BY DEF Collect
<1>2. faults' \in Nat /\ shorts' \in Nat
  <2>1. Cardinality({s \in Source : Failed(got[s])}) \in Nat
        /\ Cardinality({s \in Source : Short(s, got[s])}) \in Nat
    BY Finiteness
  <2>2. QED BY <2>1, <1>1, Typed, FaultsCounted
<1>3. merged' \in Profiles
  BY <1>1, MergeTyped
<1>4. snapshot' \in [Secondary -> Snapshot \cup {NoSnapshot}]
  BY <1>1, SnapshotsTyped
<1>5. healthy' \subseteq Source /\ listed' = listed
  BY <1>1 DEF ReadSources
<1>6. /\ toWrite' = {} /\ toDelist' = {} /\ delisted' = {}
      /\ delistDone' = FALSE /\ skipped' = FALSE /\ pushed' = FALSE
      /\ phase' \in {"idle", "comparing"} /\ failed' \in BOOLEAN
      /\ UNCHANGED <<chainVars, backend, database, changes>>
  BY DEF Collect, Stages
<1>7. QED BY <1>2, <1>3, <1>4, <1>5, <1>6, Typed DEF TypeOK, chainVars

\* A source that is trusted without a short list having arrived brings its
\* standing addresses.
LEMMA TrustedBring ==
  ASSUME TypeOK, StandingKept, NEW got \in Readings, NEW s \in Source,
         ~ Short(s, got[s]), shorts = 0, Trusted(s, got[s])
  PROVE  Standing[s] \subseteq Live(got[s]) \cup FromFile(s, got[s])
<1>1. CASE ~ Failed(got[s])
  BY <1>1 DEF Short, Live, StandingKept
<1>2. CASE Failed(got[s])
  <2>1. s # Primary /\ got[s] = Down /\ Kept(s) # {}
    BY <1>2 DEF Trusted, Produced
  <2>2. s \in Secondary
    BY <2>1 DEF Source
  <2>3. Standing[s] \subseteq Kept(s)
    BY <2>1, <2>2 DEF Kept, StandingKept
  <2>4. QED BY <2>1, <2>3 DEF FromFile
<1>3. QED BY <1>1, <1>2

\* What some source brings is listed.
LEMMA MergeLists ==
  ASSUME NEW got, NEW s \in Source, NEW a \in Address,
         a \in Live(got[s]) \cup FromFile(s, got[s])
  PROVE  a \in Listed(Merge(got))
<1>1. Merge(got)[a] # {}
  <2>1. CASE a \in Live(got[s])
    <3>1. <<s, "live">> \in Merge(got)[a]
      BY <2>1, Zenon DEF Merge
    <3>2. QED BY <3>1
  <2>2. CASE a \in FromFile(s, got[s])
    <3>1. <<s, "file">> \in Merge(got)[a]
      BY <2>2, Zenon DEF Merge
    <3>2. QED BY <3>1
  <2>3. QED BY <2>1, <2>2
<1>2. QED BY <1>1 DEF Listed

\* Collecting loses no standing address while no short list arrives.
LEMMA CollectKeepsStanding ==
  ASSUME TypeOK, Stages, StandingKept, Collect
  PROVE  StandingKept'
<1>1. PICK got \in Readings :
        /\ shorts' = shorts + Cardinality({s \in Source : Short(s, got[s])})
        /\ ReadSources(got)
        /\ merged' = Merge(got)
  BY DEF Collect
<1>2. listed' = listed /\ toDelist' = {}
  BY <1>1 DEF ReadSources, Collect, Stages
<1>3. ASSUME shorts' = 0
      PROVE  shorts = 0 /\ \A s \in Source : ~ Short(s, got[s])
  <2> DEFINE S == {s \in Source : Short(s, got[s])}
  <2>1. Cardinality(S) \in Nat /\ IsFiniteSet(S)
    <3>1. IsFiniteSet(Source)
      BY FS_AddElement, SourceConstants, Secondary \cup {Primary} = Source DEF Source
    <3>2. QED BY <3>1, FS_Subset, FS_CardinalityType
  <2>2. Cardinality(S) = 0 /\ shorts = 0
    <3> HIDE DEF S
    <3>1. shorts' = shorts + Cardinality(S)
      BY <1>1 DEF S
    <3>2. QED BY <2>1, <3>1, <1>3, Typed
  <2>3. S = {}
    BY <2>1, <2>2, FS_EmptySet
  <2>4. QED BY <2>2, <2>3
<1>4. ASSUME shorts' = 0, NEW s \in Secondary, snapshot'[s] # NoSnapshot
      PROVE  Standing[s] \subseteq snapshot'[s].list
  <2>1. s \in Source
    BY DEF Source
  <2>2. CASE Produced(s, got[s])
    <3>1. got[s] = listed[s]
      BY <1>3, <1>4, <2>1, <2>2 DEF Short, Produced
    <3>2. snapshot'[s] = [list |-> got[s], age |-> 0]
      BY <1>1, <2>2 DEF ReadSources
    <3>3. QED BY <2>1, <3>1, <3>2 DEF StandingKept
  <2>3. CASE ~ Produced(s, got[s])
    BY <1>1, <1>3, <1>4, <2>3 DEF ReadSources, StandingKept
  <2>4. QED BY <2>2, <2>3
<1>5. ASSUME shorts' = 0, NEW s \in healthy'
      PROVE  Standing[s] \subseteq Listed(merged')
  <2>1. s \in Source /\ Trusted(s, got[s])
    BY <1>1 DEF ReadSources
  <2>2. Standing[s] \subseteq Live(got[s]) \cup FromFile(s, got[s])
    BY <1>3, <1>5, <2>1, TrustedBring
  <2>3. Standing[s] \subseteq Address
    BY <2>1, SourceConstants
  <2>4. QED BY <2>1, <2>2, <2>3, <1>1, MergeLists
<1>6. QED BY <1>2, <1>4, <1>5 DEF StandingKept

\* A run starts with nothing to send, or ends with an error.
LEMMA CollectKeeps ==
  ASSUME DailyIInv, Collect
  PROVE  DailyIInv'
<1>1. TypeOK'
  BY CollectTyped DEF DailyIInv
<1>2. StandingKept'
  BY CollectKeepsStanding DEF DailyIInv
<1>3. /\ phase' \in {"idle", "comparing"}
      /\ phase' = "idle" => failed'
      /\ toWrite' = {} /\ toDelist' = {} /\ delisted' = {}
  BY DEF DailyIInv, Stages, Collect
<1>4. Stages' /\ DelistedOffChain'
  BY <1>3 DEF Stages, DelistedOffChain
<1>5. WrittenInStep' /\ RootInStep' /\ DelistingInStep' /\ BackendInStep'
  BY <1>3 DEF WrittenInStep, RootInStep, DelistingInStep, BackendInStep, Clean
<1>6. QED BY <1>1, <1>2, <1>4, <1>5 DEF DailyIInv

-----------------------------------------------------------------------------
(* Writing *)

\* What is not chosen to be written agrees with the chain.
LEMMA CompareKeeps ==
  ASSUME DailyIInv, NEW unread \in SUBSET Address, Compare(unread)
  PROVE  DailyIInv'
<1>1. /\ toWrite' = Differs(unread) /\ phase = "comparing" /\ phase' \in {"rooting", "writing"}
      /\ phase' = "rooting" => toWrite' = {}
      /\ UNCHANGED <<listed, snapshot, healthy, merged, toDelist, delisted, delistDone, skipped,
                     failed, pushed, chain, recent, root, backend, database, changes, shorts>>
  BY DEF Compare, listVars, chainVars
<1>2. faults' \in Nat
  BY Finiteness, FaultsCounted, Typed DEF Compare, DailyIInv
<1>3. toWrite' \subseteq Listed(merged)
  BY <1>1 DEF Differs
<1>4. TypeOK'
  BY <1>1, <1>2, <1>3, Typed DEF DailyIInv, TypeOK, Listed
<1>5. Stages'
  BY <1>1 DEF DailyIInv, Stages
<1>6. WrittenInStep'
  BY <1>1 DEF WrittenInStep, Differs, Listed
<1>7. DelistedOffChain'
  BY <1>1 DEF DailyIInv, DelistedOffChain, Clean, Listed
<1>8. RootInStep' /\ DelistingInStep' /\ BackendInStep'
  BY <1>1 DEF RootInStep, DelistingInStep, BackendInStep
<1>9. StandingKept'
  BY <1>1 DEF DailyIInv, StandingKept, Listed
<1>10. QED BY <1>4, <1>5, <1>6, <1>7, <1>8, <1>9 DEF DailyIInv

\* A batch only ever writes what the run has listed.
LEMMA WrittenIs ==
  ASSUME DailyIInv, NEW batch \in SUBSET toWrite
  PROVE  /\ Written(batch) \in Profiles
         /\ \A a \in Address : a \notin batch => Written(batch)[a] = chain[a]
         /\ \A a \in batch : a \notin recent => Written(batch)[a] = merged[a]
         /\ \A a \in Address : chain[a] # {} => Written(batch)[a] # {}
<1>1. batch \subseteq Listed(merged) /\ batch \subseteq Address
  BY DEF DailyIInv, TypeOK, Listed
<1>2. merged \in Profiles /\ chain \in Profiles
  BY Typed DEF DailyIInv
<1>3. QED BY <1>1, <1>2 DEF Written, Listed, Profiles

\* A confirmed batch of which nothing was skipped is on chain.
LEMMA WriteBatchKeeps ==
  ASSUME DailyIInv, NEW batch \in SUBSET toWrite, NEW outcome \in Outcome,
         WriteBatch(batch, outcome)
  PROVE  DailyIInv'
<1>1. /\ phase = "writing" /\ phase' \in {"rooting", "writing"}
      /\ toWrite' = toWrite \ batch
      /\ phase' = "rooting" => toWrite' = {}
      /\ UNCHANGED <<listed, snapshot, healthy, merged, toDelist, delisted, delistDone,
                     pushed, root, backend, database, changes, shorts>>
  BY DEF WriteBatch, listVars
<1>2. faults' \in Nat
  BY FaultsCounted, Typed DEF WriteBatch, DailyIInv
<1>3. batch \subseteq Listed(merged) /\ batch \subseteq Address
  BY DEF DailyIInv, TypeOK, Listed
<1>4. (chain' = chain /\ recent' = recent) \/ (chain' = Written(batch) /\ recent' = recent \cup batch)
  BY DEF WriteBatch
<1>5. chain' \in Profiles /\ recent' \subseteq Address
  BY <1>3, <1>4, WrittenIs, Typed DEF DailyIInv, TypeOK
<1>6. skipped' \in BOOLEAN /\ failed' \in BOOLEAN
  BY Typed DEF WriteBatch, DailyIInv
<1>7. TypeOK'
  BY <1>1, <1>2, <1>5, <1>6, Typed DEF DailyIInv, TypeOK, Listed
<1>8. Stages'
  BY <1>1 DEF DailyIInv, Stages
<1>9. Clean' => Clean /\ chain' = Written(batch) /\ batch \cap recent = {}
  BY DEF WriteBatch, Clean, Outcome
<1>10. WrittenInStep'
  <2> SUFFICES ASSUME Clean', NEW a \in Listed(merged) \ toWrite'
               PROVE  chain'[a] = merged[a]
    BY <1>1 DEF WrittenInStep, Listed
  <2>1. CASE a \in batch
    BY <2>1, <1>9, WrittenIs
  <2>2. CASE a \notin batch
    BY <2>2, <1>1, <1>9, WrittenIs DEF DailyIInv, WrittenInStep, Listed
  <2>3. QED BY <2>1, <2>2
<1>11. DelistedOffChain'
  <2>1. Clean' => \A a \in delisted \ toDelist : chain'[a] = {}
    BY <1>3, <1>9, WrittenIs DEF DailyIInv, DelistedOffChain, TypeOK
  <2>2. QED BY <1>1, <2>1 DEF DailyIInv, DelistedOffChain, Listed
<1>12. RootInStep' /\ DelistingInStep' /\ BackendInStep'
  BY <1>1 DEF RootInStep, DelistingInStep, BackendInStep
<1>13. StandingKept'
  BY <1>1 DEF DailyIInv, StandingKept, Listed
<1>14. QED BY <1>7, <1>8, <1>10, <1>11, <1>12, <1>13 DEF DailyIInv

\* A confirmed root stands for the merged list.
LEMMA PushRootKeeps ==
  ASSUME DailyIInv, NEW landed \in BOOLEAN, NEW confirmed \in BOOLEAN, PushRoot(landed, confirmed)
  PROVE  DailyIInv'
<1>1. /\ phase = "rooting" /\ phase' = "delisting"
      /\ UNCHANGED <<listed, snapshot, healthy, merged, toWrite, toDelist, delisted, delistDone,
                     skipped, pushed, chain, recent, backend, database, changes, shorts>>
  BY DEF PushRoot, listVars
<1>2. faults' \in Nat /\ root' \in Profiles /\ failed' \in BOOLEAN
  BY FaultsCounted, Typed DEF PushRoot, DailyIInv
<1>3. Clean' => Clean /\ root' = merged
  BY DEF PushRoot, Clean
<1>4. TypeOK'
  BY <1>1, <1>2, Typed DEF DailyIInv, TypeOK, Listed
<1>5. Stages' /\ WrittenInStep' /\ RootInStep' /\ DelistedOffChain'
  BY <1>1, <1>3 DEF DailyIInv, Stages, WrittenInStep, RootInStep, DelistedOffChain, Listed
<1>6. DelistingInStep' /\ BackendInStep'
  BY <1>1 DEF DelistingInStep, BackendInStep
<1>7. StandingKept'
  BY <1>1 DEF DailyIInv, StandingKept, Listed
<1>8. QED BY <1>4, <1>5, <1>6, <1>7 DEF DailyIInv

-----------------------------------------------------------------------------
(* Delisting *)

\* What is held back depends on the snapshots and the trusted sources.
LEMMA HeldSame ==
  ASSUME snapshot' = snapshot, healthy' = healthy
  PROVE  Held' = Held
BY DEF Held, Kept

\* A delisting that may go on never meets a standing address.
LEMMA StandingNotPlanned ==
  ASSUME DailyIInv, MayDelist, shorts = 0, NEW s \in Source
  PROVE  Standing[s] \subseteq Listed(merged) \cup Held
<1>1. CASE s \in healthy
  BY <1>1 DEF DailyIInv, StandingKept
<1>2. CASE s \notin healthy
  <2>1. s \in Secondary \ healthy /\ Fresh(s)
    BY <1>2 DEF MayDelist, Source
  <2>2. Standing[s] \subseteq Kept(s)
    BY <2>1 DEF DailyIInv, StandingKept, Fresh, Kept
  <2>3. Kept(s) \subseteq Held
    BY <2>1 DEF Held
  <2>4. QED BY <2>2, <2>3
<1>3. QED BY <1>1, <1>2

\* What leaves the list is planned, but for what is held back.
LEMMA PlanDelistingKeeps ==
  ASSUME DailyIInv, NEW read \in BOOLEAN, PlanDelisting(read)
  PROVE  DailyIInv'
<1>1. /\ phase = "delisting" /\ phase' \in {"pushing", "clearing"}
      /\ delistDone' = (MayDelist /\ read)
      /\ toDelist' = IF delistDone' THEN Listed(chain) \ (Listed(merged) \cup Held) ELSE {}
      /\ delisted' = toDelist' /\ (phase' = "pushing" => toDelist' = {})
      /\ UNCHANGED <<listed, snapshot, healthy, merged, toWrite, skipped, failed, pushed, chain,
                     recent, root, backend, database, changes, shorts>>
  BY DEF PlanDelisting, listVars, chainVars
<1>2. faults' \in Nat
  BY FaultsCounted, Typed DEF PlanDelisting, DailyIInv
<1>3. toDelist' \subseteq Address /\ delistDone' \in BOOLEAN
  BY <1>1 DEF Listed
<1>4. TypeOK'
  BY <1>1, <1>2, <1>3, Typed DEF DailyIInv, TypeOK, Listed
<1>5. Stages' /\ WrittenInStep' /\ RootInStep' /\ DelistedOffChain'
  BY <1>1 DEF DailyIInv, Stages, WrittenInStep, RootInStep, DelistedOffChain, Clean, Listed
<1>6. DelistingInStep'
  BY <1>1, HeldSame DEF DelistingInStep, Listed
<1>7. BackendInStep'
  BY <1>1 DEF BackendInStep
<1>8. ASSUME shorts' = 0, NEW s \in Source
      PROVE  toDelist' \cap Standing[s] = {}
  <2>1. CASE delistDone'
    BY <1>1, <1>8, <2>1, StandingNotPlanned
  <2>2. CASE ~ delistDone'
    BY <1>1, <2>2
  <2>3. QED BY <2>1, <2>2
<1>9. StandingKept'
  BY <1>1, <1>8 DEF DailyIInv, StandingKept, Listed
<1>10. QED BY <1>4, <1>5, <1>6, <1>7, <1>9 DEF DailyIInv

\* A confirmed delisting is off the chain.
LEMMA DelistKeeps ==
  ASSUME DailyIInv, NEW a \in toDelist, NEW landed \in BOOLEAN, NEW confirmed \in BOOLEAN,
         Delist(a, landed, confirmed)
  PROVE  DailyIInv'
<1>1. /\ phase = "clearing" /\ phase' \in {"pushing", "clearing"}
      /\ toDelist' = toDelist \ {a} /\ (phase' = "pushing" => toDelist' = {})
      /\ UNCHANGED <<listed, snapshot, healthy, merged, toWrite, delisted, delistDone, skipped,
                     pushed, root, backend, database, changes, shorts>>
  BY DEF Delist, listVars
<1>2. faults' \in Nat /\ failed' \in BOOLEAN
  BY FaultsCounted, Typed DEF Delist, DailyIInv
<1>3. a \in delisted /\ a \in Address /\ a \notin Listed(merged)
  BY DEF DailyIInv, TypeOK, DelistedOffChain
<1>4. \/ chain' = [chain EXCEPT ![a] = {}] /\ recent' = recent \cup {a}
      \/ chain' = chain /\ recent' = recent
  BY DEF Delist
<1>5. chain' \in Profiles /\ recent' \subseteq Address
  BY <1>3, <1>4, Typed DEF DailyIInv, TypeOK, Profiles
<1>6. TypeOK'
  BY <1>1, <1>2, <1>5, Typed DEF DailyIInv, TypeOK, Listed
<1>7. Clean' => Clean /\ chain' = [chain EXCEPT ![a] = {}]
  BY DEF Delist, Clean
<1>8. \A b \in Address : b # a => chain'[b] = chain[b]
  BY <1>4, Typed DEF DailyIInv, Profiles
<1>9. Clean' => chain'[a] = {}
  BY <1>3, <1>7, Typed DEF DailyIInv, Profiles
<1>10. Stages' /\ RootInStep'
  BY <1>1, <1>7 DEF DailyIInv, Stages, RootInStep
<1>11. WrittenInStep'
  BY <1>1, <1>3, <1>7, <1>8 DEF DailyIInv, WrittenInStep, Listed
<1>12. DelistedOffChain'
  BY <1>1, <1>7, <1>8, <1>9 DEF DailyIInv, DelistedOffChain, Listed, TypeOK
<1>13. DelistingInStep'
  BY <1>1, <1>7, <1>8, <1>9, HeldSame DEF DailyIInv, DelistingInStep, Listed
<1>14. BackendInStep'
  BY <1>1 DEF BackendInStep
<1>15. StandingKept'
  BY <1>1 DEF DailyIInv, StandingKept, Listed
<1>16. QED BY <1>6, <1>10, <1>11, <1>12, <1>13, <1>14, <1>15 DEF DailyIInv

-----------------------------------------------------------------------------
(* The backend, the file, crashes and the environment *)

\* A backend that took all rows agrees with the chain.
LEMMA PushToBackendKeeps ==
  ASSUME DailyIInv, NEW upserted \in SUBSET Address, NEW zeroed \in SUBSET Address,
         PushToBackend(upserted, zeroed)
  PROVE  DailyIInv'
<1>1. /\ phase = "pushing" /\ phase' = "saving"
      /\ UNCHANGED <<listed, snapshot, healthy, merged, toWrite, toDelist, delisted, delistDone,
                     skipped, failed, chain, recent, root, database, changes, shorts>>
  BY DEF PushToBackend, listVars, chainVars
<1>2. faults' \in Nat /\ pushed' \in BOOLEAN
  BY FaultsCounted, Typed DEF PushToBackend, DailyIInv
<1>3. backend' \in Profiles
  BY Typed DEF PushToBackend, DailyIInv, Profiles
<1>4. TypeOK'
  BY <1>1, <1>2, <1>3, Typed DEF DailyIInv, TypeOK, Listed
<1>5. Stages' /\ WrittenInStep' /\ RootInStep' /\ DelistedOffChain'
  BY <1>1 DEF DailyIInv, Stages, WrittenInStep, RootInStep, DelistedOffChain, Clean, Listed
<1>6. DelistingInStep'
  BY <1>1, HeldSame DEF DailyIInv, DelistingInStep, Clean, Listed
<1>7. BackendInStep'
  <2> SUFFICES ASSUME Clean, pushed', NEW a \in Listed(merged) \cup delisted
               PROVE  backend'[a] = chain[a]
    BY <1>1 DEF BackendInStep, Clean, Listed
  <2>1. toDelist = {} /\ toWrite = {}
    BY <1>1 DEF DailyIInv, Stages
  <2>2. a \in Address /\ upserted = Listed(merged) /\ zeroed = delisted
    BY DEF PushToBackend, DailyIInv, TypeOK, Listed
  <2>3. backend'[a] = IF a \in zeroed THEN {} ELSE IF a \in upserted THEN merged[a] ELSE backend[a]
    BY <2>2 DEF PushToBackend
  <2>4. CASE a \in delisted
    BY <2>1, <2>2, <2>3, <2>4 DEF DailyIInv, DelistedOffChain
  <2>5. CASE a \notin delisted
    BY <1>1, <2>1, <2>2, <2>3, <2>5 DEF DailyIInv, WrittenInStep
  <2>6. QED BY <2>4, <2>5
<1>8. StandingKept'
  BY <1>1 DEF DailyIInv, StandingKept, Listed
<1>9. QED BY <1>4, <1>5, <1>6, <1>7, <1>8 DEF DailyIInv

\* Saving ends the run.
LEMMA SaveDatabaseKeeps ==
  ASSUME DailyIInv, SaveDatabase
  PROVE  DailyIInv'
<1>1. /\ phase = "saving" /\ phase' = "idle" /\ database' = merged
      /\ UNCHANGED <<listed, snapshot, healthy, merged, toWrite, toDelist, delisted, delistDone,
                     skipped, failed, pushed, chain, recent, root, backend, bounds>>
  BY DEF SaveDatabase, listVars, chainVars
<1>2. TypeOK'
  BY <1>1, Typed DEF DailyIInv, TypeOK, Listed, bounds
<1>3. Stages' /\ WrittenInStep' /\ RootInStep' /\ DelistedOffChain' /\ BackendInStep'
  BY <1>1 DEF DailyIInv, Stages, WrittenInStep, RootInStep, DelistedOffChain, BackendInStep,
              Clean, Listed
<1>4. DelistingInStep'
  BY <1>1, HeldSame DEF DailyIInv, DelistingInStep, Clean, Listed
<1>5. StandingKept'
  BY <1>1 DEF DailyIInv, StandingKept, Listed, bounds
<1>6. QED BY <1>2, <1>3, <1>4, <1>5 DEF DailyIInv

\* A crash counts as a failure.
LEMMA CrashKeeps ==
  ASSUME DailyIInv, Crash
  PROVE  DailyIInv'
<1>1. /\ phase' = "idle" /\ toWrite' = {} /\ toDelist' = {} /\ failed' = TRUE
      /\ UNCHANGED <<listed, snapshot, healthy, merged, delisted, delistDone, skipped, pushed,
                     chain, recent, root, backend, database, changes, shorts>>
  BY DEF Crash, listVars, chainVars
<1>2. faults' \in Nat
  BY FaultsCounted, Typed DEF Crash, DailyIInv
<1>3. TypeOK'
  BY <1>1, <1>2, Typed DEF DailyIInv, TypeOK, Listed
<1>4. ~ Clean'
  BY <1>1 DEF Clean
<1>5. Stages' /\ WrittenInStep' /\ RootInStep' /\ DelistingInStep' /\ BackendInStep'
  BY <1>1, <1>4 DEF Stages, WrittenInStep, RootInStep, DelistingInStep, BackendInStep
<1>6. DelistedOffChain'
  BY <1>1, <1>4 DEF DailyIInv, DelistedOffChain, Listed
<1>7. StandingKept'
  BY <1>1 DEF DailyIInv, StandingKept, Listed
<1>8. QED BY <1>3, <1>5, <1>6, <1>7 DEF DailyIInv

\* A change of a list is not seen before the next run.
LEMMA ListChangeKeeps ==
  ASSUME DailyIInv, NEW s \in Source, NEW a \in Address, ListChange(s, a)
  PROVE  DailyIInv'
<1>1. UNCHANGED <<snapshot, healthy, phase, merged, toWrite, toDelist, delisted, delistDone,
                  skipped, failed, pushed, chain, recent, root, backend, database, faults, shorts>>
  BY DEF ListChange, ListChanges, runVars, chainVars
<1>2. a \notin Standing[s]
      /\ listed' = [listed EXCEPT ![s] = IF a \in listed[s] THEN listed[s] \ {a}
                                        ELSE listed[s] \cup {a}]
  BY DEF ListChange, ListChanges
<1>3. changes' \in Nat /\ listed' \in [Source -> SUBSET Address]
  BY <1>2, Typed DEF ListChange, DailyIInv, TypeOK
<1>4. TypeOK'
  BY <1>1, <1>3, Typed DEF DailyIInv, TypeOK, Listed
<1>5. Stages' /\ WrittenInStep' /\ RootInStep' /\ DelistedOffChain' /\ BackendInStep'
  BY <1>1 DEF DailyIInv, Stages, WrittenInStep, RootInStep, DelistedOffChain, BackendInStep,
              Clean, Listed
<1>6. DelistingInStep'
  BY <1>1, HeldSame DEF DailyIInv, DelistingInStep, Clean, Listed
<1>7. \A t \in Source : Standing[t] \subseteq listed'[t]
  BY <1>2 DEF DailyIInv, StandingKept, TypeOK
<1>8. StandingKept'
  BY <1>1, <1>7 DEF DailyIInv, StandingKept, Listed
<1>9. QED BY <1>4, <1>5, <1>6, <1>8 DEF DailyIInv

\* Snapshots age, their lists stay.
LEMMA TimePassesKeeps ==
  ASSUME DailyIInv, TimePasses
  PROVE  DailyIInv'
<1>1. /\ recent' = {}
      /\ UNCHANGED <<listed, healthy, phase, merged, toWrite, toDelist, delisted, delistDone,
                     skipped, failed, pushed, chain, root, backend, database, bounds>>
  BY DEF TimePasses, runVars
<1>2. ASSUME NEW s \in Secondary
      PROVE  /\ snapshot'[s] \in Snapshot \cup {NoSnapshot}
             /\ snapshot'[s] = NoSnapshot <=> snapshot[s] = NoSnapshot
             /\ snapshot[s] # NoSnapshot => snapshot'[s].list = snapshot[s].list
  <2>1. snapshot'[s] = IF snapshot[s] = NoSnapshot \/ snapshot[s].age > MaxAge THEN snapshot[s]
                       ELSE [snapshot[s] EXCEPT !.age = snapshot[s].age + 1]
    BY DEF TimePasses, SnapshotsAge
  <2>2. CASE snapshot[s] = NoSnapshot \/ snapshot[s].age > MaxAge
    BY <2>1, <2>2 DEF DailyIInv, TypeOK
  <2>3. CASE ~ (snapshot[s] = NoSnapshot \/ snapshot[s].age > MaxAge)
    <3>1. snapshot[s] \in Snapshot
      BY <2>3 DEF DailyIInv, TypeOK
    <3>2. snapshot'[s] \in Snapshot /\ snapshot'[s].list = snapshot[s].list
      BY <2>1, <2>3, <3>1, SourceConstants DEF Snapshot
    <3>3. QED BY <2>3, <3>2, SourceConstants
  <2>4. QED BY <2>2, <2>3
<1>3. snapshot' \in [Secondary -> Snapshot \cup {NoSnapshot}]
  BY <1>2 DEF TimePasses, SnapshotsAge
<1>4. TypeOK'
  BY <1>1, <1>3, Typed DEF DailyIInv, TypeOK, Listed, bounds
<1>5. Stages' /\ WrittenInStep' /\ RootInStep' /\ DelistedOffChain' /\ BackendInStep'
  BY <1>1 DEF DailyIInv, Stages, WrittenInStep, RootInStep, DelistedOffChain, BackendInStep,
              Clean, Listed
<1>6. Held' = Held
  <2>1. healthy' = healthy /\ \A s \in Secondary : Kept(s)' = Kept(s)
    BY <1>1, <1>2 DEF Kept
  <2>2. QED BY <2>1 DEF Held
<1>7. DelistingInStep'
  BY <1>1, <1>6 DEF DailyIInv, DelistingInStep, Clean, Listed
<1>8. StandingKept'
  BY <1>1, <1>2 DEF DailyIInv, StandingKept, Listed, bounds
<1>9. QED BY <1>4, <1>5, <1>7, <1>8 DEF DailyIInv

-----------------------------------------------------------------------------
(* The theorems *)

\* Before the first run nothing is claimed.
LEMMA InitIsDailyInv == Init => DailyIInv
<1> SUFFICES ASSUME Init PROVE DailyIInv
  OBVIOUS
<1>1. chain \in Profiles
  BY DEF Init, Profiles, Tag, Source
<1>2. TypeOK
  <2>1. Nothing \in Profiles
    BY DEF Profiles, Nothing
  <2>2. {merged, chain, root, backend, database} \subseteq Profiles
    BY <1>1, <2>1 DEF Init
  <2>3. listed \in [Source -> SUBSET Address]
    BY SourceConstants DEF Init, ListsInit
  <2>4. snapshot \in [Secondary -> Snapshot \cup {NoSnapshot}] /\ healthy \subseteq Source
    BY DEF Init, ListsInit
  <2>5. phase \in {"idle", "comparing", "writing", "rooting", "delisting", "clearing",
                  "pushing", "saving"}
    BY DEF Init
  <2>6. /\ toWrite \subseteq Listed(merged) /\ toDelist \subseteq delisted
        /\ delisted \subseteq Address /\ recent \subseteq Address
    BY DEF Init
  <2>7. {delistDone, skipped, failed, pushed} \subseteq BOOLEAN
    BY DEF Init
  <2>8. {changes, faults, shorts} \subseteq Nat
    BY DEF Init
  <2>9. QED BY <2>2, <2>3, <2>4, <2>5, <2>6, <2>7, <2>8 DEF TypeOK
<1>3. Stages /\ ~ Clean /\ delisted = {}
  BY DEF Init, Stages, Clean
<1>4. StandingKept
  BY SourceConstants DEF Init, ListsInit, StandingKept, Source
<1>5. QED BY <1>2, <1>3, <1>4 DEF DailyIInv, WrittenInStep, RootInStep, DelistedOffChain,
                                 DelistingInStep, BackendInStep

\* A stuttering step changes nothing.
LEMMA StutterKeepsDailyInv ==
  ASSUME DailyIInv, UNCHANGED vars
  PROVE  DailyIInv'
<1>1. UNCHANGED <<listed, snapshot, healthy, phase, merged, toWrite, toDelist, delisted,
                  delistDone, skipped, failed, pushed, chain, recent, root, backend, database,
                  changes, faults, shorts>>
  BY DEF vars, listVars, runVars, chainVars, bounds
<1>2. Held' = Held
  BY <1>1, HeldSame
<1>3. QED BY <1>1, <1>2 DEF DailyIInv, TypeOK, Stages, WrittenInStep, RootInStep, DelistedOffChain,
                           DelistingInStep, BackendInStep, StandingKept, Clean, Listed

\* Every step keeps the invariant.
LEMMA NextKeepsDailyInv ==
  ASSUME DailyIInv, [Next]_vars
  PROVE  DailyIInv'
<1>1. CASE RunStep
  BY <1>1, CollectKeeps, CompareKeeps, WriteBatchKeeps, PushRootKeeps, PlanDelistingKeeps,
     DelistKeeps, PushToBackendKeeps, SaveDatabaseKeeps DEF RunStep
<1>2. CASE Crash
  BY <1>2, CrashKeeps
<1>3. CASE \E s \in Source, a \in Address : ListChange(s, a)
  BY <1>3, ListChangeKeeps
<1>4. CASE TimePasses
  BY <1>4, TimePassesKeeps
<1>5. CASE UNCHANGED vars
  BY <1>5, StutterKeepsDailyInv
<1>6. QED BY <1>1, <1>2, <1>3, <1>4, <1>5 DEF Next

\* The invariant holds always.
LEMMA DailyInvAlways == Spec => []DailyIInv
<1>1. DailyIInv /\ [Next]_vars => DailyIInv'
  BY NextKeepsDailyInv
<1>2. QED BY <1>1, InitIsDailyInv, PTL DEF Spec

\* Whatever is read, whatever fails and wherever a run is cut short, the state
\* of the daily sync keeps its types: what is to be written is on the run's list,
\* what is to be delisted is among the addresses the result names.
THEOREM DailyTypeSafety == Spec => []TypeOK
BY DailyInvAlways, PTL DEF DailyIInv

\* For every set of sources, of addresses and of bounds: exit code 0, with no
\* skipped address and the delisting not called off, means that the chain, the
\* root, the list and (if it took everything) the backend agree.
THEOREM ExitZeroAlwaysInStep == Spec => []ExitZeroInStep
<1>1. DailyIInv => ExitZeroInStep
  <2> SUFFICES ASSUME DailyIInv, phase = "idle", ~ failed, ~ skipped, delistDone
               PROVE  /\ \A a \in Listed(merged) : chain[a] = merged[a]
                      /\ Listed(chain) \ Listed(merged) \subseteq Held
                      /\ root = merged
                      /\ pushed => \A a \in Listed(merged) \cup delisted : backend[a] = chain[a]
    BY DEF ExitZeroInStep
  <2>1. toWrite = {} /\ toDelist = {} /\ Clean
    BY DEF DailyIInv, Stages, Clean
  <2>2. QED BY <2>1 DEF DailyIInv, WrittenInStep, RootInStep, DelistingInStep, BackendInStep
<1>2. QED BY <1>1, DailyInvAlways, PTL

\* As long as no short list has arrived, no step of a run, of any number of runs,
\* takes an address off the chain that one of the sources has always listed.
THEOREM StandingAlwaysKept == Spec => StandingNeverCleared
<1>1. ASSUME DailyIInv, [Next]_vars, shorts = 0, NEW s \in Source, NEW a \in Standing[s],
             chain[a] # {}
      PROVE  chain'[a] # {}
  <2>1. a \in Address /\ a \notin toDelist
    BY <1>1, SourceConstants DEF DailyIInv, StandingKept
  <2>2. ASSUME NEW batch \in SUBSET toWrite, NEW outcome \in Outcome, WriteBatch(batch, outcome)
        PROVE  chain'[a] # {}
    <3>1. chain' = chain \/ chain' = Written(batch)
      BY <2>2 DEF WriteBatch
    <3>2. QED BY <1>1, <2>1, <3>1, WrittenIs
  <2>3. ASSUME NEW b \in toDelist, NEW landed \in BOOLEAN, NEW confirmed \in BOOLEAN,
               Delist(b, landed, confirmed)
        PROVE  chain'[a] # {}
    <3>1. chain \in Profiles
      BY <1>1, Typed DEF DailyIInv
    <3>2. QED BY <1>1, <2>1, <2>3, <3>1 DEF Delist, Profiles
  <2>4. CASE UNCHANGED chain
    BY <1>1, <2>4
  <2>5. \/ \E batch \in SUBSET toWrite, outcome \in Outcome : WriteBatch(batch, outcome)
        \/ \E b \in toDelist, landed, confirmed \in BOOLEAN : Delist(b, landed, confirmed)
        \/ UNCHANGED chain
    <3>1. CASE RunStep
      BY <3>1 DEF RunStep, Collect, Compare, PushRoot, PlanDelisting, PushToBackend, SaveDatabase,
                  chainVars
    <3>2. CASE Crash \/ (\E t \in Source, b \in Address : ListChange(t, b)) \/ TimePasses
      BY <3>2 DEF Crash, ListChange, TimePasses, chainVars
    <3>3. CASE UNCHANGED vars
      BY <3>3 DEF vars, chainVars
    <3>4. QED BY <1>1, <3>1, <3>2, <3>3 DEF Next
  <2>6. QED BY <2>2, <2>3, <2>4, <2>5
<1>2. DailyIInv /\ [Next]_vars
        => [shorts = 0 => \A s \in Source : \A a \in Standing[s] : chain[a] # {} => chain'[a] # {}]_vars
  BY <1>1
<1>3. QED BY <1>2, DailyInvAlways, PTL DEF Spec, StandingNeverCleared
=============================================================================
