------------------------------ MODULE BatchSync ------------------------------
(***************************************************************************)
(* The batch sync of the data publisher: batch-collector.ts, started by    *)
(* batch-scheduler.ts and from the command line.                           *)
(*                                                                         *)
(* A run loads the state file, which tells for each source the addresses   *)
(* that were published and those that failed, publishes what is in neither *)
(* and saves its copy of the state, after each source and at the end.  The *)
(* file has a lock of its own, a second file that is only held during a    *)
(* save: two runs of two processes overlap, and the last save wins.        *)
(*                                                                         *)
(* The risk registry skips what it has written within its interval, and    *)
(* the batch is confirmed all the same.  An assessment is the name of the  *)
(* source it came from.  A list has an entry for every wallet, and OFAC's  *)
(* may have two of one address, with different owners.                     *)
(*                                                                         *)
(* Nothing here ever takes an address off the chain, so an address leaving *)
(* a list changes nothing and is left out, like dry runs, which write      *)
(* nothing.                                                                *)
(***************************************************************************)
EXTENDS Naturals, FiniteSets, FiniteSetsExt

CONSTANTS
  Process,     \* the processes that may run the sync at the same time
  Scheduled,   \* those that run it every day
  Incremental, \* those that ask OFAC only for what changed lately
  Retrying,    \* those that run it with --retry-failed
  Address,
  Entry,       \* the wallets that the lists name
  AddressOf,   \* the address of each
  Listable,    \* the entries each source has at last
  New,         \* entries that are listed only after the start
  NoLockFile,  \* there is no lock file
  BatchMax,    \* addresses per transaction
  MaxManual,   \* bound: runs from the command line
  MaxErrors    \* bound: downloads, transactions, file reads that fail; crashes

Source == {"ofac", "scam"}
NoProfile == "none"

ASSUME BatchConstants ==
  /\ IsFiniteSet(Address)
  /\ Scheduled \subseteq Process /\ Incremental \subseteq Process /\ Retrying \subseteq Process
  /\ AddressOf \in [Entry -> Address]
  /\ Listable \in [Source -> SUBSET Entry]
  /\ NoLockFile \notin Process
  /\ BatchMax \in Nat \ {0}
  /\ {MaxManual, MaxErrors} \subseteq Nat

VARIABLES
  listed,   \* the entries the sources have
  stage,    \* what the run of a process does next
  source,   \* the source it works on, "end" after both
  memory,   \* its copy of the state
  todo,     \* candidates it has not sent yet
  done,     \* what became of the others of this source
  file,     \* synced-addresses.json
  backup,   \* synced-addresses.json.bak
  fileLock, \* who created synced-addresses.json.lock
  stale,    \* the lock file is older than five minutes
  chain,    \* the source whose assessment of an address the registry holds
  recent,   \* addresses the registry has written within its interval
  manual, errors

runVars == <<stage, source, memory, todo, done, done>>
fileVars == <<file, backup, fileLock, stale>>
chainVars == <<chain, recent>>
batchVars == <<listed, runVars, fileVars, chainVars, manual, errors>>

Addresses(entries) == {AddressOf[e] : e \in entries}

State == [Source -> [synced : SUBSET Address, failed : SUBSET Address]]
EmptyState == [s \in Source |-> [synced |-> {}, failed |-> {}]]
NoResults == [succeeded |-> {}, failed |-> {}]

BatchInit ==
  /\ listed = [s \in Source |-> Listable[s] \ New]
  /\ stage = [p \in Process |-> "idle"]
  /\ source = [p \in Process |-> "end"]
  /\ memory = [p \in Process |-> EmptyState]
  /\ todo = [p \in Process |-> {}]
  /\ done = [p \in Process |-> NoResults]
  /\ file = EmptyState
  /\ backup = EmptyState
  /\ fileLock = NoLockFile
  /\ stale = FALSE
  /\ chain = [a \in Address |-> NoProfile]
  /\ recent = {}
  /\ manual = 0
  /\ errors = 0

Errors(n) == errors + n <= MaxErrors /\ errors' = errors + n

MoveTo(p, s) == stage' = [stage EXCEPT ![p] = s]

\* The run is over, or was ended by an error: its copy of the state is gone.
Ended(p) ==
  /\ MoveTo(p, "idle")
  /\ source' = [source EXCEPT ![p] = "end"]
  /\ memory' = [memory EXCEPT ![p] = EmptyState]
  /\ todo' = [todo EXCEPT ![p] = {}]
  /\ done' = [done EXCEPT ![p] = NoResults]

-----------------------------------------------------------------------------
(* Loading and collecting *)

\* loadState: the file; its backup, or nothing, when it cannot be read.
StartRun(p, loaded) ==
  /\ stage[p] = "idle"
  /\ loaded \in {file, backup, EmptyState}
  /\ Errors(IF loaded = file THEN 0 ELSE 1)
  /\ manual' = IF p \in Scheduled THEN manual ELSE manual + 1
  /\ manual' <= MaxManual
  /\ memory' = [memory EXCEPT ![p] = loaded]
  /\ source' = [source EXCEPT ![p] = "ofac"]
  /\ MoveTo(p, "fetching")
  /\ UNCHANGED <<listed, todo, done, fileVars, chainVars>>

\* A full download; an incremental one, of OFAC only, brings what changed lately.
\* An answer of ScamSniffer that is no list counts as an empty one.
Downloads(p) ==
  IF source[p] = "scam" THEN {listed["scam"], {}}
  ELSE IF p \in Incremental THEN SUBSET listed["ofac"] ELSE {listed["ofac"]}

Candidates(p, got) ==
  LET known == memory[p][source[p]]
  IN {e \in got : /\ AddressOf[e] \notin known.synced
                  /\ AddressOf[e] \notin known.failed \/ p \in Retrying}

\* Without candidates nothing is saved before the next source.
Fetch(p, got) ==
  /\ stage[p] = "fetching"
  /\ got \in Downloads(p)
  /\ Errors(IF source[p] = "scam" /\ got # listed["scam"] THEN 1 ELSE 0)
  /\ todo' = [todo EXCEPT ![p] = Candidates(p, got)]
  /\ IF todo'[p] # {} THEN MoveTo(p, "publishing") /\ UNCHANGED source
     ELSE IF source[p] = "ofac" THEN source' = [source EXCEPT ![p] = "scam"] /\ UNCHANGED stage
     ELSE source' = [source EXCEPT ![p] = "end"] /\ MoveTo(p, "locking")
  /\ UNCHANGED <<listed, memory, done, fileVars, chainVars, manual>>

\* Nobody catches the error of a download: the run ends.
FetchFails(p) ==
  /\ stage[p] = "fetching"
  /\ Errors(1)
  /\ Ended(p)
  /\ UNCHANGED <<listed, fileVars, chainVars, manual>>

-----------------------------------------------------------------------------
(* Publishing *)

Written(addresses, s) ==
  [a \in Address |-> IF a \in addresses \ recent THEN s ELSE chain[a]]

\* Every address of a confirmed batch is looked up: what has a profile by now,
\* or cannot be read, was published.
Verified(addresses, unread) ==
  {a \in addresses : chain'[a] # NoProfile} \cup (addresses \cap unread)

\* Mutant of Marked: what was retried stays in the list of failures.
MarkedTwice(known, results) ==
  [synced |-> known.synced \cup results.succeeded,
   failed |-> known.failed \cup results.failed]

\* Mutant of Marked: all that was sent counts as published.
MarkedUnchecked(known, results) ==
  [synced |-> known.synced \cup results.succeeded \cup results.failed,
   failed |-> known.failed \ (results.succeeded \cup results.failed)]

\* An address that is listed twice can be in a batch that succeeded and in one
\* that failed: it ends up in both lists.
Marked(known, results) ==
  [synced |-> known.synced \cup results.succeeded,
   failed |-> (known.failed \ results.succeeded) \cup results.failed]

Added(results, addresses, succeeded) ==
  [succeeded |-> results.succeeded \cup succeeded,
   failed |-> results.failed \cup (addresses \ succeeded)]

\* The transaction may be refused, or land without its receipt being seen in time.
\* The last batch of a source settles what its addresses are marked as.
PublishBatch(p, batch, landed, confirmed, unread) ==
  LET addresses == Addresses(batch)
      succeeded == IF confirmed THEN Verified(addresses, unread) ELSE {}
      results == Added(done[p], addresses, succeeded)
  IN /\ stage[p] = "publishing"
     /\ Cardinality(batch) = Min({BatchMax, Cardinality(todo[p])})
     /\ confirmed => landed
     /\ unread \subseteq addresses /\ (~ confirmed => unread = {})
     /\ IF landed
        THEN chain' = Written(addresses, source[p]) /\ recent' = recent \cup addresses
        ELSE UNCHANGED chainVars
     /\ todo' = [todo EXCEPT ![p] = @ \ batch]
     /\ IF todo'[p] # {}
        THEN done' = [done EXCEPT ![p] = results] /\ UNCHANGED <<memory, stage>>
        ELSE /\ memory' = [memory EXCEPT ![p][source[p]] = Marked(@, results)]
             /\ done' = [done EXCEPT ![p] = NoResults]
             /\ MoveTo(p, "locking")
     /\ Errors((IF confirmed THEN 0 ELSE 1) + Cardinality(unread))
     /\ UNCHANGED <<listed, source, fileVars, manual>>

-----------------------------------------------------------------------------
(* Saving *)

\* The lock file is created unless it is there.
TakeFileLock(p) ==
  /\ stage[p] = "locking"
  /\ fileLock = NoLockFile
  /\ fileLock' = p /\ stale' = FALSE
  /\ MoveTo(p, "writing")
  /\ UNCHANGED <<listed, source, memory, todo, done, file, backup, chainVars, manual, errors>>

\* Another process saves, or died while it did: saveState throws, the run ends.
FileLocked(p) ==
  /\ stage[p] = "locking"
  /\ fileLock # NoLockFile /\ ~ stale
  /\ Ended(p)
  /\ UNCHANGED <<listed, fileVars, chainVars, manual, errors>>

\* Mutant of SeeStaleLock: a lock file is respected however old it is.
RespectStaleLock(p) ==
  /\ stage[p] = "locking"
  /\ fileLock # NoLockFile /\ stale
  /\ Ended(p)
  /\ UNCHANGED <<listed, fileVars, chainVars, manual, errors>>

SeeStaleLock(p) ==
  /\ stage[p] = "locking"
  /\ fileLock # NoLockFile /\ stale
  /\ MoveTo(p, "breaking")
  /\ UNCHANGED <<listed, source, memory, todo, done, fileVars, chainVars, manual, errors>>

\* The lock file is removed, whose ever it is by now, and created again.
BreakLock(p) ==
  /\ stage[p] = "breaking"
  /\ IF fileLock = NoLockFile
     THEN Ended(p) /\ UNCHANGED <<fileLock, stale>>
     ELSE /\ fileLock' = p /\ stale' = FALSE
          /\ MoveTo(p, "writing")
          /\ UNCHANGED <<source, memory, todo, done>>
  /\ UNCHANGED <<listed, file, backup, chainVars, manual, errors>>

\* The old file is copied, the new one renamed into its place.
WriteState(p) ==
  /\ stage[p] = "writing"
  /\ backup' = file
  /\ file' = memory[p]
  /\ MoveTo(p, "unlocking")
  /\ UNCHANGED <<listed, source, memory, todo, done, fileLock, stale, chainVars, manual, errors>>

Unlock(p) == fileLock' = IF fileLock = p THEN NoLockFile ELSE fileLock

\* One of these steps throws: the lock file is removed, and the run ends.
WriteFails(p) ==
  /\ stage[p] = "writing"
  /\ Errors(1)
  /\ \/ UNCHANGED <<backup, file>>
     \/ backup' = file /\ file' \in {file, memory[p]}
  /\ Unlock(p)
  /\ Ended(p)
  /\ UNCHANGED <<listed, stale, chainVars, manual>>

ReleaseFileLock(p) ==
  /\ stage[p] = "unlocking"
  /\ Unlock(p)
  /\ CASE source[p] = "ofac" -> /\ source' = [source EXCEPT ![p] = "scam"]
                                /\ MoveTo(p, "fetching")
                                /\ UNCHANGED <<memory, todo, done>>
       [] source[p] = "scam" -> /\ source' = [source EXCEPT ![p] = "end"]
                                /\ MoveTo(p, "locking")
                                /\ UNCHANGED <<memory, todo, done>>
       [] OTHER              -> Ended(p)
  /\ UNCHANGED <<listed, file, backup, stale, chainVars, manual, errors>>

-----------------------------------------------------------------------------
(* The environment *)

RunDies(p) ==
  /\ stage[p] # "idle"
  /\ Errors(1)
  /\ Ended(p)
  /\ UNCHANGED <<listed, fileVars, chainVars, manual>>

\* A save takes no time to speak of: only a lock that a dead process left gets old.
LockAges ==
  /\ fileLock # NoLockFile /\ ~ stale
  /\ stage[fileLock] \notin {"writing", "unlocking"}
  /\ stale' = TRUE
  /\ UNCHANGED <<listed, runVars, file, backup, fileLock, chainVars, manual, errors>>

IntervalEnds ==
  /\ recent' = {}
  /\ UNCHANGED <<listed, runVars, fileVars, chain, manual, errors>>

ListEntry(s, e) ==
  /\ e \in Listable[s]
  /\ listed' = [listed EXCEPT ![s] = @ \cup {e}]
  /\ UNCHANGED <<runVars, fileVars, chainVars, manual, errors>>

RunStep(p) ==
  \/ \E got \in Downloads(p) : Fetch(p, got)
  \/ \E batch \in SUBSET todo[p], landed, confirmed \in BOOLEAN :
       \E unread \in SUBSET Addresses(batch) : PublishBatch(p, batch, landed, confirmed, unread)
  \/ TakeFileLock(p)
  \/ FileLocked(p)
  \/ SeeStaleLock(p)
  \/ BreakLock(p)
  \/ WriteState(p)
  \/ ReleaseFileLock(p)

BatchNext ==
  \/ \E p \in Process :
       \/ \E loaded \in {file, backup, EmptyState} : StartRun(p, loaded)
       \/ RunStep(p)
       \/ FetchFails(p)
       \/ WriteFails(p)
       \/ RunDies(p)
  \/ LockAges
  \/ IntervalEnds
  \/ \E s \in Source, e \in Entry : ListEntry(s, e)

BatchSpec == BatchInit /\ [][BatchNext]_batchVars

\* The schedule starts a run every day, a run goes on, files get older.  Nobody
\* starts a run from the command line unless somebody does.
BatchFairSpec ==
  /\ BatchSpec
  /\ \A p \in Process : WF_batchVars(RunStep(p))
  /\ \A p \in Scheduled : WF_batchVars(StartRun(p, file))
  /\ WF_batchVars(LockAges)

-----------------------------------------------------------------------------
(* Properties *)

Stages == {"idle", "fetching", "publishing", "locking", "breaking", "writing", "unlocking"}

\* The addresses that a source lists twice.
ListedTwice(s) ==
  {a \in Address : \E d, e \in Listable[s] : d # e /\ AddressOf[d] = a /\ AddressOf[e] = a}

\* The state file has an address of a source as synced and as failed only if the
\* source lists it twice: a retry that succeeds clears the failure, and nothing
\* that is synced is sent again.
BatchTypeOK ==
  /\ listed \in [Source -> SUBSET Entry]
  /\ stage \in [Process -> Stages]
  /\ source \in [Process -> Source \cup {"end"}]
  /\ memory \in [Process -> State]
  /\ todo \in [Process -> SUBSET Entry]
  /\ done \in [Process -> [succeeded : SUBSET Address, failed : SUBSET Address]]
  /\ {file, backup} \subseteq State
  /\ \A s \in Source : file[s].synced \cap file[s].failed \subseteq ListedTwice(s)
  /\ fileLock \in Process \cup {NoLockFile}
  /\ stale \in BOOLEAN
  /\ chain \in [Address -> Source \cup {NoProfile}]
  /\ recent \subseteq Address
  /\ manual \in 0 .. MaxManual /\ errors \in 0 .. MaxErrors

\* What the state file calls synced has a profile on chain, or it would never be
\* published: with receipts that were not seen, addresses the registry skipped,
\* look-ups that failed, runs that overlap, save over each other or die halfway.
SyncedHasProfile ==
  \A s \in Source : \A a \in file[s].synced : chain[a] # NoProfile

\* Everything the sources list ends up in the state file for good, as synced or
\* as failed (where --retry-failed finds it): no overlap of two runs, unreadable
\* file or lock of a dead process makes the sync forget an address.
ListingsRecorded ==
  <>[](\A s \in Source : Addresses(listed[s]) \subseteq file[s].synced \cup file[s].failed)
=============================================================================
