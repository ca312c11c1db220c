---------------------------- MODULE RiskRegistry ----------------------------
(***************************************************************************)
(* RiskRegistry.sol: the on-chain store of risk profiles, with the lists   *)
(* of high-risk and of sanctioned addresses kept beside the profiles.      *)
(*                                                                         *)
(* A transaction is one action.  A call that reverts changes nothing and   *)
(* is not a step.  now is the block timestamp; it only grows.  Events,     *)
(* lastGlobalUpdate (written, never read) and the contents of the tags     *)
(* are left out; the number of tags is kept because a write is refused     *)
(* for it.                                                                 *)
(***************************************************************************)
EXTENDS IndexedList, FiniteSets

CONSTANTS
  Account,           \* addresses that may have a profile
  ZeroAddress,       \* address(0)
  Assessment,        \* what a caller may submit: score, tier, sanctioned, tags
  MinUpdateInterval, \* MIN_UPDATE_INTERVAL, in clock ticks
  MaxTags,           \* MAX_TAGS_PER_ADDRESS
  MaxTime            \* bound of the clock, for model checking only

HighRiskScore == 80  \* "riskScore >= 80" in the code
MaxScore      == 100 \* validRiskScore
FullConfidence == 100 \* the confidence of every path but the oracle consensus

AssessmentType == [score : 0 .. 255, tier : 0 .. 4, sanctioned : BOOLEAN, tags : Nat]

ASSUME RegistryAssumption ==
  /\ IsFiniteSet(Account)
  /\ ZeroAddress \notin Account
  /\ Assessment \subseteq AssessmentType
  /\ MinUpdateInterval \in Nat \ {0}
  /\ MaxTags \in Nat
  /\ MaxTime \in Nat

VARIABLES
  registry,       \* profiles, the two lists, totalProfiles
  registryPaused, \* PausableUpgradeable
  now             \* block.timestamp

registryVars == <<registry, registryPaused, now>>

Profile == [score : 0 .. 255, tier : 0 .. 4, sanctioned : BOOLEAN,
            confidence : 0 .. 255, lastUpdated : Nat, exists : BOOLEAN]

\* An address nobody wrote yet: every field of the mapping entry reads zero.
NoProfile == [score |-> 0, tier |-> 0, sanctioned |-> FALSE,
              confidence |-> 0, lastUpdated |-> 0, exists |-> FALSE]

Registry == [profiles : [Account -> Profile],
             highRisk : IndexedLists(Account),
             sanctioned : IndexedLists(Account),
             totalProfiles : Nat]

RegistryTypeOK ==
  /\ registry \in Registry
  /\ registryPaused \in BOOLEAN
  /\ now \in Nat

RegistryInit ==
  /\ registry = [profiles |-> [a \in Account |-> NoProfile],
                 highRisk |-> EmptyList(Account),
                 sanctioned |-> EmptyList(Account),
                 totalProfiles |-> 0]
  /\ registryPaused = FALSE
  /\ now = 2   \* some block long after block 1

-----------------------------------------------------------------------------
(***************************************************************************)
(* The write that every path shares.                                       *)
(***************************************************************************)

IsHighRisk(p) == p.score >= HighRiskScore

\* The only revert of the shared write: the address was written less than
\* MIN_UPDATE_INTERVAL ago.
TooFrequent(r, a, t) ==
  /\ r.profiles[a].exists
  /\ t - r.profiles[a].lastUpdated < MinUpdateInterval

\* The argument checks made before the shared write (modifiers and tag limit).
ValidAssessment(x) == x.score <= MaxScore /\ x.tags <= MaxTags

\* Mutant of Write: wasNew is read after profile.exists has been set.
WriteNeverNew(r, a, x, confidence, t) ==
  LET old == r.profiles[a]
      new == [score |-> x.score, tier |-> x.tier, sanctioned |-> x.sanctioned,
              confidence |-> confidence, lastUpdated |-> t, exists |-> TRUE]
  IN  [r EXCEPT !.profiles[a] = new,
                !.highRisk = Relist(@, a, IsHighRisk(old), IsHighRisk(new)),
                !.sanctioned = Relist(@, a, old.sanctioned, new.sanctioned)]

\* _updateRiskProfileInternal, when it does not revert.
Write(r, a, x, confidence, t) ==
  LET old == r.profiles[a]
      new == [score |-> x.score, tier |-> x.tier, sanctioned |-> x.sanctioned,
              confidence |-> confidence, lastUpdated |-> t, exists |-> TRUE]
  IN  [profiles |-> [r.profiles EXCEPT ![a] = new],
       highRisk |-> Relist(r.highRisk, a, IsHighRisk(old), IsHighRisk(new)),
       sanctioned |-> Relist(r.sanctioned, a, old.sanctioned, new.sanctioned),
       totalProfiles |-> IF old.exists THEN r.totalProfiles ELSE r.totalProfiles + 1]

\* One turn of the batch loop: an item that fails a check is skipped.
WriteItem(r, a, x, t) ==
  IF a \in Account /\ ValidAssessment(x) /\ ~TooFrequent(r, a, t)
  THEN Write(r, a, x, FullConfidence, t)
  ELSE r

\* delete riskProfiles[addr], after the address has left both lists.
Erase(r, a) ==
  LET old == r.profiles[a]
  IN  [profiles |-> [r.profiles EXCEPT ![a] = NoProfile],
       highRisk |-> Relist(r.highRisk, a, IsHighRisk(old), FALSE),
       sanctioned |-> Relist(r.sanctioned, a, old.sanctioned, FALSE),
       totalProfiles |-> IF r.totalProfiles > 0 THEN r.totalProfiles - 1 ELSE 0]

-----------------------------------------------------------------------------
(***************************************************************************)
(* The transactions.                                                       *)
(***************************************************************************)

\* A call of updateRiskProfileWithConfidence that the registry accepts.
Accepts(a, x, confidence) ==
  /\ ~registryPaused
  /\ a \in Account
  /\ ValidAssessment(x)
  /\ confidence <= 100
  /\ ~TooFrequent(registry, a, now)

\* updateRiskProfile, from any holder of ORACLE_ROLE.
UpdateRiskProfile(a, x) ==
  /\ Accepts(a, x, FullConfidence)
  /\ registry' = Write(registry, a, x, FullConfidence, now)
  /\ UNCHANGED <<registryPaused, now>>

\* batchUpdateRiskProfiles: the items in order, skipping those that fail.
\* A batch is written with two items (a zero address makes it shorter); a
\* longer batch is a run of such steps between which the clock stands still.
BatchUpdateRiskProfiles(a1, x1, a2, x2) ==
  /\ ~registryPaused
  /\ registry' = WriteItem(WriteItem(registry, a1, x1, now), a2, x2, now)
  /\ UNCHANGED <<registryPaused, now>>

RemoveRiskProfile(a) ==
  /\ ~registryPaused
  /\ registry.profiles[a].exists
  /\ registry' = Erase(registry, a)
  /\ UNCHANGED <<registryPaused, now>>

PauseRegistry ==
  /\ ~registryPaused
  /\ registryPaused' = TRUE
  /\ UNCHANGED <<registry, now>>

UnpauseRegistry ==
  /\ registryPaused
  /\ registryPaused' = FALSE
  /\ UNCHANGED <<registry, now>>

\* The next block.
Tick ==
  /\ now < MaxTime
  /\ now' = now + 1
  /\ UNCHANGED <<registry, registryPaused>>

RegistryNext ==
  \/ \E a \in Account, x \in Assessment : UpdateRiskProfile(a, x)
  \/ \E a1, a2 \in Account \cup {ZeroAddress}, x1, x2 \in Assessment :
       BatchUpdateRiskProfiles(a1, x1, a2, x2)
  \/ \E a \in Account : RemoveRiskProfile(a)
  \/ PauseRegistry
  \/ UnpauseRegistry
  \/ Tick

RegistrySpec == RegistryInit /\ [][RegistryNext]_registryVars

-----------------------------------------------------------------------------
(***************************************************************************)
(* Properties.                                                             *)
(***************************************************************************)

HighRiskAccounts == {a \in Account : IsHighRisk(registry.profiles[a])}
SanctionedAccounts == {a \in Account : registry.profiles[a].sanctioned}
KnownAccounts == {a \in Account : registry.profiles[a].exists}

\* getHighRiskAddresses and getSanctionedAddresses return exactly the addresses
\* whose profile says so, each once, after any mix of single writes, batches
\* with repeated addresses and removals; every index entry points at its
\* address, so the next swap-and-pop removes the right one.
ListsMatchProfiles ==
  /\ Enumerates(registry.highRisk, HighRiskAccounts)
  /\ Enumerates(registry.sanctioned, SanctionedAccounts)

\* totalProfiles counts the existing profiles, however often an address is
\* written, removed and written again.
ProfileCountExact == registry.totalProfiles = Cardinality(KnownAccounts)

\* A transaction never rewrites a profile within MIN_UPDATE_INTERVAL of its last
\* write in an earlier one.  Only a removal in between clears the interval.
RewriteInterval ==
  [][\A a \in Account :
       LET old == registry.profiles[a]
           new == registry'.profiles[a]
       IN  old.exists /\ new.exists /\ new # old
             => now - old.lastUpdated >= MinUpdateInterval]_registryVars

\* An address that a batch names twice is written once, with the first of its
\* assessments, unless that one is refused: the interval counts inside a
\* transaction too, where the clock stands still.
FirstItemDecides ==
  [][\A a \in Account, x1, x2 \in Assessment :
       BatchUpdateRiskProfiles(a, x1, a, x2) /\ ValidAssessment(x1)
         => registry' = WriteItem(registry, a, x1, now)]_registryVars
=============================================================================
