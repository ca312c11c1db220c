-------------------------- MODULE RiskOracleProofs --------------------------
(***************************************************************************)
(* The theorems about the risk registry and the two sides of its oracle,   *)
(* the consensus of many oracles and the requests to a decentralised       *)
(* oracle network, for any addresses, oracles, answers, intervals, stakes  *)
(* and sizes.                                                              *)
(*                                                                         *)
(* The registry: each list operation keeps "the list enumerates S" while   *)
(* it adds or removes one address; a write or a removal changes the set of *)
(* high-risk (of sanctioned) addresses by at most the address written; so  *)
(* one predicate of the registry value, RegistryInv, survives every write, *)
(* and a batch is two writes in a row.                                     *)
(*                                                                         *)
(* The consensus: a counter may be lower than the number of oracles that   *)
(* hold its response (a reset forgets the oracles that are off the list)   *)
(* but never higher, since a vote first gives back the oracle's previous   *)
(* one.  The threshold never exceeds the number of oracles, since every    *)
(* change of either keeps it below.  Both, with the types and the          *)
(* registry's own invariant, are inductive.  A stake that is there has     *)
(* been there since stakeTime, whatever was added or taken meanwhile.      *)
(*                                                                         *)
(* The requests: a position of a ring buffer has its slot to itself for a  *)
(* whole turn (SlotsDiffer), so the queue read from its head is a sequence *)
(* that grows at one end and shrinks at the other, and the ring of request *)
(* numbers holds the latest ones.  What each loop of the contract does, a  *)
(* fold, follows by induction from what one turn does.  The refinement of  *)
(* SanctionsFeed shows each step to be a step of the feed: an answer puts  *)
(* its addresses behind those that wait, as far as they fit.               *)
(***************************************************************************)
EXTENDS RiskOracleHistory, RiskOracleRequests, FiniteSetTheorems, SequenceTheorems, TLAPS

-----------------------------------------------------------------------------
(***************************************************************************)
(* PART 1: THE REGISTRY.                                                   *)
(***************************************************************************)

(***************************************************************************)
(* The list operations.                                                    *)
(***************************************************************************)

\* Empty storage enumerates no address.
LEMMA EmptyListEnumerates ==
  ASSUME NEW A
  PROVE  EmptyList(A) \in IndexedLists(A) /\ Enumerates(EmptyList(A), {})
BY DEF EmptyList, IndexedLists, Enumerates

\* Push adds an address that is not on the list.
LEMMA PushEnumerates ==
  ASSUME NEW A, NEW S \in SUBSET A, NEW l \in IndexedLists(A),
         Enumerates(l, S), NEW a \in A, a \notin S
  PROVE  /\ Push(l, a) \in IndexedLists(A)
         /\ Enumerates(Push(l, a), S \cup {a})
<1> DEFINE p == Push(l, a)
<1>1. /\ l.list \in Seq(A) /\ l.index \in [A -> Nat] /\ l.total \in Nat
      /\ l = [list |-> l.list, index |-> l.index, total |-> l.total]
  BY DEF IndexedLists
<1>2. /\ Len(l.list) \in Nat
      /\ Append(l.list, a) \in Seq(A)
      /\ Len(Append(l.list, a)) = Len(l.list) + 1
      /\ \A i \in 1 .. Len(l.list) : Append(l.list, a)[i] = l.list[i]
      /\ Append(l.list, a)[Len(l.list) + 1] = a
  BY <1>1, AppendProperties, LenProperties
<1>3. /\ p.list = Append(l.list, a)
      /\ p.index = [l.index EXCEPT ![a] = Len(l.list)]
      /\ p.total = l.total + 1
  BY DEF Push
<1>4. p \in IndexedLists(A)
  BY <1>1, <1>2 DEF Push, IndexedLists
<1>5. ASSUME NEW k \in 1 .. Len(p.list)
      PROVE  p.list[k] \in S \cup {a} /\ p.index[p.list[k]] = k - 1
  <2>1. CASE k = Len(l.list) + 1
    BY <1>1, <1>2, <1>3, <2>1
  <2>2. CASE k \in 1 .. Len(l.list)
    <3>1. p.list[k] = l.list[k] /\ l.list[k] \in S /\ l.index[l.list[k]] = k - 1
      BY <1>2, <1>3, <2>2 DEF Enumerates
    <3> QED BY <1>1, <1>3, <3>1
  <2> QED BY <1>2, <1>3, <2>1, <2>2
<1>6. ASSUME NEW b \in S \cup {a}
      PROVE  p.index[b] < Len(p.list) /\ p.list[p.index[b] + 1] = b
  <2>1. CASE b = a
    BY <1>1, <1>2, <1>3, <2>1
  <2>2. CASE b \in S
    <3>1. /\ l.index[b] \in Nat /\ l.index[b] < Len(l.list)
          /\ l.list[l.index[b] + 1] = b
      BY <1>1, <2>2 DEF Enumerates
    <3>2. p.index[b] = l.index[b]
      BY <1>1, <1>3, <2>2
    <3> QED BY <1>2, <1>3, <3>1, <3>2
  <2> QED BY <2>1, <2>2
<1>7. p.total = Len(p.list)
  BY <1>2, <1>3 DEF Enumerates
<1> QED BY <1>4, <1>5, <1>6, <1>7 DEF Enumerates

\* Swap and pop removes an address that is on the list, and no other.
LEMMA SwapAndPopEnumerates ==
  ASSUME NEW A, NEW S \in SUBSET A, NEW l \in IndexedLists(A),
         Enumerates(l, S), NEW a \in S
  PROVE  /\ SwapAndPop(l, a) \in IndexedLists(A)
         /\ Enumerates(SwapAndPop(l, a), S \ {a})
<1> DEFINE i    == l.index[a]
           last == Len(l.list) - 1
           z    == l.list[last + 1]
           moved     == [l.list EXCEPT ![i + 1] = z]
           reindexed == IF i # last THEN [l.index EXCEPT ![z] = i] ELSE l.index
           p    == SwapAndPop(l, a)
<1>1. /\ l.list \in Seq(A) /\ l.index \in [A -> Nat] /\ l.total \in Nat
      /\ Len(l.list) \in Nat /\ l.list \in [1 .. Len(l.list) -> A]
  BY LenProperties DEF IndexedLists
<1>2. /\ i \in Nat /\ i < Len(l.list) /\ l.list[i + 1] = a
      /\ last \in Nat /\ Len(l.list) = last + 1 /\ last + 1 \in 1 .. Len(l.list)
  BY <1>1 DEF Enumerates
<1>3. z \in S /\ z \in A /\ l.index[z] = last
  BY <1>1, <1>2 DEF Enumerates
<1>4. moved \in [1 .. Len(l.list) -> A]
  BY <1>1, <1>2, <1>3
<1>5. /\ \A k \in 1 .. last : moved[k] \in A
      /\ \A k \in 1 .. last : moved[k] = IF k = i + 1 THEN z ELSE l.list[k]
  BY <1>1, <1>2, <1>4
<1>6. /\ SubSeq(moved, 1, last) \in Seq(A)
      /\ Len(SubSeq(moved, 1, last)) = last
      /\ \A k \in 1 .. last : SubSeq(moved, 1, last)[k] = moved[k]
  <2>1. 1 \in Int /\ last \in Int
    BY <1>2
  <2>2. /\ SubSeq(moved, 1, last) \in Seq(A)
        /\ Len(SubSeq(moved, 1, last)) = IF 1 <= last THEN last - 1 + 1 ELSE 0
        /\ \A k \in 1 .. last - 1 + 1 : SubSeq(moved, 1, last)[k] = moved[1 + k - 1]
    BY <1>5, <2>1, SubSeqProperties
  <2> QED BY <1>2, <2>2
<1>7. /\ p.list = SubSeq(moved, 1, last)
      /\ p.index = [reindexed EXCEPT ![a] = 0]
      /\ p.total = IF l.total > 0 THEN l.total - 1 ELSE 0
      /\ p = [list |-> p.list, index |-> p.index, total |-> p.total]
  BY DEF SwapAndPop
<1>8. reindexed \in [A -> Nat]
  BY <1>1, <1>2, <1>3
<1>9. p.index \in [A -> Nat] /\ p.total \in Nat /\ p.total = last
  <2>1. l.total = last + 1
    BY <1>2 DEF Enumerates
  <2>2. p.total = last
    BY <1>1, <1>2, <1>7, <2>1
  <2>3. p.index \in [A -> Nat]
    BY <1>7, <1>8
  <2> QED BY <1>2, <2>2, <2>3
<1>10. p \in IndexedLists(A)
  BY <1>6, <1>7, <1>9 DEF IndexedLists
<1>11. \A b \in A : b # a => p.index[b] = IF i # last /\ b = z THEN i ELSE l.index[b]
  BY <1>1, <1>2, <1>3, <1>7, <1>8
<1>12. i # last => z # a
  BY <1>1, <1>2, <1>3
<1>13. ASSUME NEW k \in 1 .. Len(p.list)
       PROVE  p.list[k] \in S \ {a} /\ p.index[p.list[k]] = k - 1
  <2>1. k \in 1 .. last /\ p.list[k] = moved[k]
    BY <1>6, <1>7
  <2>2. CASE k = i + 1
    <3>1. p.list[k] = z /\ i # last
      BY <1>2, <1>5, <2>1, <2>2
    <3> QED BY <1>2, <1>3, <1>11, <1>12, <2>2, <3>1
  <2>3. CASE k # i + 1
    <3>1. p.list[k] = l.list[k]
      BY <1>5, <2>1, <2>3
    <3>2. l.list[k] \in S /\ l.index[l.list[k]] = k - 1 /\ l.list[k] \in A
      BY <1>2, <2>1 DEF Enumerates
    <3>3. l.list[k] # a /\ l.list[k] # z
      BY <1>2, <1>3, <2>1, <2>3, <3>2
    <3> QED BY <1>11, <3>1, <3>2, <3>3
  <2> QED BY <2>2, <2>3
<1>14. ASSUME NEW b \in S \ {a}
       PROVE  p.index[b] < Len(p.list) /\ p.list[p.index[b] + 1] = b
  <2>1. b \in A /\ l.index[b] \in Nat /\ l.index[b] < Len(l.list) /\ l.list[l.index[b] + 1] = b
    BY <1>1 DEF Enumerates
  <2>2. l.index[b] # i
    BY <1>2, <2>1
  <2>3. CASE b = z
    <3>1. i # last /\ i < last /\ p.index[b] = i
      BY <1>2, <1>3, <1>11, <2>1, <2>2, <2>3
    <3> QED BY <1>2, <1>5, <1>6, <1>7, <2>3, <3>1
  <2>4. CASE b # z
    <3>1. p.index[b] = l.index[b]
      BY <1>11, <2>1, <2>4
    <3>2. l.index[b] # last
      BY <1>2, <2>1, <2>4
    <3>3. l.index[b] + 1 \in 1 .. last /\ l.index[b] + 1 # i + 1
      BY <1>2, <2>1, <2>2, <3>2
    <3> QED BY <1>5, <1>6, <1>7, <2>1, <3>1, <3>3
  <2> QED BY <2>3, <2>4
<1> QED BY <1>6, <1>7, <1>9, <1>10, <1>13, <1>14 DEF Enumerates

\* A write leaves the list enumerating the set with the address in or out.
LEMMA RelistEnumerates ==
  ASSUME NEW A, NEW S \in SUBSET A, NEW l \in IndexedLists(A),
         Enumerates(l, S), NEW a \in A,
         NEW was \in BOOLEAN, NEW is \in BOOLEAN, was <=> a \in S
  PROVE  /\ Relist(l, a, was, is) \in IndexedLists(A)
         /\ Enumerates(Relist(l, a, was, is), IF is THEN S \cup {a} ELSE S \ {a})
<1>1. CASE is /\ ~was
  <2>1. Relist(l, a, was, is) = Push(l, a)
    BY <1>1 DEF Relist
  <2>2. a \notin S
    BY <1>1
  <2>3. Push(l, a) \in IndexedLists(A) /\ Enumerates(Push(l, a), S \cup {a})
    BY <2>2, PushEnumerates
  <2> QED BY <1>1, <2>1, <2>3
<1>2. CASE ~is /\ was
  <2>1. Relist(l, a, was, is) = SwapAndPop(l, a)
    BY <1>2 DEF Relist
  <2>2. a \in S
    BY <1>2
  <2>3. SwapAndPop(l, a) \in IndexedLists(A) /\ Enumerates(SwapAndPop(l, a), S \ {a})
    BY <2>2, SwapAndPopEnumerates
  <2> QED BY <1>2, <2>1, <2>3
<1>3. CASE is /\ was
  <2>1. S \cup {a} = S /\ Relist(l, a, was, is) = l
    BY <1>3 DEF Relist
  <2> QED BY <1>3, <2>1
<1>4. CASE ~is /\ ~was
  <2>1. S \ {a} = S /\ Relist(l, a, was, is) = l
    BY <1>4 DEF Relist
  <2> QED BY <1>4, <2>1
<1> QED BY <1>1, <1>2, <1>3, <1>4

-----------------------------------------------------------------------------
(***************************************************************************)
(* The value of the registry.                                              *)
(***************************************************************************)

HighRiskOf(r)   == {a \in Account : IsHighRisk(r.profiles[a])}
SanctionedOf(r) == {a \in Account : r.profiles[a].sanctioned}
KnownOf(r)      == {a \in Account : r.profiles[a].exists}

\* The lists and the counter agree with the profiles.
RegistryInv(r) ==
  /\ r \in Registry
  /\ Enumerates(r.highRisk, HighRiskOf(r))
  /\ Enumerates(r.sanctioned, SanctionedOf(r))
  /\ r.totalProfiles = Cardinality(KnownOf(r))

\* Finitely many addresses have a profile.
LEMMA KnownFinite ==
  ASSUME NEW r
  PROVE  IsFiniteSet(KnownOf(r))
BY RegistryAssumption, FS_Subset DEF KnownOf

\* The initial registry: no profile and two empty lists.
LEMMA RegistryInitInv == RegistryInit => RegistryInv(registry)
<1> SUFFICES ASSUME RegistryInit PROVE RegistryInv(registry)
  OBVIOUS
<1>1. /\ registry.profiles = [a \in Account |-> NoProfile]
      /\ registry.highRisk = EmptyList(Account)
      /\ registry.sanctioned = EmptyList(Account)
      /\ registry.totalProfiles = 0
  BY DEF RegistryInit
<1>2. NoProfile \in Profile
  BY DEF NoProfile, Profile
<1>3. registry \in Registry
  BY <1>2, EmptyListEnumerates DEF RegistryInit, Registry
<1>4. \A a \in Account : registry.profiles[a] = NoProfile
  BY <1>1
<1>5. HighRiskOf(registry) = {} /\ SanctionedOf(registry) = {} /\ KnownOf(registry) = {}
  BY <1>4 DEF HighRiskOf, SanctionedOf, KnownOf, IsHighRisk, HighRiskScore, NoProfile
<1>6. Cardinality({}) = 0
  BY FS_EmptySet
<1> QED BY <1>1, <1>3, <1>5, <1>6, EmptyListEnumerates DEF RegistryInv

\* A new profile in the entry of one address, with the lists and the counter
\* the code derives from the old one.
LEMMA ReplaceKeepsInv ==
  ASSUME NEW r, RegistryInv(r), NEW a \in Account, NEW new \in Profile, NEW n \in Nat,
         n = Cardinality(KnownOf([r EXCEPT !.profiles[a] = new])),
         NEW q, q = [profiles |-> [r.profiles EXCEPT ![a] = new],
                     highRisk |-> Relist(r.highRisk, a, IsHighRisk(r.profiles[a]), IsHighRisk(new)),
                     sanctioned |-> Relist(r.sanctioned, a, r.profiles[a].sanctioned, new.sanctioned),
                     totalProfiles |-> n]
  PROVE  RegistryInv(q)
<1>1. /\ r.profiles \in [Account -> Profile]
      /\ r.highRisk \in IndexedLists(Account)
      /\ r.sanctioned \in IndexedLists(Account)
      /\ r \in Registry
  BY DEF RegistryInv, Registry
<1>2. /\ q.profiles = [r.profiles EXCEPT ![a] = new]
      /\ q.profiles \in [Account -> Profile]
      /\ q.profiles[a] = new
      /\ \A b \in Account \ {a} : q.profiles[b] = r.profiles[b]
  BY <1>1
<1>3. /\ IsHighRisk(new) \in BOOLEAN /\ new.sanctioned \in BOOLEAN
      /\ IsHighRisk(r.profiles[a]) \in BOOLEAN /\ r.profiles[a].sanctioned \in BOOLEAN
  BY <1>1 DEF Profile, IsHighRisk
<1>4. HighRiskOf(q) = IF IsHighRisk(new) THEN HighRiskOf(r) \cup {a} ELSE HighRiskOf(r) \ {a}
  BY <1>2 DEF HighRiskOf
<1>5. SanctionedOf(q) = IF new.sanctioned THEN SanctionedOf(r) \cup {a} ELSE SanctionedOf(r) \ {a}
  BY <1>2 DEF SanctionedOf
<1>6. q.highRisk \in IndexedLists(Account) /\ Enumerates(q.highRisk, HighRiskOf(q))
  <2>1. HighRiskOf(r) \in SUBSET Account /\ Enumerates(r.highRisk, HighRiskOf(r))
    BY DEF HighRiskOf, RegistryInv
  <2>2. IsHighRisk(r.profiles[a]) <=> a \in HighRiskOf(r)
    BY DEF HighRiskOf
  <2>3. LET p == Relist(r.highRisk, a, IsHighRisk(r.profiles[a]), IsHighRisk(new))
        IN  /\ p \in IndexedLists(Account)
            /\ Enumerates(p, IF IsHighRisk(new) THEN HighRiskOf(r) \cup {a} ELSE HighRiskOf(r) \ {a})
    BY <1>1, <1>3, <2>1, <2>2, RelistEnumerates, Zenon
  <2> QED BY <1>4, <2>3
<1>7. q.sanctioned \in IndexedLists(Account) /\ Enumerates(q.sanctioned, SanctionedOf(q))
  <2>1. SanctionedOf(r) \in SUBSET Account /\ Enumerates(r.sanctioned, SanctionedOf(r))
    BY DEF SanctionedOf, RegistryInv
  <2>2. r.profiles[a].sanctioned <=> a \in SanctionedOf(r)
    BY DEF SanctionedOf
  <2>3. LET p == Relist(r.sanctioned, a, r.profiles[a].sanctioned, new.sanctioned)
        IN  /\ p \in IndexedLists(Account)
            /\ Enumerates(p, IF new.sanctioned THEN SanctionedOf(r) \cup {a} ELSE SanctionedOf(r) \ {a})
    BY <1>1, <1>3, <2>1, <2>2, RelistEnumerates, Zenon
  <2> QED BY <1>5, <2>3
<1>8. q.totalProfiles = Cardinality(KnownOf(q))
  <2>1. [r EXCEPT !.profiles[a] = new].profiles = q.profiles
    BY <1>1, <1>2 DEF Registry
  <2> QED BY <2>1 DEF KnownOf
<1>9. q \in Registry
  BY <1>2, <1>6, <1>7 DEF Registry
<1> QED BY <1>6, <1>7, <1>8, <1>9 DEF RegistryInv

\* The shared write, with any confidence and at any time.
LEMMA WriteKeepsInv ==
  ASSUME NEW r, RegistryInv(r), NEW a \in Account, NEW x \in AssessmentType,
         NEW c \in 0 .. 255, NEW t \in Nat
  PROVE  RegistryInv(Write(r, a, x, c, t))
<1> DEFINE new == [score |-> x.score, tier |-> x.tier, sanctioned |-> x.sanctioned,
                   confidence |-> c, lastUpdated |-> t, exists |-> TRUE]
           q == Write(r, a, x, c, t)
           changed == [r EXCEPT !.profiles[a] = new]
<1>1. new \in Profile
  BY DEF AssessmentType, Profile
<1>2. r \in Registry /\ r.profiles \in [Account -> Profile] /\ r.totalProfiles \in Nat
  BY DEF RegistryInv, Registry
<1>3. changed.profiles = [r.profiles EXCEPT ![a] = new]
  BY <1>2 DEF Registry
<1>4. KnownOf(changed) = KnownOf(r) \cup {a}
  BY <1>2, <1>3 DEF KnownOf
<1>5. q.totalProfiles = Cardinality(KnownOf(changed)) /\ q.totalProfiles \in Nat
  <2>1. q.totalProfiles = IF r.profiles[a].exists THEN r.totalProfiles ELSE r.totalProfiles + 1
    BY DEF Write
  <2>2. r.totalProfiles = Cardinality(KnownOf(r)) /\ (r.profiles[a].exists <=> a \in KnownOf(r))
    BY DEF RegistryInv, KnownOf
  <2>3. Cardinality(KnownOf(r) \cup {a})
          = IF a \in KnownOf(r) THEN Cardinality(KnownOf(r)) ELSE Cardinality(KnownOf(r)) + 1
    BY KnownFinite, FS_AddElement
  <2> HIDE DEF q, changed
  <2>4. Cardinality(KnownOf(changed))
          = IF r.profiles[a].exists THEN r.totalProfiles ELSE r.totalProfiles + 1
    BY <1>4, <2>2, <2>3
  <2> QED BY <1>2, <2>1, <2>4
<1>6. q = [profiles |-> [r.profiles EXCEPT ![a] = new],
           highRisk |-> Relist(r.highRisk, a, IsHighRisk(r.profiles[a]), IsHighRisk(new)),
           sanctioned |-> Relist(r.sanctioned, a, r.profiles[a].sanctioned, new.sanctioned),
           totalProfiles |-> q.totalProfiles]
  BY DEF Write
<1> HIDE DEF new, q, changed
<1>7. RegistryInv(q)
  BY <1>1, <1>5, <1>6, ReplaceKeepsInv, Zenon DEF changed
<1> QED BY <1>7 DEF q

\* One turn of the batch loop, whatever the item.
LEMMA WriteItemKeepsInv ==
  ASSUME NEW r, RegistryInv(r), NEW a \in Account \cup {ZeroAddress},
         NEW x \in Assessment, NEW t \in Nat
  PROVE  RegistryInv(WriteItem(r, a, x, t))
<1>1. x \in AssessmentType /\ FullConfidence \in 0 .. 255
  BY RegistryAssumption DEF FullConfidence
<1>2. a \in Account => RegistryInv(Write(r, a, x, FullConfidence, t))
  BY <1>1, WriteKeepsInv
<1> QED BY <1>2 DEF WriteItem

\* The removal of a profile that exists.
LEMMA EraseKeepsInv ==
  ASSUME NEW r, RegistryInv(r), NEW a \in Account, r.profiles[a].exists
  PROVE  RegistryInv(Erase(r, a))
<1> DEFINE q == Erase(r, a)
           changed == [r EXCEPT !.profiles[a] = NoProfile]
<1>1. NoProfile \in Profile /\ ~NoProfile.exists /\ IsHighRisk(NoProfile) = FALSE
      /\ NoProfile.sanctioned = FALSE
  BY DEF NoProfile, Profile, IsHighRisk, HighRiskScore
<1>2. r \in Registry /\ r.profiles \in [Account -> Profile] /\ r.totalProfiles \in Nat
  BY DEF RegistryInv, Registry
<1>3. changed.profiles = [r.profiles EXCEPT ![a] = NoProfile]
  BY <1>2 DEF Registry
<1>4. KnownOf(changed) = KnownOf(r) \ {a}
  BY <1>1, <1>2, <1>3 DEF KnownOf
<1>5. q.totalProfiles = Cardinality(KnownOf(changed)) /\ q.totalProfiles \in Nat
  <2>1. q.totalProfiles = IF r.totalProfiles > 0 THEN r.totalProfiles - 1 ELSE 0
    BY DEF Erase
  <2>2. r.totalProfiles = Cardinality(KnownOf(r)) /\ a \in KnownOf(r)
    BY DEF RegistryInv, KnownOf
  <2>3. Cardinality(KnownOf(r) \ {a}) = Cardinality(KnownOf(r)) - 1
    BY <2>2, KnownFinite, FS_RemoveElement
  <2>4. Cardinality(KnownOf(r)) # 0
    BY <2>2, KnownFinite, FS_EmptySet
  <2> HIDE DEF q, changed
  <2>5. Cardinality(KnownOf(changed)) = r.totalProfiles - 1 /\ r.totalProfiles # 0
    BY <1>4, <2>2, <2>3, <2>4
  <2> QED BY <1>2, <2>1, <2>5
<1>6. q = [profiles |-> [r.profiles EXCEPT ![a] = NoProfile],
           highRisk |-> Relist(r.highRisk, a, IsHighRisk(r.profiles[a]), IsHighRisk(NoProfile)),
           sanctioned |-> Relist(r.sanctioned, a, r.profiles[a].sanctioned, NoProfile.sanctioned),
           totalProfiles |-> q.totalProfiles]
  BY <1>1 DEF Erase
<1> HIDE DEF q, changed
<1>7. RegistryInv(q)
  BY <1>1, <1>5, <1>6, ReplaceKeepsInv, Zenon DEF changed
<1> QED BY <1>7 DEF q

-----------------------------------------------------------------------------
(***************************************************************************)
(* The theorems.                                                           *)
(***************************************************************************)

\* The inductive invariant: every reachable registry is consistent.
RegistryIInv ==
  /\ RegistryInv(registry)
  /\ registryPaused \in BOOLEAN
  /\ now \in Nat

\* Every transaction keeps the invariant.
LEMMA RegistryStepInv == RegistryIInv /\ [RegistryNext]_registryVars => RegistryIInv'
<1> SUFFICES ASSUME RegistryIInv, [RegistryNext]_registryVars PROVE RegistryIInv'
  OBVIOUS
<1> USE DEF RegistryIInv
<1>1. ASSUME NEW a \in Account, NEW x \in Assessment, UpdateRiskProfile(a, x)
      PROVE  RegistryIInv'
  <2>1. x \in AssessmentType /\ FullConfidence \in 0 .. 255
    BY RegistryAssumption DEF FullConfidence
  <2>2. RegistryInv(Write(registry, a, x, FullConfidence, now))
    BY <2>1, WriteKeepsInv
  <2> QED BY <1>1, <2>2 DEF UpdateRiskProfile, RegistryInv, HighRiskOf, SanctionedOf, KnownOf
<1>2. ASSUME NEW a1 \in Account \cup {ZeroAddress}, NEW a2 \in Account \cup {ZeroAddress},
             NEW x1 \in Assessment, NEW x2 \in Assessment,
             BatchUpdateRiskProfiles(a1, x1, a2, x2)
      PROVE  RegistryIInv'
  <2> DEFINE mid == WriteItem(registry, a1, x1, now)
  <2>1. RegistryInv(mid)
    BY WriteItemKeepsInv
  <2> HIDE DEF mid
  <2>2. RegistryInv(WriteItem(mid, a2, x2, now))
    BY <2>1, WriteItemKeepsInv
  <2> QED BY <1>2, <2>2 DEF mid, BatchUpdateRiskProfiles, RegistryInv, HighRiskOf, SanctionedOf, KnownOf
<1>3. ASSUME NEW a \in Account, RemoveRiskProfile(a)
      PROVE  RegistryIInv'
  <2>1. RegistryInv(Erase(registry, a))
    BY <1>3, EraseKeepsInv DEF RemoveRiskProfile
  <2> QED BY <1>3, <2>1 DEF RemoveRiskProfile, RegistryInv, HighRiskOf, SanctionedOf, KnownOf
<1>4. CASE PauseRegistry \/ UnpauseRegistry
  BY <1>4 DEF PauseRegistry, UnpauseRegistry, RegistryInv, HighRiskOf, SanctionedOf, KnownOf
<1>5. CASE Tick
  <2>1. now + 1 \in Nat
    OBVIOUS
  <2> QED BY <1>5, <2>1 DEF Tick, RegistryInv, HighRiskOf, SanctionedOf, KnownOf
<1>6. CASE UNCHANGED registryVars
  BY <1>6 DEF registryVars, RegistryInv, HighRiskOf, SanctionedOf, KnownOf
<1> QED BY <1>1, <1>2, <1>3, <1>4, <1>5, <1>6 DEF RegistryNext

\* The invariant holds initially.
LEMMA RegistryInitIInv == RegistryInit => RegistryIInv
<1>1. RegistryInit => registryPaused = FALSE /\ now = 2
  BY Zenon DEF RegistryInit
<1>2. 2 \in Nat
  OBVIOUS
<1> QED BY <1>1, <1>2, RegistryInitInv, Zenon DEF RegistryIInv

\* The invariant holds of every behaviour.
LEMMA RegistryInvariant == RegistrySpec => []RegistryIInv
BY RegistryInitIInv, RegistryStepInv, PTL DEF RegistrySpec

\* The storage of RiskRegistry.sol stays well-typed: scores and confidences
\* fit their 8 bits, list entries are addresses, counters do not underflow.
THEOREM RegistryTypeSafety == RegistrySpec => []RegistryTypeOK
<1>1. RegistryIInv => RegistryTypeOK
  BY DEF RegistryIInv, RegistryInv, RegistryTypeOK
<1> QED BY <1>1, RegistryInvariant, PTL

\* getHighRiskAddresses and getSanctionedAddresses are exact whatever the
\* addresses, the assessments and the order of the calls.
THEOREM ListsAlwaysMatch == RegistrySpec => []ListsMatchProfiles
<1>1. RegistryIInv => ListsMatchProfiles
  BY DEF RegistryIInv, RegistryInv, ListsMatchProfiles, HighRiskOf, SanctionedOf,
         HighRiskAccounts, SanctionedAccounts
<1> QED BY <1>1, RegistryInvariant, PTL

\* totalProfiles is the number of existing profiles.
THEOREM ProfileCountAlwaysExact == RegistrySpec => []ProfileCountExact
<1>1. RegistryIInv => ProfileCountExact
  BY DEF RegistryIInv, RegistryInv, ProfileCountExact, KnownOf, KnownAccounts
<1> QED BY <1>1, RegistryInvariant, PTL

\* One turn of the batch loop changes an existing profile only if its last
\* write is old enough.
LEMMA WriteItemSpaced ==
  ASSUME NEW r, RegistryInv(r), NEW b \in Account \cup {ZeroAddress},
         NEW x \in Assessment, NEW t \in Nat, NEW a \in Account,
         r.profiles[a].exists, WriteItem(r, b, x, t).profiles[a] # r.profiles[a]
  PROVE  t - r.profiles[a].lastUpdated >= MinUpdateInterval
<1>1. r.profiles \in [Account -> Profile]
  BY DEF RegistryInv, Registry
<1>2. b \in Account /\ ~TooFrequent(r, b, t)
  BY DEF WriteItem
<1>3. WriteItem(r, b, x, t).profiles =
        [r.profiles EXCEPT ![b] =
           [score |-> x.score, tier |-> x.tier, sanctioned |-> x.sanctioned,
            confidence |-> FullConfidence, lastUpdated |-> t, exists |-> TRUE]]
  BY DEF WriteItem, Write
<1>4. a = b
  BY <1>1, <1>3
<1>5. r.profiles[a].lastUpdated \in Nat
  BY <1>1 DEF Profile
<1> QED BY <1>2, <1>4, <1>5, RegistryAssumption DEF TooFrequent

\* No transaction rewrites a profile within MIN_UPDATE_INTERVAL of its last write
\* in an earlier one.
THEOREM RewritesSpaced == RegistrySpec => RewriteInterval
<1> DEFINE Spaced ==
      \A a \in Account :
        LET old == registry.profiles[a]
            new == registry'.profiles[a]
        IN  old.exists /\ new.exists /\ new # old
              => now - old.lastUpdated >= MinUpdateInterval
<1>1. ASSUME RegistryIInv, [RegistryNext]_registryVars
      PROVE  Spaced
  <2> SUFFICES ASSUME NEW a \in Account,
                      registry.profiles[a].exists, registry'.profiles[a].exists,
                      registry'.profiles[a] # registry.profiles[a]
               PROVE  now - registry.profiles[a].lastUpdated >= MinUpdateInterval
    OBVIOUS
  <2> USE <1>1 DEF RegistryIInv
  <2>1. registry.profiles \in [Account -> Profile]
    BY DEF RegistryInv, Registry
  <2>2. ASSUME NEW b \in Account, NEW x \in Assessment, UpdateRiskProfile(b, x)
        PROVE  now - registry.profiles[a].lastUpdated >= MinUpdateInterval
    <3>1. registry' = WriteItem(registry, b, x, now)
      BY <2>2 DEF UpdateRiskProfile, Accepts, WriteItem
    <3> QED BY <3>1, WriteItemSpaced
  <2>3. ASSUME NEW a1 \in Account \cup {ZeroAddress}, NEW a2 \in Account \cup {ZeroAddress},
               NEW x1 \in Assessment, NEW x2 \in Assessment,
               BatchUpdateRiskProfiles(a1, x1, a2, x2)
        PROVE  now - registry.profiles[a].lastUpdated >= MinUpdateInterval
    <3> DEFINE mid == WriteItem(registry, a1, x1, now)
    <3>1. RegistryInv(mid)
      BY WriteItemKeepsInv
    <3>2. registry' = WriteItem(mid, a2, x2, now)
      BY <2>3 DEF BatchUpdateRiskProfiles
    <3>3. CASE mid.profiles[a] # registry.profiles[a]
      BY <3>3, WriteItemSpaced
    <3>4. CASE mid.profiles[a] = registry.profiles[a]
      <4> HIDE DEF mid
      <4>1. mid.profiles[a].exists /\ WriteItem(mid, a2, x2, now).profiles[a] # mid.profiles[a]
        BY <3>2, <3>4
      <4>2. now - mid.profiles[a].lastUpdated >= MinUpdateInterval
        BY <3>1, <4>1, WriteItemSpaced
      <4> QED BY <3>4, <4>2
    <3> QED BY <3>3, <3>4
  <2>4. ASSUME NEW b \in Account, RemoveRiskProfile(b) PROVE FALSE
    <3>1. registry'.profiles = [registry.profiles EXCEPT ![b] = NoProfile]
      BY <2>4 DEF RemoveRiskProfile, Erase
    <3> QED BY <2>1, <3>1 DEF NoProfile
  <2>5. CASE PauseRegistry \/ UnpauseRegistry \/ Tick \/ UNCHANGED registryVars
    BY <2>5 DEF PauseRegistry, UnpauseRegistry, Tick, registryVars
  <2> QED BY <2>2, <2>3, <2>4, <2>5 DEF RegistryNext
<1>2. RegistryIInv /\ [RegistryNext]_registryVars => [Spaced]_registryVars
  BY <1>1
<1> QED BY <1>2, RegistryInvariant, PTL DEF RegistrySpec, RewriteInterval

\* After the turn of an address, a second turn in the same batch is skipped: the
\* first wrote it just now, or it had been written too lately for both.
LEMMA SecondTurnSkipped ==
  ASSUME NEW r, RegistryInv(r), NEW a \in Account, NEW t \in Nat,
         NEW x1 \in Assessment, NEW x2 \in Assessment, ValidAssessment(x1)
  PROVE  WriteItem(WriteItem(r, a, x1, t), a, x2, t) = WriteItem(r, a, x1, t)
<1>1. CASE TooFrequent(r, a, t)
  BY <1>1 DEF WriteItem
<1>2. CASE ~TooFrequent(r, a, t)
  <2> DEFINE first == WriteItem(r, a, x1, t)
  <2>1. first = Write(r, a, x1, FullConfidence, t)
    BY <1>2 DEF WriteItem
  <2>2. first.profiles[a].exists /\ first.profiles[a].lastUpdated = t
    BY <2>1 DEF Write, RegistryInv, Registry
  <2>3. TooFrequent(first, a, t)
    BY <2>2, t - t = 0, RegistryAssumption DEF TooFrequent
  <2> QED BY <2>3 DEF WriteItem
<1> QED BY <1>1, <1>2

\* An address that a batch names twice is written once, as its first valid item says.
THEOREM RepeatedItemsSkipped == RegistrySpec => FirstItemDecides
<1> DEFINE FirstDecides ==
      \A a \in Account, x1, x2 \in Assessment :
        BatchUpdateRiskProfiles(a, x1, a, x2) /\ ValidAssessment(x1)
          => registry' = WriteItem(registry, a, x1, now)
<1>1. ASSUME RegistryIInv PROVE FirstDecides
  BY <1>1, SecondTurnSkipped DEF RegistryIInv, BatchUpdateRiskProfiles
<1>2. RegistryIInv /\ [RegistryNext]_registryVars => [FirstDecides]_registryVars
  BY <1>1
<1> QED BY <1>2, RegistryInvariant, PTL DEF RegistrySpec, FirstItemDecides

-----------------------------------------------------------------------------
(***************************************************************************)
(* PART 2: THE CONSENSUS.                                                  *)
(***************************************************************************)

(***************************************************************************)
(* The votes on one account: f is what each oracle reported, c counts.     *)
(***************************************************************************)

Holders(f, r) == {o \in Oracle : f[o] = r}

\* The counters without o's vote, with o's vote for r, and the counters and
\* the responses when those of the oracles L are cleared.
Withdrawn(f, c, o) == IF f[o] = NoResponse THEN c ELSE [c EXCEPT ![f[o]] = @ - 1]
Counted(f, c, o, r) == [Withdrawn(f, c, o) EXCEPT ![r] = @ + 1]
ClearedCounts(f, c, L) == [r \in Response |-> IF r \in {f[o] : o \in L} THEN 0 ELSE c[r]]
ClearedResponses(f, L) == [o \in Oracle |-> IF o \in L THEN NoResponse ELSE f[o]]

Backed(f, c) == \A r \in Response : c[r] <= Cardinality(Holders(f, r))

\* Finitely many oracles hold a response.
LEMMA HoldersFinite ==
  ASSUME NEW f, NEW r
  PROVE  IsFiniteSet(Holders(f, r)) /\ Cardinality(Holders(f, r)) \in Nat
BY ConsensusAssumption, FS_Subset, FS_CardinalityType DEF Holders

\* A vote gives back the previous one before it counts.
LEMMA VoteKeepsBacked ==
  ASSUME NEW f \in [Oracle -> Response \cup {NoResponse}], NEW c \in [Response -> Nat],
         Backed(f, c), NEW o \in Oracle, NEW r \in Response,
         f[o] # NoResponse => c[f[o]] > 0
  PROVE  /\ [f EXCEPT ![o] = r] \in [Oracle -> Response \cup {NoResponse}]
         /\ Withdrawn(f, c, o) \in [Response -> Nat]
         /\ Counted(f, c, o, r) \in [Response -> Nat]
         /\ Backed([f EXCEPT ![o] = r], Counted(f, c, o, r))
<1> DEFINE g == [f EXCEPT ![o] = r]
           d == Withdrawn(f, c, o)
           e == Counted(f, c, o, r)
<1> USE DEF Withdrawn, Counted
<1>1. g \in [Oracle -> Response \cup {NoResponse}]
  OBVIOUS
<1>2. d \in [Response -> Nat]
  OBVIOUS
<1>3. e \in [Response -> Nat]
  BY <1>2
<1>4. ASSUME NEW s \in Response
      PROVE  e[s] <= Cardinality(Holders(g, s))
  <2> DEFINE H == Holders(f, s)
  <2>1. c[s] \in Nat /\ c[s] <= Cardinality(H)
    BY DEF Backed
  <2>2. f[o] = s <=> o \in H
    BY DEF Holders
  <2>3. /\ Cardinality(H) \in Nat
        /\ Cardinality(H \cup {o}) = IF o \in H THEN Cardinality(H) ELSE Cardinality(H) + 1
        /\ Cardinality(H \ {o}) = IF o \in H THEN Cardinality(H) - 1 ELSE Cardinality(H)
    BY HoldersFinite, FS_AddElement, FS_RemoveElement
  <2>4. d[s] = IF f[o] = s THEN c[s] - 1 ELSE c[s]
    BY ConsensusAssumption
  <2>5. d[s] <= Cardinality(H \ {o}) /\ d[s] + 1 <= Cardinality(H \cup {o}) /\ d[s] \in Int
    <3> HIDE DEF H
    <3>1. CASE o \in H
      BY <2>1, <2>2, <2>3, <2>4, <3>1
    <3>2. CASE o \notin H
      BY <2>1, <2>2, <2>3, <2>4, <3>2
    <3> QED BY <3>1, <3>2
  <2>6. CASE s = r
    <3>1. Holders(g, s) = H \cup {o}
      BY <2>6 DEF Holders
    <3>2. e[s] = d[s] + 1
      BY <1>2, <2>6
    <3> QED BY <2>5, <3>1, <3>2
  <2>7. CASE s # r
    <3>1. Holders(g, s) = H \ {o}
      BY <2>7 DEF Holders
    <3>2. e[s] = d[s]
      BY <1>2, <2>7
    <3> QED BY <2>5, <3>1, <3>2
  <2> QED BY <2>6, <2>7
<1> QED BY <1>1, <1>2, <1>3, <1>4 DEF Backed

\* A reset clears the responses of the listed oracles L and their counters.
LEMMA ResetKeepsBacked ==
  ASSUME NEW f \in [Oracle -> Response \cup {NoResponse}], NEW c \in [Response -> Nat],
         Backed(f, c), NEW L \in SUBSET Oracle
  PROVE  /\ ClearedResponses(f, L) \in [Oracle -> Response \cup {NoResponse}]
         /\ ClearedCounts(f, c, L) \in [Response -> Nat]
         /\ Backed(ClearedResponses(f, L), ClearedCounts(f, c, L))
<1> DEFINE g == ClearedResponses(f, L)
           e == ClearedCounts(f, c, L)
<1> USE DEF ClearedResponses, ClearedCounts
<1>1. g \in [Oracle -> Response \cup {NoResponse}] /\ e \in [Response -> Nat]
  OBVIOUS
<1>2. ASSUME NEW s \in Response
      PROVE  e[s] <= Cardinality(Holders(g, s))
  <2>1. CASE s \in {f[o] : o \in L}
    <3>1. e[s] = 0
      BY <2>1
    <3> QED BY <3>1, HoldersFinite
  <2>2. CASE s \notin {f[o] : o \in L}
    <3>1. Holders(g, s) = Holders(f, s)
      BY <2>2, ConsensusAssumption DEF Holders
    <3>2. e[s] = c[s]
      BY <2>2
    <3> QED BY <3>1, <3>2 DEF Backed
  <2> QED BY <2>1, <2>2
<1> QED BY <1>1, <1>2 DEF Backed

-----------------------------------------------------------------------------
(***************************************************************************)
(* The inductive invariant.                                                *)
(***************************************************************************)

\* The types of the voting state.
VotingTypes ==
  /\ responses \in [Account -> [Oracle -> Response \cup {NoResponse}]]
  /\ confirmations \in [Account -> [Response -> Nat]]
  /\ confirmed \in [Account -> BOOLEAN]
  /\ lastUpdateBlock \in [Account -> Nat]
  /\ lastUpdateTime \in [Account -> Nat]

\* The types of the rest of the oracle contract.
MemberTypes ==
  /\ oracles \subseteq Oracle
  /\ required \in Nat
  /\ stakes \in [Oracle -> Nat]
  /\ stakeTime \in [Oracle -> Nat]
  /\ oraclePaused \in BOOLEAN

VotesBacked == \A a \in Account : Backed(responses[a], confirmations[a])

IInv ==
  /\ RegistryIInv
  /\ VotingTypes
  /\ MemberTypes
  /\ VotesBacked
  /\ ThresholdReachable

\* The authorised oracles are finitely many.
LEMMA OraclesFinite ==
  ASSUME NEW L \in SUBSET Oracle
  PROVE  /\ IsFiniteSet(L) /\ Cardinality(L) \in Nat
         /\ L # {} => Cardinality(L) > 0
BY ConsensusAssumption, FS_Subset, FS_CardinalityType, FS_EmptySet

\* No oracle has voted at deployment.
LEMMA ConsensusInitInv == Init => IInv
<1> SUFFICES ASSUME Init PROVE IInv
  OBVIOUS
<1>1. RegistryIInv
  BY RegistryInitIInv DEF Init
<1>2. VotingTypes
  BY DEF Init, VotingTypes
<1>3. MemberTypes
  BY DEF Init, MemberTypes
<1>4. VotesBacked
  BY HoldersFinite DEF Init, VotesBacked, Backed
<1>5. ThresholdReachable
  <2>1. PICK deployer \in Oracle : oracles = {deployer}
    BY DEF Init
  <2>2. required = 1
    BY Zenon DEF Init
  <2>3. Cardinality(oracles) = 1
    BY <2>1, FS_Singleton
  <2> QED BY <2>2, <2>3 DEF ThresholdReachable
<1> QED BY <1>1, <1>2, <1>3, <1>4, <1>5 DEF IInv

\* An unchanged registry stays consistent.
LEMMA RegistryUnchanged ==
  RegistryIInv /\ UNCHANGED registryVars => RegistryIInv'
BY DEF registryVars, RegistryIInv, RegistryInv, HighRiskOf, SanctionedOf, KnownOf

\* Members join and leave, and the threshold follows.
LEMMA MembersStep ==
  ASSUME IInv,
         \/ \E o \in Oracle : AddAuthorizedOracle(o) \/ RemoveAuthorizedOracle(o)
         \/ \E n \in 1 .. MaxOracles : SetRequiredConfirmations(n)
  PROVE  IInv'
<1> USE DEF IInv
<1>1. ASSUME NEW o \in Oracle, AddAuthorizedOracle(o)
      PROVE  MemberTypes' /\ ThresholdReachable'
  <2>1. /\ oracles' = oracles \cup {o} /\ o \notin oracles /\ oracles \subseteq Oracle
        /\ oracles' \subseteq Oracle /\ required \in Nat /\ required <= Cardinality(oracles)
    BY <1>1 DEF AddAuthorizedOracle, MemberTypes, ThresholdReachable
  <2>2. Cardinality(oracles') = Cardinality(oracles) + 1 /\ Cardinality(oracles) \in Nat
    BY <2>1, OraclesFinite, FS_AddElement
  <2>3. required' = IF required < 3 /\ Cardinality(oracles') >= 3 THEN 3 ELSE required
    BY <1>1 DEF AddAuthorizedOracle
  <2>4. required' \in Nat /\ required' <= Cardinality(oracles')
    BY <2>1, <2>2, <2>3
  <2> QED BY <1>1, <2>1, <2>4 DEF AddAuthorizedOracle, MemberTypes, ThresholdReachable, stakeVars
<1>2. ASSUME NEW o \in Oracle, RemoveAuthorizedOracle(o)
      PROVE  MemberTypes' /\ ThresholdReachable'
  <2>1. oracles' \subseteq Oracle /\ required \in Nat
    BY <1>2 DEF RemoveAuthorizedOracle, MemberTypes
  <2>2. Cardinality(oracles') \in Nat
    BY <2>1, OraclesFinite
  <2>3. required' = IF required > Cardinality(oracles') THEN Cardinality(oracles') ELSE required
    BY <1>2 DEF RemoveAuthorizedOracle
  <2>4. required' \in Nat /\ required' <= Cardinality(oracles')
    BY <2>1, <2>2, <2>3
  <2> QED BY <1>2, <2>1, <2>4 DEF RemoveAuthorizedOracle, MemberTypes, ThresholdReachable, stakeVars
<1>3. ASSUME NEW n \in 1 .. MaxOracles, SetRequiredConfirmations(n)
      PROVE  MemberTypes' /\ ThresholdReachable'
  BY <1>3, ConsensusAssumption
     DEF SetRequiredConfirmations, MemberTypes, ThresholdReachable, stakeVars
<1>4. MemberTypes' /\ ThresholdReachable'
  BY <1>1, <1>2, <1>3
<1>5. UNCHANGED <<registryVars, votingVars>>
  BY DEF AddAuthorizedOracle, RemoveAuthorizedOracle, SetRequiredConfirmations
<1>6. VotingTypes' /\ VotesBacked'
  BY <1>5 DEF votingVars, VotingTypes, VotesBacked
<1> QED BY <1>4, <1>5, <1>6, RegistryUnchanged

\* Stakes come and go.
LEMMA StakesStep ==
  ASSUME IInv, NEW o \in Oracle, NEW amount \in StakeAmount,
         Stake(o, amount) \/ Unstake(o, amount) \/ SlashOracleStake(o, amount)
  PROVE  IInv'
<1> USE DEF IInv
<1>1. stakes \in [Oracle -> Nat] /\ stakeTime \in [Oracle -> Nat] /\ amount \in Nat /\ now \in Nat
  BY ConsensusAssumption DEF MemberTypes, RegistryIInv
<1>2. stakes' \in [Oracle -> Nat] /\ stakeTime' \in [Oracle -> Nat]
  <2>1. CASE Stake(o, amount)
    BY <1>1, <2>1 DEF Stake
  <2>2. CASE Unstake(o, amount)
    BY <1>1, <2>2 DEF Unstake
  <2>3. CASE SlashOracleStake(o, amount)
    BY <1>1, <2>3 DEF SlashOracleStake
  <2> QED BY <2>1, <2>2, <2>3
<1>3. UNCHANGED <<registryVars, votingVars, oracles, required, oraclePaused>>
  BY DEF Stake, Unstake, SlashOracleStake
<1>4. VotingTypes' /\ VotesBacked' /\ MemberTypes' /\ ThresholdReachable'
  BY <1>2, <1>3 DEF votingVars, VotingTypes, VotesBacked, MemberTypes, ThresholdReachable
<1> QED BY <1>3, <1>4, RegistryUnchanged

\* What a vote does to the votes on its account.
LEMMA RecordVoteInv ==
  ASSUME IInv, NEW o \in Oracle, NEW a \in Account, NEW r \in Response,
         RecordVote(o, a, r)
  PROVE  /\ responses' \in [Account -> [Oracle -> Response \cup {NoResponse}]]
         /\ confirmations' \in [Account -> [Response -> Nat]]
         /\ lastUpdateBlock' \in [Account -> Nat]
         /\ VotesBacked'
         /\ confirmations'[a][r] = CountAfterVote(o, a, r)
<1> USE DEF IInv
<1> DEFINE f == responses[a]
           c == confirmations[a]
           d == Revoked(a, o)
           e == [d EXCEPT ![r] = @ + 1]
           g == [f EXCEPT ![o] = r]
<1>1. /\ responses \in [Account -> [Oracle -> Response \cup {NoResponse}]]
      /\ confirmations \in [Account -> [Response -> Nat]]
      /\ lastUpdateBlock \in [Account -> Nat] /\ now \in Nat
  BY DEF VotingTypes, RegistryIInv
<1>2. /\ f \in [Oracle -> Response \cup {NoResponse}] /\ c \in [Response -> Nat]
      /\ Backed(f, c)
      /\ f[o] # NoResponse => c[f[o]] > 0
      /\ d = IF f[o] = NoResponse THEN c ELSE [c EXCEPT ![f[o]] = @ - 1]
  BY <1>1 DEF VotesBacked, RecordVote, RevocationPossible, Revoked
<1>3. /\ responses' = [responses EXCEPT ![a] = g]
      /\ confirmations' = [confirmations EXCEPT ![a] = e]
      /\ lastUpdateBlock' = [lastUpdateBlock EXCEPT ![a] = now]
  BY <1>1 DEF RecordVote
<1> HIDE DEF f, c, d
<1>0. e = Counted(f, c, o, r) /\ d = Withdrawn(f, c, o)
  BY <1>2 DEF Counted, Withdrawn
<1>9. g = [f EXCEPT ![o] = r]
  OBVIOUS
<1> HIDE DEF e, g
<1>4. /\ g \in [Oracle -> Response \cup {NoResponse}] /\ d \in [Response -> Nat]
      /\ e \in [Response -> Nat] /\ Backed(g, e)
  <2>1. /\ [f EXCEPT ![o] = r] \in [Oracle -> Response \cup {NoResponse}]
        /\ Withdrawn(f, c, o) \in [Response -> Nat]
        /\ Counted(f, c, o, r) \in [Response -> Nat]
        /\ Backed([f EXCEPT ![o] = r], Counted(f, c, o, r))
    BY <1>2, VoteKeepsBacked
  <2> QED BY <1>0, <1>9, <2>1, Zenon
<1>5. e[r] = CountAfterVote(o, a, r)
  BY <1>4 DEF d, e, CountAfterVote
<1>6. /\ responses' \in [Account -> [Oracle -> Response \cup {NoResponse}]]
      /\ confirmations' \in [Account -> [Response -> Nat]]
      /\ lastUpdateBlock' \in [Account -> Nat]
      /\ confirmations'[a] = e /\ responses'[a] = g
      /\ \A b \in Account \ {a} :
           confirmations'[b] = confirmations[b] /\ responses'[b] = responses[b]
  BY <1>1, <1>3, <1>4
<1>7. ASSUME NEW b \in Account PROVE Backed(responses'[b], confirmations'[b])
  <2>1. CASE b = a
    BY <1>4, <1>6, <2>1
  <2>2. CASE b # a
    BY <1>6, <2>2 DEF VotesBacked
  <2> QED BY <2>1, <2>2
<1>8. VotesBacked'
  BY <1>7 DEF VotesBacked, Backed, Holders
<1> QED BY <1>5, <1>6, <1>8

\* The confidence fits its 8 bits.
LEMMA ConfidenceByte ==
  ASSUME IInv, NEW o \in oracles, NEW n \in Nat
  PROVE  Confidence(n) \in 0 .. 255
<1> DEFINE k == Cardinality(oracles)
           q == (n * 100) \div k
<1>1. k \in Nat /\ k > 0
  BY OraclesFinite DEF IInv, MemberTypes
<1>2. n * 100 \in Nat
  OBVIOUS
<1> HIDE DEF k
<1>3. q \in Int
  BY <1>1, <1>2
<1> HIDE DEF q
<1>4. q % 256 \in 0 .. 255
  BY <1>3
<1> QED BY <1>4 DEF q, k, Confidence

\* A vote, deciding or not, keeps the invariant.
LEMMA VoteStep ==
  ASSUME IInv, NEW o \in Oracle, NEW a \in Account, NEW r \in Response,
         SubmitVote(o, a, r) \/ SubmitDecidingVote(o, a, r)
  PROVE  IInv'
<1> USE DEF IInv
<1>1. RecordVote(o, a, r)
  BY DEF SubmitVote, SubmitDecidingVote
<1>2. /\ responses' \in [Account -> [Oracle -> Response \cup {NoResponse}]]
      /\ confirmations' \in [Account -> [Response -> Nat]]
      /\ lastUpdateBlock' \in [Account -> Nat]
      /\ VotesBacked'
  BY <1>1, RecordVoteInv
<1>3. MemberTypes' /\ ThresholdReachable'
  BY <1>1 DEF RecordVote, stakeVars, MemberTypes, ThresholdReachable
<1>4. confirmed \in [Account -> BOOLEAN] /\ lastUpdateTime \in [Account -> Nat]
  BY DEF VotingTypes
<1>5. CASE SubmitVote(o, a, r)
  <2>1. StillConfirmed(o, a, r) \in BOOLEAN
    BY <1>4 DEF StillConfirmed
  <2>2. confirmed' \in [Account -> BOOLEAN] /\ lastUpdateTime' \in [Account -> Nat]
    BY <1>4, <1>5, <2>1 DEF SubmitVote
  <2>3. VotingTypes'
    BY <1>2, <2>2 DEF VotingTypes
  <2>4. RegistryIInv'
    BY <1>5, RegistryUnchanged DEF SubmitVote
  <2> QED BY <1>2, <1>3, <2>3, <2>4
<1>6. CASE SubmitDecidingVote(o, a, r)
  <2> DEFINE n == CountAfterVote(o, a, r)
  <2>1. now \in Nat /\ o \in oracles /\ r \in AssessmentType
    BY <1>1, ConsensusAssumption DEF RegistryIInv, RecordVote, MayVote
  <2>2. n \in Nat
    BY <1>1, <1>2, RecordVoteInv
  <2>3. registry' = Write(registry, a, r, Confidence(n), now)
        /\ registryPaused' = registryPaused /\ now' = now
    BY <1>6 DEF SubmitDecidingVote
  <2> HIDE DEF n
  <2>4. Confidence(n) \in 0 .. 255
    BY <2>1, <2>2, ConfidenceByte
  <2>5. RegistryInv(Write(registry, a, r, Confidence(n), now))
    BY <2>1, <2>4, WriteKeepsInv DEF RegistryIInv
  <2>6. RegistryIInv'
    BY <2>3, <2>5 DEF RegistryIInv, RegistryInv, HighRiskOf, SanctionedOf, KnownOf
  <2>7. confirmed' \in [Account -> BOOLEAN] /\ lastUpdateTime' \in [Account -> Nat]
    BY <1>4, <1>6, <2>1 DEF SubmitDecidingVote
  <2>8. VotingTypes'
    BY <1>2, <2>7 DEF VotingTypes
  <2> QED BY <1>2, <1>3, <2>6, <2>8
<1> QED BY <1>5, <1>6

\* A reset clears counters of responses that no listed oracle keeps.
LEMMA ResetStep ==
  ASSUME IInv, NEW a \in Account, ResetConfirmations(a)
  PROVE  IInv'
<1> USE DEF IInv
<1> DEFINE f == responses[a]
           c == confirmations[a]
           e == [r \in Response |-> IF r \in {f[o] : o \in oracles} THEN 0 ELSE c[r]]
           g == [o \in Oracle |-> IF o \in oracles THEN NoResponse ELSE f[o]]
<1>1. /\ responses \in [Account -> [Oracle -> Response \cup {NoResponse}]]
      /\ confirmations \in [Account -> [Response -> Nat]]
      /\ confirmed \in [Account -> BOOLEAN]
      /\ oracles \subseteq Oracle
      /\ f \in [Oracle -> Response \cup {NoResponse}] /\ c \in [Response -> Nat]
      /\ Backed(f, c)
  BY DEF VotingTypes, MemberTypes, VotesBacked
<1>2. /\ responses' = [responses EXCEPT ![a] = g]
      /\ confirmations' = [confirmations EXCEPT ![a] = e]
      /\ confirmed' = [confirmed EXCEPT ![a] = FALSE]
  BY <1>1 DEF ResetConfirmations
<1> HIDE DEF f, c
<1>0. e = ClearedCounts(f, c, oracles) /\ g = ClearedResponses(f, oracles)
  BY DEF ClearedCounts, ClearedResponses
<1> HIDE DEF e, g
<1>3. /\ g \in [Oracle -> Response \cup {NoResponse}] /\ e \in [Response -> Nat]
      /\ Backed(g, e)
  BY <1>0, <1>1, ResetKeepsBacked
<1>4. /\ responses' \in [Account -> [Oracle -> Response \cup {NoResponse}]]
      /\ confirmations' \in [Account -> [Response -> Nat]]
      /\ confirmed' \in [Account -> BOOLEAN]
      /\ confirmations'[a] = e /\ responses'[a] = g
      /\ \A b \in Account \ {a} :
           confirmations'[b] = confirmations[b] /\ responses'[b] = responses[b]
  BY <1>1, <1>2, <1>3
<1>5. ASSUME NEW b \in Account PROVE Backed(responses'[b], confirmations'[b])
  <2>1. CASE b = a
    BY <1>3, <1>4, <2>1
  <2>2. CASE b # a
    BY <1>4, <2>2 DEF VotesBacked
  <2> QED BY <2>1, <2>2
<1>6. VotesBacked'
  BY <1>5 DEF VotesBacked, Backed, Holders
<1>7. UNCHANGED <<registryVars, oracles, required, lastUpdateBlock, lastUpdateTime,
                  stakeVars, oraclePaused>>
  BY DEF ResetConfirmations
<1>8. VotingTypes' /\ MemberTypes' /\ ThresholdReachable'
  BY <1>4, <1>7 DEF stakeVars, VotingTypes, MemberTypes, ThresholdReachable
<1> QED BY <1>6, <1>7, <1>8, RegistryUnchanged

\* Every transaction keeps the invariant.
LEMMA ConsensusStepInv == IInv /\ [Next]_vars => IInv'
<1> SUFFICES ASSUME IInv, [Next]_vars PROVE IInv'
  OBVIOUS
<1>1. CASE \/ \E o \in Oracle : AddAuthorizedOracle(o) \/ RemoveAuthorizedOracle(o)
           \/ \E n \in 1 .. MaxOracles : SetRequiredConfirmations(n)
  BY <1>1, MembersStep
<1>2. ASSUME NEW o \in Oracle, NEW amount \in StakeAmount,
             Stake(o, amount) \/ Unstake(o, amount) \/ SlashOracleStake(o, amount)
      PROVE  IInv'
  BY <1>2, StakesStep
<1>3. ASSUME NEW o \in Oracle, NEW a \in Account, NEW r \in Response,
             SubmitVote(o, a, r) \/ SubmitDecidingVote(o, a, r)
      PROVE  IInv'
  BY <1>3, VoteStep
<1>4. ASSUME NEW a \in Account, ResetConfirmations(a)
      PROVE  IInv'
  BY <1>4, ResetStep
<1>5. CASE PauseOracle \/ UnpauseOracle
  <2>1. UNCHANGED <<registryVars, oracles, required, votingVars, stakeVars>>
        /\ oraclePaused' \in BOOLEAN
    BY <1>5 DEF PauseOracle, UnpauseOracle
  <2>2. VotingTypes' /\ VotesBacked' /\ MemberTypes' /\ ThresholdReachable'
    BY <2>1 DEF IInv, votingVars, stakeVars, VotingTypes, VotesBacked, MemberTypes,
                ThresholdReachable
  <2> QED BY <2>1, <2>2, RegistryUnchanged DEF IInv
<1>6. CASE RegistryStep \/ UNCHANGED vars
  <2>1. UNCHANGED oracleVars /\ [RegistryNext]_registryVars
    BY <1>6 DEF RegistryStep, vars
  <2>2. VotingTypes' /\ VotesBacked' /\ MemberTypes' /\ ThresholdReachable'
    BY <2>1 DEF IInv, oracleVars, VotingTypes, VotesBacked, MemberTypes, ThresholdReachable
  <2>3. RegistryIInv'
    BY <2>1, RegistryStepInv DEF IInv
  <2> QED BY <2>2, <2>3 DEF IInv
<1> QED BY <1>1, <1>2, <1>3, <1>4, <1>5, <1>6 DEF Next

\* The invariant holds of every behaviour.
LEMMA ConsensusInvariant == Spec => []IInv
BY ConsensusInitInv, ConsensusStepInv, PTL DEF Spec

-----------------------------------------------------------------------------
(***************************************************************************)
(* The theorems.                                                           *)
(***************************************************************************)

\* The storage of the oracle contract and of the registry stays well-typed;
\* no counter underflows, and the confidence written fits uint8.
THEOREM ConsensusTypeSafety == Spec => []TypeOK
<1>1. IInv => TypeOK
  BY DEF IInv, RegistryIInv, RegistryInv, RegistryTypeOK, VotingTypes, MemberTypes, TypeOK
<1> QED BY <1>1, ConsensusInvariant, PTL

\* No oracle is counted twice for a response, for any set of oracles.
THEOREM NoVoteCountedTwice == Spec => []ConfirmationsBacked
<1>1. IInv => ConfirmationsBacked
  BY DEF IInv, VotesBacked, Backed, Holders, ConfirmationsBacked, Voters
<1> QED BY <1>1, ConsensusInvariant, PTL

\* Adding and removing oracles never puts the threshold out of reach.
THEOREM ThresholdAlwaysReachable == Spec => []ThresholdReachable
<1>1. IInv => ThresholdReachable
  BY DEF IInv
<1> QED BY <1>1, ConsensusInvariant, PTL

\* The lists and the counter of the registry stay exact while the consensus
\* writes to it beside the registry's other writers.
THEOREM ConsensusKeepsRegistry == Spec => [](ListsMatchProfiles /\ ProfileCountExact)
<1>1. IInv => ListsMatchProfiles /\ ProfileCountExact
  BY DEF IInv, RegistryIInv, RegistryInv, ListsMatchProfiles, ProfileCountExact,
         HighRiskOf, SanctionedOf, KnownOf, HighRiskAccounts, SanctionedAccounts, KnownAccounts
<1> QED BY <1>1, ConsensusInvariant, PTL

\* The steps other than a deciding vote leave lastUpdateTime alone.
LEMMA OnlyDecidingVotes ==
  ASSUME [Next]_vars, lastUpdateTime' # lastUpdateTime
  PROVE  \E o \in Oracle, a \in Account, r \in Response : SubmitDecidingVote(o, a, r)
BY DEF Next, vars, oracleVars, votingVars, AddAuthorizedOracle, RemoveAuthorizedOracle,
       SetRequiredConfirmations, Stake, Unstake, SlashOracleStake, SubmitVote,
       ResetConfirmations, PauseOracle, UnpauseOracle, RegistryStep

\* Whatever the consensus writes, at least required distinct oracles hold it.
THEOREM DecisionsHaveQuorum == Spec => DecisionHasQuorum
<1> DEFINE Quorum ==
      \A a \in Account :
        lastUpdateTime'[a] # lastUpdateTime[a] =>
          \E r \in Response :
            /\ registry'.profiles[a].score = r.score
            /\ registry'.profiles[a].sanctioned = r.sanctioned
            /\ Cardinality(Voters(a, r)') >= required
<1>1. ASSUME IInv, IInv', [Next]_vars
      PROVE  Quorum
  <2> SUFFICES ASSUME NEW a \in Account, lastUpdateTime'[a] # lastUpdateTime[a]
               PROVE  \E r \in Response :
                        /\ registry'.profiles[a].score = r.score
                        /\ registry'.profiles[a].sanctioned = r.sanctioned
                        /\ Cardinality(Voters(a, r)') >= required
    OBVIOUS
  <2>1. PICK o \in Oracle, b \in Account, r \in Response : SubmitDecidingVote(o, b, r)
    BY <1>1, OnlyDecidingVotes
  <2>2. lastUpdateTime \in [Account -> Nat] /\ registry.profiles \in [Account -> Profile]
    BY <1>1 DEF IInv, VotingTypes, RegistryIInv, RegistryInv, Registry
  <2>3. a = b
    BY <2>1, <2>2 DEF SubmitDecidingVote
  <2>4. registry'.profiles[a].score = r.score /\ registry'.profiles[a].sanctioned = r.sanctioned
    BY <2>1, <2>2, <2>3 DEF SubmitDecidingVote, Write
  <2>5. RecordVote(o, a, r) /\ CountAfterVote(o, a, r) >= required
    BY <2>1, <2>3 DEF SubmitDecidingVote, ReachesThreshold
  <2>6. confirmations'[a][r] >= required
    BY <1>1, <2>5, RecordVoteInv
  <2>7. confirmations'[a][r] <= Cardinality(Holders(responses'[a], r))
    BY <1>1 DEF IInv, VotesBacked, Backed
  <2>8. Voters(a, r)' = Holders(responses'[a], r)
    BY DEF Voters, Holders
  <2>9. /\ confirmations'[a][r] \in Nat /\ required \in Nat
        /\ Cardinality(Holders(responses'[a], r)) \in Nat
    BY <1>1, HoldersFinite DEF IInv, VotingTypes, MemberTypes
  <2>10. Cardinality(Voters(a, r)') >= required
    BY <2>6, <2>7, <2>8, <2>9
  <2> QED BY <2>4, <2>10
<1>2. IInv /\ IInv' /\ [Next]_vars => [Quorum]_vars
  BY <1>1
<1> QED BY <1>2, ConsensusInvariant, PTL DEF Spec, DecisionHasQuorum

-----------------------------------------------------------------------------
(***************************************************************************)
(* How long a stake has been there.                                        *)
(***************************************************************************)

\* A stake has been there since its stakeTime, or longer.
StakeAged ==
  \A o \in Oracle : /\ bareUntil[o] <= now
                    /\ stakes[o] > 0 => bareUntil[o] <= stakeTime[o]

HInv == IInv /\ bareUntil \in [Oracle -> Nat] /\ StakeAged

\* What a step that is not about stakes leaves alone; time does not run back.
LEMMA StakesLeftAlone ==
  ASSUME IInv, Next,
         ~ \E o \in Oracle, amount \in StakeAmount :
             Stake(o, amount) \/ Unstake(o, amount) \/ SlashOracleStake(o, amount)
  PROVE  UNCHANGED stakeVars /\ now' \in Nat /\ now <= now'
<1>1. now \in Nat
  BY DEF IInv, RegistryIInv
<1>2. CASE RegistryStep
  BY <1>1, <1>2
  DEF RegistryStep, oracleVars, stakeVars, RegistryNext, UpdateRiskProfile,
      BatchUpdateRiskProfiles, RemoveRiskProfile, PauseRegistry, UnpauseRegistry, Tick
<1>3. CASE ~ RegistryStep
  BY <1>1, <1>3
  DEF Next, AddAuthorizedOracle, RemoveAuthorizedOracle, SetRequiredConfirmations, SubmitVote,
      SubmitDecidingVote, RecordVote, ResetConfirmations, PauseOracle, UnpauseOracle,
      registryVars, stakeVars
<1> QED BY <1>2, <1>3

\* The age survives every change of a stake.
LEMMA AgeStep ==
  ASSUME HInv, HNext
  PROVE  bareUntil' \in [Oracle -> Nat] /\ StakeAged'
<1>1. /\ now \in Nat /\ stakes \in [Oracle -> Nat] /\ stakeTime \in [Oracle -> Nat]
      /\ bareUntil \in [Oracle -> Nat]
  BY DEF HInv, IInv, RegistryIInv, MemberTypes
<1>2. bareUntil' = [o \in Oracle |-> IF stakes'[o] = 0 THEN now' ELSE bareUntil[o]]
  BY DEF HNext, Record
<1> DEFINE Kept(o) == /\ stakes'[o] \in Nat
                      /\ stakes'[o] > 0 => \/ stakes[o] > 0 /\ stakeTime'[o] = stakeTime[o]
                                           \/ stakeTime'[o] = now
<1>3. now' \in Nat /\ now <= now' /\ \A o \in Oracle : Kept(o)
  <2>1. ASSUME NEW p \in Oracle, NEW amount \in StakeAmount,
               Stake(p, amount) \/ Unstake(p, amount) \/ SlashOracleStake(p, amount)
        PROVE  now' \in Nat /\ now <= now' /\ \A o \in Oracle : Kept(o)
    <3>1. amount \in Nat /\ now' = now
      BY <2>1, ConsensusAssumption DEF Stake, Unstake, SlashOracleStake, registryVars
    <3>2. CASE Stake(p, amount)
      BY <1>1, <3>1, <3>2 DEF Stake
    <3>3. CASE Unstake(p, amount)
      BY <1>1, <3>1, <3>3 DEF Unstake
    <3>4. CASE SlashOracleStake(p, amount)
      BY <1>1, <3>1, <3>4 DEF SlashOracleStake
    <3> QED BY <2>1, <3>2, <3>3, <3>4
  <2>2. CASE ~ \E p \in Oracle, amount \in StakeAmount :
               Stake(p, amount) \/ Unstake(p, amount) \/ SlashOracleStake(p, amount)
    <3>1. UNCHANGED stakeVars /\ now' \in Nat /\ now <= now'
      BY <2>2, StakesLeftAlone DEF HInv, HNext
    <3> QED BY <1>1, <3>1 DEF stakeVars
  <2> QED BY <2>1, <2>2
<1>4. bareUntil' \in [Oracle -> Nat]
  BY <1>1, <1>2, <1>3
<1>5. ASSUME NEW o \in Oracle
      PROVE  /\ bareUntil'[o] <= now'
             /\ stakes'[o] > 0 => bareUntil'[o] <= stakeTime'[o]
  <2>1. bareUntil[o] <= now /\ (stakes[o] > 0 => bareUntil[o] <= stakeTime[o])
    BY DEF HInv, StakeAged
  <2>2. bareUntil'[o] = IF stakes'[o] = 0 THEN now' ELSE bareUntil[o]
    BY <1>2
  <2>3. bareUntil[o] \in Nat
    BY <1>1
  <2> QED BY <1>1, <1>3, <2>1, <2>2, <2>3
<1> QED BY <1>4, <1>5 DEF StakeAged

\* The history stays bounded by the stakes in every reachable state.
LEMMA HistoryInvariant == HSpec => []HInv
<1>1. HInit => HInv
  <2> SUFFICES ASSUME HInit PROVE HInv
    OBVIOUS
  <2>1. IInv
    BY ConsensusInitInv DEF HInit
  <2>2. bareUntil = [o \in Oracle |-> now] /\ now \in Nat /\ stakes = [o \in Oracle |-> 0]
    BY <2>1 DEF HInit, Init, IInv, RegistryIInv
  <2> QED BY <2>1, <2>2 DEF HInv, StakeAged
<1>2. HInv /\ [HNext]_<<vars, bareUntil>> => HInv'
  <2> SUFFICES ASSUME HInv, [HNext]_<<vars, bareUntil>> PROVE HInv'
    OBVIOUS
  <2>1. IInv'
    BY ConsensusStepInv DEF HInv, HNext
  <2>2. CASE HNext
    BY <2>1, <2>2, AgeStep DEF HInv
  <2>3. CASE UNCHANGED <<vars, bareUntil>>
    BY <2>1, <2>3 DEF HInv, StakeAged, vars, oracleVars, registryVars
  <2> QED BY <2>2, <2>3
<1> QED BY <1>1, <1>2, PTL DEF HSpec

\* A new vote is one of SubmitVote's, by its own oracle.
LEMMA VoterMayVote ==
  ASSUME IInv, Next, NEW o \in Oracle, NEW a \in Account, NEW r \in Response,
         Votes(o, a, r), responses'[a][o] # responses[a][o]
  PROVE  MayVote(o, a)
<1>1. responses \in [Account -> [Oracle -> Response \cup {NoResponse}]]
  BY DEF IInv, VotingTypes
<1>2. lastUpdateBlock'[a] # lastUpdateBlock[a]
  BY DEF Votes
<1>3. \E p \in Oracle, b \in Account, s \in Response : RecordVote(p, b, s)
  BY <1>2
  DEF Next, AddAuthorizedOracle, RemoveAuthorizedOracle, SetRequiredConfirmations, Stake, Unstake,
      SlashOracleStake, SubmitVote, SubmitDecidingVote, ResetConfirmations, PauseOracle,
      UnpauseOracle, RegistryStep, votingVars, oracleVars
<1>4. PICK p \in Oracle, b \in Account, s \in Response : RecordVote(p, b, s)
  BY <1>3
<1>5. responses' = [responses EXCEPT ![b][p] = s] /\ MayVote(p, b)
  BY <1>4 DEF RecordVote
<1>6. p = o /\ b = a
  BY <1>1, <1>5
<1> QED BY <1>5, <1>6

\* A vote needs a stake that has been there for MIN_STAKE_DURATION without a gap.
\* The minimum of the code is never zero (_getMinStakeAmount).
THEOREM VotersStakeUnbroken ==
  ASSUME MinStake > 0
  PROVE  HSpec => VoterStakeUnbroken
<1>1. ASSUME HInv, HNext, NEW o \in Oracle, NEW a \in Account, NEW r \in Response,
             Votes(o, a, r), responses'[a][o] # responses[a][o]
      PROVE  now - bareUntil[o] >= MinStakeDuration
  <2>1. MayVote(o, a)
    BY <1>1, VoterMayVote DEF HInv, HNext
  <2>2. stakes[o] >= MinStake /\ now >= stakeTime[o] + MinStakeDuration
    BY <2>1 DEF MayVote
  <2>3. /\ now \in Nat /\ stakes[o] \in Nat /\ stakeTime[o] \in Nat /\ bareUntil[o] \in Nat
        /\ MinStakeDuration \in Nat /\ MinStake \in Nat
    BY <1>1, ConsensusAssumption DEF HInv, IInv, RegistryIInv, MemberTypes
  <2>4. bareUntil[o] <= stakeTime[o]
    BY <1>1, <2>2, <2>3 DEF HInv, StakeAged
  <2> QED BY <2>2, <2>3, <2>4
<1>2. HInv /\ [HNext]_<<vars, bareUntil>> =>
        [\A o \in Oracle, a \in Account, r \in Response :
           Votes(o, a, r) /\ responses'[a][o] # responses[a][o]
             => now - bareUntil[o] >= MinStakeDuration]_<<vars, bareUntil>>
  BY <1>1
<1> QED BY <1>2, HistoryInvariant, PTL DEF HSpec, VoterStakeUnbroken

-----------------------------------------------------------------------------
(***************************************************************************)
(* PART 3: THE REQUESTS.                                                   *)
(***************************************************************************)

\* One instance for each operator that is folded.
Enqueued   == INSTANCE FoldLemmas WITH Op <- Enqueue
Written    == INSTANCE FoldLemmas WITH Op <- LAMBDA r, i : TryWrite(r, QueuedAt(i))
Undeferred == INSTANCE FoldLemmas WITH Op <- Undefer

\* The loops of the contract are folds in the sense of FoldLemmas: this one puts an
\* answer's addresses into the queue.
LEMMA ResponseFold ==
  ASSUME NEW q, NEW answer
  PROVE  ProcessResponse(q, answer) = Enqueued!Fold(q, answer.list)
BY Zenon DEF ProcessResponse, FoldLeft, MapThenFoldSet, Max,
             Enqueued!Fold, Enqueued!FoldLeft, Enqueued!MapThenFoldSet, Enqueued!Max

\* This one writes a batch of the queue to the registry.
LEMMA WrittenFold ==
  ASSUME NEW r, NEW s
  PROVE  FoldLeft(LAMBDA q, i : TryWrite(q, QueuedAt(i)), r, s) = Written!Fold(r, s)
BY Zenon DEF FoldLeft, MapThenFoldSet, Max,
             Written!Fold, Written!FoldLeft, Written!MapThenFoldSet, Written!Max

\* And this one releases deferred answers.
LEMMA UndeferredFold ==
  ASSUME NEW s, NEW ids
  PROVE  FoldLeft(Undefer, s, ids) = Undeferred!Fold(s, ids)
BY Zenon DEF FoldLeft, MapThenFoldSet, Max,
             Undeferred!Fold, Undeferred!FoldLeft, Undeferred!MapThenFoldSet, Undeferred!Max

-----------------------------------------------------------------------------
(***************************************************************************)
(* Slots of a ring.                                                        *)
(***************************************************************************)

\* A number is its quotient times the ring's size and its remainder.
LEMMA Division ==
  ASSUME NEW m \in Nat \ {0}, NEW a \in Nat
  PROVE  a \div m \in Nat /\ a % m \in 0 .. m - 1 /\ a = m * (a \div m) + (a % m)
OBVIOUS

\* A multiple of the size of the ring is a whole turn, or none.
LEMMA AtLeastOneTurn ==
  ASSUME NEW m \in Nat \ {0}, NEW q \in Int
  PROVE  m * q >= m \/ m * q <= 0
<1>1. CASE q >= 1
  BY <1>1
<1>2. CASE q <= 0
  BY <1>2
<1> QED BY <1>1, <1>2

\* The remainder is the only one.
LEMMA RemainderUnique ==
  ASSUME NEW m \in Nat \ {0}, NEW p \in Int, NEW q \in Int, NEW x \in 0 .. m - 1, NEW y \in 0 .. m - 1,
         m * p + x = m * q + y
  PROVE  x = y
<1>1. q - p \in Int /\ m * (q - p) = m * q - m * p
  OBVIOUS
<1>2. m * (q - p) >= m \/ m * (q - p) <= 0
  BY <1>1, AtLeastOneTurn
<1>3. p - q \in Int /\ m * (p - q) = m * p - m * q
  OBVIOUS
<1>4. m * (p - q) >= m \/ m * (p - q) <= 0
  BY <1>3, AtLeastOneTurn
<1>5. m * p \in Int /\ m * q \in Int
  OBVIOUS
<1> QED BY <1>1, <1>2, <1>3, <1>4, <1>5

\* Positions less than a turn apart have different slots.
LEMMA SlotsDiffer ==
  ASSUME NEW m \in Nat \ {0}, NEW a \in Nat, NEW b \in Nat, a < b, b < a + m
  PROVE  a % m # b % m
<1> DEFINE p == a \div m
           q == b \div m
<1>1. p \in Nat /\ q \in Nat /\ a = m * p + (a % m) /\ b = m * q + (b % m)
  BY Division
<1>2. q - p \in Int /\ m * (q - p) = m * q - m * p
  BY <1>1
<1>3. m * (q - p) >= m \/ m * (q - p) <= 0
  BY <1>2, AtLeastOneTurn
<1>4. m * p \in Nat /\ m * q \in Nat /\ a % m \in Nat
  BY <1>1, Division
<1> HIDE DEF p, q
<1> SUFFICES ASSUME a % m = b % m PROVE FALSE
  OBVIOUS
<1>5. m * q - m * p = b - a
  BY <1>1, <1>4
<1> QED BY <1>2, <1>3, <1>5

\* A full turn leads back to the slot.
LEMMA FullTurn ==
  ASSUME NEW m \in Nat \ {0}, NEW a \in Nat
  PROVE  (a + m) % m = a % m
<1> DEFINE p == a \div m
           q == (a + m) \div m
           x == a % m
           y == (a + m) % m
<1>1. p \in Nat /\ x \in 0 .. m - 1 /\ a = m * p + x
  BY Division
<1>2. a + m \in Nat
  OBVIOUS
<1>3. q \in Nat /\ y \in 0 .. m - 1 /\ a + m = m * q + y
  BY <1>2, Division
<1> HIDE DEF p, q, x, y
<1>4. p + 1 \in Int /\ m * (p + 1) = m * p + m /\ m * p \in Nat /\ m * q \in Nat
  BY <1>1, <1>3
<1>5. m * (p + 1) + x = m * q + y
  BY <1>1, <1>3, <1>4
<1>6. x = y
  BY <1>1, <1>3, <1>4, <1>5, RemainderUnique
<1> QED BY <1>6 DEF x, y

\* In the first turn the slot is the position.
LEMMA FirstTurn ==
  ASSUME NEW m \in Nat \ {0}, NEW a \in Nat, a < m
  PROVE  a % m = a
OBVIOUS

-----------------------------------------------------------------------------
(***************************************************************************)
(* The queue.                                                              *)
(***************************************************************************)

Recipient == Account \cup {ZeroAddress}

\* The storage of the queue: the array grows until its first turn is complete.
Rings ==
  {q \in [slots : Seq(Recipient), head : Nat, count : 0 .. MaxQueueSize] :
     Len(q.slots) = IF q.head + q.count < MaxQueueSize THEN q.head + q.count ELSE MaxQueueSize}

\* The addresses that wait, oldest first.
WaitingIn(q) == [i \in 1 .. q.count |-> q.slots[((q.head + i - 1) % MaxQueueSize) + 1]]

\* A place of the queue is a slot of the array.
LEMMA PlacesInRing ==
  ASSUME NEW q \in Rings
  PROVE  WaitingIn(q) \in Seq(Recipient) /\ Len(WaitingIn(q)) = q.count
<1> DEFINE m == MaxQueueSize
<1>1. /\ m \in Nat \ {0} /\ q.slots \in Seq(Recipient) /\ q.head \in Nat /\ q.count \in 0 .. m
      /\ Len(q.slots) = IF q.head + q.count < m THEN q.head + q.count ELSE m
  BY RequestsAssumption DEF Rings
<1> HIDE DEF m
<1>2. ASSUME NEW i \in 1 .. q.count
      PROVE  q.slots[((q.head + i - 1) % m) + 1] \in Recipient
  <2> DEFINE k == q.head + i - 1
  <2>1. k \in Nat /\ k < q.head + q.count
    BY <1>1
  <2> HIDE DEF k
  <2>2. k % m \in 0 .. m - 1 /\ (k < m => k % m = k)
    BY <1>1, <2>1, Division, FirstTurn
  <2>4. (k % m) + 1 \in 1 .. Len(q.slots)
    BY <1>1, <2>1, <2>2
  <2>3. q.slots[(k % m) + 1] \in Recipient
    BY <1>1, <2>4
  <2> QED BY <2>3 DEF k
<1>3. q.count \in Nat
  BY <1>1
<1> QED BY <1>2, <1>3 DEF WaitingIn, m

\* An address enters behind those that wait, or is dropped.
LEMMA EnqueueKeepsRing ==
  ASSUME NEW q \in Rings, NEW a \in Recipient
  PROVE  /\ Enqueue(q, a) \in Rings
         /\ q.count < MaxQueueSize => WaitingIn(Enqueue(q, a)) = Append(WaitingIn(q), a)
         /\ q.count >= MaxQueueSize => Enqueue(q, a) = q
<1> DEFINE m == MaxQueueSize
           idx == (q.head + q.count) % m
           slots == IF idx >= Len(q.slots) THEN Append(q.slots, a) ELSE [q.slots EXCEPT ![idx + 1] = a]
           r == Enqueue(q, a)
<1>1. /\ m \in Nat \ {0} /\ q.slots \in Seq(Recipient) /\ q.head \in Nat /\ q.count \in 0 .. m
      /\ Len(q.slots) = IF q.head + q.count < m THEN q.head + q.count ELSE m
  BY RequestsAssumption DEF Rings
<1>2. CASE q.count >= m
  BY <1>1, <1>2 DEF Enqueue
<1> HIDE DEF m
<1>3. CASE q.count < m
  <2>1. r = [slots |-> slots, head |-> q.head, count |-> q.count + 1]
    BY <1>1, <1>3 DEF Enqueue, m
  <2>0. q.head + q.count \in Nat
    BY <1>1
  <2>2. idx \in 0 .. m - 1 /\ (q.head + q.count < m => idx = q.head + q.count)
    BY <1>1, <2>0, Division, FirstTurn
  <2> HIDE DEF idx
  <2>3. /\ slots \in Seq(Recipient)
        /\ slots[idx + 1] = a
        /\ Len(slots) = IF q.head + q.count + 1 < m THEN q.head + q.count + 1 ELSE m
        /\ \A k \in 1 .. Len(q.slots) : k # idx + 1 => slots[k] = q.slots[k]
    <3>1. CASE q.head + q.count < m
      <4>1. slots = Append(q.slots, a) /\ idx = Len(q.slots)
        BY <1>1, <2>2, <3>1
      <4> HIDE DEF slots
      <4> QED BY <1>1, <3>1, <4>1
    <3>2. CASE ~(q.head + q.count < m)
      <4>1. slots = [q.slots EXCEPT ![idx + 1] = a] /\ idx + 1 \in 1 .. Len(q.slots) /\ Len(q.slots) = m
        BY <1>1, <2>2, <3>2
      <4> HIDE DEF slots
      <4> QED BY <1>1, <3>2, <4>1
    <3> QED BY <3>1, <3>2
  <2> HIDE DEF slots, r
  <2>4. r.slots = slots /\ r.head = q.head /\ r.count = q.count + 1
    BY <2>1
  <2>5. r \in Rings
    BY <1>1, <1>3, <2>1, <2>3 DEF Rings, m
  <2>6. ASSUME NEW i \in 1 .. q.count + 1
        PROVE  WaitingIn(r)[i] = Append(WaitingIn(q), a)[i]
    <3>1. WaitingIn(q) \in Seq(Recipient) /\ Len(WaitingIn(q)) = q.count
      BY PlacesInRing
    <3> DEFINE k == q.head + i - 1
    <3>7. k \in Nat
      BY <1>1
    <3>3. WaitingIn(r)[i] = slots[(k % m) + 1]
      BY <1>1, <2>4 DEF WaitingIn, m
    <3>4. CASE i = q.count + 1
      <4>1. k % m = idx
        BY <1>1, <3>4 DEF idx
      <4>2. Append(WaitingIn(q), a)[i] = a
        BY <1>1, <3>1, <3>4
      <4> QED BY <2>3, <3>3, <4>1, <4>2
    <3>5. CASE i # q.count + 1
      <4>1. i \in 1 .. q.count /\ k < q.head + q.count /\ q.head + q.count < k + m
        BY <1>1, <1>3, <3>5
      <4> HIDE DEF k
      <4>0. k % m \in 0 .. m - 1 /\ (k < m => k % m = k)
        BY <1>1, <3>7, Division, FirstTurn
      <4>2. k % m # idx
        BY <1>1, <2>0, <3>7, <4>1, SlotsDiffer DEF idx
      <4>3. (k % m) + 1 \in 1 .. Len(q.slots)
        BY <1>1, <3>7, <4>0, <4>1
      <4>4. slots[(k % m) + 1] = q.slots[(k % m) + 1]
        BY <2>2, <2>3, <4>0, <4>2, <4>3
      <4>5. Append(WaitingIn(q), a)[i] = WaitingIn(q)[i]
        BY <3>1, <4>1
      <4>6. WaitingIn(q)[i] = q.slots[(k % m) + 1]
        BY <4>1 DEF WaitingIn, k, m
      <4> QED BY <3>3, <4>4, <4>5, <4>6
    <3> QED BY <3>4, <3>5
  <2>7. WaitingIn(r) = Append(WaitingIn(q), a)
    <3>1. WaitingIn(q) \in Seq(Recipient) /\ Len(WaitingIn(q)) = q.count
      BY PlacesInRing
    <3>2. WaitingIn(r) \in Seq(Recipient) /\ Len(WaitingIn(r)) = q.count + 1
      BY <2>4, <2>5, PlacesInRing
    <3>3. Append(WaitingIn(q), a) \in Seq(Recipient) /\ Len(Append(WaitingIn(q), a)) = q.count + 1
      BY <3>1
    <3> QED BY <2>6, <3>2, <3>3
  <2> QED BY <1>1, <1>3, <2>5, <2>7 DEF r, m
<1> QED BY <1>1, <1>2, <1>3 DEF m

\* The addresses of an answer enter one after the other.
LEMMA ResponseKeepsRing ==
  ASSUME NEW q \in Rings, NEW answer, answer.list \in Seq(Recipient)
  PROVE  ProcessResponse(q, answer) \in Rings
<1>1. \A r \in Rings, a \in Recipient : Enqueue(r, a) \in Rings
  BY EnqueueKeepsRing
<1>2. Enqueued!Fold(q, answer.list) \in Rings
  BY <1>1, Enqueued!FoldKeeps
<1> QED BY <1>2, ResponseFold

\* Sequences of the same length and the same elements are the same.
LEMMA SameSequences ==
  ASSUME NEW A, NEW s \in Seq(A), NEW t \in Seq(A), Len(s) = Len(t),
         \A i \in 1 .. Len(s) : s[i] = t[i]
  PROVE  s = t
OBVIOUS

\* The batch of an operator leaves the queue at its head.
LEMMA TakingKeepsRing ==
  ASSUME NEW q \in Rings, NEW n \in 0 .. q.count
  PROVE  /\ [q EXCEPT !.head = @ + n, !.count = @ - n] \in Rings
         /\ WaitingIn([q EXCEPT !.head = @ + n, !.count = @ - n]) = SubSeq(WaitingIn(q), 1 + n, q.count)
<1> DEFINE m == MaxQueueSize
           r == [q EXCEPT !.head = @ + n, !.count = @ - n]
<1>1. /\ m \in Nat \ {0} /\ q.slots \in Seq(Recipient) /\ q.head \in Nat /\ q.count \in 0 .. m
      /\ Len(q.slots) = IF q.head + q.count < m THEN q.head + q.count ELSE m
      /\ q \in [slots : Seq(Recipient), head : Nat, count : 0 .. m]
  BY RequestsAssumption DEF Rings
<1> HIDE DEF m
<1>2. r.slots = q.slots /\ r.head = q.head + n /\ r.count = q.count - n
      /\ r \in [slots : Seq(Recipient), head : Nat, count : 0 .. m]
  <2> DEFINE h == q.head + n
             c == q.count - n
  <2>1. h \in Nat /\ c \in 0 .. m
    BY <1>1
  <2>2. r = [q EXCEPT !.head = h, !.count = c]
    OBVIOUS
  <2> HIDE DEF h, c, r
  <2>3. r.slots = q.slots /\ r.head = h /\ r.count = c
        /\ r \in [slots : Seq(Recipient), head : Nat, count : 0 .. m]
    BY <1>1, <2>1, <2>2
  <2> QED BY <2>3 DEF h, c
<1> HIDE DEF r
<1>3. r.head + r.count = q.head + q.count
  BY <1>1, <1>2
<1>4. r \in Rings
  BY <1>1, <1>2, <1>3 DEF Rings, m
<1>5. /\ WaitingIn(q) \in Seq(Recipient) /\ Len(WaitingIn(q)) = q.count
      /\ WaitingIn(r) \in Seq(Recipient) /\ Len(WaitingIn(r)) = q.count - n
  BY <1>2, <1>4, PlacesInRing
<1>6. ASSUME NEW i \in 1 .. q.count - n
      PROVE  WaitingIn(r)[i] = SubSeq(WaitingIn(q), 1 + n, q.count)[i]
  <2>1. i + n \in 1 .. q.count /\ i \in 1 .. r.count
    BY <1>1, <1>2
  <2> HIDE DEF m
  <2>2. SubSeq(WaitingIn(q), 1 + n, q.count)[i] = WaitingIn(q)[i + n]
    BY <1>1, <1>5, <2>1
  <2>3. WaitingIn(q)[i + n] = q.slots[((q.head + (i + n) - 1) % MaxQueueSize) + 1]
    BY <2>1 DEF WaitingIn
  <2>4. WaitingIn(r)[i] = r.slots[((r.head + i - 1) % MaxQueueSize) + 1]
    BY <2>1 DEF WaitingIn
  <2>5. q.head + (i + n) - 1 = r.head + i - 1
    BY <1>1, <1>2
  <2> QED BY <1>2, <2>2, <2>3, <2>4, <2>5
<1>7. SubSeq(WaitingIn(q), 1 + n, q.count) \in Seq(Recipient)
      /\ Len(SubSeq(WaitingIn(q), 1 + n, q.count)) = q.count - n
  BY <1>1, <1>5
<1>8. WaitingIn(r) = SubSeq(WaitingIn(q), 1 + n, q.count)
  BY <1>1, <1>5, <1>6, <1>7, SameSequences
<1> QED BY <1>4, <1>8 DEF r

-----------------------------------------------------------------------------
(***************************************************************************)
(* The registry, written from the queue.                                   *)
(***************************************************************************)

\* What an operator's batch does with the registry, address by address.
LEMMA TryWriteKeepsInv ==
  ASSUME NEW r, RegistryInv(r), now \in Nat, NEW a
  PROVE  RegistryInv(TryWrite(r, a))
<1>1. Sanction \in AssessmentType /\ FullConfidence \in 0 .. 255
  BY DEF Sanction, AssessmentType, FullConfidence
<1>2. a \in Account => RegistryInv(Write(r, a, Sanction, FullConfidence, now))
  BY <1>1, WriteKeepsInv
<1> QED BY <1>2 DEF TryWrite

\* The whole batch.
LEMMA BatchKeepsRegistry ==
  ASSUME RegistryInv(registry), now \in Nat, NEW n \in Nat
  PROVE  RegistryInv(FoldLeft(LAMBDA r, i : TryWrite(r, QueuedAt(i)), registry, [i \in 1 .. n |-> i]))
<1> DEFINE V == {r \in Registry : RegistryInv(r)}
           s == [i \in 1 .. n |-> i]
<1>1. \A r \in V, i \in Nat : TryWrite(r, QueuedAt(i)) \in V
  BY TryWriteKeepsInv DEF RegistryInv
<1>2. registry \in V /\ s \in Seq(Nat)
  BY DEF RegistryInv
<1> HIDE DEF V, s
<1>3. Written!Fold(registry, s) \in V
  BY <1>1, <1>2, Written!FoldKeeps
<1>4. RegistryInv(Written!Fold(registry, s))
  BY <1>3 DEF V
<1> QED BY <1>4, WrittenFold, Zenon DEF s

-----------------------------------------------------------------------------
(***************************************************************************)
(* The table of requests and the counter of the deferred ones.             *)
(***************************************************************************)

\* What is recorded of an answer carries a list of addresses, maybe empty.
LEMMA AnswerHasList ==
  ASSUME NEW answer \in Answer \cup {NoAnswer}
  PROVE  answer.list \in Seq(Recipient)
<1>1. <<>> \in Seq(Recipient)
  OBVIOUS
<1>2. CASE answer \in Answer
  <2>1. answer \in AnswerType
    BY <1>2, RequestsAssumption
  <2> QED BY <1>1, <2>1 DEF AnswerType, Recipient
<1>3. CASE answer = NoAnswer
  BY <1>1, <1>3 DEF NoAnswer
<1> QED BY <1>2, <1>3

DeferredIn(info) == {id \in RequestId : info[id].deferred}

\* What the table says of its entries: an answer is recorded of a request that
\* exists, and a deferred one counts as answered.
Tables ==
  {info \in [RequestId -> Info] :
     \A id \in RequestId :
       /\ info[id].deferred => info[id].fulfilled
       /\ info[id].fulfilled => info[id].exists}

\* The deferred answers and their number.
DeferredCounted(info, count) == count \in Nat /\ count = Cardinality(DeferredIn(info))

\* There are finitely many deferred answers.
LEMMA DeferredFinite ==
  ASSUME NEW info
  PROVE  IsFiniteSet(DeferredIn(info))
<1>1. IsFiniteSet(RequestId)
  BY RequestsAssumption, FS_Interval DEF RequestId
<1> QED BY <1>1, FS_Subset DEF DeferredIn

\* One turn of the loop over deferred answers.
LEMMA UndeferKeeps ==
  ASSUME NEW s, s.info \in Tables, DeferredCounted(s.info, s.count), s.queue \in Rings, NEW id \in RequestId
  PROVE  LET t == Undefer(s, id)
         IN  /\ t.info \in Tables /\ DeferredCounted(t.info, t.count) /\ t.queue \in Rings
             /\ \A i \in RequestId : t.info[i].exists = s.info[i].exists
<1> DEFINE t == Undefer(s, id)
           info == [s.info EXCEPT ![id].deferred = FALSE]
           count == IF s.count > 0 THEN s.count - 1 ELSE 0
<1>1. CASE ~s.info[id].deferred
  BY <1>1 DEF Undefer
<1>2. CASE s.info[id].deferred
  <2>1. t = [info |-> info, count |-> count, queue |-> ProcessResponse(s.queue, s.info[id].answer)]
    BY <1>2 DEF Undefer
  <2>2. s.info \in [RequestId -> Info] /\ s.info[id] \in Info
    BY DEF Tables
  <2>3. info \in [RequestId -> Info] /\ info[id] = [s.info[id] EXCEPT !.deferred = FALSE]
        /\ (\A i \in RequestId \ {id} : info[i] = s.info[i])
    BY <2>2 DEF Info
  <2>4. /\ info[id].deferred = FALSE /\ info[id].fulfilled = s.info[id].fulfilled
        /\ info[id].exists = s.info[id].exists
    BY <2>2, <2>3 DEF Info
  <2>5. info \in Tables
    BY <2>3, <2>4 DEF Tables
  <2>6. DeferredIn(info) = DeferredIn(s.info) \ {id} /\ id \in DeferredIn(s.info)
    BY <1>2, <2>3, <2>4 DEF DeferredIn
  <2>7. DeferredCounted(info, count)
    <3>1. Cardinality(DeferredIn(s.info) \ {id}) = Cardinality(DeferredIn(s.info)) - 1
      BY <2>6, DeferredFinite, FS_RemoveElement
    <3>2. Cardinality(DeferredIn(s.info) \ {id}) \in Nat
      BY <2>6, DeferredFinite, FS_CardinalityType, FS_Subset
    <3> HIDE DEF info
    <3>3. s.count \in Nat /\ s.count = Cardinality(DeferredIn(s.info))
      BY DEF DeferredCounted
    <3>4. Cardinality(DeferredIn(s.info)) # 0
      BY <2>6, DeferredFinite, FS_EmptySet
    <3>5. count \in Nat /\ count = Cardinality(DeferredIn(info))
      BY <2>6, <3>1, <3>2, <3>3, <3>4
    <3> QED BY <3>5 DEF DeferredCounted
  <2>8. s.info[id].answer.list \in Seq(Recipient)
    BY <2>2, AnswerHasList DEF Info
  <2>9. ProcessResponse(s.queue, s.info[id].answer) \in Rings
    BY <2>8, ResponseKeepsRing
  <2>10. \A i \in RequestId : info[i].exists = s.info[i].exists
    BY <2>3, <2>4
  <2> HIDE DEF info, count, t
  <2>11. t.info = info /\ t.count = count /\ t.queue = ProcessResponse(s.queue, s.info[id].answer)
    BY <2>1
  <2>12. /\ t.info \in Tables /\ DeferredCounted(t.info, t.count) /\ t.queue \in Rings
         /\ \A i \in RequestId : t.info[i].exists = s.info[i].exists
    BY <2>5, <2>7, <2>9, <2>10, <2>11
  <2> QED BY <2>12 DEF t
<1> QED BY <1>1, <1>2

\* The whole loop, whatever the operator names and however often.
LEMMA UndeferAllKeeps ==
  ASSUME NEW info \in Tables, NEW count, DeferredCounted(info, count), NEW q \in Rings,
         NEW ids \in Seq(RequestId)
  PROVE  LET done == FoldLeft(Undefer, [info |-> info, count |-> count, queue |-> q], ids)
         IN  /\ done.info \in Tables /\ DeferredCounted(done.info, done.count) /\ done.queue \in Rings
             /\ \A i \in RequestId : done.info[i].exists = info[i].exists
<1> DEFINE V == {s \in [info : Tables, count : Nat, queue : Rings] :
                   /\ DeferredCounted(s.info, s.count)
                   /\ \A i \in RequestId : s.info[i].exists = info[i].exists}
           base == [info |-> info, count |-> count, queue |-> q]
<1>1. base \in V
  BY DEF DeferredCounted
<1>2. ASSUME NEW s \in V, NEW id \in RequestId PROVE Undefer(s, id) \in V
  <2> DEFINE t == Undefer(s, id)
  <2>1. /\ t.info \in Tables /\ DeferredCounted(t.info, t.count) /\ t.queue \in Rings
        /\ \A i \in RequestId : t.info[i].exists = s.info[i].exists
    <3>1. s.info \in Tables /\ DeferredCounted(s.info, s.count) /\ s.queue \in Rings
      OBVIOUS
    <3> QED BY <3>1, UndeferKeeps, Zenon
  <2>2. t \in [info : Tables, count : Nat, queue : Rings]
    <3>1. CASE ~s.info[id].deferred
      BY <3>1 DEF Undefer
    <3>2. CASE s.info[id].deferred
      <4>1. t = [info |-> t.info, count |-> t.count, queue |-> t.queue]
        BY <3>2 DEF Undefer
      <4> HIDE DEF t
      <4> QED BY <2>1, <4>1 DEF DeferredCounted
    <3> QED BY <3>1, <3>2
  <2> HIDE DEF t
  <2>3. t \in V
    BY <2>1, <2>2 DEF DeferredCounted
  <2> QED BY <2>3 DEF t
<1> HIDE DEF V, base
<1>3. Undeferred!Fold(base, ids) \in V
  BY <1>1, <1>2, Undeferred!FoldKeeps
<1>4. FoldLeft(Undefer, base, ids) \in V
  BY <1>3, UndeferredFold, Zenon
<1> QED BY <1>4 DEF V, base

-----------------------------------------------------------------------------
(***************************************************************************)
(* The ring of the latest requests.                                        *)
(***************************************************************************)

\* The ring grows with the requests until it is full; every slot then holds
\* the latest request whose number falls on it.
RingFollows ==
  /\ Len(allRequestIds) = IF requestCount < MaxAllRequestIds THEN requestCount ELSE MaxAllRequestIds
  /\ allRequestIdsHead = requestCount - Len(allRequestIds)
  /\ \A k \in 1 .. Len(allRequestIds) :
       /\ allRequestIds[k] \in 1 .. requestCount
       /\ allRequestIds[k] + MaxAllRequestIds > requestCount
       /\ (allRequestIds[k] - 1) % MaxAllRequestIds = k - 1

\* A new request takes the slot of the oldest one, or the next free one.
LEMMA RememberKeepsRing ==
  ASSUME RingFollows, requestCount \in Nat, allRequestIds \in Seq(RequestId),
         requestCount + 1 \in RequestId, requestCount' = requestCount + 1,
         Remember(requestCount + 1)
  PROVE  RingFollows' /\ allRequestIds' \in Seq(RequestId)
<1> DEFINE m == MaxAllRequestIds
           n == requestCount
           ring == allRequestIds
           h == allRequestIdsHead
<1>1. m \in Nat \ {0} /\ n \in Nat /\ ring \in Seq(RequestId) /\ RequestId \subseteq Nat
  BY RequestsAssumption DEF RequestId
<1>2. /\ Len(ring) = IF n < m THEN n ELSE m
      /\ h = n - Len(ring)
      /\ \A k \in 1 .. Len(ring) : ring[k] \in 1 .. n /\ ring[k] + m > n /\ (ring[k] - 1) % m = k - 1
  BY DEF RingFollows
<1>3. \/ Len(ring) < m /\ ring' = Append(ring, n + 1) /\ h' = h
      \/ ~(Len(ring) < m) /\ ring' = [ring EXCEPT ![(h % m) + 1] = n + 1] /\ h' = h + 1
  BY DEF Remember
<1>4. n' = n + 1 /\ m' = m /\ n + 1 \in RequestId
  OBVIOUS
<1> HIDE DEF m, n, ring, h
<1>5. CASE Len(ring) < m
  <2>1. Len(ring) = n /\ n < m /\ ring' = Append(ring, n + 1) /\ h' = h
    BY <1>1, <1>2, <1>3, <1>5
  <2>2. /\ ring' \in Seq(RequestId) /\ Len(ring') = n + 1 /\ ring'[n + 1] = n + 1
        /\ \A k \in 1 .. n : ring'[k] = ring[k]
    BY <1>1, <1>4, <2>1
  <2>3. ASSUME NEW k \in 1 .. n + 1
        PROVE  ring'[k] \in 1 .. n + 1 /\ ring'[k] + m > n + 1 /\ (ring'[k] - 1) % m = k - 1
    <3>1. CASE k = n + 1
      <4>1. ring'[k] = n + 1 /\ n % m = n
        BY <1>1, <2>1, <2>2, <3>1, FirstTurn
      <4>2. (n + 1) - 1 = n
        BY <1>1
      <4> QED BY <1>1, <3>1, <4>1, <4>2
    <3>2. CASE k \in 1 .. n
      <4>1. ring'[k] = ring[k] /\ ring[k] \in 1 .. n /\ (ring[k] - 1) % m = k - 1
        BY <1>2, <2>1, <2>2, <3>2
      <4>2. ring[k] - 1 \in Nat /\ ring[k] - 1 < m
        BY <1>1, <2>1, <4>1
      <4>3. ring[k] - 1 = k - 1
        BY <1>1, <4>1, <4>2, FirstTurn
      <4>4. ring[k] + m > n + 1
        BY <1>1, <1>2, <2>1, <3>2, <4>1, <4>3
      <4> QED BY <1>1, <4>1, <4>4
    <3> QED BY <1>1, <3>1, <3>2
  <2>4. /\ Len(ring') = IF n + 1 < m THEN n + 1 ELSE m
        /\ h' = (n + 1) - Len(ring')
        /\ \A k \in 1 .. Len(ring') :
             ring'[k] \in 1 .. n + 1 /\ ring'[k] + m > n + 1 /\ (ring'[k] - 1) % m = k - 1
    <3>1. Len(ring') = IF n + 1 < m THEN n + 1 ELSE m
      BY <1>1, <2>1, <2>2
    <3>2. h' = (n + 1) - Len(ring')
      <4>1. h = n - n
        BY <1>2, <2>1
      <4>2. n - n = (n + 1) - (n + 1)
        BY <1>1
      <4> QED BY <2>1, <2>2, <4>1, <4>2
    <3> QED BY <2>2, <2>3, <3>1, <3>2
  <2> QED BY <1>4, <2>2, <2>4 DEF RingFollows, m, n, ring, h
<1>6. CASE ~(Len(ring) < m)
  <2>1. Len(ring) = m /\ ~(n < m) /\ h = n - m /\ h \in Nat
        /\ ring' = [ring EXCEPT ![(h % m) + 1] = n + 1] /\ h' = h + 1
    BY <1>1, <1>2, <1>3, <1>6
  <2>2. h % m \in 0 .. m - 1 /\ n = h + m /\ n % m = h % m
    <3>1. n = h + m
      BY <1>1, <2>1
    <3>2. h % m \in 0 .. m - 1
      BY <1>1, <2>1, Division
    <3>3. (h + m) % m = h % m
      BY <1>1, <2>1, FullTurn
    <3> QED BY <3>1, <3>2, <3>3
  <2> DEFINE slot == (h % m) + 1
  <2>3. slot \in 1 .. m
    BY <1>1, <2>2
  <2>4. /\ ring' \in Seq(RequestId) /\ Len(ring') = m /\ ring'[slot] = n + 1
        /\ \A k \in 1 .. m : k # slot => ring'[k] = ring[k]
    BY <1>1, <1>4, <2>1, <2>3
  <2>5. ASSUME NEW k \in 1 .. m
        PROVE  ring'[k] \in 1 .. n + 1 /\ ring'[k] + m > n + 1 /\ (ring'[k] - 1) % m = k - 1
    <3>1. CASE k = slot
      <4>1. ring'[k] = n + 1 /\ (n + 1) - 1 = n
        BY <1>1, <2>4, <3>1
      <4> QED BY <1>1, <2>2, <3>1, <4>1
    <3>2. CASE k # slot
      <4>1. /\ ring'[k] = ring[k] /\ ring[k] \in 1 .. n /\ ring[k] + m > n
            /\ (ring[k] - 1) % m = k - 1
        BY <1>2, <2>1, <2>4, <3>2
      <4>2. ring[k] # n + 1 - m
        <5> SUFFICES ASSUME ring[k] = n + 1 - m PROVE FALSE
          OBVIOUS
        <5>1. ring[k] - 1 = h
          BY <1>1, <2>1
        <5>2. h % m = k - 1
          BY <4>1, <5>1
        <5> QED BY <1>1, <2>2, <3>2, <5>2
      <4> QED BY <1>1, <4>1, <4>2
    <3> QED BY <3>1, <3>2
  <2> HIDE DEF slot
  <2>6. /\ Len(ring') = IF n + 1 < m THEN n + 1 ELSE m
        /\ h' = (n + 1) - Len(ring')
        /\ \A k \in 1 .. Len(ring') :
             ring'[k] \in 1 .. n + 1 /\ ring'[k] + m > n + 1 /\ (ring'[k] - 1) % m = k - 1
    <3>1. Len(ring') = IF n + 1 < m THEN n + 1 ELSE m
      BY <1>1, <2>1, <2>4
    <3>2. h' = (n + 1) - Len(ring')
      BY <1>1, <2>1, <2>4
    <3> QED BY <2>4, <2>5, <3>1, <3>2
  <2> QED BY <1>4, <2>4, <2>6 DEF RingFollows, m, n, ring, h
<1> QED BY <1>5, <1>6 DEF m, ring

\* What the ring holds, in the words of the property.
LEMMA RingHoldsLatest ==
  ASSUME RingFollows, requestCount \in Nat, allRequestIds \in Seq(RequestId)
  PROVE  LatestRequestsKept
<1> DEFINE m == MaxAllRequestIds
           n == requestCount
           ring == allRequestIds
           latest == {id \in 1 .. n : id + m > n}
<1>1. m \in Nat \ {0} /\ n \in Nat /\ ring \in Seq(RequestId)
  BY RequestsAssumption
<1>2. /\ Len(ring) = IF n < m THEN n ELSE m
      /\ \A k \in 1 .. Len(ring) : ring[k] \in 1 .. n /\ ring[k] + m > n /\ (ring[k] - 1) % m = k - 1
  BY DEF RingFollows
<1>3. DOMAIN ring = 1 .. Len(ring)
  BY <1>1
<1>4. ToSet(ring) = {ring[k] : k \in 1 .. Len(ring)}
  BY <1>3 DEF ToSet
<1> HIDE DEF m, n, ring
<1>5. ASSUME NEW id \in latest PROVE \E k \in 1 .. Len(ring) : ring[k] = id
  <2> DEFINE k == ((id - 1) % m) + 1
  <2>1. id - 1 \in Nat /\ id \in 1 .. n /\ id + m > n
    BY <1>1
  <2>2. (id - 1) % m \in 0 .. m - 1 /\ (id - 1 < m => (id - 1) % m = id - 1)
    BY <1>1, <2>1, Division, FirstTurn
  <2>3. k \in 1 .. Len(ring)
    <3>1. CASE n < m
      BY <1>1, <1>2, <2>1, <2>2, <3>1
    <3>2. CASE ~(n < m)
      BY <1>1, <1>2, <2>2, <3>2
    <3> QED BY <3>1, <3>2
  <2>4. (ring[k] - 1) % m = (id - 1) % m /\ ring[k] \in 1 .. n /\ ring[k] + m > n
    BY <1>1, <1>2, <2>2, <2>3
  <2> HIDE DEF k
  <2>8. ring[k] \in 1 .. n /\ ring[k] + m > n /\ id \in 1 .. n /\ id + m > n
    BY <2>1, <2>4
  <2>5. ring[k] - 1 \in Nat /\ ring[k] - 1 < (id - 1) + m /\ id - 1 < (ring[k] - 1) + m
    BY <1>1, <2>8
  <2>6. ~ (ring[k] - 1 < id - 1) /\ ~ (id - 1 < ring[k] - 1)
    BY <1>1, <2>1, <2>4, <2>5, SlotsDiffer
  <2>7. ring[k] = id
    BY <1>1, <2>1, <2>4, <2>6
  <2> QED BY <2>3, <2>7
<1>6. {ring[k] : k \in 1 .. Len(ring)} = latest
  BY <1>2, <1>5
<1> QED BY <1>4, <1>6 DEF LatestRequestsKept, m, n, ring

-----------------------------------------------------------------------------
(***************************************************************************)
(* The inductive invariant.                                                *)
(***************************************************************************)

\* Every request that was made, and no other, exists in the table.
TableFollows == \A id \in RequestId : requestInfo[id].exists <=> id <= requestCount

CallsOK == calls \in [Caller -> [last : Nat, count : 0 .. DailyRequests, reset : Nat]]

RequestsIInv ==
  /\ RegistryIInv
  /\ requestCount \in 0 .. MaxRequests
  /\ requestInfo \in Tables
  /\ TableFollows
  /\ DeferredCounted(requestInfo, deferredCount)
  /\ queue \in Rings
  /\ allRequestIds \in Seq(RequestId)
  /\ RingFollows
  /\ CallsOK
  /\ paused \in BOOLEAN

\* The invariant gives the types.
LEMMA RequestsTyped == RequestsIInv => RequestsTypeOK
<1> SUFFICES ASSUME RequestsIInv PROVE RequestsTypeOK
  OBVIOUS
<1>1. RegistryTypeOK
  BY DEF RequestsIInv, RegistryIInv, RegistryInv, RegistryTypeOK
<1>2. requestInfo \in [RequestId -> Info] /\ deferredCount \in Nat
  BY DEF RequestsIInv, Tables, DeferredCounted
<1>3. /\ queue \in [slots : Seq(Account \cup {ZeroAddress}), head : Nat, count : 0 .. MaxQueueSize]
      /\ Len(queue.slots) <= MaxQueueSize
  <2>1. MaxQueueSize \in Nat
    BY RequestsAssumption
  <2> QED BY <2>1 DEF RequestsIInv, Rings, Recipient
<1>4. Len(allRequestIds) <= MaxAllRequestIds /\ allRequestIdsHead \in Nat
  <2>1. MaxAllRequestIds \in Nat /\ requestCount \in Nat
    BY RequestsAssumption DEF RequestsIInv
  <2>2. /\ Len(allRequestIds) = IF requestCount < MaxAllRequestIds THEN requestCount ELSE MaxAllRequestIds
        /\ allRequestIdsHead = requestCount - Len(allRequestIds)
    BY DEF RequestsIInv, RingFollows
  <2> QED BY <2>1, <2>2
<1> QED BY <1>1, <1>2, <1>3, <1>4 DEF RequestsIInv, CallsOK, RequestsTypeOK

\* It holds at the start.
LEMMA RequestsInitInv == RequestsInit => RequestsIInv
<1> SUFFICES ASSUME RequestsInit PROVE RequestsIInv
  OBVIOUS
<1> USE DEF RequestsInit
<1>1. RegistryIInv
  BY RegistryInitIInv
<1>2. MaxRequests \in Nat /\ MaxQueueSize \in Nat \ {0} /\ MaxAllRequestIds \in Nat \ {0} /\ DailyRequests \in Nat
  BY RequestsAssumption
<1>3. /\ requestInfo \in [RequestId -> Info]
      /\ \A id \in RequestId : ~requestInfo[id].deferred /\ ~requestInfo[id].fulfilled /\ ~requestInfo[id].exists
  BY DEF NoRequest, Info
<1>4. requestInfo \in Tables
  BY <1>3 DEF Tables
<1>5. TableFollows
  BY <1>2, <1>3 DEF TableFollows, RequestId
<1>6. DeferredCounted(requestInfo, deferredCount)
  <2>1. DeferredIn(requestInfo) = {}
    BY <1>3 DEF DeferredIn
  <2> QED BY <2>1, FS_EmptySet DEF DeferredCounted
<1>7. queue \in Rings
  <2>1. <<>> \in Seq(Recipient) /\ Len(<<>>) = 0
    OBVIOUS
  <2> QED BY <1>2, <2>1 DEF Rings
<1>8. RingFollows /\ allRequestIds \in Seq(RequestId)
  <2>1. allRequestIds = <<>> /\ requestCount = 0 /\ allRequestIdsHead = 0
    OBVIOUS
  <2>2. <<>> \in Seq(RequestId) /\ Len(<<>>) = 0
    OBVIOUS
  <2>3. \A k \in 1 .. 0 : FALSE
    OBVIOUS
  <2> HIDE DEF RequestsInit
  <2>4. Len(allRequestIds) = 0 /\ 0 < MaxAllRequestIds /\ allRequestIdsHead = requestCount - 0
    BY <1>2, <2>1, <2>2
  <2>5. RingFollows
    BY <2>1, <2>3, <2>4 DEF RingFollows
  <2> QED BY <2>1, <2>2, <2>5
<1>9. CallsOK
  BY <1>2 DEF CallsOK
<1>10. requestCount \in 0 .. MaxRequests /\ paused \in BOOLEAN
  <2>1. requestCount \in 0 .. MaxRequests
    BY <1>2
  <2>2. paused \in BOOLEAN
    BY Zenon
  <2> QED BY <2>1, <2>2
<1> QED BY <1>1, <1>4, <1>5, <1>6, <1>7, <1>8, <1>9, <1>10, Zenon DEF RequestsIInv

\* A new request.
LEMMA AskKeepsInv ==
  ASSUME RequestsIInv, NEW c \in Caller, RequestRiskUpdate(c)
  PROVE  RequestsIInv'
<1> DEFINE id == requestCount + 1
<1>1. /\ MaxRequests \in Nat /\ requestCount \in 0 .. MaxRequests /\ requestCount < MaxRequests
      /\ requestCount' = id /\ Remember(id) /\ UNCHANGED <<registryVars, deferredCount, queue, paused>>
      /\ requestInfo' = [requestInfo EXCEPT ![id] = [NoRequest EXCEPT !.exists = TRUE]]
  BY RequestsAssumption DEF RequestsIInv, RequestRiskUpdate
<1>2. id \in RequestId /\ id \in 0 .. MaxRequests /\ requestCount \in Nat
  BY <1>1 DEF RequestId
<1>3. RegistryIInv'
  BY <1>1, RegistryStepInv DEF RequestsIInv
<1>4. RingFollows' /\ allRequestIds' \in Seq(RequestId)
  BY <1>1, <1>2, RememberKeepsRing DEF RequestsIInv
<1> DEFINE new == [NoRequest EXCEPT !.exists = TRUE]
<1>5. new \in Info /\ new.exists /\ ~new.fulfilled /\ ~new.deferred
  BY DEF NoRequest, Info
<1>6. requestInfo \in [RequestId -> Info] /\ requestInfo \in Tables /\ TableFollows
  BY DEF RequestsIInv, Tables
<1>7. requestInfo' \in [RequestId -> Info] /\ requestInfo'[id] = new
      /\ \A i \in RequestId \ {id} : requestInfo'[i] = requestInfo[i]
  BY <1>1, <1>2, <1>5, <1>6
<1> HIDE DEF new
<1>8. requestInfo' \in Tables
  BY <1>5, <1>6, <1>7 DEF Tables
<1>9. TableFollows'
  <2> SUFFICES ASSUME NEW i \in RequestId PROVE requestInfo'[i].exists <=> i <= id
    BY <1>1 DEF TableFollows
  <2>1. i \in Nat
    BY DEF RequestId
  <2> QED BY <1>2, <1>5, <1>6, <1>7, <2>1 DEF TableFollows
<1>10. DeferredCounted(requestInfo', deferredCount')
  <2>1. ~requestInfo[id].exists
    BY <1>2, <1>6 DEF TableFollows
  <2>2. ~requestInfo[id].deferred
    BY <1>2, <1>6, <2>1 DEF Tables
  <2>3. DeferredIn(requestInfo') = DeferredIn(requestInfo)
    BY <1>5, <1>7, <2>2 DEF DeferredIn
  <2> QED BY <1>1, <2>3 DEF RequestsIInv, DeferredCounted
<1>11. CallsOK'
  <2>1. CallsToday(c) \in Nat /\ CallsToday(c) < DailyRequests /\ DailyRequests \in Nat
    BY RequestsAssumption DEF RequestRiskUpdate, CallsToday, RequestsIInv, CallsOK
  <2>2. CallsToday(c) + 1 \in 0 .. DailyRequests /\ now \in Nat
    BY <2>1 DEF RequestsIInv, RegistryIInv
  <2> DEFINE n == CallsToday(c) + 1
             t == IF NewWindow(c) THEN now ELSE calls[c].reset
             new1 == [last |-> now, count |-> n, reset |-> t]
  <2>3. calls \in [Caller -> [last : Nat, count : 0 .. DailyRequests, reset : Nat]]
    BY DEF RequestsIInv, CallsOK
  <2>4. t \in Nat
    BY <2>2, <2>3
  <2>5. calls' = [calls EXCEPT ![c] = new1]
    BY DEF RequestRiskUpdate
  <2> HIDE DEF n, t
  <2>6. n \in 0 .. DailyRequests
    BY <2>2 DEF n
  <2> QED BY <2>2, <2>3, <2>4, <2>5, <2>6 DEF CallsOK
<1>12. queue' \in Rings /\ paused' \in BOOLEAN
  BY <1>1 DEF RequestsIInv
<1> QED BY <1>1, <1>2, <1>3, <1>4, <1>8, <1>9, <1>10, <1>11, <1>12 DEF RequestsIInv

\* What a change of one entry of the table leaves alone.
LEMMA AnswerKeepsTable ==
  ASSUME RequestsIInv, NEW id \in RequestId, requestInfo[id].exists, NEW new \in Info,
         new.exists, new.fulfilled, requestInfo' = [requestInfo EXCEPT ![id] = new],
         requestCount' = requestCount
  PROVE  /\ requestInfo' \in Tables /\ TableFollows'
         /\ DeferredIn(requestInfo') = IF new.deferred THEN DeferredIn(requestInfo) \cup {id}
                                       ELSE DeferredIn(requestInfo) \ {id}
<1>1. requestInfo \in [RequestId -> Info] /\ requestInfo \in Tables /\ TableFollows
  BY DEF RequestsIInv, Tables
<1>2. requestInfo' \in [RequestId -> Info] /\ requestInfo'[id] = new
      /\ \A i \in RequestId \ {id} : requestInfo'[i] = requestInfo[i]
  BY <1>1
<1>3. requestInfo' \in Tables
  BY <1>1, <1>2 DEF Tables
<1>4. TableFollows'
  BY <1>1, <1>2 DEF TableFollows
<1>5. DeferredIn(requestInfo') = IF new.deferred THEN DeferredIn(requestInfo) \cup {id}
                                 ELSE DeferredIn(requestInfo) \ {id}
  BY <1>2 DEF DeferredIn
<1> QED BY <1>3, <1>4, <1>5

\* An answer that is processed at once.
LEMMA FulfillKeepsInv ==
  ASSUME RequestsIInv, NEW id \in RequestId, NEW answer \in Answer, FulfillRequest(id, answer)
  PROVE  RequestsIInv'
<1> DEFINE new == [requestInfo[id] EXCEPT !.fulfilled = TRUE, !.success = (answer.effect # "error"),
                                          !.answer = answer]
<1>1. requestInfo \in [RequestId -> Info] /\ requestInfo[id] \in Info /\ requestInfo \in Tables
  BY DEF RequestsIInv, Tables
<1>2. requestInfo' = [requestInfo EXCEPT ![id] = new]
  BY <1>1 DEF FulfillRequest, Info
<1>3. requestInfo[id].exists /\ ~requestInfo[id].fulfilled /\ ~requestInfo[id].deferred
  BY <1>1 DEF FulfillRequest, Tables
<1>4. new \in Info /\ new.exists /\ new.fulfilled /\ ~new.deferred
  BY <1>1, <1>3 DEF Info
<1> HIDE DEF new
<1>5. requestInfo' \in Tables /\ TableFollows' /\ DeferredIn(requestInfo') = DeferredIn(requestInfo) \ {id}
  BY <1>2, <1>3, <1>4, AnswerKeepsTable DEF FulfillRequest, askVars
<1>6. DeferredIn(requestInfo') = DeferredIn(requestInfo)
  BY <1>3, <1>5 DEF DeferredIn
<1>7. DeferredCounted(requestInfo', deferredCount')
  BY <1>6 DEF RequestsIInv, DeferredCounted, FulfillRequest
<1>8. queue' \in Rings
  <2>1. answer.list \in Seq(Recipient)
    BY AnswerHasList
  <2> QED BY <2>1, ResponseKeepsRing DEF RequestsIInv, FulfillRequest
<1>9. RegistryIInv'
  BY RegistryStepInv DEF RequestsIInv, FulfillRequest
<1> QED BY <1>5, <1>7, <1>8, <1>9 DEF RequestsIInv, FulfillRequest, askVars, RingFollows, CallsOK

\* An answer that is kept for later.
LEMMA DeferKeepsInv ==
  ASSUME RequestsIInv, NEW id \in RequestId, NEW answer \in Answer, DeferRequest(id, answer)
  PROVE  RequestsIInv'
<1> DEFINE new == [requestInfo[id] EXCEPT !.fulfilled = TRUE, !.deferred = TRUE, !.answer = answer]
<1>1. requestInfo \in [RequestId -> Info] /\ requestInfo[id] \in Info /\ requestInfo \in Tables
  BY DEF RequestsIInv, Tables
<1>2. requestInfo' = [requestInfo EXCEPT ![id] = new]
  BY <1>1 DEF DeferRequest, Info
<1>3. requestInfo[id].exists /\ ~requestInfo[id].fulfilled /\ ~requestInfo[id].deferred
  BY <1>1 DEF DeferRequest, Tables
<1>4. new \in Info /\ new.exists /\ new.fulfilled /\ new.deferred
  BY <1>1, <1>3 DEF Info
<1> HIDE DEF new
<1>5. requestInfo' \in Tables /\ TableFollows' /\ DeferredIn(requestInfo') = DeferredIn(requestInfo) \cup {id}
  BY <1>2, <1>3, <1>4, AnswerKeepsTable DEF DeferRequest, askVars
<1>6. DeferredCounted(requestInfo', deferredCount')
  <2>1. id \notin DeferredIn(requestInfo)
    BY <1>3 DEF DeferredIn
  <2>2. Cardinality(DeferredIn(requestInfo) \cup {id}) = Cardinality(DeferredIn(requestInfo)) + 1
    BY <2>1, DeferredFinite, FS_AddElement
  <2>3. deferredCount' = deferredCount + 1
    BY DEF DeferRequest
  <2> QED BY <1>5, <2>2, <2>3 DEF RequestsIInv, DeferredCounted
<1>7. RegistryIInv'
  BY RegistryStepInv DEF RequestsIInv, DeferRequest
<1> QED BY <1>5, <1>6, <1>7 DEF RequestsIInv, DeferRequest, askVars, RingFollows, CallsOK

\* Deferred answers that an operator processes.
LEMMA ProcessDeferredKeepsInv ==
  ASSUME RequestsIInv, NEW ids \in Seq(RequestId), ProcessDeferredRequests(ids)
  PROVE  RequestsIInv'
<1> DEFINE base == [info |-> requestInfo, count |-> deferredCount, queue |-> queue]
           done == FoldLeft(Undefer, base, ids)
<1>1. requestInfo' = done.info /\ deferredCount' = done.count /\ queue' = done.queue
      /\ UNCHANGED <<registryVars, askVars, paused>>
  BY DEF ProcessDeferredRequests
<1>2. requestInfo \in Tables /\ DeferredCounted(requestInfo, deferredCount) /\ queue \in Rings
  BY DEF RequestsIInv
<1>3. /\ done.info \in Tables /\ DeferredCounted(done.info, done.count) /\ done.queue \in Rings
      /\ \A i \in RequestId : done.info[i].exists = requestInfo[i].exists
  BY <1>2, UndeferAllKeeps
<1> HIDE DEF done
<1>4. RegistryIInv'
  BY <1>1, RegistryStepInv DEF RequestsIInv
<1>5. TableFollows'
  BY <1>1, <1>3 DEF RequestsIInv, TableFollows, askVars
<1> QED BY <1>1, <1>3, <1>4, <1>5 DEF RequestsIInv, askVars, RingFollows, CallsOK

\* A batch that an operator writes to the registry.
LEMMA ProcessPendingKeepsInv ==
  ASSUME RequestsIInv, ProcessPendingQueue
  PROVE  RequestsIInv'
<1>1. queue.count \in Nat /\ TakenNow \in 0 .. queue.count /\ BatchSize \in Nat \ {0}
  BY RequestsAssumption DEF RequestsIInv, Rings, TakenNow
<1>2. queue' \in Rings
  BY <1>1, TakingKeepsRing DEF RequestsIInv, ProcessPendingQueue
<1>3. RegistryInv(registry')
  <2> DEFINE written == FoldLeft(LAMBDA r, i : TryWrite(r, QueuedAt(i)), registry,
                                 [i \in 1 .. TakenNow |-> i])
  <2>1. RegistryInv(registry) /\ now \in Nat /\ TakenNow \in Nat
    BY <1>1 DEF RequestsIInv, RegistryIInv
  <2>2. RegistryInv(written)
    BY <2>1, BatchKeepsRegistry
  <2>3. registry' = written
    BY DEF ProcessPendingQueue
  <2> HIDE DEF written
  <2> QED BY <2>2, <2>3
<1>4. RegistryIInv'
  BY <1>3 DEF RequestsIInv, RegistryIInv, RegistryInv, HighRiskOf, SanctionedOf, KnownOf, ProcessPendingQueue
<1> QED BY <1>2, <1>4
        DEF RequestsIInv, ProcessPendingQueue, askVars, RingFollows, CallsOK, DeferredCounted, TableFollows

\* Every step of the oracle, and of the other writers of the registry, keeps it.
LEMMA RequestsStepInv == RequestsIInv /\ [RequestsNext]_requestsVars => RequestsIInv'
<1> SUFFICES ASSUME RequestsIInv, [RequestsNext]_requestsVars PROVE RequestsIInv'
  OBVIOUS
<1>1. ASSUME NEW c \in Caller, RequestRiskUpdate(c) PROVE RequestsIInv'
  BY <1>1, AskKeepsInv
<1>2. ASSUME NEW id \in RequestId, NEW answer \in Answer,
             FulfillRequest(id, answer) \/ DeferRequest(id, answer)
      PROVE  RequestsIInv'
  BY <1>2, FulfillKeepsInv, DeferKeepsInv
<1>3. ASSUME NEW id1 \in RequestId, NEW id2 \in RequestId,
             ProcessDeferredRequests(<<id1>>) \/ ProcessDeferredRequests(<<id1, id2>>)
      PROVE  RequestsIInv'
  <2>1. <<id1>> \in Seq(RequestId) /\ <<id1, id2>> \in Seq(RequestId)
    OBVIOUS
  <2> QED BY <1>3, <2>1, ProcessDeferredKeepsInv
<1>4. CASE ProcessPendingQueue
  BY <1>4, ProcessPendingKeepsInv
<1>5. CASE Pause \/ Unpause
  <2>1. RegistryIInv'
    BY <1>5, RegistryStepInv DEF RequestsIInv, Pause, Unpause
  <2> QED BY <1>5, <2>1 DEF Pause, Unpause, RequestsIInv, askVars, answerVars, RingFollows, CallsOK,
                            DeferredCounted, TableFollows
<1>6. CASE OtherWriters
  <2>1. RegistryIInv'
    BY <1>6, RegistryStepInv DEF RequestsIInv, OtherWriters
  <2> QED BY <1>6, <2>1 DEF OtherWriters, RequestsIInv, askVars, answerVars, RingFollows, CallsOK,
                            DeferredCounted, TableFollows
<1>7. CASE UNCHANGED requestsVars
  <2>1. RegistryIInv'
    BY <1>7, RegistryStepInv DEF RequestsIInv, requestsVars
  <2> QED BY <1>7, <2>1 DEF requestsVars, RequestsIInv, askVars, answerVars, RingFollows, CallsOK,
                            DeferredCounted, TableFollows
<1> QED BY <1>1, <1>2, <1>3, <1>4, <1>5, <1>6, <1>7 DEF RequestsNext

\* It holds always.
LEMMA RequestsInvariant == RequestsSpec => []RequestsIInv
BY RequestsInitInv, RequestsStepInv, PTL DEF RequestsSpec

\* Types, for any accounts, callers and answers and any sizes of queue, ring and
\* batch: neither the ring buffer of waiting addresses nor the one of request
\* numbers is ever indexed out of bounds or longer than its capacity.
THEOREM RequestsTypeSafety == RequestsSpec => []RequestsTypeOK
BY RequestsInvariant, RequestsTyped, PTL

\* The counter of deferred answers, decremented in a loop that may name a request
\* twice, is the number of requests that are deferred.
THEOREM DeferredAlwaysCounted == RequestsSpec => []DeferredCountExact
<1>1. RequestsIInv => DeferredCountExact
  BY DEF RequestsIInv, DeferredCounted, DeferredIn, DeferredCountExact
<1> QED BY <1>1, RequestsInvariant, PTL

\* The ring of request numbers holds exactly the latest ones, however often it went
\* round.
THEOREM LatestAlwaysKept == RequestsSpec => []LatestRequestsKept
<1>1. RequestsIInv => LatestRequestsKept
  BY RingHoldsLatest DEF RequestsIInv
<1> QED BY <1>1, RequestsInvariant, PTL

-----------------------------------------------------------------------------
(***************************************************************************)
(* The oracle implements the feed.                                         *)
(***************************************************************************)

Released == INSTANCE FoldLemmas WITH Op <- LAMBDA w, id : Feed!Fitting(w \o HeldLists[id])

\* The feed's loop over held lists is a fold, too.
LEMMA ReleasedFold ==
  ASSUME NEW w, NEW ids
  PROVE  Feed!FoldLeft(LAMBDA v, id : Feed!Fitting(v \o HeldLists[id]), w, ids) = Released!Fold(w, ids)
BY Zenon DEF Feed!FoldLeft, Feed!MapThenFoldSet, Feed!Max,
             Released!Fold, Released!FoldLeft, Released!MapThenFoldSet, Released!Max

\* What fits is the front of the sequence.
LEMMA FittingFront ==
  ASSUME NEW A, NEW s \in Seq(A)
  PROVE  /\ Feed!Fitting(s) \in Seq(A)
         /\ Len(Feed!Fitting(s)) = IF Len(s) < MaxQueueSize THEN Len(s) ELSE MaxQueueSize
         /\ \A i \in 1 .. Len(Feed!Fitting(s)) : Feed!Fitting(s)[i] = s[i]
<1> DEFINE n == IF Len(s) < MaxQueueSize THEN Len(s) ELSE MaxQueueSize
<1>1. MaxQueueSize \in Nat /\ Len(s) \in Nat
  BY RequestsAssumption
<1>2. n \in 0 .. Len(s)
  BY <1>1
<1>3. Feed!Fitting(s) = SubSeq(s, 1, n)
  BY DEF Feed!Fitting
<1> HIDE DEF n
<1>4. /\ SubSeq(s, 1, n) \in Seq(A) /\ Len(SubSeq(s, 1, n)) = n
      /\ \A i \in 1 .. n : SubSeq(s, 1, n)[i] = s[i]
  BY <1>2
<1> QED BY <1>3, <1>4 DEF n

\* What is short enough fits.
LEMMA AllFits ==
  ASSUME NEW A, NEW s \in Seq(A), Len(s) <= MaxQueueSize
  PROVE  Feed!Fitting(s) = s
<1>1. MaxQueueSize \in Nat /\ Len(s) \in Nat
  BY RequestsAssumption
<1>2. Feed!Fitting(s) \in Seq(A) /\ Len(Feed!Fitting(s)) = Len(s)
      /\ \A i \in 1 .. Len(Feed!Fitting(s)) : Feed!Fitting(s)[i] = s[i]
  BY <1>1, FittingFront
<1> QED BY <1>2, SameSequences

\* Nothing fits behind a full queue.
LEMMA NoMoreFits ==
  ASSUME NEW A, NEW s \in Seq(A), NEW a \in A, Len(s) >= MaxQueueSize
  PROVE  Feed!Fitting(Append(s, a)) = Feed!Fitting(s)
<1>1. MaxQueueSize \in Nat /\ Len(s) \in Nat
  BY RequestsAssumption
<1>2. /\ Append(s, a) \in Seq(A) /\ Len(Append(s, a)) = Len(s) + 1
      /\ \A i \in 1 .. Len(s) : Append(s, a)[i] = s[i]
  OBVIOUS
<1>3. Feed!Fitting(s) \in Seq(A) /\ Len(Feed!Fitting(s)) = MaxQueueSize
      /\ \A i \in 1 .. MaxQueueSize : Feed!Fitting(s)[i] = s[i]
  BY <1>1, FittingFront
<1>4. Feed!Fitting(Append(s, a)) \in Seq(A) /\ Len(Feed!Fitting(Append(s, a))) = MaxQueueSize
      /\ \A i \in 1 .. MaxQueueSize : Feed!Fitting(Append(s, a))[i] = Append(s, a)[i]
  <2> DEFINE t == Append(s, a)
  <2>1. t \in Seq(A) /\ ~(Len(t) < MaxQueueSize)
    BY <1>1, <1>2
  <2> HIDE DEF t
  <2>2. Feed!Fitting(t) \in Seq(A) /\ Len(Feed!Fitting(t)) = MaxQueueSize
        /\ \A i \in 1 .. MaxQueueSize : Feed!Fitting(t)[i] = t[i]
    BY <1>1, <2>1, FittingFront
  <2> QED BY <2>2 DEF t
<1>5. \A i \in 1 .. MaxQueueSize : Feed!Fitting(Append(s, a))[i] = Feed!Fitting(s)[i]
  BY <1>1, <1>2, <1>3, <1>4
<1> QED BY <1>3, <1>4, <1>5, SameSequences

\* An element behind the second sequence is behind both.
LEMMA BehindAll ==
  ASSUME NEW A, NEW s \in Seq(A), NEW t \in Seq(A), NEW a \in A
  PROVE  s \o Append(t, a) = Append(s \o t, a)
OBVIOUS

\* The ring drops what the feed drops, and keeps the order.
LEMMA ResponseShown ==
  ASSUME NEW q \in Rings, NEW answer, answer.list \in Seq(Recipient)
  PROVE  WaitingIn(ProcessResponse(q, answer)) = Feed!Fitting(WaitingIn(q) \o answer.list)
<1> DEFINE F(s) == Enqueued!Fold(q, s)
           W(s) == WaitingIn(q) \o s
           G == {s \in Seq(Recipient) : F(s) \in Rings /\ WaitingIn(F(s)) = Feed!Fitting(W(s))}
<1>0. WaitingIn(q) \in Seq(Recipient) /\ Len(WaitingIn(q)) = q.count /\ q.count <= MaxQueueSize
      /\ MaxQueueSize \in Nat /\ q.count \in Nat
  BY PlacesInRing, RequestsAssumption DEF Rings
<1>1. <<>> \in G
  <2>1. F(<<>>) = q
    BY Enqueued!FoldEmpty
  <2>2. W(<<>>) = WaitingIn(q)
    BY <1>0
  <2>3. Feed!Fitting(WaitingIn(q)) = WaitingIn(q)
    BY <1>0, AllFits
  <2>4. <<>> \in Seq(Recipient)
    OBVIOUS
  <2> QED BY <2>1, <2>2, <2>3, <2>4
<1>2. ASSUME NEW s \in G, NEW a \in Recipient
      PROVE  F(Append(s, a)) \in Rings /\ WaitingIn(F(Append(s, a))) = Feed!Fitting(W(Append(s, a)))
  <2>1. s \in Seq(Recipient) /\ F(s) \in Rings /\ WaitingIn(F(s)) = Feed!Fitting(W(s))
    OBVIOUS
  <2>2. F(Append(s, a)) = Enqueue(F(s), a)
    BY <2>1, Enqueued!FoldStep
  <2>3. W(s) \in Seq(Recipient) /\ Len(W(s)) \in Nat
    BY <1>0, <2>1
  <2>4. W(Append(s, a)) = Append(W(s), a)
    BY <1>0, <2>1, BehindAll
  <2> HIDE DEF F, W, G
  <2>5. /\ Enqueue(F(s), a) \in Rings
        /\ F(s).count < MaxQueueSize => WaitingIn(Enqueue(F(s), a)) = Append(WaitingIn(F(s)), a)
        /\ F(s).count >= MaxQueueSize => Enqueue(F(s), a) = F(s)
    BY <2>1, EnqueueKeepsRing
  <2>6. F(s).count = Len(Feed!Fitting(W(s)))
    BY <2>1, PlacesInRing
  <2>7. Len(Feed!Fitting(W(s))) = IF Len(W(s)) < MaxQueueSize THEN Len(W(s)) ELSE MaxQueueSize
    BY <2>3, FittingFront
  <2>8. CASE Len(W(s)) < MaxQueueSize
    <3>1. Feed!Fitting(W(s)) = W(s)
      BY <1>0, <2>3, <2>8, AllFits
    <3>2. Append(W(s), a) \in Seq(Recipient) /\ Len(Append(W(s), a)) <= MaxQueueSize
      BY <1>0, <2>3, <2>8
    <3>3. Feed!Fitting(Append(W(s), a)) = Append(W(s), a)
      BY <3>2, AllFits
    <3> QED BY <2>1, <2>2, <2>4, <2>5, <2>6, <2>7, <2>8, <3>1, <3>3
  <2>9. CASE ~(Len(W(s)) < MaxQueueSize)
    <3>1. Len(W(s)) >= MaxQueueSize /\ F(s).count >= MaxQueueSize
      BY <1>0, <2>3, <2>6, <2>7, <2>9
    <3>2. Feed!Fitting(Append(W(s), a)) = Feed!Fitting(W(s))
      BY <2>3, <3>1, NoMoreFits
    <3> QED BY <2>1, <2>2, <2>4, <2>5, <3>1, <3>2
  <2> QED BY <2>8, <2>9
<1>3. G \in SUBSET Seq(Recipient)
  OBVIOUS
<1>4. \A s \in G, a \in Recipient : Append(s, a) \in G
  <2> SUFFICES ASSUME NEW s \in G, NEW a \in Recipient PROVE Append(s, a) \in G
    OBVIOUS
  <2>1. Append(s, a) \in Seq(Recipient)
    OBVIOUS
  <2> QED BY <1>2, <2>1
<1> HIDE DEF G
<1>5. G = Seq(Recipient)
  BY <1>1, <1>3, <1>4, Enqueued!SequenceInduction
<1>6. answer.list \in G
  BY <1>5
<1> QED BY <1>6, ResponseFold DEF G

\* The feed's queue is the ring buffer, read from its head.
LEMMA QueueShown == Waiting = WaitingIn(queue) /\ Waiting' = WaitingIn(queue')
BY DEF Waiting, QueuedAt, WaitingIn

\* The stage that an entry of the table shows, and the list it holds back.
Shown(info) == IF ~info.exists THEN "none"
               ELSE IF info.deferred THEN "held"
               ELSE IF info.fulfilled THEN "settled" ELSE "open"
HeldBy(info) == IF info.deferred THEN info.answer.list ELSE <<>>

\* The feed's stages and held lists, entry by entry.
LEMMA TableShown ==
  /\ StageOf = [id \in RequestId |-> Shown(requestInfo[id])]
  /\ StageOf' = [id \in RequestId |-> Shown(requestInfo'[id])]
  /\ HeldLists = [id \in RequestId |-> HeldBy(requestInfo[id])]
  /\ HeldLists' = [id \in RequestId |-> HeldBy(requestInfo'[id])]
BY DEF StageOf, HeldLists, Shown, HeldBy

\* What the feed sees when one entry of the table changes.
LEMMA EntryShown ==
  ASSUME requestInfo \in [RequestId -> Info], NEW id \in RequestId, NEW new \in Info,
         requestInfo' = [requestInfo EXCEPT ![id] = new]
  PROVE  /\ StageOf' = [StageOf EXCEPT ![id] = Shown(new)]
         /\ HeldLists' = [HeldLists EXCEPT ![id] = HeldBy(new)]
         /\ StageOf[id] = Shown(requestInfo[id]) /\ HeldLists[id] = HeldBy(requestInfo[id])
<1>1. requestInfo'[id] = new /\ \A i \in RequestId \ {id} : requestInfo'[i] = requestInfo[i]
  OBVIOUS
<1> QED BY <1>1, TableShown

\* To hold the same list is to change nothing.
LEMMA HoldsStill ==
  ASSUME NEW id \in RequestId
  PROVE  [HeldLists EXCEPT ![id] = HeldLists[id]] = HeldLists
BY DEF HeldLists

\* The oracle starts as the feed does.
LEMMA RefinesFeedInit == RequestsInit => Feed!FeedInit
<1> SUFFICES ASSUME RequestsInit PROVE Feed!FeedInit
  OBVIOUS
<1>1. StageOf = [id \in RequestId |-> "none"] /\ HeldLists = [id \in RequestId |-> <<>>]
  BY DEF RequestsInit, StageOf, HeldLists, NoRequest
<1>2. Waiting = <<>>
  BY DEF RequestsInit, Waiting
<1> QED BY <1>1, <1>2 DEF Feed!FeedInit

\* A request that is made.
LEMMA RefinesAsk ==
  ASSUME RequestsIInv, NEW c \in Caller, RequestRiskUpdate(c)
  PROVE  Feed!FeedNext
<1> DEFINE id == requestCount + 1
           new == [NoRequest EXCEPT !.exists = TRUE]
<1>1. id \in RequestId /\ ~(id <= requestCount)
  BY RequestsAssumption DEF RequestsIInv, RequestRiskUpdate, RequestId
<1>2. requestInfo \in [RequestId -> Info] /\ requestInfo \in Tables /\ ~requestInfo[id].exists
  BY <1>1 DEF RequestsIInv, Tables, TableFollows
<1>3. ~requestInfo[id].deferred
  BY <1>1, <1>2 DEF Tables
<1>4. new \in Info /\ Shown(new) = "open" /\ HeldBy(new) = <<>>
  BY DEF NoRequest, Info, Shown, HeldBy
<1>5. requestInfo' = [requestInfo EXCEPT ![id] = new] /\ queue' = queue
  BY DEF RequestRiskUpdate
<1> HIDE DEF id, new
<1>6. /\ StageOf' = [StageOf EXCEPT ![id] = "open"]
      /\ HeldLists' = [HeldLists EXCEPT ![id] = <<>>]
      /\ StageOf[id] = "none" /\ HeldLists[id] = <<>>
  BY <1>1, <1>2, <1>3, <1>4, <1>5, EntryShown DEF Shown, HeldBy
<1>7. HeldLists' = HeldLists
  BY <1>1, <1>6, HoldsStill
<1>8. Waiting' = Waiting
  BY <1>5, QueueShown
<1> QED BY <1>1, <1>6, <1>7, <1>8 DEF Feed!Ask, Feed!FeedNext

\* An answer: its addresses wait at once.
LEMMA RefinesSettle ==
  ASSUME RequestsIInv, NEW id \in RequestId, NEW answer \in Answer, FulfillRequest(id, answer)
  PROVE  Feed!FeedNext
<1> DEFINE new == [requestInfo[id] EXCEPT !.fulfilled = TRUE, !.success = (answer.effect # "error"),
                                          !.answer = answer]
           Listed == {x.list : x \in Answer}
<1>1. requestInfo \in [RequestId -> Info] /\ requestInfo[id] \in Info /\ requestInfo \in Tables
  BY DEF RequestsIInv, Tables
<1>2. requestInfo' = [requestInfo EXCEPT ![id] = new]
  BY <1>1 DEF FulfillRequest, Info
<1>3. requestInfo[id].exists /\ ~requestInfo[id].fulfilled /\ ~requestInfo[id].deferred
  BY <1>1 DEF FulfillRequest, Tables
<1>4. new \in Info /\ new.exists /\ new.fulfilled /\ ~new.deferred
  BY <1>1, <1>3 DEF Info
<1> HIDE DEF new
<1>5. /\ StageOf' = [StageOf EXCEPT ![id] = "settled"]
      /\ HeldLists' = [HeldLists EXCEPT ![id] = <<>>]
      /\ StageOf[id] = "open" /\ HeldLists[id] = <<>>
  BY <1>1, <1>2, <1>3, <1>4, EntryShown DEF Shown, HeldBy
<1>6. HeldLists' = HeldLists
  BY <1>5, HoldsStill
<1>7. Waiting' = Feed!Fitting(Waiting \o answer.list)
  <2>1. answer.list \in Seq(Recipient)
    BY AnswerHasList
  <2>2. queue \in Rings /\ queue' = ProcessResponse(queue, answer)
    BY DEF RequestsIInv, FulfillRequest
  <2> QED BY <2>1, <2>2, ResponseShown, QueueShown
<1>8. answer.list \in Listed
  OBVIOUS
<1>9. Feed!Settle(id, answer.list)
  BY <1>5, <1>6, <1>7 DEF Feed!Settle
<1> HIDE DEF Listed
<1> QED BY <1>8, <1>9 DEF Feed!FeedNext, Listed

\* An answer that is deferred: its list is held back.
LEMMA RefinesHold ==
  ASSUME RequestsIInv, NEW id \in RequestId, NEW answer \in Answer, DeferRequest(id, answer)
  PROVE  Feed!FeedNext
<1> DEFINE new == [requestInfo[id] EXCEPT !.fulfilled = TRUE, !.deferred = TRUE, !.answer = answer]
           Listed == {x.list : x \in Answer}
<1>1. requestInfo \in [RequestId -> Info] /\ requestInfo[id] \in Info /\ requestInfo \in Tables
  BY DEF RequestsIInv, Tables
<1>2. requestInfo' = [requestInfo EXCEPT ![id] = new]
  BY <1>1 DEF DeferRequest, Info
<1>3. requestInfo[id].exists /\ ~requestInfo[id].fulfilled /\ ~requestInfo[id].deferred
  BY <1>1 DEF DeferRequest, Tables
<1>4. new \in Info /\ new.exists /\ new.deferred /\ new.answer = answer
  BY <1>1, <1>3 DEF Info
<1> HIDE DEF new
<1>5. /\ StageOf' = [StageOf EXCEPT ![id] = "held"]
      /\ HeldLists' = [HeldLists EXCEPT ![id] = answer.list]
      /\ StageOf[id] = "open"
  BY <1>1, <1>2, <1>3, <1>4, EntryShown DEF Shown, HeldBy
<1>6. Waiting' = Waiting
  BY QueueShown DEF DeferRequest
<1>7. answer.list \in Listed
  OBVIOUS
<1>8. Feed!Hold(id, answer.list)
  BY <1>5, <1>6 DEF Feed!Hold
<1> HIDE DEF Listed
<1> QED BY <1>7, <1>8 DEF Feed!FeedNext, Listed

\* An operator's batch.
LEMMA RefinesTake ==
  ASSUME RequestsIInv, ProcessPendingQueue
  PROVE  Feed!FeedNext
<1>1. queue \in Rings /\ queue.count \in Nat \ {0} /\ BatchSize \in Nat \ {0}
  <2>1. queue.count > 0
    BY DEF ProcessPendingQueue
  <2>2. queue \in Rings /\ queue.count \in Nat /\ BatchSize \in Nat \ {0}
    BY RequestsAssumption DEF RequestsIInv, Rings
  <2> QED BY <2>1, <2>2
<1>2. TakenNow \in 0 .. queue.count /\ TakenNow = IF queue.count < BatchSize THEN queue.count ELSE BatchSize
  BY <1>1 DEF TakenNow
<1>3. Waiting \in Seq(Recipient) /\ Len(Waiting) = queue.count
  BY <1>1, QueueShown, PlacesInRing
<1>4. Waiting' = SubSeq(Waiting, 1 + TakenNow, queue.count)
  BY <1>1, <1>2, QueueShown, TakingKeepsRing DEF ProcessPendingQueue
<1>5. SubSeq(Waiting, 1 + TakenNow, queue.count) = SubSeq(Waiting, 1 + BatchSize, Len(Waiting))
  <2>1. CASE queue.count < BatchSize
    <3>1. SubSeq(Waiting, 1 + TakenNow, queue.count) = <<>>
      BY <1>1, <1>2, <1>3, <2>1
    <3>2. SubSeq(Waiting, 1 + BatchSize, queue.count) = <<>>
      BY <1>1, <1>3, <2>1
    <3> QED BY <1>3, <3>1, <3>2
  <2>2. CASE ~(queue.count < BatchSize)
    BY <1>2, <1>3, <2>2
  <2> QED BY <2>1, <2>2
<1>6. Waiting # <<>>
  BY <1>1, <1>3
<1>7. StageOf' = StageOf /\ HeldLists' = HeldLists
  BY TableShown DEF ProcessPendingQueue
<1> QED BY <1>4, <1>5, <1>6, <1>7 DEF Feed!Take, Feed!FeedNext

\* One turn of the loop over deferred answers, as the feed sees it.
LEMMA UndeferShown ==
  ASSUME NEW s, s.info \in Tables, s.queue \in Rings, NEW id \in RequestId, s.info[id].deferred,
         NEW t, t = Undefer(s, id)
  PROVE  /\ Shown(s.info[id]) = "held"
         /\ t.queue \in Rings
         /\ t.info \in [RequestId -> Info]
         /\ \A i \in RequestId \ {id} : t.info[i] = s.info[i]
         /\ ~t.info[id].deferred /\ Shown(t.info[id]) = "settled" /\ HeldBy(t.info[id]) = <<>>
         /\ WaitingIn(t.queue) = Feed!Fitting(WaitingIn(s.queue) \o HeldBy(s.info[id]))
<1> DEFINE new == [s.info[id] EXCEPT !.deferred = FALSE]
<1>1. s.info \in [RequestId -> Info] /\ s.info[id] \in Info /\ s.info[id].fulfilled /\ s.info[id].exists
  BY DEF Tables
<1>2. /\ t.info = [s.info EXCEPT ![id] = new]
      /\ t.queue = ProcessResponse(s.queue, s.info[id].answer)
  BY <1>1 DEF Undefer
<1>3. new \in Info /\ ~new.deferred /\ new.fulfilled /\ new.exists
  BY <1>1 DEF Info
<1> HIDE DEF new
<1>4. /\ t.info \in [RequestId -> Info] /\ t.info[id] = new
      /\ \A i \in RequestId \ {id} : t.info[i] = s.info[i]
  BY <1>1, <1>2, <1>3
<1>5. /\ Shown(s.info[id]) = "held" /\ Shown(t.info[id]) = "settled"
      /\ HeldBy(t.info[id]) = <<>> /\ HeldBy(s.info[id]) = s.info[id].answer.list
  BY <1>1, <1>3, <1>4 DEF Shown, HeldBy
<1>6. s.info[id].answer.list \in Seq(Recipient)
  BY <1>1, AnswerHasList DEF Info
<1>7. /\ t.queue \in Rings
      /\ WaitingIn(t.queue) = Feed!Fitting(WaitingIn(s.queue) \o s.info[id].answer.list)
  BY <1>2, <1>6, ResponseKeepsRing, ResponseShown
<1> QED BY <1>3, <1>4, <1>5, <1>7

Before == [info |-> requestInfo, count |-> deferredCount, queue |-> queue]

\* The loop over one or two deferred answers, turn by turn.
LEMMA LoopTurns ==
  ASSUME NEW id1, NEW id2
  PROVE  /\ FoldLeft(Undefer, Before, <<id1>>) = Undefer(Before, id1)
         /\ FoldLeft(Undefer, Before, <<id1, id2>>) = Undefer(Undefer(Before, id1), id2)
<1>1. /\ FoldLeft(Undefer, Before, <<id1>>) = Undeferred!Fold(Before, <<id1>>)
      /\ FoldLeft(Undefer, Before, <<id1, id2>>) = Undeferred!Fold(Before, <<id1, id2>>)
  BY UndeferredFold, Zenon
<1>2. /\ Undeferred!Fold(Before, <<id1>>) = Undefer(Before, id1)
      /\ Undeferred!Fold(Before, <<id1, id2>>) = Undefer(Undefer(Before, id1), id2)
  BY Undeferred!FoldOne, Undeferred!FoldTwo
<1> QED BY <1>1, <1>2, Zenon

\* One deferred answer is released.
LEMMA RefinesReleaseOne ==
  ASSUME RequestsIInv, NEW id \in RequestId, requestInfo[id].deferred,
         NEW t, t = Undefer(Before, id), requestInfo' = t.info, queue' = t.queue
  PROVE  Feed!Release(<<id>>)
<1>1. Before.info = requestInfo /\ Before.queue = queue
  BY DEF Before
<1>2. requestInfo \in Tables /\ queue \in Rings
  BY DEF RequestsIInv
<1>3. /\ Shown(requestInfo[id]) = "held"
      /\ \A i \in RequestId \ {id} : requestInfo'[i] = requestInfo[i]
      /\ Shown(requestInfo'[id]) = "settled" /\ HeldBy(requestInfo'[id]) = <<>>
      /\ WaitingIn(queue') = Feed!Fitting(WaitingIn(queue) \o HeldBy(requestInfo[id]))
  BY <1>1, <1>2, UndeferShown
<1>4. /\ StageOf[id] = "held" /\ HeldLists[id] = HeldBy(requestInfo[id])
      /\ StageOf' = [i \in RequestId |-> IF i \in {id} THEN "settled" ELSE StageOf[i]]
      /\ HeldLists' = [i \in RequestId |-> IF i \in {id} THEN <<>> ELSE HeldLists[i]]
  BY <1>3, TableShown
<1>5. Waiting' = Feed!FoldLeft(LAMBDA v, i : Feed!Fitting(v \o HeldLists[i]), Waiting, <<id>>)
  <2>1. Released!Fold(Waiting, <<id>>) = Feed!Fitting(Waiting \o HeldLists[id])
    BY Released!FoldOne
  <2>2. Waiting' = Released!Fold(Waiting, <<id>>)
    BY <1>3, <1>4, <2>1, QueueShown
  <2> QED BY <2>2, ReleasedFold, Zenon
<1>6. Feed!ToSet(<<id>>) = {id} /\ Len(<<id>>) = 1 /\ <<id>>[1] = id
  BY DEF Feed!ToSet
<1>7. \A i \in 1 .. Len(<<id>>) : StageOf[<<id>>[i]] = "held"
  BY <1>4, <1>6
<1> QED BY <1>4, <1>5, <1>6, <1>7 DEF Feed!Release

\* Two deferred answers are released, the first one first.
LEMMA RefinesReleaseTwo ==
  ASSUME RequestsIInv, NEW id1 \in RequestId, NEW id2 \in RequestId, id1 # id2,
         requestInfo[id1].deferred, requestInfo[id2].deferred,
         NEW t, t = Undefer(Before, id1), NEW u, u = Undefer(t, id2),
         requestInfo' = u.info, queue' = u.queue
  PROVE  Feed!Release(<<id1, id2>>)
<1>1. Before.info = requestInfo /\ Before.queue = queue /\ Before.count = deferredCount
  BY DEF Before
<1>2. requestInfo \in Tables /\ queue \in Rings /\ DeferredCounted(requestInfo, deferredCount)
  BY DEF RequestsIInv
<1>3. /\ Shown(requestInfo[id1]) = "held"
      /\ t.queue \in Rings
      /\ \A i \in RequestId \ {id1} : t.info[i] = requestInfo[i]
      /\ Shown(t.info[id1]) = "settled" /\ HeldBy(t.info[id1]) = <<>>
      /\ WaitingIn(t.queue) = Feed!Fitting(WaitingIn(queue) \o HeldBy(requestInfo[id1]))
  BY <1>1, <1>2, UndeferShown
<1>4. t.info \in Tables
  BY <1>1, <1>2, UndeferKeeps
<1>5. t.info[id2] = requestInfo[id2]
  BY <1>3
<1>6. /\ Shown(t.info[id2]) = "held"
      /\ \A i \in RequestId \ {id2} : requestInfo'[i] = t.info[i]
      /\ Shown(requestInfo'[id2]) = "settled" /\ HeldBy(requestInfo'[id2]) = <<>>
      /\ WaitingIn(queue') = Feed!Fitting(WaitingIn(t.queue) \o HeldBy(t.info[id2]))
  BY <1>3, <1>4, <1>5, UndeferShown
<1>7. /\ StageOf[id1] = "held" /\ StageOf[id2] = "held"
      /\ HeldLists[id1] = HeldBy(requestInfo[id1]) /\ HeldLists[id2] = HeldBy(requestInfo[id2])
      /\ StageOf' = [i \in RequestId |-> IF i \in {id1, id2} THEN "settled" ELSE StageOf[i]]
      /\ HeldLists' = [i \in RequestId |-> IF i \in {id1, id2} THEN <<>> ELSE HeldLists[i]]
  BY <1>3, <1>5, <1>6, TableShown
<1>8. Waiting' = Feed!Fitting(Feed!Fitting(Waiting \o HeldLists[id1]) \o HeldLists[id2])
  BY <1>3, <1>5, <1>6, <1>7, QueueShown
<1>9. Waiting' = Feed!FoldLeft(LAMBDA v, i : Feed!Fitting(v \o HeldLists[i]), Waiting, <<id1, id2>>)
  <2>1. Released!Fold(Waiting, <<id1, id2>>)
          = Feed!Fitting(Feed!Fitting(Waiting \o HeldLists[id1]) \o HeldLists[id2])
    BY Released!FoldTwo
  <2>2. Waiting' = Released!Fold(Waiting, <<id1, id2>>)
    BY <1>8, <2>1
  <2> QED BY <2>2, ReleasedFold, Zenon
<1>10. /\ Feed!ToSet(<<id1, id2>>) = {id1, id2} /\ Len(<<id1, id2>>) = 2
       /\ <<id1, id2>>[1] = id1 /\ <<id1, id2>>[2] = id2
  BY DEF Feed!ToSet
<1>11. \A i \in 1 .. Len(<<id1, id2>>) : StageOf[<<id1, id2>>[i]] = "held"
  BY <1>7, <1>10
<1> QED BY <1>7, <1>9, <1>10, <1>11 DEF Feed!Release

\* What an operator names that is not deferred is skipped.
LEMMA RefinesRelease ==
  ASSUME RequestsIInv, NEW id1 \in RequestId, NEW id2 \in RequestId,
         ProcessDeferredRequests(<<id1>>) \/ ProcessDeferredRequests(<<id1, id2>>)
  PROVE  [Feed!FeedNext]_(Feed!feedVars)
<1> DEFINE t == Undefer(Before, id1)
           u == Undefer(t, id2)
<1>1. \/ requestInfo' = t.info /\ queue' = t.queue
      \/ requestInfo' = u.info /\ queue' = u.queue
  BY LoopTurns DEF ProcessDeferredRequests, Before
<1>2. Before.info = requestInfo /\ Before.queue = queue /\ Before.count = deferredCount
      /\ requestInfo \in Tables /\ queue \in Rings
  BY DEF Before, RequestsIInv
<1>3. ~requestInfo[id1].deferred => t = Before
  BY <1>2 DEF Undefer
<1>4. ~t.info[id2].deferred => u = t
  BY DEF Undefer
<1>5. requestInfo[id1].deferred =>
        ~t.info[id1].deferred /\ \A i \in RequestId \ {id1} : t.info[i] = requestInfo[i]
  BY <1>2, UndeferShown
<1> HIDE DEF t, u
<1>6. CASE requestInfo' = requestInfo /\ queue' = queue
  <2>1. UNCHANGED Feed!feedVars
    BY <1>6, TableShown, QueueShown DEF Feed!feedVars
  <2> QED BY <2>1
<1>7. CASE requestInfo[id1].deferred /\ requestInfo' = t.info /\ queue' = t.queue
  <2>1. Feed!Release(<<id1>>)
    BY <1>7, RefinesReleaseOne DEF t
  <2> QED BY <2>1 DEF Feed!FeedNext
<1>8. CASE ~requestInfo[id1].deferred /\ requestInfo' = u.info /\ queue' = u.queue
           /\ requestInfo[id2].deferred
  <2>1. u = Undefer(Before, id2)
    BY <1>3, <1>8 DEF u
  <2>2. Feed!Release(<<id2>>)
    BY <1>8, <2>1, RefinesReleaseOne
  <2> QED BY <2>2 DEF Feed!FeedNext
<1>9. CASE requestInfo[id1].deferred /\ requestInfo' = u.info /\ queue' = u.queue
           /\ id1 # id2 /\ requestInfo[id2].deferred
  <2>1. Feed!Release(<<id1, id2>>)
    BY <1>9, RefinesReleaseTwo DEF t, u
  <2> QED BY <1>9, <2>1 DEF Feed!FeedNext
<1> QED BY <1>1, <1>2, <1>3, <1>4, <1>5, <1>6, <1>7, <1>8, <1>9

\* Every step of the oracle is a step of the feed, or shows nothing.
LEMMA RefinesFeedStep ==
  RequestsIInv /\ [RequestsNext]_requestsVars => [Feed!FeedNext]_(Feed!feedVars)
<1> SUFFICES ASSUME RequestsIInv, [RequestsNext]_requestsVars
             PROVE  [Feed!FeedNext]_(Feed!feedVars)
  OBVIOUS
<1>1. ASSUME NEW c \in Caller, RequestRiskUpdate(c) PROVE Feed!FeedNext
  BY <1>1, RefinesAsk
<1>2. ASSUME NEW id \in RequestId, NEW answer \in Answer,
             FulfillRequest(id, answer) \/ DeferRequest(id, answer)
      PROVE  Feed!FeedNext
  BY <1>2, RefinesSettle, RefinesHold
<1>3. ASSUME NEW id1 \in RequestId, NEW id2 \in RequestId,
             ProcessDeferredRequests(<<id1>>) \/ ProcessDeferredRequests(<<id1, id2>>)
      PROVE  [Feed!FeedNext]_(Feed!feedVars)
  BY <1>3, RefinesRelease
<1>4. CASE ProcessPendingQueue
  BY <1>4, RefinesTake
<1>5. CASE Pause \/ Unpause \/ OtherWriters \/ UNCHANGED requestsVars
  <2>1. requestInfo' = requestInfo /\ queue' = queue
    BY <1>5 DEF Pause, Unpause, OtherWriters, requestsVars, answerVars
  <2> QED BY <2>1, TableShown, QueueShown DEF Feed!feedVars
<1> QED BY <1>1, <1>2, <1>3, <1>4, <1>5 DEF RequestsNext

\* The refinement: with its ring buffer, its table and its counter the oracle does
\* what the feed promises. Answers wait in the order they came, whole lists at a
\* time, and only a full queue drops addresses, the last ones.
THEOREM OracleImplementsFeed == RequestsSpec => ImplementsFeed
BY RefinesFeedInit, RefinesFeedStep, RequestsInvariant, PTL
   DEF RequestsSpec, ImplementsFeed, Feed!FeedSpec
=============================================================================
