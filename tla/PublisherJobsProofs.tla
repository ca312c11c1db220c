------------------------- MODULE PublisherJobsProofs -------------------------
(***************************************************************************)
(* The theorems about the jobs of the data publisher: the sync jobs of the *)
(* cluster, for any instances, jobs, locks and numbers of faults, and the  *)
(* batch sync, for any processes, addresses and bounds.                    *)
(*                                                                         *)
(* The sync jobs: a mutex that is locked makes room for one job, each      *)
(* early return for one more.  A release either hands its room to one      *)
(* waiter or unlocks the mutex, whichever of the paths of a job it is on;  *)
(* the job that releases has left, so the count is kept.                   *)
(*                                                                         *)
(* The batch sync: the state file calls nothing published that has no      *)
(* profile on chain.  It is written from the memory of a run that may have *)
(* looked at the chain long before, and read back from a backup that is    *)
(* older still.  The fact holds of every copy of the state, since no       *)
(* address loses its profile again.  It enters a copy with a receipt: each *)
(* address of the batch was then written, or skipped because it was        *)
(* written lately.                                                         *)
(***************************************************************************)
EXTENDS SyncJobs, BatchSync, FiniteSetTheorems, TLAPS

-----------------------------------------------------------------------------
(* The inductive invariant *)

MutexOK(m) == m \in Mutex /\ (m.waiters # <<>> => m.locked)

Held(m) == IF m.locked THEN 1 ELSE 0

ClusterOK ==
  /\ lock \in [LockName -> Instance \cup {Nobody}]
  /\ watchdogs \in [Instance -> SUBSET LockName]
  /\ heartbeats \subseteq Instance
  /\ up \subseteq Instance

CountersOK == faults \in 0 .. MaxFaults /\ stuck \subseteq Instance /\ preempted \in BOOLEAN

Queued(i) == {j \in Job : at[j] = i /\ step[j] = "queued"}

JobsOK ==
  /\ step \in [Job -> Steps]
  /\ mutex \in [Instance -> Mutex]
  /\ \A i \in Instance : MutexOK(mutex[i]) /\ ToSet(mutex[i].waiters) = Queued(i)
  /\ early \in [Instance -> SUBSET Job]

\* A job that took an early return is on its way out.
EarlyGone == \A i \in Instance : \A j \in early[i] : step[j] \in {"deleting", "ended", "lost"}

Admitted ==
  \A i \in Instance :
    /\ IsFiniteSet(Inside(i)) /\ IsFiniteSet(early[i])
    /\ Cardinality(Inside(i)) <= Cardinality(early[i]) + Held(mutex[i])

IInv == ClusterOK /\ CountersOK /\ JobsOK /\ EarlyGone /\ Admitted

\* The inductive invariant contains the checked ones.
LEMMA Strengthening == IInv => TypeOK /\ MutexAdmits
<1> SUFFICES ASSUME IInv PROVE TypeOK /\ MutexAdmits
  OBVIOUS
<1>1. TypeOK
  BY DEF IInv, ClusterOK, CountersOK, JobsOK, MutexOK, Queued, TypeOK
<1>2. MutexAdmits
  <2> SUFFICES ASSUME NEW i \in Instance
               PROVE  Cardinality(Inside(i)) <= 1 + Cardinality(early[i])
    BY DEF MutexAdmits
  <2>1. Cardinality(Inside(i)) \in Nat /\ Cardinality(early[i]) \in Nat
    BY FS_CardinalityType DEF IInv, Admitted
  <2> QED BY <2>1 DEF IInv, Admitted, Held
<1> QED BY <1>1, <1>2

\* The initial states satisfy it.
LEMMA Initially == Init => IInv
<1> SUFFICES ASSUME Init PROVE IInv
  OBVIOUS
<1> USE DEF Init, ClusterInit
<1>1. ClusterOK /\ CountersOK
  <2>1. lock \in [LockName -> Instance \cup {Nobody}] /\ watchdogs \in [Instance -> SUBSET LockName]
    OBVIOUS
  <2>2. heartbeats \subseteq Instance /\ up \subseteq Instance
    OBVIOUS
  <2>3. faults \in 0 .. MaxFaults
    BY SyncConstants
  <2> QED BY <2>1, <2>2, <2>3 DEF ClusterOK, CountersOK
<1>2. JobsOK
  <2>1. FreeMutex \in Mutex /\ FreeMutex.waiters = <<>> /\ ToSet(FreeMutex.waiters) = {}
    BY DEF FreeMutex, Mutex, ToSet
  <2>2. \A i \in Instance : mutex[i] = FreeMutex /\ Queued(i) = {}
    BY DEF Queued
  <2>3. /\ step \in [Job -> Steps] /\ mutex \in [Instance -> Mutex]
        /\ early \in [Instance -> SUBSET Job]
    BY <2>1 DEF Steps
  <2> QED BY <2>1, <2>2, <2>3 DEF JobsOK, MutexOK
<1>3. EarlyGone /\ Admitted
  <2>1. \A i \in Instance : Inside(i) = {} /\ early[i] = {}
    BY DEF Inside, InsideSteps
  <2>2. \A i \in Instance : Held(mutex[i]) = 0
    BY DEF Held, FreeMutex
  <2>3. EarlyGone
    BY <2>1 DEF EarlyGone
  <2> HIDE DEF Init
  <2>4. Admitted
    BY <2>1, <2>2, FS_EmptySet DEF Admitted
  <2> QED BY <2>3, <2>4
<1> QED BY <1>1, <1>2, <1>3 DEF IInv

-----------------------------------------------------------------------------
(* The mutex *)

\* What is left of a queue was in it.
LEMMA TailKeepsElements ==
  ASSUME NEW s \in Seq(Job), s # <<>>
  PROVE  /\ Tail(s) \in Seq(Job)
         /\ ToSet(Tail(s)) \subseteq ToSet(s)
         /\ ToSet(s) \ ToSet(Tail(s)) \subseteq {Head(s)}
<1>1. Tail(s) \in Seq(Job) /\ Len(s) \in Nat \ {0} /\ Len(Tail(s)) = Len(s) - 1
  OBVIOUS
<1>2. \A k \in 1 .. Len(s) - 1 : Tail(s)[k] = s[k + 1]
  OBVIOUS
<1>3. ToSet(Tail(s)) \subseteq ToSet(s)
  BY <1>1, <1>2 DEF ToSet
<1>4. ASSUME NEW k \in 1 .. Len(s), k # 1
      PROVE  s[k] \in ToSet(Tail(s))
  <2>1. k - 1 \in DOMAIN Tail(s) /\ Tail(s)[k - 1] = s[k]
    BY <1>1, <1>2, <1>4
  <2> QED BY <2>1 DEF ToSet
<1>5. Head(s) = s[1]
  OBVIOUS
<1> QED BY <1>1, <1>3, <1>4, <1>5 DEF ToSet

\* A release hands its room to one waiter or gives it back.
LEMMA Released ==
  ASSUME NEW m, MutexOK(m)
  PROVE  /\ MutexOK(Release(m))
         /\ ToSet(Release(m).waiters) \subseteq ToSet(m.waiters)
         /\ IsFiniteSet(Granted(m, Release(m)))
         /\ Cardinality(Granted(m, Release(m))) + Held(m) <= 1 + Held(Release(m))
<1> DEFINE r == Release(m)
           G == Granted(m, r)
<1>1. CASE m.waiters = <<>>
  <2>1. r = [m EXCEPT !.locked = FALSE] /\ MutexOK(r) /\ r.waiters = m.waiters /\ ~ r.locked
    BY <1>1 DEF Release, MutexOK, Mutex
  <2>2. G = {}
    BY <2>1 DEF Granted
  <2>3. IsFiniteSet(G) /\ Cardinality(G) = 0
    BY <2>2, FS_EmptySet
  <2> HIDE DEF r, G
  <2>4. MutexOK(r) /\ ToSet(r.waiters) \subseteq ToSet(m.waiters)
    BY <2>1
  <2>5. Cardinality(G) + Held(m) <= 1 + Held(r)
    BY <2>1, <2>3 DEF Held
  <2> QED BY <2>3, <2>4, <2>5 DEF r, G
<1>2. CASE m.waiters # <<>>
  <2>1. r = [m EXCEPT !.waiters = Tail(@)]
    BY <1>2 DEF Release
  <2>2. m.waiters \in Seq(Job) /\ m.locked = TRUE
    BY <1>2 DEF MutexOK, Mutex
  <2>3. r \in Mutex /\ r.waiters = Tail(m.waiters) /\ r.locked = TRUE
    BY <1>2, <2>1, <2>2, TailKeepsElements DEF MutexOK, Mutex
  <2>4. /\ ToSet(r.waiters) \subseteq ToSet(m.waiters)
        /\ G \subseteq {Head(m.waiters)}
    BY <1>2, <2>2, <2>3, TailKeepsElements DEF Granted
  <2>5. IsFiniteSet(G) /\ Cardinality(G) \in Nat /\ Cardinality(G) <= 1
    <3>1. IsFiniteSet({Head(m.waiters)}) /\ Cardinality({Head(m.waiters)}) = 1
      BY FS_Singleton
    <3> HIDE DEF G
    <3> QED BY <2>4, <3>1, FS_Subset, FS_CardinalityType
  <2> HIDE DEF r, G
  <2>6. Cardinality(G) + Held(m) <= 1 + Held(r)
    BY <2>2, <2>3, <2>5 DEF Held
  <2> QED BY <2>3, <2>4, <2>5, <2>6 DEF r, G, MutexOK
<1> QED BY <1>1, <1>2

\* Two releases in a row make room for one job more than the one that leaves.
LEMMA ReleasedTwice ==
  ASSUME NEW m, MutexOK(m)
  PROVE  /\ MutexOK(Release(Release(m)))
         /\ ToSet(Release(Release(m)).waiters) \subseteq ToSet(m.waiters)
         /\ IsFiniteSet(Granted(m, Release(Release(m))))
         /\ Cardinality(Granted(m, Release(Release(m)))) + Held(m)
              <= 2 + Held(Release(Release(m)))
<1> DEFINE r == Release(m)
           t == Release(r)
           A == Granted(m, r)
           B == Granted(r, t)
           G == Granted(m, t)
<1>1. /\ MutexOK(r) /\ ToSet(r.waiters) \subseteq ToSet(m.waiters)
      /\ IsFiniteSet(A) /\ Cardinality(A) + Held(m) <= 1 + Held(r)
  BY Released
<1> HIDE DEF r
<1>2. /\ MutexOK(t) /\ ToSet(t.waiters) \subseteq ToSet(r.waiters)
      /\ IsFiniteSet(B) /\ Cardinality(B) + Held(r) <= 1 + Held(t)
  BY <1>1, Released
<1>3. G \subseteq A \cup B
  BY DEF Granted
<1> HIDE DEF t, A, B, G
<1>4. /\ IsFiniteSet(A \cup B)
      /\ Cardinality(A \cup B) = Cardinality(A) + Cardinality(B) - Cardinality(A \cap B)
  BY <1>1, <1>2, FS_Union
<1>5. IsFiniteSet(G) /\ Cardinality(G) <= Cardinality(A \cup B)
  BY <1>3, <1>4, FS_Subset
<1>6. IsFiniteSet(A \cap B)
  <2>1. A \cap B \in SUBSET A
    OBVIOUS
  <2> QED BY <1>1, <2>1, FS_Subset
<1>7. /\ Cardinality(A) \in Nat /\ Cardinality(B) \in Nat
      /\ Cardinality(A \cap B) \in Nat /\ Cardinality(G) \in Nat
  BY <1>1, <1>2, <1>5, <1>6, FS_CardinalityType
<1>8. Cardinality(G) + Held(m) <= 2 + Held(t)
  BY <1>1, <1>2, <1>4, <1>5, <1>7 DEF Held
<1>9. ToSet(t.waiters) \subseteq ToSet(m.waiters)
  BY <1>1, <1>2
<1> QED BY <1>2, <1>5, <1>8, <1>9 DEF r, t, G

-----------------------------------------------------------------------------
(* Steps of a job *)

\* A step of the job that holds the mutex, or that deletes its lock afterwards.
LEMMA GoToKeepsInvariant ==
  ASSUME IInv, NEW j \in Job, NEW s \in Steps, GoTo(j, s), UNCHANGED early,
         \/ step[j] \in InsideSteps /\ s \in InsideSteps \cup {"ended", "lost"}
         \/ step[j] = "deleting" /\ s = "ended",
         ClusterOK', CountersOK'
  PROVE  IInv'
<1>1. /\ step \in [Job -> Steps] /\ step' = [step EXCEPT ![j] = s]
      /\ mutex' = mutex /\ early' = early
  BY DEF GoTo, IInv, JobsOK
<1>2. step[j] # "queued" /\ s # "queued"
  BY DEF InsideSteps
<1>3. \A i \in Instance : Queued(i)' = Queued(i)
  BY <1>1, <1>2 DEF Queued
<1>4. JobsOK'
  BY <1>1, <1>3 DEF IInv, JobsOK
<1>5. EarlyGone'
  BY <1>1 DEF IInv, EarlyGone, InsideSteps, JobsOK
<1>6. \A i \in Instance : Inside(i)' \subseteq Inside(i)
  BY <1>1 DEF Inside, InsideSteps
<1>7. Admitted'
  <2> SUFFICES ASSUME NEW i \in Instance
               PROVE  /\ IsFiniteSet(Inside(i)') /\ IsFiniteSet(early[i])
                      /\ Cardinality(Inside(i)') <= Cardinality(early[i]) + Held(mutex[i])
    BY <1>1 DEF Admitted
  <2>1. /\ IsFiniteSet(Inside(i)) /\ IsFiniteSet(early[i])
        /\ Cardinality(Inside(i)) <= Cardinality(early[i]) + Held(mutex[i])
    BY DEF IInv, Admitted
  <2>2. IsFiniteSet(Inside(i)') /\ Cardinality(Inside(i)') <= Cardinality(Inside(i))
    BY <1>6, <2>1, FS_Subset
  <2>3. /\ Cardinality(Inside(i)') \in Nat /\ Cardinality(Inside(i)) \in Nat
        /\ Cardinality(early[i]) \in Nat
    BY <2>1, <2>2, FS_CardinalityType
  <2> QED BY <2>1, <2>2, <2>3 DEF Held
<1> QED BY <1>4, <1>5, <1>7 DEF IInv

\* A job that leaves lets in no more than it may: one, and one more for an early return.
LEMMA LeavingKeepsInvariant ==
  ASSUME IInv, NEW j \in Job, step[j] \in InsideSteps, NEW s \in {"ended", "deleting"},
         NEW r, MutexOK(r), ToSet(r.waiters) \subseteq ToSet(mutex[at[j]].waiters),
         LeaveMutex(j, r, s),
         NEW more \in {{}, {j}}, early' = [early EXCEPT ![at[j]] = @ \cup more],
         IsFiniteSet(Granted(mutex[at[j]], r)),
         Cardinality(Granted(mutex[at[j]], r)) + Held(mutex[at[j]])
           <= 1 + Cardinality(more) + Held(r),
         ClusterOK', CountersOK'
  PROVE  IInv'
<1> DEFINE h == at[j]
           G == Granted(mutex[h], r)
<1>1. /\ h \in Instance /\ step \in [Job -> Steps] /\ mutex \in [Instance -> Mutex]
      /\ early \in [Instance -> SUBSET Job]
      /\ \A i \in Instance : MutexOK(mutex[i]) /\ ToSet(mutex[i].waiters) = Queued(i)
  BY SyncConstants DEF IInv, JobsOK
<1>2. /\ mutex' = [mutex EXCEPT ![h] = r]
      /\ step' = [k \in Job |-> IF k = j THEN s ELSE IF k \in G THEN "locking" ELSE step[k]]
  BY DEF LeaveMutex
<1>3. G \subseteq Queued(h) /\ j \notin G /\ ToSet(r.waiters) = Queued(h) \ G
  BY <1>1 DEF Granted, Queued, InsideSteps
<1>4. r \in Mutex
  BY DEF MutexOK
<1> HIDE DEF h, G
<1>5. j \notin early[h] /\ \A i \in Instance : j \notin early[i]
  BY <1>1 DEF IInv, EarlyGone, InsideSteps
<1>6. JobsOK'
  <2>1. step' \in [Job -> Steps]
    BY <1>1, <1>2 DEF Steps
  <2>2. mutex' \in [Instance -> Mutex] /\ early' \in [Instance -> SUBSET Job]
    BY <1>1, <1>2, <1>4 DEF h
  <2>3. ASSUME NEW i \in Instance
        PROVE  MutexOK(mutex'[i]) /\ ToSet(mutex'[i].waiters) = Queued(i)'
    <3>1. CASE i = h
      <4>1. Queued(h)' = Queued(h) \ G
        BY <1>2, <1>3 DEF Queued, InsideSteps
      <4>2. mutex'[i] = r
        BY <1>1, <1>2, <3>1
      <4> QED BY <1>3, <3>1, <4>1, <4>2
    <3>2. CASE i # h
      <4>1. Queued(i)' = Queued(i)
        BY <1>2, <1>3, <3>2 DEF Queued, InsideSteps, h
      <4>2. mutex'[i] = mutex[i]
        BY <1>1, <1>2, <3>2
      <4> QED BY <1>1, <4>1, <4>2
    <3> QED BY <3>1, <3>2
  <2> QED BY <2>1, <2>2, <2>3 DEF JobsOK
<1>7. EarlyGone'
  <2> SUFFICES ASSUME NEW i \in Instance, NEW k \in early'[i]
               PROVE  step'[k] \in {"deleting", "ended", "lost"}
    BY DEF EarlyGone
  <2>1. k = j \/ k \in early[i]
    BY <1>1 DEF h
  <2>2. CASE k = j
    BY <1>2, <2>2
  <2>3. CASE k \in early[i]
    <3>1. step[k] \in {"deleting", "ended", "lost"} /\ k \in Job
      BY <1>1, <2>3 DEF IInv, EarlyGone
    <3>2. k \notin G
      BY <1>3, <3>1 DEF Queued
    <3> QED BY <1>2, <3>1, <3>2
  <2> QED BY <2>1, <2>2, <2>3
<1>8. Admitted'
  <2> SUFFICES ASSUME NEW i \in Instance
               PROVE  /\ IsFiniteSet(Inside(i)') /\ IsFiniteSet(early'[i])
                      /\ Cardinality(Inside(i)') <= Cardinality(early'[i]) + Held(mutex'[i])
    BY DEF Admitted
  <2>1. /\ IsFiniteSet(Inside(i)) /\ IsFiniteSet(early[i])
        /\ Cardinality(Inside(i)) <= Cardinality(early[i]) + Held(mutex[i])
    BY DEF IInv, Admitted
  <2>2. CASE i # h
    <3>1. Inside(i)' = Inside(i)
      BY <1>2, <1>3, <2>2 DEF Inside, Queued, h
    <3>2. early'[i] = early[i] /\ mutex'[i] = mutex[i]
      BY <1>1, <1>2, <2>2 DEF h
    <3> QED BY <2>1, <3>1, <3>2
  <2>3. CASE i = h
    <3> DEFINE S == Inside(h) \ {j}
    <3>1. j \in Inside(h)
      BY DEF Inside, h
    <3>2. Inside(h)' = S \cup G
      BY <1>2, <1>3 DEF Inside, Queued, h, InsideSteps
    <3>3. IsFiniteSet(S) /\ Cardinality(S) = Cardinality(Inside(h)) - 1
      BY <2>1, <2>3, <3>1, FS_RemoveElement
    <3>4. IsFiniteSet(G)
      BY DEF G, h
    <3> HIDE DEF S
    <3>5. /\ IsFiniteSet(S \cup G)
          /\ Cardinality(S \cup G) = Cardinality(S) + Cardinality(G) - Cardinality(S \cap G)
      BY <3>3, <3>4, FS_Union
    <3>6. S \cap G \in SUBSET G
      OBVIOUS
    <3>7. IsFiniteSet(S \cap G)
      BY <3>4, <3>6, FS_Subset
    <3>8. early'[h] = early[h] \cup more
      BY <1>1 DEF h
    <3>9. IsFiniteSet(early'[h]) /\ Cardinality(early'[h]) = Cardinality(early[h]) + Cardinality(more)
      <4>1. CASE more = {}
        <5>1. Cardinality(more) = 0 /\ early'[h] = early[h]
          BY <3>8, <4>1, FS_EmptySet
        <5>2. Cardinality(early[h]) \in Nat
          BY <2>1, <2>3, FS_CardinalityType
        <5> QED BY <2>1, <2>3, <5>1, <5>2
      <4>2. CASE more = {j}
        <5>1. Cardinality(more) = 1
          BY <4>2, FS_Singleton
        <5> QED BY <1>5, <2>1, <2>3, <3>8, <4>2, <5>1, FS_AddElement
      <4> QED BY <4>1, <4>2
    <3>10. /\ Cardinality(G) \in Nat /\ Cardinality(S) \in Nat
           /\ Cardinality(S \cap G) \in Nat /\ Cardinality(early[h]) \in Nat
           /\ Cardinality(Inside(h)) \in Nat /\ Cardinality(more) \in Nat
      BY <2>1, <2>3, <3>3, <3>4, <3>7, FS_CardinalityType, FS_EmptySet, FS_Singleton
    <3>11. mutex'[h] = r
      BY <1>1, <1>2
    <3>12. Cardinality(G) + Held(mutex[h]) <= 1 + Cardinality(more) + Held(r)
      BY DEF G, h
    <3>13. Cardinality(S \cup G) <= Cardinality(early'[h]) + Held(r)
      BY <2>1, <2>3, <3>3, <3>5, <3>9, <3>10, <3>12 DEF Held
    <3> QED BY <2>3, <3>2, <3>5, <3>9, <3>11, <3>13
  <2> QED BY <2>2, <2>3
<1> QED BY <1>6, <1>7, <1>8 DEF IInv

\* A release hands the mutex to the first waiter, or unlocks it.
LEMMA SingleRelease ==
  ASSUME IInv, NEW j \in Job, step[j] \in InsideSteps, NEW s \in {"ended", "deleting"},
         LeaveMutex(j, Release(mutex[at[j]]), s), UNCHANGED early, ClusterOK', CountersOK'
  PROVE  IInv'
<1> DEFINE m == mutex[at[j]]
           none == {j} \ {j}
<1>1. MutexOK(m)
  BY SyncConstants DEF IInv, JobsOK
<1>2. /\ MutexOK(Release(m)) /\ ToSet(Release(m).waiters) \subseteq ToSet(m.waiters)
      /\ IsFiniteSet(Granted(m, Release(m)))
      /\ Cardinality(Granted(m, Release(m))) + Held(m) <= 1 + Held(Release(m))
  BY <1>1, Released
<1>3. none \in {{}, {j}} /\ Cardinality(none) = 0
  BY FS_EmptySet
<1>4. early' = [early EXCEPT ![at[j]] = @ \cup none]
  BY SyncConstants DEF IInv, JobsOK
<1> HIDE DEF none
<1>5. Cardinality(Granted(m, Release(m))) + Held(m) <= 1 + Cardinality(none) + Held(Release(m))
  BY <1>2, <1>3 DEF Held
<1> QED BY <1>2, <1>3, <1>4, <1>5, LeavingKeepsInvariant

\* Two releases in a row let two waiters in.
LEMMA DoubleRelease ==
  ASSUME IInv, NEW j \in Job, step[j] \in InsideSteps, NEW s \in {"ended", "deleting"},
         LeaveMutex(j, Release(Release(mutex[at[j]])), s),
         early' = [early EXCEPT ![at[j]] = @ \cup {j}], ClusterOK', CountersOK'
  PROVE  IInv'
<1> DEFINE m == mutex[at[j]]
           r == Release(Release(m))
<1>1. MutexOK(m)
  BY SyncConstants DEF IInv, JobsOK
<1>2. /\ MutexOK(r) /\ ToSet(r.waiters) \subseteq ToSet(m.waiters)
      /\ IsFiniteSet(Granted(m, r))
      /\ Cardinality(Granted(m, r)) + Held(m) <= 2 + Held(r)
  BY <1>1, ReleasedTwice
<1>3. {j} \in {{}, {j}} /\ Cardinality({j}) = 1
  BY FS_Singleton
<1>4. LeaveMutex(j, r, s)
  OBVIOUS
<1> HIDE DEF r
<1>5. Cardinality(Granted(m, r)) + Held(m) <= 1 + Cardinality({j}) + Held(r)
  BY <1>2, <1>3 DEF Held
<1> QED BY <1>2, <1>3, <1>4, <1>5, LeavingKeepsInvariant

-----------------------------------------------------------------------------
(* Every step keeps the invariant *)

\* A job that starts takes the mutex or joins its queue.
LEMMA StartKeepsInvariant ==
  ASSUME IInv, NEW j \in Job, StartJob(j)
  PROVE  IInv'
<1> DEFINE h == at[j]
<1>1. /\ h \in Instance /\ step \in [Job -> Steps] /\ mutex \in [Instance -> Mutex]
      /\ \A i \in Instance : MutexOK(mutex[i]) /\ ToSet(mutex[i].waiters) = Queued(i)
  BY SyncConstants DEF IInv, JobsOK
<1>2. step[j] = "none" /\ UNCHANGED <<clusterVars, faults, observers>>
  BY DEF StartJob
<1>3. ClusterOK' /\ CountersOK' /\ early' = early
  BY <1>2 DEF IInv, ClusterOK, CountersOK, clusterVars, observers
<1>4. \A i \in Instance : j \notin early[i]
  BY <1>2 DEF IInv, EarlyGone
<1> HIDE DEF h
<1>5. CASE mutex[h].locked
  <2>1. /\ mutex' = [mutex EXCEPT ![h].waiters = Append(@, j)]
        /\ step' = [step EXCEPT ![j] = "queued"]
    BY <1>5 DEF StartJob, h
  <2> DEFINE r == [mutex[h] EXCEPT !.waiters = Append(@, j)]
  <2>2. mutex' = [mutex EXCEPT ![h] = r]
    BY <1>1, <2>1
  <2>3. r \in Mutex /\ r.locked = mutex[h].locked /\ r.waiters = Append(mutex[h].waiters, j)
    <3> DEFINE w == mutex[h].waiters
               v == Append(w, j)
    <3>1. mutex[h] \in Mutex /\ w \in Seq(Job) /\ r = [mutex[h] EXCEPT !.waiters = v]
      BY <1>1 DEF Mutex
    <3>2. v \in Seq(Job)
      BY <3>1
    <3> HIDE DEF r, v
    <3>3. r \in Mutex /\ r.locked = mutex[h].locked /\ r.waiters = v
      BY <3>1, <3>2 DEF Mutex
    <3> QED BY <3>3 DEF v
  <2>4. ToSet(r.waiters) = ToSet(mutex[h].waiters) \cup {j}
    <3>1. mutex[h].waiters \in Seq(Job)
      BY <1>1 DEF Mutex
    <3> DEFINE w == mutex[h].waiters
               v == Append(w, j)
    <3>2. /\ Len(w) \in Nat /\ DOMAIN v = 1 .. Len(w) + 1 /\ DOMAIN w = 1 .. Len(w)
          /\ v[Len(w) + 1] = j /\ \A k \in 1 .. Len(w) : v[k] = w[k]
      BY <3>1
    <3> HIDE DEF w, v
    <3>3. ToSet(v) = ToSet(w) \cup {j}
      BY <3>2 DEF ToSet
    <3> QED BY <2>3, <3>3 DEF w, v
  <2> HIDE DEF r
  <2>5. Queued(h)' = Queued(h) \cup {j}
    BY <1>1, <2>1 DEF Queued, h
  <2>6. \A i \in Instance \ {h} : Queued(i)' = Queued(i) /\ mutex'[i] = mutex[i]
    BY <1>1, <2>1, <2>2, <1>2 DEF Queued, h
  <2>7. JobsOK'
    <3>1. step' \in [Job -> Steps] /\ mutex' \in [Instance -> Mutex]
      BY <1>1, <2>1, <2>2, <2>3 DEF Steps
    <3>2. early' \in [Instance -> SUBSET Job]
      BY <1>3 DEF IInv, JobsOK
    <3>3. mutex'[h] = r /\ MutexOK(r)
      BY <1>1, <1>5, <2>2, <2>3 DEF MutexOK
    <3>4. \A i \in Instance : MutexOK(mutex'[i]) /\ ToSet(mutex'[i].waiters) = Queued(i)'
      BY <1>1, <2>4, <2>5, <2>6, <3>3
    <3> QED BY <3>1, <3>2, <3>4 DEF JobsOK
  <2>8. \A i \in Instance : Inside(i)' = Inside(i) /\ Held(mutex'[i]) = Held(mutex[i])
    <3>1. \A i \in Instance : Inside(i)' = Inside(i)
      BY <1>1, <1>2, <2>1 DEF Inside, InsideSteps
    <3>2. \A i \in Instance : mutex'[i].locked = mutex[i].locked
      BY <1>1, <2>2, <2>3, <2>6
    <3> QED BY <3>1, <3>2 DEF Held
  <2>9. Admitted'
    BY <1>3, <2>8 DEF IInv, Admitted
  <2>10. EarlyGone'
    BY <1>1, <1>3, <1>4, <2>1 DEF IInv, EarlyGone, JobsOK
  <2> QED BY <1>3, <2>7, <2>9, <2>10 DEF IInv
<1>6. CASE ~ mutex[h].locked
  <2>1. /\ mutex' = [mutex EXCEPT ![h].locked = TRUE]
        /\ step' = [step EXCEPT ![j] = "locking"]
    BY <1>6 DEF StartJob, h
  <2> DEFINE r == [mutex[h] EXCEPT !.locked = TRUE]
  <2>2. mutex' = [mutex EXCEPT ![h] = r]
    BY <1>1, <2>1
  <2>3. r \in Mutex /\ r.locked = TRUE /\ r.waiters = mutex[h].waiters
    BY <1>1 DEF Mutex
  <2> HIDE DEF r
  <2>4. \A i \in Instance : Queued(i)' = Queued(i)
    BY <1>1, <1>2, <2>1 DEF Queued
  <2>5. JobsOK'
    <3>1. step' \in [Job -> Steps] /\ mutex' \in [Instance -> Mutex]
      BY <1>1, <2>1, <2>2, <2>3 DEF Steps
    <3>2. early' \in [Instance -> SUBSET Job]
      BY <1>3 DEF IInv, JobsOK
    <3>3. \A i \in Instance : MutexOK(mutex'[i]) /\ mutex'[i].waiters = mutex[i].waiters
      BY <1>1, <2>2, <2>3 DEF MutexOK
    <3> QED BY <1>1, <2>4, <3>1, <3>2, <3>3 DEF JobsOK
  <2>6. EarlyGone'
    BY <1>1, <1>3, <1>4, <2>1 DEF IInv, EarlyGone, JobsOK
  <2>7. Admitted'
    <3> SUFFICES ASSUME NEW i \in Instance
                 PROVE  /\ IsFiniteSet(Inside(i)') /\ IsFiniteSet(early[i])
                        /\ Cardinality(Inside(i)') <= Cardinality(early[i]) + Held(mutex'[i])
      BY <1>3 DEF Admitted
    <3>1. /\ IsFiniteSet(Inside(i)) /\ IsFiniteSet(early[i])
          /\ Cardinality(Inside(i)) <= Cardinality(early[i]) + Held(mutex[i])
      BY DEF IInv, Admitted
    <3>2. CASE i # h
      <4>1. Inside(i)' = Inside(i) /\ mutex'[i] = mutex[i]
        BY <1>1, <2>1, <2>2, <3>2 DEF Inside, h
      <4> QED BY <3>1, <4>1
    <3>3. CASE i = h
      <4>1. Inside(h)' = Inside(h) \cup {j} /\ j \notin Inside(h)
        BY <1>1, <1>2, <2>1 DEF Inside, h, InsideSteps
      <4>2. /\ IsFiniteSet(Inside(h)')
            /\ Cardinality(Inside(h)') = Cardinality(Inside(h)) + 1
        BY <3>1, <3>3, <4>1, FS_AddElement
      <4>3. Held(mutex[h]) = 0 /\ Held(mutex'[h]) = 1
        BY <1>1, <1>6, <2>2, <2>3 DEF Held
      <4>4. Cardinality(Inside(h)) \in Nat /\ Cardinality(early[h]) \in Nat
        BY <3>1, <3>3, FS_CardinalityType
      <4> QED BY <3>1, <3>3, <4>2, <4>3, <4>4
    <3> QED BY <3>2, <3>3
  <2> QED BY <1>3, <2>5, <2>6, <2>7 DEF IInv
<1> QED BY <1>5, <1>6

\* A lock is taken, or another is looked for.
LEMMA LockStepKeepsInvariant ==
  ASSUME IInv, NEW j \in Job, AcquireLock(j) \/ ProbeDeadOwner(j) \/ TakeOver(j) \/ LockError(j)
  PROVE  IInv'
<1> USE SyncConstants DEF IInv, ClusterOK, CountersOK, clusterVars, observers
<1>1. at[j] \in Instance /\ kind[j] \in LockName
  OBVIOUS
<1>2. CASE AcquireLock(j)
  <2>1. ClusterOK' /\ CountersOK' /\ UNCHANGED early
    BY <1>1, <1>2 DEF AcquireLock, TakeLock
  <2>2. step[j] = "locking" /\ \E s \in {"collecting", "probing"} : GoTo(j, s)
    BY <1>2 DEF AcquireLock
  <2> QED BY <2>1, <2>2, GoToKeepsInvariant DEF InsideSteps, Steps
<1>3. CASE ProbeDeadOwner(j)
  <2>1. ClusterOK' /\ CountersOK' /\ UNCHANGED early
    BY <1>3 DEF ProbeDeadOwner
  <2>2. step[j] = "probing" /\ GoTo(j, "forcing")
    BY <1>3 DEF ProbeDeadOwner
  <2> QED BY <2>1, <2>2, GoToKeepsInvariant DEF InsideSteps, Steps
<1>4. CASE TakeOver(j)
  <2>1. step[j] = "forcing" /\ GoTo(j, "locking") /\ UNCHANGED early
    BY <1>4 DEF TakeOver
  <2>2. ClusterOK'
    BY <1>1, <1>4 DEF TakeOver, ForceRelease
  <2>3. CountersOK'
    BY <1>4 DEF TakeOver, Preempts
  <2> QED BY <2>1, <2>2, <2>3, GoToKeepsInvariant DEF InsideSteps, Steps
<1>5. CASE LockError(j)
  <2>1. ClusterOK' /\ CountersOK' /\ UNCHANGED early
    BY <1>1, <1>5 DEF LockError
  <2>2. step[j] \in {"locking", "probing", "forcing"} /\ GoTo(j, "lost")
    BY <1>5 DEF LockError
  <2> QED BY <2>1, <2>2, GoToKeepsInvariant DEF InsideSteps, Steps
<1> QED BY <1>2, <1>3, <1>4, <1>5

\* A job collects, publishes, and gives up what it holds.
LEMMA WorkKeepsInvariant ==
  ASSUME IInv, NEW j \in Job,
         Collect(j) \/ NothingToPublish(j) \/ DropLock(j) \/ DeleteOwnLock(j)
  PROVE  IInv'
<1> USE SyncConstants DEF IInv, ClusterOK, CountersOK, clusterVars, observers
<1>1. at[j] \in Instance /\ kind[j] \in LockName
  OBVIOUS
<1>2. CASE Collect(j)
  <2>1. ClusterOK' /\ CountersOK' /\ UNCHANGED early
    BY <1>2 DEF Collect
  <2>2. step[j] = "collecting" /\ GoTo(j, "publishing")
    BY <1>2 DEF Collect
  <2> QED BY <2>1, <2>2, GoToKeepsInvariant DEF InsideSteps, Steps
<1>3. CASE NothingToPublish(j)
  <2>1. ClusterOK' /\ CountersOK' /\ UNCHANGED early
    BY <1>1, <1>3 DEF NothingToPublish, StopWatchdog
  <2>2. step[j] = "collecting" /\ \E s \in {"dropping", "leaving"} : GoTo(j, s)
    BY <1>3 DEF NothingToPublish
  <2> QED BY <2>1, <2>2, GoToKeepsInvariant DEF InsideSteps, Steps
<1>4. CASE DropLock(j)
  <2>1. ClusterOK' /\ CountersOK' /\ UNCHANGED early
    BY <1>1, <1>4 DEF DropLock, DeleteLock
  <2>2. step[j] = "dropping" /\ GoTo(j, "leaving")
    BY <1>4 DEF DropLock
  <2> QED BY <2>1, <2>2, GoToKeepsInvariant DEF InsideSteps, Steps
<1>5. CASE DeleteOwnLock(j)
  <2>1. step[j] = "deleting" /\ GoTo(j, "ended") /\ UNCHANGED early
    BY <1>5 DEF DeleteOwnLock
  <2>2. ClusterOK'
    BY <1>1, <1>5 DEF DeleteOwnLock, DeleteLock
  <2>3. CountersOK'
    BY <1>5 DEF DeleteOwnLock
  <2> QED BY <2>1, <2>2, <2>3, GoToKeepsInvariant DEF Steps
<1> QED BY <1>2, <1>3, <1>4, <1>5

\* A job gives up the mutex: skipped, done, or early.
LEMMA LeaveKeepsInvariant ==
  ASSUME IInv, NEW j \in Job, SkipJob(j) \/ FinishJob(j) \/ LeaveEarly(j)
  PROVE  IInv'
<1> USE SyncConstants DEF IInv, ClusterOK, CountersOK, clusterVars, observers
<1>1. at[j] \in Instance /\ kind[j] \in LockName
  OBVIOUS
<1>2. CASE SkipJob(j)
  <2>1. ClusterOK' /\ CountersOK' /\ UNCHANGED early
    BY <1>2 DEF SkipJob
  <2>2. step[j] \in InsideSteps /\ LeaveMutex(j, Release(mutex[at[j]]), "ended")
    BY <1>2 DEF SkipJob, InsideSteps
  <2> QED BY <2>1, <2>2, SingleRelease
<1>3. CASE FinishJob(j)
  <2>1. ClusterOK' /\ CountersOK' /\ UNCHANGED early
    BY <1>1, <1>3 DEF FinishJob, StopWatchdog
  <2>2. /\ step[j] \in InsideSteps
        /\ \E s \in {"ended", "deleting"} : LeaveMutex(j, Release(mutex[at[j]]), s)
    BY <1>3 DEF FinishJob, Running, InsideSteps
  <2> QED BY <2>1, <2>2, SingleRelease
<1>4. CASE LeaveEarly(j)
  <2>1. ClusterOK' /\ CountersOK'
    BY <1>1, <1>4 DEF LeaveEarly, StopWatchdog
  <2>2. /\ step[j] \in InsideSteps /\ early' = [early EXCEPT ![at[j]] = @ \cup {j}]
        /\ \E s \in {"ended", "deleting"} : LeaveMutex(j, Release(Release(mutex[at[j]])), s)
    BY <1>4 DEF LeaveEarly, InsideSteps
  <2> QED BY <2>1, <2>2, DoubleRelease
<1> QED BY <1>2, <1>3, <1>4

\* A process that stops takes its mutex and its jobs with it.
LEMMA CrashKeepsInvariant ==
  ASSUME IInv, NEW c \in Instance, Crash(c)
  PROVE  IInv'
<1>1. /\ step \in [Job -> Steps] /\ mutex \in [Instance -> Mutex]
      /\ early \in [Instance -> SUBSET Job]
      /\ \A i \in Instance : MutexOK(mutex[i]) /\ ToSet(mutex[i].waiters) = Queued(i)
  BY DEF IInv, JobsOK
<1>2. /\ mutex' = [mutex EXCEPT ![c] = FreeMutex] /\ early' = [early EXCEPT ![c] = {}]
      /\ step' = [j \in Job |-> IF at[j] = c /\ step[j] \notin {"none", "ended"}
                               THEN "lost" ELSE step[j]]
  BY DEF Crash
<1>3. ClusterOK' /\ CountersOK'
  BY SyncConstants DEF IInv, ClusterOK, CountersOK, Crash, StopInstance
<1>4. FreeMutex \in Mutex /\ MutexOK(FreeMutex) /\ ToSet(FreeMutex.waiters) = {}
      /\ Held(FreeMutex) = 0
  BY DEF FreeMutex, Mutex, MutexOK, ToSet, Held
<1>5. Queued(c)' = {} /\ Inside(c)' = {} /\ mutex'[c] = FreeMutex /\ early'[c] = {}
  BY <1>1, <1>2 DEF Queued, Inside, InsideSteps
<1>6. \A i \in Instance \ {c} :
        /\ Queued(i)' = Queued(i) /\ Inside(i)' = Inside(i)
        /\ mutex'[i] = mutex[i] /\ early'[i] = early[i]
  BY <1>1, <1>2 DEF Queued, Inside
<1>7. JobsOK'
  <2>1. /\ step' \in [Job -> Steps] /\ mutex' \in [Instance -> Mutex]
        /\ early' \in [Instance -> SUBSET Job]
    BY <1>1, <1>2, <1>4 DEF Steps
  <2> QED BY <1>1, <1>4, <1>5, <1>6, <2>1 DEF JobsOK
<1>8. EarlyGone'
  BY <1>1, <1>2, <1>5, <1>6 DEF IInv, EarlyGone
<1>9. Admitted'
  <2>1. /\ IsFiniteSet(Inside(c)') /\ IsFiniteSet(early'[c])
        /\ Cardinality(Inside(c)') <= Cardinality(early'[c]) + Held(mutex'[c])
    BY <1>4, <1>5, FS_EmptySet
  <2> QED BY <1>6, <2>1 DEF IInv, Admitted
<1> QED BY <1>3, <1>7, <1>8, <1>9 DEF IInv

\* Timers and keys that run out leave the jobs alone.
LEMMA ClockKeepsInvariant ==
  ASSUME IInv, \/ \E i \in Instance : Beat(i) \/ BeatExpires(i)
               \/ \E n \in LockName : KeyExpires(n)
  PROVE  IInv'
<1>1. UNCHANGED <<step, mutex, early>>
  BY DEF Beat, BeatExpires, KeyExpires, jobVars, observers
<1>2. ClusterOK' /\ CountersOK'
  BY DEF IInv, ClusterOK, CountersOK, Beat, BeatExpires, KeyExpires, Heartbeat,
         HeartbeatExpires, LeaseExpires, observers
<1> QED
  BY <1>1, <1>2 DEF IInv, JobsOK, EarlyGone, Admitted, Queued, Inside

\* A step that changes nothing keeps the invariant.
LEMMA StutterKeepsInvariant ==
  ASSUME IInv, UNCHANGED vars
  PROVE  IInv'
BY DEF IInv, ClusterOK, CountersOK, JobsOK, EarlyGone, Admitted, Queued, Inside, vars,
       clusterVars, jobVars, observers

\* Every step keeps the invariant.
LEMMA Inductive == IInv /\ [Next]_vars => IInv'
<1> SUFFICES ASSUME IInv, [Next]_vars PROVE IInv'
  OBVIOUS
<1>1. CASE UNCHANGED vars
  BY <1>1, StutterKeepsInvariant
<1>2. CASE \E j \in Job : StartJob(j) \/ JobStep(j) \/ LockError(j)
  BY <1>2, StartKeepsInvariant, LockStepKeepsInvariant, WorkKeepsInvariant,
     LeaveKeepsInvariant DEF JobStep
<1>3. CASE \E i \in Instance : Crash(i)
  BY <1>3, CrashKeepsInvariant
<1>4. CASE \/ \E i \in Instance : Beat(i) \/ BeatExpires(i)
           \/ \E n \in LockName : KeyExpires(n)
  BY <1>4, ClockKeepsInvariant
<1> QED BY <1>1, <1>2, <1>3, <1>4 DEF Next

\* So every reachable state satisfies it.
LEMMA Invariance == Spec => []IInv
<1>1. Init => IInv
  BY Initially
<1>2. IInv /\ [Next]_vars => IInv'
  BY Inductive
<1> QED BY <1>1, <1>2, PTL DEF Spec

-----------------------------------------------------------------------------
(* Keys and the jobs that count on them *)

\* Unless a key was taken away, whoever counts on one has it, alone.
KeysCounted ==
  \A j \in Job : CountsOn(j) => /\ lock[kind[j]] = at[j]
                                /\ \A k \in Job : CountsOn(k) /\ kind[k] = kind[j] => k = j

KInv == IInv /\ (preempted \/ KeysCounted)

\* Nobody new counts on a key, and no key that is counted on changes.
LEMMA KeysLeftAlone ==
  ASSUME KeysCounted,
         \A j \in Job : CountsOn(j)' => CountsOn(j) /\ lock'[kind[j]] = lock[kind[j]]
  PROVE  KeysCounted'
BY DEF KeysCounted

\* A step of a job that gets no key: nobody starts to count on one.
LEMMA GoingOnCountsLess ==
  ASSUME IInv, NEW j \in Job, NEW s \in Steps, GoTo(j, s), UNCHANGED early,
         CountsOn(j) \/ s \notin {"collecting", "publishing", "dropping", "deleting"},
         s # "deleting"
  PROVE  \A k \in Job : CountsOn(k)' => CountsOn(k)
BY DEF GoTo, CountsOn, Running, IInv, JobsOK

\* The same for a job that gives up the mutex.
LEMMA LeavingCountsLess ==
  ASSUME IInv, NEW j \in Job, NEW s, NEW r, LeaveMutex(j, r, s),
         \A i \in Instance : early[i] \subseteq early'[i],
         s = "ended" \/ (s = "deleting" /\ (CountsOn(j) \/ j \in early'[at[j]]))
  PROVE  \A k \in Job : CountsOn(k)' => CountsOn(k)
<1> SUFFICES ASSUME NEW k \in Job, CountsOn(k)' PROVE CountsOn(k)
  OBVIOUS
<1>1. at[k] \in Instance
  BY SyncConstants
<1>2. CASE k = j
  <2>1. step'[k] = s
    BY <1>2 DEF LeaveMutex
  <2> QED BY <1>2, <2>1 DEF CountsOn, Running
<1>3. CASE k # j
  <2>1. step'[k] = step[k] \/ step'[k] = "locking"
    BY <1>3 DEF LeaveMutex
  <2> QED BY <1>1, <2>1 DEF CountsOn, Running
<1> QED BY <1>2, <1>3

\* A job that takes the key of its type is the only one with it.
LEMMA AcquireKeepsKeys ==
  ASSUME IInv, KeysCounted, NEW j \in Job, AcquireLock(j)
  PROVE  KeysCounted'
<1> DEFINE n == kind[j]
<1>1. /\ n \in LockName /\ at[j] \in Instance /\ lock \in [LockName -> Instance \cup {Nobody}]
      /\ step \in [Job -> Steps]
  BY SyncConstants DEF IInv, ClusterOK, JobsOK
<1>2. step[j] = "locking" /\ early' = early
  BY DEF AcquireLock, observers
<1>3. CASE lock[n] = Nobody
  <2>1. lock' = [lock EXCEPT ![n] = at[j]] /\ step' = [step EXCEPT ![j] = "collecting"]
    BY <1>3 DEF AcquireLock, TakeLock, GoTo
  <2>2. \A k \in Job : CountsOn(k) => kind[k] # n
    BY <1>3, SyncConstants, ClusterConstants DEF KeysCounted
  <2>3. \A k \in Job : CountsOn(k)' => k = j \/ CountsOn(k)
    BY <1>1, <1>2, <2>1 DEF CountsOn, Running
  <2> QED BY <1>1, <2>1, <2>2, <2>3, SyncConstants DEF KeysCounted
<1>4. CASE lock[n] # Nobody
  <2>1. GoTo(j, "probing") /\ lock' = lock
    BY <1>4 DEF AcquireLock, clusterVars
  <2>2. \A k \in Job : CountsOn(k)' => CountsOn(k)
    BY <1>2, <2>1, GoingOnCountsLess DEF Steps
  <2> QED BY <2>1, <2>2, KeysLeftAlone
<1> QED BY <1>3, <1>4

\* The steps that delete a key on which somebody may count.
LEMMA DeletionKeepsKeys ==
  ASSUME IInv, KeysCounted, ~ preempted',
         NEW j \in Job, TakeOver(j) \/ DeleteOwnLock(j) \/ DropLock(j)
  PROVE  KeysCounted'
<1>1. /\ kind \in [Job -> LockName] /\ at \in [Job -> Instance]
      /\ lock \in [LockName -> Instance \cup {Nobody}] /\ step \in [Job -> Steps]
  BY SyncConstants DEF IInv, ClusterOK, JobsOK
<1>2. /\ lock' = [lock EXCEPT ![kind[j]] = Nobody] /\ UNCHANGED early
      /\ \E s \in {"locking", "ended", "leaving"} : GoTo(j, s)
  BY DEF TakeOver, ForceRelease, DeleteOwnLock, DropLock, DeleteLock, observers
<1>3. \A k \in Job : CountsOn(k)' => CountsOn(k) /\ k # j
  BY <1>1, <1>2 DEF GoTo, CountsOn, Running
<1>4. \A k \in Job : CountsOn(k) /\ kind[k] = kind[j] => k = j
  <2>1. CASE TakeOver(j)
    BY <2>1 DEF TakeOver, Preempts
  <2>2. CASE DropLock(j)
    BY <2>2 DEF DropLock, CountsOn, KeysCounted
  <2>3. CASE DeleteOwnLock(j) /\ j \in early[at[j]]
    BY <2>3 DEF DeleteOwnLock, Preempts
  <2>4. CASE DeleteOwnLock(j) /\ j \notin early[at[j]]
    BY <2>4 DEF DeleteOwnLock, CountsOn, KeysCounted
  <2> QED BY <2>1, <2>2, <2>3, <2>4
<1>5. \A k \in Job : CountsOn(k)' => CountsOn(k) /\ lock'[kind[k]] = lock[kind[k]]
  BY <1>1, <1>2, <1>3, <1>4
<1> QED BY <1>5, KeysLeftAlone

\* A job that goes on, or gives up the mutex, takes no key.
LEMMA WorkKeepsKeys ==
  ASSUME IInv, KeysCounted, NEW j \in Job,
         \/ SkipJob(j) \/ ProbeDeadOwner(j) \/ LockError(j) \/ Collect(j)
         \/ NothingToPublish(j) \/ LeaveEarly(j) \/ FinishJob(j)
  PROVE  KeysCounted'
<1>1. lock' = lock
  BY DEF SkipJob, ProbeDeadOwner, LockError, Collect, NothingToPublish, LeaveEarly, FinishJob,
         StopWatchdog, clusterVars
<1>2. /\ at[j] \in Instance /\ early \in [Instance -> SUBSET Job]
      /\ Running(j) => CountsOn(j)
  BY SyncConstants DEF IInv, JobsOK, CountsOn
<1>3. \A k \in Job : CountsOn(k)' => CountsOn(k)
  <2>1. CASE SkipJob(j)
    BY <2>1, LeavingCountsLess DEF SkipJob, observers
  <2>2. CASE ProbeDeadOwner(j) \/ LockError(j)
    <3>1. UNCHANGED early /\ \E s \in {"forcing", "lost"} : GoTo(j, s)
      BY <2>2 DEF ProbeDeadOwner, LockError, observers
    <3> QED BY <3>1, GoingOnCountsLess DEF Steps
  <2>3. CASE Collect(j) \/ NothingToPublish(j)
    <3>1. /\ UNCHANGED early /\ CountsOn(j)
          /\ \E s \in {"publishing", "dropping", "leaving"} : GoTo(j, s)
      BY <1>2, <2>3 DEF Collect, NothingToPublish, Running, observers
    <3> QED BY <3>1, GoingOnCountsLess DEF Steps
  <2>4. CASE LeaveEarly(j)
    <3>1. early' = [early EXCEPT ![at[j]] = @ \cup {j}]
      BY <2>4 DEF LeaveEarly
    <3>2. j \in early'[at[j]] /\ \A i \in Instance : early[i] \subseteq early'[i]
      BY <1>2, <3>1
    <3>3. \E s \in {"ended", "deleting"} : LeaveMutex(j, Release(Release(mutex[at[j]])), s)
      BY <2>4 DEF LeaveEarly
    <3> QED BY <3>2, <3>3, LeavingCountsLess
  <2>5. CASE FinishJob(j)
    <3>1. CountsOn(j) /\ early' = early
      BY <1>2, <2>5 DEF FinishJob, observers
    <3>2. \E s \in {"ended", "deleting"} : LeaveMutex(j, Release(mutex[at[j]]), s)
      BY <2>5 DEF FinishJob
    <3> QED BY <3>1, <3>2, LeavingCountsLess
  <2> QED BY <2>1, <2>2, <2>3, <2>4, <2>5
<1> QED BY <1>1, <1>3, KeysLeftAlone

\* What is not a step of a job that has the lock.
LEMMA OtherStepsKeepKeys ==
  ASSUME IInv, KeysCounted, ~ preempted',
         \/ \E j \in Job : StartJob(j)
         \/ \E i \in Instance : Beat(i) \/ BeatExpires(i) \/ Crash(i)
         \/ \E n \in LockName : KeyExpires(n)
         \/ UNCHANGED vars
  PROVE  KeysCounted'
<1>1. /\ kind \in [Job -> LockName] /\ at \in [Job -> Instance]
      /\ lock \in [LockName -> Instance \cup {Nobody}] /\ step \in [Job -> Steps]
      /\ early \in [Instance -> SUBSET Job]
  BY SyncConstants DEF IInv, ClusterOK, JobsOK
<1>2. CASE \E j \in Job : StartJob(j)
  <2>1. PICK j \in Job : StartJob(j)
    BY <1>2
  <2>2. /\ lock' = lock /\ early' = early /\ step[j] = "none"
        /\ \E s \in {"queued", "locking"} : step' = [step EXCEPT ![j] = s]
    BY <2>1 DEF StartJob, clusterVars, observers
  <2>3. \A k \in Job : CountsOn(k)' => CountsOn(k)
    BY <1>1, <2>2 DEF CountsOn, Running
  <2> QED BY <2>2, <2>3, KeysLeftAlone
<1>3. CASE \E i \in Instance : Crash(i)
  <2>1. PICK i \in Instance : Crash(i)
    BY <1>3
  <2>2. /\ lock' = lock /\ early' = [early EXCEPT ![i] = {}]
        /\ step' = [k \in Job |-> IF at[k] = i /\ step[k] \notin {"none", "ended"}
                                 THEN "lost" ELSE step[k]]
    BY <2>1 DEF Crash, StopInstance
  <2>3. \A k \in Job : CountsOn(k)' => CountsOn(k)
    BY <1>1, <2>2 DEF CountsOn, Running
  <2> QED BY <2>2, <2>3, KeysLeftAlone
<1>4. CASE \E n \in LockName : KeyExpires(n)
  <2>1. PICK n \in LockName : KeyExpires(n)
    BY <1>4
  <2>2. /\ lock' = [lock EXCEPT ![n] = Nobody] /\ UNCHANGED <<step, early>>
        /\ \A k \in Job : CountsOn(k) => kind[k] # n
    BY <2>1 DEF KeyExpires, LeaseExpires, Preempts, jobVars
  <2>3. \A k \in Job : CountsOn(k)' => CountsOn(k) /\ lock'[kind[k]] = lock[kind[k]]
    BY <1>1, <2>2 DEF CountsOn, Running
  <2> QED BY <2>3, KeysLeftAlone
<1>5. CASE (\E i \in Instance : Beat(i) \/ BeatExpires(i)) \/ UNCHANGED vars
  <2>1. UNCHANGED <<lock, step, early>>
    BY <1>5 DEF Beat, BeatExpires, Heartbeat, HeartbeatExpires, jobVars, observers, vars,
                clusterVars
  <2>2. \A k \in Job : CountsOn(k)' => CountsOn(k)
    BY <2>1 DEF CountsOn, Running
  <2> QED BY <2>1, <2>2, KeysLeftAlone
<1> QED BY <1>2, <1>3, <1>4, <1>5

\* A key that was taken away stays on record.
LEMMA PreemptionRecorded ==
  ASSUME preempted, IInv, [Next]_vars
  PROVE  preempted'
<1>1. CASE UNCHANGED vars
  BY <1>1 DEF vars, observers
<1>2. CASE \E j \in Job : StartJob(j) \/ JobStep(j) \/ LockError(j)
  BY <1>2 DEF JobStep, StartJob, AcquireLock, SkipJob, ProbeDeadOwner, TakeOver, LockError, Collect,
              NothingToPublish, DropLock, LeaveEarly, FinishJob, DeleteOwnLock, observers
<1>3. CASE \/ \E i \in Instance : Beat(i) \/ BeatExpires(i) \/ Crash(i)
           \/ \E n \in LockName : KeyExpires(n)
  BY <1>3 DEF Beat, BeatExpires, Crash, KeyExpires, observers
<1> QED BY <1>1, <1>2, <1>3 DEF Next

\* Until a key is taken away, the keys count the running jobs.
LEMMA KeysInvariance == Spec => []KInv
<1>1. Init => KInv
  <2> SUFFICES ASSUME Init PROVE KeysCounted
    BY Initially DEF KInv
  <2>1. \A j \in Job : ~ CountsOn(j)
    BY DEF Init, CountsOn, Running
  <2> QED BY <2>1 DEF KeysCounted
<1>2. KInv /\ [Next]_vars => KInv'
  <2> SUFFICES ASSUME KInv, [Next]_vars, ~ preempted' PROVE KeysCounted'
    BY Inductive DEF KInv
  <2>1. IInv /\ KeysCounted
    BY PreemptionRecorded DEF KInv
  <2>2. CASE \E j \in Job : JobStep(j) \/ LockError(j)
    BY <2>1, <2>2, AcquireKeepsKeys, DeletionKeepsKeys, WorkKeepsKeys DEF JobStep
  <2>3. CASE \/ \E j \in Job : StartJob(j)
             \/ \E i \in Instance : Beat(i) \/ BeatExpires(i) \/ Crash(i)
             \/ \E n \in LockName : KeyExpires(n)
             \/ UNCHANGED vars
    BY <2>1, <2>3, OtherStepsKeepKeys
  <2> QED BY <2>2, <2>3 DEF Next
<1> QED BY <1>1, <1>2, PTL DEF Spec

-----------------------------------------------------------------------------
(* The theorems *)

\* Every variable of the jobs, the mutexes and the cluster lock keeps its type, a
\* mutex with waiters is locked, and its queue holds exactly the jobs that wait.
THEOREM JobsTypeSafety == Spec => []TypeOK
<1>1. IInv => TypeOK
  BY Strengthening
<1> QED BY <1>1, Invariance, PTL

\* The mutex of an instance admits one job, and one more for every job that took an
\* early return, on every path: skipped, failed, taken over, crashed.
THEOREM MutexAdmitsOne == Spec => []MutexAdmits
<1>1. IInv => MutexAdmits
  BY Strengthening
<1> QED BY <1>1, Invariance, PTL

\* No two jobs of a type run at a time, on however many instances, unless a key was
\* taken over, ran out, or was deleted by the second look of an early return.
THEOREM JobsOfATypeAlone == Spec => []OneJobPerType
<1>1. KInv => OneJobPerType
  BY DEF KInv, KeysCounted, OneJobPerType, CountsOn
<1> QED BY <1>1, KeysInvariance, PTL

-----------------------------------------------------------------------------
(***************************************************************************)
(* The batch sync.                                                         *)
(***************************************************************************)

Profiled == {a \in Address : chain[a] # NoProfile}

SyncedIn(state, addresses) == \A s \in Source : state[s].synced \subseteq addresses

Working(p) == stage[p] \in {"fetching", "publishing"}

WorkHasSource == \A p \in Process : Working(p) => source[p] \in Source

SharedOnlyIfTwice(marks, s) == marks.synced \cap marks.failed \subseteq ListedTwice(s)

SharedIn(state) == \A s \in Source : SharedOnlyIfTwice(state[s], s)

\* What a run has sent, or has still to send, it had not marked as published.  An
\* address with a result has an entry that was sent, so the next entry that brings
\* it is another one: only an address that is listed twice gets both results.
ResultsOf(p, s) ==
  /\ todo[p] \subseteq Listable[s]
  /\ Addresses(todo[p]) \cap memory[p][s].synced = {}
  /\ (done[p].succeeded \cup done[p].failed) \cap memory[p][s].synced = {}
  /\ \A a \in done[p].succeeded \cup done[p].failed :
       \E e \in Listable[s] \ todo[p] : AddressOf[e] = a
  /\ done[p].succeeded \cap done[p].failed \subseteq ListedTwice(s)
  /\ done[p].succeeded \subseteq Profiled

ResultsSound ==
  \A p \in Process :
    IF stage[p] = "publishing" THEN ResultsOf(p, source[p]) ELSE done[p] = NoResults

CopiesTrue ==
  /\ recent \subseteq Profiled
  /\ \A p \in Process : SyncedIn(memory[p], Profiled) /\ SharedIn(memory[p])
  /\ SyncedIn(file, Profiled) /\ SharedIn(file)
  /\ SyncedIn(backup, Profiled) /\ SharedIn(backup)

ListsListable == \A s \in Source : listed[s] \subseteq Listable[s]

BatchIInv == BatchTypeOK /\ WorkHasSource /\ ListsListable /\ ResultsSound /\ CopiesTrue

-----------------------------------------------------------------------------
(* Marks and bounds *)

\* The marks of addresses that were not marked as published share only what the
\* results share.
LEMMA MarkedKeepsLists ==
  ASSUME NEW twice,
         NEW known \in [synced : SUBSET Address, failed : SUBSET Address],
         NEW results \in [succeeded : SUBSET Address, failed : SUBSET Address],
         known.synced \cap known.failed \subseteq twice,
         results.succeeded \cap results.failed \subseteq twice,
         (results.succeeded \cup results.failed) \cap known.synced = {}
  PROVE  /\ Marked(known, results) \in [synced : SUBSET Address, failed : SUBSET Address]
         /\ Marked(known, results).synced = known.synced \cup results.succeeded
         /\ Marked(known, results).synced \cap Marked(known, results).failed \subseteq twice
BY DEF Marked

\* A batch that takes entries not sent before adds their addresses to the results:
\* one that has the other result already is listed twice.
LEMMA AddedIsSound ==
  ASSUME NEW s \in Source, NEW before \in SUBSET Listable[s], NEW batch \in SUBSET before,
         NEW results \in [succeeded : SUBSET Address, failed : SUBSET Address],
         NEW succeeded \in SUBSET Addresses(batch),
         \A a \in results.succeeded \cup results.failed :
           \E e \in Listable[s] \ before : AddressOf[e] = a,
         results.succeeded \cap results.failed \subseteq ListedTwice(s)
  PROVE  LET added == Added(results, Addresses(batch), succeeded)
         IN /\ added \in [succeeded : SUBSET Address, failed : SUBSET Address]
            /\ added.succeeded \cup added.failed
                 = results.succeeded \cup results.failed \cup Addresses(batch)
            /\ \A a \in added.succeeded \cup added.failed :
                 \E e \in Listable[s] \ (before \ batch) : AddressOf[e] = a
            /\ added.succeeded \cap added.failed \subseteq ListedTwice(s)
<1> DEFINE added == Added(results, Addresses(batch), succeeded)
<1>1. /\ added.succeeded = results.succeeded \cup succeeded
      /\ added.failed = results.failed \cup (Addresses(batch) \ succeeded)
      /\ added = [succeeded |-> added.succeeded, failed |-> added.failed]
  BY DEF Added
<1>2. Addresses(batch) \subseteq Address
  BY BatchConstants DEF Addresses, Source
<1>3. \A a \in Addresses(batch) : \E e \in batch : AddressOf[e] = a
  BY DEF Addresses
<1>4. \A a \in added.succeeded \cup added.failed :
        \E e \in Listable[s] \ (before \ batch) : AddressOf[e] = a
  BY <1>1, <1>3
<1>5. ASSUME NEW a \in added.succeeded \cap added.failed PROVE a \in ListedTwice(s)
  <2>1. CASE a \in results.succeeded \cap results.failed
    BY <2>1
  <2>2. CASE a \in Addresses(batch) /\ a \in results.succeeded \cup results.failed
    <3>1. PICK d \in batch : AddressOf[d] = a
      BY <1>3, <2>2
    <3>2. PICK e \in Listable[s] \ before : AddressOf[e] = a
      BY <2>2
    <3>3. d # e /\ d \in Listable[s] /\ a \in Address
      BY <1>2, <2>2, <3>1, <3>2
    <3> QED BY <3>1, <3>2, <3>3 DEF ListedTwice
  <2> QED BY <1>1, <1>5, <2>1, <2>2
<1>6. added \in [succeeded : SUBSET Address, failed : SUBSET Address]
  BY <1>1, <1>2
<1>7. added.succeeded \cup added.failed
        = results.succeeded \cup results.failed \cup Addresses(batch)
  BY <1>1
<1> QED BY <1>4, <1>5, <1>6, <1>7

\* An empty state file marks nothing.
LEMMA EmptyIsState ==
  /\ EmptyState \in State
  /\ \A addresses : SyncedIn(EmptyState, addresses)
  /\ SharedIn(EmptyState)
BY DEF EmptyState, State, SyncedIn, SharedIn, SharedOnlyIfTwice

\* Before the first batch there is no result.
LEMMA NoResultsYet ==
  /\ NoResults \in [succeeded : SUBSET Address, failed : SUBSET Address]
  /\ NoResults.succeeded = {} /\ NoResults.failed = {}
BY DEF NoResults

\* A fault is counted, up to the bound.
LEMMA ErrorsCounted ==
  ASSUME BatchTypeOK, NEW n \in Nat, Errors(n)
  PROVE  errors' \in 0 .. MaxErrors
BY BatchConstants DEF BatchTypeOK, Errors

\* A set of addresses has a size.
LEMMA CountsAreNatural ==
  ASSUME NEW S \in SUBSET Address
  PROVE  Cardinality(S) \in Nat
BY BatchConstants, FS_Subset, FS_CardinalityType

\* The initial states satisfy the invariant.
LEMMA BatchInitially == BatchInit => BatchIInv
<1> SUFFICES ASSUME BatchInit PROVE BatchIInv
  OBVIOUS
<1>1. BatchTypeOK
  <2>1. /\ listed \in [Source -> SUBSET Entry]
        /\ chain \in [Address -> Source \cup {NoProfile}]
    BY BatchConstants DEF BatchInit, Source
  <2>2. /\ memory \in [Process -> State]
        /\ file \in State /\ backup \in State
        /\ \A s \in Source : file[s].synced \cap file[s].failed \subseteq ListedTwice(s)
    BY EmptyIsState DEF BatchInit, SharedIn, SharedOnlyIfTwice
  <2>3. manual \in 0 .. MaxManual /\ errors \in 0 .. MaxErrors
    BY BatchConstants DEF BatchInit
  <2>4. /\ stage \in [Process -> Stages]
        /\ source \in [Process -> Source \cup {"end"}]
        /\ todo \in [Process -> SUBSET Entry]
        /\ done \in [Process -> [succeeded : SUBSET Address, failed : SUBSET Address]]
        /\ fileLock \in Process \cup {NoLockFile} /\ stale \in BOOLEAN
        /\ recent \subseteq Address
    BY NoResultsYet DEF BatchInit, Stages
  <2> QED BY <2>1, <2>2, <2>3, <2>4 DEF BatchTypeOK
<1>2. WorkHasSource /\ ResultsSound /\ ListsListable
  BY DEF BatchInit, WorkHasSource, ResultsSound, ListsListable, Working
<1>3. CopiesTrue
  BY EmptyIsState DEF BatchInit, CopiesTrue
<1> QED BY <1>1, <1>2, <1>3 DEF BatchIInv

-----------------------------------------------------------------------------
(* Steps that leave the chain alone *)

\* Copies of the state that were true stay so while the chain stands still.
LEMMA CopiesStayTrue ==
  ASSUME CopiesTrue, UNCHANGED chainVars,
         NEW p \in Process,
         \A q \in Process : memory'[q] \in {memory[q], file, backup, EmptyState},
         file' \in {file, memory[p]}, backup' \in {backup, file}
  PROVE  CopiesTrue'
<1>1. Profiled' = Profiled /\ recent' = recent
  BY DEF chainVars, Profiled
<1>2. \A q \in Process : SyncedIn(memory'[q], Profiled) /\ SharedIn(memory'[q])
  BY EmptyIsState DEF CopiesTrue
<1>3. /\ SyncedIn(file', Profiled) /\ SharedIn(file')
      /\ SyncedIn(backup', Profiled) /\ SharedIn(backup')
  BY DEF CopiesTrue
<1> QED BY <1>1, <1>2, <1>3 DEF CopiesTrue, SyncedIn, SharedIn, SharedOnlyIfTwice

\* What is true of the copies holds of the file.
LEMMA FileShared ==
  ASSUME CopiesTrue
  PROVE  \A s \in Source : file[s].synced \cap file[s].failed \subseteq ListedTwice(s)
BY DEF CopiesTrue, SharedIn, SharedOnlyIfTwice

\* The results of a run depend on its own work only.
LEMMA OthersKeepResults ==
  ASSUME ResultsSound, NEW q \in Process, Profiled \subseteq Profiled',
         stage'[q] = stage[q], source'[q] = source[q], todo'[q] = todo[q],
         done'[q] = done[q], memory'[q] = memory[q]
  PROVE  IF stage'[q] = "publishing" THEN ResultsOf(q, source[q])' ELSE done'[q] = NoResults
BY DEF ResultsSound, ResultsOf

\* A run that ends forgets its copy of the state.
LEMMA EndKeepsInvariant ==
  ASSUME BatchIInv, NEW p \in Process, Ended(p), UNCHANGED <<listed, chainVars>>,
         file' \in {file, memory[p]}, backup' \in {backup, file},
         fileLock' \in Process \cup {NoLockFile}, stale' \in BOOLEAN,
         manual' \in 0 .. MaxManual, errors' \in 0 .. MaxErrors
  PROVE  BatchIInv'
<1> USE DEF BatchIInv, Ended, MoveTo, chainVars
<1>1. CopiesTrue'
  <2>1. \A q \in Process : memory'[q] \in {memory[q], EmptyState}
    BY DEF BatchTypeOK
  <2> QED BY <2>1, CopiesStayTrue
<1>2. BatchTypeOK'
  <2>1. \A s \in Source : file'[s].synced \cap file'[s].failed \subseteq ListedTwice(s)
    BY <1>1 DEF CopiesTrue, SharedIn, SharedOnlyIfTwice
  <2>2. /\ memory' \in [Process -> State]
        /\ {file', backup'} \subseteq State
        /\ done' \in [Process -> [succeeded : SUBSET Address, failed : SUBSET Address]]
    BY EmptyIsState, NoResultsYet DEF BatchTypeOK
  <2>3. /\ stage' \in [Process -> Stages]
        /\ source' \in [Process -> Source \cup {"end"}]
        /\ todo' \in [Process -> SUBSET Entry]
    BY DEF BatchTypeOK, Stages
  <2> QED BY <2>1, <2>2, <2>3 DEF BatchTypeOK
<1>3. WorkHasSource' /\ ListsListable'
  BY DEF BatchTypeOK, WorkHasSource, Working, ListsListable
<1>4. ResultsSound'
  <2> SUFFICES ASSUME NEW q \in Process
               PROVE  IF stage'[q] = "publishing" THEN ResultsOf(q, source[q])'
                      ELSE done'[q] = NoResults
    BY DEF ResultsSound
  <2>1. CASE q = p
    BY <2>1 DEF BatchTypeOK
  <2>2. CASE q # p
    BY <2>2, OthersKeepResults DEF BatchTypeOK, Profiled
  <2> QED BY <2>1, <2>2
<1> QED BY <1>1, <1>2, <1>3, <1>4

\* A step of a run that publishes nothing and keeps its copy of the state.
LEMMA StepKeepsInvariant ==
  ASSUME BatchIInv, NEW p \in Process, NEW s \in Stages, MoveTo(p, s),
         stage[p] # "publishing", s # "publishing",
         NEW src \in Source \cup {"end"}, source' = [source EXCEPT ![p] = src],
         s = "fetching" => src \in Source,
         \E S \in SUBSET Entry : todo' = [todo EXCEPT ![p] = S],
         UNCHANGED <<listed, memory, done, chainVars, manual>>, errors' \in 0 .. MaxErrors,
         file' \in {file, memory[p]}, backup' \in {backup, file},
         fileLock' \in Process \cup {NoLockFile}, stale' \in BOOLEAN
  PROVE  BatchIInv'
<1> USE DEF BatchIInv, MoveTo, chainVars
<1>1. CopiesTrue'
  BY CopiesStayTrue
<1>2. BatchTypeOK'
  <2>1. \A t \in Source : file'[t].synced \cap file'[t].failed \subseteq ListedTwice(t)
    BY <1>1 DEF CopiesTrue, SharedIn, SharedOnlyIfTwice
  <2> QED BY <2>1 DEF BatchTypeOK
<1>3. WorkHasSource' /\ ListsListable'
  BY DEF BatchTypeOK, WorkHasSource, Working, ListsListable
<1>4. ResultsSound'
  <2> SUFFICES ASSUME NEW q \in Process
               PROVE  IF stage'[q] = "publishing" THEN ResultsOf(q, source[q])'
                      ELSE done'[q] = NoResults
    BY DEF ResultsSound
  <2>1. CASE q = p
    BY <2>1 DEF BatchTypeOK, ResultsSound
  <2>2. CASE q # p
    BY <2>2, OthersKeepResults DEF BatchTypeOK, Profiled
  <2> QED BY <2>1, <2>2
<1> QED BY <1>1, <1>2, <1>3, <1>4

\* A run starts with a copy of the file, of its backup, or of nothing.
LEMMA RunStartKeepsInvariant ==
  ASSUME BatchIInv, NEW p \in Process,
         NEW loaded \in {file, backup, EmptyState}, StartRun(p, loaded)
  PROVE  BatchIInv'
<1> USE DEF BatchIInv, StartRun, MoveTo, fileVars, chainVars
<1>1. CopiesTrue'
  <2>1. \A q \in Process : memory'[q] \in {memory[q], file, backup, EmptyState}
    BY DEF BatchTypeOK
  <2> QED BY <2>1, CopiesStayTrue
<1>2. errors' \in 0 .. MaxErrors /\ manual' \in 0 .. MaxManual
  <2>1. Errors(IF loaded = file THEN 0 ELSE 1)
    OBVIOUS
  <2>2. errors' \in 0 .. MaxErrors
    BY <2>1, ErrorsCounted, (IF loaded = file THEN 0 ELSE 1) \in Nat
  <2> QED BY <2>2, BatchConstants DEF BatchTypeOK
<1>3. BatchTypeOK'
  BY <1>2, EmptyIsState DEF BatchTypeOK, Stages, Source
<1>4. WorkHasSource' /\ ListsListable'
  BY DEF BatchTypeOK, WorkHasSource, Working, Source, ListsListable
<1>5. ResultsSound'
  <2> SUFFICES ASSUME NEW q \in Process
               PROVE  IF stage'[q] = "publishing" THEN ResultsOf(q, source[q])'
                      ELSE done'[q] = NoResults
    BY DEF ResultsSound
  <2>1. CASE q = p
    BY <2>1 DEF BatchTypeOK, ResultsSound
  <2>2. CASE q # p
    BY <2>2, OthersKeepResults DEF BatchTypeOK, Profiled
  <2> QED BY <2>1, <2>2
<1> QED BY <1>1, <1>3, <1>4, <1>5

\* The candidates of a run are entries of the list, and it has marked none of them.
LEMMA FetchKeepsInvariant ==
  ASSUME BatchIInv, NEW p \in Process, NEW got \in Downloads(p), Fetch(p, got)
  PROVE  BatchIInv'
<1> USE DEF BatchIInv, Fetch, fileVars, chainVars
<1>1. source[p] \in Source /\ done[p] = NoResults
  BY DEF WorkHasSource, Working, ResultsSound
<1>2. errors' \in 0 .. MaxErrors
  <2>1. (IF source[p] = "scam" /\ got # listed["scam"] THEN 1 ELSE 0) \in Nat
    OBVIOUS
  <2> QED BY <2>1, ErrorsCounted
<1>3. /\ Candidates(p, got) \subseteq Listable[source[p]]
      /\ Candidates(p, got) \subseteq Entry
      /\ Addresses(Candidates(p, got)) \cap memory[p][source[p]].synced = {}
  <2>1. got \subseteq listed[source[p]]
    <3>1. CASE source[p] = "scam"
      BY <3>1 DEF Downloads
    <3>2. CASE source[p] = "ofac" /\ p \in Incremental
      BY <3>2 DEF Downloads
    <3>3. CASE source[p] = "ofac" /\ p \notin Incremental
      BY <3>3 DEF Downloads
    <3> QED BY <1>1, <3>1, <3>2, <3>3 DEF Source
  <2>2. got \subseteq Listable[source[p]] /\ got \subseteq Entry
    BY <1>1, <2>1, BatchConstants DEF ListsListable, BatchTypeOK
  <2> QED BY <2>2 DEF Candidates, Addresses
<1>4. CASE todo'[p] # {}
  <2>1. BatchTypeOK'
    BY <1>2, <1>3, <1>4 DEF BatchTypeOK, Stages, MoveTo
  <2>2. WorkHasSource' /\ ListsListable'
    BY <1>1, <1>4 DEF BatchTypeOK, WorkHasSource, Working, MoveTo, ListsListable
  <2>3. ResultsSound'
    <3> SUFFICES ASSUME NEW q \in Process
                 PROVE  IF stage'[q] = "publishing" THEN ResultsOf(q, source[q])'
                        ELSE done'[q] = NoResults
      BY DEF ResultsSound
    <3>1. CASE q = p
      <4>1. /\ source'[p] = source[p] /\ memory' = memory /\ done'[p] = NoResults
            /\ todo'[p] = Candidates(p, got) /\ stage'[p] = "publishing"
        BY <1>1, <1>4 DEF MoveTo, BatchTypeOK
      <4> QED BY <1>1, <1>3, <3>1, <4>1, NoResultsYet DEF ResultsOf
    <3>2. CASE q # p
      BY <1>4, <3>2, OthersKeepResults DEF BatchTypeOK, Profiled, MoveTo
    <3> QED BY <3>1, <3>2
  <2>4. CopiesTrue'
    BY CopiesStayTrue
  <2> QED BY <2>1, <2>2, <2>3, <2>4
<1>5. CASE todo'[p] = {} /\ source[p] = "ofac"
  <2>1. stage' = stage /\ source' = [source EXCEPT ![p] = "scam"]
    BY <1>5
  <2>2. MoveTo(p, "fetching")
    BY <2>1 DEF MoveTo, BatchTypeOK
  <2> QED BY <1>2, <1>3, <2>1, <2>2, StepKeepsInvariant DEF BatchTypeOK, Stages, Source
<1>6. CASE todo'[p] = {} /\ source[p] # "ofac"
  BY <1>2, <1>3, <1>6, StepKeepsInvariant DEF BatchTypeOK, Stages
<1> QED BY <1>4, <1>5, <1>6

-----------------------------------------------------------------------------
(* Publishing *)

\* Each address of a batch that lands has a profile afterwards, and no address loses its own.
LEMMA LandedIsProfiled ==
  ASSUME BatchIInv, NEW s \in Source, NEW addresses \in SUBSET Address,
         chain' = Written(addresses, s)
  PROVE  /\ chain' \in [Address -> Source \cup {NoProfile}]
         /\ Profiled \subseteq Profiled'
         /\ addresses \subseteq Profiled'
<1>1. \A a \in Address : chain'[a] = IF a \in addresses \ recent THEN s ELSE chain[a]
  BY DEF Written
<1>2. s # NoProfile
  BY DEF Source, NoProfile
<1> QED BY <1>1, <1>2 DEF BatchIInv, BatchTypeOK, CopiesTrue, Profiled, Written

\* A batch adds its results to those of the run, and the last one marks them.
LEMMA PublishKeepsInvariant ==
  ASSUME BatchIInv, NEW p \in Process, NEW batch \in SUBSET todo[p],
         NEW landed \in BOOLEAN, NEW confirmed \in BOOLEAN,
         NEW unread \in SUBSET Addresses(batch),
         PublishBatch(p, batch, landed, confirmed, unread)
  PROVE  BatchIInv'
<1> DEFINE s == source[p]
           addresses == Addresses(batch)
           succeeded == IF confirmed THEN Verified(addresses, unread) ELSE {}
           results == Added(done[p], addresses, succeeded)
           known == memory[p][s]
<1>1. /\ s \in Source
      /\ batch \subseteq Entry
      /\ addresses \subseteq Address
      /\ known \in [synced : SUBSET Address, failed : SUBSET Address]
      /\ done[p] \in [succeeded : SUBSET Address, failed : SUBSET Address]
      /\ stage[p] = "publishing"
  BY BatchConstants DEF BatchIInv, PublishBatch, WorkHasSource, Working, BatchTypeOK, State, Addresses
<1>2. ResultsOf(p, s)
  BY <1>1 DEF BatchIInv, ResultsSound
<1>3. /\ chain' \in [Address -> Source \cup {NoProfile}]
      /\ Profiled \subseteq Profiled'
      /\ landed => addresses \subseteq Profiled'
      /\ recent' \subseteq Profiled'
      /\ recent' \subseteq Address
  <2>1. CASE landed
    <3>1. chain' = Written(addresses, s) /\ recent' = recent \cup addresses
      BY <2>1 DEF PublishBatch
    <3> QED BY <1>1, <3>1, LandedIsProfiled DEF BatchIInv, CopiesTrue, BatchTypeOK
  <2>2. CASE ~landed
    BY <2>2 DEF PublishBatch, BatchIInv, BatchTypeOK, CopiesTrue, chainVars, Profiled
  <2> QED BY <2>1, <2>2
<1>4. succeeded \subseteq addresses /\ succeeded \subseteq Profiled'
  BY <1>3 DEF PublishBatch, Verified
<1>5. /\ results \in [succeeded : SUBSET Address, failed : SUBSET Address]
      /\ results.succeeded \cup results.failed = done[p].succeeded \cup done[p].failed \cup addresses
      /\ \A a \in results.succeeded \cup results.failed :
           \E e \in Listable[s] \ (todo[p] \ batch) : AddressOf[e] = a
      /\ results.succeeded \cap results.failed \subseteq ListedTwice(s)
  <2>1. /\ todo[p] \in SUBSET Listable[s] /\ batch \in SUBSET todo[p]
        /\ \A a \in done[p].succeeded \cup done[p].failed :
             \E e \in Listable[s] \ todo[p] : AddressOf[e] = a
        /\ done[p].succeeded \cap done[p].failed \subseteq ListedTwice(s)
    BY <1>2 DEF ResultsOf
  <2>2. succeeded \in SUBSET Addresses(batch)
    BY <1>4
  <2> HIDE DEF succeeded, s
  <2> QED BY <1>1, <2>1, <2>2, AddedIsSound
<1>6. results.succeeded \subseteq Profiled'
  BY <1>2, <1>3, <1>4 DEF Added, ResultsOf
<1>7. (results.succeeded \cup results.failed) \cap known.synced = {}
  <2>1. addresses \subseteq Addresses(todo[p])
    BY DEF Addresses
  <2> QED BY <1>2, <1>5, <2>1 DEF ResultsOf
<1>8. todo' = [todo EXCEPT ![p] = @ \ batch] /\ source' = source /\ listed' = listed
  BY DEF PublishBatch
<1>9. errors' \in 0 .. MaxErrors
  <2>1. (IF confirmed THEN 0 ELSE 1) + Cardinality(unread) \in Nat
    BY <1>1, CountsAreNatural
  <2> QED BY <2>1, ErrorsCounted DEF PublishBatch, BatchIInv
<1>10. CASE todo'[p] # {}
  <2>1. /\ done' = [done EXCEPT ![p] = results]
        /\ memory' = memory /\ stage' = stage
    BY <1>10 DEF PublishBatch
  <2>2. BatchTypeOK'
    BY <1>3, <1>5, <1>8, <1>9, <2>1 DEF BatchIInv, BatchTypeOK, PublishBatch, fileVars
  <2>3. WorkHasSource' /\ ListsListable'
    BY <1>8, <2>1 DEF BatchIInv, WorkHasSource, Working, ListsListable
  <2>4. ResultsOf(p, s)'
    <3>1. /\ todo'[p] = todo[p] \ batch /\ done'[p] = results /\ source'[p] = s
      BY <1>8, <2>1 DEF BatchIInv, BatchTypeOK
    <3>2. Addresses(todo'[p]) \cap known.synced = {}
      BY <1>2, <3>1 DEF ResultsOf, Addresses
    <3> QED BY <1>2, <1>5, <1>6, <1>7, <2>1, <3>1, <3>2 DEF ResultsOf
  <2>5. ResultsSound'
    <3> SUFFICES ASSUME NEW q \in Process
                 PROVE  IF stage'[q] = "publishing" THEN ResultsOf(q, source[q])'
                        ELSE done'[q] = NoResults
      BY DEF ResultsSound
    <3>1. CASE q = p
      BY <1>1, <2>1, <2>4, <3>1
    <3>2. CASE q # p
      BY <1>3, <1>8, <2>1, <3>2, OthersKeepResults DEF BatchIInv, BatchTypeOK
    <3> QED BY <3>1, <3>2
  <2>6. CopiesTrue'
    BY <1>3, <2>1 DEF BatchIInv, CopiesTrue, SyncedIn, SharedIn, SharedOnlyIfTwice, PublishBatch, fileVars
  <2> QED BY <2>2, <2>3, <2>5, <2>6 DEF BatchIInv
<1>11. CASE todo'[p] = {}
  <2>1. /\ memory' = [memory EXCEPT ![p][s] = Marked(known, results)]
        /\ done' = [done EXCEPT ![p] = NoResults]
        /\ stage' = [stage EXCEPT ![p] = "locking"]
    BY <1>11 DEF PublishBatch, MoveTo
  <2>2. /\ Marked(known, results) \in [synced : SUBSET Address, failed : SUBSET Address]
        /\ Marked(known, results).synced = known.synced \cup results.succeeded
        /\ SharedOnlyIfTwice(Marked(known, results), s)
    <3>1. known.synced \cap known.failed \subseteq ListedTwice(s)
      BY <1>1 DEF BatchIInv, CopiesTrue, SharedIn, SharedOnlyIfTwice
    <3> QED BY <1>1, <1>5, <1>7, <3>1, MarkedKeepsLists DEF SharedOnlyIfTwice
  <2>3. /\ memory' \in [Process -> State]
        /\ memory'[p][s] = Marked(known, results)
        /\ \A q \in Process, t \in Source :
             q # p \/ t # s => memory'[q][t] = memory[q][t]
        /\ \A q \in Process : q # p => memory'[q] = memory[q]
    BY <1>1, <2>1, <2>2 DEF BatchIInv, BatchTypeOK, State
  <2>4. BatchTypeOK'
    BY <1>3, <1>8, <1>9, <2>1, <2>3, NoResultsYet
      DEF BatchIInv, BatchTypeOK, PublishBatch, fileVars, Stages
  <2>5. WorkHasSource' /\ ListsListable'
    BY <1>1, <1>8, <2>1 DEF BatchIInv, BatchTypeOK, WorkHasSource, Working, ListsListable
  <2>6. ResultsSound'
    <3> SUFFICES ASSUME NEW q \in Process
                 PROVE  IF stage'[q] = "publishing" THEN ResultsOf(q, source[q])'
                        ELSE done'[q] = NoResults
      BY DEF ResultsSound
    <3>1. CASE q = p
      BY <2>1, <3>1 DEF BatchIInv, BatchTypeOK
    <3>2. CASE q # p
      <4>1. stage'[q] = stage[q] /\ todo'[q] = todo[q] /\ done'[q] = done[q]
        BY <1>8, <2>1, <3>2 DEF BatchIInv, BatchTypeOK
      <4> QED BY <1>3, <1>8, <2>3, <3>2, <4>1, OthersKeepResults DEF BatchIInv
    <3> QED BY <3>1, <3>2
  <2>7. CopiesTrue'
    <3>1. \A q \in Process : SyncedIn(memory'[q], Profiled')
      BY <1>3, <1>6, <2>2, <2>3 DEF BatchIInv, CopiesTrue, SyncedIn
    <3>2. \A q \in Process : SharedIn(memory'[q])
      BY <2>2, <2>3 DEF BatchIInv, CopiesTrue, SharedIn, SharedOnlyIfTwice
    <3>3. /\ SyncedIn(file', Profiled') /\ SharedIn(file')
          /\ SyncedIn(backup', Profiled') /\ SharedIn(backup')
      BY <1>3 DEF BatchIInv, CopiesTrue, SyncedIn, SharedIn, PublishBatch, fileVars
    <3> QED BY <1>3, <3>1, <3>2, <3>3 DEF CopiesTrue, SharedIn, SharedOnlyIfTwice
  <2> QED BY <2>4, <2>5, <2>6, <2>7 DEF BatchIInv
<1> QED BY <1>10, <1>11

-----------------------------------------------------------------------------
(* Saving *)

\* Saving moves copies of the state that are true.
LEMMA SaveKeepsInvariant ==
  ASSUME BatchIInv, NEW p \in Process,
         \/ TakeFileLock(p) \/ FileLocked(p) \/ SeeStaleLock(p)
         \/ BreakLock(p) \/ WriteState(p) \/ WriteFails(p) \/ ReleaseFileLock(p)
  PROVE  BatchIInv'
<1>0. /\ source[p] \in Source \cup {"end"} /\ source = [source EXCEPT ![p] = source[p]]
      /\ todo[p] \in SUBSET Entry /\ todo = [todo EXCEPT ![p] = todo[p]]
      /\ fileLock \in Process \cup {NoLockFile} /\ stale \in BOOLEAN
      /\ manual \in 0 .. MaxManual /\ errors \in 0 .. MaxErrors
  BY DEF BatchIInv, BatchTypeOK
<1> USE DEF fileVars, chainVars, Stages, Source
<1>1. CASE TakeFileLock(p)
  BY <1>0, <1>1, StepKeepsInvariant DEF TakeFileLock
<1>2. CASE FileLocked(p)
  BY <1>0, <1>2, EndKeepsInvariant DEF FileLocked
<1>3. CASE SeeStaleLock(p)
  BY <1>0, <1>3, StepKeepsInvariant DEF SeeStaleLock
<1>4. CASE BreakLock(p)
  <2>1. CASE fileLock = NoLockFile
    BY <1>0, <1>4, <2>1, EndKeepsInvariant DEF BreakLock
  <2>2. CASE fileLock # NoLockFile
    BY <1>0, <1>4, <2>2, StepKeepsInvariant DEF BreakLock
  <2> QED BY <2>1, <2>2
<1>5. CASE WriteState(p)
  BY <1>0, <1>5, StepKeepsInvariant DEF WriteState
<1>6. CASE ReleaseFileLock(p)
  <2>1. fileLock' \in Process \cup {NoLockFile}
    BY <1>0, <1>6 DEF ReleaseFileLock, Unlock
  <2>2. CASE source[p] = "ofac"
    <3>1. /\ source' = [source EXCEPT ![p] = "scam"]
          /\ MoveTo(p, "fetching")
          /\ stage[p] = "unlocking"
          /\ UNCHANGED <<listed, memory, todo, done, file, backup, stale, chainVars, manual, errors>>
      BY <1>6, <2>2 DEF ReleaseFileLock
    <3> QED BY <1>0, <2>1, <3>1, StepKeepsInvariant
  <2>3. CASE source[p] = "scam"
    <3>1. /\ source' = [source EXCEPT ![p] = "end"]
          /\ MoveTo(p, "locking")
          /\ stage[p] = "unlocking"
          /\ UNCHANGED <<listed, memory, todo, done, file, backup, stale, chainVars, manual, errors>>
      BY <1>6, <2>3 DEF ReleaseFileLock
    <3> QED BY <1>0, <2>1, <3>1, StepKeepsInvariant
  <2>4. CASE source[p] \notin {"ofac", "scam"}
    BY <1>0, <1>6, <2>1, <2>4, EndKeepsInvariant DEF ReleaseFileLock
  <2> QED BY <2>2, <2>3, <2>4
<1>7. CASE WriteFails(p)
  <2>1. errors' \in 0 .. MaxErrors
    BY <1>7, ErrorsCounted DEF BatchIInv, WriteFails
  <2>2. fileLock' \in Process \cup {NoLockFile}
    BY <1>0, <1>7 DEF WriteFails, Unlock
  <2> QED BY <1>0, <1>7, <2>1, <2>2, EndKeepsInvariant DEF WriteFails
<1> QED BY <1>1, <1>2, <1>3, <1>4, <1>5, <1>6, <1>7

-----------------------------------------------------------------------------
(* The environment *)

\* A run that dies, or whose download fails, leaves the chain and the files alone.
LEMMA DeathKeepsInvariant ==
  ASSUME BatchIInv, NEW p \in Process, FetchFails(p) \/ RunDies(p)
  PROVE  BatchIInv'
<1>1. errors' \in 0 .. MaxErrors
  BY ErrorsCounted DEF BatchIInv, FetchFails, RunDies
<1> QED BY <1>1, EndKeepsInvariant DEF FetchFails, RunDies, fileVars, chainVars, BatchIInv, BatchTypeOK

\* Ageing locks, ending intervals and growing lists disturb nothing.
LEMMA EnvironmentKeepsInvariant ==
  ASSUME BatchIInv,
         \/ LockAges \/ IntervalEnds \/ UNCHANGED batchVars
         \/ \E s \in Source, e \in Entry : ListEntry(s, e)
  PROVE  BatchIInv'
<1> USE DEF LockAges, IntervalEnds, ListEntry, batchVars, runVars, fileVars, chainVars
<1>1. BatchTypeOK'
  <2>1. CASE LockAges \/ IntervalEnds \/ UNCHANGED batchVars
    BY <2>1 DEF BatchIInv, BatchTypeOK
  <2>2. ASSUME NEW s \in Source, NEW e \in Entry, ListEntry(s, e)
        PROVE  BatchTypeOK'
    <3>1. listed' \in [Source -> SUBSET Entry]
      BY <2>2 DEF BatchIInv, BatchTypeOK
    <3> QED BY <2>2, <3>1 DEF BatchIInv, BatchTypeOK
  <2> QED BY <2>1, <2>2
<1>2. WorkHasSource' /\ ListsListable'
  BY DEF BatchIInv, BatchTypeOK, WorkHasSource, ListsListable, Working
<1>3. ResultsSound'
  BY DEF BatchIInv, ResultsSound, ResultsOf, Profiled
<1>4. CopiesTrue'
  BY DEF BatchIInv, CopiesTrue, SyncedIn, SharedIn, SharedOnlyIfTwice, Profiled
<1> QED BY <1>1, <1>2, <1>3, <1>4 DEF BatchIInv

\* Every step keeps the invariant.
LEMMA StepInvariant == BatchIInv /\ [BatchNext]_batchVars => BatchIInv'
<1> SUFFICES ASSUME BatchIInv, [BatchNext]_batchVars PROVE BatchIInv'
  OBVIOUS
<1>1. ASSUME NEW p \in Process, NEW loaded \in {file, backup, EmptyState}, StartRun(p, loaded)
      PROVE  BatchIInv'
  BY <1>1, RunStartKeepsInvariant
<1>2. ASSUME NEW p \in Process, RunStep(p)
      PROVE  BatchIInv'
  BY <1>2, FetchKeepsInvariant, PublishKeepsInvariant, SaveKeepsInvariant DEF RunStep
<1>3. ASSUME NEW p \in Process, FetchFails(p) \/ WriteFails(p) \/ RunDies(p)
      PROVE  BatchIInv'
  BY <1>3, DeathKeepsInvariant, SaveKeepsInvariant
<1> QED BY <1>1, <1>2, <1>3, EnvironmentKeepsInvariant DEF BatchNext

\* So every reachable state satisfies it.
LEMMA BatchInvariant == BatchSpec => []BatchIInv
BY BatchInitially, StepInvariant, PTL DEF BatchSpec

-----------------------------------------------------------------------------
(* Theorems *)

\* The state of the runs, the file, its backup and its lock stay well-typed; the
\* file has an address of a source as synced and as failed only if the source
\* lists it twice.
THEOREM BatchTypeSafety == BatchSpec => []BatchTypeOK
<1>1. BatchIInv => BatchTypeOK
  BY DEF BatchIInv
<1> QED BY <1>1, BatchInvariant, PTL

\* What the state file calls synced has a profile on chain: with any number of
\* processes, lost receipts, skipped addresses, failed look-ups, old backups,
\* lost updates of the file and crashes.
THEOREM SyncedAddressesHaveProfiles == BatchSpec => []SyncedHasProfile
<1>1. BatchIInv => SyncedHasProfile
  BY DEF BatchIInv, CopiesTrue, SyncedIn, Profiled, SyncedHasProfile
<1> QED BY <1>1, BatchInvariant, PTL
=============================================================================
