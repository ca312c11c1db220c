------------------------------ MODULE SyncJobs ------------------------------
(***************************************************************************)
(* The sync jobs of the data publisher: data-publisher/src/scheduler.ts    *)
(* over the cluster lock.                                                  *)
(*                                                                         *)
(* A job waits for the mutex of its process and then tries the lock of its *)
(* type, once: when another instance has it the job is skipped.  With the  *)
(* lock it collects, keeps the share of this instance and publishes it.    *)
(*                                                                         *)
(* The order in which a job gives up what it holds differs.  At its end    *)
(* the mutex goes first and the lock is deleted while the next job already *)
(* runs.  A job that finds nothing to publish gives up both and then runs  *)
(* into the finally block, which gives up both again.  A job to which      *)
(* Redis answers with an error while it asks for the lock gives up nothing.*)
(***************************************************************************)
EXTENDS ClusterLock

CONSTANTS
  Job,          \* the calls of runSyncJob, numbered; on one instance in their order
  at,           \* the instance each job runs on
  kind,         \* the type of each job, full or incremental: its lock
  MaxFaults     \* bound: processes that stop, errors of Redis

ASSUME SyncConstants ==
  /\ Job \subseteq Nat
  /\ at \in [Job -> Instance]
  /\ kind \in [Job -> LockName]
  /\ MaxFaults \in Nat

VARIABLES
  step,       \* where a job is
  mutex,      \* localMutex of each instance: _locked and _waiters
  faults,     \* faults so far
  early,      \* observer: the jobs of each instance that gave up the mutex twice
  stuck,      \* observer: the instances where a job kept the mutex for good
  preempted   \* observer: a job lost its lock to a takeover, the clock or an early return

jobVars == <<step, mutex>>
observers == <<early, stuck, preempted>>
vars == <<clusterVars, jobVars, faults, observers>>

Steps == {"none", "queued", "locking", "probing", "forcing", "collecting", "publishing",
          "dropping", "leaving", "deleting", "ended", "lost"}

Mutex == [locked : BOOLEAN, waiters : Seq(Job)]
FreeMutex == [locked |-> FALSE, waiters |-> <<>>]

Init ==
  /\ ClusterInit
  /\ step = [j \in Job |-> "none"]
  /\ mutex = [i \in Instance |-> FreeMutex]
  /\ faults = 0
  /\ early = [i \in Instance |-> {}]
  /\ stuck = {}
  /\ preempted = FALSE

-----------------------------------------------------------------------------
(* The mutex *)

\* Mutant of Release: the mutex is unlocked although somebody waits.
ReleaseToNobody(m) == [m EXCEPT !.locked = FALSE]

\* Mutant of Release: the mutex is handed over and unlocked.
ReleaseToAll(m) == [locked |-> FALSE,
                    waiters |-> IF m.waiters = <<>> THEN <<>> ELSE Tail(m.waiters)]

\* _release hands the mutex to the first waiter or unlocks it.
Release(m) ==
  IF m.waiters = <<>> THEN [m EXCEPT !.locked = FALSE]
  ELSE [m EXCEPT !.waiters = Tail(@)]

Granted(m, after) == ToSet(m.waiters) \ ToSet(after.waiters)

\* Job j gives up the mutex, as m says, and goes on to s; who is granted it goes on too.
LeaveMutex(j, after, s) ==
  LET i == at[j] IN
  /\ mutex' = [mutex EXCEPT ![i] = after]
  /\ step' = [k \in Job |-> IF k = j THEN s
                            ELSE IF k \in Granted(mutex[i], after) THEN "locking"
                            ELSE step[k]]

GoTo(j, s) == step' = [step EXCEPT ![j] = s] /\ UNCHANGED mutex

Running(j) == step[j] \in {"collecting", "publishing"}

\* A job counts on its key until it has deleted it; the second look of an early
\* return found a key that the job had given up before.
CountsOn(j) ==
  Running(j) \/ step[j] = "dropping" \/ (step[j] = "deleting" /\ j \notin early[at[j]])

\* Deleting the key of n now takes it away from a job.
Preempts(n) == \E j \in Job : kind[j] = n /\ CountsOn(j)

-----------------------------------------------------------------------------
(* One job *)

\* The cron entry, or a call of runFullSync and runIncrementalSync.
StartJob(j) ==
  LET i == at[j] IN
  /\ step[j] = "none"
  /\ \A k \in Job : at[k] = i /\ k < j => step[k] # "none"
  /\ i \in up
  /\ IF mutex[i].locked
     THEN /\ mutex' = [mutex EXCEPT ![i].waiters = Append(@, j)]
          /\ step' = [step EXCEPT ![j] = "queued"]
     ELSE /\ mutex' = [mutex EXCEPT ![i].locked = TRUE]
          /\ step' = [step EXCEPT ![j] = "locking"]
  /\ UNCHANGED <<clusterVars, faults, observers>>

AcquireLock(j) ==
  /\ step[j] = "locking"
  /\ IF lock[kind[j]] = Nobody
     THEN TakeLock(at[j], kind[j]) /\ GoTo(j, "collecting")
     ELSE UNCHANGED clusterVars /\ GoTo(j, "probing")
  /\ UNCHANGED <<faults, observers>>

\* Mutant of SkipJob: the early return forgets the mutex.
SkipJobLocked(j) ==
  /\ step[j] = "probing"
  /\ ~ OwnerSeemsDead(kind[j])
  /\ GoTo(j, "ended")
  /\ UNCHANGED <<clusterVars, faults, observers>>

\* Mutant of SkipJob: it runs into a finally block that does not ask for the owner.
SkipJobDeleting(j) ==
  /\ step[j] = "probing"
  /\ ~ OwnerSeemsDead(kind[j])
  /\ LeaveMutex(j, Release(mutex[at[j]]), "deleting")
  /\ UNCHANGED <<clusterVars, faults, observers>>

\* Another instance is running this sync.
SkipJob(j) ==
  /\ step[j] = "probing"
  /\ ~ OwnerSeemsDead(kind[j])
  /\ LeaveMutex(j, Release(mutex[at[j]]), "ended")
  /\ UNCHANGED <<clusterVars, faults, observers>>

ProbeDeadOwner(j) ==
  /\ step[j] = "probing"
  /\ OwnerSeemsDead(kind[j])
  /\ GoTo(j, "forcing")
  /\ UNCHANGED <<clusterVars, faults, observers>>

\* Whoever owns the key by now: it is deleted, and the lock is tried again.
TakeOver(j) ==
  /\ step[j] = "forcing"
  /\ ForceRelease(at[j], kind[j])
  /\ preempted' = (preempted \/ Preempts(kind[j]))
  /\ GoTo(j, "locking")
  /\ UNCHANGED <<faults, early, stuck>>

\* acquireLock throws before the try block: nobody gives the mutex up.
LockError(j) ==
  /\ step[j] \in {"locking", "probing", "forcing"}
  /\ faults < MaxFaults
  /\ faults' = faults + 1
  /\ stuck' = stuck \cup {at[j]}
  /\ GoTo(j, "lost")
  /\ UNCHANGED <<clusterVars, early, preempted>>

\* Collected, processed, cut down to the share of this instance, and something to publish.
Collect(j) ==
  /\ step[j] = "collecting"
  /\ GoTo(j, "publishing")
  /\ UNCHANGED <<clusterVars, faults, observers>>

\* No data from any source, an empty share, or nothing new for an incremental sync.
NothingToPublish(j) ==
  /\ step[j] = "collecting"
  /\ StopWatchdog(at[j], kind[j])
  /\ GoTo(j, IF Owns(at[j], kind[j]) THEN "dropping" ELSE "leaving")
  /\ UNCHANGED <<faults, observers>>

DropLock(j) ==
  /\ step[j] = "dropping"
  /\ DeleteLock(kind[j])
  /\ GoTo(j, "leaving")
  /\ UNCHANGED <<faults, observers>>

\* The early return: the mutex is given up, and again in the finally block,
\* where the lock is looked at again too.
LeaveEarly(j) ==
  /\ step[j] = "leaving"
  /\ LeaveMutex(j, Release(Release(mutex[at[j]])),
                IF Owns(at[j], kind[j]) THEN "deleting" ELSE "ended")
  /\ StopWatchdog(at[j], kind[j])
  /\ early' = [early EXCEPT ![at[j]] = @ \cup {j}]
  /\ UNCHANGED <<faults, stuck, preempted>>

\* The finally block after a publish, or after any step threw.
FinishJob(j) ==
  /\ Running(j)
  /\ LeaveMutex(j, Release(mutex[at[j]]),
                IF Owns(at[j], kind[j]) THEN "deleting" ELSE "ended")
  /\ StopWatchdog(at[j], kind[j])
  /\ UNCHANGED <<faults, observers>>

\* After an early return the lock of this instance may be that of its next job, and
\* by now that of any other.
DeleteOwnLock(j) ==
  /\ step[j] = "deleting"
  /\ DeleteLock(kind[j])
  /\ preempted' = (preempted \/ (j \in early[at[j]] /\ Preempts(kind[j])))
  /\ GoTo(j, "ended")
  /\ UNCHANGED <<faults, early, stuck>>

-----------------------------------------------------------------------------
(* Processes and keys *)

Beat(i) == Heartbeat(i) /\ UNCHANGED <<jobVars, faults, observers>>
BeatExpires(i) == HeartbeatExpires(i) /\ UNCHANGED <<jobVars, faults, observers>>

KeyExpires(n) ==
  /\ LeaseExpires(n)
  /\ preempted' = (preempted \/ Preempts(n))
  /\ UNCHANGED <<jobVars, faults, early, stuck>>

\* Every job of the process is lost, its mutex with them.
Crash(i) ==
  /\ faults < MaxFaults
  /\ faults' = faults + 1
  /\ StopInstance(i)
  /\ step' = [j \in Job |-> IF at[j] = i /\ step[j] \notin {"none", "ended"}
                           THEN "lost" ELSE step[j]]
  /\ mutex' = [mutex EXCEPT ![i] = FreeMutex]
  /\ early' = [early EXCEPT ![i] = {}]
  /\ stuck' = stuck \ {i}
  /\ UNCHANGED preempted

JobStep(j) ==
  \/ AcquireLock(j)
  \/ SkipJob(j)
  \/ ProbeDeadOwner(j)
  \/ TakeOver(j)
  \/ Collect(j)
  \/ NothingToPublish(j)
  \/ DropLock(j)
  \/ LeaveEarly(j)
  \/ FinishJob(j)
  \/ DeleteOwnLock(j)

Next ==
  \/ \E j \in Job : StartJob(j) \/ JobStep(j) \/ LockError(j)
  \/ \E i \in Instance : Beat(i) \/ BeatExpires(i) \/ Crash(i)
  \/ \E n \in LockName : KeyExpires(n)

Spec == Init /\ [][Next]_vars

\* Redis answers, collecting and publishing come to an end, timers fire and keys
\* run out.  Nothing says that a job is ever started or that a process dies.
FairSpec ==
  /\ Spec
  /\ WF_vars(\E j \in Job : JobStep(j))
  /\ WF_vars(\E i \in Instance : Beat(i) \/ BeatExpires(i))
  /\ WF_vars(\E n \in LockName : KeyExpires(n))

-----------------------------------------------------------------------------
(* Properties *)

TypeOK ==
  /\ lock \in [LockName -> Instance \cup {Nobody}]
  /\ watchdogs \in [Instance -> SUBSET LockName]
  /\ heartbeats \subseteq Instance
  /\ up \subseteq Instance
  /\ step \in [Job -> Steps]
  /\ mutex \in [Instance -> Mutex]
  /\ \A i \in Instance :
       /\ ToSet(mutex[i].waiters) = {j \in Job : at[j] = i /\ step[j] = "queued"}
       /\ mutex[i].waiters # <<>> => mutex[i].locked
  /\ faults \in 0..MaxFaults
  /\ early \in [Instance -> SUBSET Job]
  /\ stuck \subseteq Instance
  /\ preempted \in BOOLEAN

InsideSteps == {"locking", "probing", "forcing", "collecting", "publishing",
                "dropping", "leaving"}
Inside(i) == {j \in Job : at[j] = i /\ step[j] \in InsideSteps}

\* The mutex of scheduler.ts admits one job of an instance at a time, and one
\* more for every job of it that took an early return: its second release lets
\* in a job nobody made room for, and no path lets in two.
MutexAdmits ==
  \A i \in Instance : Cardinality(Inside(i)) <= 1 + Cardinality(early[i])

\* No two jobs of one type run at a time, anywhere, unless a lock was taken over,
\* ran out or went with the second look of an early return: no job that was
\* skipped, failed or ended late ever removes the lock of the job after it.
OneJobPerType ==
  preempted \/ \A j, k \in Job :
                 Running(j) /\ Running(k) /\ kind[j] = kind[k] => j = k

\* Whoever waits for the mutex or holds it comes to an end, unless the process
\* stops or a job kept the mutex after an error of Redis: no path through a
\* skipped, empty or failed job forgets the next one.  (A job is
\* started once, so each of them is settled when all are, again and again.)
JobsSettle ==
  []<>(\A j \in Job : step[j] \in {"none", "ended", "lost"} \/ at[j] \in stuck)

\* A lock is never held for good: the key of an instance that died runs out, a
\* job that ends deletes it.
LocksAreFreed == \A n \in LockName : lock[n] # Nobody ~> lock[n] = Nobody
=============================================================================
