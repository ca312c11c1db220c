---------------------------- MODULE ClusterLock ----------------------------
(***************************************************************************)
(* The Redis lock of the data publisher's sync jobs:                       *)
(* data-publisher/src/cluster-coordinator.ts.                              *)
(*                                                                         *)
(* A lock is a key whose value names the instance that took it.  A timer   *)
(* of the owner, the watchdog, renews the key's time to live.  An instance *)
(* that finds a lock taken looks for the heartbeat of its owner and, when  *)
(* there is none, deletes the key and tries again.  Asking for the owner   *)
(* and deleting the key are two commands: other instances run in between.  *)
(*                                                                         *)
(* The code compares owners with startsWith; here no instance's name is a  *)
(* prefix of another's.  The commands of one instance reach Redis in the   *)
(* order it sent them.                                                     *)
(***************************************************************************)
EXTENDS Naturals, FiniteSets, Sequences, SequencesExt

CONSTANTS
  Instance,   \* the publisher processes, by instanceId
  LockName,   \* the locks: one for each type of sync job
  Nobody      \* the key of a lock is absent

ASSUME ClusterConstants == Nobody \notin Instance

VARIABLES
  lock,       \* the owner of each lock's key
  watchdogs,  \* the locks an instance renews
  heartbeats, \* the instances whose heartbeat key exists
  up          \* the instances that are running

clusterVars == <<lock, watchdogs, heartbeats, up>>

\* An instance sends its first heartbeat when the timer fires first, not when it starts.
ClusterInit ==
  /\ lock = [n \in LockName |-> Nobody]
  /\ watchdogs = [i \in Instance |-> {}]
  /\ heartbeats = {}
  /\ up = Instance

Owns(i, n) == lock[n] = i

-----------------------------------------------------------------------------
(* Commands of an instance *)

\* SET NX: the key was absent, and a watchdog starts.
TakeLock(i, n) ==
  /\ lock[n] = Nobody
  /\ lock' = [lock EXCEPT ![n] = i]
  /\ watchdogs' = [watchdogs EXCEPT ![i] = @ \cup {n}]
  /\ UNCHANGED <<heartbeats, up>>

\* What the instance that did not get the lock finds out about its owner.
OwnerSeemsDead(n) == lock[n] # Nobody /\ lock[n] \notin heartbeats

\* The first half of releaseLock: the watchdog stops and the owner is read.
StopWatchdog(i, n) ==
  /\ watchdogs' = [watchdogs EXCEPT ![i] = @ \ {n}]
  /\ UNCHANGED <<lock, heartbeats, up>>

\* The second half: the key is deleted, whoever owns it by now.
DeleteLock(n) ==
  /\ lock' = [lock EXCEPT ![n] = Nobody]
  /\ UNCHANGED <<watchdogs, heartbeats, up>>

ForceRelease(i, n) ==
  /\ lock' = [lock EXCEPT ![n] = Nobody]
  /\ watchdogs' = [watchdogs EXCEPT ![i] = @ \ {n}]
  /\ UNCHANGED <<heartbeats, up>>

-----------------------------------------------------------------------------
(* Timers, Redis and processes *)

Heartbeat(i) ==
  /\ i \in up \ heartbeats
  /\ heartbeats' = heartbeats \cup {i}
  /\ UNCHANGED <<lock, watchdogs, up>>

\* Keys that nobody renews run out.
HeartbeatExpires(i) ==
  /\ i \in heartbeats \ up
  /\ heartbeats' = heartbeats \ {i}
  /\ UNCHANGED <<lock, watchdogs, up>>

\* Mutant of Unattended: a key that was set without a time to live.
NeverUnattended(n) == lock[n] # Nobody /\ lock[n] \in up /\ n \notin watchdogs[lock[n]]

Unattended(n) == lock[n] # Nobody /\ (lock[n] \notin up \/ n \notin watchdogs[lock[n]])

LeaseExpires(n) ==
  /\ Unattended(n)
  /\ lock' = [lock EXCEPT ![n] = Nobody]
  /\ UNCHANGED <<watchdogs, heartbeats, up>>

\* The process dies, or shuts down: disconnect stops the timers and leaves the keys.
\* The process started after it has another pid and with it another name.
StopInstance(i) ==
  /\ i \in up
  /\ up' = up \ {i}
  /\ watchdogs' = [watchdogs EXCEPT ![i] = {}]
  /\ UNCHANGED <<lock, heartbeats>>
=============================================================================
