------------------------ MODULE FidesOriginTimelock ------------------------
(***************************************************************************)
(* FidesOriginTimelock.sol over OpenZeppelin's TimelockController: two     *)
(* stores of ready times (the library's and the contract's own for         *)
(* emergency operations), the list of pending operations with its index,   *)
(* the emergency mode and the roles that matter to who can do what.        *)
(*                                                                         *)
(* schedule and scheduleBatch, and execute and executeBatch, are the same  *)
(* step here; only a single operation can be scheduled as an emergency.    *)
(* What an operation does when it is executed is left out.                 *)
(***************************************************************************)
EXTENDS Naturals, Sequences, FiniteSets

CONSTANTS Op, NoOp, Predecessor, Delay, MinDelay, EmergencyDelay, MaxTime,
  SingleOp,  \* operations hashed by hashOperation, not by hashOperationBatch
  Actor,     \* addresses that may hold a role
  Deployed   \* the executors given to the constructor

ASSUME TimelockConstants ==
  /\ IsFiniteSet(Op)
  /\ NoOp \notin Op
  /\ Predecessor \in [Op -> Op \cup {NoOp}]
  /\ Delay \subseteq Nat
  /\ MinDelay \in Nat
  /\ EmergencyDelay \in Nat
  /\ MaxTime \in Nat
  /\ SingleOp \subseteq Op
  /\ Deployed \subseteq Actor

VARIABLES
  timestamps,           \* TimelockController._timestamps
  emergencyTimestamps,  \* _emergencyTimestamps
  pendingOperations,    \* pendingOperations
  pendingOpIndex,       \* _pendingOpIndex: position + 1, 0 when not listed
  emergencyMode,
  pendingEmergencyMode,
  emergencyModeChangeTimestamp,
  emergencyOperators,
  executors,            \* holders of EXECUTOR_ROLE
  cancellers,           \* holders of CANCELLER_ROLE
  now                   \* block.timestamp

opVars == <<timestamps, emergencyTimestamps, pendingOperations, pendingOpIndex>>
modeVars == <<emergencyMode, pendingEmergencyMode, emergencyModeChangeTimestamp>>
roleVars == <<emergencyOperators, executors, cancellers>>
vars == <<opVars, modeVars, roleVars, now>>

DoneTimestamp == 1 \* _DONE_TIMESTAMP

TypeOK ==
  /\ timestamps \in [Op -> Nat]
  /\ emergencyTimestamps \in [Op -> Nat]
  /\ pendingOperations \in Seq(Op)
  /\ pendingOpIndex \in [Op -> 0 .. Len(pendingOperations)]
  /\ emergencyMode \in BOOLEAN
  /\ pendingEmergencyMode \in BOOLEAN
  /\ emergencyModeChangeTimestamp \in Nat
  /\ emergencyOperators \subseteq Actor
  /\ executors \subseteq Actor
  /\ cancellers \subseteq Actor
  /\ now \in Nat

\* Executors given to the constructor also become cancellers.
Init ==
  /\ timestamps = [op \in Op |-> 0]
  /\ emergencyTimestamps = [op \in Op |-> 0]
  /\ pendingOperations = <<>>
  /\ pendingOpIndex = [op \in Op |-> 0]
  /\ emergencyMode = FALSE
  /\ pendingEmergencyMode = FALSE
  /\ emergencyModeChangeTimestamp = 0
  /\ emergencyOperators = {}
  /\ executors = Deployed
  /\ cancellers = Deployed
  /\ now = 2

-----------------------------------------------------------------------------
(***************************************************************************)
(* The state of an operation, as the library reads it.                     *)
(***************************************************************************)

\* The library's store first, the emergency store when that one is empty.
GetTimestamp(op) ==
  IF timestamps[op] # 0 THEN timestamps[op] ELSE emergencyTimestamps[op]

IsOperation(op) == GetTimestamp(op) # 0
IsOperationPending(op) == GetTimestamp(op) > DoneTimestamp
IsOperationReady(op) == IsOperationPending(op) /\ GetTimestamp(op) <= now
IsOperationDone(op) == GetTimestamp(op) = DoneTimestamp

\* _addPendingOperation
AddPendingOperation(op) ==
  IF pendingOpIndex[op] = 0
  THEN /\ pendingOperations' = Append(pendingOperations, op)
       /\ pendingOpIndex' = [pendingOpIndex EXCEPT ![op] = Len(pendingOperations) + 1]
  ELSE UNCHANGED <<pendingOperations, pendingOpIndex>>

\* Mutant of RemovePendingOperation: the moved operation keeps its old index.
RemoveWithoutReindex(op) ==
  LET idx  == pendingOpIndex[op]
      last == Len(pendingOperations)
  IN  IF idx > 0
      THEN /\ pendingOperations' =
                SubSeq([pendingOperations EXCEPT ![idx] = pendingOperations[last]], 1, last - 1)
           /\ pendingOpIndex' = [pendingOpIndex EXCEPT ![op] = 0]
      ELSE UNCHANGED <<pendingOperations, pendingOpIndex>>

\* _removePendingOperation: the last one takes the place of the one that goes.
RemovePendingOperation(op) ==
  LET idx    == pendingOpIndex[op]
      last   == Len(pendingOperations)
      lastId == pendingOperations[last]
  IN  IF idx > 0
      THEN /\ pendingOperations' =
                SubSeq([pendingOperations EXCEPT ![idx] = lastId], 1, last - 1)
           /\ pendingOpIndex' = [[pendingOpIndex EXCEPT ![lastId] = idx] EXCEPT ![op] = 0]
      ELSE UNCHANGED <<pendingOperations, pendingOpIndex>>

-----------------------------------------------------------------------------
(***************************************************************************)
(* Operations.                                                             *)
(***************************************************************************)

\* schedule, scheduleBatch (PROPOSER_ROLE)
Schedule(op, delay) ==
  /\ ~IsOperation(op)
  /\ delay >= MinDelay
  /\ timestamps' = [timestamps EXCEPT ![op] = now + delay]
  /\ AddPendingOperation(op)
  /\ UNCHANGED <<emergencyTimestamps, modeVars, roleVars, now>>

\* scheduleEmergency: the operation does not enter the list.
ScheduleEmergency(u, op) ==
  /\ u \in emergencyOperators
  /\ emergencyMode
  /\ op \in SingleOp
  /\ ~IsOperation(op)
  /\ emergencyTimestamps[op] = 0
  /\ emergencyTimestamps' = [emergencyTimestamps EXCEPT ![op] = now + EmergencyDelay]
  /\ UNCHANGED <<timestamps, pendingOperations, pendingOpIndex, modeVars, roleVars, now>>

\* Mutant of Execute: the executed operation stays on the list.
ExecuteKeepingListed(e, op) ==
  /\ e \in executors
  /\ IsOperationReady(op)
  /\ Predecessor[op] # NoOp => IsOperationDone(Predecessor[op])
  /\ timestamps' = [timestamps EXCEPT ![op] = DoneTimestamp]
  /\ UNCHANGED <<emergencyTimestamps, pendingOperations, pendingOpIndex, modeVars, roleVars, now>>

\* execute, executeBatch
Execute(e, op) ==
  /\ e \in executors
  /\ IsOperationReady(op)
  /\ Predecessor[op] # NoOp => IsOperationDone(Predecessor[op])
  /\ timestamps' = [timestamps EXCEPT ![op] = DoneTimestamp]
  /\ RemovePendingOperation(op)
  /\ UNCHANGED <<emergencyTimestamps, modeVars, roleVars, now>>

\* cancel: both stores are cleared.
Cancel(c, op) ==
  /\ c \in cancellers
  /\ IsOperationPending(op)
  /\ timestamps' = [timestamps EXCEPT ![op] = 0]
  /\ emergencyTimestamps' = [emergencyTimestamps EXCEPT ![op] = 0]
  /\ RemovePendingOperation(op)
  /\ UNCHANGED <<modeVars, roleVars, now>>

-----------------------------------------------------------------------------
(***************************************************************************)
(* The emergency mode.                                                     *)
(***************************************************************************)

\* Mutant of Propose: a second proposal starts the wait again (before L-11).
ProposeAgain(u, mode) ==
  /\ u \in emergencyOperators
  /\ emergencyMode # mode
  /\ pendingEmergencyMode' = mode
  /\ emergencyModeChangeTimestamp' = now + EmergencyDelay
  /\ UNCHANGED <<opVars, emergencyMode, roleVars, now>>

\* proposeEnableEmergencyMode, proposeDisableEmergencyMode
Propose(u, mode) ==
  /\ u \in emergencyOperators
  /\ emergencyMode # mode
  /\ emergencyModeChangeTimestamp = 0
  /\ pendingEmergencyMode' = mode
  /\ emergencyModeChangeTimestamp' = now + EmergencyDelay
  /\ UNCHANGED <<opVars, emergencyMode, roleVars, now>>

CancelEmergencyModeChange(u) ==
  /\ u \in emergencyOperators
  /\ emergencyModeChangeTimestamp # 0
  /\ emergencyModeChangeTimestamp' = 0
  /\ UNCHANGED <<opVars, emergencyMode, pendingEmergencyMode, roleVars, now>>

Listed == {pendingOperations[i] : i \in 1 .. Len(pendingOperations)}

\* super.cancel checks the caller's CANCELLER_ROLE, once per pending operation.
MayCancelListed(e) == (\E op \in Listed : IsOperationPending(op)) => e \in cancellers

\* The loop cancels what is listed and pending, and empties the list.
ExecuteEmergencyModeChange(e) ==
  /\ e \in executors
  /\ emergencyModeChangeTimestamp # 0
  /\ now >= emergencyModeChangeTimestamp
  /\ MayCancelListed(e)
  /\ timestamps' = [op \in Op |->
       IF op \in Listed /\ IsOperationPending(op) THEN 0 ELSE timestamps[op]]
  /\ pendingOpIndex' = [op \in Op |-> IF op \in Listed THEN 0 ELSE pendingOpIndex[op]]
  /\ pendingOperations' = <<>>
  /\ emergencyMode' = pendingEmergencyMode
  /\ emergencyModeChangeTimestamp' = 0
  /\ UNCHANGED <<emergencyTimestamps, pendingEmergencyMode, roleVars, now>>

-----------------------------------------------------------------------------
(***************************************************************************)
(* Roles (DEFAULT_ADMIN_ROLE) and time.                                    *)
(***************************************************************************)

AddEmergencyOperator(u) ==
  /\ u \notin emergencyOperators
  /\ emergencyOperators' = emergencyOperators \cup {u}
  /\ UNCHANGED <<opVars, modeVars, executors, cancellers, now>>

RemoveEmergencyOperator(u) ==
  /\ u \in emergencyOperators
  /\ emergencyOperators' = emergencyOperators \ {u}
  /\ UNCHANGED <<opVars, modeVars, executors, cancellers, now>>

\* AccessControl.grantRole(EXECUTOR_ROLE, e), as the admin may call it.
GrantExecutor(e) ==
  /\ executors' = executors \cup {e}
  /\ UNCHANGED <<opVars, modeVars, emergencyOperators, cancellers, now>>

Tick ==
  /\ now < MaxTime
  /\ now' = now + 1
  /\ UNCHANGED <<opVars, modeVars, roleVars>>

Next ==
  \/ \E op \in Op, delay \in Delay : Schedule(op, delay)
  \/ \E u \in Actor, op \in Op :
       ScheduleEmergency(u, op) \/ Execute(u, op) \/ Cancel(u, op)
  \/ \E u \in Actor, mode \in BOOLEAN : Propose(u, mode)
  \/ \E u \in Actor :
       \/ CancelEmergencyModeChange(u) \/ ExecuteEmergencyModeChange(u)
       \/ AddEmergencyOperator(u) \/ RemoveEmergencyOperator(u) \/ GrantExecutor(u)
  \/ Tick

Spec == Init /\ [][Next]_vars

-----------------------------------------------------------------------------
(***************************************************************************)
(* Properties.                                                             *)
(***************************************************************************)

\* The list holds exactly the operations of S, each where its index says, and
\* the index of every other operation reads "not listed".
ListsExactly(list, index, S) ==
  /\ \A i \in 1 .. Len(list) : list[i] \in S /\ index[list[i]] = i
  /\ \A op \in S : index[op] \in 1 .. Len(list) /\ list[index[op]] = op
  /\ \A op \in Op \ S : index[op] = 0

\* pendingOperations lists exactly the operations that wait in the library's
\* store, each once and where its index says, whatever is executed, cancelled
\* or swept: the loop of a mode change meets every one of them, and removing an
\* emergency operation, which is never listed, leaves the list alone.
PendingListExact ==
  ListsExactly(pendingOperations, pendingOpIndex,
               {op \in Op : timestamps[op] > DoneTimestamp})

\* How the storage represents what became of an operation.
OpsOf ==
  [op \in Op |->
     IF ~IsOperation(op) THEN [status |-> "unset", readyAt |-> 0, urgent |-> FALSE]
     ELSE IF IsOperationDone(op) THEN [status |-> "done", readyAt |-> 0, urgent |-> FALSE]
     ELSE IF timestamps[op] # 0
     THEN [status |-> "pending", readyAt |-> timestamps[op], urgent |-> FALSE]
     ELSE [status |-> "pending", readyAt |-> emergencyTimestamps[op], urgent |-> TRUE]]

Abstract == INSTANCE OperationTimelock WITH
  ops <- OpsOf, emergency <- emergencyMode,
  switchAt <- emergencyModeChangeTimestamp, clock <- now

\* The contract is a timelock: no path executes an operation before its full
\* delay, twice, or before its predecessor; nothing brings an executed or a
\* cancelled operation back, moves a ready time or puts off a mode change; and
\* a mode change sweeps every operation that waits in the ordinary way.
ImplementsTimelock == Abstract!AbsSpec
=============================================================================
