------------------------- MODULE OperationTimelock -------------------------
(***************************************************************************)
(* What the protocol's timelock promises: an operation waits its full      *)
(* delay between being scheduled and being executed, is executed at most   *)
(* once and after its predecessor, and a change of mode is announced       *)
(* ahead and sweeps away the operations that wait in the ordinary way.     *)
(* No lists, no storage slots and no roles: FidesOriginTimelock.tla has    *)
(* them and implements this.                                               *)
(***************************************************************************)
EXTENDS Naturals

CONSTANTS
  Op,              \* operations, as identified by hashOperation
  NoOp,            \* bytes32(0), for an operation without a predecessor
  Predecessor,     \* part of what an operation's hash covers
  Delay,           \* the delays a proposer asks for
  MinDelay,        \* MIN_DELAY, in ticks
  EmergencyDelay,  \* EMERGENCY_DELAY, in ticks
  MaxTime          \* bound of the clock, for model checking only

VARIABLES
  ops,       \* what became of each operation
  emergency, \* the mode
  switchAt,  \* when the announced change of mode is due, 0 if none is
  clock      \* block.timestamp

absVars == <<ops, emergency, switchAt, clock>>

Unset == [status |-> "unset", readyAt |-> 0, urgent |-> FALSE]
Finished == [status |-> "done", readyAt |-> 0, urgent |-> FALSE]
Waiting(t, urgent) == [status |-> "pending", readyAt |-> t, urgent |-> urgent]

IsPending(op) == ops[op].status = "pending"

AbsInit ==
  /\ ops = [op \in Op |-> Unset]
  /\ emergency = FALSE
  /\ switchAt = 0
  /\ clock = 2

AbsSchedule(op, d) ==
  /\ ops[op] = Unset
  /\ d >= MinDelay
  /\ ops' = [ops EXCEPT ![op] = Waiting(clock + d, FALSE)]
  /\ UNCHANGED <<emergency, switchAt, clock>>

AbsScheduleUrgent(op) ==
  /\ emergency
  /\ ops[op] = Unset
  /\ ops' = [ops EXCEPT ![op] = Waiting(clock + EmergencyDelay, TRUE)]
  /\ UNCHANGED <<emergency, switchAt, clock>>

AbsExecute(op) ==
  /\ IsPending(op)
  /\ ops[op].readyAt <= clock
  /\ Predecessor[op] # NoOp => ops[Predecessor[op]] = Finished
  /\ ops' = [ops EXCEPT ![op] = Finished]
  /\ UNCHANGED <<emergency, switchAt, clock>>

AbsCancel(op) ==
  /\ IsPending(op)
  /\ ops' = [ops EXCEPT ![op] = Unset]
  /\ UNCHANGED <<emergency, switchAt, clock>>

\* A change that is announced cannot be announced again, so it cannot be put
\* off; it can only be called off.
AbsAnnounceSwitch ==
  /\ switchAt = 0
  /\ switchAt' = clock + EmergencyDelay
  /\ UNCHANGED <<ops, emergency, clock>>

AbsCallOffSwitch ==
  /\ switchAt # 0
  /\ switchAt' = 0
  /\ UNCHANGED <<ops, emergency, clock>>

AbsSwitch ==
  /\ switchAt # 0
  /\ clock >= switchAt
  /\ emergency' = ~emergency
  /\ switchAt' = 0
  /\ ops' = [op \in Op |-> IF IsPending(op) /\ ~ops[op].urgent THEN Unset ELSE ops[op]]
  /\ UNCHANGED clock

AbsTick ==
  /\ clock < MaxTime
  /\ clock' = clock + 1
  /\ UNCHANGED <<ops, emergency, switchAt>>

AbsNext ==
  \/ \E op \in Op, d \in Delay : AbsSchedule(op, d)
  \/ \E op \in Op : AbsScheduleUrgent(op) \/ AbsExecute(op) \/ AbsCancel(op)
  \/ AbsAnnounceSwitch \/ AbsCallOffSwitch \/ AbsSwitch
  \/ AbsTick

AbsSpec == AbsInit /\ [][AbsNext]_absVars
=============================================================================
