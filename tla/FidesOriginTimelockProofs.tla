---------------------- MODULE FidesOriginTimelockProofs ----------------------
(***************************************************************************)
(* The timelock theorems, for any operations, predecessors, delays and     *)
(* holders of roles.                                                       *)
(*                                                                         *)
(* The argument: the swap-and-pop of the list keeps it exact, because an   *)
(* operation enters it when it starts to wait in the library's store and   *)
(* leaves it when it stops; an operation is never in both stores unless it *)
(* is done, so that clearing the library's entry really unsets it; and an  *)
(* announced mode is always the opposite of the present one.  These make   *)
(* the step of the contract a step of OperationTimelock.                   *)
(***************************************************************************)
EXTENDS FidesOriginTimelock, FiniteSetTheorems, SequenceTheorems, TLAPS

-----------------------------------------------------------------------------
(***************************************************************************)
(* The list and its index.                                                 *)
(***************************************************************************)

\* Appending an operation that is not listed.
LEMMA AppendListsExactly ==
  ASSUME NEW S \in SUBSET Op, NEW list \in Seq(Op), NEW index \in [Op -> Nat],
         ListsExactly(list, index, S), NEW op \in Op, op \notin S
  PROVE  /\ Append(list, op) \in Seq(Op)
         /\ ListsExactly(Append(list, op), [index EXCEPT ![op] = Len(list) + 1], S \cup {op})
<1> DEFINE l == Append(list, op)
           x == [index EXCEPT ![op] = Len(list) + 1]
<1>1. /\ Len(list) \in Nat /\ l \in Seq(Op) /\ Len(l) = Len(list) + 1
      /\ \A i \in 1 .. Len(list) : l[i] = list[i]
      /\ l[Len(list) + 1] = op
  BY AppendProperties, LenProperties
<1>2. x[op] = Len(list) + 1 /\ \A b \in Op \ {op} : x[b] = index[b]
  OBVIOUS
<1> HIDE DEF l, x
<1>3. \A i \in 1 .. Len(l) : l[i] \in S \cup {op} /\ x[l[i]] = i
  <2> SUFFICES ASSUME NEW i \in 1 .. Len(l) PROVE l[i] \in S \cup {op} /\ x[l[i]] = i
    OBVIOUS
  <2>1. CASE i = Len(list) + 1
    BY <1>1, <1>2, <2>1
  <2>2. CASE i \in 1 .. Len(list)
    <3>1. l[i] = list[i] /\ list[i] \in S /\ index[list[i]] = i
      BY <1>1, <2>2 DEF ListsExactly
    <3> QED BY <1>2, <3>1
  <2> QED BY <1>1, <2>1, <2>2
<1>4. \A b \in S \cup {op} : x[b] \in 1 .. Len(l) /\ l[x[b]] = b
  <2> SUFFICES ASSUME NEW b \in S \cup {op} PROVE x[b] \in 1 .. Len(l) /\ l[x[b]] = b
    OBVIOUS
  <2>1. CASE b = op
    BY <1>1, <1>2, <2>1
  <2>2. CASE b \in S
    <3>1. x[b] = index[b] /\ index[b] \in 1 .. Len(list) /\ list[index[b]] = b
      BY <1>2, <2>2 DEF ListsExactly
    <3> QED BY <1>1, <3>1
  <2> QED BY <2>1, <2>2
<1>5. \A b \in Op \ (S \cup {op}) : x[b] = 0
  BY <1>2 DEF ListsExactly
<1> QED BY <1>1, <1>3, <1>4, <1>5 DEF ListsExactly, l, x

\* Swap and pop of a listed operation.
LEMMA RemoveListsExactly ==
  ASSUME NEW S \in SUBSET Op, NEW list \in Seq(Op), NEW index \in [Op -> Nat],
         ListsExactly(list, index, S), NEW op \in S
  PROVE  LET n == Len(list)
             l == SubSeq([list EXCEPT ![index[op]] = list[n]], 1, n - 1)
             x == [[index EXCEPT ![list[n]] = index[op]] EXCEPT ![op] = 0]
         IN  l \in Seq(Op) /\ ListsExactly(l, x, S \ {op})
<1> DEFINE n == Len(list)
           k == index[op]
           z == list[n]
           m == [list EXCEPT ![k] = z]
           l == SubSeq(m, 1, n - 1)
           x == [[index EXCEPT ![z] = k] EXCEPT ![op] = 0]
<1>1. n \in Nat /\ list \in [1 .. n -> Op]
  BY LenProperties
<1>2. k \in 1 .. n /\ list[k] = op /\ op \in Op
  BY DEF ListsExactly
<1>3. z \in S /\ z \in Op /\ index[z] = n
  BY <1>1, <1>2 DEF ListsExactly
<1>4. \A i \in 1 .. n - 1 : m[i] \in Op /\ m[i] = IF i = k THEN z ELSE list[i]
  BY <1>1, <1>2, <1>3
<1>5. l \in Seq(Op) /\ Len(l) = n - 1 /\ \A i \in 1 .. n - 1 : l[i] = m[i]
  <2>1. n - 1 \in Nat /\ 1 \in Int /\ n - 1 \in Int
    BY <1>1, <1>2
  <2>2. /\ l \in Seq(Op)
        /\ Len(l) = IF 1 <= n - 1 THEN n - 1 - 1 + 1 ELSE 0
        /\ \A i \in 1 .. n - 1 - 1 + 1 : l[i] = m[1 + i - 1]
    BY <1>4, <2>1, SubSeqProperties
  <2> HIDE DEF n, m, l
  <2> QED BY <2>1, <2>2
<1>6. /\ x[op] = 0
      /\ z # op => x[z] = k
      /\ \A b \in Op \ {op, z} : x[b] = index[b]
  BY <1>2, <1>3
<1>7. z = op <=> k = n
  BY <1>2, <1>3
<1> HIDE DEF n, k, z, m, l, x
<1>8. \A i \in 1 .. Len(l) : l[i] \in S \ {op} /\ x[l[i]] = i
  <2> SUFFICES ASSUME NEW i \in 1 .. n - 1 PROVE l[i] \in S \ {op} /\ x[l[i]] = i
    BY <1>5
  <2>1. CASE i = k
    <3>1. z # op /\ l[i] = z
      BY <1>1, <1>2, <1>4, <1>5, <1>7, <2>1
    <3> QED BY <1>3, <1>6, <2>1, <3>1
  <2>2. CASE i # k
    <3>1. l[i] = list[i] /\ i \in 1 .. n
      BY <1>1, <1>4, <1>5, <2>2
    <3>2. list[i] \in S /\ index[list[i]] = i
      BY <3>1 DEF ListsExactly, n
    <3>3. list[i] # op /\ list[i] # z
      BY <1>1, <1>3, <2>2, <3>2 DEF k
    <3> QED BY <1>6, <3>1, <3>2, <3>3
  <2> QED BY <2>1, <2>2
<1>9. \A b \in S \ {op} : x[b] \in 1 .. Len(l) /\ l[x[b]] = b
  <2> SUFFICES ASSUME NEW b \in S \ {op} PROVE x[b] \in 1 .. n - 1 /\ l[x[b]] = b
    BY <1>5
  <2>1. index[b] \in 1 .. n /\ list[index[b]] = b
    BY DEF ListsExactly, n
  <2>2. CASE b = z
    <3>1. x[b] = k /\ k \in 1 .. n - 1
      BY <1>1, <1>2, <1>6, <1>7, <2>2
    <3> QED BY <1>4, <1>5, <2>2, <3>1
  <2>3. CASE b # z
    <3>1. x[b] = index[b]
      BY <1>6, <2>3
    <3>2. index[b] # n /\ index[b] # k
      BY <1>2, <2>1, <2>3 DEF z
    <3>3. index[b] \in 1 .. n - 1
      BY <1>1, <2>1, <3>2
    <3> QED BY <1>4, <1>5, <2>1, <3>1, <3>2, <3>3
  <2> QED BY <2>2, <2>3
<1>10. \A b \in Op \ (S \ {op}) : x[b] = 0
  BY <1>3, <1>6 DEF ListsExactly
<1> QED BY <1>5, <1>8, <1>9, <1>10 DEF ListsExactly, n, k, z, m, l, x

-----------------------------------------------------------------------------
(***************************************************************************)
(* The inductive invariant.                                                *)
(***************************************************************************)

Types ==
  /\ timestamps \in [Op -> Nat]
  /\ emergencyTimestamps \in [Op -> Nat]
  /\ pendingOperations \in Seq(Op)
  /\ pendingOpIndex \in [Op -> Nat]
  /\ emergencyMode \in BOOLEAN
  /\ pendingEmergencyMode \in BOOLEAN
  /\ emergencyModeChangeTimestamp \in Nat
  /\ emergencyOperators \subseteq Actor
  /\ executors \subseteq Actor
  /\ cancellers \subseteq Actor
  /\ now \in Nat /\ now > DoneTimestamp

\* The operations that wait in the library's store.
WaitingOps == {op \in Op : timestamps[op] > DoneTimestamp}

\* An operation is in both stores only when it is done; no ready time of an
\* emergency operation reads "done".
StoresApart ==
  \A op \in Op :
    /\ timestamps[op] > DoneTimestamp => emergencyTimestamps[op] = 0
    /\ emergencyTimestamps[op] # DoneTimestamp

\* An announced mode is the opposite of the present one.
AnnouncedModeNew ==
  emergencyModeChangeTimestamp # 0 => pendingEmergencyMode = ~emergencyMode

IInv ==
  /\ Types
  /\ PendingListExact
  /\ StoresApart
  /\ AnnouncedModeNew

\* A new contract has scheduled nothing.
LEMMA TimelockInit == Init => IInv
<1> SUFFICES ASSUME Init PROVE IInv
  OBVIOUS
<1>1. Types
  <2>1. <<>> \in Seq(Op) /\ Deployed \subseteq Actor /\ {} \subseteq Actor /\ 2 \in Nat
    BY TimelockConstants
  <2>2. /\ timestamps \in [Op -> Nat] /\ emergencyTimestamps \in [Op -> Nat]
        /\ pendingOpIndex \in [Op -> Nat]
    BY DEF Init
  <2>3. now > DoneTimestamp
    BY DEF Init, DoneTimestamp
  <2>4. emergencyMode \in BOOLEAN /\ pendingEmergencyMode \in BOOLEAN
    BY DEF Init
  <2> QED BY <2>1, <2>2, <2>3, <2>4 DEF Init, Types
<1>2. PendingListExact
  BY DEF Init, PendingListExact, ListsExactly, DoneTimestamp
<1>3. StoresApart
  BY DEF Init, StoresApart, DoneTimestamp
<1>4. AnnouncedModeNew
  BY DEF Init, AnnouncedModeNew
<1> QED BY <1>1, <1>2, <1>3, <1>4 DEF IInv

\* Scheduling in the library's store.
LEMMA ScheduleInv ==
  ASSUME IInv, NEW op \in Op, NEW delay \in Delay, Schedule(op, delay)
  PROVE  IInv'
<1> USE DEF IInv
<1>1. /\ timestamps' = [timestamps EXCEPT ![op] = now + delay]
      /\ now + delay \in Nat /\ now + delay > DoneTimestamp
      /\ timestamps[op] = 0 /\ emergencyTimestamps[op] = 0
      /\ UNCHANGED <<emergencyTimestamps, modeVars, roleVars, now>>
  BY TimelockConstants
     DEF Schedule, Types, IsOperation, GetTimestamp, DoneTimestamp
<1>2. op \notin WaitingOps /\ WaitingOps' = WaitingOps \cup {op}
  BY <1>1 DEF WaitingOps, Types, DoneTimestamp
<1>3. pendingOpIndex[op] = 0
  BY <1>2 DEF PendingListExact, ListsExactly, WaitingOps
<1>4. /\ pendingOperations' = Append(pendingOperations, op)
      /\ pendingOpIndex' = [pendingOpIndex EXCEPT ![op] = Len(pendingOperations) + 1]
  BY <1>3 DEF Schedule, AddPendingOperation
<1>5. /\ pendingOperations' \in Seq(Op)
      /\ ListsExactly(pendingOperations', pendingOpIndex', WaitingOps')
  <2>1. ListsExactly(pendingOperations, pendingOpIndex, WaitingOps)
    BY DEF PendingListExact, WaitingOps
  <2>2. WaitingOps \in SUBSET Op /\ pendingOperations \in Seq(Op) /\ pendingOpIndex \in [Op -> Nat]
    BY DEF WaitingOps, Types
  <2> HIDE DEF IInv
  <2> QED BY <1>2, <1>4, <2>1, <2>2, AppendListsExactly
<1>6. Types'
  <2>1. timestamps' \in [Op -> Nat]
    BY <1>1 DEF Types
  <2>2. pendingOpIndex' \in [Op -> Nat]
    BY <1>4, LenProperties DEF Types
  <2> QED BY <1>1, <1>5, <2>1, <2>2 DEF Types, modeVars, roleVars
<1>7. PendingListExact'
  BY <1>5 DEF PendingListExact, WaitingOps, ListsExactly
<1>8. StoresApart' /\ AnnouncedModeNew'
  BY <1>1 DEF StoresApart, AnnouncedModeNew, modeVars, Types
<1> QED BY <1>6, <1>7, <1>8

\* Scheduling in the emergency store.
LEMMA ScheduleEmergencyInv ==
  ASSUME IInv, NEW u \in Actor, NEW op \in Op, ScheduleEmergency(u, op)
  PROVE  IInv'
<1> USE DEF IInv
<1>1. /\ emergencyTimestamps' = [emergencyTimestamps EXCEPT ![op] = now + EmergencyDelay]
      /\ now + EmergencyDelay \in Nat /\ now + EmergencyDelay > DoneTimestamp
      /\ timestamps[op] = 0
      /\ UNCHANGED <<timestamps, pendingOperations, pendingOpIndex, modeVars, roleVars, now>>
  BY TimelockConstants
     DEF ScheduleEmergency, Types, IsOperation, GetTimestamp, DoneTimestamp
<1>2. Types'
  BY <1>1 DEF Types, modeVars, roleVars
<1>3. PendingListExact'
  BY <1>1 DEF PendingListExact, ListsExactly
<1>4. StoresApart' /\ AnnouncedModeNew'
  BY <1>1 DEF StoresApart, AnnouncedModeNew, modeVars, Types, DoneTimestamp
<1> QED BY <1>2, <1>3, <1>4

\* An operation that stops waiting leaves the list, if it was on it.
LEMMA RemoveInv ==
  ASSUME IInv, NEW op \in Op, RemovePendingOperation(op),
         NEW t \in {0, DoneTimestamp}, timestamps' = [timestamps EXCEPT ![op] = t]
  PROVE  /\ pendingOperations' \in Seq(Op)
         /\ pendingOpIndex' \in [Op -> Nat]
         /\ timestamps' \in [Op -> Nat]
         /\ PendingListExact'
<1> USE DEF IInv
<1>1. t \in Nat /\ timestamps' \in [Op -> Nat]
  BY DEF Types, DoneTimestamp
<1>2. WaitingOps' = WaitingOps \ {op}
  BY DEF WaitingOps, Types, DoneTimestamp
<1>3. ListsExactly(pendingOperations, pendingOpIndex, WaitingOps)
  BY DEF PendingListExact, WaitingOps
<1>4. CASE op \in WaitingOps
  <2> DEFINE n == Len(pendingOperations)
             z == pendingOperations[n]
             l == SubSeq([pendingOperations EXCEPT ![pendingOpIndex[op]] = z], 1, n - 1)
             x == [[pendingOpIndex EXCEPT ![z] = pendingOpIndex[op]] EXCEPT ![op] = 0]
  <2>1. pendingOpIndex[op] \in 1 .. n
    BY <1>3, <1>4 DEF ListsExactly
  <2>2. pendingOperations' = l /\ pendingOpIndex' = x
    BY <2>1 DEF RemovePendingOperation
  <2>3. l \in Seq(Op) /\ ListsExactly(l, x, WaitingOps \ {op})
    BY <1>3, <1>4, RemoveListsExactly DEF WaitingOps, Types
  <2>4. x \in [Op -> Nat]
    BY <2>1 DEF Types
  <2> HIDE DEF l, x
  <2>5. PendingListExact'
    BY <1>2, <2>2, <2>3 DEF PendingListExact, WaitingOps, ListsExactly
  <2> QED BY <1>1, <2>2, <2>3, <2>4, <2>5
<1>5. CASE op \notin WaitingOps
  <2>1. pendingOpIndex[op] = 0
    BY <1>3, <1>5 DEF ListsExactly
  <2>2. UNCHANGED <<pendingOperations, pendingOpIndex>>
    BY <2>1 DEF RemovePendingOperation
  <2>3. WaitingOps' = WaitingOps
    BY <1>2, <1>5
  <2>4. PendingListExact'
    BY <1>3, <2>2, <2>3 DEF PendingListExact, WaitingOps, ListsExactly
  <2> QED BY <1>1, <2>2, <2>4 DEF Types
<1> QED BY <1>4, <1>5

\* An executed operation is done in the library's store and off the list.
LEMMA ExecuteInv ==
  ASSUME IInv, NEW e \in Actor, NEW op \in Op, Execute(e, op)
  PROVE  IInv'
<1>1. /\ RemovePendingOperation(op)
      /\ timestamps' = [timestamps EXCEPT ![op] = DoneTimestamp]
      /\ UNCHANGED <<emergencyTimestamps, modeVars, roleVars, now>>
  BY DEF Execute
<1>2. /\ pendingOperations' \in Seq(Op) /\ pendingOpIndex' \in [Op -> Nat]
      /\ timestamps' \in [Op -> Nat] /\ PendingListExact'
  BY <1>1, RemoveInv
<1>3. Types'
  BY <1>1, <1>2 DEF IInv, Types, modeVars, roleVars
<1>4. StoresApart' /\ AnnouncedModeNew'
  BY <1>1 DEF IInv, Types, StoresApart, AnnouncedModeNew, modeVars, DoneTimestamp
<1> QED BY <1>2, <1>3, <1>4 DEF IInv

\* A cancelled operation is in neither store and off the list.
LEMMA CancelInv ==
  ASSUME IInv, NEW c \in Actor, NEW op \in Op, Cancel(c, op)
  PROVE  IInv'
<1>1. /\ RemovePendingOperation(op)
      /\ timestamps' = [timestamps EXCEPT ![op] = 0]
      /\ emergencyTimestamps' = [emergencyTimestamps EXCEPT ![op] = 0]
      /\ UNCHANGED <<modeVars, roleVars, now>>
  BY DEF Cancel
<1>2. /\ pendingOperations' \in Seq(Op) /\ pendingOpIndex' \in [Op -> Nat]
      /\ timestamps' \in [Op -> Nat] /\ PendingListExact'
  BY <1>1, RemoveInv
<1>3. Types'
  BY <1>1, <1>2 DEF IInv, Types, modeVars, roleVars
<1>4. StoresApart' /\ AnnouncedModeNew'
  BY <1>1 DEF IInv, Types, StoresApart, AnnouncedModeNew, modeVars, DoneTimestamp
<1> QED BY <1>2, <1>3, <1>4 DEF IInv

\* The listed operations are those that wait in the library's store.
LEMMA ListedAreWaiting ==
  ASSUME IInv
  PROVE  Listed = WaitingOps
<1>1. ListsExactly(pendingOperations, pendingOpIndex, WaitingOps) /\ WaitingOps \subseteq Op
  BY DEF IInv, PendingListExact, WaitingOps
<1>2. ASSUME NEW op \in WaitingOps PROVE op \in Listed
  <2>1. pendingOpIndex[op] \in 1 .. Len(pendingOperations)
        /\ pendingOperations[pendingOpIndex[op]] = op
    BY <1>1 DEF ListsExactly
  <2> QED BY <2>1 DEF Listed
<1>3. ASSUME NEW op \in Listed PROVE op \in WaitingOps
  BY <1>1 DEF Listed, ListsExactly
<1> QED BY <1>2, <1>3

\* What a change of mode does to the stores: everything waiting in the
\* library's store is unset, and nothing else changes.
LEMMA SweepClears ==
  ASSUME IInv, NEW e \in Actor, ExecuteEmergencyModeChange(e)
  PROVE  /\ timestamps' = [op \in Op |-> IF op \in WaitingOps THEN 0 ELSE timestamps[op]]
         /\ pendingOpIndex' = [op \in Op |-> 0]
         /\ pendingOperations' = <<>>
         /\ UNCHANGED emergencyTimestamps
<1>1. Listed = WaitingOps
  BY ListedAreWaiting
<1>2. \A op \in WaitingOps : IsOperationPending(op)
  BY DEF IInv, Types, WaitingOps, IsOperationPending, GetTimestamp, DoneTimestamp
<1>3. timestamps' = [op \in Op |-> IF op \in WaitingOps THEN 0 ELSE timestamps[op]]
  <2>1. timestamps' = [op \in Op |->
          IF op \in Listed /\ IsOperationPending(op) THEN 0 ELSE timestamps[op]]
    BY DEF ExecuteEmergencyModeChange
  <2>2. \A op \in Op : (op \in Listed /\ IsOperationPending(op)) <=> op \in WaitingOps
    BY <1>1, <1>2
  <2> QED BY <2>1, <2>2
<1>4. pendingOpIndex' = [op \in Op |-> 0]
  <2>1. \A op \in Op : op \notin WaitingOps => pendingOpIndex[op] = 0
    BY DEF IInv, PendingListExact, ListsExactly, WaitingOps
  <2>2. pendingOpIndex' = [op \in Op |-> IF op \in Listed THEN 0 ELSE pendingOpIndex[op]]
    BY DEF ExecuteEmergencyModeChange
  <2> QED BY <1>1, <2>1, <2>2
<1> QED BY <1>3, <1>4 DEF ExecuteEmergencyModeChange

\* A change of mode empties the list and the library's store.
LEMMA ModeChangeInv ==
  ASSUME IInv, NEW e \in Actor, ExecuteEmergencyModeChange(e)
  PROVE  IInv'
<1>1. /\ timestamps' = [op \in Op |-> IF op \in WaitingOps THEN 0 ELSE timestamps[op]]
      /\ pendingOpIndex' = [op \in Op |-> 0]
      /\ pendingOperations' = <<>>
      /\ UNCHANGED emergencyTimestamps
  BY SweepClears
<1>2. /\ emergencyMode' = pendingEmergencyMode
      /\ emergencyModeChangeTimestamp' = 0
      /\ UNCHANGED <<pendingEmergencyMode, roleVars, now>>
  BY DEF ExecuteEmergencyModeChange
<1>3. timestamps' \in [Op -> Nat] /\ \A op \in Op : timestamps'[op] <= DoneTimestamp
  BY <1>1 DEF IInv, Types, WaitingOps, DoneTimestamp
<1>4. Types'
  <2>1. pendingOperations' \in Seq(Op) /\ pendingOpIndex' \in [Op -> Nat]
    BY <1>1
  <2> QED BY <1>1, <1>2, <1>3, <2>1 DEF IInv, Types, roleVars
<1>5. PendingListExact'
  <2>1. WaitingOps' = {}
    BY <1>3 DEF WaitingOps, DoneTimestamp
  <2>2. Len(pendingOperations') = 0
    BY <1>1
  <2> QED BY <1>1, <2>1, <2>2 DEF PendingListExact, ListsExactly, WaitingOps
<1>6. StoresApart'
  BY <1>1, <1>3 DEF IInv, StoresApart, DoneTimestamp
<1>7. AnnouncedModeNew'
  BY <1>2 DEF AnnouncedModeNew
<1> QED BY <1>4, <1>5, <1>6, <1>7 DEF IInv

\* Announcing and calling off a change of mode, roles, and time.
LEMMA OtherStepsInv ==
  ASSUME IInv,
         \/ \E u \in Actor, mode \in BOOLEAN : Propose(u, mode)
         \/ \E u \in Actor :
              \/ CancelEmergencyModeChange(u) \/ AddEmergencyOperator(u)
              \/ RemoveEmergencyOperator(u) \/ GrantExecutor(u)
         \/ Tick
         \/ UNCHANGED vars
  PROVE  IInv'
<1>1. UNCHANGED opVars
  BY DEF Propose, CancelEmergencyModeChange, AddEmergencyOperator, RemoveEmergencyOperator,
         GrantExecutor, Tick, vars
<1>2. PendingListExact' /\ StoresApart'
  BY <1>1 DEF IInv, opVars, PendingListExact, ListsExactly, StoresApart
<1>3. Types' /\ AnnouncedModeNew'
  <2> USE <1>1 DEF IInv, Types, AnnouncedModeNew, opVars, modeVars, roleVars
  <2>1. ASSUME NEW u \in Actor, NEW mode \in BOOLEAN, Propose(u, mode)
        PROVE  Types' /\ AnnouncedModeNew'
    <3>1. /\ emergencyMode # mode /\ pendingEmergencyMode' = mode
          /\ emergencyModeChangeTimestamp' = now + EmergencyDelay
          /\ UNCHANGED <<emergencyMode, roleVars, now>>
      BY <2>1 DEF Propose
    <3>2. emergencyModeChangeTimestamp' \in Nat
      BY <3>1, TimelockConstants
    <3>3. pendingEmergencyMode' = (~emergencyMode')
      <4>1. mode = (~emergencyMode)
        <5>1. emergencyMode = TRUE \/ emergencyMode = FALSE
          BY Zenon
        <5>2. mode = TRUE \/ mode = FALSE
          BY Zenon
        <5>3. CASE emergencyMode = TRUE
          <6>1. mode = FALSE
            BY <3>1, <5>2, <5>3, Zenon
          <6> QED BY <5>3, <6>1
        <5>4. CASE emergencyMode = FALSE
          <6>1. mode = TRUE
            BY <3>1, <5>2, <5>4, Zenon
          <6> QED BY <5>4, <6>1
        <5> QED BY <5>1, <5>3, <5>4, Zenon
      <4> QED BY <3>1, <4>1
    <3>4. Types'
      BY <3>1, <3>2
    <3>5. AnnouncedModeNew'
      BY <3>3
    <3> QED BY <3>4, <3>5
  <2>2. ASSUME NEW u \in Actor, CancelEmergencyModeChange(u)
        PROVE  Types' /\ AnnouncedModeNew'
    BY <2>2 DEF CancelEmergencyModeChange
  <2>3. ASSUME NEW u \in Actor,
               AddEmergencyOperator(u) \/ RemoveEmergencyOperator(u) \/ GrantExecutor(u)
        PROVE  Types' /\ AnnouncedModeNew'
    BY <2>3 DEF AddEmergencyOperator, RemoveEmergencyOperator, GrantExecutor
  <2>4. CASE Tick
    BY <2>4 DEF Tick, DoneTimestamp
  <2>5. CASE UNCHANGED vars
    BY <2>5 DEF vars
  <2> QED BY <2>1, <2>2, <2>3, <2>4, <2>5
<1> QED BY <1>2, <1>3 DEF IInv

\* Every transaction keeps the invariant.
LEMMA TimelockStep == IInv /\ [Next]_vars => IInv'
<1> SUFFICES ASSUME IInv, [Next]_vars PROVE IInv'
  OBVIOUS
<1>1. ASSUME NEW op \in Op, NEW delay \in Delay, Schedule(op, delay) PROVE IInv'
  BY <1>1, ScheduleInv
<1>2. ASSUME NEW u \in Actor, NEW op \in Op,
             ScheduleEmergency(u, op) \/ Execute(u, op) \/ Cancel(u, op)
      PROVE  IInv'
  BY <1>2, ScheduleEmergencyInv, ExecuteInv, CancelInv
<1>3. ASSUME NEW e \in Actor, ExecuteEmergencyModeChange(e) PROVE IInv'
  BY <1>3, ModeChangeInv
<1> QED BY <1>1, <1>2, <1>3, OtherStepsInv DEF Next

\* The invariant holds of every behaviour.
LEMMA TimelockInvariant == Spec => []IInv
BY TimelockInit, TimelockStep, PTL DEF Spec

-----------------------------------------------------------------------------
(***************************************************************************)
(* The theorems.                                                           *)
(***************************************************************************)

\* The storage of the timelock stays well-typed, and every index entry points
\* into the list.
THEOREM TimelockTypeSafety == Spec => []TypeOK
<1>1. IInv => TypeOK
  <2> SUFFICES ASSUME IInv PROVE TypeOK
    OBVIOUS
  <2>1. ASSUME NEW op \in Op PROVE pendingOpIndex[op] \in 0 .. Len(pendingOperations)
    <3>1. Len(pendingOperations) \in Nat
      BY LenProperties DEF IInv, Types
    <3>2. op \in WaitingOps => pendingOpIndex[op] \in 1 .. Len(pendingOperations)
      BY DEF IInv, PendingListExact, ListsExactly, WaitingOps
    <3>3. op \notin WaitingOps => pendingOpIndex[op] = 0
      BY DEF IInv, PendingListExact, ListsExactly, WaitingOps
    <3> QED BY <3>1, <3>2, <3>3
  <2>2. pendingOpIndex \in [Op -> 0 .. Len(pendingOperations)]
    BY <2>1 DEF IInv, Types
  <2> QED BY <2>2 DEF IInv, Types, TypeOK
<1> QED BY <1>1, TimelockInvariant, PTL

\* The list of pending operations is exact, so that a change of mode sweeps
\* every operation that waits in the ordinary way.
THEOREM PendingListAlwaysExact == Spec => []PendingListExact
<1>1. IInv => PendingListExact
  BY DEF IInv
<1> QED BY <1>1, TimelockInvariant, PTL

-----------------------------------------------------------------------------
(***************************************************************************)
(* The refinement: the contract is a timelock.                             *)
(***************************************************************************)

\* What the two stores say of an operation, with t and e its entries in them.
Shown(t, e) ==
  IF t = 0 /\ e = 0 THEN Abstract!Unset
  ELSE IF t = DoneTimestamp \/ (t = 0 /\ e = DoneTimestamp) THEN Abstract!Finished
  ELSE IF t # 0 THEN Abstract!Waiting(t, FALSE)
  ELSE Abstract!Waiting(e, TRUE)

\* OpsOf reads nothing but the two entries of each operation.
LEMMA OpsOfShown ==
  /\ OpsOf = [op \in Op |-> Shown(timestamps[op], emergencyTimestamps[op])]
  /\ OpsOf' = [op \in Op |-> Shown(timestamps'[op], emergencyTimestamps'[op])]
BY DEF OpsOf, Shown, IsOperation, IsOperationDone, GetTimestamp, DoneTimestamp,
       Abstract!Unset, Abstract!Finished, Abstract!Waiting

\* A step that changes the entries of one operation changes what is shown of
\* that operation alone.
LEMMA OneOpShown ==
  ASSUME IInv, NEW op \in Op, NEW t \in Nat, NEW e \in Nat,
         timestamps' = [timestamps EXCEPT ![op] = t],
         emergencyTimestamps' = [emergencyTimestamps EXCEPT ![op] = e]
  PROVE  OpsOf' = [OpsOf EXCEPT ![op] = Shown(t, e)]
<1>1. /\ timestamps \in [Op -> Nat] /\ emergencyTimestamps \in [Op -> Nat]
  BY DEF IInv, Types
<1>2. \A p \in Op :
        /\ timestamps'[p] = IF p = op THEN t ELSE timestamps[p]
        /\ emergencyTimestamps'[p] = IF p = op THEN e ELSE emergencyTimestamps[p]
  BY <1>1
<1> HIDE DEF Shown
<1>3. \A p \in Op : Shown(timestamps'[p], emergencyTimestamps'[p])
        = IF p = op THEN Shown(t, e) ELSE Shown(timestamps[p], emergencyTimestamps[p])
  BY <1>2
<1> QED BY <1>3, OpsOfShown

\* An unchanged step of the stores shows nothing new.
LEMMA SameOpsShown ==
  ASSUME UNCHANGED <<timestamps, emergencyTimestamps>>
  PROVE  OpsOf' = OpsOf
BY OpsOfShown

\* A new contract shows a new timelock.
LEMMA RefinesInit == Init => Abstract!AbsInit
<1> SUFFICES ASSUME Init PROVE Abstract!AbsInit
  OBVIOUS
<1>1. \A op \in Op : Shown(timestamps[op], emergencyTimestamps[op]) = Abstract!Unset
  BY DEF Init, Shown
<1>2. OpsOf = [op \in Op |-> Abstract!Unset]
  BY <1>1, OpsOfShown
<1> QED BY <1>2 DEF Init, Abstract!AbsInit

\* Scheduling, in either store.
LEMMA RefinesSchedule ==
  ASSUME IInv, NEW op \in Op, NEW d \in Delay, Schedule(op, d)
  PROVE  Abstract!AbsSchedule(op, d)
<1>1. /\ timestamps[op] = 0 /\ emergencyTimestamps[op] = 0
      /\ now + d \in Nat /\ now + d > DoneTimestamp
      /\ emergencyTimestamps' = [emergencyTimestamps EXCEPT ![op] = 0]
  BY TimelockConstants
     DEF IInv, Types, Schedule, IsOperation, GetTimestamp, DoneTimestamp
<1>2. OpsOf[op] = Abstract!Unset
  BY <1>1, OpsOfShown DEF Shown
<1>a. timestamps' = [timestamps EXCEPT ![op] = now + d]
  BY DEF Schedule
<1>3. OpsOf' = [OpsOf EXCEPT ![op] = Shown(now + d, 0)]
  <2> DEFINE t == now + d
             e == 0
  <2>1. t \in Nat /\ e \in Nat
    BY <1>1
  <2>2. timestamps' = [timestamps EXCEPT ![op] = t]
    BY <1>a
  <2>3. emergencyTimestamps' = [emergencyTimestamps EXCEPT ![op] = e]
    BY <1>1
  <2> HIDE DEF t, e
  <2>4. OpsOf' = [OpsOf EXCEPT ![op] = Shown(t, e)]
    BY <2>1, <2>2, <2>3, OneOpShown
  <2> QED BY <2>4 DEF t, e
<1>4. Shown(now + d, 0) = Abstract!Waiting(now + d, FALSE)
  BY <1>1 DEF Shown, DoneTimestamp, Abstract!Waiting
<1> QED BY <1>2, <1>3, <1>4 DEF Schedule, modeVars, Abstract!AbsSchedule

LEMMA RefinesScheduleUrgent ==
  ASSUME IInv, NEW u \in Actor, NEW op \in Op, ScheduleEmergency(u, op)
  PROVE  Abstract!AbsScheduleUrgent(op)
<1>1. /\ timestamps[op] = 0 /\ emergencyTimestamps[op] = 0
      /\ now + EmergencyDelay \in Nat /\ now + EmergencyDelay > DoneTimestamp
      /\ timestamps' = [timestamps EXCEPT ![op] = 0]
  BY TimelockConstants
     DEF IInv, Types, ScheduleEmergency, IsOperation, GetTimestamp, DoneTimestamp
<1>2. OpsOf[op] = Abstract!Unset
  BY <1>1, OpsOfShown DEF Shown
<1>a. emergencyTimestamps' = [emergencyTimestamps EXCEPT ![op] = now + EmergencyDelay]
  BY DEF ScheduleEmergency
<1>3. OpsOf' = [OpsOf EXCEPT ![op] = Shown(0, now + EmergencyDelay)]
  <2> DEFINE t == 0
             e == now + EmergencyDelay
  <2>1. t \in Nat /\ e \in Nat
    BY <1>1
  <2>2. timestamps' = [timestamps EXCEPT ![op] = t]
    BY <1>1
  <2>3. emergencyTimestamps' = [emergencyTimestamps EXCEPT ![op] = e]
    BY <1>a
  <2> HIDE DEF t, e
  <2>4. OpsOf' = [OpsOf EXCEPT ![op] = Shown(t, e)]
    BY <2>1, <2>2, <2>3, OneOpShown
  <2> QED BY <2>4 DEF t, e
<1>4. Shown(0, now + EmergencyDelay) = Abstract!Waiting(now + EmergencyDelay, TRUE)
  BY <1>1 DEF Shown, DoneTimestamp, Abstract!Waiting
<1> QED BY <1>2, <1>3, <1>4 DEF ScheduleEmergency, modeVars, Abstract!AbsScheduleUrgent

\* What is shown of a pending, and of a done, operation.
LEMMA PendingShown ==
  ASSUME IInv, NEW op \in Op
  PROVE  /\ IsOperationPending(op) =>
              /\ OpsOf[op].status = "pending"
              /\ OpsOf[op].readyAt = GetTimestamp(op)
         /\ IsOperationDone(op) => OpsOf[op] = Abstract!Finished
<1>1. timestamps[op] \in Nat /\ emergencyTimestamps[op] \in Nat
  BY DEF IInv, Types
<1>2. OpsOf[op] = Shown(timestamps[op], emergencyTimestamps[op])
  BY OpsOfShown
<1>3. ASSUME IsOperationPending(op)
      PROVE  OpsOf[op].status = "pending" /\ OpsOf[op].readyAt = GetTimestamp(op)
  <2>1. CASE timestamps[op] # 0
    BY <1>1, <1>2, <1>3, <2>1
       DEF Shown, IsOperationPending, GetTimestamp, DoneTimestamp, Abstract!Waiting
  <2>2. CASE timestamps[op] = 0
    BY <1>1, <1>2, <1>3, <2>2
       DEF Shown, IsOperationPending, GetTimestamp, DoneTimestamp, Abstract!Waiting
  <2> QED BY <2>1, <2>2
<1>4. ASSUME IsOperationDone(op) PROVE OpsOf[op] = Abstract!Finished
  <2>1. \/ timestamps[op] = DoneTimestamp
        \/ timestamps[op] = 0 /\ emergencyTimestamps[op] = DoneTimestamp
    BY <1>4 DEF IsOperationDone, GetTimestamp
  <2>2. ~(timestamps[op] = 0 /\ emergencyTimestamps[op] = 0)
    BY <2>1 DEF DoneTimestamp
  <2>3. Shown(timestamps[op], emergencyTimestamps[op]) = Abstract!Finished
    BY <2>1, <2>2, Zenon DEF Shown
  <2> QED BY <1>2, <2>3
<1> QED BY <1>3, <1>4

LEMMA RefinesExecute ==
  ASSUME IInv, NEW u \in Actor, NEW op \in Op, Execute(u, op)
  PROVE  Abstract!AbsExecute(op)
<1>1. /\ IsOperationPending(op) /\ GetTimestamp(op) <= now
      /\ Predecessor[op] # NoOp => IsOperationDone(Predecessor[op])
      /\ timestamps' = [timestamps EXCEPT ![op] = DoneTimestamp]
      /\ emergencyTimestamps' = [emergencyTimestamps EXCEPT ![op] = emergencyTimestamps[op]]
      /\ emergencyTimestamps[op] \in Nat
      /\ UNCHANGED <<emergencyMode, emergencyModeChangeTimestamp, now>>
  BY DEF IInv, Types, Execute, IsOperationReady, modeVars
<1>2. OpsOf[op].status = "pending" /\ OpsOf[op].readyAt <= now
  BY <1>1, PendingShown
<1>3. Predecessor[op] # NoOp => OpsOf[Predecessor[op]] = Abstract!Finished
  BY <1>1, PendingShown, TimelockConstants
<1>4. OpsOf' = [OpsOf EXCEPT ![op] = Shown(DoneTimestamp, emergencyTimestamps[op])]
  BY <1>1, OneOpShown DEF DoneTimestamp
<1>5. Shown(DoneTimestamp, emergencyTimestamps[op]) = Abstract!Finished
  BY DEF Shown, DoneTimestamp
<1> QED BY <1>1, <1>2, <1>3, <1>4, <1>5 DEF Abstract!AbsExecute, Abstract!IsPending

LEMMA RefinesCancel ==
  ASSUME IInv, NEW u \in Actor, NEW op \in Op, Cancel(u, op)
  PROVE  Abstract!AbsCancel(op)
<1>1. OpsOf[op].status = "pending"
  BY PendingShown DEF Cancel
<1>2. OpsOf' = [OpsOf EXCEPT ![op] = Shown(0, 0)]
  BY OneOpShown DEF Cancel
<1>3. Shown(0, 0) = Abstract!Unset
  BY DEF Shown
<1> QED BY <1>1, <1>2, <1>3 DEF Cancel, modeVars, Abstract!AbsCancel, Abstract!IsPending

\* The loop of a mode change unsets what waits in the ordinary way, and the
\* emergency operations, which are not listed, go on waiting.
LEMMA RefinesSwitch ==
  ASSUME IInv, NEW u \in Actor, ExecuteEmergencyModeChange(u)
  PROVE  Abstract!AbsSwitch
<1>1. /\ timestamps' = [op \in Op |-> IF op \in WaitingOps THEN 0 ELSE timestamps[op]]
      /\ UNCHANGED emergencyTimestamps
  BY SweepClears
<1>2. /\ emergencyModeChangeTimestamp # 0
      /\ now >= emergencyModeChangeTimestamp
      /\ emergencyMode' = (~emergencyMode)
      /\ emergencyModeChangeTimestamp' = 0
      /\ UNCHANGED now
  BY DEF ExecuteEmergencyModeChange, IInv, AnnouncedModeNew
<1>3. ASSUME NEW op \in Op
      PROVE  Shown(timestamps'[op], emergencyTimestamps'[op])
               = IF OpsOf[op].status = "pending" /\ ~OpsOf[op].urgent
                 THEN Abstract!Unset ELSE OpsOf[op]
  <2>1. timestamps[op] \in Nat /\ emergencyTimestamps[op] \in Nat
    BY DEF IInv, Types
  <2>2. OpsOf[op] = Shown(timestamps[op], emergencyTimestamps[op])
    BY OpsOfShown
  <2>3. CASE op \in WaitingOps
    <3>1. /\ timestamps[op] > DoneTimestamp /\ emergencyTimestamps[op] = 0
          /\ timestamps'[op] = 0 /\ emergencyTimestamps'[op] = 0
      BY <1>1, <2>3 DEF WaitingOps, IInv, StoresApart
    <3>2. OpsOf[op] = Abstract!Waiting(timestamps[op], FALSE)
      BY <2>1, <2>2, <3>1
         DEF Shown, DoneTimestamp, Abstract!Unset, Abstract!Finished, Abstract!Waiting
    <3>3. OpsOf[op].status = "pending" /\ ~OpsOf[op].urgent
      BY <3>2 DEF Abstract!Waiting
    <3>4. Shown(timestamps'[op], emergencyTimestamps'[op]) = Abstract!Unset
      BY <3>1 DEF Shown
    <3> QED BY <3>3, <3>4
  <2>4. CASE op \notin WaitingOps
    <3>1. /\ timestamps[op] <= DoneTimestamp
          /\ timestamps'[op] = timestamps[op]
          /\ emergencyTimestamps'[op] = emergencyTimestamps[op]
      BY <1>1, <2>1, <2>4 DEF WaitingOps, DoneTimestamp
    <3>2. \/ OpsOf[op] = Abstract!Unset
          \/ OpsOf[op] = Abstract!Finished
          \/ OpsOf[op] = Abstract!Waiting(emergencyTimestamps[op], TRUE)
      BY <2>1, <2>2, <3>1
         DEF Shown, DoneTimestamp, Abstract!Unset, Abstract!Finished, Abstract!Waiting
    <3>3. ~(OpsOf[op].status = "pending" /\ ~OpsOf[op].urgent)
      BY <3>2 DEF Abstract!Unset, Abstract!Finished, Abstract!Waiting
    <3> QED BY <2>2, <3>1, <3>3
  <2> QED BY <2>3, <2>4
<1>4. OpsOf' = [op \in Op |-> IF OpsOf[op].status = "pending" /\ ~OpsOf[op].urgent
                               THEN Abstract!Unset ELSE OpsOf[op]]
  BY <1>3, OpsOfShown
<1> QED BY <1>2, <1>4 DEF Abstract!AbsSwitch, Abstract!IsPending

\* The other steps leave the operations alone.
LEMMA RefinesOther ==
  ASSUME IInv,
         \/ \E u \in Actor, mode \in BOOLEAN : Propose(u, mode)
         \/ \E u \in Actor :
              \/ CancelEmergencyModeChange(u) \/ AddEmergencyOperator(u)
              \/ RemoveEmergencyOperator(u) \/ GrantExecutor(u)
         \/ Tick
         \/ UNCHANGED vars
  PROVE  [Abstract!AbsNext]_(Abstract!absVars)
<1>1. OpsOf' = OpsOf
  <2>1. UNCHANGED opVars
    BY DEF Propose, CancelEmergencyModeChange, AddEmergencyOperator,
           RemoveEmergencyOperator, GrantExecutor, Tick, vars
  <2> QED BY <2>1, SameOpsShown DEF opVars
<1>2. ASSUME NEW u \in Actor, NEW mode \in BOOLEAN, Propose(u, mode)
      PROVE  Abstract!AbsAnnounceSwitch
  BY <1>1, <1>2 DEF Propose, Abstract!AbsAnnounceSwitch
<1>3. ASSUME NEW u \in Actor, CancelEmergencyModeChange(u)
      PROVE  Abstract!AbsCallOffSwitch
  BY <1>1, <1>3 DEF CancelEmergencyModeChange, Abstract!AbsCallOffSwitch
<1>4. ASSUME NEW u \in Actor,
             AddEmergencyOperator(u) \/ RemoveEmergencyOperator(u) \/ GrantExecutor(u)
      PROVE  UNCHANGED Abstract!absVars
  BY <1>1, <1>4
     DEF AddEmergencyOperator, RemoveEmergencyOperator, GrantExecutor, modeVars,
         Abstract!absVars
<1>5. CASE Tick
  <2>1. Abstract!AbsTick
    BY <1>1, <1>5 DEF Tick, modeVars, Abstract!AbsTick
  <2> QED BY <2>1 DEF Abstract!AbsNext
<1>6. CASE UNCHANGED vars
  BY <1>1, <1>6 DEF vars, modeVars, Abstract!absVars
<1> QED BY <1>2, <1>3, <1>4, <1>5, <1>6 DEF Abstract!AbsNext

\* Every step of the contract is a step of the timelock, or shows nothing.
LEMMA RefinesStep == IInv /\ [Next]_vars => [Abstract!AbsNext]_(Abstract!absVars)
<1> SUFFICES ASSUME IInv, [Next]_vars PROVE [Abstract!AbsNext]_(Abstract!absVars)
  OBVIOUS
<1>1. ASSUME NEW op \in Op, NEW delay \in Delay, Schedule(op, delay)
      PROVE  Abstract!AbsNext
  BY <1>1, RefinesSchedule DEF Abstract!AbsNext
<1>2. ASSUME NEW u \in Actor, NEW op \in Op,
             ScheduleEmergency(u, op) \/ Execute(u, op) \/ Cancel(u, op)
      PROVE  Abstract!AbsNext
  BY <1>2, RefinesScheduleUrgent, RefinesExecute, RefinesCancel DEF Abstract!AbsNext
<1>3. ASSUME NEW u \in Actor, ExecuteEmergencyModeChange(u) PROVE Abstract!AbsNext
  BY <1>3, RefinesSwitch DEF Abstract!AbsNext
<1> QED BY <1>1, <1>2, <1>3, RefinesOther DEF Next

\* The contract implements the timelock: with its two stores, its list and its
\* roles it never executes an operation early, twice or before its predecessor,
\* never brings one back, and sweeps on a change of mode what it should.
THEOREM ContractImplementsTimelock == Spec => ImplementsTimelock
<1>1. Init => Abstract!AbsInit
  BY RefinesInit
<1>2. IInv /\ [Next]_vars => [Abstract!AbsNext]_(Abstract!absVars)
  BY RefinesStep
<1> QED BY <1>1, <1>2, TimelockInvariant, PTL
        DEF Spec, ImplementsTimelock, Abstract!AbsSpec
=============================================================================
