-------------------------- MODULE QuarantineVault --------------------------
(***************************************************************************)
(* QuarantineVault.sol: the platform takes suspicious funds into custody   *)
(* and gives them back to their owner, one record or a batch at a time, or *)
(* lets the owner claim them after a delay; records can be frozen for ever *)
(* and the vault paused.  The vault keeps totals of what it owes beside    *)
(* the records, while the tokens themselves may keep a fee of a deposit or *)
(* refuse a recipient.                                                     *)
(*                                                                         *)
(* The token contracts are external: balance and paid are their ledgers.   *)
(* Record ids are numbered by recordNonce; totalQuarantined, recordIdList  *)
(* and userRecords, which only repeat it, and the reasons are left out, as *)
(* is who holds which role.                                                *)
(***************************************************************************)
EXTENDS Naturals, FiniteSetsExt

CONSTANTS
  Account,          \* owners
  Token,
  Fee,              \* what each token keeps of a transfer to the vault
  Amount,           \* amounts of deposits
  Disabled,         \* claimDelay = type(uint256).max
  ClaimDelay,       \* the delays an administrator may set, 7 days at most
  MinPauseDuration, \* MIN_PAUSE_DURATION, in ticks
  WithdrawalDelay,  \* WITHDRAWAL_DELAY, in ticks
  MaxRecords,       \* bound of the number of records, for model checking only
  MaxEther,         \* bound of the ether received, for model checking only
  StartTime,        \* the time of deployment
  MaxTime           \* bound of the clock, for model checking only

ASSUME VaultAssumption ==
  /\ Fee \in [Token -> Nat]
  /\ Amount \subseteq Nat \ {0}
  /\ \A t \in Token, m \in Amount : Fee[t] <= m
  /\ ClaimDelay \subseteq Nat /\ Disabled \notin Nat
  /\ {MinPauseDuration, WithdrawalDelay, MaxRecords, MaxEther, MaxTime} \subseteq Nat
  /\ StartTime \in Nat \ {0}

VARIABLES
  books,               \* records, totals and the token ledgers, see Books
  requiresApproval,    \* records with claimRequiresApproval
  claimDelay,          \* claimDelay
  emergencyPaused,     \* emergencyPaused
  lastPauseAt,         \* lastPauseAt
  ethBalance,          \* address(this).balance
  pendingWithdrawal,   \* pendingWithdrawalAmount, pendingWithdrawalExecuteAfter
  blocked,             \* owners to whom the tokens refuse a transfer
  now                  \* block.timestamp

RecordId == 1 .. MaxRecords

policyVars == <<requiresApproval, claimDelay>>
pauseVars == <<emergencyPaused, lastPauseAt>>
ethVars == <<ethBalance, pendingWithdrawal>>
vars == <<books, policyVars, pauseVars, ethVars, blocked, now>>

NoRecord == [owner |-> "none", token |-> "none", amount |-> 0, timestamp |-> 0,
             released |-> FALSE, frozen |-> FALSE]

Record == [owner : Account, token : Token, amount : Nat, timestamp : Nat \ {0},
           released : BOOLEAN, frozen : BOOLEAN]

Books == [records : [RecordId -> Record \cup {NoRecord}],
          recordNonce : 0 .. MaxRecords,
          totalReleased : Nat,
          totalReleasedAmount : Nat,
          totalQuarantinedAmount : Nat,
          tokenQuarantinedAmount : [Token -> Nat],
          balance : [Token -> Nat],
          paid : [Account -> [Token -> Nat]]]

NoWithdrawal == [amount |-> 0, executeAfter |-> 0]

TypeOK ==
  /\ books \in Books
  /\ requiresApproval \subseteq RecordId
  /\ claimDelay \in ClaimDelay \cup {Disabled}
  /\ emergencyPaused \in BOOLEAN
  /\ lastPauseAt \in Nat
  /\ ethBalance \in Nat
  /\ pendingWithdrawal \in [amount : Nat, executeAfter : Nat]
  /\ blocked \subseteq Account
  /\ now \in Nat \ {0}

Init ==
  /\ books = [records |-> [id \in RecordId |-> NoRecord],
              recordNonce |-> 0,
              totalReleased |-> 0,
              totalReleasedAmount |-> 0,
              totalQuarantinedAmount |-> 0,
              tokenQuarantinedAmount |-> [t \in Token |-> 0],
              balance |-> [t \in Token |-> 0],
              paid |-> [a \in Account |-> [t \in Token |-> 0]]]
  /\ requiresApproval = {}
  /\ claimDelay = Disabled
  /\ emergencyPaused = FALSE
  /\ lastPauseAt = 0
  /\ ethBalance = 0
  /\ pendingWithdrawal = NoWithdrawal
  /\ blocked = {}
  /\ now = StartTime

-----------------------------------------------------------------------------
(***************************************************************************)
(* The books after one deposit or one release.                             *)
(***************************************************************************)

\* What the vault receives of a transfer; the token keeps its fee.
Received(t, m) == m - Fee[t]

\* Mutant of Deposit: the amount requested is recorded (before H-48).
DepositRequested(b, a, t, m) ==
  LET id == b.recordNonce + 1
  IN  [b EXCEPT
        !.records[id] = [owner |-> a, token |-> t, amount |-> m, timestamp |-> now,
                         released |-> FALSE, frozen |-> FALSE],
        !.recordNonce = id,
        !.totalQuarantinedAmount = @ + m,
        !.tokenQuarantinedAmount[t] = @ + m,
        !.balance[t] = @ + Received(t, m)]

\* _quarantineFunds and the loop of batchDeposit: the record and the totals end
\* with what arrived, not with what was asked for.
Deposit(b, a, t, m) ==
  LET id == b.recordNonce + 1
      actual == Received(t, m)
  IN  [b EXCEPT
        !.records[id] = [owner |-> a, token |-> t, amount |-> actual, timestamp |-> now,
                         released |-> FALSE, frozen |-> FALSE],
        !.recordNonce = id,
        !.totalQuarantinedAmount = @ + actual,
        !.tokenQuarantinedAmount[t] = @ + actual,
        !.balance[t] = @ + actual]

\* The checks that every way out shares.
Releasable(b, id) ==
  /\ b.records[id].timestamp # 0
  /\ ~b.records[id].released
  /\ ~b.records[id].frozen
  /\ ~emergencyPaused

\* The token accepts the transfer, and the vault's totals cover the record.
Payable(b, id) ==
  LET r == b.records[id]
  IN  /\ r.owner \notin blocked
      /\ r.amount <= b.balance[r.token]
      /\ r.amount <= b.totalQuarantinedAmount
      /\ r.amount <= b.tokenQuarantinedAmount[r.token]

\* Mutant of Release: the token's total is forgotten.
ReleaseKeepingTotal(b, id) ==
  LET r == b.records[id]
  IN  [b EXCEPT
        !.records[id].released = TRUE,
        !.totalReleased = @ + 1,
        !.totalReleasedAmount = @ + r.amount,
        !.totalQuarantinedAmount = @ - r.amount,
        !.balance[r.token] = @ - r.amount,
        !.paid[r.owner][r.token] = @ + r.amount]

Release(b, id) ==
  LET r == b.records[id]
  IN  [b EXCEPT
        !.records[id].released = TRUE,
        !.totalReleased = @ + 1,
        !.totalReleasedAmount = @ + r.amount,
        !.totalQuarantinedAmount = @ - r.amount,
        !.tokenQuarantinedAmount[r.token] = @ - r.amount,
        !.balance[r.token] = @ - r.amount,
        !.paid[r.owner][r.token] = @ + r.amount]

\* Mutant of ReleaseItem: the state is written before the transfer, and a
\* transfer that fails does not undo it (before C-01).
ReleaseItemFirst(b, id) ==
  IF ~Releasable(b, id) THEN b
  ELSE IF Payable(b, id) THEN Release(b, id)
  ELSE [Release(b, id) EXCEPT !.balance = b.balance, !.paid = b.paid]

\* One turn of the loop of batchReleaseFunds: a record that may not go, or
\* whose token refuses, is skipped.
ReleaseItem(b, id) ==
  IF Releasable(b, id) /\ Payable(b, id) THEN Release(b, id) ELSE b

-----------------------------------------------------------------------------
(***************************************************************************)
(* The transactions on records.                                            *)
(***************************************************************************)

\* quarantineFunds, deposit.
QuarantineFunds(a, t, m) ==
  /\ ~emergencyPaused
  /\ books.recordNonce < MaxRecords
  /\ books' = Deposit(books, a, t, m)
  /\ UNCHANGED <<policyVars, pauseVars, ethVars, blocked, now>>

\* batchDeposit with two items; a longer batch is a run of steps between which
\* the clock stands still.
BatchDeposit(a1, t1, m1, a2, t2, m2) ==
  /\ ~emergencyPaused
  /\ books.recordNonce + 1 < MaxRecords
  /\ books' = Deposit(Deposit(books, a1, t1, m1), a2, t2, m2)
  /\ UNCHANGED <<policyVars, pauseVars, ethVars, blocked, now>>

\* releaseFunds, release, governanceUnlock: all or nothing.
ReleaseFunds(id) ==
  /\ Releasable(books, id)
  /\ Payable(books, id)
  /\ books' = Release(books, id)
  /\ UNCHANGED <<policyVars, pauseVars, ethVars, blocked, now>>

\* batchReleaseFunds with two ids, which may be the same.
BatchReleaseFunds(id1, id2) ==
  /\ books' = ReleaseItem(ReleaseItem(books, id1), id2)
  /\ UNCHANGED <<policyVars, pauseVars, ethVars, blocked, now>>

\* claimFunds, by the owner of the record.
ClaimFunds(id) ==
  /\ Releasable(books, id)
  /\ id \notin requiresApproval
  /\ claimDelay # Disabled
  /\ now >= books.records[id].timestamp + claimDelay
  /\ Payable(books, id)
  /\ books' = Release(books, id)
  /\ UNCHANGED <<policyVars, pauseVars, ethVars, blocked, now>>

\* Mutant of FreezePermanently: a record that was paid back can be frozen.
FreezeAnytime(id) ==
  /\ books.records[id].timestamp # 0
  /\ ~books.records[id].frozen
  /\ books' = [books EXCEPT !.records[id].frozen = TRUE]
  /\ UNCHANGED <<policyVars, pauseVars, ethVars, blocked, now>>

\* Mutant of FreezePermanently: a record that does not exist can be frozen.
FreezeUnknown(id) ==
  /\ ~books.records[id].released
  /\ ~books.records[id].frozen
  /\ books' = [books EXCEPT !.records[id].frozen = TRUE]
  /\ UNCHANGED <<policyVars, pauseVars, ethVars, blocked, now>>

FreezePermanently(id) ==
  /\ books.records[id].timestamp # 0
  /\ ~books.records[id].released
  /\ ~books.records[id].frozen
  /\ books' = [books EXCEPT !.records[id].frozen = TRUE]
  /\ UNCHANGED <<policyVars, pauseVars, ethVars, blocked, now>>

-----------------------------------------------------------------------------
(***************************************************************************)
(* Administration, ether, and the outside world.                           *)
(***************************************************************************)

SetClaimDelay(d) ==
  /\ claimDelay' = d
  /\ UNCHANGED <<books, requiresApproval, pauseVars, ethVars, blocked, now>>

SetClaimRequiresApproval(id, required) ==
  /\ books.records[id].timestamp # 0
  /\ requiresApproval' = IF required THEN requiresApproval \cup {id} ELSE requiresApproval \ {id}
  /\ UNCHANGED <<books, claimDelay, pauseVars, ethVars, blocked, now>>

EmergencyPause ==
  /\ emergencyPaused' = TRUE
  /\ lastPauseAt' = now
  /\ UNCHANGED <<books, policyVars, ethVars, blocked, now>>

EmergencyUnpause ==
  /\ now - lastPauseAt >= MinPauseDuration
  /\ emergencyPaused' = FALSE
  /\ UNCHANGED <<books, policyVars, lastPauseAt, ethVars, blocked, now>>

ReceiveEther ==
  /\ ethBalance < MaxEther
  /\ ethBalance' = ethBalance + 1
  /\ UNCHANGED <<books, policyVars, pauseVars, pendingWithdrawal, blocked, now>>

\* A second proposal replaces the first and starts the delay again.
ProposeWithdrawETH ==
  /\ ethBalance > 0
  /\ pendingWithdrawal' = [amount |-> ethBalance, executeAfter |-> now + WithdrawalDelay]
  /\ UNCHANGED <<books, policyVars, pauseVars, ethBalance, blocked, now>>

ExecuteWithdrawETH ==
  /\ pendingWithdrawal # NoWithdrawal
  /\ now >= pendingWithdrawal.executeAfter
  /\ ethBalance >= pendingWithdrawal.amount
  /\ ethBalance' = ethBalance - pendingWithdrawal.amount
  /\ pendingWithdrawal' = NoWithdrawal
  /\ UNCHANGED <<books, policyVars, pauseVars, blocked, now>>

CancelWithdrawETH ==
  /\ pendingWithdrawal # NoWithdrawal
  /\ pendingWithdrawal' = NoWithdrawal
  /\ UNCHANGED <<books, policyVars, pauseVars, ethBalance, blocked, now>>

\* A token puts an owner on its own list, or takes it off.
Block(a) ==
  /\ blocked' = IF a \in blocked THEN blocked \ {a} ELSE blocked \cup {a}
  /\ UNCHANGED <<books, policyVars, pauseVars, ethVars, now>>

Tick ==
  /\ now < MaxTime
  /\ now' = now + 1
  /\ UNCHANGED <<books, policyVars, pauseVars, ethVars, blocked>>

DepositNext ==
  \E a1, a2 \in Account, t1, t2 \in Token, m1, m2 \in Amount :
    QuarantineFunds(a1, t1, m1) \/ BatchDeposit(a1, t1, m1, a2, t2, m2)

RecordNext ==
  \E id \in RecordId :
    \/ ReleaseFunds(id) \/ ClaimFunds(id) \/ FreezePermanently(id)
    \/ \E id2 \in RecordId : BatchReleaseFunds(id, id2)
    \/ \E required \in BOOLEAN : SetClaimRequiresApproval(id, required)

PolicyNext ==
  \/ \E d \in ClaimDelay : SetClaimDelay(d)
  \/ EmergencyPause \/ EmergencyUnpause
  \/ ReceiveEther \/ ProposeWithdrawETH \/ ExecuteWithdrawETH \/ CancelWithdrawETH

Next == DepositNext \/ RecordNext \/ PolicyNext \/ Tick \/ \E a \in Account : Block(a)

Spec == Init /\ [][Next]_vars

-----------------------------------------------------------------------------
(***************************************************************************)
(* Properties.                                                             *)
(***************************************************************************)

Existing == {id \in RecordId : books.records[id].timestamp # 0}
Held == {id \in Existing : ~books.records[id].released}
PaidBack == {id \in Existing : books.records[id].released}

\* The sum of the amounts of a set of records.
Worth(ids) == MapThenSumSet(LAMBDA id : books.records[id].amount, ids)

\* The totals of the vault are those of its records: what it holds, overall and
\* of each token, and what it gave back, by any of the ways in and out, with
\* tokens that keep a fee and batches that name a record twice.
TotalsMatchRecords ==
  /\ books.recordNonce = Cardinality(Existing)
  /\ books.totalReleased = Cardinality(PaidBack)
  /\ books.totalReleasedAmount = Worth(PaidBack)
  /\ books.totalQuarantinedAmount = Worth(Held)
  /\ \A t \in Token :
       books.tokenQuarantinedAmount[t] = Worth({id \in Held : books.records[id].token = t})

\* The tokens in the vault cover what it owes.
VaultSolvent == \A t \in Token : books.tokenQuarantinedAmount[t] <= books.balance[t]

\* An owner gets each of its released records once, in full: no record is marked
\* as released without its transfer, and none is paid twice.
OwnersPaidOnce ==
  \A a \in Account, t \in Token :
    books.paid[a][t] =
      Worth({id \in PaidBack : books.records[id].owner = a /\ books.records[id].token = t})

\* A frozen record never leaves, by any way out, and a record that left is not
\* reported as frozen.
FrozenStaysHeld ==
  \A id \in RecordId : books.records[id].frozen => ~books.records[id].released

\* A release never fails for the sake of the books: whatever came in and went out,
\* the totals and the balance cover each record that is held.
HeldArePayable ==
  \A id \in Held : books.records[id].owner \notin blocked => Payable(books, id)

\* A proposed withdrawal can always be paid: only withdrawals take ether, and
\* one is pending at a time.
WithdrawalCovered == pendingWithdrawal.amount <= ethBalance
=============================================================================
