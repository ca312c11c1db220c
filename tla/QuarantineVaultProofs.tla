------------------------ MODULE QuarantineVaultProofs ------------------------
(***************************************************************************)
(* The theorems about the vault, for any owners, tokens, fees, amounts,    *)
(* delays and numbers of records.                                          *)
(*                                                                         *)
(* The argument: what is recorded of a deposit is what arrived, and a      *)
(* release takes the same amount from the token's total and from its       *)
(* balance, so the total never exceeds the balance; freezing and releasing *)
(* each refuse what the other did.  For the sums over the records: a sum   *)
(* grows by the amount of a record that joins its set, shrinks by that of  *)
(* one that leaves it (WorthAdd, WorthDrop), and each operation moves one  *)
(* record between the sets.  A sum is a fold that CHOOSE defines; that it  *)
(* does not depend on the order in which the set is taken apart is proved  *)
(* by induction over its subsets.                                          *)
(***************************************************************************)
EXTENDS QuarantineVault, FiniteSetTheorems, TLAPS

\* Induction over numbers, and over the subsets of a finite set.
Sums == INSTANCE FoldLemmas WITH Op <- LAMBDA x, y : x + y

-----------------------------------------------------------------------------
\* The books are well-typed, cover what is owed, and no record is both frozen
\* and released.
BooksOK(b) ==
  /\ b \in Books
  /\ \A t \in Token : b.tokenQuarantinedAmount[t] <= b.balance[t]
  /\ \A id \in RecordId : b.records[id].frozen => ~b.records[id].released

IInv == TypeOK /\ BooksOK(books) /\ WithdrawalCovered

\* A deposit keeps the books.
LEMMA DepositKeepsBooks ==
  ASSUME NEW b, BooksOK(b), NEW a \in Account, NEW t \in Token, NEW m \in Amount,
         b.recordNonce < MaxRecords, now \in Nat \ {0}
  PROVE  BooksOK(Deposit(b, a, t, m))
<1> DEFINE id == b.recordNonce + 1
           x == Received(t, m)
           r == [owner |-> a, token |-> t, amount |-> x, timestamp |-> now,
                 released |-> FALSE, frozen |-> FALSE]
           c == Deposit(b, a, t, m)
           records == [b.records EXCEPT ![id] = r]
           in == b.totalQuarantinedAmount + x
           owed == [b.tokenQuarantinedAmount EXCEPT ![t] = @ + x]
           balance == [b.balance EXCEPT ![t] = @ + x]
<1>1. x \in Nat
  BY VaultAssumption DEF Received
<1>2. b \in Books /\ id \in RecordId /\ id \in 0 .. MaxRecords
  <2>1. b \in Books /\ MaxRecords \in Nat
    BY VaultAssumption DEF BooksOK
  <2>2. b.recordNonce \in 0 .. MaxRecords
    BY <2>1 DEF Books
  <2> QED BY <2>1, <2>2 DEF RecordId
<1>3. r \in Record
  BY <1>1 DEF Record
<1>4. /\ records \in [RecordId -> Record \cup {NoRecord}]
      /\ in \in Nat /\ owed \in [Token -> Nat] /\ balance \in [Token -> Nat]
  BY <1>1, <1>2, <1>3 DEF Books
<1>5. /\ b.totalReleased \in Nat /\ b.totalReleasedAmount \in Nat
      /\ b.paid \in [Account -> [Token -> Nat]]
  BY <1>2 DEF Books
<1>6. c = [b EXCEPT !.records = records, !.recordNonce = id,
                    !.totalReleased = b.totalReleased,
                    !.totalReleasedAmount = b.totalReleasedAmount,
                    !.totalQuarantinedAmount = in, !.tokenQuarantinedAmount = owed,
                    !.balance = balance, !.paid = b.paid]
  BY <1>2 DEF Deposit, Books
<1> HIDE DEF c, records, in, owed, balance
<1>7. c \in Books /\ c.records = records /\ c.tokenQuarantinedAmount = owed /\ c.balance = balance
  BY <1>2, <1>4, <1>5, <1>6 DEF Books
<1>8. \A s \in Token : c.tokenQuarantinedAmount[s] <= c.balance[s]
  BY <1>1, <1>7 DEF BooksOK, Books, owed, balance
<1>9. \A i \in RecordId : c.records[i].frozen => ~c.records[i].released
  BY <1>2, <1>7 DEF BooksOK, Books, records
<1> QED BY <1>7, <1>8, <1>9 DEF BooksOK, c

\* So does a release.
LEMMA ReleaseKeepsBooks ==
  ASSUME NEW b, BooksOK(b), NEW id \in RecordId, Releasable(b, id), Payable(b, id)
  PROVE  BooksOK(Release(b, id))
<1> DEFINE r == b.records[id]
           c == Release(b, id)
           records == [b.records EXCEPT ![id].released = TRUE]
           count == b.totalReleased + 1
           out == b.totalReleasedAmount + r.amount
           in == b.totalQuarantinedAmount - r.amount
           owed == [b.tokenQuarantinedAmount EXCEPT ![r.token] = @ - r.amount]
           balance == [b.balance EXCEPT ![r.token] = @ - r.amount]
           paid == [b.paid EXCEPT ![r.owner][r.token] = @ + r.amount]
<1>1. b \in Books /\ r \in Record /\ ~r.frozen
  BY DEF Releasable, BooksOK, Books, NoRecord
<1>2. r.owner \in Account /\ r.token \in Token /\ r.amount \in Nat
  BY <1>1 DEF Record
<1>3. records \in [RecordId -> Record \cup {NoRecord}]
  BY <1>1 DEF Books, Record
<1>4. /\ count \in Nat /\ out \in Nat /\ in \in Nat
      /\ owed \in [Token -> Nat] /\ balance \in [Token -> Nat]
  BY <1>1, <1>2 DEF Books, Payable
<1>5. paid \in [Account -> [Token -> Nat]] /\ b.recordNonce \in 0 .. MaxRecords
  BY <1>1, <1>2 DEF Books
<1>6. c = [b EXCEPT !.records = records, !.recordNonce = b.recordNonce,
                    !.totalReleased = count, !.totalReleasedAmount = out,
                    !.totalQuarantinedAmount = in, !.tokenQuarantinedAmount = owed,
                    !.balance = balance, !.paid = paid]
  BY <1>1 DEF Release, Books
<1> HIDE DEF c, records, count, out, in, owed, balance, paid
<1>7. c \in Books /\ c.records = records /\ c.tokenQuarantinedAmount = owed /\ c.balance = balance
  BY <1>1, <1>3, <1>4, <1>5, <1>6 DEF Books
<1>8. \A s \in Token : c.tokenQuarantinedAmount[s] <= c.balance[s]
  BY <1>1, <1>2, <1>7 DEF BooksOK, Books, owed, balance
<1>9. \A i \in RecordId : c.records[i].frozen => ~c.records[i].released
  BY <1>1, <1>7 DEF BooksOK, Books, Record, records
<1> QED BY <1>7, <1>8, <1>9 DEF BooksOK, c

\* An item of a batch is released or left out.
LEMMA ReleaseItemKeepsBooks ==
  ASSUME NEW b, BooksOK(b), NEW id \in RecordId
  PROVE  BooksOK(ReleaseItem(b, id))
BY ReleaseKeepsBooks DEF ReleaseItem

\* So does freezing a record.
LEMMA FreezeKeepsBooks ==
  ASSUME BooksOK(books), NEW id \in RecordId, FreezePermanently(id)
  PROVE  BooksOK(books')
<1> DEFINE r == books.records[id]
<1>1. r \in Record /\ ~r.released
  BY DEF FreezePermanently, BooksOK, Books, NoRecord
<1>2. books' = [books EXCEPT !.records = [books.records EXCEPT ![id] = [r EXCEPT !.frozen = TRUE]]]
  BY DEF FreezePermanently, BooksOK, Books
<1>3. [r EXCEPT !.frozen = TRUE] \in Record
  BY <1>1 DEF Record
<1>4. books' \in Books
  BY <1>2, <1>3 DEF BooksOK, Books
<1>5. \A i \in RecordId : books'.records[i].frozen => ~books'.records[i].released
  BY <1>1, <1>2 DEF BooksOK, Books, Record
<1> QED BY <1>2, <1>4, <1>5 DEF BooksOK, Books

-----------------------------------------------------------------------------
\* An empty vault has books that add up.
LEMMA InitInv == Init => IInv
<1> SUFFICES ASSUME Init PROVE IInv
  OBVIOUS
<1> USE VaultAssumption DEF Init
<1>1. books \in Books
  BY DEF Books
<1>2. BooksOK(books)
  BY <1>1 DEF BooksOK, NoRecord
<1>3. TypeOK
  BY <1>1 DEF TypeOK, NoWithdrawal
<1>4. WithdrawalCovered
  BY DEF WithdrawalCovered, NoWithdrawal
<1> QED BY <1>2, <1>3, <1>4 DEF IInv

\* What the steps on deposits and records leave alone.
LEMMA BooksStepKeepsInv ==
  ASSUME IInv, BooksOK(books'), UNCHANGED <<policyVars, pauseVars, ethVars, blocked, now>>
  PROVE  IInv'
BY DEF IInv, TypeOK, BooksOK, WithdrawalCovered, policyVars, pauseVars, ethVars

\* Every step keeps the books, and the pending withdrawal covered.
LEMMA NextInv == IInv /\ [Next]_vars => IInv'
<1> SUFFICES ASSUME IInv, [Next]_vars PROVE IInv'
  OBVIOUS
<1> USE VaultAssumption
<1>0. BooksOK(books) /\ TypeOK /\ now \in Nat \ {0}
  BY DEF IInv, TypeOK
<1>1. ASSUME NEW a \in Account, NEW t \in Token, NEW m \in Amount, QuarantineFunds(a, t, m)
      PROVE  IInv'
  BY <1>0, <1>1, DepositKeepsBooks, BooksStepKeepsInv DEF QuarantineFunds
<1>2. ASSUME NEW a1 \in Account, NEW t1 \in Token, NEW m1 \in Amount,
             NEW a2 \in Account, NEW t2 \in Token, NEW m2 \in Amount,
             BatchDeposit(a1, t1, m1, a2, t2, m2)
      PROVE  IInv'
  <2> DEFINE b == Deposit(books, a1, t1, m1)
  <2>1. books.recordNonce \in Nat /\ books.recordNonce + 1 < MaxRecords
    BY <1>0, <1>2 DEF BatchDeposit, TypeOK, Books
  <2>2. BooksOK(b)
    BY <1>0, <2>1, DepositKeepsBooks
  <2>3. b.recordNonce = books.recordNonce + 1
    BY <1>0 DEF Deposit, TypeOK, Books
  <2> HIDE DEF b
  <2>4. BooksOK(Deposit(b, a2, t2, m2))
    BY <1>0, <2>1, <2>2, <2>3, DepositKeepsBooks
  <2>5. books' = Deposit(b, a2, t2, m2)
    BY <1>2 DEF BatchDeposit, b
  <2> QED BY <1>2, <2>4, <2>5, BooksStepKeepsInv DEF BatchDeposit
<1>3. ASSUME NEW id \in RecordId, ReleaseFunds(id) \/ ClaimFunds(id)
      PROVE  IInv'
  BY <1>0, <1>3, ReleaseKeepsBooks, BooksStepKeepsInv DEF ReleaseFunds, ClaimFunds
<1>4. ASSUME NEW id1 \in RecordId, NEW id2 \in RecordId, BatchReleaseFunds(id1, id2)
      PROVE  IInv'
  <2>1. BooksOK(ReleaseItem(books, id1))
    BY <1>0, ReleaseItemKeepsBooks
  <2>2. BooksOK(ReleaseItem(ReleaseItem(books, id1), id2))
    BY <2>1, ReleaseItemKeepsBooks
  <2> QED BY <1>4, <2>2, BooksStepKeepsInv DEF BatchReleaseFunds
<1>5. ASSUME NEW id \in RecordId, FreezePermanently(id)
      PROVE  IInv'
  BY <1>0, <1>5, FreezeKeepsBooks, BooksStepKeepsInv DEF FreezePermanently
<1>6. ASSUME NEW id \in RecordId, NEW required \in BOOLEAN, SetClaimRequiresApproval(id, required)
      PROVE  IInv'
  BY <1>6 DEF SetClaimRequiresApproval, pauseVars, ethVars, IInv, TypeOK, BooksOK, WithdrawalCovered
<1>7. ASSUME NEW d \in ClaimDelay, SetClaimDelay(d)
      PROVE  IInv'
  BY <1>7 DEF SetClaimDelay, pauseVars, ethVars, IInv, TypeOK, BooksOK, WithdrawalCovered
<1>8. CASE EmergencyPause \/ EmergencyUnpause
  BY <1>0, <1>8 DEF EmergencyPause, EmergencyUnpause, policyVars, ethVars, IInv, TypeOK, BooksOK,
                    WithdrawalCovered
<1>9. CASE ReceiveEther \/ ProposeWithdrawETH \/ ExecuteWithdrawETH \/ CancelWithdrawETH
  <2>1. /\ ethBalance' \in Nat
        /\ pendingWithdrawal' \in [amount : Nat, executeAfter : Nat]
        /\ WithdrawalCovered'
    BY <1>0, <1>9 DEF ReceiveEther, ProposeWithdrawETH, ExecuteWithdrawETH, CancelWithdrawETH,
                      IInv, TypeOK, WithdrawalCovered, NoWithdrawal
  <2> QED BY <1>9, <2>1 DEF ReceiveEther, ProposeWithdrawETH, ExecuteWithdrawETH,
                            CancelWithdrawETH, policyVars, pauseVars, IInv, TypeOK, BooksOK
<1>10. CASE Tick
  BY <1>0, <1>10 DEF Tick, policyVars, pauseVars, ethVars, IInv, TypeOK, BooksOK, WithdrawalCovered
<1>11. ASSUME NEW a \in Account, Block(a)
       PROVE  IInv'
  BY <1>11 DEF Block, policyVars, pauseVars, ethVars, IInv, TypeOK, BooksOK, WithdrawalCovered
<1>12. CASE UNCHANGED vars
  BY <1>12 DEF vars, policyVars, pauseVars, ethVars, IInv, TypeOK, BooksOK, WithdrawalCovered
<1> QED
  BY <1>1, <1>2, <1>3, <1>4, <1>5, <1>6, <1>7, <1>8, <1>9, <1>10, <1>11, <1>12
  DEF Next, DepositNext, RecordNext, PolicyNext

\* The books are sound in every state of the vault.
LEMMA InvAlways == Spec => []IInv
BY InitInv, NextInv, PTL DEF Spec

-----------------------------------------------------------------------------
\* The storage of the vault stays well-typed, so that no total underflows.
THEOREM VaultTypeSafety == Spec => []TypeOK
BY InvAlways, PTL DEF IInv

\* The vault can always pay what it records as owed.
THEOREM VaultAlwaysSolvent == Spec => []VaultSolvent
<1>1. IInv => VaultSolvent
  BY DEF IInv, BooksOK, VaultSolvent
<1> QED BY <1>1, InvAlways, PTL

\* No record is ever both frozen and released.
THEOREM FrozenAlwaysHeld == Spec => []FrozenStaysHeld
<1>1. IInv => FrozenStaysHeld
  BY DEF IInv, BooksOK, FrozenStaysHeld
<1> QED BY <1>1, InvAlways, PTL

\* A pending withdrawal of ether can always be paid.
THEOREM WithdrawalAlwaysCovered == Spec => []WithdrawalCovered
BY InvAlways, PTL DEF IInv

-----------------------------------------------------------------------------
(***************************************************************************)
(* Sums over sets of records.                                              *)
(***************************************************************************)

\* Induction over the subsets of a finite set.
LEMMA SubsetInduction ==
  ASSUME NEW S, IsFiniteSet(S), NEW G \in SUBSET SUBSET S,
         \A s \in SUBSET S : (\A x \in s : s \ {x} \in G) => s \in G
  PROVE  \A s \in SUBSET S : s \in G
<1>1. Sums!IsFiniteSet(S)
  BY Zenon DEF IsFiniteSet, Sums!IsFiniteSet
<1> QED BY <1>1, Sums!SubsetInduction, Zenon


Any(s) == CHOOSE x \in s : TRUE
Summed(r, iter, s) == IF s = {} THEN 0 ELSE r[Any(s)].amount + iter[s \ {Any(s)}]
Partial(r, S) == CHOOSE iter : iter = [s \in SUBSET S |-> Summed(r, iter, s)]
WorthIn(r, ids) == MapThenSumSet(LAMBDA id : r[id].amount, ids)

\* The library's sum is the value, at the whole set, of a function over its subsets.
LEMMA WorthIsPartial ==
  ASSUME NEW r, NEW S
  PROVE  WorthIn(r, S) = Partial(r, S)[S]
BY DEF WorthIn, MapThenSumSet, MapThenFoldSet, Partial, Summed, Any

\* Such a function exists, and its value at a set is one record's amount more than
\* at the set without that record.
LEMMA PartialSums ==
  ASSUME NEW r, NEW S, IsFiniteSet(S)
  PROVE  \A s \in SUBSET S : Partial(r, S)[s] = Summed(r, Partial(r, S), s)
<1> DEFINE Small(n) == {s \in SUBSET S : Cardinality(s) <= n}
           Good(n) == \E g : g = [s \in Small(n) |-> Summed(r, g, s)]
<1>1. \A s \in SUBSET S : IsFiniteSet(s) /\ Cardinality(s) \in Nat /\ (Cardinality(s) = 0 <=> s = {})
  BY FS_Subset, FS_CardinalityType, FS_EmptySet
<1>2. \A s \in SUBSET S : s # {} =>
        Any(s) \in s /\ s \ {Any(s)} \in SUBSET S /\ Cardinality(s \ {Any(s)}) = Cardinality(s) - 1
  <2> TAKE s \in SUBSET S
  <2> HAVE s # {}
  <2>1. Any(s) \in s
    BY DEF Any
  <2> QED BY <1>1, <2>1, FS_RemoveElement
<1>3. Good(0)
  <2> DEFINE g == [s \in Small(0) |-> 0]
  <2>1. \A s \in Small(0) : s = {}
    BY <1>1
  <2>2. g = [s \in Small(0) |-> Summed(r, g, s)]
    BY <2>1, Zenon DEF Summed
  <2> QED BY <2>2
<1>4. ASSUME NEW n \in Nat, Good(n) PROVE Good(n + 1)
  <2>1. PICK g : g = [s \in Small(n) |-> Summed(r, g, s)]
    BY <1>4
  <2> DEFINE h == [s \in Small(n + 1) |-> Summed(r, g, s)]
  <2>2. ASSUME NEW s \in Small(n + 1) PROVE Summed(r, g, s) = Summed(r, h, s)
    <3>1. CASE s = {}
      BY <3>1 DEF Summed
    <3>2. CASE s # {}
      <4> DEFINE t == s \ {Any(s)}
      <4>1. t \in Small(n) /\ t \in Small(n + 1)
        BY <1>1, <1>2, <3>2
      <4>2. g[t] = Summed(r, g, t) /\ h[t] = Summed(r, g, t)
        BY <2>1, <4>1
      <4> QED BY <3>2, <4>2 DEF Summed
    <3> QED BY <3>1, <3>2
  <2>3. h = [s \in Small(n + 1) |-> Summed(r, h, s)]
    BY <2>2
  <2> QED BY <2>3
<1>5. \A n \in Nat : Good(n)
  <2> DEFINE G == {n \in Nat : Good(n)}
  <2> HIDE DEF Good
  <2>1. 0 \in G /\ \A n \in G : n + 1 \in G
    BY <1>3, <1>4
  <2> QED BY <2>1, Sums!InductionSet
<1>6. Cardinality(S) \in Nat /\ Small(Cardinality(S)) = SUBSET S
  BY <1>1, FS_Subset, FS_CardinalityType
<1>7. \E g : g = [s \in SUBSET S |-> Summed(r, g, s)]
  BY <1>5, <1>6
<1>8. Partial(r, S) = [s \in SUBSET S |-> Summed(r, Partial(r, S), s)]
  BY <1>7, Zenon DEF Partial
<1> QED BY <1>8, Zenon

\* Its value at a subset does not depend on the set it was chosen for.
LEMMA PartialSumsAgree ==
  ASSUME NEW r, NEW S, IsFiniteSet(S), NEW T \in SUBSET S
  PROVE  Partial(r, T)[T] = Partial(r, S)[T]
<1> DEFINE Same == {s \in SUBSET T : Partial(r, T)[s] = Partial(r, S)[s]}
<1>1. IsFiniteSet(T)
  BY FS_Subset
<1>2. \A s \in SUBSET T : /\ Partial(r, T)[s] = Summed(r, Partial(r, T), s)
                          /\ Partial(r, S)[s] = Summed(r, Partial(r, S), s)
  <2>1. \A s \in SUBSET T : Partial(r, T)[s] = Summed(r, Partial(r, T), s)
    BY <1>1, PartialSums
  <2>2. \A s \in SUBSET S : Partial(r, S)[s] = Summed(r, Partial(r, S), s)
    BY PartialSums
  <2> QED BY <2>1, <2>2
<1>3. \A s \in SUBSET T : (\A x \in s : s \ {x} \in Same) => s \in Same
  <2> SUFFICES ASSUME NEW s \in SUBSET T, \A x \in s : s \ {x} \in Same
               PROVE  Partial(r, T)[s] = Partial(r, S)[s]
    OBVIOUS
  <2>1. CASE s = {}
    BY <1>2, <2>1 DEF Summed
  <2>2. CASE s # {}
    <3>1. Any(s) \in s
      BY <2>2 DEF Any
    <3>2. Partial(r, T)[s \ {Any(s)}] = Partial(r, S)[s \ {Any(s)}]
      BY <3>1
    <3> QED BY <1>2, <2>2, <3>2 DEF Summed
  <2> QED BY <2>1, <2>2
<1>4. Same \in SUBSET SUBSET T
  OBVIOUS
<1> HIDE DEF Same
<1>5. T \in Same
  BY <1>1, <1>3, <1>4, SubsetInduction
<1> QED BY <1>5 DEF Same

\* A sum is the amount of some record of the set and the sum of the others.
LEMMA WorthStep ==
  ASSUME NEW r, NEW S, IsFiniteSet(S)
  PROVE  WorthIn(r, S) = IF S = {} THEN 0 ELSE r[Any(S)].amount + WorthIn(r, S \ {Any(S)})
<1>1. Partial(r, S)[S] = Summed(r, Partial(r, S), S)
  BY PartialSums
<1>2. Partial(r, S \ {Any(S)})[S \ {Any(S)}] = Partial(r, S)[S \ {Any(S)}]
  BY PartialSumsAgree
<1> QED BY <1>1, <1>2, WorthIsPartial, Zenon DEF Summed

\* A sum of natural numbers is one.
LEMMA WorthIsNatural ==
  ASSUME NEW r, NEW S, IsFiniteSet(S), \A id \in S : r[id].amount \in Nat
  PROVE  WorthIn(r, S) \in Nat
<1> DEFINE Good == {s \in SUBSET S : WorthIn(r, s) \in Nat}
<1>1. \A s \in SUBSET S : (\A x \in s : s \ {x} \in Good) => s \in Good
  <2> SUFFICES ASSUME NEW s \in SUBSET S, \A x \in s : s \ {x} \in Good
               PROVE  WorthIn(r, s) \in Nat
    OBVIOUS
  <2>1. IsFiniteSet(s)
    BY FS_Subset
  <2>2. CASE s # {}
    <3>1. Any(s) \in s
      BY <2>2 DEF Any
    <3>2. WorthIn(r, s \ {Any(s)}) \in Nat /\ r[Any(s)].amount \in Nat
      BY <3>1
    <3>3. WorthIn(r, s) = r[Any(s)].amount + WorthIn(r, s \ {Any(s)})
      BY <2>1, <2>2, WorthStep
    <3> QED BY <3>2, <3>3
  <2>3. CASE s = {}
    <3>1. WorthIn(r, s) = 0
      BY <2>1, <2>3, WorthStep
    <3> QED BY <3>1
  <2> QED BY <2>2, <2>3
<1>2. Good \in SUBSET SUBSET S
  OBVIOUS
<1> HIDE DEF Good
<1>3. S \in Good
  BY <1>1, <1>2, SubsetInduction
<1> QED BY <1>3 DEF Good

\* A sum depends on the amounts of its records only.
LEMMA WorthSame ==
  ASSUME NEW r, NEW q, NEW S, IsFiniteSet(S), \A id \in S : r[id].amount = q[id].amount
  PROVE  WorthIn(r, S) = WorthIn(q, S)
<1> DEFINE Good == {s \in SUBSET S : WorthIn(r, s) = WorthIn(q, s)}
<1>1. \A s \in SUBSET S : (\A x \in s : s \ {x} \in Good) => s \in Good
  <2> SUFFICES ASSUME NEW s \in SUBSET S, \A x \in s : s \ {x} \in Good
               PROVE  WorthIn(r, s) = WorthIn(q, s)
    OBVIOUS
  <2>1. IsFiniteSet(s)
    BY FS_Subset
  <2>2. CASE s # {}
    <3>1. Any(s) \in s
      BY <2>2 DEF Any
    <3>2. WorthIn(r, s \ {Any(s)}) = WorthIn(q, s \ {Any(s)}) /\ r[Any(s)].amount = q[Any(s)].amount
      BY <3>1
    <3> QED BY <2>1, <2>2, <3>2, WorthStep
  <2> QED BY <2>1, <2>2, WorthStep
<1>2. Good \in SUBSET SUBSET S
  OBVIOUS
<1> HIDE DEF Good
<1>3. S \in Good
  BY <1>1, <1>2, SubsetInduction
<1> QED BY <1>3 DEF Good

\* The record may be any of the set: the order of summation does not matter.
LEMMA WorthWithout ==
  ASSUME NEW r, NEW S, IsFiniteSet(S), \A id \in S : r[id].amount \in Nat
  PROVE  \A id \in S : WorthIn(r, S) = r[id].amount + WorthIn(r, S \ {id})
<1> DEFINE Good == {s \in SUBSET S : \A id \in s : WorthIn(r, s) = r[id].amount + WorthIn(r, s \ {id})}
<1>1. \A s \in SUBSET S : (\A x \in s : s \ {x} \in Good) => s \in Good
  <2> SUFFICES ASSUME NEW s \in SUBSET S, \A x \in s : s \ {x} \in Good
               PROVE  \A id \in s : WorthIn(r, s) = r[id].amount + WorthIn(r, s \ {id})
    OBVIOUS
  <2>1. IsFiniteSet(s)
    BY FS_Subset
  <2> TAKE id \in s
  <2> DEFINE first == Any(s)
             rest == s \ {first}
             other == s \ {id}
             both == s \ {id, first}
  <2>2. \A t \in SUBSET S : IsFiniteSet(t) /\ WorthIn(r, t) \in Nat
    BY FS_Subset, WorthIsNatural
  <2>3. first \in s
    BY DEF Any
  <2>4. WorthIn(r, s) = r[first].amount + WorthIn(r, rest)
    BY <2>1, WorthStep
  <2>5. CASE id = first
    BY <2>4, <2>5
  <2>6. CASE id # first
    <3> HIDE DEF first
    <3>1. WorthIn(r, rest) = r[id].amount + WorthIn(r, both)
      <4>1. id \in rest /\ rest \ {id} = both /\ rest \in Good
        BY <2>3, <2>6
      <4> QED BY <4>1
    <3>2. WorthIn(r, other) = r[first].amount + WorthIn(r, both)
      <4>1. first \in other /\ other \ {first} = both /\ other \in Good
        BY <2>3, <2>6
      <4> QED BY <4>1
    <3>3. r[id].amount \in Nat /\ r[first].amount \in Nat /\ WorthIn(r, both) \in Nat
      BY <2>2, <2>3
    <3> QED BY <2>4, <3>1, <3>2, <3>3
  <2> QED BY <2>5, <2>6
<1>2. Good \in SUBSET SUBSET S
  OBVIOUS
<1> HIDE DEF Good
<1>3. S \in Good
  BY <1>1, <1>2, SubsetInduction
<1> QED BY <1>3 DEF Good

\* A record that comes to a set, or leaves it, while the others keep their amount.
LEMMA WorthAdd ==
  ASSUME NEW r, NEW q, NEW S, IsFiniteSet(S), NEW id, id \notin S, q[id].amount \in Nat,
         \A i \in S : r[i].amount \in Nat /\ q[i].amount = r[i].amount
  PROVE  WorthIn(q, S \cup {id}) = WorthIn(r, S) + q[id].amount
<1>1. IsFiniteSet(S \cup {id}) /\ (S \cup {id}) \ {id} = S
  BY FS_AddElement
<1>2. \A i \in S \cup {id} : q[i].amount \in Nat
  OBVIOUS
<1>3. WorthIn(q, S \cup {id}) = q[id].amount + WorthIn(q, S)
  <2>1. \A i \in S \cup {id} :
          WorthIn(q, S \cup {id}) = q[i].amount + WorthIn(q, (S \cup {id}) \ {i})
    BY <1>1, <1>2, WorthWithout
  <2> QED BY <1>1, <2>1
<1>4. WorthIn(q, S) = WorthIn(r, S) /\ WorthIn(r, S) \in Nat
  BY WorthSame, WorthIsNatural
<1> QED BY <1>3, <1>4

\* A record leaves the set.
LEMMA WorthDrop ==
  ASSUME NEW r, NEW q, NEW S, IsFiniteSet(S), NEW id \in S,
         \A i \in S : r[i].amount \in Nat /\ q[i].amount = r[i].amount
  PROVE  /\ WorthIn(q, S \ {id}) = WorthIn(r, S) - r[id].amount
         /\ r[id].amount <= WorthIn(r, S)
<1>1. IsFiniteSet(S \ {id})
  BY FS_RemoveElement
<1>2. WorthIn(r, S) = r[id].amount + WorthIn(r, S \ {id})
  BY WorthWithout
<1>3. WorthIn(q, S \ {id}) = WorthIn(r, S \ {id}) /\ WorthIn(r, S \ {id}) \in Nat
  BY <1>1, WorthSame, WorthIsNatural
<1> QED BY <1>2, <1>3

-----------------------------------------------------------------------------
(***************************************************************************)
(* The totals.                                                             *)
(***************************************************************************)

ExistingIn(b) == {id \in RecordId : b.records[id].timestamp # 0}
HeldIn(b) == {id \in ExistingIn(b) : ~b.records[id].released}
PaidBackIn(b) == {id \in ExistingIn(b) : b.records[id].released}
HeldOf(b, t) == {id \in HeldIn(b) : b.records[id].token = t}
PaidTo(b, a, t) ==
  {id \in PaidBackIn(b) : b.records[id].owner = a /\ b.records[id].token = t}

\* The records are numbered without a gap, and every total and every payment is
\* the sum over the records it stands for.
TotalsOK(b) ==
  /\ \A id \in RecordId : b.records[id].timestamp # 0 <=> id <= b.recordNonce
  /\ b.totalReleased = Cardinality(PaidBackIn(b))
  /\ b.totalReleasedAmount = WorthIn(b.records, PaidBackIn(b))
  /\ b.totalQuarantinedAmount = WorthIn(b.records, HeldIn(b))
  /\ \A t \in Token : b.tokenQuarantinedAmount[t] = WorthIn(b.records, HeldOf(b, t))
  /\ \A a \in Account, t \in Token : b.paid[a][t] = WorthIn(b.records, PaidTo(b, a, t))

\* The sets of records that are summed are finite, and their amounts are numbers.
LEMMA RecordSets ==
  ASSUME NEW b, b \in Books
  PROVE  /\ \A s \in SUBSET RecordId : IsFiniteSet(s)
         /\ ExistingIn(b) \in SUBSET RecordId /\ HeldIn(b) \in SUBSET RecordId
         /\ PaidBackIn(b) \in SUBSET RecordId
         /\ \A t : HeldOf(b, t) \in SUBSET RecordId
         /\ \A a, t : PaidTo(b, a, t) \in SUBSET RecordId
         /\ \A id \in RecordId : b.records[id].amount \in Nat
<1>1. IsFiniteSet(RecordId)
  BY VaultAssumption, FS_Interval DEF RecordId
<1>2. \A s \in SUBSET RecordId : IsFiniteSet(s)
  BY <1>1, FS_Subset
<1>3. \A id \in RecordId : b.records[id].amount \in Nat
  BY DEF Books, Record, NoRecord
<1> QED BY <1>2, <1>3 DEF ExistingIn, HeldIn, PaidBackIn, HeldOf, PaidTo

\* A deposit adds one record, held, to every sum it belongs to.
LEMMA DepositKeepsTotals ==
  ASSUME NEW b, b \in Books, TotalsOK(b), NEW a \in Account, NEW t \in Token, NEW m \in Amount,
         b.recordNonce < MaxRecords, now \in Nat \ {0}
  PROVE  TotalsOK(Deposit(b, a, t, m))
<1> DEFINE id == b.recordNonce + 1
           x == Received(t, m)
           r == [owner |-> a, token |-> t, amount |-> x, timestamp |-> now,
                 released |-> FALSE, frozen |-> FALSE]
           c == Deposit(b, a, t, m)
<1>1. x \in Nat
  BY VaultAssumption DEF Received
<1>2. b.recordNonce \in Nat /\ id \in RecordId
  BY VaultAssumption DEF Books, RecordId
<1>3. /\ c.records = [b.records EXCEPT ![id] = r]
      /\ c.recordNonce = id
      /\ c.totalReleased = b.totalReleased
      /\ c.totalReleasedAmount = b.totalReleasedAmount
      /\ c.totalQuarantinedAmount = b.totalQuarantinedAmount + x
      /\ c.tokenQuarantinedAmount = [b.tokenQuarantinedAmount EXCEPT ![t] = @ + x]
      /\ c.paid = b.paid
  BY DEF Deposit, Books
<1> HIDE DEF c
<1>4. /\ b.records \in [RecordId -> Record \cup {NoRecord}]
      /\ b.tokenQuarantinedAmount \in [Token -> Nat]
  BY DEF Books
<1>5. /\ c.records[id] = r
      /\ \A i \in RecordId \ {id} : c.records[i] = b.records[i]
      /\ b.records[id].timestamp = 0
  BY <1>2, <1>3, <1>4, VaultAssumption DEF TotalsOK, RecordId, Record, NoRecord
<1>6. /\ id \notin ExistingIn(b) /\ id \notin HeldIn(b) /\ id \notin PaidBackIn(b)
      /\ \A s : id \notin HeldOf(b, s)
      /\ \A e, s : id \notin PaidTo(b, e, s)
  BY <1>5 DEF ExistingIn, HeldIn, PaidBackIn, HeldOf, PaidTo
<1>7. /\ HeldIn(c) = HeldIn(b) \cup {id}
      /\ PaidBackIn(c) = PaidBackIn(b)
      /\ HeldOf(c, t) = HeldOf(b, t) \cup {id}
      /\ \A s : s # t => HeldOf(c, s) = HeldOf(b, s)
      /\ \A e, s : PaidTo(c, e, s) = PaidTo(b, e, s)
  BY <1>2, <1>5, <1>6 DEF ExistingIn, HeldIn, PaidBackIn, HeldOf, PaidTo
<1>8. ASSUME NEW S \in SUBSET RecordId, id \notin S
      PROVE  /\ WorthIn(c.records, S) = WorthIn(b.records, S)
             /\ WorthIn(c.records, S \cup {id}) = WorthIn(b.records, S) + x
  <2>1. IsFiniteSet(S) /\ \A i \in S : b.records[i].amount \in Nat /\ c.records[i].amount = b.records[i].amount
    BY <1>5, <1>8, RecordSets
  <2>2. c.records[id].amount = x
    BY <1>5
  <2>3. WorthIn(c.records, S) = WorthIn(b.records, S)
    BY <2>1, WorthSame
  <2> QED BY <1>1, <1>8, <2>1, <2>2, <2>3, WorthAdd
<1>9. \A i \in RecordId : c.records[i].timestamp # 0 <=> i <= c.recordNonce
  BY <1>2, <1>3, <1>5 DEF TotalsOK, RecordId
<1>10. c.totalReleased = Cardinality(PaidBackIn(c)) /\ c.totalReleasedAmount = WorthIn(c.records, PaidBackIn(c))
  BY <1>3, <1>6, <1>7, <1>8, RecordSets DEF TotalsOK
<1>11. c.totalQuarantinedAmount = WorthIn(c.records, HeldIn(c))
  BY <1>3, <1>6, <1>7, <1>8, RecordSets DEF TotalsOK
<1>12. ASSUME NEW s \in Token PROVE c.tokenQuarantinedAmount[s] = WorthIn(c.records, HeldOf(c, s))
  <2>1. HeldOf(b, s) \in SUBSET RecordId /\ id \notin HeldOf(b, s)
    BY <1>6, RecordSets
  <2>2. b.tokenQuarantinedAmount[s] = WorthIn(b.records, HeldOf(b, s))
    BY DEF TotalsOK
  <2>3. CASE s = t
    BY <1>3, <1>4, <1>7, <1>8, <2>1, <2>2, <2>3
  <2>4. CASE s # t
    BY <1>3, <1>4, <1>7, <1>8, <2>1, <2>2, <2>4
  <2> QED BY <2>3, <2>4
<1>13. ASSUME NEW e \in Account, NEW s \in Token
       PROVE  c.paid[e][s] = WorthIn(c.records, PaidTo(c, e, s))
  <2>1. PaidTo(b, e, s) \in SUBSET RecordId /\ id \notin PaidTo(b, e, s)
    BY <1>6, RecordSets
  <2>2. b.paid[e][s] = WorthIn(b.records, PaidTo(b, e, s))
    BY DEF TotalsOK
  <2>3. WorthIn(c.records, PaidTo(b, e, s)) = WorthIn(b.records, PaidTo(b, e, s))
    BY <1>8, <2>1
  <2> QED BY <1>3, <1>7, <2>2, <2>3
<1> QED BY <1>9, <1>10, <1>11, <1>12, <1>13 DEF TotalsOK, c

\* A release moves one record from the held ones to those paid back.
LEMMA ReleaseKeepsTotals ==
  ASSUME NEW b, b \in Books, TotalsOK(b), NEW id \in RecordId, Releasable(b, id)
  PROVE  TotalsOK(Release(b, id))
<1> DEFINE r == b.records[id]
           c == Release(b, id)
           t == r.token
           a == r.owner
<1>1. /\ r \in Record /\ r.timestamp # 0 /\ ~r.released
      /\ a \in Account /\ t \in Token /\ r.amount \in Nat
  BY DEF Releasable, Books, Record, NoRecord
<1>2. /\ c.records = [b.records EXCEPT ![id].released = TRUE]
      /\ c.recordNonce = b.recordNonce
      /\ c.totalReleased = b.totalReleased + 1
      /\ c.totalReleasedAmount = b.totalReleasedAmount + r.amount
      /\ c.totalQuarantinedAmount = b.totalQuarantinedAmount - r.amount
      /\ c.tokenQuarantinedAmount = [b.tokenQuarantinedAmount EXCEPT ![t] = @ - r.amount]
      /\ c.paid = [b.paid EXCEPT ![a][t] = @ + r.amount]
  BY DEF Release, Books
<1> HIDE DEF c
<1>3. /\ b.records \in [RecordId -> Record \cup {NoRecord}]
      /\ b.tokenQuarantinedAmount \in [Token -> Nat]
      /\ b.paid \in [Account -> [Token -> Nat]]
  BY DEF Books
<1>4. /\ c.records[id].released /\ c.records[id].timestamp = r.timestamp
      /\ c.records[id].owner = a /\ c.records[id].token = t /\ c.records[id].amount = r.amount
      /\ \A i \in RecordId \ {id} : c.records[i] = b.records[i]
  BY <1>1, <1>2, <1>3 DEF Record
<1>5. /\ id \in HeldIn(b) /\ id \in HeldOf(b, t)
      /\ id \notin PaidBackIn(b)
      /\ \A e, s : id \notin PaidTo(b, e, s)
      /\ \A s : s # t => id \notin HeldOf(b, s)
  BY <1>1 DEF ExistingIn, HeldIn, PaidBackIn, HeldOf, PaidTo
<1>6. /\ HeldIn(c) = HeldIn(b) \ {id}
      /\ PaidBackIn(c) = PaidBackIn(b) \cup {id}
  BY <1>1, <1>4, <1>5 DEF ExistingIn, HeldIn, PaidBackIn
<1>7. /\ HeldOf(c, t) = HeldOf(b, t) \ {id}
      /\ \A s : s # t => HeldOf(c, s) = HeldOf(b, s)
  BY <1>4, <1>5, <1>6, RecordSets DEF HeldOf
<1>8. /\ PaidTo(c, a, t) = PaidTo(b, a, t) \cup {id}
      /\ \A e, s : e # a \/ s # t => PaidTo(c, e, s) = PaidTo(b, e, s)
  BY <1>4, <1>5, <1>6, RecordSets DEF PaidTo
<1>9. ASSUME NEW S \in SUBSET RecordId
      PROVE  /\ WorthIn(c.records, S) = WorthIn(b.records, S)
             /\ id \notin S => WorthIn(c.records, S \cup {id}) = WorthIn(b.records, S) + r.amount
             /\ id \in S => WorthIn(c.records, S \ {id}) = WorthIn(b.records, S) - r.amount
  <2>1. IsFiniteSet(S)
    BY RecordSets
  <2>2. \A i \in S : b.records[i].amount \in Nat /\ c.records[i].amount = b.records[i].amount
    BY <1>4, RecordSets
  <2>3. c.records[id].amount = r.amount
    BY <1>4
  <2>4. WorthIn(c.records, S) = WorthIn(b.records, S)
    BY <2>1, <2>2, WorthSame
  <2>5. ASSUME id \notin S PROVE WorthIn(c.records, S \cup {id}) = WorthIn(b.records, S) + r.amount
    BY <1>1, <2>1, <2>2, <2>3, <2>5, WorthAdd
  <2>6. ASSUME id \in S PROVE WorthIn(c.records, S \ {id}) = WorthIn(b.records, S) - r.amount
    BY <2>1, <2>2, <2>6, WorthDrop
  <2> QED BY <2>4, <2>5, <2>6
<1>10. \A i \in RecordId : c.records[i].timestamp # 0 <=> i <= c.recordNonce
  BY <1>1, <1>2, <1>4 DEF TotalsOK
<1>11. c.totalReleased = Cardinality(PaidBackIn(c))
  <2>1. IsFiniteSet(PaidBackIn(b))
    BY RecordSets
  <2>2. Cardinality(PaidBackIn(b) \cup {id}) = Cardinality(PaidBackIn(b)) + 1
    BY <1>5, <2>1, FS_AddElement
  <2> QED BY <1>2, <1>6, <2>2 DEF TotalsOK
<1>12. c.totalReleasedAmount = WorthIn(c.records, PaidBackIn(c))
  <2>1. WorthIn(c.records, PaidBackIn(b) \cup {id}) = WorthIn(b.records, PaidBackIn(b)) + r.amount
    BY <1>5, <1>9, RecordSets
  <2> QED BY <1>2, <1>6, <2>1 DEF TotalsOK
<1>13. c.totalQuarantinedAmount = WorthIn(c.records, HeldIn(c))
  <2>1. WorthIn(c.records, HeldIn(b) \ {id}) = WorthIn(b.records, HeldIn(b)) - r.amount
    BY <1>5, <1>9, RecordSets
  <2> QED BY <1>2, <1>6, <2>1 DEF TotalsOK
<1>14. ASSUME NEW s \in Token PROVE c.tokenQuarantinedAmount[s] = WorthIn(c.records, HeldOf(c, s))
  <2>1. b.tokenQuarantinedAmount[s] = WorthIn(b.records, HeldOf(b, s)) /\ HeldOf(b, s) \in SUBSET RecordId
    BY RecordSets DEF TotalsOK
  <2>2. CASE s = t
    <3>1. WorthIn(c.records, HeldOf(b, t) \ {id}) = WorthIn(b.records, HeldOf(b, t)) - r.amount
      BY <1>5, <1>9, <2>1, <2>2
    <3>2. c.tokenQuarantinedAmount[t] = b.tokenQuarantinedAmount[t] - r.amount
      BY <1>1, <1>2, <1>3
    <3> QED BY <1>7, <2>1, <2>2, <3>1, <3>2
  <2>3. CASE s # t
    <3>1. WorthIn(c.records, HeldOf(b, s)) = WorthIn(b.records, HeldOf(b, s))
      BY <1>9, <2>1
    <3> QED BY <1>1, <1>2, <1>3, <1>7, <2>1, <2>3, <3>1
  <2> QED BY <2>2, <2>3
<1>15. ASSUME NEW e \in Account, NEW s \in Token
       PROVE  c.paid[e][s] = WorthIn(c.records, PaidTo(c, e, s))
  <2>1. b.paid[e][s] = WorthIn(b.records, PaidTo(b, e, s)) /\ PaidTo(b, e, s) \in SUBSET RecordId
    BY RecordSets DEF TotalsOK
  <2>2. CASE e = a /\ s = t
    <3>1. WorthIn(c.records, PaidTo(b, a, t) \cup {id}) = WorthIn(b.records, PaidTo(b, a, t)) + r.amount
      BY <1>5, <1>9, <2>1, <2>2
    <3>2. c.paid[e][s] = b.paid[e][s] + r.amount
      BY <1>1, <1>2, <1>3, <2>2
    <3> QED BY <1>8, <2>1, <2>2, <3>1, <3>2
  <2>3. CASE e # a \/ s # t
    <3>1. WorthIn(c.records, PaidTo(b, e, s)) = WorthIn(b.records, PaidTo(b, e, s))
      BY <1>9, <2>1
    <3>2. c.paid[e][s] = b.paid[e][s]
      BY <1>1, <1>2, <1>3, <2>3
    <3> QED BY <1>8, <2>1, <2>3, <3>1, <3>2
  <2> QED BY <2>2, <2>3
<1> QED BY <1>10, <1>11, <1>12, <1>13, <1>14, <1>15 DEF TotalsOK, c

\* An item of a batch is released or left out.
LEMMA ReleaseItemKeepsTotals ==
  ASSUME NEW b, b \in Books, TotalsOK(b), NEW id \in RecordId
  PROVE  TotalsOK(ReleaseItem(b, id))
BY ReleaseKeepsTotals DEF ReleaseItem

\* Freezing a record changes no amount and moves no record.
LEMMA FreezeKeepsTotals ==
  ASSUME books \in Books, TotalsOK(books), NEW id \in RecordId, FreezePermanently(id)
  PROVE  TotalsOK(books')
<1> DEFINE b == books
           c == books'
<1>1. /\ c.recordNonce = b.recordNonce
      /\ c.totalReleased = b.totalReleased
      /\ c.totalReleasedAmount = b.totalReleasedAmount
      /\ c.totalQuarantinedAmount = b.totalQuarantinedAmount
      /\ c.tokenQuarantinedAmount = b.tokenQuarantinedAmount
      /\ c.paid = b.paid
      /\ c.records = [b.records EXCEPT ![id].frozen = TRUE]
  BY DEF FreezePermanently, Books
<1>2. b.records \in [RecordId -> Record \cup {NoRecord}] /\ b.records[id] \in Record
  BY DEF FreezePermanently, Books, NoRecord
<1> HIDE DEF b, c
<1>3. \A i \in RecordId :
        /\ c.records[i].timestamp = b.records[i].timestamp
        /\ c.records[i].released = b.records[i].released
        /\ c.records[i].owner = b.records[i].owner
        /\ c.records[i].token = b.records[i].token
        /\ c.records[i].amount = b.records[i].amount
  BY <1>1, <1>2 DEF Record
<1>4. /\ HeldIn(c) = HeldIn(b) /\ PaidBackIn(c) = PaidBackIn(b)
      /\ \A t : HeldOf(c, t) = HeldOf(b, t)
      /\ \A a, t : PaidTo(c, a, t) = PaidTo(b, a, t)
  BY <1>3 DEF ExistingIn, HeldIn, PaidBackIn, HeldOf, PaidTo
<1>5. b \in Books /\ TotalsOK(b)
  BY DEF b
<1>6. ASSUME NEW S \in SUBSET RecordId PROVE WorthIn(c.records, S) = WorthIn(b.records, S)
  <2>1. IsFiniteSet(S)
    BY <1>5, RecordSets
  <2> QED BY <1>3, <2>1, WorthSame
<1>7. \A i \in RecordId : c.records[i].timestamp # 0 <=> i <= c.recordNonce
  BY <1>1, <1>3, <1>5 DEF TotalsOK
<1>8. /\ c.totalReleased = Cardinality(PaidBackIn(c))
      /\ c.totalReleasedAmount = WorthIn(c.records, PaidBackIn(c))
      /\ c.totalQuarantinedAmount = WorthIn(c.records, HeldIn(c))
  BY <1>1, <1>4, <1>5, <1>6, RecordSets DEF TotalsOK
<1>9. ASSUME NEW t \in Token PROVE c.tokenQuarantinedAmount[t] = WorthIn(c.records, HeldOf(c, t))
  <2>1. HeldOf(b, t) \in SUBSET RecordId
    BY <1>5, RecordSets
  <2>2. b.tokenQuarantinedAmount[t] = WorthIn(b.records, HeldOf(b, t))
    BY <1>5 DEF TotalsOK
  <2>3. WorthIn(c.records, HeldOf(b, t)) = WorthIn(b.records, HeldOf(b, t))
    BY <1>6, <2>1
  <2>4. HeldOf(c, t) = HeldOf(b, t)
    BY <1>4
  <2> QED BY <1>1, <2>2, <2>3, <2>4
<1>10. ASSUME NEW a \in Account, NEW t \in Token
       PROVE  c.paid[a][t] = WorthIn(c.records, PaidTo(c, a, t))
  <2>1. PaidTo(b, a, t) \in SUBSET RecordId
    BY <1>5, RecordSets
  <2>2. b.paid[a][t] = WorthIn(b.records, PaidTo(b, a, t))
    BY <1>5 DEF TotalsOK
  <2>3. WorthIn(c.records, PaidTo(b, a, t)) = WorthIn(b.records, PaidTo(b, a, t))
    BY <1>6, <2>1
  <2>4. PaidTo(c, a, t) = PaidTo(b, a, t)
    BY <1>4
  <2> QED BY <1>1, <2>2, <2>3, <2>4
<1> QED BY <1>7, <1>8, <1>9, <1>10 DEF TotalsOK, c

\* An empty vault holds and owes nothing.
LEMMA InitTotals == Init => TotalsOK(books)
<1> SUFFICES ASSUME Init PROVE TotalsOK(books)
  OBVIOUS
<1>1. /\ books.records = [id \in RecordId |-> NoRecord] /\ books.recordNonce = 0
      /\ books.totalReleased = 0 /\ books.totalReleasedAmount = 0
      /\ books.totalQuarantinedAmount = 0
      /\ books.tokenQuarantinedAmount = [t \in Token |-> 0]
      /\ books.paid = [a \in Account |-> [t \in Token |-> 0]]
  BY DEF Init
<1>2. \A id \in RecordId : books.records[id].timestamp = 0 /\ ~ (id <= 0)
  BY <1>1, VaultAssumption DEF NoRecord, RecordId
<1>3. ExistingIn(books) = {}
  BY <1>2 DEF ExistingIn
<1>4. /\ HeldIn(books) = {} /\ PaidBackIn(books) = {}
      /\ \A t : HeldOf(books, t) = {}
      /\ \A a, t : PaidTo(books, a, t) = {}
  BY <1>3 DEF HeldIn, PaidBackIn, HeldOf, PaidTo
<1>5. WorthIn(books.records, {}) = 0 /\ Cardinality({}) = 0
  BY WorthStep, FS_EmptySet
<1> QED BY <1>1, <1>2, <1>4, <1>5 DEF TotalsOK

\* Every step keeps the totals.
LEMMA NextTotals == IInv /\ TotalsOK(books) /\ [Next]_vars => TotalsOK(books')
<1> SUFFICES ASSUME IInv, TotalsOK(books), [Next]_vars PROVE TotalsOK(books')
  OBVIOUS
<1>0. books \in Books /\ BooksOK(books) /\ now \in Nat \ {0} /\ MaxRecords \in Nat
  BY VaultAssumption DEF IInv, TypeOK
<1>1. ASSUME NEW a \in Account, NEW t \in Token, NEW m \in Amount, QuarantineFunds(a, t, m)
      PROVE  TotalsOK(books')
  BY <1>0, <1>1, DepositKeepsTotals DEF QuarantineFunds
<1>2. ASSUME NEW a1 \in Account, NEW t1 \in Token, NEW m1 \in Amount,
             NEW a2 \in Account, NEW t2 \in Token, NEW m2 \in Amount,
             BatchDeposit(a1, t1, m1, a2, t2, m2)
      PROVE  TotalsOK(books')
  <2> DEFINE b == Deposit(books, a1, t1, m1)
  <2>1. books.recordNonce \in Nat /\ books.recordNonce + 1 < MaxRecords
    BY <1>0, <1>2 DEF BatchDeposit, Books
  <2>2. BooksOK(b) /\ TotalsOK(b)
    BY <1>0, <2>1, DepositKeepsBooks, DepositKeepsTotals
  <2>3. b.recordNonce = books.recordNonce + 1
    BY <1>0 DEF Deposit, Books
  <2> HIDE DEF b
  <2>4. TotalsOK(Deposit(b, a2, t2, m2))
    BY <1>0, <2>1, <2>2, <2>3, DepositKeepsTotals DEF BooksOK
  <2>5. books' = Deposit(b, a2, t2, m2)
    BY <1>2 DEF BatchDeposit, b
  <2> QED BY <2>4, <2>5
<1>3. ASSUME NEW id \in RecordId, ReleaseFunds(id) \/ ClaimFunds(id)
      PROVE  TotalsOK(books')
  BY <1>0, <1>3, ReleaseKeepsTotals DEF ReleaseFunds, ClaimFunds
<1>4. ASSUME NEW id1 \in RecordId, NEW id2 \in RecordId, BatchReleaseFunds(id1, id2)
      PROVE  TotalsOK(books')
  <2> DEFINE b == ReleaseItem(books, id1)
  <2>1. BooksOK(b) /\ TotalsOK(b)
    BY <1>0, ReleaseItemKeepsBooks, ReleaseItemKeepsTotals
  <2> HIDE DEF b
  <2>2. TotalsOK(ReleaseItem(b, id2))
    BY <2>1, ReleaseItemKeepsTotals DEF BooksOK
  <2> QED BY <1>4, <2>2 DEF BatchReleaseFunds, b
<1>5. ASSUME NEW id \in RecordId, FreezePermanently(id)
      PROVE  TotalsOK(books')
  BY <1>0, <1>5, FreezeKeepsTotals
<1>6. CASE UNCHANGED books
  BY <1>6
<1> QED
  BY <1>1, <1>2, <1>3, <1>4, <1>5, <1>6
  DEF Next, DepositNext, RecordNext, PolicyNext, SetClaimRequiresApproval, SetClaimDelay,
      EmergencyPause, EmergencyUnpause, ReceiveEther, ProposeWithdrawETH, ExecuteWithdrawETH,
      CancelWithdrawETH, Tick, Block, vars

\* The totals are right in every state of the vault.
LEMMA TotalsAlwaysOK == Spec => [](IInv /\ TotalsOK(books))
<1>1. IInv /\ TotalsOK(books) /\ [Next]_vars => TotalsOK(books)'
  BY NextTotals DEF TotalsOK, ExistingIn, HeldIn, PaidBackIn, HeldOf, PaidTo
<1> QED BY <1>1, InitInv, NextInv, InitTotals, PTL DEF Spec

\* The totals of the vault are the sums over its records, for any number of
\* records, owners and tokens, whatever fee a token keeps.
THEOREM TotalsAlwaysMatch == Spec => []TotalsMatchRecords
<1>1. ASSUME IInv, TotalsOK(books) PROVE TotalsMatchRecords
  <2>1. books \in Books /\ MaxRecords \in Nat
    BY <1>1, VaultAssumption DEF IInv, TypeOK
  <2>2. books.recordNonce \in 0 .. MaxRecords
    BY <2>1 DEF Books
  <2>3. Existing = 1 .. books.recordNonce
    BY <1>1, <2>1, <2>2 DEF Existing, TotalsOK, RecordId
  <2>4. Cardinality(Existing) = books.recordNonce
    BY <2>2, <2>3, FS_Interval
  <2>5. Held = HeldIn(books) /\ PaidBack = PaidBackIn(books)
        /\ \A t : {id \in Held : books.records[id].token = t} = HeldOf(books, t)
    BY DEF Held, PaidBack, Existing, HeldIn, PaidBackIn, HeldOf, ExistingIn
  <2>6. \A ids : Worth(ids) = WorthIn(books.records, ids)
    BY DEF Worth, WorthIn
  <2> QED BY <1>1, <2>4, <2>5, <2>6 DEF TotalsMatchRecords, TotalsOK
<1> QED BY <1>1, TotalsAlwaysOK, PTL

\* Each owner has been paid exactly what its released records are worth.
THEOREM OwnersAlwaysPaidOnce == Spec => []OwnersPaidOnce
<1>1. ASSUME TotalsOK(books) PROVE OwnersPaidOnce
  <2> SUFFICES ASSUME NEW a \in Account, NEW t \in Token
               PROVE  books.paid[a][t] =
                        Worth({id \in PaidBack : books.records[id].owner = a /\ books.records[id].token = t})
    BY Zenon DEF OwnersPaidOnce
  <2>1. {id \in PaidBack : books.records[id].owner = a /\ books.records[id].token = t}
          = PaidTo(books, a, t)
    BY DEF PaidBack, Existing, PaidBackIn, PaidTo, ExistingIn
  <2>2. Worth(PaidTo(books, a, t)) = WorthIn(books.records, PaidTo(books, a, t))
    BY DEF Worth, WorthIn
  <2>3. books.paid[a][t] = WorthIn(books.records, PaidTo(books, a, t))
    BY <1>1 DEF TotalsOK
  <2> QED BY <2>1, <2>2, <2>3
<1> QED BY <1>1, TotalsAlwaysOK, PTL

\* A release is never refused for the sake of the totals or of the balance: what
\* the vault holds for any one record is there.
THEOREM HeldRecordsPayable == Spec => []HeldArePayable
<1>1. ASSUME IInv, TotalsOK(books), NEW id \in Held, books.records[id].owner \notin blocked
      PROVE  Payable(books, id)
  <2> DEFINE r == books.records[id]
  <2>1. books \in Books /\ BooksOK(books)
    BY <1>1 DEF IInv, TypeOK
  <2>2. id \in RecordId /\ r.timestamp # 0 /\ ~r.released
    BY DEF Held, Existing
  <2>3. r \in Record
    BY <2>1, <2>2 DEF Books, NoRecord
  <2>4. r.token \in Token /\ r.amount \in Nat
    BY <2>3 DEF Record
  <2>5. id \in HeldIn(books) /\ id \in HeldOf(books, r.token)
    BY <2>2 DEF HeldIn, HeldOf, ExistingIn
  <2>6. r.amount <= WorthIn(books.records, HeldIn(books))
    <3>1. IsFiniteSet(HeldIn(books)) /\ \A i \in HeldIn(books) : books.records[i].amount \in Nat
      BY <2>1, RecordSets
    <3> QED BY <2>5, <3>1, WorthDrop
  <2>7. r.amount <= WorthIn(books.records, HeldOf(books, r.token))
    <3>1. IsFiniteSet(HeldOf(books, r.token)) /\ \A i \in HeldOf(books, r.token) : books.records[i].amount \in Nat
      BY <2>1, RecordSets
    <3> QED BY <2>5, <3>1, WorthDrop
  <2>8. r.amount <= books.totalQuarantinedAmount /\ r.amount <= books.tokenQuarantinedAmount[r.token]
    BY <1>1, <2>4, <2>6, <2>7 DEF TotalsOK
  <2>9. books.tokenQuarantinedAmount[r.token] <= books.balance[r.token]
        /\ books.tokenQuarantinedAmount[r.token] \in Nat /\ books.balance[r.token] \in Nat
    BY <2>1, <2>4 DEF BooksOK, Books
  <2> QED BY <1>1, <2>4, <2>8, <2>9 DEF Payable
<1>2. IInv /\ TotalsOK(books) => HeldArePayable
  BY <1>1 DEF HeldArePayable
<1> QED BY <1>2, TotalsAlwaysOK, PTL
=============================================================================
