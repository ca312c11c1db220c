----------------------------- MODULE IndexedList -----------------------------
(***************************************************************************)
(* The enumerable set that the registries keep in storage next to the      *)
(* profile mapping: an array of addresses, a mapping from an address to    *)
(* its (0-based) position, and a counter.  RiskRegistry.sol keeps two of   *)
(* them, highRiskAddresses/highRiskIndex/totalHighRisk and                 *)
(* sanctionedAddresses/sanctionedIndex/totalSanctioned.  Members leave by  *)
(* "swap and pop": the last member takes the place of the one that leaves. *)
(***************************************************************************)
EXTENDS Naturals, Sequences

\* The lists over the addresses A.
IndexedLists(A) == [list : Seq(A), index : [A -> Nat], total : Nat]

\* Storage before the first member: every mapping entry reads 0.
EmptyList(A) == [list |-> <<>>, index |-> [a \in A |-> 0], total |-> 0]

\* index[a] = list.length; list.push(a); total++
Push(l, a) ==
  [list  |-> Append(l.list, a),
   index |-> [l.index EXCEPT ![a] = Len(l.list)],
   total |-> l.total + 1]

\* Mutant of SwapAndPop: the moved address keeps its old index entry.
SwapAndPopWithoutReindex(l, a) ==
  LET last == Len(l.list) - 1
  IN  [list  |-> SubSeq([l.list EXCEPT ![l.index[a] + 1] = l.list[last + 1]], 1, last),
       index |-> [l.index EXCEPT ![a] = 0],
       total |-> IF l.total > 0 THEN l.total - 1 ELSE 0]

\* Mutant of SwapAndPop: the index entries read as if they counted from 1.
SwapAndPopFromOne(l, a) ==
  LET i    == l.index[a] - 1
      last == Len(l.list) - 1
  IN  [list  |-> SubSeq(l.list, 1, last),
       index |-> [l.index EXCEPT ![l.list[last + 1]] = i],
       total |-> IF l.total > 0 THEN l.total - 1 ELSE 0]

\* The last address moves to a's place, unless a is the last one already;
\* the array shrinks by one and a's index entry is deleted.
SwapAndPop(l, a) ==
  LET i    == l.index[a]
      last == Len(l.list) - 1
      lastAddr == l.list[last + 1]
      moved    == [l.list EXCEPT ![i + 1] = lastAddr]
      reindexed == IF i # last THEN [l.index EXCEPT ![lastAddr] = i] ELSE l.index
  IN  [list  |-> SubSeq(moved, 1, last),
       index |-> [reindexed EXCEPT ![a] = 0],
       total |-> IF l.total > 0 THEN l.total - 1 ELSE 0]

\* What a write does with a list when a's membership goes from was to is.
Relist(l, a, was, is) ==
  CASE is /\ ~was -> Push(l, a)
    [] was /\ ~is -> SwapAndPop(l, a)
    [] OTHER      -> l

\* The list enumerates exactly the set S: the array holds members of S only,
\* each at the position its index entry names, and the counter agrees.
Enumerates(l, S) ==
  /\ \A k \in 1 .. Len(l.list) : l.list[k] \in S /\ l.index[l.list[k]] = k - 1
  /\ \A a \in S : l.index[a] < Len(l.list) /\ l.list[l.index[a] + 1] = a
  /\ l.total = Len(l.list)
=============================================================================
