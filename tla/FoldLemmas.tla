----------------------------- MODULE FoldLemmas -----------------------------
(***************************************************************************)
(* What FoldLeft computes, for any operator Op: the fold of the empty      *)
(* sequence is the base, and the fold of a longer one applies Op to the    *)
(* fold of its front and to its last element.                              *)
(*                                                                         *)
(* FoldLeft is defined by CHOOSE of a recursive function over the subsets  *)
(* of the domain.  The argument: such a function exists, by induction over *)
(* the size of the subsets (Iteration), and its value at a subset does not *)
(* depend on the domain it was chosen for (IterationsAgree).  Induction    *)
(* itself is that a set of numbers has a least element, and a finite set   *)
(* of sets a minimal one.                                                  *)
(*                                                                         *)
(* The module is instantiated once for each operator that is folded.       *)
(***************************************************************************)
EXTENDS SequencesExt, FiniteSetTheorems, WellFoundedInduction, TLAPS

CONSTANT Op(_, _)

-----------------------------------------------------------------------------
\* A set of numbers has a least element.
LEMMA LeastNat ==
  ASSUME NEW T \in SUBSET Nat, T # {}
  PROVE  \E n \in T : \A m \in T : n <= m
<1>1. PICK x \in T : \A y \in T : ~ (<<y, x>> \in OpToRel(<, Nat))
  BY NatLessThanWellFounded, WFMin, Zenon
<1>2. \A y \in T : ~ (y < x)
  BY <1>1, Zenon DEF OpToRel
<1> QED BY <1>2

\* Induction over the numbers, stated with a set.
LEMMA InductionSet ==
  ASSUME NEW G \in SUBSET Nat, 0 \in G, \A n \in G : n + 1 \in G
  PROVE  G = Nat
<1> SUFFICES ASSUME Nat \ G # {} PROVE FALSE
  OBVIOUS
<1>1. PICK n \in Nat \ G : \A m \in Nat \ G : n <= m
  BY LeastNat
<1>2. n - 1 \in Nat /\ ~ (n <= n - 1)
  BY <1>1
<1>3. (n - 1) + 1 \in G
  BY <1>1, <1>2
<1> QED BY <1>1, <1>3

\* Induction over the subsets of a finite set.
LEMMA SubsetInduction ==
  ASSUME NEW S, IsFiniteSet(S), NEW G \in SUBSET SUBSET S,
         \A s \in SUBSET S : (\A x \in s : s \ {x} \in G) => s \in G
  PROVE  \A s \in SUBSET S : s \in G
<1> DEFINE F == (SUBSET S) \ G
<1> SUFFICES ASSUME F # {} PROVE FALSE
  OBVIOUS
<1>1. IsWellFoundedOn(StrictSubsetOrdering(S), SUBSET S)
  <2>1. IsWellFoundedOn(StrictSubsetOrdering(S), FiniteSubsetsOf(S))
    BY FS_StrictSubsetOrderingWellFounded, Zenon
  <2>2. FiniteSubsetsOf(S) = SUBSET S
    BY FS_FiniteSubsetsOfFinite, Zenon
  <2> QED BY <2>1, <2>2, Zenon
<1>2. F \subseteq SUBSET S
  OBVIOUS
<1> HIDE DEF F
<1>3. PICK s \in F : \A t \in F : ~ (<<t, s>> \in StrictSubsetOrdering(S))
  BY <1>1, <1>2, WFMin, Zenon
<1>4. \A x \in s : s \ {x} \in G
  <2> SUFFICES ASSUME NEW x \in s, s \ {x} \notin G PROVE FALSE
    OBVIOUS
  <2> DEFINE t == s \ {x}
  <2>1. s \in SUBSET S /\ t \in SUBSET S /\ t \subseteq s /\ t # s /\ t \in F
    BY <1>2 DEF F
  <2> HIDE DEF t
  <2>2. <<t, s>> \in StrictSubsetOrdering(S)
    BY <2>1 DEF StrictSubsetOrdering
  <2> QED BY <1>3, <2>1, <2>2
<1> QED BY <1>3, <1>4 DEF F

\* A sequence that is not empty is a shorter one and a last element.
LEMMA FrontAndLast ==
  ASSUME NEW A, NEW k \in Nat, NEW s \in Seq(A), Len(s) = k + 1
  PROVE  /\ SubSeq(s, 1, k) \in Seq(A) /\ Len(SubSeq(s, 1, k)) = k /\ s[k + 1] \in A
         /\ s = Append(SubSeq(s, 1, k), s[k + 1])
OBVIOUS

\* Induction over the sequences.
LEMMA SequenceInduction ==
  ASSUME NEW A, NEW G \in SUBSET Seq(A), <<>> \in G, \A s \in G, a \in A : Append(s, a) \in G
  PROVE  G = Seq(A)
<1> DEFINE L == {k \in Nat : \A s \in Seq(A) : Len(s) = k => s \in G}
<1>1. 0 \in L
  OBVIOUS
<1>2. ASSUME NEW k \in L, NEW s \in Seq(A), Len(s) = k + 1
      PROVE  s \in G
  <2> DEFINE f == SubSeq(s, 1, k)
             a == s[k + 1]
  <2>1. f \in Seq(A) /\ Len(f) = k /\ a \in A /\ s = Append(f, a)
    BY <1>2, FrontAndLast
  <2>2. f \in G
    BY <2>1
  <2> HIDE DEF f, a, L
  <2>3. Append(f, a) \in G
    BY <2>1, <2>2
  <2> QED BY <2>1, <2>3
<1>3. L \in SUBSET Nat /\ \A k \in L : k + 1 \in L
  <2>1. \A k \in L : k \in Nat /\ k + 1 \in Nat
    OBVIOUS
  <2> QED BY <1>2, <2>1, Zenon
<1>4. \A s \in Seq(A) : Len(s) \in L
  <2> HIDE DEF L
  <2>1. L = Nat
    BY <1>1, <1>3, InductionSet
  <2> QED BY <2>1
<1>5. \A s \in Seq(A) : s \in G
  BY <1>4
<1> QED BY <1>5

\* Max finds the greatest of finitely many numbers.
LEMMA MaxIsGreatest ==
  ASSUME NEW S \in SUBSET Nat, S # {}, NEW n \in Nat, \A x \in S : x <= n
  PROVE  Max(S) \in S /\ \A x \in S : x <= Max(S)
<1> DEFINE T == {m \in Nat : \A x \in S : x <= m}
<1>1. PICK m \in T : \A k \in T : m <= k
  BY LeastNat
<1>2. m \in S
  <2> SUFFICES ASSUME m \notin S PROVE FALSE
    OBVIOUS
  <2>1. PICK y \in S : TRUE
    OBVIOUS
  <2>2. m - 1 \in T
    BY <1>1, <2>1
  <2> QED BY <1>1, <2>2
<1> QED BY <1>1, <1>2 DEF Max

-----------------------------------------------------------------------------
(***************************************************************************)
(* The function that FoldLeft chooses.                                     *)
(***************************************************************************)

\* Its value at s, from its values at smaller sets.
Turn(base, seq, iter, s) ==
  IF s = {} THEN base ELSE Op(iter[s \ {Max(s)}], seq[Max(s)])

Fold(base, seq) == FoldLeft(Op, base, seq)
Chosen(base, seq, S) == CHOOSE iter : iter = [s \in SUBSET S |-> Turn(base, seq, iter, s)]

\* The fold is the value of the chosen function at the whole domain.
LEMMA FoldIsChosen ==
  ASSUME NEW base, NEW seq
  PROVE  Fold(base, seq) = Chosen(base, seq, DOMAIN seq)[DOMAIN seq]
BY DEF Fold, FoldLeft, MapThenFoldSet, Chosen, Turn

\* Every subset of a domain that is not empty has a greatest element.
LEMMA SubsetsOfInterval ==
  ASSUME NEW n \in Nat
  PROVE  /\ IsFiniteSet(1 .. n)
         /\ \A s \in SUBSET (1 .. n) : s # {} => Max(s) \in s /\ \A x \in s : x <= Max(s)
<1>1. IsFiniteSet(1 .. n)
  BY FS_Interval
<1>2. ASSUME NEW s \in SUBSET (1 .. n), s # {}
      PROVE  Max(s) \in s /\ \A x \in s : x <= Max(s)
  BY <1>2, MaxIsGreatest
<1> QED BY <1>1, <1>2

\* The greatest index of a sequence is its length.
LEMMA MaxOfInterval ==
  ASSUME NEW n \in Nat
  PROVE  Max(1 .. n + 1) = n + 1
<1> DEFINE S == 1 .. n + 1
<1>1. S \in SUBSET Nat /\ n + 1 \in S /\ \A x \in S : x <= n + 1
  OBVIOUS
<1> HIDE DEF S
<1>2. Max(S) \in S /\ \A x \in S : x <= Max(S)
  BY <1>1, MaxIsGreatest
<1>3. Max(S) \in Nat /\ Max(S) <= n + 1 /\ n + 1 <= Max(S)
  BY <1>1, <1>2
<1>4. Max(S) = n + 1
  BY <1>3
<1> QED BY <1>4 DEF S

\* The chosen function satisfies its equation: it exists on the sets of at most k
\* elements for every k.
LEMMA Iteration ==
  ASSUME NEW base, NEW seq, NEW n \in Nat
  PROVE  \A s \in SUBSET (1 .. n) : Chosen(base, seq, 1 .. n)[s] = Turn(base, seq, Chosen(base, seq, 1 .. n), s)
<1> DEFINE S == 1 .. n
           Small(k) == {s \in SUBSET S : Cardinality(s) <= k}
           Good(k) == \E g : g = [s \in Small(k) |-> Turn(base, seq, g, s)]
<1>0. IsFiniteSet(S)
  BY SubsetsOfInterval
<1>m. \A s \in SUBSET S : s # {} => Max(s) \in s
  BY SubsetsOfInterval
<1> HIDE DEF S
<1>1. \A s \in SUBSET S : IsFiniteSet(s) /\ Cardinality(s) \in Nat /\ (Cardinality(s) = 0 <=> s = {})
  BY <1>0, FS_Subset, FS_CardinalityType, FS_EmptySet
<1>2. \A s \in SUBSET S : s # {} =>
        s \ {Max(s)} \in SUBSET S /\ Cardinality(s \ {Max(s)}) = Cardinality(s) - 1
  BY <1>1, <1>m, FS_RemoveElement
<1>3. Good(0)
  <2> DEFINE g == [s \in Small(0) |-> base]
  <2>1. \A s \in Small(0) : s = {}
    BY <1>1
  <2>2. g = [s \in Small(0) |-> Turn(base, seq, g, s)]
    BY <2>1, Zenon DEF Turn
  <2> QED BY <2>2
<1>4. ASSUME NEW k \in Nat, Good(k) PROVE Good(k + 1)
  <2>1. PICK g : g = [s \in Small(k) |-> Turn(base, seq, g, s)]
    BY <1>4
  <2> DEFINE h == [s \in Small(k + 1) |-> Turn(base, seq, g, s)]
  <2>2. ASSUME NEW s \in Small(k + 1) PROVE Turn(base, seq, g, s) = Turn(base, seq, h, s)
    <3>1. CASE s = {}
      BY <3>1 DEF Turn
    <3>2. CASE s # {}
      <4> DEFINE t == s \ {Max(s)}
      <4>1. t \in Small(k) /\ t \in Small(k + 1)
        BY <1>1, <1>2, <3>2
      <4>2. g[t] = Turn(base, seq, g, t) /\ h[t] = Turn(base, seq, g, t)
        BY <2>1, <4>1
      <4> QED BY <3>2, <4>2 DEF Turn
    <3> QED BY <3>1, <3>2
  <2>3. h = [s \in Small(k + 1) |-> Turn(base, seq, h, s)]
    BY <2>2
  <2> QED BY <2>3
<1>5. \A k \in Nat : Good(k)
  <2> DEFINE G == {k \in Nat : Good(k)}
  <2> HIDE DEF Good
  <2>1. 0 \in G /\ \A k \in G : k + 1 \in G
    BY <1>3, <1>4
  <2> QED BY <2>1, InductionSet
<1>6. Cardinality(S) \in Nat /\ Small(Cardinality(S)) = SUBSET S
  BY <1>0, <1>1, FS_Subset, FS_CardinalityType
<1>7. \E g : g = [s \in SUBSET S |-> Turn(base, seq, g, s)]
  BY <1>5, <1>6
<1>8. Chosen(base, seq, S) = [s \in SUBSET S |-> Turn(base, seq, Chosen(base, seq, S), s)]
  BY <1>7, Zenon DEF Chosen
<1>9. \A s \in SUBSET S : Chosen(base, seq, S)[s] = Turn(base, seq, Chosen(base, seq, S), s)
  BY <1>8, Zenon
<1> QED BY <1>9 DEF S

\* Two sequences that start alike are folded alike up to there.
LEMMA IterationsAgree ==
  ASSUME NEW base, NEW seq, NEW seq2, NEW n \in Nat, NEW m \in Nat, m <= n,
         \A i \in 1 .. m : seq[i] = seq2[i]
  PROVE  Chosen(base, seq2, 1 .. m)[1 .. m] = Chosen(base, seq, 1 .. n)[1 .. m]
<1> DEFINE T == 1 .. m
           S == 1 .. n
           Same == {s \in SUBSET T : Chosen(base, seq2, T)[s] = Chosen(base, seq, S)[s]}
<1>1. IsFiniteSet(T) /\ \A s \in SUBSET T : s # {} => Max(s) \in s
  BY SubsetsOfInterval
<1>2. \A s \in SUBSET T : /\ Chosen(base, seq2, T)[s] = Turn(base, seq2, Chosen(base, seq2, T), s)
                          /\ Chosen(base, seq, S)[s] = Turn(base, seq, Chosen(base, seq, S), s)
  <2>1. \A s \in SUBSET T : Chosen(base, seq2, T)[s] = Turn(base, seq2, Chosen(base, seq2, T), s)
    BY Iteration
  <2>2. \A s \in SUBSET S : Chosen(base, seq, S)[s] = Turn(base, seq, Chosen(base, seq, S), s)
    BY Iteration
  <2>3. SUBSET T \subseteq SUBSET S
    OBVIOUS
  <2> HIDE DEF T, S
  <2> QED BY <2>1, <2>2, <2>3
<1>3. \A i \in T : seq[i] = seq2[i]
  OBVIOUS
<1> HIDE DEF T, S
<1>4. \A s \in SUBSET T : (\A x \in s : s \ {x} \in Same) => s \in Same
  <2> SUFFICES ASSUME NEW s \in SUBSET T, \A x \in s : s \ {x} \in Same
               PROVE  Chosen(base, seq2, T)[s] = Chosen(base, seq, S)[s]
    OBVIOUS
  <2>1. CASE s = {}
    BY <1>2, <2>1 DEF Turn
  <2>2. CASE s # {}
    <3>1. Max(s) \in s /\ Max(s) \in T
      BY <1>1, <2>2
    <3>2. Chosen(base, seq2, T)[s \ {Max(s)}] = Chosen(base, seq, S)[s \ {Max(s)}]
      BY <3>1
    <3> QED BY <1>2, <1>3, <2>2, <3>1, <3>2, Zenon DEF Turn
  <2> QED BY <2>1, <2>2
<1>5. Same \in SUBSET SUBSET T
  OBVIOUS
<1> HIDE DEF Same
<1>6. T \in Same
  BY <1>1, <1>4, <1>5, SubsetInduction
<1> QED BY <1>6 DEF Same, T, S

-----------------------------------------------------------------------------
(***************************************************************************)
(* FoldLeft.                                                               *)
(***************************************************************************)

\* Nothing to fold.
LEMMA FoldEmpty ==
  ASSUME NEW base
  PROVE  Fold(base, <<>>) = base
<1>1. DOMAIN <<>> = 1 .. 0 /\ {} \in SUBSET (1 .. 0) /\ 1 .. 0 = {}
  OBVIOUS
<1>2. Chosen(base, <<>>, 1 .. 0)[{}] = Turn(base, <<>>, Chosen(base, <<>>, 1 .. 0), {})
  BY <1>1, Iteration
<1> QED BY <1>1, <1>2, FoldIsChosen DEF Turn

\* The last turn.
LEMMA FoldStep ==
  ASSUME NEW base, NEW A, NEW s \in Seq(A), NEW a
  PROVE  Fold(base, Append(s, a)) = Op(Fold(base, s), a)
<1> DEFINE n == Len(s)
           t == Append(s, a)
           c == Chosen(base, t, 1 .. n + 1)
<1>1. /\ n \in Nat /\ DOMAIN s = 1 .. n /\ DOMAIN t = 1 .. n + 1
      /\ \A i \in 1 .. n : t[i] = s[i]
      /\ t[n + 1] = a
  OBVIOUS
<1> HIDE DEF n, t
<1>2. c[1 .. n + 1] = Turn(base, t, c, 1 .. n + 1)
  BY <1>1, Iteration
<1>3. Chosen(base, s, 1 .. n)[1 .. n] = c[1 .. n]
  BY <1>1, IterationsAgree
<1>4. Max(1 .. n + 1) = n + 1
  BY <1>1, MaxOfInterval
<1>5. 1 .. n + 1 # {} /\ (1 .. n + 1) \ {n + 1} = 1 .. n
  BY <1>1
<1>6. c[1 .. n + 1] = Op(c[1 .. n], a)
  BY <1>1, <1>2, <1>4, <1>5, Zenon DEF Turn
<1>7. Fold(base, s) = c[1 .. n]
  BY <1>1, <1>3, FoldIsChosen
<1>8. Fold(base, t) = c[1 .. n + 1]
  BY <1>1, FoldIsChosen
<1> QED BY <1>6, <1>7, <1>8 DEF t

\* Short sequences, turn by turn.
LEMMA FoldOne ==
  ASSUME NEW base, NEW a
  PROVE  Fold(base, <<a>>) = Op(base, a)
<1>1. <<>> \in Seq({a}) /\ <<a>> = Append(<<>>, a)
  OBVIOUS
<1>2. Fold(base, Append(<<>>, a)) = Op(Fold(base, <<>>), a)
  BY <1>1, FoldStep
<1> QED BY <1>1, <1>2, FoldEmpty

\* Two turns.
LEMMA FoldTwo ==
  ASSUME NEW base, NEW a, NEW b
  PROVE  Fold(base, <<a, b>>) = Op(Op(base, a), b)
<1>1. <<a>> \in Seq({a}) /\ <<a, b>> = Append(<<a>>, b)
  OBVIOUS
<1>2. Fold(base, Append(<<a>>, b)) = Op(Fold(base, <<a>>), b)
  BY <1>1, FoldStep
<1> QED BY <1>1, <1>2, FoldOne

\* What every turn keeps holds of the result.
LEMMA FoldKeeps ==
  ASSUME NEW A, NEW V, NEW base \in V, \A v \in V, a \in A : Op(v, a) \in V
  PROVE  \A s \in Seq(A) : Fold(base, s) \in V
<1> DEFINE G == {s \in Seq(A) : Fold(base, s) \in V}
<1>1. <<>> \in G
  BY FoldEmpty
<1>2. \A s \in G, a \in A : Append(s, a) \in G
  <2> SUFFICES ASSUME NEW s \in G, NEW a \in A PROVE Fold(base, Append(s, a)) \in V
    OBVIOUS
  <2>1. Fold(base, Append(s, a)) = Op(Fold(base, s), a)
    BY FoldStep
  <2> QED BY <2>1
<1>3. G \in SUBSET Seq(A)
  OBVIOUS
<1> HIDE DEF G
<1>4. G = Seq(A)
  BY <1>1, <1>2, <1>3, SequenceInduction
<1> QED BY <1>4 DEF G
=============================================================================
