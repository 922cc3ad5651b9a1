----------------------------- MODULE SumTheorems -----------------------------
(***************************************************************************)
(* Induction over numbers and over finite sets, and sums.  The induction   *)
(* theorems of the library speak of an operator; these speak of a set, and *)
(* follow from the existence of minimal elements.  A sum over a set is a   *)
(* fold; what is needed of it is that there is a function that meets its   *)
(* equation, and what becomes of it when one summand changes.              *)
(***************************************************************************)
EXTENDS Integers, FiniteSetTheorems, TLAPS

-----------------------------------------------------------------------------
LEMMA NatSetInduction ==
    ASSUME NEW Q, 0 \in Q, \A n \in Nat : n \in Q => n + 1 \in Q
    PROVE  Nat \subseteq Q
  <1> SUFFICES ASSUME Nat \ Q # {}
               PROVE  FALSE
    OBVIOUS
  <1>1. PICK n \in Nat \ Q : \A m \in Nat \ Q : ~ (<<m, n>> \in OpToRel(<, Nat))
    BY NatLessThanWellFounded, WFMin
  <1>2. n # 0 /\ n - 1 \in Nat /\ n - 1 < n
    OBVIOUS
  <1>3. <<n - 1, n>> \in OpToRel(<, Nat)
    BY <1>2 DEF OpToRel
  <1>4. n - 1 \in Q
    BY <1>1, <1>2, <1>3
  <1> QED
    BY <1>2, <1>4

LEMMA SubsetInduction ==
    ASSUME NEW S, IsFiniteSet(S), NEW Q,
           \A T \in SUBSET S : (\A U \in SUBSET T : U # T => U \in Q) => T \in Q
    PROVE  S \in Q
  <1> DEFINE Bad == (SUBSET S) \ Q
  <1> SUFFICES ASSUME Bad # {}
               PROVE  FALSE
    OBVIOUS
  <1>1. IsWellFoundedOn(StrictSubsetOrdering(S), SUBSET S)
    <2>1. FiniteSubsetsOf(S) = SUBSET S
      BY FS_FiniteSubsetsOfFinite, Zenon
    <2>2. IsWellFoundedOn(StrictSubsetOrdering(S), FiniteSubsetsOf(S))
      BY FS_StrictSubsetOrderingWellFounded, Zenon
    <2> QED
      BY <2>1, <2>2, Zenon
  <1>2. PICK T \in Bad : \A U \in Bad : ~ (<<U, T>> \in StrictSubsetOrdering(S))
    <2> HIDE DEF Bad
    <2>1. Bad \subseteq SUBSET S
      BY DEF Bad
    <2> QED
      BY <1>1, <2>1, WFMin
  <1>3. ASSUME NEW U \in SUBSET T, U # T
        PROVE  U \in Q
    <2>1. <<U, T>> \in StrictSubsetOrdering(S)
      BY <1>2, <1>3 DEF StrictSubsetOrdering
    <2> QED
      BY <1>2, <2>1
  <1> QED
    BY <1>2, <1>3

\* The equation of the fold of MapThenSumSet, for summands w.
First(s) == CHOOSE x \in s : TRUE
SumStep(w, g, s) == IF s = {} THEN 0 ELSE w[First(s)] + g[s \ {First(s)}]
Solves(g, w, S) == \A s \in SUBSET S : g[s] = SumStep(w, g, s)
IsSum(g, w, S) == g \in [SUBSET S -> Int] /\ Solves(g, w, S)

LEMMA FirstIn == \A s : s # {} => First(s) \in s
  BY DEF First

LEMMA SumExists ==
    ASSUME NEW S, IsFiniteSet(S), NEW w \in [S -> Int]
    PROVE  \E g : IsSum(g, w, S)
  <1> DEFINE Upto(g, n) == \A s \in SUBSET S : Cardinality(s) <= n => g[s] = SumStep(w, g, s)
             Q == {n \in Nat : \E g \in [SUBSET S -> Int] : Upto(g, n)}
  <1>1. \A s \in SUBSET S : /\ IsFiniteSet(s) /\ Cardinality(s) \in Nat
                            /\ Cardinality(s) <= Cardinality(S)
                            /\ Cardinality(s) = 0 => s = {}
    BY FS_Subset, FS_CardinalityType, FS_EmptySet
  <1>2. \A s \in SUBSET S : s # {} => /\ First(s) \in s
                                      /\ s \ {First(s)} \in SUBSET S
                                      /\ Cardinality(s \ {First(s)}) = Cardinality(s) - 1
    BY <1>1, FirstIn, FS_RemoveElement
  <1>3. 0 \in Q
    <2> DEFINE g == [s \in SUBSET S |-> 0]
    <2>1. g \in [SUBSET S -> Int] /\ Upto(g, 0)
      BY <1>1 DEF SumStep
    <2> HIDE DEF g, Upto
    <2> QED
      BY <2>1
  <1>4. ASSUME NEW n \in Nat, n \in Q
        PROVE  n + 1 \in Q
    <2> PICK g \in [SUBSET S -> Int] : Upto(g, n)
      BY <1>4
    <2> DEFINE h == [s \in SUBSET S |-> IF Cardinality(s) <= n THEN g[s] ELSE SumStep(w, g, s)]
    <2>1. \A s \in SUBSET S : SumStep(w, g, s) \in Int
      BY <1>2 DEF SumStep
    <2>2. h \in [SUBSET S -> Int]
      BY <2>1
    <2>3. \A s \in SUBSET S : h[s] = SumStep(w, g, s) \/ Cardinality(s) > n + 1
      BY <1>1
    <2>4. ASSUME NEW s \in SUBSET S, Cardinality(s) <= n + 1
          PROVE  SumStep(w, h, s) = SumStep(w, g, s)
      <3>1. CASE s = {}
        BY <3>1 DEF SumStep
      <3>2. CASE s # {}
        <4>1. Cardinality(s \ {First(s)}) <= n /\ s \ {First(s)} \in SUBSET S
          BY <1>1, <1>2, <2>4, <3>2
        <4>2. h[s \ {First(s)}] = g[s \ {First(s)}]
          BY <4>1
        <4> QED
          BY <4>2 DEF SumStep
      <3> QED
        BY <3>1, <3>2
    <2>5. Upto(h, n + 1)
      <3> SUFFICES ASSUME NEW s \in SUBSET S, Cardinality(s) <= n + 1
                   PROVE  h[s] = SumStep(w, h, s)
        OBVIOUS
      <3>1. h[s] = SumStep(w, g, s)
        BY <1>1, <2>3
      <3> QED
        BY <2>4, <3>1
    <2> HIDE DEF h, Upto
    <2> QED
      BY <2>2, <2>5
  <1>5. Cardinality(S) \in Q
    <2> HIDE DEF Q
    <2>1. Nat \subseteq Q
      BY <1>3, <1>4, NatSetInduction
    <2> QED
      BY <2>1, FS_CardinalityType
  <1> QED
    BY <1>1, <1>5 DEF IsSum, Solves

\* The fold is the only function that meets its equation.
LEMMA SumUnique ==
    ASSUME NEW S, IsFiniteSet(S), NEW w, NEW g, IsSum(g, w, S),
           NEW f, Solves(f, w, S)
    PROVE  f[S] = g[S]
  <1> DEFINE Q == {T \in SUBSET S : f[T] = g[T]}
  <1>1. ASSUME NEW T \in SUBSET S, \A U \in SUBSET T : U # T => U \in Q
        PROVE  T \in Q
    <2>1. f[T] = SumStep(w, f, T) /\ g[T] = SumStep(w, g, T)
      BY DEF IsSum, Solves
    <2>2. CASE T = {}
      BY <2>1, <2>2 DEF SumStep
    <2>3. CASE T # {}
      <3>1. First(T) \in T /\ T \ {First(T)} \in SUBSET T /\ T \ {First(T)} # T
        BY <2>3, FirstIn
      <3> QED
        BY <1>1, <2>1, <3>1 DEF SumStep
    <2> QED
      BY <2>2, <2>3
  <1>2. S \in Q
    <2> HIDE DEF Q
    <2> QED
      BY <1>1, SubsetInduction
  <1> QED
    BY <1>2

\* What the fold of MapThenSumSet computes is a number.
FoldEq(g, v, S) ==
    g = [s \in SUBSET S |-> IF s = {} THEN 0
                            ELSE v[CHOOSE x \in s : TRUE] + g[s \ {CHOOSE x \in s : TRUE}]]

LEMMA FoldInt ==
    ASSUME NEW S, IsFiniteSet(S), NEW v, \A x \in S : v[x] \in Int
    PROVE  (CHOOSE g : FoldEq(g, v, S))[S] \in Int
  <1> PICK w : w = [x \in S |-> v[x]]
    OBVIOUS
  <1> PICK f : f = CHOOSE g : FoldEq(g, v, S)
    OBVIOUS
  <1>1. w \in [S -> Int] /\ \A x \in S : w[x] = v[x]
    OBVIOUS
  <1>2. PICK g : IsSum(g, w, S)
    BY <1>1, SumExists
  <1>3. \A s \in SUBSET S : s # {} => First(s) \in S
    BY FirstIn
  <1>4. FoldEq(g, v, S)
    <2>1. \A s \in SUBSET S : g[s] = IF s = {} THEN 0 ELSE v[First(s)] + g[s \ {First(s)}]
      BY <1>1, <1>2, <1>3 DEF IsSum, Solves, SumStep
    <2>2. g = [s \in SUBSET S |-> g[s]]
      BY <1>2 DEF IsSum, Solves
    <2> QED
      BY <2>1, <2>2 DEF FoldEq, First
  <1>5. FoldEq(f, v, S)
    BY <1>4, Zenon
  <1>6. Solves(f, w, S)
    <2>1. ASSUME NEW s \in SUBSET S
          PROVE  f[s] = IF s = {} THEN 0 ELSE v[First(s)] + f[s \ {First(s)}]
      BY <1>5 DEF FoldEq, First
    <2>2. \A s \in SUBSET S : s # {} => w[First(s)] = v[First(s)]
      BY <1>1, <1>3
    <2> QED
      BY <2>1, <2>2 DEF Solves, SumStep
  <1>7. f[S] = g[S]
    BY <1>2, <1>6, SumUnique
  <1> QED
    BY <1>2, <1>7 DEF IsSum, Solves

\* Adding d to the summand of o adds d to the sum.
RaisedAt(v, w, S, o, d) == \A x \in S : v[x] = w[x] + (IF x = o THEN d ELSE 0)
SumRaised(h, g, S, o, d) == h[S] = g[S] + (IF o \in S THEN d ELSE 0)
LEMMA SumChanges ==
    ASSUME NEW S, IsFiniteSet(S), NEW w \in [S -> Int], NEW v \in [S -> Int],
           NEW g, IsSum(g, w, S), NEW h, IsSum(h, v, S), NEW o, NEW d \in Int, RaisedAt(v, w, S, o, d)
    PROVE  SumRaised(h, g, S, o, d)
  <1> DEFINE Q == {T \in SUBSET S : h[T] = g[T] + (IF o \in T THEN d ELSE 0)}
  <1>1. ASSUME NEW T \in SUBSET S, \A U \in SUBSET T : U # T => U \in Q
        PROVE  T \in Q
    <2>1. CASE T = {}
      <3>1. h[T] = 0 /\ g[T] = 0 /\ o \notin T
        BY <2>1 DEF IsSum, Solves, SumStep
      <3> QED
        BY <3>1
    <2>2. CASE T # {}
      <3> DEFINE x == First(T)
                 U == T \ {x}
      <3>1. x \in T /\ x \in S /\ U \in SUBSET S /\ U # T
        BY <2>2, FirstIn
      <3>2. h[T] = v[x] + h[U] /\ g[T] = w[x] + g[U]
        BY <2>2 DEF IsSum, Solves, SumStep
      <3>3. h[U] = g[U] + (IF o \in U THEN d ELSE 0)
        BY <1>1, <3>1
      <3>4. h[U] \in Int /\ g[U] \in Int /\ v[x] \in Int /\ w[x] \in Int
        BY <3>1 DEF IsSum, Solves
      <3>5. v[x] = w[x] + (IF x = o THEN d ELSE 0)
        BY <3>1 DEF RaisedAt
      <3> HIDE DEF x
      <3>6. h[T] = g[T] + (IF o \in T THEN d ELSE 0)
        BY <3>1, <3>2, <3>3, <3>4, <3>5
      <3> QED
        BY <3>6
    <2> QED
      BY <2>1, <2>2
  <1>2. S \in Q
    <2> HIDE DEF Q
    <2> QED
      BY <1>1, SubsetInduction
  <1> QED
    BY <1>2 DEF SumRaised

LEMMA SumOfZeros ==
    ASSUME NEW S, IsFiniteSet(S), NEW w \in [S -> Int], NEW g, IsSum(g, w, S),
           \A x \in S : w[x] = 0
    PROVE  g[S] = 0
  <1> DEFINE Q == {T \in SUBSET S : g[T] = 0}
  <1>1. ASSUME NEW T \in SUBSET S, \A U \in SUBSET T : U # T => U \in Q
        PROVE  T \in Q
    <2>1. CASE T = {}
      BY <2>1 DEF IsSum, Solves, SumStep
    <2>2. CASE T # {}
      <3>1. First(T) \in T /\ T \ {First(T)} \in SUBSET T /\ T \ {First(T)} # T
        BY <2>2, FirstIn
      <3>2. g[T] = w[First(T)] + g[T \ {First(T)}]
        BY <2>2 DEF IsSum, Solves, SumStep
      <3> QED
        BY <1>1, <3>1, <3>2
    <2> QED
      BY <2>1, <2>2
  <1>2. S \in Q
    <2> HIDE DEF Q
    <2> QED
      BY <1>1, SubsetInduction
  <1> QED
    BY <1>2
=============================================================================
