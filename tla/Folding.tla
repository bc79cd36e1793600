------------------------------ MODULE Folding ------------------------------
(***************************************************************************)
(* What a fold returns.  Op is the step that is folded, which takes three  *)
(* parameters, an element, and what the steps before it have made.         *)
(* Whatever holds of the base, and is carried on by each step, holds of    *)
(* the fold.  It is stated as a family D of sets: D[s] has what the        *)
(* elements in s may have made of the base.                                *)
(***************************************************************************)
EXTENDS Integers, FiniteSets, Sequences, FiniteSetTheorems, WellFoundedInduction, TLAPS

CONSTANTS Op(_, _, _, _, _)

Any(s) == CHOOSE x \in s : TRUE
Greatest(s) == CHOOSE x \in s : \A y \in s : x >= y

\* FoldSet and FoldLeft as the community modules define them.
SetFold(a, b, c, base, S) ==
    LET h[s \in SUBSET S] ==
            IF s = {} THEN base ELSE Op(a, b, c, Any(s), h[s \ {Any(s)}])
    IN  h[S]

SeqFold(a, b, c, base, seq) ==
    LET h[s \in SUBSET DOMAIN seq] ==
            IF s = {} THEN base
            ELSE Op(a, b, c, seq[Greatest(s)], h[s \ {Greatest(s)}])
    IN  h[DOMAIN seq]

-----------------------------------------------------------------------------
LEMMA LeastNumber ==
    ASSUME NEW N, N \subseteq Nat, N # {}
    PROVE  \E n \in N : \A m \in N : n <= m
<1>1. \E n \in N : \A m \in N : ~ (<<m, n>> \in OpToRel(<, Nat))
  BY NatLessThanWellFounded, WFMin
<1>2. PICK n \in N : \A m \in N : ~(m < n)
  BY <1>1 DEF OpToRel
<1> QED
  BY <1>2

\* The recursion of a fold that takes the elements as next says, on a set S.
Folds(a, b, c, base, S, next, elt, h) ==
    h = [s \in S |-> IF s = {} THEN base
                     ELSE Op(a, b, c, elt[next[s]], h[s \ {next[s]}])]

\* A set of subsets of S that has those without elements, and has s when it has
\* what is left of s without one element, has S.
LEMMA SubsetInduction ==
    ASSUME NEW S, IsFiniteSet(S), NEW P, {} \in P,
           \A s \in SUBSET S : s # {} => \E x \in s : s \ {x} \in P => s \in P
    PROVE  \A s \in SUBSET S : s \in P
<1> DEFINE Q == (SUBSET S) \ P
<1> SUFFICES ASSUME Q # {} PROVE FALSE
  OBVIOUS
<1> DEFINE C == {Cardinality(s) : s \in Q}
<1>1. C \subseteq Nat /\ C # {}
  BY FS_Subset, FS_CardinalityType
<1>4. PICK n \in C : \A m \in C : n <= m
  <2> HIDE DEF C
  <2> QED
    BY <1>1, LeastNumber
<1>5. PICK s \in Q : Cardinality(s) = n
  OBVIOUS
<1>6. PICK x \in s : s \ {x} \in P => s \in P
  <2>1. s \in SUBSET S /\ s # {}
    OBVIOUS
  <2> QED
    BY <2>1
<1>7. s \ {x} \in Q /\ IsFiniteSet(s)
  BY <1>6, FS_Subset
<1>8. Cardinality(s \ {x}) \in C /\ Cardinality(s \ {x}) = n - 1 /\ n \in Nat
  BY <1>1, <1>5, <1>6, <1>7, FS_RemoveElement, FS_CardinalityType
<1> QED
  BY <1>4, <1>8

\* There is a function as the recursion describes it: on the subsets with at
\* most n elements, for every n.
LEMMA FoldExists ==
    ASSUME NEW a, NEW b, NEW c, NEW base, NEW S, IsFiniteSet(S),
           NEW next, NEW elt, \A s \in SUBSET S : s # {} => next[s] \in s
    PROVE  \E h : Folds(a, b, c, base, SUBSET S, next, elt, h)
<1> DEFINE Up(n) == {s \in SUBSET S : Cardinality(s) <= n}
           N == {n \in Nat : \E h : Folds(a, b, c, base, Up(n), next, elt, h)}
<1>0. \A s \in SUBSET S : IsFiniteSet(s) /\ Cardinality(s) \in Nat
                          /\ Cardinality(s) <= Cardinality(S)
  BY FS_Subset, FS_CardinalityType
<1>a. \A s \in SUBSET S : Cardinality(s) = 0 => s = {}
  BY <1>0, FS_EmptySet
<1>1. ASSUME NEW s \in SUBSET S, s # {}
      PROVE  /\ s \ {next[s]} \in SUBSET S
             /\ Cardinality(s \ {next[s]}) = Cardinality(s) - 1
  BY <1>0, <1>1, FS_RemoveElement
<1>2. 0 \in N
  <2> DEFINE h == [s \in Up(0) |-> base]
  <2>1. ASSUME NEW s \in Up(0) PROVE s = {}
    <3>1. s \in SUBSET S /\ Cardinality(s) <= 0
      OBVIOUS
    <3> QED
      BY <1>0, <1>a, <3>1
  <2>2. h = [s \in Up(0) |-> IF s = {} THEN base
                             ELSE Op(a, b, c, elt[next[s]], h[s \ {next[s]}])]
    BY <2>1
  <2> QED
    BY <2>2 DEF Folds
<1>3. ASSUME NEW n \in N
      PROVE  n + 1 \in N
  <2>0. n \in Nat
    OBVIOUS
  <2>1. PICK g : Folds(a, b, c, base, Up(n), next, elt, g)
    OBVIOUS
  <2> DEFINE h == [s \in Up(n + 1) |-> IF s = {} THEN base
                                       ELSE Op(a, b, c, elt[next[s]], g[s \ {next[s]}])]
  <2>2. ASSUME NEW s \in Up(n)
        PROVE  h[s] = g[s]
    <3>1. s \in Up(n + 1)
      BY <1>0, <2>0
    <3> QED
      BY <2>1, <3>1 DEF Folds
  <2>3. ASSUME NEW s \in Up(n + 1), s # {}
        PROVE  h[s \ {next[s]}] = g[s \ {next[s]}]
    <3>1. s \in SUBSET S /\ Cardinality(s) <= n + 1
      OBVIOUS
    <3>2. s \ {next[s]} \in SUBSET S /\ Cardinality(s \ {next[s]}) <= n
      BY <1>0, <1>1, <2>0, <2>3, <3>1
    <3>3. s \ {next[s]} \in Up(n)
      BY <3>2
    <3> QED
      BY <2>2, <3>3
  <2>4. h = [s \in Up(n + 1) |-> IF s = {} THEN base
                                 ELSE Op(a, b, c, elt[next[s]], h[s \ {next[s]}])]
    BY <2>3
  <2>5. Folds(a, b, c, base, Up(n + 1), next, elt, h)
    BY <2>4, Zenon DEF Folds
  <2> HIDE DEF h, Up
  <2>6. \E f : Folds(a, b, c, base, Up(n + 1), next, elt, f)
    BY <2>5
  <2> QED
    BY <2>0, <2>6
<1> HIDE DEF N
<1>4. \A n \in Nat : n \in N
  <2> DEFINE M == Nat \ N
  <2> SUFFICES ASSUME M # {} PROVE FALSE
    OBVIOUS
  <2>3. PICK n \in M : \A m \in M : n <= m
    <3>1. M \subseteq Nat
      OBVIOUS
    <3> HIDE DEF M
    <3> QED
      BY <3>1, LeastNumber
  <2>4. n # 0 /\ n - 1 \in Nat /\ n - 1 \notin M
    BY <1>2, <2>3
  <2> QED
    BY <1>3, <2>4
<1>5. Up(Cardinality(S)) = SUBSET S
  BY <1>0
<1>6. Cardinality(S) \in N
  BY <1>4, FS_CardinalityType
<1> QED
  BY <1>5, <1>6 DEF N

\* Each step of the recursion stays in the family.
Carries(a, b, c, S, next, elt, D) ==
    \A s \in SUBSET S : s # {} =>
        \A d \in D[s \ {next[s]}] : Op(a, b, c, elt[next[s]], d) \in D[s]

\* What such a function returns for a set is in the family's set for it.
LEMMA FoldStays ==
    ASSUME NEW a, NEW b, NEW c, NEW base, NEW S, IsFiniteSet(S),
           NEW next, NEW elt, \A s \in SUBSET S : s # {} => next[s] \in s,
           NEW h, Folds(a, b, c, base, SUBSET S, next, elt, h),
           NEW D, base \in D[{}], Carries(a, b, c, S, next, elt, D)
    PROVE  h[S] \in D[S]
<1> DEFINE P == {s \in SUBSET S : h[s] \in D[s]}
<1>1. {} \in P
  BY DEF Folds
<1>2. ASSUME NEW s \in SUBSET S, s # {}
      PROVE  \E x \in s : s \ {x} \in P => s \in P
  <2>1. h[s] = Op(a, b, c, elt[next[s]], h[s \ {next[s]}])
    BY <1>2 DEF Folds
  <2>2. s \ {next[s]} \in P => s \in P
    BY <1>2, <2>1 DEF Carries
  <2> QED
    BY <1>2, <2>2
<1> HIDE DEF P
<1>3. \A s \in SUBSET S : s \in P
  BY <1>1, <1>2, SubsetInduction
<1> QED
  BY <1>3 DEF P

\* A set, taken element by element in any order.
THEOREM SetFoldRule ==
    ASSUME NEW a, NEW b, NEW c, NEW base, NEW S, IsFiniteSet(S),
           NEW D, base \in D[{}],
           \A s \in SUBSET S : \A x \in s :
               \A d \in D[s \ {x}] : Op(a, b, c, x, d) \in D[s]
    PROVE  SetFold(a, b, c, base, S) \in D[S]
<1> DEFINE next == [s \in SUBSET S |-> Any(s)]
           elt == [x \in S |-> x]
           Is(h) == h = [s \in SUBSET S |->
                            IF s = {} THEN base
                            ELSE Op(a, b, c, Any(s), h[s \ {Any(s)}])]
           f == CHOOSE h : Is(h)
<1>1. \A s \in SUBSET S : s # {} => Any(s) \in s
  BY DEF Any
<1>2. \A s \in SUBSET S : s # {} => next[s] \in s
  BY <1>1
<1>3. \A h : Folds(a, b, c, base, SUBSET S, next, elt, h) <=> Is(h)
  <2> SUFFICES ASSUME NEW h
               PROVE  Folds(a, b, c, base, SUBSET S, next, elt, h) <=> Is(h)
    OBVIOUS
  <2>1. \A s \in SUBSET S : s # {} => elt[next[s]] = Any(s) /\ next[s] = Any(s)
    BY <1>1
  <2>2. [s \in SUBSET S |-> IF s = {} THEN base
                            ELSE Op(a, b, c, elt[next[s]], h[s \ {next[s]}])]
        = [s \in SUBSET S |-> IF s = {} THEN base
                              ELSE Op(a, b, c, Any(s), h[s \ {Any(s)}])]
    <3>1. ASSUME NEW s \in SUBSET S
          PROVE  (IF s = {} THEN base
                  ELSE Op(a, b, c, elt[next[s]], h[s \ {next[s]}]))
                 = (IF s = {} THEN base
                    ELSE Op(a, b, c, Any(s), h[s \ {Any(s)}]))
      <4>1. CASE s = {}
        BY <4>1
      <4>2. CASE s # {}
        <5>1. elt[next[s]] = Any(s) /\ next[s] = Any(s)
          BY <2>1, <4>2
        <5> HIDE DEF elt, next
        <5> QED
          BY <5>1, <4>2
      <4> QED
        BY <4>1, <4>2
    <3> HIDE DEF elt, next
    <3> QED
      BY <3>1
  <2> QED
    BY <2>2 DEF Folds
<1> HIDE DEF next, elt
<1>4. \E h : Folds(a, b, c, base, SUBSET S, next, elt, h)
  BY <1>2, FoldExists
<1>5. Is(f)
  <2>1. \E h : Is(h)
    BY <1>3, <1>4
  <2> QED
    BY <2>1
<1>6. SetFold(a, b, c, base, S) = f[S]
  BY DEF SetFold
<1> HIDE DEF f, Is
<1>7. Folds(a, b, c, base, SUBSET S, next, elt, f)
  BY <1>3, <1>5
<1>8. ASSUME NEW s \in SUBSET S, s # {}, NEW d \in D[s \ {next[s]}]
      PROVE  Op(a, b, c, elt[next[s]], d) \in D[s]
  <2>1. next[s] \in s /\ elt[next[s]] = next[s]
    BY <1>2, <1>8 DEF elt
  <2> QED
    BY <1>8, <2>1
<1>10. Carries(a, b, c, S, next, elt, D)
  BY <1>8 DEF Carries
<1>9. f[S] \in D[S]
  BY <1>2, <1>7, <1>10, FoldStays
<1> QED
  BY <1>6, <1>9

\* A sequence, taken element by element in its order.
THEOREM SeqFoldRule ==
    ASSUME NEW a, NEW b, NEW c, NEW base, NEW E, NEW seq \in Seq(E),
           NEW D, base \in D[0],
           \A k \in 1..Len(seq) :
               \A d \in D[k - 1] : Op(a, b, c, seq[k], d) \in D[k]
    PROVE  SeqFold(a, b, c, base, seq) \in D[Len(seq)]
<1> DEFINE S == DOMAIN seq
           next == [s \in SUBSET S |-> Greatest(s)]
           Is(h) == h = [s \in SUBSET S |->
                            IF s = {} THEN base
                            ELSE Op(a, b, c, seq[Greatest(s)], h[s \ {Greatest(s)}])]
           f == CHOOSE h : Is(h)
<1>0. S = 1..Len(seq) /\ Len(seq) \in Nat /\ IsFiniteSet(S)
  <2>1. S = 1..Len(seq) /\ Len(seq) \in Nat
    OBVIOUS
  <2>2. IsFiniteSet(1..Len(seq))
    BY <2>1, FS_Interval
  <2> QED
    BY <2>1, <2>2
<1>1. ASSUME NEW s \in SUBSET S, s # {}
      PROVE  Greatest(s) \in s /\ \A y \in s : Greatest(s) >= y
  <2>1. \E x \in s : \A y \in s : x >= y
    <3> DEFINE M == {Len(seq) - y : y \in s}
    <3>1. M \subseteq Nat /\ M # {}
      BY <1>0, <1>1
    <3>4. PICK m \in M : \A n \in M : m <= n
      <4> HIDE DEF M
      <4> QED
        BY <3>1, LeastNumber
    <3>5. PICK x \in s : m = Len(seq) - x
      OBVIOUS
    <3>6. ASSUME NEW y \in s PROVE x >= y
      <4>1. Len(seq) - y \in M /\ Len(seq) - x <= Len(seq) - y
        BY <3>4, <3>5
      <4> QED
        BY <1>0, <4>1
    <3> QED
      BY <3>6
  <2> QED
    BY <2>1 DEF Greatest
<1>2. \A s \in SUBSET S : s # {} => next[s] \in s
  BY <1>1
<1>3. \A h : Folds(a, b, c, base, SUBSET S, next, seq, h) <=> Is(h)
  <2> SUFFICES ASSUME NEW h
               PROVE  Folds(a, b, c, base, SUBSET S, next, seq, h) <=> Is(h)
    OBVIOUS
  <2>1. \A s \in SUBSET S : next[s] = Greatest(s)
    OBVIOUS
  <2>2. [s \in SUBSET S |-> IF s = {} THEN base
                            ELSE Op(a, b, c, seq[next[s]], h[s \ {next[s]}])]
        = [s \in SUBSET S |-> IF s = {} THEN base
                              ELSE Op(a, b, c, seq[Greatest(s)], h[s \ {Greatest(s)}])]
    <3>1. ASSUME NEW s \in SUBSET S
          PROVE  (IF s = {} THEN base
                  ELSE Op(a, b, c, seq[next[s]], h[s \ {next[s]}]))
                 = (IF s = {} THEN base
                    ELSE Op(a, b, c, seq[Greatest(s)], h[s \ {Greatest(s)}]))
      <4> HIDE DEF next
      <4> QED
        BY <2>1
    <3> HIDE DEF next
    <3> QED
      BY <3>1
  <2> QED
    BY <2>2 DEF Folds
<1>4. \E h : Folds(a, b, c, base, SUBSET S, next, seq, h)
  <2> HIDE DEF next
  <2> QED
    BY <1>0, <1>2, FoldExists
<1>5. Is(f)
  <2> HIDE DEF next
  <2>1. \E h : Is(h)
    BY <1>3, <1>4
  <2> QED
    BY <2>1
<1>6. SeqFold(a, b, c, base, seq) = f[S]
  BY DEF SeqFold
<1> HIDE DEF f, Is
<1>7. Folds(a, b, c, base, SUBSET S, next, seq, f)
  BY <1>3, <1>5
<1> DEFINE N == {k \in 0..Len(seq) : f[1..k] \notin D[k]}
<1> SUFFICES ASSUME N # {} PROVE FALSE
  <2>1. f[1..Len(seq)] \in D[Len(seq)]
    BY <1>0
  <2> QED
    BY <1>0, <1>6, <2>1
<1>8. PICK k \in N : \A j \in N : k <= j
  <2>1. N \subseteq Nat
    OBVIOUS
  <2> HIDE DEF N
  <2> QED
    BY <2>1, LeastNumber
<1>9. CASE k = 0
  <2>1. 1..k = {} /\ {} \in SUBSET S
    BY <1>9
  <2>2. f[{}] = base
    BY <1>7, <2>1 DEF Folds
  <2> QED
    BY <1>9, <2>1, <2>2
<1>10. CASE k # 0
  <2>1. k \in 1..Len(seq) /\ k - 1 \in 0..Len(seq)
    BY <1>0, <1>10
  <2>2. f[1..(k - 1)] \in D[k - 1]
    BY <1>8, <2>1
  <2>3. 1..k \in SUBSET S /\ 1..k # {}
    BY <1>0, <2>1
  <2>4. next[1..k] \in 1..k /\ next[1..k] >= k
    <3>1. next[1..k] = Greatest(1..k) /\ k \in 1..k
      BY <2>1, <2>3
    <3>2. Greatest(1..k) \in 1..k /\ \A y \in 1..k : Greatest(1..k) >= y
      BY <1>1, <2>3
    <3> HIDE DEF next
    <3> QED
      BY <3>1, <3>2
  <2> HIDE DEF next
  <2>5. next[1..k] = k /\ (1..k) \ {k} = 1..(k - 1)
    BY <2>1, <2>4
  <2>6. f[1..k] = Op(a, b, c, seq[k], f[1..(k - 1)])
    BY <1>7, <2>3, <2>5 DEF Folds
  <2> QED
    BY <2>1, <2>2, <2>6
<1> QED
  BY <1>9, <1>10
=============================================================================
