---------------------------- MODULE TreesProofs ----------------------------
(***************************************************************************)
(* Theorems about AVLTree and MultiAVLTree, for every finite set of keys:  *)
(* through any calls the nodes are a search tree, and the iterators walk   *)
(* it in order; the lists of value nodes are linked as the calls put them. *)
(*                                                                         *)
(* The shape of a tree is given by S, which has for every node the nodes   *)
(* from it downwards, and by pos, which numbers the nodes from left to     *)
(* right: Nested.  What is proved for the left side holds for the right    *)
(* one, by turning pos around (Mirrored).  An exchange of two nodes is a   *)
(* renaming of them, in S as in pos, so that the order is that of the keys *)
(* again when the node that was moved down has been taken out.             *)
(***************************************************************************)
EXTENDS AVLTree, MultiAVLTree, FiniteSetTheorems, SequenceTheorems, WellFoundedInduction, TLAPS

-----------------------------------------------------------------------------
(* Induction, and functions defined by recursion *)

\* A set that has n whenever it has all that is below n has all numbers.
LEMMA StrongInduction ==
    ASSUME NEW P, \A n \in Nat : (\A m \in 0 .. (n - 1) : m \in P) => n \in P
    PROVE  Nat \subseteq P
<1> SUFFICES ASSUME NEW k \in Nat, k \notin P PROVE FALSE
  OBVIOUS
<1> DEFINE T == Nat \ P
<1>1. \E x \in T : \A y \in T : ~ (<<y, x>> \in OpToRel(<, Nat))
  <2>1. T \subseteq Nat /\ T # {}
    OBVIOUS
  <2> HIDE DEF T
  <2> QED
    BY <2>1, NatLessThanWellFounded, WFMin
<1>2. PICK x \in T : \A y \in T : ~ (y < x)
  BY <1>1 DEF OpToRel
<1> QED
  BY <1>2

\* The step G of a recursion asks only for values at places of lower rank.
LowerDecides(G, D, R, N, rank) ==
    /\ N \in Nat /\ rank \in [D -> 0..N] /\ R # {} /\ G \in [D \X [D -> R] -> R]
    /\ \A m \in D : \A f, g \in [D -> R] :
         (\A x \in D : rank[x] < rank[m] => f[x] = g[x]) => G[<<m, f>>] = G[<<m, g>>]

LEMMA OneLess == \A n \in Nat : n # 0 => n - 1 \in Nat /\ n - 1 \in 0 .. (n - 1) /\ n - 1 < n
  OBVIOUS

\* Such a recursion has a solution.
LEMMA Recursion ==
    ASSUME NEW G, NEW D, NEW R, NEW N, NEW rank, LowerDecides(G, D, R, N, rank)
    PROVE  \E h \in [D -> R] : \A m \in D : h[m] = G[<<m, h>>]
<1> DEFINE Solves(h, k) == \A m \in D : rank[m] < k => h[m] = G[<<m, h>>]
           P == {k \in Nat : \E h \in [D -> R] : Solves(h, k)}
<1> N \in Nat /\ rank \in [D -> 0..N] /\ R # {} /\ G \in [D \X [D -> R] -> R]
  BY DEF LowerDecides
<1>1. ASSUME NEW n \in Nat, \A m \in 0 .. (n - 1) : m \in P
      PROVE  n \in P
  <2>1. CASE n = 0
    <3>1. PICK base \in R : TRUE
      OBVIOUS
    <3> DEFINE h == [m \in D |-> base]
    <3>2. h \in [D -> R] /\ Solves(h, n)
      BY <2>1, <3>1
    <3> QED
      BY <3>2
  <2>2. CASE n # 0
    <3>1. n - 1 \in P
      <4>1. n - 1 \in 0 .. (n - 1)
        BY <2>2, OneLess
      <4> HIDE DEF P
      <4> QED
        BY <1>1, <4>1
    <3>2. PICK h \in [D -> R] : Solves(h, n - 1)
      BY <3>1
    <3> DEFINE g == [m \in D |-> G[<<m, h>>]]
    <3>3. g \in [D -> R]
      OBVIOUS
    <3>4. \A x \in D : rank[x] < n - 1 => h[x] = g[x]
      BY <3>2
    <3>5. ASSUME NEW m \in D, rank[m] < n
          PROVE  g[m] = G[<<m, g>>]
      <4>1. \A x \in D : rank[x] < rank[m] => h[x] = g[x]
        BY <3>4, <3>5
      <4>2. G[<<m, h>>] = G[<<m, g>>]
        BY <3>3, <4>1 DEF LowerDecides
      <4> QED
        BY <4>2
    <3> QED
      BY <3>3, <3>5
  <2> QED
    BY <2>1, <2>2
<1>2. N + 1 \in P
  <2> HIDE DEF P
  <2> QED
    BY <1>1, StrongInduction
<1>3. PICK h \in [D -> R] : Solves(h, N + 1)
  BY <1>2
<1>4. \A m \in D : h[m] = G[<<m, h>>]
  BY <1>3
<1> QED
  BY <1>4

\* The states a loop goes through, when its step leads from R to R.
RunOf(h, R, s0, F, N) ==
    h \in [0..N -> R] /\ \A i \in 0..N : h[i] = IF i = 0 THEN s0 ELSE F[h[i - 1]]

LEMMA Loop ==
    ASSUME NEW R, NEW s0, NEW F, NEW N, s0 \in R /\ F \in [R -> R] /\ N \in Nat
    PROVE  \E h : RunOf(h, R, s0, F, N)
<1> DEFINE D == 0..N
           rank == [i \in D |-> i]
           G == [p \in D \X [D -> R] |-> IF p[1] = 0 THEN s0 ELSE F[p[2][p[1] - 1]]]
<1>1. G \in [D \X [D -> R] -> R] /\ rank \in [D -> 0..N] /\ R # {}
  OBVIOUS
<1>2. \A m \in D, f \in [D -> R] : G[<<m, f>>] = IF m = 0 THEN s0 ELSE F[f[m - 1]]
  OBVIOUS
<1>3. ASSUME NEW m \in D, NEW f \in [D -> R], NEW g \in [D -> R],
             \A x \in D : rank[x] < rank[m] => f[x] = g[x]
      PROVE  G[<<m, f>>] = G[<<m, g>>]
  <2>1. m # 0 => m - 1 \in D /\ rank[m - 1] < rank[m]
    OBVIOUS
  <2> QED
    BY <1>2, <1>3, <2>1
<1>4. \E h \in [D -> R] : \A m \in D : h[m] = G[<<m, h>>]
  <2>1. LowerDecides(G, D, R, N, rank)
    BY <1>1, <1>3 DEF LowerDecides
  <2> HIDE DEF G, rank, D
  <2> QED
    BY <2>1, Recursion
<1>5. PICK h \in [D -> R] : \A m \in D : h[m] = G[<<m, h>>]
  BY <1>4
<1>7. \A m \in D : h[m] = IF m = 0 THEN s0 ELSE F[h[m - 1]]
  <2> HIDE DEF G
  <2> QED
    BY <1>2, <1>5
<1> QED
  BY <1>5, <1>7 DEF RunOf

-----------------------------------------------------------------------------
(* Shapes *)

\* S[n] is the set of keys from n downwards, and pos says in which order: those
\* on the left are before n, those on the right behind it.
Nested(l, r, S, pos) ==
    /\ l \in [Keys -> Pointers] /\ r \in [Keys -> Pointers]
    /\ S \in [Pointers -> SUBSET Keys] /\ S[NULL] = {} /\ pos \in [Keys -> Int]
    /\ \A n \in Keys : /\ S[n] = {n} \cup S[l[n]] \cup S[r[n]]
                       /\ \A x \in S[l[n]] : pos[x] < pos[n]
                       /\ \A x \in S[r[n]] : pos[n] < pos[x]

\* The parent of a child is the node whose child it is.
Linked(l, r, p) ==
    /\ p \in [Keys -> Pointers]
    /\ \A n \in Keys : /\ l[n] # NULL => p[l[n]] = n
                       /\ r[n] # NULL => p[r[n]] = n
                       /\ p[n] # NULL => l[p[n]] = n \/ r[p[n]] = n

LEMMA NoKey == NULL \notin Keys /\ Pointers = Keys \cup {NULL}
  BY KeysAreNumbers DEF NULL, Pointers

\* The same tree, seen in a mirror.
Mirrored(pos) == [k \in Keys |-> 0 - pos[k]]

LEMMA Mirror ==
    ASSUME NEW l, NEW r, NEW S, NEW pos, Nested(l, r, S, pos)
    PROVE  Nested(r, l, S, Mirrored(pos))
<1>1. Mirrored(pos) \in [Keys -> Int]
  BY DEF Nested, Mirrored
<1>2. \A x, n \in Keys : pos[x] < pos[n] => Mirrored(pos)[n] < Mirrored(pos)[x]
  BY DEF Nested, Mirrored
<1>3. \A n \in Keys : S[l[n]] \subseteq Keys /\ S[r[n]] \subseteq Keys
  BY DEF Nested
<1> QED
  BY <1>1, <1>2, <1>3 DEF Nested

LEMMA MirrorLinks ==
    ASSUME NEW l, NEW r, NEW p, Linked(l, r, p)
    PROVE  Linked(r, l, p)
  BY DEF Linked

\* What is below a node, its left side, its right side.
LEMMA Sides ==
    ASSUME NEW l, NEW r, NEW S, NEW pos, Nested(l, r, S, pos), NEW n \in Keys
    PROVE  /\ l[n] \in Pointers /\ r[n] \in Pointers
           /\ n \in S[n] /\ S[l[n]] \subseteq S[n] /\ S[r[n]] \subseteq S[n]
           /\ S[n] \subseteq Keys
           /\ n \notin S[l[n]] /\ n \notin S[r[n]] /\ S[l[n]] \cap S[r[n]] = {}
           /\ \A x \in S[n] : x = n \/ x \in S[l[n]] \/ x \in S[r[n]]
           /\ l[n] # NULL => l[n] \in Keys /\ l[n] \in S[l[n]] /\ l[n] # n /\ l[n] # r[n]
           /\ r[n] # NULL => r[n] \in Keys /\ r[n] \in S[r[n]] /\ r[n] # n /\ l[n] # r[n]
<1>1. S[n] = {n} \cup S[l[n]] \cup S[r[n]] /\ S[n] \subseteq Keys
  BY NoKey DEF Nested
<1>2. pos \in [Keys -> Int]
  BY DEF Nested
<1>3. (\A x \in S[l[n]] : pos[x] < pos[n]) /\ (\A x \in S[r[n]] : pos[n] < pos[x])
  BY DEF Nested
<1>4. n \notin S[l[n]] /\ n \notin S[r[n]] /\ S[l[n]] \cap S[r[n]] = {}
  BY <1>1, <1>2, <1>3
<1>5. l[n] \in Pointers /\ r[n] \in Pointers
  BY DEF Nested
<1>6. (l[n] # NULL => l[n] \in S[l[n]]) /\ (r[n] # NULL => r[n] \in S[r[n]])
  BY <1>5, NoKey DEF Nested
<1> QED
  BY <1>1, <1>4, <1>5, <1>6, NoKey

LEMMA Sizes ==
    ASSUME NEW l, NEW r, NEW S, NEW pos, Nested(l, r, S, pos), NEW n \in Pointers
    PROVE  /\ IsFiniteSet(S[n]) /\ Cardinality(S[n]) \in 0..Cardinality(Keys)
           /\ \A T \in SUBSET S[n] : T # S[n] => /\ Cardinality(T) \in Nat
                                                 /\ Cardinality(T) < Cardinality(S[n])
<1>1. S[n] \subseteq Keys /\ IsFiniteSet(Keys)
  BY KeysAreNumbers, NoKey DEF Nested
<1>2. IsFiniteSet(S[n]) /\ Cardinality(S[n]) <= Cardinality(Keys)
  BY <1>1, FS_Subset
<1>3. Cardinality(S[n]) \in Nat /\ Cardinality(Keys) \in Nat
  BY <1>1, <1>2, FS_CardinalityType
<1>4. ASSUME NEW T \in SUBSET S[n], T # S[n]
      PROVE  Cardinality(T) \in Nat /\ Cardinality(T) < Cardinality(S[n])
  BY <1>2, <1>4, FS_Subset, FS_CardinalityType
<1> QED
  BY <1>2, <1>3, <1>4

\* What holds of a node when it holds of all below it, holds of every node.
LEMMA FromBelow ==
    ASSUME NEW l, NEW r, NEW S, NEW pos, Nested(l, r, S, pos), NEW P,
           \A n \in Keys : (\A x \in Keys : x \in S[l[n]] \/ x \in S[r[n]] => x \in P) => n \in P
    PROVE  Keys \subseteq P
<1> DEFINE Q == {k \in Nat : \A n \in Keys : Cardinality(S[n]) = k => S[n] \subseteq P}
<1>1. ASSUME NEW k \in Nat, \A j \in 0 .. (k - 1) : j \in Q
      PROVE  k \in Q
  <2> SUFFICES ASSUME NEW n \in Keys, Cardinality(S[n]) = k
               PROVE  S[n] \subseteq P
    OBVIOUS
  <2>1. ASSUME NEW c \in {l[n], r[n]}
        PROVE  S[c] \subseteq P
    <3>1. CASE c = NULL
      BY <3>1 DEF Nested
    <3>2. CASE c # NULL
      <4>1. c \in Keys /\ S[c] \subseteq S[n] /\ S[c] # S[n]
        BY <3>2, Sides
      <4>2. n \in Pointers
        BY NoKey
      <4>3. Cardinality(S[c]) \in Nat /\ Cardinality(S[c]) < k
        BY <4>1, <4>2, Sizes
      <4>4. Cardinality(S[c]) \in 0 .. (k - 1)
        BY <4>3
      <4>5. Cardinality(S[c]) \in Q
        BY <1>1, <4>4
      <4> QED
        BY <4>1, <4>5
    <3> QED
      BY <3>1, <3>2
  <2>2. n \in P
    BY <2>1
  <2> QED
    BY <2>1, <2>2, Sides
<1>2. Nat \subseteq Q
  <2> HIDE DEF Q
  <2> QED
    BY <1>1, StrongInduction
<1> SUFFICES ASSUME NEW n \in Keys PROVE n \in P
  OBVIOUS
<1>3. Cardinality(S[n]) \in Nat
  BY NoKey, Sizes
<1>4. S[n] \subseteq P
  BY <1>2, <1>3
<1> QED
  BY <1>4, Sides

\* Below what is below a node is below the node.
LEMMA Transitive ==
    ASSUME NEW l, NEW r, NEW S, NEW pos, Nested(l, r, S, pos)
    PROVE  \A n \in Keys : \A x \in S[n] : S[x] \subseteq S[n]
<1> DEFINE P == {n \in Keys : \A x \in S[n] : S[x] \subseteq S[n]}
<1>1. ASSUME NEW n \in Keys, \A x \in Keys : x \in S[l[n]] \/ x \in S[r[n]] => x \in P
      PROVE  n \in P
  <2> SUFFICES ASSUME NEW x \in S[n], x # n
               PROVE  S[x] \subseteq S[n]
    OBVIOUS
  <2>1. PICK c \in {l[n], r[n]} : x \in S[c]
    BY Sides
  <2>2. c \in Keys /\ c \in S[c] /\ S[c] \subseteq S[n]
    BY <2>1, Sides DEF Nested
  <2>3. c \in P
    BY <1>1, <2>1, <2>2
  <2> QED
    BY <2>1, <2>2, <2>3
<1> HIDE DEF P
<1>2. Keys \subseteq P
  BY <1>1, FromBelow
<1> QED
  BY <1>2 DEF P

LEMMA Antisymmetric ==
    ASSUME NEW l, NEW r, NEW S, NEW pos, Nested(l, r, S, pos),
           NEW n \in Keys, NEW x \in S[n], n \in S[x]
    PROVE  x = n
<1> SUFFICES ASSUME x # n PROVE FALSE
  OBVIOUS
<1>1. PICK c \in {l[n], r[n]} : x \in S[c]
  BY Sides
<1>2. c \in Keys
  BY <1>1, Sides DEF Nested
<1>3. S[x] \subseteq S[c]
  BY <1>1, <1>2, Transitive
<1> QED
  BY <1>3, Sides

\* Every node below another has its parent there, too.
LEMMA ParentsBelow ==
    ASSUME NEW l, NEW r, NEW p, NEW S, NEW pos, Nested(l, r, S, pos), Linked(l, r, p)
    PROVE  \A n \in Keys : \A x \in S[n] : x # n => p[x] \in Keys /\ p[x] \in S[n]
<1> DEFINE P == {n \in Keys : \A x \in S[n] : x # n => p[x] \in Keys /\ p[x] \in S[n]}
<1>1. ASSUME NEW n \in Keys, \A x \in Keys : x \in S[l[n]] \/ x \in S[r[n]] => x \in P
      PROVE  n \in P
  <2> SUFFICES ASSUME NEW x \in S[n], x # n
               PROVE  p[x] \in Keys /\ p[x] \in S[n]
    OBVIOUS
  <2>1. PICK c \in {l[n], r[n]} : x \in S[c]
    BY Sides
  <2>2. c \in Keys /\ c \in S[c] /\ S[c] \subseteq S[n]
    BY <2>1, Sides DEF Nested
  <2>3. c \in P
    BY <1>1, <2>1, <2>2
  <2>4. CASE x = c
    <3>1. p[c] = n
      BY <2>2, NoKey DEF Linked
    <3> QED
      BY <2>4, <3>1, Sides
  <2>5. CASE x # c
    BY <2>1, <2>2, <2>3, <2>5
  <2> QED
    BY <2>4, <2>5
<1> HIDE DEF P
<1>2. Keys \subseteq P
  BY <1>1, FromBelow
<1> QED
  BY <1>2 DEF P

\* A node and its parent.
LEMMA AtParent ==
    ASSUME NEW l, NEW r, NEW p, NEW S, NEW pos, Nested(l, r, S, pos), Linked(l, r, p),
           NEW n \in Keys, p[n] # NULL
    PROVE  /\ p[n] \in Keys /\ p[n] # n /\ S[n] \subseteq S[p[n]] /\ p[n] \notin S[n]
           /\ (l[p[n]] = n /\ r[p[n]] # n) \/ (r[p[n]] = n /\ l[p[n]] # n)
           /\ Cardinality(S[n]) < Cardinality(S[p[n]])
<1>1. p[n] \in Keys /\ (l[p[n]] = n \/ r[p[n]] = n)
  BY NoKey DEF Linked
<1>2. /\ p[n] # n /\ S[n] \subseteq S[p[n]] /\ p[n] \notin S[n] /\ p[n] \in S[p[n]]
      /\ (l[p[n]] = n /\ r[p[n]] # n) \/ (r[p[n]] = n /\ l[p[n]] # n)
  BY <1>1, NoKey, Sides
<1>3. p[n] \in Pointers /\ S[n] \in SUBSET S[p[n]] /\ S[n] # S[p[n]]
  BY <1>1, <1>2, NoKey
<1>4. Cardinality(S[n]) < Cardinality(S[p[n]])
  BY <1>3, Sizes
<1> QED
  BY <1>1, <1>2, <1>4

-----------------------------------------------------------------------------
(* What the recursions of AVLNodes define *)

\* The first key from a node downwards: l again and again.
IsLeftmost(h, l) == h = [m \in Keys |-> IF l[m] = NULL THEN m ELSE h[l[m]]]

LEMMA LeftmostExists ==
    ASSUME NEW l, NEW r, NEW S, NEW pos, Nested(l, r, S, pos)
    PROVE  \E h : IsLeftmost(h, l)
<1> DEFINE N == Cardinality(Keys)
           rank == [m \in Keys |-> Cardinality(S[m])]
           G == [q \in Keys \X [Keys -> Keys] |-> IF l[q[1]] = NULL THEN q[1] ELSE q[2][l[q[1]]]]
<1>1. CASE Keys = {}
  <2> DEFINE h == [m \in Keys |-> m]
  <2>1. IsLeftmost(h, l)
    BY <1>1 DEF IsLeftmost
  <2> QED
    BY <2>1
<1>2. CASE Keys # {}
  <2>1. \A m \in Keys : l[m] # NULL => l[m] \in Keys /\ rank[l[m]] < rank[m]
    <3> SUFFICES ASSUME NEW m \in Keys, l[m] # NULL
                 PROVE  l[m] \in Keys /\ rank[l[m]] < rank[m]
      OBVIOUS
    <3>1. l[m] \in Keys /\ S[l[m]] \in SUBSET S[m] /\ S[l[m]] # S[m]
      BY Sides
    <3>2. Cardinality(S[l[m]]) < Cardinality(S[m])
      BY <3>1, Sizes, NoKey
    <3> QED
      BY <3>1, <3>2
  <2>2. N \in Nat /\ rank \in [Keys -> 0..N]
    <3>1. N \in Nat
      BY KeysAreNumbers, FS_CardinalityType
    <3>2. \A m \in Keys : Cardinality(S[m]) \in 0..N
      BY Sizes, NoKey
    <3> QED
      BY <3>1, <3>2
  <2> HIDE DEF N, rank
  <2>3. \A m \in Keys, f \in [Keys -> Keys] :
            G[<<m, f>>] = IF l[m] = NULL THEN m ELSE f[l[m]]
    OBVIOUS
  <2>4. G \in [Keys \X [Keys -> Keys] -> Keys]
    BY <2>1
  <2>5. LowerDecides(G, Keys, Keys, N, rank)
    <3> HIDE DEF G
    <3>1. ASSUME NEW m \in Keys, NEW f \in [Keys -> Keys], NEW g \in [Keys -> Keys],
                 \A x \in Keys : rank[x] < rank[m] => f[x] = g[x]
          PROVE  G[<<m, f>>] = G[<<m, g>>]
      <4>1. l[m] # NULL => f[l[m]] = g[l[m]]
        BY <2>1, <3>1
      <4> QED
        BY <2>3, <4>1
    <3> QED
      BY <1>2, <2>2, <2>4, <3>1 DEF LowerDecides
  <2>6. PICK h \in [Keys -> Keys] : \A m \in Keys : h[m] = G[<<m, h>>]
    <3> HIDE DEF G
    <3> QED
      BY <2>5, Recursion
  <2>7. h = [m \in Keys |-> IF l[m] = NULL THEN m ELSE h[l[m]]]
    <3> HIDE DEF G
    <3>1. \A m \in Keys : h[m] = IF l[m] = NULL THEN m ELSE h[l[m]]
      BY <2>3, <2>6
    <3> QED
      BY <2>6, <3>1
  <2> QED
    BY <2>7 DEF IsLeftmost
<1> QED
  BY <1>1, <1>2

LEMMA Leftmost ==
    ASSUME NEW l, NEW r, NEW S, NEW pos, Nested(l, r, S, pos), NEW h, IsLeftmost(h, l)
    PROVE  \A n \in Keys : /\ h[n] \in S[n] /\ l[h[n]] = NULL
                           /\ \A x \in S[n] : x # h[n] => pos[h[n]] < pos[x]
<1> DEFINE P == {n \in Keys : /\ h[n] \in S[n] /\ l[h[n]] = NULL
                              /\ \A x \in S[n] : x # h[n] => pos[h[n]] < pos[x]}
<1>1. ASSUME NEW n \in Keys, \A x \in Keys : x \in S[l[n]] \/ x \in S[r[n]] => x \in P
      PROVE  n \in P
  <2>1. h[n] = IF l[n] = NULL THEN n ELSE h[l[n]]
    BY DEF IsLeftmost
  <2>2. \A x \in S[n] : x = n \/ x \in S[l[n]] \/ x \in S[r[n]]
    BY Sides
  <2>3. \A x \in S[r[n]] : pos[n] < pos[x]
    BY DEF Nested
  <2>4. CASE l[n] = NULL
    <3>1. S[l[n]] = {} /\ n \in S[n]
      BY <2>4, Sides DEF Nested
    <3> QED
      BY <2>1, <2>2, <2>3, <2>4, <3>1
  <2>5. CASE l[n] # NULL
    <3>1. l[n] \in Keys /\ l[n] \in S[l[n]] /\ S[l[n]] \subseteq S[n]
      BY <2>5, Sides
    <3>2. l[n] \in P
      BY <1>1, <3>1
    <3>3. h[n] \in S[l[n]] /\ l[h[n]] = NULL
      BY <2>1, <2>5, <3>2
    <3>4. pos[h[n]] < pos[n]
      BY <3>3 DEF Nested
    <3>5. ASSUME NEW x \in S[n], x # h[n]
          PROVE  pos[h[n]] < pos[x]
      <4>1. CASE x \in S[l[n]]
        BY <2>1, <2>5, <3>2, <3>5, <4>1
      <4>2. CASE x = n
        BY <3>4, <4>2
      <4>3. CASE x \in S[r[n]]
        <5>1. pos[n] < pos[x] /\ pos[n] \in Int /\ pos[x] \in Int /\ pos[h[n]] \in Int
          BY <3>1, <3>3, <4>3, Sides DEF Nested
        <5> QED
          BY <3>4, <5>1
      <4> QED
        BY <2>2, <4>1, <4>2, <4>3
    <3> QED
      BY <3>1, <3>3, <3>5
  <2> QED
    BY <2>4, <2>5
<1> HIDE DEF P
<1>2. Keys \subseteq P
  BY <1>1, FromBelow
<1> QED
  BY <1>2 DEF P

LEMMA MinKeyNodeIs ==
    ASSUME NEW t, NEW S, NEW pos, Nested(t.left, t.right, S, pos), NEW n \in Keys
    PROVE  /\ minKeyNode(t, n) \in S[n] /\ t.left[minKeyNode(t, n)] = NULL
           /\ \A x \in S[n] : x # minKeyNode(t, n) => pos[minKeyNode(t, n)] < pos[x]
<1> DEFINE least[m \in Keys] == IF t.left[m] = NULL THEN m ELSE least[t.left[m]]
<1>1. minKeyNode(t, n) = least[n]
  BY NoKey DEF minKeyNode
<1>2. \E h : IsLeftmost(h, t.left)
  BY LeftmostExists
<1>3. IsLeftmost(least, t.left)
  BY <1>2 DEF IsLeftmost
<1> HIDE DEF least
<1> QED
  BY <1>1, <1>3, Leftmost

LEMMA MaxKeyNodeIs ==
    ASSUME NEW t, NEW S, NEW pos, Nested(t.left, t.right, S, pos), NEW n \in Keys
    PROVE  /\ maxKeyNode(t, n) \in S[n] /\ t.right[maxKeyNode(t, n)] = NULL
           /\ \A x \in S[n] : x # maxKeyNode(t, n) => pos[x] < pos[maxKeyNode(t, n)]
<1> DEFINE greatest[m \in Keys] == IF t.right[m] = NULL THEN m ELSE greatest[t.right[m]]
<1>1. maxKeyNode(t, n) = greatest[n]
  BY NoKey DEF maxKeyNode
<1>2. PICK back : back = Mirrored(pos)
  OBVIOUS
<1>3. Nested(t.right, t.left, S, back)
  BY <1>2, Mirror
<1>4. \E h : IsLeftmost(h, t.right)
  BY <1>3, LeftmostExists
<1>5. IsLeftmost(greatest, t.right)
  BY <1>4 DEF IsLeftmost
<1> HIDE DEF greatest
<1>6. /\ greatest[n] \in S[n] /\ t.right[greatest[n]] = NULL
      /\ \A x \in S[n] : x # greatest[n] => back[greatest[n]] < back[x]
  BY <1>3, <1>5, Leftmost
<1>7. \A x, y \in S[n] : back[y] < back[x] => pos[x] < pos[y]
  BY <1>2, Sides DEF Mirrored, Nested
<1> QED
  BY <1>1, <1>6, <1>7

LEMMA BelowIs ==
    ASSUME NEW t, NEW S, NEW pos, Nested(t.left, t.right, S, pos)
    PROVE  \A n \in Pointers : Below(t, n) = S[n]
<1> DEFINE sub[m \in Pointers] ==
             IF m = NULL THEN {} ELSE {m} \cup sub[t.left[m]] \cup sub[t.right[m]]
           Solves(h) == h = [m \in Pointers |->
                              IF m = NULL THEN {} ELSE {m} \cup h[t.left[m]] \cup h[t.right[m]]]
<1>1. Solves(S)
  BY NoKey DEF Nested
<1>2. Solves(sub)
  BY <1>1
<1>3. \A n \in Pointers : Below(t, n) = sub[n]
  BY DEF Below
<1>4. \A n \in Pointers :
          sub[n] = IF n = NULL THEN {} ELSE {n} \cup sub[t.left[n]] \cup sub[t.right[n]]
  BY <1>2
<1> HIDE DEF sub, Solves
<1> DEFINE P == {n \in Keys : sub[n] = S[n]}
<1>5. sub[NULL] = {} /\ S[NULL] = {}
  BY <1>4, NoKey DEF Nested
<1>6. ASSUME NEW n \in Keys,
             \A x \in Keys : x \in S[t.left[n]] \/ x \in S[t.right[n]] => x \in P
      PROVE  n \in P
  <2>1. ASSUME NEW c \in {t.left[n], t.right[n]}
        PROVE  sub[c] = S[c]
    <3>1. CASE c = NULL
      BY <1>5, <3>1
    <3>2. CASE c # NULL
      <4>1. c \in Keys /\ (c \in S[t.left[n]] \/ c \in S[t.right[n]])
        BY <3>2, Sides
      <4> QED
        BY <1>6, <4>1
    <3> QED
      BY <3>1, <3>2
  <2>2. sub[n] = {n} \cup sub[t.left[n]] \cup sub[t.right[n]]
    BY <1>4, NoKey
  <2>3. S[n] = {n} \cup S[t.left[n]] \cup S[t.right[n]]
    BY DEF Nested
  <2> QED
    BY <2>1, <2>2, <2>3
<1> HIDE DEF P
<1>7. Keys \subseteq P
  BY <1>6, FromBelow
<1> QED
  BY <1>3, <1>5, <1>7, NoKey DEF P

-----------------------------------------------------------------------------
(* Rotations *)

\* y goes down to its right, and its left child x comes up in its place.
Rotated(l, r, p, l1, r1, p1, y) ==
    /\ l1 \in [Keys -> Pointers] /\ r1 \in [Keys -> Pointers] /\ p1 \in [Keys -> Pointers]
    /\ \A k \in Keys :
         /\ l1[k] = IF k = y THEN r[l[y]] ELSE IF k = p[y] /\ l[k] = y THEN l[y] ELSE l[k]
         /\ r1[k] = IF k = l[y] THEN y ELSE IF k = p[y] /\ r[k] = y THEN l[y] ELSE r[k]
         /\ p1[k] = IF k = l[y] THEN p[y] ELSE IF k = y THEN l[y]
                    ELSE IF k = r[l[y]] THEN y ELSE p[k]

BelowRotated(l, r, S, y) ==
    [n \in Pointers |-> IF n = l[y] THEN S[y]
                        ELSE IF n = y THEN {y} \cup S[r[l[y]]] \cup S[r[y]] ELSE S[n]]

LEMMA RotatedNested ==
    ASSUME NEW l, NEW r, NEW p, NEW S, NEW pos, Nested(l, r, S, pos), Linked(l, r, p),
           NEW l1, NEW r1, NEW p1, NEW y \in Keys, l[y] # NULL,
           Rotated(l, r, p, l1, r1, p1, y)
    PROVE  Nested(l1, r1, BelowRotated(l, r, S, y), pos)
<1>1. PICK x : x = l[y]
  OBVIOUS
<1>2. PICK T \in [Pointers -> SUBSET Keys] :
          /\ T = BelowRotated(l, r, S, y)
          /\ T[x] = S[y] /\ T[y] = {y} \cup S[r[x]] \cup S[r[y]]
          /\ \A n \in Pointers : n # x /\ n # y => T[n] = S[n]
  <2>1. x \in Keys /\ x # y /\ r[x] \in Pointers /\ r[y] \in Pointers
    BY <1>1, Sides
  <2>2. \A n \in Pointers : S[n] \subseteq Keys
    BY DEF Nested
  <2>3. BelowRotated(l, r, S, y) \in [Pointers -> SUBSET Keys]
    BY <1>1, <2>1, <2>2, NoKey DEF BelowRotated
  <2>4. BelowRotated(l, r, S, y)[x] = S[y]
    BY <1>1, <2>1, NoKey DEF BelowRotated
  <2>5. BelowRotated(l, r, S, y)[y] = {y} \cup S[r[x]] \cup S[r[y]]
    BY <1>1, <2>1, NoKey DEF BelowRotated
  <2>6. \A n \in Pointers : n # x /\ n # y => BelowRotated(l, r, S, y)[n] = S[n]
    BY <1>1, <2>1, NoKey DEF BelowRotated
  <2> QED
    BY <2>3, <2>4, <2>5, <2>6
<1>3. /\ x \in Keys /\ x # y /\ x # r[y] /\ r[x] \in Pointers /\ r[y] \in Pointers
      /\ x \in S[x] /\ y \notin S[x] /\ x \notin S[r[x]] /\ y \notin S[r[y]] /\ x \notin S[r[y]]
      /\ y \notin S[r[x]] /\ x \notin S[l[x]] /\ y \notin S[l[x]] /\ l[x] \in Pointers
      /\ S[x] = {x} \cup S[l[x]] \cup S[r[x]] /\ S[y] = {y} \cup S[x] \cup S[r[y]]
      /\ r[x] # x /\ r[x] # y /\ r[y] # y /\ l[x] # x /\ l[x] # y
  <2>1. x \in Keys /\ x # y /\ x # r[y] /\ r[y] \in Pointers /\ y \notin S[x] /\ y \notin S[r[y]]
        /\ S[x] \cap S[r[y]] = {} /\ r[y] # y
    BY <1>1, NoKey, Sides
  <2>2. /\ r[x] \in Pointers /\ l[x] \in Pointers /\ x \in S[x] /\ x \notin S[r[x]] /\ x \notin S[l[x]]
        /\ S[r[x]] \subseteq S[x] /\ S[l[x]] \subseteq S[x] /\ r[x] # x /\ l[x] # x
    BY <2>1, NoKey, Sides
  <2>3. S[x] = {x} \cup S[l[x]] \cup S[r[x]] /\ S[y] = {y} \cup S[x] \cup S[r[y]]
    BY <1>1, <2>1 DEF Nested
  <2>4. r[x] # y /\ l[x] # y
    BY <2>1, <2>2, NoKey, Sides
  <2> QED
    BY <2>1, <2>2, <2>3, <2>4
<1>4. /\ l1[y] = r[x] /\ r1[x] = y
      /\ r1[y] = r[y] /\ l1[x] = l[x]
      /\ \A k \in Keys : k # y /\ k # x =>
             /\ l1[k] = IF l[k] = y THEN x ELSE l[k]
             /\ r1[k] = IF r[k] = y THEN x ELSE r[k]
  <2>1. p[y] # y /\ p[y] # x
    <3>1. p[y] # NULL => y \in S[p[y]] /\ p[y] # y
      BY AtParent, Sides
    <3> QED
      BY <1>3, <3>1, NoKey
  <2>2. \A k \in Keys : (l[k] = y \/ r[k] = y) => k = p[y]
    BY NoKey DEF Linked
  <2> QED
    BY <1>1, <1>3, <2>1, <2>2 DEF Rotated
<1>5. \A n, z \in Keys : pos[n] \in Int /\ pos[z] \in Int
  BY DEF Nested
<1>6. \A n \in Keys : (\A z \in S[l[n]] : pos[z] < pos[n]) /\ (\A z \in S[r[n]] : pos[n] < pos[z])
  BY DEF Nested
<1>7. ASSUME NEW n \in Keys
      PROVE  /\ T[n] = {n} \cup T[l1[n]] \cup T[r1[n]]
             /\ \A z \in T[l1[n]] : pos[z] < pos[n]
             /\ \A z \in T[r1[n]] : pos[n] < pos[z]
  <2>1. CASE n = y
    <3>1. T[l1[y]] = S[r[x]] /\ T[r1[y]] = S[r[y]]
      BY <1>2, <1>3, <1>4
    <3>2. \A z \in S[r[x]] : pos[z] < pos[y]
      BY <1>1, <1>3, <1>6
    <3> QED
      BY <1>2, <1>6, <2>1, <3>1, <3>2
  <2>2. CASE n = x
    <3>1. T[l1[x]] = S[l[x]] /\ T[r1[x]] = {y} \cup S[r[x]] \cup S[r[y]]
      BY <1>2, <1>3, <1>4
    <3>2. T[x] = {x} \cup T[l1[x]] \cup T[r1[x]]
      BY <1>2, <1>3, <3>1
    <3>3. pos[x] < pos[y]
      BY <1>1, <1>3, <1>6
    <3>4. ASSUME NEW z \in S[r[y]] PROVE pos[x] < pos[z]
      <4>1. pos[y] < pos[z] /\ z \in Keys
        BY <1>6, Sides
      <4> QED
        BY <1>3, <1>5, <3>3, <4>1
    <3> QED
      BY <1>3, <1>6, <2>2, <3>1, <3>2, <3>3, <3>4
  <2>3. CASE n # x /\ n # y
    <3>1. ASSUME NEW c \in {l[n], r[n]}
          PROVE  T[IF c = y THEN x ELSE c] = S[c]
      <4>1. c \in Pointers /\ c # x
        <5>1. c = x => n = y
          BY <1>1, <1>3, NoKey DEF Linked
        <5> QED
          BY <2>3, <5>1, Sides
      <4> QED
        BY <1>2, <4>1
    <3>2. T[l1[n]] = S[l[n]] /\ T[r1[n]] = S[r[n]]
      BY <1>4, <2>3, <3>1
    <3>3. T[n] = S[n] /\ S[n] = {n} \cup S[l[n]] \cup S[r[n]]
      BY <1>2, <2>3, NoKey DEF Nested
    <3> QED
      BY <1>6, <3>2, <3>3
  <2> QED
    BY <2>1, <2>2, <2>3
<1>8. T[NULL] = {}
  BY <1>2, <1>3, NoKey DEF Nested
<1>9. Nested(l1, r1, T, pos)
  BY <1>7, <1>8 DEF Nested, Rotated
<1> QED
  BY <1>2, <1>9

LEMMA RotatedLinked ==
    ASSUME NEW l, NEW r, NEW p, NEW S, NEW pos, Nested(l, r, S, pos), Linked(l, r, p),
           NEW l1, NEW r1, NEW p1, NEW y \in Keys, l[y] # NULL,
           Rotated(l, r, p, l1, r1, p1, y)
    PROVE  /\ Linked(l1, r1, p1) /\ p1[l[y]] = p[y] /\ p1[y] = l[y]
           /\ \A n \in Keys : p[n] = NULL /\ n # y => p1[n] = NULL
<1>1. PICK x : x = l[y]
  OBVIOUS
<1>2. /\ x \in Keys /\ x # y /\ x # r[y] /\ r[x] \in Pointers /\ r[y] \in Pointers
      /\ p[x] = y /\ r[x] # x /\ r[x] # y /\ l[x] # x /\ l[x] # y /\ l[x] \in Pointers
      /\ r[y] # y
  <2>1. x \in Keys /\ x # y /\ x # r[y] /\ r[y] \in Pointers /\ p[x] = y
        /\ y \notin S[x] /\ r[y] # y
    BY <1>1, NoKey, Sides DEF Linked
  <2>2. r[x] \in Pointers /\ l[x] \in Pointers /\ r[x] # x /\ l[x] # x
        /\ S[r[x]] \subseteq S[x] /\ S[l[x]] \subseteq S[x]
    BY <2>1, NoKey, Sides
  <2>3. r[x] # y /\ l[x] # y
    BY <2>1, <2>2, NoKey, Sides
  <2> QED
    BY <2>1, <2>2, <2>3
<1>3. /\ p[y] # y /\ p[y] # x /\ p[y] \in Pointers
      /\ p[y] # NULL => p[y] \in Keys /\ ((l[p[y]] = y /\ r[p[y]] # y) \/ (r[p[y]] = y /\ l[p[y]] # y))
  <2>1. p[y] # NULL => /\ y \in S[p[y]] /\ p[y] # y /\ p[y] \in Keys
                       /\ ((l[p[y]] = y /\ r[p[y]] # y) \/ (r[p[y]] = y /\ l[p[y]] # y))
    BY AtParent, Sides
  <2>2. y \notin S[x]
    BY <1>1, Sides
  <2> QED
    BY <1>2, <2>1, <2>2, NoKey DEF Linked
<1>4. \A k \in Keys : /\ l[k] # NULL => l[k] \in Keys /\ p[l[k]] = k
                      /\ r[k] # NULL => r[k] \in Keys /\ p[r[k]] = k
                      /\ p[k] # NULL => p[k] \in Keys /\ (l[p[k]] = k \/ r[p[k]] = k)
                      /\ l[k] # NULL => l[k] # r[k]
  BY NoKey, Sides DEF Linked
<1>5. \A k \in Keys :
         /\ l1[k] = IF k = y THEN r[x] ELSE IF k = p[y] /\ l[k] = y THEN x ELSE l[k]
         /\ r1[k] = IF k = x THEN y ELSE IF k = p[y] /\ r[k] = y THEN x ELSE r[k]
         /\ p1[k] = IF k = x THEN p[y] ELSE IF k = y THEN x ELSE IF k = r[x] THEN y ELSE p[k]
  BY <1>1 DEF Rotated
<1>6. ASSUME NEW n \in Keys
      PROVE  l1[n] # NULL => p1[l1[n]] = n
  <2>1. CASE n = y
    BY <1>2, <1>4, <1>5, <2>1
  <2>2. CASE n = p[y] /\ l[n] = y /\ n # y
    BY <1>2, <1>5, <2>2
  <2>3. CASE n # y /\ ~(n = p[y] /\ l[n] = y)
    <3>1. l1[n] = l[n]
      BY <1>5, <2>3
    <3>2. l[n] # NULL => l[n] \in Keys /\ p[l[n]] = n /\ l[n] # x /\ l[n] # y
      BY <1>2, <1>4, <2>3
    <3>3. l[n] # NULL => l[n] # r[x]
      BY <1>2, <1>4, <3>2
    <3> QED
      BY <1>5, <3>1, <3>2, <3>3
  <2> QED
    BY <2>1, <2>2, <2>3
<1>7. ASSUME NEW n \in Keys
      PROVE  r1[n] # NULL => p1[r1[n]] = n
  <2>1. CASE n = x
    BY <1>2, <1>4, <1>5, <2>1
  <2>2. CASE n = p[y] /\ r[n] = y /\ n # x
    BY <1>2, <1>5, <2>2
  <2>3. CASE n # x /\ ~(n = p[y] /\ r[n] = y)
    <3>1. r1[n] = r[n]
      BY <1>5, <2>3
    <3>2. r[n] # NULL => r[n] \in Keys /\ p[r[n]] = n /\ r[n] # x /\ r[n] # y /\ r[n] # r[x]
      BY <1>2, <1>4, <2>3
    <3> QED
      BY <1>5, <3>1, <3>2
  <2> QED
    BY <2>1, <2>2, <2>3
<1>8. ASSUME NEW n \in Keys
      PROVE  p1[n] # NULL => l1[p1[n]] = n \/ r1[p1[n]] = n
  <2>1. CASE n = x
    BY <1>2, <1>3, <1>5, <2>1
  <2>2. CASE n = y
    BY <1>2, <1>5, <2>2
  <2>3. CASE n = r[x] /\ n # x /\ n # y
    BY <1>2, <1>5, <2>3
  <2>4. CASE n # x /\ n # y /\ n # r[x]
    <3>1. p1[n] = p[n]
      BY <1>5, <2>4
    <3>2. p[n] # NULL => p[n] \in Keys /\ (l[p[n]] = n \/ r[p[n]] = n)
      BY <1>4
    <3>3. CASE p[n] = y
      BY <1>1, <1>2, <1>3, <1>5, <2>4, <3>1, <3>2, <3>3
    <3>4. CASE p[n] = x
      BY <1>2, <1>3, <1>5, <2>4, <3>1, <3>2, <3>4
    <3>5. CASE p[n] # y /\ p[n] # x
      BY <1>5, <2>4, <3>1, <3>2, <3>5
    <3> QED
      BY <3>3, <3>4, <3>5
  <2> QED
    BY <2>1, <2>2, <2>3, <2>4
<1>9. Linked(l1, r1, p1)
  BY <1>6, <1>7, <1>8 DEF Linked, Rotated
<1>10. \A n \in Keys : p[n] = NULL /\ n # y => p1[n] = NULL
  BY <1>2, <1>4, <1>5, NoKey
<1> QED
  BY <1>1, <1>2, <1>5, <1>9, <1>10

-----------------------------------------------------------------------------
(* The operators on trees *)

\* Two trees with the same root, pointers and flags; the depths may differ.
SamePointers(u, t) ==
    /\ u.root = t.root /\ u.left = t.left /\ u.right = t.right /\ u.parent = t.parent
    /\ u.fault = t.fault /\ u.misjudged = t.misjudged

LEMMA DepthIs ==
    ASSUME NEW t \in Trees, NEW n \in Pointers
    PROVE  depth(t, n) \in Nat
  BY NoKey DEF depth, Trees

LEMMA LargerIs ==
    ASSUME NEW a \in Nat, NEW b \in Nat
    PROVE  Larger(a, b) \in Nat /\ Larger(a, b) >= a /\ Larger(a, b) >= b /\ Larger(a, b) \in {a, b}
  BY DEF Larger

LEMMA MeasureIs ==
    ASSUME NEW t \in Trees, NEW n \in Keys
    PROVE  /\ Measure(t, n) \in Trees /\ SamePointers(Measure(t, n), t)
           /\ Measure(t, n).depth =
                [t.depth EXCEPT ![n] = 1 + Larger(depth(t, t.left[n]), depth(t, t.right[n]))]
<1>1. t.left[n] \in Pointers /\ t.right[n] \in Pointers
  BY DEF Trees
<1>2. 1 + Larger(depth(t, t.left[n]), depth(t, t.right[n])) \in Nat
  <2>1. PICK a, b \in Nat : a = depth(t, t.left[n]) /\ b = depth(t, t.right[n])
    BY <1>1, DepthIs
  <2>2. Larger(a, b) \in Nat
    BY LargerIs
  <2> QED
    BY <2>1, <2>2
<1> QED
  BY <1>2 DEF Measure, Trees, SamePointers

\* In u, n has got the parent q.
Reparented(u, t, n, q) ==
    /\ u \in Trees /\ u.root = t.root /\ u.left = t.left /\ u.right = t.right
    /\ u.depth = t.depth /\ u.fault = t.fault /\ u.misjudged = t.misjudged
    /\ \A k \in Keys : u.parent[k] = IF k = n THEN q ELSE t.parent[k]

LEMMA SetParentIs ==
    ASSUME NEW t \in Trees, NEW n \in Pointers, NEW q \in Pointers
    PROVE  Reparented(SetParent(t, n, q), t, n, q)
<1>1. CASE n = NULL
  <2>1. SetParent(t, n, q) = t
    BY <1>1 DEF SetParent
  <2>2. Reparented(t, t, n, q)
    BY <1>1, NoKey DEF Reparented
  <2> QED
    BY <2>1, <2>2
<1>2. CASE n # NULL
  <2>1. n \in Keys
    BY <1>2, NoKey
  <2>2. SetParent(t, n, q) = [t EXCEPT !.parent = [t.parent EXCEPT ![n] = q]]
    BY <1>2, Zenon DEF SetParent
  <2>3. Reparented([t EXCEPT !.parent = [t.parent EXCEPT ![n] = q]], t, n, q)
    BY <2>1 DEF Trees, Reparented
  <2> QED
    BY <2>2, <2>3, Zenon
<1> QED
  BY <1>1, <1>2

LEMMA PutChildIs ==
    ASSUME NEW t \in Trees, NEW n \in Pointers, NEW p \in Pointers, NEW side,
           side \in {"left", "right"} => p \in Keys
    PROVE  /\ PutChild(t, side, p, n) \in Trees
           /\ PutChild(t, side, p, n).parent = t.parent /\ PutChild(t, side, p, n).depth = t.depth
           /\ PutChild(t, side, p, n).fault = t.fault
           /\ PutChild(t, side, p, n).misjudged = t.misjudged
           /\ PutChild(t, side, p, n).root = IF side \in {"left", "right"} THEN t.root ELSE n
           /\ \A k \in Keys :
                /\ PutChild(t, side, p, n).left[k] =
                     IF side = "left" /\ k = p THEN n ELSE t.left[k]
                /\ PutChild(t, side, p, n).right[k] =
                     IF side = "right" /\ k = p THEN n ELSE t.right[k]
<1>1. CASE side = "left"
  BY <1>1 DEF PutChild, Trees
<1>2. CASE side = "right"
  BY <1>2 DEF PutChild, Trees
<1>3. CASE side \notin {"left", "right"}
  BY <1>3 DEF PutChild, Trees
<1> QED
  BY <1>1, <1>2, <1>3

\* Where a node hangs.
LEMMA PositionIs ==
    ASSUME NEW t \in Trees, NEW S, NEW pos, Nested(t.left, t.right, S, pos),
           Linked(t.left, t.right, t.parent), NEW n \in Keys
    PROVE  /\ getPosition(t, n) \in {"left", "right", "root"}
           /\ getPosition(t, n) = "root" <=> t.parent[n] = NULL
           /\ getPosition(t, n) = "left" <=> t.parent[n] # NULL /\ t.left[t.parent[n]] = n
           /\ getPosition(t, n) = "right" <=> t.parent[n] # NULL /\ t.right[t.parent[n]] = n
<1>1. CASE t.parent[n] = NULL
  BY <1>1 DEF getPosition
<1>2. CASE t.parent[n] # NULL
  <2>1. \/ t.left[t.parent[n]] = n /\ t.right[t.parent[n]] # n
        \/ t.right[t.parent[n]] = n /\ t.left[t.parent[n]] # n
    BY <1>2, AtParent
  <2> QED
    BY <1>2, <2>1 DEF getPosition
<1> QED
  BY <1>1, <1>2

\* A tree whose nodes are nested and linked, from its root.
Shaped(t, S, pos) ==
    /\ t \in Trees
    /\ Nested(t.left, t.right, S, pos)
    /\ Linked(t.left, t.right, t.parent)
    /\ t.root # NULL => t.parent[t.root] = NULL

LEMMA RotateRightIs ==
    ASSUME NEW t, NEW S, NEW pos, Shaped(t, S, pos), NEW y \in Keys, t.left[y] # NULL,
           t.parent[y] = NULL => y = t.root,
           NEW u, u = rotateRight(t, y)
    PROVE  /\ u \in Trees /\ u.fault = t.fault /\ u.misjudged = t.misjudged
           /\ Rotated(t.left, t.right, t.parent, u.left, u.right, u.parent, y)
           /\ u.root = IF t.parent[y] = NULL THEN t.left[y] ELSE t.root
           /\ u.depth[y] = 1 + Larger(depth(t, t.right[t.left[y]]), depth(t, t.right[y]))
           /\ u.depth[t.left[y]] = 1 + Larger(depth(t, t.left[t.left[y]]), u.depth[y])
           /\ \A k \in Keys : k # y /\ k # t.left[y] => u.depth[k] = t.depth[k]
<1> DEFINE x == t.left[y]
           T2 == t.right[x]
           t1 == [t EXCEPT !.right[x] = y, !.left[y] = T2]
           t2 == Measure(t1, y)
           t3 == Measure(t2, x)
           t4 == [t3 EXCEPT !.parent[x] = t.parent[y], !.parent[y] = x]
           t5 == SetParent(t4, T2, y)
<1>1. u = PutChild(t5, getPosition(t, y), t.parent[y], x)
  BY DEF rotateRight
<1>2. /\ t \in Trees /\ t.left \in [Keys -> Pointers] /\ t.right \in [Keys -> Pointers]
      /\ t.parent \in [Keys -> Pointers] /\ t.depth \in [Keys -> Nat]
  BY DEF Shaped, Trees
<1>3. /\ x \in Keys /\ x # y /\ x \in Pointers /\ y \in Pointers /\ T2 \in Pointers /\ T2 # x /\ T2 # y
      /\ t.left[x] \in Pointers /\ t.left[x] # x /\ t.left[x] # y
      /\ t.right[y] \in Pointers /\ t.right[y] # x /\ t.right[y] # y
  <2>1. x \in Keys /\ x # y /\ y \notin S[x] /\ x # t.right[y] /\ t.right[y] # y /\ t.right[y] \in Pointers
    BY NoKey, Sides DEF Shaped
  <2>2. /\ T2 \in Pointers /\ T2 # x /\ t.left[x] \in Pointers /\ t.left[x] # x
        /\ S[T2] \subseteq S[x] /\ S[t.left[x]] \subseteq S[x]
    BY <2>1, NoKey, Sides DEF Shaped
  <2>3. T2 # y /\ t.left[x] # y
    BY <2>1, <2>2, NoKey, Sides DEF Shaped
  <2> QED
    BY <2>1, <2>2, <2>3, NoKey
<1>4. /\ t1 \in Trees /\ t1.root = t.root /\ t1.parent = t.parent /\ t1.depth = t.depth
      /\ t1.fault = t.fault /\ t1.misjudged = t.misjudged
      /\ \A k \in Keys : /\ t1.left[k] = IF k = y THEN T2 ELSE t.left[k]
                         /\ t1.right[k] = IF k = x THEN y ELSE t.right[k]
  <2> HIDE DEF x, T2
  <2> QED
    BY <1>2, <1>3 DEF Trees
<1> HIDE DEF t1
<1>5. /\ t2 \in Trees /\ SamePointers(t2, t1)
      /\ t2.depth[y] = 1 + Larger(depth(t, T2), depth(t, t.right[y]))
      /\ \A k \in Keys : k # y => t2.depth[k] = t.depth[k]
  <2>1. /\ t2 \in Trees /\ SamePointers(t2, t1)
        /\ t2.depth = [t1.depth EXCEPT ![y] = 1 + Larger(depth(t1, t1.left[y]), depth(t1, t1.right[y]))]
    BY <1>4, MeasureIs
  <2>2. t1.left[y] = T2 /\ t1.right[y] = t.right[y]
    BY <1>3, <1>4
  <2>3. \A n \in Pointers : depth(t1, n) = depth(t, n)
    BY <1>4 DEF depth
  <2> HIDE DEF t2, x, T2
  <2> QED
    BY <1>2, <1>3, <1>4, <2>1, <2>2, <2>3
<1>6. /\ t3 \in Trees /\ SamePointers(t3, t1)
      /\ t3.depth[x] = 1 + Larger(depth(t, t.left[x]), t2.depth[y])
      /\ \A k \in Keys : k # x => t3.depth[k] = t2.depth[k]
  <2>1. /\ t3 \in Trees /\ SamePointers(t3, t2)
        /\ t3.depth = [t2.depth EXCEPT ![x] = 1 + Larger(depth(t2, t2.left[x]), depth(t2, t2.right[x]))]
    BY <1>3, <1>5, MeasureIs
  <2>2. t2.left[x] = t.left[x] /\ t2.right[x] = y
    BY <1>3, <1>4, <1>5 DEF SamePointers
  <2>3. depth(t2, t.left[x]) = depth(t, t.left[x]) /\ depth(t2, y) = t2.depth[y]
    BY <1>3, <1>5, NoKey DEF depth
  <2>4. t2.depth \in [Keys -> Nat]
    BY <1>5 DEF Trees
  <2> HIDE DEF t2, t3, x, T2
  <2> QED
    BY <1>3, <1>5, <2>1, <2>2, <2>3, <2>4 DEF SamePointers
<1> HIDE DEF t2, t3
<1>7. /\ t4 \in Trees /\ t4.root = t.root /\ t4.left = t1.left /\ t4.right = t1.right
      /\ t4.depth = t3.depth /\ t4.fault = t.fault /\ t4.misjudged = t.misjudged
      /\ \A k \in Keys : t4.parent[k] = IF k = y THEN x ELSE IF k = x THEN t.parent[y] ELSE t.parent[k]
  <2>1. t3.parent = t.parent /\ t3.root = t.root /\ t3.left = t1.left /\ t3.right = t1.right
        /\ t3.fault = t.fault /\ t3.misjudged = t.misjudged
    BY <1>4, <1>6 DEF SamePointers
  <2> HIDE DEF x, T2
  <2> QED
    BY <1>2, <1>3, <1>6, <2>1 DEF Trees
<1> HIDE DEF t4
<1>8. /\ t5 \in Trees /\ t5.root = t.root /\ t5.left = t1.left /\ t5.right = t1.right
      /\ t5.depth = t3.depth /\ t5.fault = t.fault /\ t5.misjudged = t.misjudged
      /\ \A k \in Keys : t5.parent[k] = IF k = T2 THEN y ELSE t4.parent[k]
  <2> HIDE DEF t5, T2
  <2>1. t5 = SetParent(t4, T2, y)
    BY DEF t5
  <2>2. T2 \in Pointers /\ t4 \in Trees /\ y \in Pointers
    BY <1>3, <1>7
  <2>3. Reparented(SetParent(t4, T2, y), t4, T2, y)
    BY <2>2, SetParentIs
  <2>4. Reparented(t5, t4, T2, y)
    BY <2>1, <2>3
  <2> QED
    BY <1>7, <2>4 DEF Reparented
<1> HIDE DEF t5
<1>9. t.parent[y] \in Pointers /\ (getPosition(t, y) \in {"left", "right"} => t.parent[y] \in Keys)
  BY <1>2, NoKey, PositionIs DEF Shaped
<1>10. /\ u \in Trees /\ u.parent = t5.parent /\ u.depth = t5.depth
       /\ u.fault = t5.fault /\ u.misjudged = t5.misjudged
       /\ u.root = IF getPosition(t, y) \in {"left", "right"} THEN t5.root ELSE x
       /\ \A k \in Keys :
            /\ u.left[k] = IF getPosition(t, y) = "left" /\ k = t.parent[y] THEN x ELSE t5.left[k]
            /\ u.right[k] = IF getPosition(t, y) = "right" /\ k = t.parent[y] THEN x ELSE t5.right[k]
  BY <1>1, <1>3, <1>8, <1>9, PutChildIs
<1>11. /\ getPosition(t, y) \in {"left", "right", "root"}
       /\ getPosition(t, y) = "root" <=> t.parent[y] = NULL
       /\ getPosition(t, y) = "left" <=> t.parent[y] # NULL /\ t.left[t.parent[y]] = y
       /\ getPosition(t, y) = "right" <=> t.parent[y] # NULL /\ t.right[t.parent[y]] = y
  BY PositionIs DEF Shaped
<1>12. t.parent[y] # y /\ t.parent[y] # x
  <2>1. y \notin S[x]
    BY Sides DEF Shaped
  <2>2. t.parent[y] # NULL => t.parent[y] # y /\ y \in S[t.parent[y]]
    BY AtParent, Sides DEF Shaped
  <2> QED
    BY <2>1, <2>2, NoKey, <1>3
<1>13. ASSUME NEW k \in Keys
       PROVE  /\ u.left[k] = IF k = y THEN T2 ELSE IF k = t.parent[y] /\ t.left[k] = y THEN x ELSE t.left[k]
              /\ u.right[k] = IF k = x THEN y ELSE IF k = t.parent[y] /\ t.right[k] = y THEN x ELSE t.right[k]
              /\ u.parent[k] = IF k = x THEN t.parent[y] ELSE IF k = y THEN x
                               ELSE IF k = T2 THEN y ELSE t.parent[k]
  <2> HIDE DEF x, T2
  <2>1. k = t.parent[y] => t.parent[y] # NULL
    BY NoKey
  <2> QED
    BY <1>3, <1>4, <1>7, <1>8, <1>10, <1>11, <1>12, <2>1
<1>14. Rotated(t.left, t.right, t.parent, u.left, u.right, u.parent, y)
  BY <1>10, <1>13 DEF Rotated, Trees
<1>15. u.depth[y] = t2.depth[y] /\ u.depth[x] = t3.depth[x]
       /\ \A k \in Keys : k # y /\ k # x => u.depth[k] = t.depth[k]
  BY <1>3, <1>5, <1>6, <1>8, <1>10
<1> QED
  BY <1>5, <1>6, <1>8, <1>10, <1>11, <1>14, <1>15

\* The mirror image, but for the order in which the two nodes are measured.
LEMMA RotateLeftIs ==
    ASSUME NEW t, NEW S, NEW pos, Shaped(t, S, pos), NEW x \in Keys, t.right[x] # NULL,
           t.parent[x] = NULL => x = t.root,
           NEW u, u = rotateLeft(t, x)
    PROVE  /\ u \in Trees /\ u.fault = t.fault /\ u.misjudged = t.misjudged
           /\ Rotated(t.right, t.left, t.parent, u.right, u.left, u.parent, x)
           /\ u.root = IF t.parent[x] = NULL THEN t.right[x] ELSE t.root
           /\ u.depth[x] = 1 + Larger(depth(t, t.left[x]), depth(t, t.left[t.right[x]]))
           /\ \A k \in Keys : k # x /\ k # t.right[x] => u.depth[k] = t.depth[k]
<1> DEFINE y == t.right[x]
           T2 == t.left[y]
           t1 == [t EXCEPT !.left[y] = x, !.right[x] = T2]
           t2 == Measure(t1, y)
           t3 == Measure(t2, x)
           t4 == [t3 EXCEPT !.parent[y] = t.parent[x], !.parent[x] = y]
           t5 == SetParent(t4, T2, x)
<1>1. u = PutChild(t5, getPosition(t, x), t.parent[x], y)
  BY DEF rotateLeft
<1>2. /\ t \in Trees /\ t.left \in [Keys -> Pointers] /\ t.right \in [Keys -> Pointers]
      /\ t.parent \in [Keys -> Pointers] /\ t.depth \in [Keys -> Nat]
  BY DEF Shaped, Trees
<1>3. /\ y \in Keys /\ y # x /\ y \in Pointers /\ x \in Pointers /\ T2 \in Pointers /\ T2 # x /\ T2 # y
      /\ t.left[x] \in Pointers /\ t.left[x] # x /\ t.left[x] # y
  <2>1. y \in Keys /\ y # x /\ x \notin S[y] /\ y # t.left[x] /\ t.left[x] # x /\ t.left[x] \in Pointers
    BY NoKey, Sides DEF Shaped
  <2>2. T2 \in Pointers /\ T2 # y /\ S[T2] \subseteq S[y]
    BY <2>1, NoKey, Sides DEF Shaped
  <2>3. T2 # x
    BY <2>1, <2>2, NoKey, Sides DEF Shaped
  <2> QED
    BY <2>1, <2>2, <2>3, NoKey
<1>4. /\ t1 \in Trees /\ t1.root = t.root /\ t1.parent = t.parent /\ t1.depth = t.depth
      /\ t1.fault = t.fault /\ t1.misjudged = t.misjudged
      /\ \A k \in Keys : /\ t1.right[k] = IF k = x THEN T2 ELSE t.right[k]
                         /\ t1.left[k] = IF k = y THEN x ELSE t.left[k]
  <2> HIDE DEF y, T2
  <2> QED
    BY <1>2, <1>3 DEF Trees
<1> HIDE DEF t1
<1>5. /\ t2 \in Trees /\ SamePointers(t2, t1)
      /\ \A k \in Keys : k # y => t2.depth[k] = t.depth[k]
  <2>1. /\ t2 \in Trees /\ SamePointers(t2, t1)
        /\ t2.depth = [t1.depth EXCEPT ![y] = 1 + Larger(depth(t1, t1.left[y]), depth(t1, t1.right[y]))]
    BY <1>3, <1>4, MeasureIs
  <2> HIDE DEF t2, y, T2
  <2> QED
    BY <1>2, <1>3, <1>4, <2>1
<1>6. /\ t3 \in Trees /\ SamePointers(t3, t1)
      /\ t3.depth[x] = 1 + Larger(depth(t, t.left[x]), depth(t, T2))
      /\ \A k \in Keys : k # x => t3.depth[k] = t2.depth[k]
  <2>1. /\ t3 \in Trees /\ SamePointers(t3, t2)
        /\ t3.depth = [t2.depth EXCEPT ![x] = 1 + Larger(depth(t2, t2.left[x]), depth(t2, t2.right[x]))]
    BY <1>3, <1>5, MeasureIs
  <2>2. t2.left[x] = t.left[x] /\ t2.right[x] = T2
    BY <1>3, <1>4, <1>5 DEF SamePointers
  <2>3. depth(t2, t.left[x]) = depth(t, t.left[x]) /\ depth(t2, T2) = depth(t, T2)
    BY <1>3, <1>5, NoKey DEF depth
  <2>4. t2.depth \in [Keys -> Nat]
    BY <1>5 DEF Trees
  <2> HIDE DEF t2, t3, y, T2
  <2> QED
    BY <1>3, <1>5, <2>1, <2>2, <2>3, <2>4 DEF SamePointers
<1> HIDE DEF t2, t3
<1>7. /\ t4 \in Trees /\ t4.root = t.root /\ t4.left = t1.left /\ t4.right = t1.right
      /\ t4.depth = t3.depth /\ t4.fault = t.fault /\ t4.misjudged = t.misjudged
      /\ \A k \in Keys : t4.parent[k] = IF k = x THEN y ELSE IF k = y THEN t.parent[x] ELSE t.parent[k]
  <2>1. t3.parent = t.parent /\ t3.root = t.root /\ t3.left = t1.left /\ t3.right = t1.right
        /\ t3.fault = t.fault /\ t3.misjudged = t.misjudged
    BY <1>4, <1>6 DEF SamePointers
  <2> HIDE DEF y, T2
  <2> QED
    BY <1>2, <1>3, <1>6, <2>1 DEF Trees
<1> HIDE DEF t4
<1>8. /\ t5 \in Trees /\ t5.root = t.root /\ t5.left = t1.left /\ t5.right = t1.right
      /\ t5.depth = t3.depth /\ t5.fault = t.fault /\ t5.misjudged = t.misjudged
      /\ \A k \in Keys : t5.parent[k] = IF k = T2 THEN x ELSE t4.parent[k]
  <2> HIDE DEF t5, T2
  <2>1. t5 = SetParent(t4, T2, x)
    BY DEF t5
  <2>2. T2 \in Pointers /\ t4 \in Trees /\ x \in Pointers
    BY <1>3, <1>7
  <2>3. Reparented(SetParent(t4, T2, x), t4, T2, x)
    BY <2>2, SetParentIs
  <2>4. Reparented(t5, t4, T2, x)
    BY <2>1, <2>3
  <2> QED
    BY <1>7, <2>4 DEF Reparented
<1> HIDE DEF t5
<1>9. t.parent[x] \in Pointers /\ (getPosition(t, x) \in {"left", "right"} => t.parent[x] \in Keys)
  BY <1>2, NoKey, PositionIs DEF Shaped
<1>10. /\ u \in Trees /\ u.parent = t5.parent /\ u.depth = t5.depth
       /\ u.fault = t5.fault /\ u.misjudged = t5.misjudged
       /\ u.root = IF getPosition(t, x) \in {"left", "right"} THEN t5.root ELSE y
       /\ \A k \in Keys :
            /\ u.left[k] = IF getPosition(t, x) = "left" /\ k = t.parent[x] THEN y ELSE t5.left[k]
            /\ u.right[k] = IF getPosition(t, x) = "right" /\ k = t.parent[x] THEN y ELSE t5.right[k]
  BY <1>1, <1>3, <1>8, <1>9, PutChildIs
<1>11. /\ getPosition(t, x) \in {"left", "right", "root"}
       /\ getPosition(t, x) = "root" <=> t.parent[x] = NULL
       /\ getPosition(t, x) = "left" <=> t.parent[x] # NULL /\ t.left[t.parent[x]] = x
       /\ getPosition(t, x) = "right" <=> t.parent[x] # NULL /\ t.right[t.parent[x]] = x
  BY PositionIs DEF Shaped
<1>12. t.parent[x] # x /\ t.parent[x] # y
  <2>1. x \notin S[y]
    BY Sides DEF Shaped
  <2>2. t.parent[x] # NULL => t.parent[x] # x /\ x \in S[t.parent[x]]
    BY AtParent, Sides DEF Shaped
  <2> QED
    BY <2>1, <2>2, NoKey, <1>3
<1>13. ASSUME NEW k \in Keys
       PROVE  /\ u.right[k] = IF k = x THEN T2 ELSE IF k = t.parent[x] /\ t.right[k] = x THEN y ELSE t.right[k]
              /\ u.left[k] = IF k = y THEN x ELSE IF k = t.parent[x] /\ t.left[k] = x THEN y ELSE t.left[k]
              /\ u.parent[k] = IF k = y THEN t.parent[x] ELSE IF k = x THEN y
                               ELSE IF k = T2 THEN x ELSE t.parent[k]
  <2> HIDE DEF y, T2
  <2>1. k = t.parent[x] => t.parent[x] # NULL
    BY NoKey
  <2> QED
    BY <1>3, <1>4, <1>7, <1>8, <1>10, <1>11, <1>12, <2>1
<1>14. Rotated(t.right, t.left, t.parent, u.right, u.left, u.parent, x)
  BY <1>10, <1>13 DEF Rotated, Trees
<1>15. u.depth[x] = t3.depth[x] /\ \A k \in Keys : k # y /\ k # x => u.depth[k] = t.depth[k]
  BY <1>3, <1>5, <1>6, <1>8, <1>10
<1> QED
  BY <1>6, <1>8, <1>10, <1>11, <1>14, <1>15

-----------------------------------------------------------------------------
(* The loop "Balancing" *)

\* The nodes of C hang from the root, in the order pos.
TreeOf(t, C, pos) == \E S : Shaped(t, S, pos) /\ S[t.root] = C

\* The two trees differ in no node outside C.
SameOutside(t, u, C) ==
    \A k \in Keys \ C : /\ u.left[k] = t.left[k] /\ u.right[k] = t.right[k]
                        /\ u.parent[k] = t.parent[k] /\ u.depth[k] = t.depth[k]

LEMMA SameOutsideTwice ==
    ASSUME NEW t, NEW u, NEW v, NEW C, SameOutside(t, u, C), SameOutside(u, v, C)
    PROVE  SameOutside(t, v, C)
  BY DEF SameOutside

\* What the loop may do to the tree it is given.
Reshaped(t, u, C, pos) == TreeOf(u, C, pos) /\ SameOutside(t, u, C)

LEMMA InTree ==
    ASSUME NEW t, NEW S, NEW pos, Shaped(t, S, pos), NEW n \in S[t.root]
    PROVE  /\ n \in Keys /\ t.root \in Keys /\ t.root # NULL /\ t.root \in S[t.root]
           /\ S[n] \subseteq S[t.root] /\ S[t.root] \subseteq Keys
           /\ t.left[n] # NULL => t.left[n] \in S[t.root]
           /\ t.right[n] # NULL => t.right[n] \in S[t.root]
           /\ t.parent[n] # NULL => t.parent[n] \in S[t.root] /\ n # t.root
           /\ t.parent[n] = NULL => n = t.root
<1>1. t.root \in Pointers /\ S[NULL] = {} /\ S \in [Pointers -> SUBSET Keys]
  BY DEF Shaped, Trees, Nested
<1>2. t.root \in Keys /\ t.root # NULL /\ n \in Keys
  BY <1>1, NoKey
<1>3. t.root \in S[t.root] /\ S[n] \subseteq S[t.root] /\ S[t.root] \subseteq Keys
  BY <1>1, <1>2, Sides, Transitive DEF Shaped
<1>4. /\ t.left[n] # NULL => t.left[n] \in S[n]
      /\ t.right[n] # NULL => t.right[n] \in S[n]
  BY <1>2, Sides DEF Shaped
<1>5. n # t.root => t.parent[n] \in Keys /\ t.parent[n] \in S[t.root]
  BY <1>2, ParentsBelow DEF Shaped
<1>6. t.parent[t.root] = NULL
  BY <1>2 DEF Shaped
<1> QED
  BY <1>2, <1>3, <1>4, <1>5, <1>6, NoKey

LEMMA FlagsOnly ==
    ASSUME NEW t, NEW u, NEW C, NEW pos, TreeOf(t, C, pos), u \in Trees,
           u.root = t.root, u.left = t.left, u.right = t.right, u.parent = t.parent
    PROVE  TreeOf(u, C, pos)
  BY DEF TreeOf, Shaped

\* A root, and what hangs from it.
Rooted(l, r, p, S, pos, root) ==
    Nested(l, r, S, pos) /\ Linked(l, r, p) /\ root \in Keys /\ p[root] = NULL

LEMMA InRooted ==
    ASSUME NEW l, NEW r, NEW p, NEW S, NEW pos, NEW root, Rooted(l, r, p, S, pos, root),
           NEW n \in S[root]
    PROVE  /\ n \in Keys /\ S[n] \subseteq S[root]
           /\ l[n] # NULL => l[n] \in S[root]
           /\ r[n] # NULL => r[n] \in S[root]
           /\ p[n] # NULL => p[n] \in S[root] /\ n # root
           /\ p[n] = NULL => n = root
<1>1. n \in Keys
  BY Sides DEF Rooted
<1>2. S[n] \subseteq S[root]
  BY Transitive DEF Rooted
<1>3. (l[n] # NULL => l[n] \in S[n]) /\ (r[n] # NULL => r[n] \in S[n])
  BY <1>1, Sides DEF Rooted
<1>4. n # root => p[n] \in Keys /\ p[n] \in S[root]
  BY ParentsBelow DEF Rooted
<1> QED
  BY <1>1, <1>2, <1>3, <1>4, NoKey DEF Rooted

\* A rotation changes only nodes of the tree, and loses none.
LEMMA RotationShapes ==
    ASSUME NEW l, NEW r, NEW p, NEW S, NEW pos, NEW root, Rooted(l, r, p, S, pos, root),
           NEW y \in S[root], l[y] # NULL,
           NEW l1, NEW r1, NEW p1, Rotated(l, r, p, l1, r1, p1, y),
           NEW T, T = BelowRotated(l, r, S, y),
           NEW root1, root1 = IF p[y] = NULL THEN l[y] ELSE root
    PROVE  /\ Rooted(l1, r1, p1, T, pos, root1) /\ T[root1] = S[root]
           /\ l[y] \in S[root]
           /\ \A k \in Keys \ S[root] : l1[k] = l[k] /\ r1[k] = r[k] /\ p1[k] = p[k]
<1>1. PICK x : x = l[y]
  OBVIOUS
<1>2. /\ y \in Keys /\ root \in Keys /\ p[root] = NULL /\ Nested(l, r, S, pos) /\ Linked(l, r, p)
      /\ x \in Keys /\ x \in S[root] /\ x # y /\ p[x] = y
  <2>1. y \in Keys /\ Nested(l, r, S, pos) /\ Linked(l, r, p) /\ x \in S[root] /\ root \in Keys /\ p[root] = NULL
    BY <1>1, InRooted DEF Rooted
  <2>2. x \in Keys /\ x # y /\ p[x] = y
    BY <1>1, <2>1, Sides DEF Linked
  <2> QED
    BY <2>1, <2>2
<1>3. Nested(l1, r1, T, pos)
  BY <1>2, RotatedNested
<1>4. /\ Linked(l1, r1, p1) /\ p1[x] = p[y]
      /\ \A n \in Keys : p[n] = NULL /\ n # y => p1[n] = NULL
  BY <1>1, <1>2, RotatedLinked
<1>5. T[x] = S[y] /\ \A n \in Keys : n # x /\ n # y => T[n] = S[n]
  BY <1>1, <1>2, NoKey DEF BelowRotated
<1>6. Rooted(l1, r1, p1, T, pos, root1) /\ T[root1] = S[root]
  <2>1. CASE p[y] = NULL
    <3>1. y = root /\ root1 = x
      BY <1>1, <2>1, InRooted
    <3> QED
      BY <1>2, <1>3, <1>4, <1>5, <2>1, <3>1 DEF Rooted
  <2>2. CASE p[y] # NULL
    <3>1. y # root /\ root1 = root /\ x # root
      BY <1>2, <2>2, NoKey
    <3> QED
      BY <1>2, <1>3, <1>4, <1>5, <3>1 DEF Rooted
  <2> QED
    BY <2>1, <2>2
<1>7. ASSUME NEW k \in Keys, k \notin S[root]
      PROVE  l1[k] = l[k] /\ r1[k] = r[k] /\ p1[k] = p[k]
  <2>1. k # y /\ k # x
    BY <1>2, <1>7
  <2>2. k # p[y]
    BY <1>7, InRooted, NoKey
  <2>3. k # r[x]
    BY <1>2, <1>7, InRooted, NoKey
  <2> QED
    BY <1>1, <2>1, <2>2, <2>3 DEF Rotated
<1> QED
  BY <1>1, <1>2, <1>6, <1>7

LEMMA ShapedRooted ==
    ASSUME NEW t, NEW S, NEW pos, Shaped(t, S, pos), t.root # NULL
    PROVE  /\ Rooted(t.left, t.right, t.parent, S, pos, t.root)
           /\ Rooted(t.right, t.left, t.parent, S, Mirrored(pos), t.root)
<1>1. t.root \in Keys
  BY NoKey DEF Shaped, Trees
<1> QED
  BY <1>1, Mirror, MirrorLinks DEF Shaped, Rooted

LEMMA RootedShaped ==
    ASSUME NEW t \in Trees, NEW S, NEW pos, Rooted(t.left, t.right, t.parent, S, pos, t.root)
    PROVE  Shaped(t, S, pos)
  BY DEF Shaped, Rooted

\* A mirror in a mirror.
LEMMA Unmirror ==
    ASSUME NEW l, NEW r, NEW p, NEW S, NEW pos, NEW root, pos \in [Keys -> Int],
           Rooted(r, l, p, S, Mirrored(pos), root)
    PROVE  Rooted(l, r, p, S, pos, root)
<1>1. Mirrored(Mirrored(pos)) = pos
  <2>1. Mirrored(Mirrored(pos)) \in [Keys -> Int]
    BY DEF Mirrored
  <2>2. \A k \in Keys : Mirrored(Mirrored(pos))[k] = pos[k]
    BY DEF Mirrored
  <2> QED
    BY <2>1, <2>2
<1>2. Nested(l, r, S, Mirrored(Mirrored(pos)))
  BY Mirror DEF Rooted
<1>3. Linked(l, r, p)
  BY MirrorLinks DEF Rooted
<1> QED
  BY <1>1, <1>2, <1>3 DEF Rooted

LEMMA RotateRightKeeps ==
    ASSUME NEW t, NEW C, NEW pos, TreeOf(t, C, pos), NEW y \in C
    PROVE  Reshaped(t, rotateRight(t, y), C, pos)
<1>1. PICK S : Shaped(t, S, pos) /\ S[t.root] = C
  BY DEF TreeOf
<1>2. y \in Keys /\ t.root # NULL /\ (t.parent[y] = NULL => y = t.root)
  BY <1>1, InTree
<1>3. PICK u : u = rotateRight(t, y)
  OBVIOUS
<1>4. CASE t.left[y] = NULL
  <2>1. u = [t EXCEPT !.fault = TRUE]
    BY <1>3, <1>4 DEF rotateRight
  <2>2. /\ u \in Trees /\ u.root = t.root /\ u.left = t.left /\ u.right = t.right
        /\ u.parent = t.parent /\ u.depth = t.depth
    BY <1>1, <2>1 DEF Shaped, Trees
  <2>3. TreeOf(u, C, pos)
    BY <2>2, FlagsOnly
  <2> QED
    BY <1>3, <2>2, <2>3 DEF Reshaped, SameOutside
<1>5. CASE t.left[y] # NULL
  <2>1. /\ u \in Trees
        /\ Rotated(t.left, t.right, t.parent, u.left, u.right, u.parent, y)
        /\ u.root = IF t.parent[y] = NULL THEN t.left[y] ELSE t.root
        /\ \A k \in Keys : k # y /\ k # t.left[y] => u.depth[k] = t.depth[k]
    BY <1>1, <1>2, <1>3, <1>5, RotateRightIs
  <2>2. PICK T : T = BelowRotated(t.left, t.right, S, y)
    OBVIOUS
  <2>3. Rooted(t.left, t.right, t.parent, S, pos, t.root)
    BY <1>1, <1>2, ShapedRooted
  <2>4. /\ Rooted(u.left, u.right, u.parent, T, pos, u.root) /\ T[u.root] = S[t.root]
        /\ t.left[y] \in S[t.root]
        /\ \A k \in Keys \ S[t.root] : /\ u.left[k] = t.left[k] /\ u.right[k] = t.right[k]
                                       /\ u.parent[k] = t.parent[k]
    BY <1>1, <1>5, <2>1, <2>2, <2>3, RotationShapes
  <2>5. TreeOf(u, C, pos)
    BY <1>1, <2>1, <2>4, RootedShaped DEF TreeOf
  <2>6. SameOutside(t, u, C)
    BY <1>1, <2>1, <2>4 DEF SameOutside
  <2> QED
    BY <1>3, <2>5, <2>6 DEF Reshaped
<1> QED
  BY <1>4, <1>5

LEMMA RotateLeftKeeps ==
    ASSUME NEW t, NEW C, NEW pos, TreeOf(t, C, pos), NEW x \in C
    PROVE  Reshaped(t, rotateLeft(t, x), C, pos)
<1>1. PICK S : Shaped(t, S, pos) /\ S[t.root] = C
  BY DEF TreeOf
<1>2. x \in Keys /\ t.root # NULL /\ (t.parent[x] = NULL => x = t.root) /\ pos \in [Keys -> Int]
  BY <1>1, InTree DEF Shaped, Nested
<1>3. PICK u : u = rotateLeft(t, x)
  OBVIOUS
<1>4. CASE t.right[x] = NULL
  <2>1. u = [t EXCEPT !.fault = TRUE]
    BY <1>3, <1>4 DEF rotateLeft
  <2>2. /\ u \in Trees /\ u.root = t.root /\ u.left = t.left /\ u.right = t.right
        /\ u.parent = t.parent /\ u.depth = t.depth
    BY <1>1, <2>1 DEF Shaped, Trees
  <2>3. TreeOf(u, C, pos)
    BY <2>2, FlagsOnly
  <2> QED
    BY <1>3, <2>2, <2>3 DEF Reshaped, SameOutside
<1>5. CASE t.right[x] # NULL
  <2>1. /\ u \in Trees
        /\ Rotated(t.right, t.left, t.parent, u.right, u.left, u.parent, x)
        /\ u.root = IF t.parent[x] = NULL THEN t.right[x] ELSE t.root
        /\ \A k \in Keys : k # x /\ k # t.right[x] => u.depth[k] = t.depth[k]
    BY <1>1, <1>2, <1>3, <1>5, RotateLeftIs
  <2>2. PICK T : T = BelowRotated(t.right, t.left, S, x)
    OBVIOUS
  <2>3. PICK back : back = Mirrored(pos)
    OBVIOUS
  <2>4. Rooted(t.right, t.left, t.parent, S, back, t.root)
    BY <1>1, <1>2, <2>3, ShapedRooted
  <2>5. /\ Rooted(u.right, u.left, u.parent, T, back, u.root) /\ T[u.root] = S[t.root]
        /\ t.right[x] \in S[t.root]
        /\ \A k \in Keys \ S[t.root] : /\ u.right[k] = t.right[k] /\ u.left[k] = t.left[k]
                                       /\ u.parent[k] = t.parent[k]
    BY <1>1, <1>5, <2>1, <2>2, <2>4, RotationShapes
  <2>6. Rooted(u.left, u.right, u.parent, T, pos, u.root)
    BY <1>2, <2>3, <2>5, Unmirror
  <2>7. TreeOf(u, C, pos)
    BY <1>1, <2>1, <2>5, <2>6, RootedShaped DEF TreeOf
  <2>8. SameOutside(t, u, C)
    BY <1>1, <2>1, <2>5 DEF SameOutside
  <2> QED
    BY <1>3, <2>7, <2>8 DEF Reshaped
<1> QED
  BY <1>4, <1>5

\* A node that is balanced by a rotation has a child on the heavy side.
LEMMA HeavyHasChild ==
    ASSUME NEW t \in Trees, NEW n \in Keys
    PROVE  /\ getBalance(t, n) \in Int
           /\ getBalance(t, n) > 1 => t.left[n] # NULL
           /\ getBalance(t, n) < -1 => t.right[n] # NULL
<1>1. t.left[n] \in Pointers /\ t.right[n] \in Pointers /\ n # NULL
  BY NoKey DEF Trees
<1>2. PICK a, b \in Nat : a = depth(t, t.left[n]) /\ b = depth(t, t.right[n])
  BY <1>1, DepthIs
<1>3. (t.left[n] = NULL => a = 0) /\ (t.right[n] = NULL => b = 0)
  BY <1>2 DEF depth
<1>4. getBalance(t, n) = a - b
  BY <1>1, <1>2 DEF getBalance
<1> QED
  BY <1>3, <1>4

LEMMA MeasureKeeps ==
    ASSUME NEW t, NEW C, NEW pos, TreeOf(t, C, pos), NEW n \in C
    PROVE  Reshaped(t, Measure(t, n), C, pos)
<1>1. t \in Trees /\ n \in Keys
  BY InTree DEF TreeOf, Shaped
<1>2. /\ Measure(t, n) \in Trees /\ SamePointers(Measure(t, n), t)
      /\ Measure(t, n).depth =
           [t.depth EXCEPT ![n] = 1 + Larger(depth(t, t.left[n]), depth(t, t.right[n]))]
  BY <1>1, MeasureIs
<1>3. TreeOf(Measure(t, n), C, pos)
  BY <1>2, FlagsOnly DEF SamePointers
<1>4. \A k \in Keys : k # n => Measure(t, n).depth[k] = t.depth[k]
  BY <1>1, <1>2 DEF Trees
<1> QED
  BY <1>2, <1>3, <1>4 DEF Reshaped, SameOutside, SamePointers

LEMMA Twice ==
    ASSUME NEW t, NEW u, NEW v, NEW C, NEW pos, Reshaped(t, u, C, pos), Reshaped(u, v, C, pos)
    PROVE  Reshaped(t, v, C, pos)
  BY SameOutsideTwice DEF Reshaped

LEMMA BalanceNodeKeeps ==
    ASSUME NEW t, NEW C, NEW pos, TreeOf(t, C, pos), NEW n \in C
    PROVE  Reshaped(t, BalanceNode(t, n), C, pos)
<1> DEFINE d == Measure(t, n)
           balance == getBalance(d, n)
           atRoot  == getBalance(d, d.left[d.root])
           atLeft  == getBalance(d, d.left[n])
           atRight == getBalance(d, d.right[n])
           judged  == [d EXCEPT !.misjudged = @ \/ (atRoot >= 0) # (atLeft >= 0)]
           u == BalanceNode(t, n)
<1>1. Reshaped(t, d, C, pos)
  BY MeasureKeeps
<1>2. u = CASE balance > 1 /\ atRoot >= 0   -> rotateRight(judged, n)
            [] balance > 1 /\ atRoot < 0    -> rotateRight(rotateLeft(judged, d.left[n]), n)
            [] balance < -1 /\ atRight <= 0 -> rotateLeft(d, n)
            [] balance < -1 /\ atRight > 0  -> rotateLeft(rotateRight(d, d.right[n]), n)
            [] OTHER                        -> d
  BY DEF BalanceNode
<1>3. /\ u \in {rotateRight(judged, n), rotateLeft(d, n), d}
      \/ /\ u = rotateRight(rotateLeft(judged, d.left[n]), n)
         /\ balance > 1
      \/ /\ u = rotateLeft(rotateRight(d, d.right[n]), n)
         /\ balance < -1
  <2> HIDE DEF d, balance, atRoot, atLeft, atRight, judged, u
  <2> QED
    BY <1>2
<1>4. n \in Keys /\ d \in Trees /\ TreeOf(d, C, pos)
  <2> HIDE DEF d
  <2>1. TreeOf(d, C, pos)
    BY <1>1 DEF Reshaped
  <2>2. PICK S : Shaped(d, S, pos) /\ S[d.root] = C
    BY <2>1 DEF TreeOf
  <2> QED
    BY <2>1, <2>2, InTree DEF Shaped
<1>5. (balance > 1 => d.left[n] \in C) /\ (balance < -1 => d.right[n] \in C)
  <2>1. (balance > 1 => d.left[n] # NULL) /\ (balance < -1 => d.right[n] # NULL)
    BY <1>4, HeavyHasChild
  <2> HIDE DEF d, balance
  <2> QED
    BY <1>4, <2>1, InTree DEF TreeOf
<1>6. Reshaped(t, judged, C, pos)
  <2>1. PICK e : e = ((atRoot >= 0) # (atLeft >= 0))
    OBVIOUS
  <2>2. judged = [d EXCEPT !.misjudged = d.misjudged \/ e]
    BY <2>1
  <2> HIDE DEF d, atRoot, atLeft, judged
  <2>3. e \in BOOLEAN
    BY <2>1
  <2>4. /\ judged \in Trees /\ judged.root = d.root /\ judged.left = d.left
        /\ judged.right = d.right /\ judged.parent = d.parent /\ judged.depth = d.depth
    BY <1>4, <2>2, <2>3 DEF Trees
  <2>5. TreeOf(judged, C, pos)
    BY <1>4, <2>4, FlagsOnly
  <2> QED
    BY <1>1, <2>4, <2>5 DEF Reshaped, SameOutside
<1> HIDE DEF d, balance, atRoot, atLeft, atRight, judged, u
<1>7. ASSUME u \in {rotateRight(judged, n), rotateLeft(d, n), d}
      PROVE  Reshaped(t, u, C, pos)
  <2>1. Reshaped(judged, rotateRight(judged, n), C, pos)
    BY <1>6, RotateRightKeeps DEF Reshaped
  <2>2. Reshaped(d, rotateLeft(d, n), C, pos)
    BY <1>4, RotateLeftKeeps
  <2> QED
    BY <1>1, <1>6, <1>7, <2>1, <2>2, Twice
<1>8. ASSUME u = rotateRight(rotateLeft(judged, d.left[n]), n) /\ balance > 1
      PROVE  Reshaped(t, u, C, pos)
  <2>1. PICK v : v = rotateLeft(judged, d.left[n])
    OBVIOUS
  <2>2. Reshaped(judged, v, C, pos)
    BY <1>5, <1>6, <1>8, <2>1, RotateLeftKeeps DEF Reshaped
  <2>3. Reshaped(v, rotateRight(v, n), C, pos)
    BY <2>2, RotateRightKeeps DEF Reshaped
  <2> QED
    BY <1>6, <1>8, <2>1, <2>2, <2>3, Twice
<1>9. ASSUME u = rotateLeft(rotateRight(d, d.right[n]), n) /\ balance < -1
      PROVE  Reshaped(t, u, C, pos)
  <2>1. PICK v : v = rotateRight(d, d.right[n])
    OBVIOUS
  <2>2. Reshaped(d, v, C, pos)
    BY <1>4, <1>5, <1>9, <2>1, RotateRightKeeps
  <2>3. Reshaped(v, rotateLeft(v, n), C, pos)
    BY <2>2, RotateLeftKeeps DEF Reshaped
  <2> QED
    BY <1>1, <1>9, <2>1, <2>2, <2>3, Twice
<1>10. Reshaped(t, u, C, pos)
  BY <1>3, <1>7, <1>8, <1>9
<1> QED
  BY <1>10 DEF u

\* One round of the loop.
BalanceStep(s) ==
    IF s.node = NULL \/ s.tree.fault THEN s
    ELSE [tree |-> BalanceNode(s.tree, s.node), node |-> BalanceNode(s.tree, s.node).parent[s.node]]

LEMMA RoundsIs == Rounds \in Nat
  BY KeysAreNumbers, FS_CardinalityType DEF Rounds

LEMMA BalancingIs ==
    ASSUME NEW t, NEW start, NEW R, [tree |-> t, node |-> start] \in R,
           \A s \in R : BalanceStep(s) \in R
    PROVE  \E h \in [0..Rounds -> R] :
              /\ h[0] = [tree |-> t, node |-> start]
              /\ \A i \in 1..Rounds : h[i] = BalanceStep(h[i - 1])
              /\ Balancing(t, start) = h[Rounds].tree
<1> DEFINE s0 == [tree |-> t, node |-> start]
           F == [s \in R |-> BalanceStep(s)]
           after[i \in 0..Rounds] == IF i = 0 THEN s0 ELSE BalanceStep(after[i - 1])
<1>1. Balancing(t, start) = after[Rounds].tree
  BY DEF Balancing, Iterate, BalanceStep
<1>2. s0 \in R /\ F \in [R -> R] /\ \A s \in R : F[s] = BalanceStep(s)
  OBVIOUS
<1> HIDE DEF F, s0
<1>3. \E h : RunOf(h, R, s0, F, Rounds)
  BY <1>2, RoundsIs, Loop
<1>4. PICK h \in [0..Rounds -> R] : \A i \in 0..Rounds : h[i] = IF i = 0 THEN s0 ELSE F[h[i - 1]]
  BY <1>3 DEF RunOf
<1>5. \A i \in 0..Rounds : h[i] = IF i = 0 THEN s0 ELSE BalanceStep(h[i - 1])
  <2> SUFFICES ASSUME NEW i \in 0..Rounds, i # 0
               PROVE  h[i] = BalanceStep(h[i - 1])
    BY <1>4
  <2>1. i - 1 \in 0..Rounds
    BY RoundsIs
  <2>2. h[i - 1] \in R
    BY <2>1
  <2> QED
    BY <1>2, <1>4, <2>2
<1> DEFINE Solves(g) == g = [i \in 0..Rounds |-> IF i = 0 THEN s0 ELSE BalanceStep(g[i - 1])]
<1>6. Solves(h)
  BY <1>5
<1>7. Solves(after)
  <2> HIDE DEF Solves
  <2>1. \E g : Solves(g)
    BY <1>6
  <2>2. after = CHOOSE g : Solves(g)
    BY DEF Solves
  <2> QED
    BY <2>1, <2>2
<1>8. \A i \in 0..Rounds : after[i] = IF i = 0 THEN s0 ELSE BalanceStep(after[i - 1])
  BY <1>7
<1>9. after \in [0..Rounds -> R]
  <2> HIDE DEF after, Solves
  <2> DEFINE Q == {k \in Nat : k \in 0..Rounds => after[k] = h[k]}
  <2>1. ASSUME NEW k \in Nat, \A m \in 0 .. (k - 1) : m \in Q PROVE k \in Q
    <3>1. CASE k \notin 0..Rounds
      BY <3>1
    <3>2. CASE k \in 0..Rounds /\ k = 0
      BY <1>5, <1>8, <3>2
    <3>3. CASE k \in 0..Rounds /\ k # 0
      <4>1. k - 1 \in 0 .. (k - 1) /\ k - 1 \in 0..Rounds
        BY <3>3, RoundsIs
      <4>2. after[k - 1] = h[k - 1]
        BY <2>1, <4>1
      <4> QED
        BY <1>5, <1>8, <3>3, <4>2
    <3> QED
      BY <3>1, <3>2, <3>3
  <2> HIDE DEF Q
  <2>2. Nat \subseteq Q
    BY <2>1, StrongInduction
  <2>3. \A k \in 0..Rounds : after[k] = h[k]
    BY <2>2, RoundsIs DEF Q
  <2>4. \A k \in 0..Rounds : after[k] \in R
    BY <2>3
  <2>5. after = [k \in 0..Rounds |-> after[k]]
    <3>1. Solves(after)
      BY <1>7
    <3> QED
      BY <3>1 DEF Solves
  <2> QED
    BY <2>4, <2>5
<1> HIDE DEF after
<1> QED
  BY <1>1, <1>8, <1>9, RoundsIs DEF s0

LEMMA ReshapedSelf ==
    ASSUME NEW t, NEW C, NEW pos, TreeOf(t, C, pos)
    PROVE  Reshaped(t, t, C, pos)
  BY DEF Reshaped, SameOutside

LEMMA TreeOfKeys ==
    ASSUME NEW t, NEW C, NEW pos, TreeOf(t, C, pos)
    PROVE  t \in Trees /\ C \subseteq Keys /\ (t.root = NULL <=> C = {}) /\ pos \in [Keys -> Int]
<1>1. PICK S : Shaped(t, S, pos) /\ S[t.root] = C
  BY DEF TreeOf
<1>2. t \in Trees /\ t.root \in Pointers /\ Nested(t.left, t.right, S, pos)
  BY <1>1 DEF Shaped, Trees
<1>3. C \subseteq Keys /\ pos \in [Keys -> Int] /\ S[NULL] = {}
  BY <1>1, <1>2 DEF Nested
<1>4. t.root # NULL => t.root \in C
  BY <1>1, <1>2, Sides, NoKey
<1> QED
  BY <1>1, <1>2, <1>3, <1>4

\* Whatever the depths say, the loop turns the tree into a tree of the same nodes.
LEMMA BalancingKeeps ==
    ASSUME NEW t, NEW C, NEW pos, TreeOf(t, C, pos), NEW start \in C \cup {NULL}
    PROVE  Reshaped(t, Balancing(t, start), C, pos)
<1> DEFINE R == {s \in [tree : Trees, node : Pointers] :
                   Reshaped(t, s.tree, C, pos) /\ s.node \in C \cup {NULL}}
<1>1. t \in Trees /\ C \subseteq Keys /\ start \in Pointers
  BY TreeOfKeys, NoKey
<1>2. [tree |-> t, node |-> start] \in R
  BY <1>1, ReshapedSelf
<1>3. ASSUME NEW s \in R
      PROVE  BalanceStep(s) \in R
  <2>1. CASE s.node = NULL \/ s.tree.fault
    BY <2>1 DEF BalanceStep
  <2>2. CASE ~(s.node = NULL \/ s.tree.fault)
    <3>1. PICK b : b = BalanceNode(s.tree, s.node)
      OBVIOUS
    <3>2. Reshaped(t, s.tree, C, pos) /\ s.node \in C
      BY <2>2
    <3>3. Reshaped(s.tree, b, C, pos)
      BY <3>1, <3>2, BalanceNodeKeeps DEF Reshaped
    <3>4. Reshaped(t, b, C, pos) /\ TreeOf(b, C, pos)
      BY <3>2, <3>3, Twice DEF Reshaped
    <3>5. b \in Trees
      BY <3>4, TreeOfKeys
    <3>6. b.parent[s.node] \in C \cup {NULL}
      BY <3>2, <3>4, InTree DEF TreeOf
    <3>7. b.parent[s.node] \in Pointers
      BY <1>1, <3>6, NoKey
    <3>8. BalanceStep(s) = [tree |-> b, node |-> b.parent[s.node]]
      BY <2>2, <3>1 DEF BalanceStep
    <3> QED
      BY <3>4, <3>5, <3>6, <3>7, <3>8
  <2> QED
    BY <2>1, <2>2
<1> HIDE DEF R
<1>4. PICK h \in [0..Rounds -> R] : Balancing(t, start) = h[Rounds].tree
  BY <1>2, <1>3, BalancingIs
<1>5. h[Rounds] \in R
  BY RoundsIs
<1> QED
  BY <1>4, <1>5 DEF R

-----------------------------------------------------------------------------
(* The descents of insertion and extraction *)

\* Following next from a node as long as it leads to a child.
Descends(next, l, r) ==
    \A m \in Pointers : next[m] \in Pointers /\ (next[m] # m => m # NULL /\ next[m] \in {l[m], r[m]})

EndOf(h, next) ==
    /\ h \in [Pointers -> Pointers]
    /\ \A m \in Pointers : h[m] = IF next[m] = m THEN m ELSE h[next[m]]

LEMMA DescentExists ==
    ASSUME NEW l, NEW r, NEW S, NEW pos, Nested(l, r, S, pos), NEW next, Descends(next, l, r)
    PROVE  \E h : EndOf(h, next)
<1> DEFINE N == Cardinality(Keys)
           rank == [m \in Pointers |-> Cardinality(S[m])]
           G == [q \in Pointers \X [Pointers -> Pointers] |->
                   IF next[q[1]] = q[1] THEN q[1] ELSE q[2][next[q[1]]]]
<1> \A m \in Pointers : next[m] \in Pointers /\ (next[m] # m => m # NULL /\ next[m] \in {l[m], r[m]})
  BY DEF Descends
<1>1. ASSUME NEW m \in Pointers, next[m] # m
      PROVE  rank[next[m]] < rank[m]
  <2>1. m \in Keys /\ next[m] \in {l[m], r[m]} /\ next[m] \in Pointers
    BY <1>1, NoKey
  <2>2. S[next[m]] \in SUBSET S[m] /\ S[next[m]] # S[m]
    BY <2>1, Sides
  <2>3. Cardinality(S[next[m]]) < Cardinality(S[m])
    BY <2>2, Sizes
  <2> QED
    BY <2>1, <2>3
<1>2. N \in Nat /\ rank \in [Pointers -> 0..N]
  <2>1. N \in Nat
    BY KeysAreNumbers, FS_CardinalityType
  <2>2. \A m \in Pointers : Cardinality(S[m]) \in 0..N
    BY Sizes
  <2> QED
    BY <2>1, <2>2
<1> HIDE DEF N, rank
<1>3. \A m \in Pointers, f \in [Pointers -> Pointers] :
          G[<<m, f>>] = IF next[m] = m THEN m ELSE f[next[m]]
  OBVIOUS
<1>4. G \in [Pointers \X [Pointers -> Pointers] -> Pointers] /\ Pointers # {}
  BY NoKey
<1>5. LowerDecides(G, Pointers, Pointers, N, rank)
  <2> HIDE DEF G
  <2>1. ASSUME NEW m \in Pointers, NEW f \in [Pointers -> Pointers], NEW g \in [Pointers -> Pointers],
               \A x \in Pointers : rank[x] < rank[m] => f[x] = g[x]
        PROVE  G[<<m, f>>] = G[<<m, g>>]
    <3>1. next[m] # m => f[next[m]] = g[next[m]]
      BY <1>1, <2>1
    <3> QED
      BY <1>3, <3>1
  <2> QED
    BY <1>2, <1>4, <2>1 DEF LowerDecides
<1>6. PICK h \in [Pointers -> Pointers] : \A m \in Pointers : h[m] = G[<<m, h>>]
  <2> HIDE DEF G
  <2> QED
    BY <1>5, Recursion
<1>7. \A m \in Pointers : h[m] = IF next[m] = m THEN m ELSE h[next[m]]
  <2> HIDE DEF G
  <2> QED
    BY <1>3, <1>6
<1> QED
  BY <1>7 DEF EndOf

\* In the order of the keys.
InKeyOrder == [k \in Keys |-> k]

LEMMA KeyOrder == InKeyOrder \in [Keys -> Int] /\ \A k \in Keys : InKeyOrder[k] = k /\ k \in Nat
  BY KeysAreNumbers DEF InKeyOrder

\* The descent of extract finds a key where it is, or nothing.
LEMMA SearchIs ==
    ASSUME NEW t, NEW S, Shaped(t, S, InKeyOrder), NEW key \in Keys
    PROVE  Search(t, key) = IF key \in S[t.root] THEN key ELSE NULL
<1> DEFINE next == [m \in Pointers |-> IF m = NULL \/ m = key THEN m
                                       ELSE IF key < m THEN t.left[m] ELSE t.right[m]]
           down[m \in Pointers] == CASE m = NULL \/ m = key -> m
                                     [] key < m             -> down[t.left[m]]
                                     [] OTHER               -> down[t.right[m]]
           Solves(g) == g = [m \in Pointers |-> CASE m = NULL \/ m = key -> m
                                     [] key < m             -> g[t.left[m]]
                                     [] OTHER               -> g[t.right[m]]]
<1>1. Nested(t.left, t.right, S, InKeyOrder) /\ t.root \in Pointers
  BY DEF Shaped, Trees
<1>2. \A m \in Keys : t.left[m] \in Pointers /\ t.right[m] \in Pointers /\ t.left[m] # m /\ t.right[m] # m
  BY <1>1, Sides, NoKey
<1>3. Descends(next, t.left, t.right)
  BY <1>2, NoKey DEF Descends
<1>4. \E h : EndOf(h, next)
  <2> HIDE DEF next, down, Solves
  <2> QED
    BY <1>1, <1>3, DescentExists
<1>5. PICK h \in [Pointers -> Pointers] :
               \A m \in Pointers : h[m] = IF next[m] = m THEN m ELSE h[next[m]]
  BY <1>4 DEF EndOf
<1>6. \A m \in Pointers : h[m] = CASE m = NULL \/ m = key -> m
                                   [] key < m             -> h[t.left[m]]
                                   [] OTHER               -> h[t.right[m]]
  <2>1. ASSUME NEW m \in Pointers
        PROVE  h[m] = IF m = NULL \/ m = key THEN m ELSE IF key < m THEN h[t.left[m]] ELSE h[t.right[m]]
    BY <1>2, <1>5, NoKey
  <2>2. \A m \in Pointers : m = NULL \/ m = key => ~(key < m)
    BY KeyOrder DEF NULL
  <2> HIDE DEF next
  <2> QED
    BY <2>1, <2>2
<1>7. Solves(h)
  <2> HIDE DEF next, down
  <2> QED
    BY <1>6
<1>8. Solves(down)
  <2> HIDE DEF Solves
  <2>1. down = CHOOSE g : Solves(g)
    BY DEF Solves
  <2> QED
    BY <1>7, <2>1
<1>9. /\ down[NULL] = NULL /\ down[key] = key
      /\ \A m \in Keys : m # key => down[m] = IF key < m THEN down[t.left[m]] ELSE down[t.right[m]]
  <2> HIDE DEF next, down
  <2>1. \A m \in Pointers : down[m] = CASE m = NULL \/ m = key -> m
                                   [] key < m             -> down[t.left[m]]
                                   [] OTHER               -> down[t.right[m]]
    BY <1>8
  <2>2. \A m \in Pointers : m = NULL \/ m = key => ~(key < m)
    BY KeyOrder DEF NULL
  <2> HIDE DEF Solves
  <2> QED
    BY <2>1, <2>2, NoKey
<1>10. Search(t, key) = down[t.root]
  BY DEF Search
<1> HIDE DEF next, down, Solves
<1> DEFINE P == {n \in Keys : down[n] = IF key \in S[n] THEN key ELSE NULL}
<1>11. ASSUME NEW n \in Keys,
              \A x \in Keys : x \in S[t.left[n]] \/ x \in S[t.right[n]] => x \in P
       PROVE  n \in P
  <2>1. ASSUME NEW c \in {t.left[n], t.right[n]}
        PROVE  down[c] = IF key \in S[c] THEN key ELSE NULL
    <3>1. CASE c = NULL
      BY <1>1, <1>9, <3>1 DEF Nested
    <3>2. CASE c # NULL
      <4>1. c \in Keys /\ (c \in S[t.left[n]] \/ c \in S[t.right[n]])
        BY <1>1, <3>2, Sides
      <4> QED
        BY <1>11, <4>1
    <3> QED
      BY <3>1, <3>2
  <2>2. key \in S[n] => key = n \/ key \in S[t.left[n]] \/ key \in S[t.right[n]]
    BY <1>1, Sides
  <2>3. n \in S[n] /\ S[t.left[n]] \subseteq S[n] /\ S[t.right[n]] \subseteq S[n] /\ S[n] \subseteq Keys
    BY <1>1, Sides
  <2>4. (key \in S[t.left[n]] => key < n) /\ (key \in S[t.right[n]] => n < key)
    BY <1>1, KeyOrder DEF Nested
  <2>5. key \in Nat /\ n \in Nat
    BY KeyOrder
  <2>6. down[t.left[n]] = IF key \in S[t.left[n]] THEN key ELSE NULL
    BY <2>1
  <2>7. down[t.right[n]] = IF key \in S[t.right[n]] THEN key ELSE NULL
    BY <2>1
  <2> QED
    BY <1>9, <2>2, <2>3, <2>4, <2>5, <2>6, <2>7
<1> HIDE DEF P
<1>12. Keys \subseteq P
  BY <1>1, <1>11, FromBelow
<1>13. CASE t.root = NULL
  BY <1>1, <1>9, <1>10, <1>13 DEF Nested
<1>14. CASE t.root # NULL
  BY <1>1, <1>10, <1>12, <1>14, NoKey DEF P
<1> QED
  BY <1>13, <1>14

\* p is where a search for key ends, and where it belongs if it is not there.
FoundFrom(l, r, S, n, key, p) ==
    /\ p \in S[n]
    /\ key \in S[n] => p = key
    /\ key \notin S[n] => /\ key < p => l[p] = NULL
                          /\ p < key => r[p] = NULL
                          /\ \A a \in S[n] : /\ p \in S[l[a]] => key < a
                                             /\ p \in S[r[a]] => a < key

LEMMA PlaceIs ==
    ASSUME NEW t, NEW S, Shaped(t, S, InKeyOrder), t.root # NULL, NEW key \in Keys
    PROVE  FoundFrom(t.left, t.right, S, t.root, key, Place(t, key))
<1> DEFINE next == [m \in Pointers |-> IF m = NULL THEN m
                                       ELSE IF key < m /\ t.left[m] # NULL THEN t.left[m]
                                       ELSE IF key > m /\ t.right[m] # NULL THEN t.right[m] ELSE m]
           down[m \in Keys] == CASE key < m /\ t.left[m] # NULL  -> down[t.left[m]]
                                 [] key > m /\ t.right[m] # NULL -> down[t.right[m]]
                                 [] OTHER                        -> m
           Solves(g) == g = [m \in Keys |-> CASE key < m /\ t.left[m] # NULL  -> g[t.left[m]]
                                 [] key > m /\ t.right[m] # NULL -> g[t.right[m]]
                                 [] OTHER                        -> m]
<1>1. Nested(t.left, t.right, S, InKeyOrder) /\ t.root \in Keys
  BY NoKey DEF Shaped, Trees
<1>2. \A m \in Keys : t.left[m] \in Pointers /\ t.right[m] \in Pointers /\ t.left[m] # m /\ t.right[m] # m
  BY <1>1, Sides, NoKey
<1>3. Descends(next, t.left, t.right)
  BY <1>2, NoKey DEF Descends
<1>14. \E h : EndOf(h, next)
  <2> HIDE DEF next, down, Solves
  <2> QED
    BY <1>1, <1>3, DescentExists
<1>4. PICK h \in [Pointers -> Pointers] :
               \A m \in Pointers : h[m] = IF next[m] = m THEN m ELSE h[next[m]]
  BY <1>14 DEF EndOf
<1>5. PICK g \in [Keys -> Pointers] : \A m \in Keys : g[m] = h[m]
  <2> DEFINE f == [m \in Keys |-> h[m]]
  <2>1. f \in [Keys -> Pointers] /\ \A m \in Keys : f[m] = h[m]
    BY NoKey
  <2> QED
    BY <2>1
<1>6. \A m \in Keys : ~(key < m /\ key > m)
  BY KeyOrder
<1>7. \A m \in Keys : g[m] = CASE key < m /\ t.left[m] # NULL  -> g[t.left[m]]
                               [] key > m /\ t.right[m] # NULL -> g[t.right[m]]
                               [] OTHER                        -> m
  <2>1. ASSUME NEW m \in Keys
        PROVE  h[m] = IF key < m /\ t.left[m] # NULL THEN h[t.left[m]]
                      ELSE IF key > m /\ t.right[m] # NULL THEN h[t.right[m]] ELSE m
    BY <1>2, <1>4, NoKey
  <2>2. \A m \in Keys : (t.left[m] # NULL => t.left[m] \in Keys) /\ (t.right[m] # NULL => t.right[m] \in Keys)
    BY <1>2, NoKey
  <2> HIDE DEF next
  <2> QED
    BY <1>5, <1>6, <2>1, <2>2
<1>8. Solves(g)
  <2> HIDE DEF next, down
  <2> QED
    BY <1>5, <1>7
<1>9. Solves(down)
  <2> HIDE DEF Solves
  <2>1. down = CHOOSE f : Solves(f)
    BY DEF Solves
  <2> QED
    BY <1>8, <2>1
<1>10. \A m \in Keys : down[m] = IF key < m /\ t.left[m] # NULL THEN down[t.left[m]]
                                 ELSE IF key > m /\ t.right[m] # NULL THEN down[t.right[m]] ELSE m
  <2> HIDE DEF next, down
  <2>1. \A m \in Keys : down[m] = CASE key < m /\ t.left[m] # NULL  -> down[t.left[m]]
                                    [] key > m /\ t.right[m] # NULL -> down[t.right[m]]
                                    [] OTHER                        -> m
    BY <1>9
  <2> HIDE DEF Solves
  <2> QED
    BY <1>6, <2>1
<1>11. Place(t, key) = down[t.root]
  BY DEF Place
<1> HIDE DEF next, down, Solves
<1> DEFINE P == {n \in Keys : FoundFrom(t.left, t.right, S, n, key, down[n])}
<1>12. ASSUME NEW n \in Keys,
              \A x \in Keys : x \in S[t.left[n]] \/ x \in S[t.right[n]] => x \in P
       PROVE  n \in P
  <2> DEFINE a == t.left[n]
             b == t.right[n]
  <2>1. /\ n \in S[n] /\ S[a] \subseteq S[n] /\ S[b] \subseteq S[n] /\ S[n] \subseteq Keys
        /\ S[a] \cap S[b] = {} /\ n \notin S[a] /\ n \notin S[b]
        /\ \A x \in S[n] : x = n \/ x \in S[a] \/ x \in S[b]
        /\ (a # NULL => a \in S[a]) /\ (b # NULL => b \in S[b]) /\ a \in Pointers /\ b \in Pointers
    BY <1>1, Sides
  <2>2. (\A x \in S[a] : x < n) /\ (\A x \in S[b] : n < x)
    BY <1>1, <2>1, KeyOrder DEF Nested
  <2>3. key \in Nat /\ \A x \in Keys : x \in Nat
    BY KeyOrder
  <2>4. (a = NULL => S[a] = {}) /\ (b = NULL => S[b] = {})
    BY <1>1 DEF Nested
  <2>5. \A x \in S[n] : /\ S[t.left[x]] \subseteq S[x] /\ S[t.right[x]] \subseteq S[x]
                        /\ x \in S[a] => S[x] \subseteq S[a]
                        /\ x \in S[b] => S[x] \subseteq S[b]
    <3> SUFFICES ASSUME NEW x \in S[n]
                 PROVE  /\ S[t.left[x]] \subseteq S[x] /\ S[t.right[x]] \subseteq S[x]
                        /\ x \in S[a] => S[x] \subseteq S[a]
                        /\ x \in S[b] => S[x] \subseteq S[b]
      OBVIOUS
    <3>1. S[t.left[x]] \subseteq S[x] /\ S[t.right[x]] \subseteq S[x]
      BY <1>1, <2>1, Sides
    <3>2. (x \in S[a] => a \in Keys) /\ (x \in S[b] => b \in Keys)
      BY <2>1, <2>4, NoKey
    <3> QED
      BY <1>1, <3>1, <3>2, Transitive
  <2>6. a # NULL => FoundFrom(t.left, t.right, S, a, key, down[a])
    BY <1>12, <2>1, NoKey
  <2>7. b # NULL => FoundFrom(t.left, t.right, S, b, key, down[b])
    BY <1>12, <2>1, NoKey
  <2>8. down[n] = IF key < n /\ a # NULL THEN down[a] ELSE IF key > n /\ b # NULL THEN down[b] ELSE n
    BY <1>10
  <2> HIDE DEF a, b, P
  <2>9. ASSUME key < n, a # NULL
        PROVE  FoundFrom(t.left, t.right, S, n, key, down[n])
    <3>1. down[n] = down[a] /\ FoundFrom(t.left, t.right, S, a, key, down[a])
      BY <2>6, <2>8, <2>9
    <3>2. key \in S[n] => key \in S[a]
      BY <2>1, <2>2, <2>3, <2>9
    <3>3. ASSUME NEW x \in S[n], key \notin S[n]
          PROVE  /\ down[a] \in S[t.left[x]] => key < x
                 /\ down[a] \in S[t.right[x]] => x < key
      <4>1. down[a] \in S[a] /\ down[a] \notin S[b]
        BY <2>1, <3>1 DEF FoundFrom
      <4>2. CASE x = n
        BY <2>9, <4>1, <4>2 DEF a, b
      <4>3. CASE x \in S[a]
        BY <2>1, <3>1, <3>3, <4>3 DEF FoundFrom
      <4>4. CASE x \in S[b]
        BY <2>5, <4>1, <4>4
      <4> QED
        BY <2>1, <4>2, <4>3, <4>4
    <3> QED
      BY <2>1, <3>1, <3>2, <3>3 DEF FoundFrom
  <2>10. ASSUME key > n, b # NULL
         PROVE  FoundFrom(t.left, t.right, S, n, key, down[n])
    <3>1. down[n] = down[b] /\ FoundFrom(t.left, t.right, S, b, key, down[b])
      BY <2>1, <2>3, <2>7, <2>8, <2>10
    <3>2. key \in S[n] => key \in S[b]
      BY <2>1, <2>2, <2>3, <2>10
    <3>3. ASSUME NEW x \in S[n], key \notin S[n]
          PROVE  /\ down[b] \in S[t.left[x]] => key < x
                 /\ down[b] \in S[t.right[x]] => x < key
      <4>1. down[b] \in S[b] /\ down[b] \notin S[a]
        BY <2>1, <3>1 DEF FoundFrom
      <4>2. CASE x = n
        BY <2>3, <2>10, <4>1, <4>2 DEF a, b
      <4>3. CASE x \in S[b]
        BY <2>1, <3>1, <3>3, <4>3 DEF FoundFrom
      <4>4. CASE x \in S[a]
        BY <2>5, <4>1, <4>4
      <4> QED
        BY <2>1, <4>2, <4>3, <4>4
    <3> QED
      BY <2>1, <3>1, <3>2, <3>3 DEF FoundFrom
  <2>11. ASSUME ~(key < n /\ a # NULL), ~(key > n /\ b # NULL)
         PROVE  FoundFrom(t.left, t.right, S, n, key, down[n])
    <3>1. down[n] = n
      BY <2>8, <2>11
    <3>2. key \in S[n] => key = n
      BY <2>1, <2>2, <2>3, <2>4, <2>11
    <3>3. (key < n => a = NULL) /\ (n < key => b = NULL)
      BY <2>3, <2>11
    <3>4. ASSUME NEW x \in S[n] PROVE n \notin S[t.left[x]] /\ n \notin S[t.right[x]]
      <4>1. CASE x = n
        BY <2>1, <4>1 DEF a, b
      <4>2. CASE x \in S[a] \/ x \in S[b]
        BY <2>1, <2>5, <4>2
      <4> QED
        BY <2>1, <4>1, <4>2
    <3> QED
      BY <2>1, <3>1, <3>2, <3>3, <3>4 DEF FoundFrom, a, b
  <2> QED
    BY <2>9, <2>10, <2>11 DEF P
<1> HIDE DEF P
<1>13. Keys \subseteq P
  BY <1>1, <1>12, FromBelow
<1> QED
  BY <1>1, <1>11, <1>13 DEF P

-----------------------------------------------------------------------------
(* Insertion *)

\* Nodes outside the tree are as their constructor leaves them.
Clean(t, C) == \A k \in Keys \ C : /\ t.left[k] = NULL /\ t.right[k] = NULL
                                   /\ t.parent[k] = NULL /\ t.depth[k] = 1

\* A search tree with the keys of C, and nothing else.
Holds(t, C) == TreeOf(t, C, InKeyOrder) /\ Clean(t, C)

\* In u, the node n is a new one.
Fresh(u, t, n) ==
    /\ u \in Trees /\ u.root = t.root /\ u.fault = t.fault /\ u.misjudged = t.misjudged
    /\ \A k \in Keys : /\ u.left[k] = IF k = n THEN NULL ELSE t.left[k]
                       /\ u.right[k] = IF k = n THEN NULL ELSE t.right[k]
                       /\ u.parent[k] = IF k = n THEN NULL ELSE t.parent[k]
                       /\ u.depth[k] = IF k = n THEN 1 ELSE t.depth[k]

LEMMA NewNodeIs ==
    ASSUME NEW t \in Trees, NEW n \in Keys
    PROVE  Fresh(NewNode(t, n), t, n)
  BY NoKey DEF NewNode, Trees, Fresh

\* In u, the node n hangs under the node p.
Hung(t, u, n, p) ==
    /\ u \in Trees /\ u.root = t.root /\ u.fault = t.fault /\ u.misjudged = t.misjudged
    /\ \A k \in Keys :
         /\ u.left[k] = IF k = p /\ n < p THEN n ELSE IF k = n THEN NULL ELSE t.left[k]
         /\ u.right[k] = IF k = p /\ p < n THEN n ELSE IF k = n THEN NULL ELSE t.right[k]
         /\ u.parent[k] = IF k = n THEN p ELSE t.parent[k]
         /\ u.depth[k] = IF k = n THEN 1 ELSE t.depth[k]

\* The tree that an insertion balances.
Unbalanced(t, key) ==
    PutChild([NewNode(t, key) EXCEPT !.parent[key] = Place(t, key)],
             IF key < Place(t, key) THEN "left" ELSE "right", Place(t, key), key)

LEMMA UnbalancedIs ==
    ASSUME NEW t \in Trees, NEW key \in Keys, Place(t, key) \in Keys, Place(t, key) # key
    PROVE  Hung(t, Unbalanced(t, key), key, Place(t, key))
<1>1. PICK p \in Keys : p = Place(t, key)
  OBVIOUS
<1>2. PICK new : new = NewNode(t, key)
  OBVIOUS
<1>3. PICK v : v = [new EXCEPT !.parent[key] = p]
  OBVIOUS
<1>4. /\ new \in Trees /\ new.root = t.root
      /\ new.fault = t.fault /\ new.misjudged = t.misjudged
      /\ \A k \in Keys : /\ new.left[k] = IF k = key THEN NULL ELSE t.left[k]
                         /\ new.right[k] = IF k = key THEN NULL ELSE t.right[k]
                         /\ new.parent[k] = IF k = key THEN NULL ELSE t.parent[k]
                         /\ new.depth[k] = IF k = key THEN 1 ELSE t.depth[k]
  <2>1. Fresh(new, t, key)
    BY <1>2, NewNodeIs
  <2> QED
    BY <2>1 DEF Fresh
<1>5. /\ v \in Trees /\ v.root = new.root /\ v.left = new.left /\ v.right = new.right
      /\ v.depth = new.depth /\ v.fault = new.fault /\ v.misjudged = new.misjudged
      /\ \A k \in Keys : v.parent[k] = IF k = key THEN p ELSE new.parent[k]
  BY <1>3, <1>4, NoKey DEF Trees
<1>6. PICK side, u : /\ side = (IF key < p THEN "left" ELSE "right")
                     /\ u = PutChild(v, side, p, key)
  OBVIOUS
<1>7. u = Unbalanced(t, key)
  BY <1>1, <1>2, <1>3, <1>6 DEF Unbalanced
<1>8. /\ u \in Trees /\ u.parent = v.parent /\ u.depth = v.depth /\ u.root = v.root
      /\ u.fault = v.fault /\ u.misjudged = v.misjudged
      /\ \A k \in Keys : /\ u.left[k] = IF side = "left" /\ k = p THEN key ELSE v.left[k]
                         /\ u.right[k] = IF side = "right" /\ k = p THEN key ELSE v.right[k]
  <2>1. p \in Pointers /\ key \in Pointers /\ side \in {"left", "right"}
    BY <1>6, NoKey
  <2> QED
    BY <1>5, <1>6, <2>1, PutChildIs
<1>9. (side = "left" <=> key < p) /\ (side = "right" <=> p < key)
  BY <1>1, <1>6, KeyOrder
<1> QED
  BY <1>1, <1>4, <1>5, <1>7, <1>8, <1>9 DEF Hung

LEMMA HungHolds ==
    ASSUME NEW t, NEW C, Holds(t, C), C # {}, NEW key \in Keys \ C,
           NEW u, Hung(t, u, key, Place(t, key))
    PROVE  /\ Place(t, key) \in C
           /\ key < Place(t, key) => t.left[Place(t, key)] = NULL
           /\ Place(t, key) < key => t.right[Place(t, key)] = NULL
           /\ Holds(u, C \cup {key})
<1>1. PICK S : Shaped(t, S, InKeyOrder) /\ S[t.root] = C
  BY DEF Holds, TreeOf
<1>2. t \in Trees /\ C \subseteq Keys /\ t.root # NULL /\ t.root \in Keys
  BY TreeOfKeys, NoKey DEF Holds, Trees
<1>3. PICK p : p = Place(t, key)
  OBVIOUS
<1>4. FoundFrom(t.left, t.right, S, t.root, key, p)
  BY <1>1, <1>2, <1>3, PlaceIs
<1>5. /\ p \in C /\ p \in Keys /\ p # key
      /\ key < p => t.left[p] = NULL
      /\ p < key => t.right[p] = NULL
      /\ \A a \in C : (p \in S[t.left[a]] => key < a) /\ (p \in S[t.right[a]] => a < key)
  BY <1>1, <1>2, <1>4 DEF FoundFrom
<1>6. /\ u \in Trees /\ u.root = t.root
      /\ \A k \in Keys :
           /\ u.left[k] = IF k = p /\ key < p THEN key ELSE IF k = key THEN NULL ELSE t.left[k]
           /\ u.right[k] = IF k = p /\ p < key THEN key ELSE IF k = key THEN NULL ELSE t.right[k]
           /\ u.parent[k] = IF k = key THEN p ELSE t.parent[k]
           /\ u.depth[k] = IF k = key THEN 1 ELSE t.depth[k]
  BY <1>3 DEF Hung
<1>7. key < p \/ p < key
  BY <1>5, KeyOrder
<1>8. Nested(t.left, t.right, S, InKeyOrder) /\ Linked(t.left, t.right, t.parent) /\ t.parent[t.root] = NULL
  BY <1>1, <1>2 DEF Shaped
<1>9. \A k \in Keys : k \notin C => t.left[k] = NULL /\ t.right[k] = NULL /\ t.parent[k] = NULL /\ t.depth[k] = 1
  BY DEF Holds, Clean
<1>10. \A k \in C : /\ t.left[k] # NULL => t.left[k] \in C
                    /\ t.right[k] # NULL => t.right[k] \in C
                    /\ S[k] \subseteq C /\ S[t.left[k]] \subseteq C /\ S[t.right[k]] \subseteq C
                    /\ key \notin S[k] /\ key \notin S[t.left[k]] /\ key \notin S[t.right[k]]
  <2> SUFFICES ASSUME NEW k \in C
               PROVE  /\ t.left[k] # NULL => t.left[k] \in C
                      /\ t.right[k] # NULL => t.right[k] \in C
                      /\ S[k] \subseteq C /\ S[t.left[k]] \subseteq C /\ S[t.right[k]] \subseteq C
    OBVIOUS
  <2> QED
    BY <1>1, <1>2, <1>8, InTree, Sides
<1>11. key # NULL /\ key \in Pointers /\ \A k \in Keys : t.left[k] # key /\ t.right[k] # key /\ t.parent[k] # key
  <2> SUFFICES ASSUME NEW k \in Keys PROVE t.left[k] # key /\ t.right[k] # key /\ t.parent[k] # key
    BY NoKey
  <2>1. CASE k \in C
    BY <1>1, <1>10, <2>1, InTree, NoKey
  <2>2. CASE k \notin C
    BY <1>9, <2>2, NoKey
  <2> QED
    BY <2>1, <2>2
<1> DEFINE T == [m \in Pointers |-> IF m = key THEN {key} ELSE IF p \in S[m] THEN S[m] \cup {key} ELSE S[m]]
<1>12. /\ T \in [Pointers -> SUBSET Keys] /\ T[NULL] = {} /\ T[key] = {key}
       /\ \A m \in Pointers : m # key => T[m] = IF p \in S[m] THEN S[m] \cup {key} ELSE S[m]
  BY <1>8, <1>11, NoKey DEF Nested
<1> HIDE DEF T
<1>13. ASSUME NEW n \in Keys
       PROVE  /\ T[n] = {n} \cup T[u.left[n]] \cup T[u.right[n]]
              /\ \A x \in T[u.left[n]] : x < n
              /\ \A x \in T[u.right[n]] : n < x
  <2> DEFINE a == t.left[n]
             b == t.right[n]
  <2>1. /\ S[n] = {n} \cup S[a] \cup S[b] /\ a \in Pointers /\ b \in Pointers
        /\ \A x \in S[a] : x < n
        /\ \A x \in S[b] : n < x
    <3>1. S[a] \subseteq Keys /\ S[b] \subseteq Keys
      BY <1>8 DEF Nested
    <3> QED
      BY <1>8, <3>1, KeyOrder DEF Nested
  <2>2. a # key /\ b # key /\ n \in Pointers
    BY <1>11, NoKey
  <2>3. /\ u.left[n] = IF n = p /\ key < p THEN key ELSE IF n = key THEN NULL ELSE a
        /\ u.right[n] = IF n = p /\ p < key THEN key ELSE IF n = key THEN NULL ELSE b
    BY <1>6
  <2>4. (p \in S[a] => key < n) /\ (p \in S[b] => n < key)
    <3>1. n \notin C => a = NULL /\ b = NULL
      BY <1>9
    <3> QED
      BY <1>5, <1>8, <3>1 DEF Nested
  <2>5. n = p => p \notin S[a] /\ p \notin S[b]
    BY <1>8, Sides
  <2>6. T[a] = (IF p \in S[a] THEN S[a] \cup {key} ELSE S[a])
        /\ T[b] = (IF p \in S[b] THEN S[b] \cup {key} ELSE S[b])
    BY <1>12, <2>1, <2>2
  <2>7. (key < p => t.left[p] = NULL) /\ (p < key => t.right[p] = NULL) /\ S[NULL] = {}
    BY <1>5, <1>8 DEF Nested
  <2>8. ~(key < p /\ p < key)
    BY <1>5, KeyOrder
  <2>9. CASE n = key
    BY <1>5, <1>12, <2>3, <2>9
  <2>10. CASE n = p
    <3>1. T[n] = S[n] \cup {key}
      BY <1>5, <1>12, <2>1, <2>2, <2>10
    <3>2. a = NULL => S[a] = {}
      BY <2>7
    <3>3. b = NULL => S[b] = {}
      BY <2>7
    <3>4. CASE key < p
      <4>1. u.left[n] = key /\ u.right[n] = b /\ a = NULL
        BY <1>5, <2>3, <2>7, <2>8, <2>10, <3>4
      <4> QED
        BY <1>12, <2>1, <2>5, <2>6, <2>10, <3>1, <3>2, <3>4, <4>1
    <3>5. CASE p < key
      <4>1. u.right[n] = key /\ u.left[n] = a /\ b = NULL
        BY <1>5, <2>3, <2>7, <2>8, <2>10, <3>5
      <4> QED
        BY <1>12, <2>1, <2>5, <2>6, <2>10, <3>1, <3>3, <3>5, <4>1
    <3> QED
      BY <1>7, <3>4, <3>5
  <2>11. CASE n # key /\ n # p
    <3>1. u.left[n] = a /\ u.right[n] = b
      BY <2>3, <2>11
    <3>2. T[n] = IF p \in S[n] THEN S[n] \cup {key} ELSE S[n]
      BY <1>12, <2>2, <2>11
    <3>3. p \in S[n] <=> p \in S[a] \/ p \in S[b]
      BY <2>1, <2>11
    <3> QED
      BY <2>1, <2>4, <2>6, <3>1, <3>2, <3>3
  <2> QED
    BY <2>9, <2>10, <2>11
<1>14. /\ u.left \in [Keys -> Pointers] /\ u.right \in [Keys -> Pointers]
       /\ u.parent \in [Keys -> Pointers] /\ u.root \in Pointers
  BY <1>6 DEF Trees
<1>15. Nested(u.left, u.right, T, InKeyOrder)
  <2>1. \A n \in Keys : /\ u.left[n] \in Pointers /\ u.right[n] \in Pointers
                        /\ T[u.left[n]] \subseteq Keys /\ T[u.right[n]] \subseteq Keys
    BY <1>12, <1>14
  <2> QED
    BY <1>12, <1>13, <1>14, <2>1, KeyOrder DEF Nested
<1>16. Linked(u.left, u.right, u.parent)
  <2>1. ASSUME NEW n \in Keys
        PROVE  /\ u.left[n] # NULL => u.parent[u.left[n]] = n
               /\ u.right[n] # NULL => u.parent[u.right[n]] = n
               /\ u.parent[n] # NULL => u.left[u.parent[n]] = n \/ u.right[u.parent[n]] = n
    <3>1. /\ t.left[n] # NULL => t.left[n] \in Keys /\ t.parent[t.left[n]] = n /\ t.left[n] # key
          /\ t.right[n] # NULL => t.right[n] \in Keys /\ t.parent[t.right[n]] = n /\ t.right[n] # key
          /\ t.parent[n] # NULL => /\ t.parent[n] \in Keys /\ t.parent[n] # key
                                   /\ t.left[t.parent[n]] = n \/ t.right[t.parent[n]] = n
      BY <1>8, <1>11, NoKey DEF Linked, Nested
    <3>2. u.left[n] # NULL => u.parent[u.left[n]] = n
      BY <1>5, <1>6, <3>1
    <3>3. u.right[n] # NULL => u.parent[u.right[n]] = n
      BY <1>5, <1>6, <3>1
    <3>4. u.parent[n] # NULL => u.left[u.parent[n]] = n \/ u.right[u.parent[n]] = n
      <4>1. CASE n = key
        BY <1>5, <1>6, <1>7, <4>1
      <4>2. CASE n # key
        <5>1. u.parent[n] = t.parent[n]
          BY <1>6, <4>2
        <5>2. n \in C \/ t.parent[n] = NULL
          BY <1>9
        <5>3. n # NULL
          BY NoKey
        <5> QED
          BY <1>5, <1>6, <3>1, <4>2, <5>1, <5>3
      <4> QED
        BY <4>1, <4>2
    <3> QED
      BY <3>2, <3>3, <3>4
  <2> QED
    BY <1>14, <2>1 DEF Linked
<1>17. t.root # key /\ u.parent[u.root] = NULL
  <2>1. t.root \in C
    BY <1>1, <1>2, <1>8, Sides
  <2> QED
    BY <1>2, <1>6, <1>8, <2>1
<1>18. T[u.root] = C \cup {key}
  BY <1>1, <1>5, <1>6, <1>12, <1>14, <1>17
<1>19. TreeOf(u, C \cup {key}, InKeyOrder)
  BY <1>6, <1>15, <1>16, <1>17, <1>18 DEF TreeOf, Shaped
<1>20. Clean(u, C \cup {key})
  BY <1>5, <1>6, <1>9 DEF Clean
<1> QED
  BY <1>3, <1>5, <1>19, <1>20 DEF Holds

LEMMA CleanAfter ==
    ASSUME NEW t, NEW u, NEW C, Clean(t, C), SameOutside(t, u, C)
    PROVE  Clean(u, C)
  BY DEF Clean, SameOutside

\* A tree of one node.
LEMMA FirstHolds ==
    ASSUME NEW t, Holds(t, {}), NEW key \in Keys,
           NEW u, u = [NewNode(t, key) EXCEPT !.root = key]
    PROVE  Holds(u, {key})
<1>1. t \in Trees
  BY TreeOfKeys DEF Holds
<1>2. PICK v : v = NewNode(t, key)
  OBVIOUS
<1>3. Fresh(v, t, key)
  BY <1>1, <1>2, NewNodeIs
<1>4. \A k \in Keys : v.left[k] = NULL /\ v.right[k] = NULL /\ v.parent[k] = NULL /\ v.depth[k] = 1
  BY <1>3 DEF Holds, Clean, Fresh
<1>5. v \in Trees
  BY <1>3 DEF Fresh
<1>6. /\ u \in Trees /\ u.root = key /\ u.left = v.left /\ u.right = v.right
      /\ u.parent = v.parent /\ u.depth = v.depth
  <2>1. u = [v EXCEPT !.root = key]
    BY <1>2
  <2> QED
    BY <1>5, <2>1, NoKey DEF Trees
<1> DEFINE T == [m \in Pointers |-> IF m = NULL THEN {} ELSE {m}]
<1>7. T \in [Pointers -> SUBSET Keys] /\ T[NULL] = {} /\ \A m \in Keys : T[m] = {m}
  BY NoKey
<1> HIDE DEF T
<1>8. u.left \in [Keys -> Pointers] /\ u.right \in [Keys -> Pointers] /\ u.parent \in [Keys -> Pointers]
  BY <1>6 DEF Trees
<1>9. Nested(u.left, u.right, T, InKeyOrder)
  BY <1>4, <1>6, <1>7, <1>8, KeyOrder DEF Nested
<1>10. Linked(u.left, u.right, u.parent)
  BY <1>4, <1>6, <1>8 DEF Linked
<1>11. Shaped(u, T, InKeyOrder) /\ T[u.root] = {key}
  BY <1>4, <1>6, <1>7, <1>9, <1>10 DEF Shaped
<1> QED
  BY <1>4, <1>6, <1>11 DEF Holds, TreeOf, Clean

LEMMA AttachIs ==
    ASSUME NEW t, NEW key
    PROVE  Attach(t, key) = IF t.root = NULL THEN [NewNode(t, key) EXCEPT !.root = key]
                            ELSE Balancing(Unbalanced(t, key), Place(t, key))
  BY DEF Attach, Unbalanced

LEMMA AttachKeeps ==
    ASSUME NEW t, NEW C, Holds(t, C), NEW key \in Keys \ C
    PROVE  Holds(Attach(t, key), C \cup {key})
<1>1. t \in Trees /\ C \subseteq Keys /\ (t.root = NULL <=> C = {})
  BY TreeOfKeys DEF Holds
<1>2. CASE C = {}
  <2>1. Attach(t, key) = [NewNode(t, key) EXCEPT !.root = key]
    BY <1>1, <1>2, AttachIs
  <2>2. Holds(Attach(t, key), {key})
    BY <1>2, <2>1, FirstHolds
  <2> QED
    BY <1>2, <2>2
<1>3. CASE C # {}
  <2>1. PICK u : u = Unbalanced(t, key)
    OBVIOUS
  <2>2. Place(t, key) \in C
    <3>1. PICK S : Shaped(t, S, InKeyOrder) /\ S[t.root] = C
      BY DEF Holds, TreeOf
    <3> QED
      BY <1>1, <1>3, <3>1, PlaceIs DEF FoundFrom
  <2>3. Hung(t, u, key, Place(t, key))
    BY <1>1, <2>1, <2>2, UnbalancedIs
  <2>4. Holds(u, C \cup {key})
    BY <1>3, <2>3, HungHolds
  <2>5. PICK D, p : D = C \cup {key} /\ p = Place(t, key)
    OBVIOUS
  <2>6. TreeOf(u, D, InKeyOrder) /\ Clean(u, D) /\ p \in D \cup {NULL}
    BY <2>2, <2>4, <2>5 DEF Holds
  <2>7. Reshaped(u, Balancing(u, p), D, InKeyOrder)
    BY <2>6, BalancingKeeps
  <2>8. Holds(Balancing(u, p), D)
    BY <2>6, <2>7, CleanAfter DEF Reshaped, Holds
  <2>9. Attach(t, key) = Balancing(u, p)
    BY <1>1, <1>3, <2>1, <2>5, AttachIs
  <2> QED
    BY <2>5, <2>8, <2>9
<1> QED
  BY <1>2, <1>3

-----------------------------------------------------------------------------
(* Order *)

\* What is not below a node is before all that is, or behind all.
LEMMA Contiguous ==
    ASSUME NEW l, NEW r, NEW S, NEW pos, Nested(l, r, S, pos)
    PROVE  \A n \in Keys : \A m, k \in S[n] : k \notin S[m] =>
               (\A x \in S[m] : pos[k] < pos[x]) \/ (\A x \in S[m] : pos[x] < pos[k])
<1> DEFINE Apart(m, k) == (\A x \in S[m] : pos[k] < pos[x]) \/ (\A x \in S[m] : pos[x] < pos[k])
           P == {n \in Keys : \A m, k \in S[n] : k \notin S[m] => Apart(m, k)}
<1>1. ASSUME NEW n \in Keys, \A x \in Keys : x \in S[l[n]] \/ x \in S[r[n]] => x \in P
      PROVE  n \in P
  <2> SUFFICES ASSUME NEW m \in S[n], NEW k \in S[n], k \notin S[m]
               PROVE  Apart(m, k)
    OBVIOUS
  <2>1. /\ S[l[n]] \subseteq S[n] /\ S[r[n]] \subseteq S[n] /\ S[n] \subseteq Keys
        /\ \A x \in S[n] : x = n \/ x \in S[l[n]] \/ x \in S[r[n]]
        /\ l[n] # NULL => l[n] \in Keys /\ l[n] \in S[l[n]]
        /\ r[n] # NULL => r[n] \in Keys /\ r[n] \in S[r[n]]
    BY Sides
  <2>2. S[NULL] = {} /\ \A x, y \in Keys : pos[x] \in Int /\ pos[y] \in Int
    BY DEF Nested
  <2>3. (\A x \in S[l[n]] : pos[x] < pos[n]) /\ (\A x \in S[r[n]] : pos[n] < pos[x])
    BY DEF Nested
  <2>4. m # n
    BY <2>1, Sides
  <2>5. CASE m \in S[l[n]]
    <3>1. l[n] \in Keys /\ l[n] \in P /\ S[m] \subseteq S[l[n]]
      BY <1>1, <2>1, <2>2, <2>5, Transitive
    <3>2. CASE k \in S[l[n]]
      BY <2>5, <3>1, <3>2
    <3>3. CASE k = n
      BY <2>3, <3>1, <3>3
    <3>4. CASE k \in S[r[n]]
      <4>1. \A x \in S[m] : x \in Keys /\ pos[x] < pos[n]
        BY <2>1, <2>3, <3>1
      <4>2. pos[n] < pos[k] /\ k \in Keys
        BY <2>1, <2>3, <3>4
      <4>3. \A x \in S[m] : pos[x] < pos[k]
        BY <2>2, <4>1, <4>2
      <4> QED
        BY <4>3
    <3> QED
      BY <2>1, <3>2, <3>3, <3>4
  <2>6. CASE m \in S[r[n]]
    <3>1. r[n] \in Keys /\ r[n] \in P /\ S[m] \subseteq S[r[n]]
      BY <1>1, <2>1, <2>2, <2>6, Transitive
    <3>2. CASE k \in S[r[n]]
      BY <2>6, <3>1, <3>2
    <3>3. CASE k = n
      BY <2>3, <3>1, <3>3
    <3>4. CASE k \in S[l[n]]
      <4>1. \A x \in S[m] : x \in Keys /\ pos[n] < pos[x]
        BY <2>1, <2>3, <3>1
      <4>2. pos[k] < pos[n] /\ k \in Keys
        BY <2>1, <2>3, <3>4
      <4>3. \A x \in S[m] : pos[k] < pos[x]
        BY <2>2, <4>1, <4>2
      <4> QED
        BY <4>3
    <3> QED
      BY <2>1, <3>2, <3>3, <3>4
  <2> QED
    BY <2>1, <2>4, <2>5, <2>6
<1> HIDE DEF P
<1>2. Keys \subseteq P
  BY <1>1, FromBelow
<1> QED
  BY <1>2 DEF P

-----------------------------------------------------------------------------
(* Two nodes change places *)

\* Names given to nodes, each other's names.
Renaming(f) ==
    /\ f \in [Pointers -> Pointers] /\ f[NULL] = NULL
    /\ \A k \in Keys : f[k] \in Keys /\ f[f[k]] = k

\* The same nodes under their other names.
Renamed(l, r, p, l1, r1, p1, f) ==
    /\ l1 \in [Keys -> Pointers] /\ r1 \in [Keys -> Pointers] /\ p1 \in [Keys -> Pointers]
    /\ \A k \in Keys : /\ l1[k] = f[l[f[k]]]
                       /\ r1[k] = f[r[f[k]]]
                       /\ p1[k] = f[p[f[k]]]

BelowRenamed(S, f) == [m \in Pointers |-> {k \in Keys : f[k] \in S[f[m]]}]
OrderRenamed(pos, f) == [k \in Keys |-> pos[f[k]]]

LEMMA RenamedRooted ==
    ASSUME NEW l, NEW r, NEW p, NEW S, NEW pos, NEW root, Rooted(l, r, p, S, pos, root),
           NEW f, Renaming(f), NEW l1, NEW r1, NEW p1, Renamed(l, r, p, l1, r1, p1, f)
    PROVE  Rooted(l1, r1, p1, BelowRenamed(S, f), OrderRenamed(pos, f), f[root])
<1>1. /\ f \in [Pointers -> Pointers] /\ f[NULL] = NULL
      /\ \A k \in Keys : f[k] \in Keys /\ f[f[k]] = k
      /\ \A k \in Pointers : f[k] \in Pointers /\ f[f[k]] = k /\ (f[k] = NULL => k = NULL)
  <2>1. ASSUME NEW k \in Pointers PROVE f[f[k]] = k /\ (f[k] = NULL => k = NULL)
    BY NoKey DEF Renaming
  <2> QED
    BY <2>1 DEF Renaming
<1>2. PICK T, q : T = BelowRenamed(S, f) /\ q = OrderRenamed(pos, f)
  OBVIOUS
<1>3. /\ l \in [Keys -> Pointers] /\ r \in [Keys -> Pointers] /\ p \in [Keys -> Pointers]
      /\ S \in [Pointers -> SUBSET Keys] /\ S[NULL] = {} /\ pos \in [Keys -> Int]
      /\ root \in Keys /\ p[root] = NULL
  BY DEF Rooted, Nested, Linked
<1>4. /\ T \in [Pointers -> SUBSET Keys] /\ q \in [Keys -> Int]
      /\ \A m \in Pointers, k \in Keys : k \in T[m] <=> f[k] \in S[f[m]]
      /\ \A k \in Keys : q[k] = pos[f[k]]
  BY <1>1, <1>2, <1>3 DEF BelowRenamed, OrderRenamed
<1>5. ASSUME NEW n \in Keys
      PROVE  /\ T[n] = {n} \cup T[l1[n]] \cup T[r1[n]]
             /\ \A x \in T[l1[n]] : q[x] < q[n]
             /\ \A x \in T[r1[n]] : q[n] < q[x]
  <2>1. PICK m \in Keys : m = f[n]
    BY <1>1
  <2>2. l1[n] = f[l[m]] /\ r1[n] = f[r[m]] /\ l[m] \in Pointers /\ r[m] \in Pointers
        /\ l1[n] \in Pointers /\ r1[n] \in Pointers
    BY <1>1, <1>3, <2>1 DEF Renamed
  <2>3. f[l1[n]] = l[m] /\ f[r1[n]] = r[m]
    BY <1>1, <2>2
  <2>4. /\ S[m] = {m} \cup S[l[m]] \cup S[r[m]]
        /\ \A x \in S[l[m]] : pos[x] < pos[m]
        /\ \A x \in S[r[m]] : pos[m] < pos[x]
    BY DEF Rooted, Nested
  <2>5. \A k \in Keys : /\ k \in T[n] <=> f[k] \in S[m]
                        /\ k \in T[l1[n]] <=> f[k] \in S[l[m]]
                        /\ k \in T[r1[n]] <=> f[k] \in S[r[m]]
                        /\ f[k] = m <=> k = n
    BY <1>1, <1>4, <2>1, <2>2, <2>3, NoKey
  <2>6. T[n] \subseteq Keys /\ T[l1[n]] \subseteq Keys /\ T[r1[n]] \subseteq Keys
    BY <1>4, <2>2, NoKey
  <2>7. T[n] = {n} \cup T[l1[n]] \cup T[r1[n]]
    BY <2>4, <2>5, <2>6
  <2> QED
    BY <1>4, <2>1, <2>4, <2>5, <2>6, <2>7
<1>6. T[NULL] = {}
  BY <1>1, <1>3, <1>4, NoKey
<1>7. l1 \in [Keys -> Pointers] /\ r1 \in [Keys -> Pointers] /\ p1 \in [Keys -> Pointers]
  BY DEF Renamed
<1>8. Nested(l1, r1, T, q)
  BY <1>4, <1>5, <1>6, <1>7 DEF Nested
<1>9. ASSUME NEW n \in Keys
      PROVE  /\ l1[n] # NULL => p1[l1[n]] = n
             /\ r1[n] # NULL => p1[r1[n]] = n
             /\ p1[n] # NULL => l1[p1[n]] = n \/ r1[p1[n]] = n
  <2>1. PICK m \in Keys : m = f[n] /\ f[m] = n
    BY <1>1
  <2>2. l1[n] = f[l[m]] /\ r1[n] = f[r[m]] /\ p1[n] = f[p[m]]
        /\ l[m] \in Pointers /\ r[m] \in Pointers /\ p[m] \in Pointers
    BY <1>1, <1>3, <2>1 DEF Renamed
  <2>3. /\ l[m] # NULL => p[l[m]] = m
        /\ r[m] # NULL => p[r[m]] = m
        /\ p[m] # NULL => l[p[m]] = m \/ r[p[m]] = m
    BY DEF Rooted, Linked
  <2>4. /\ l1[n] # NULL => l[m] # NULL /\ p1[l1[n]] = f[p[l[m]]]
        /\ r1[n] # NULL => r[m] # NULL /\ p1[r1[n]] = f[p[r[m]]]
        /\ p1[n] # NULL => p[m] # NULL /\ l1[p1[n]] = f[l[p[m]]] /\ r1[p1[n]] = f[r[p[m]]]
    <3>1. \A c \in Pointers : f[c] # NULL => c # NULL /\ f[c] \in Keys /\ f[f[c]] = c
      BY <1>1, NoKey
    <3> QED
      BY <2>2, <3>1 DEF Renamed
  <2> QED
    BY <2>1, <2>3, <2>4
<1>10. Linked(l1, r1, p1)
  BY <1>7, <1>9 DEF Linked
<1>11. f[root] \in Keys /\ p1[f[root]] = NULL
  BY <1>1, <1>3 DEF Renamed
<1> QED
  BY <1>2, <1>8, <1>10, <1>11 DEF Rooted

\* The names a and b, exchanged.
Swapping(a, b) == [k \in Pointers |-> IF k = a THEN b ELSE IF k = b THEN a ELSE k]

SwapsNames(f, a, b) ==
    /\ Renaming(f) /\ f[a] = b /\ f[b] = a
    /\ \A k \in Pointers : k # a /\ k # b => f[k] = k

LEMMA SwappingIs ==
    ASSUME NEW a \in Keys, NEW b \in Keys
    PROVE  SwapsNames(Swapping(a, b), a, b)
  BY NoKey DEF Renaming, Swapping, SwapsNames

\* In u, the children of n have n as their parent.
Adopted(u, t, n) ==
    /\ u \in Trees /\ u.root = t.root /\ u.left = t.left /\ u.right = t.right
    /\ u.depth = t.depth /\ u.fault = t.fault /\ u.misjudged = t.misjudged
    /\ \A k \in Keys : u.parent[k] = IF k = t.left[n] \/ k = t.right[n] THEN n ELSE t.parent[k]

LEMMA AdoptIs ==
    ASSUME NEW t \in Trees, NEW n \in Keys
    PROVE  Adopted(Adopt(t, n), t, n)
<1>1. PICK a, b, v, u : /\ a = t.left[n] /\ b = t.right[n]
                        /\ v = SetParent(t, a, n) /\ u = SetParent(v, b, n)
  OBVIOUS
<1>2. a \in Pointers /\ b \in Pointers /\ n \in Pointers
  BY <1>1, NoKey DEF Trees
<1>3. Reparented(v, t, a, n)
  BY <1>1, <1>2, SetParentIs
<1>4. v \in Trees
  BY <1>3 DEF Reparented
<1>5. Reparented(u, v, b, n)
  BY <1>1, <1>2, <1>4, SetParentIs
<1>6. u = Adopt(t, n)
  BY <1>1 DEF Adopt
<1>7. Adopted(u, t, n)
  BY <1>1, <1>3, <1>5 DEF Reparented, Adopted
<1> QED
  BY <1>6, <1>7

\* h is g with the values for a and b exchanged.
Crossed(h, g, V, a, b) ==
    /\ h \in [Keys -> V]
    /\ \A k \in Keys : h[k] = IF k = a THEN g[b] ELSE IF k = b THEN g[a] ELSE g[k]

LEMMA ExchangedIs ==
    ASSUME NEW V, NEW g \in [Keys -> V], NEW a \in Keys, NEW b \in Keys
    PROVE  Crossed(Exchanged(g, a, b), g, V, a, b)
  BY DEF Exchanged, Crossed

\* In v, the fields of a and b have changed hands; b was below a.
Traded(v, t, a, b) ==
    /\ v \in Trees /\ v.root = t.root /\ v.fault = t.fault /\ v.misjudged = t.misjudged
    /\ \A k \in Keys :
         /\ v.parent[k] = IF k = a THEN (IF t.parent[b] = a THEN b ELSE t.parent[b])
                          ELSE IF k = b THEN t.parent[a] ELSE t.parent[k]
         /\ v.left[k] = IF k = a THEN t.left[b]
                        ELSE IF k = b THEN (IF t.left[a] = b THEN a ELSE t.left[a]) ELSE t.left[k]
         /\ v.right[k] = IF k = a THEN t.right[b]
                         ELSE IF k = b THEN (IF t.right[a] = b THEN a ELSE t.right[a]) ELSE t.right[k]
         /\ v.depth[k] = IF t.parent[b] = a \/ k \notin {a, b} THEN t.depth[k]
                         ELSE IF k = a THEN t.depth[b] ELSE t.depth[a]

LEMMA SwapWithChildIs ==
    ASSUME NEW t \in Trees, NEW a \in Keys, NEW b \in Keys, a # b, t.parent[b] = a,
           \/ t.left[a] = b /\ t.right[a] # b
           \/ t.right[a] = b /\ t.left[a] # b
    PROVE  Traded(SwapWithChild(t, a, b), t, a, b)
<1>1. PICK up : up = [t EXCEPT !.parent[b] = t.parent[a], !.parent[a] = b]
  OBVIOUS
<1>2. /\ up \in Trees /\ up.root = t.root /\ up.left = t.left /\ up.right = t.right
      /\ up.depth = t.depth /\ up.fault = t.fault /\ up.misjudged = t.misjudged
      /\ \A k \in Keys : up.parent[k] = IF k = a THEN b ELSE IF k = b THEN t.parent[a] ELSE t.parent[k]
  BY <1>1, NoKey DEF Trees
<1>3. /\ t.left \in [Keys -> Pointers] /\ t.right \in [Keys -> Pointers] /\ t.parent \in [Keys -> Pointers]
      /\ a \in Pointers /\ b \in Pointers
  BY NoKey DEF Trees
<1>4. CASE t.left[a] = b /\ t.right[a] # b
  <2>1. PICK e : e = Exchanged(t.right, a, b)
    OBVIOUS
  <2>2. /\ e \in [Keys -> Pointers]
        /\ \A k \in Keys : e[k] = IF k = a THEN t.right[b] ELSE IF k = b THEN t.right[a] ELSE t.right[k]
    <3>1. Crossed(e, t.right, Pointers, a, b)
      BY <1>3, <2>1, ExchangedIs
    <3> QED
      BY <3>1 DEF Crossed
  <2>3. PICK v : v = [up EXCEPT !.left[b] = a, !.left[a] = t.left[b], !.right = e]
    OBVIOUS
  <2>4. SwapWithChild(t, a, b) = v
    BY <1>1, <1>2, <1>4, <2>1, <2>3 DEF SwapWithChild
  <2>5. /\ v \in Trees /\ v.root = t.root /\ v.right = e /\ v.parent = up.parent
        /\ v.depth = t.depth /\ v.fault = t.fault /\ v.misjudged = t.misjudged
        /\ \A k \in Keys : v.left[k] = IF k = a THEN t.left[b] ELSE IF k = b THEN a ELSE t.left[k]
    BY <1>2, <1>3, <2>2, <2>3 DEF Trees
  <2>6. Traded(v, t, a, b)
    BY <1>2, <1>4, <2>2, <2>5 DEF Traded
  <2> QED
    BY <2>4, <2>6
<1>5. CASE t.right[a] = b /\ t.left[a] # b
  <2>1. PICK e : e = Exchanged(t.left, a, b)
    OBVIOUS
  <2>2. /\ e \in [Keys -> Pointers]
        /\ \A k \in Keys : e[k] = IF k = a THEN t.left[b] ELSE IF k = b THEN t.left[a] ELSE t.left[k]
    <3>1. Crossed(e, t.left, Pointers, a, b)
      BY <1>3, <2>1, ExchangedIs
    <3> QED
      BY <3>1 DEF Crossed
  <2>3. PICK v : v = [up EXCEPT !.right[b] = a, !.right[a] = t.right[b], !.left = e]
    OBVIOUS
  <2>4. SwapWithChild(t, a, b) = v
    BY <1>1, <1>2, <1>5, <2>1, <2>3 DEF SwapWithChild
  <2>5. /\ v \in Trees /\ v.root = t.root /\ v.left = e /\ v.parent = up.parent
        /\ v.depth = t.depth /\ v.fault = t.fault /\ v.misjudged = t.misjudged
        /\ \A k \in Keys : v.right[k] = IF k = a THEN t.right[b] ELSE IF k = b THEN a ELSE t.right[k]
    BY <1>2, <1>3, <2>2, <2>3 DEF Trees
  <2>6. Traded(v, t, a, b)
    BY <1>2, <1>5, <2>2, <2>5 DEF Traded
  <2> QED
    BY <2>4, <2>6
<1> QED
  BY <1>4, <1>5

LEMMA ApartIs ==
    ASSUME NEW t \in Trees, NEW a \in Keys, NEW b \in Keys, a # b, t.parent[b] # a,
           t.left[a] # b, t.right[a] # b
    PROVE  Traded([t EXCEPT !.parent = Exchanged(@, a, b), !.left = Exchanged(@, a, b),
                            !.right = Exchanged(@, a, b), !.depth = Exchanged(@, a, b)], t, a, b)
<1>1. PICK p, l, r, d : /\ p = Exchanged(t.parent, a, b) /\ l = Exchanged(t.left, a, b)
                        /\ r = Exchanged(t.right, a, b) /\ d = Exchanged(t.depth, a, b)
  OBVIOUS
<1>2. /\ t.left \in [Keys -> Pointers] /\ t.right \in [Keys -> Pointers] /\ t.parent \in [Keys -> Pointers]
      /\ t.depth \in [Keys -> Nat]
  BY DEF Trees
<1>3. Crossed(p, t.parent, Pointers, a, b) /\ Crossed(l, t.left, Pointers, a, b)
  BY <1>1, <1>2, ExchangedIs
<1>4. Crossed(r, t.right, Pointers, a, b) /\ Crossed(d, t.depth, Nat, a, b)
  BY <1>1, <1>2, ExchangedIs
<1>7. PICK v : v = [t EXCEPT !.parent = p, !.left = l, !.right = r, !.depth = d]
  OBVIOUS
<1>8. /\ v \in Trees /\ v.root = t.root /\ v.fault = t.fault /\ v.misjudged = t.misjudged
      /\ v.parent = p /\ v.left = l /\ v.right = r /\ v.depth = d
  BY <1>3, <1>4, <1>7 DEF Trees, Crossed
<1>9. Traded(v, t, a, b)
  BY <1>3, <1>4, <1>8 DEF Traded, Crossed
<1> QED
  BY <1>1, <1>7, <1>9

\* What swapPosition does to a node and one below it: the tree is the same, with
\* the two names exchanged; the depths stay with the names if b was a child of a.
LEMMA SwapIs ==
    ASSUME NEW t, NEW S, NEW pos, Shaped(t, S, pos), NEW a \in S[t.root], NEW b \in S[a], a # b,
           NEW f, f = Swapping(a, b), NEW u, u = swapPosition(t, a, b)
    PROVE  /\ u \in Trees /\ u.fault = t.fault /\ u.misjudged = t.misjudged
           /\ u.root = f[t.root]
           /\ Renamed(t.left, t.right, t.parent, u.left, u.right, u.parent, f)
           /\ \A k \in Keys : u.depth[k] = IF t.parent[b] = a \/ k \notin {a, b} THEN t.depth[k]
                                           ELSE IF k = a THEN t.depth[b] ELSE t.depth[a]
<1>1. /\ t \in Trees /\ a \in Keys /\ b \in Keys /\ a \in Pointers /\ b \in Pointers
      /\ t.root \in Keys /\ Nested(t.left, t.right, S, pos) /\ Linked(t.left, t.right, t.parent)
      /\ t.root \in Pointers
      /\ t.parent[a] \in Pointers /\ t.parent[b] \in Pointers
  <2>1. a \in Keys /\ t.root \in Keys
    BY InTree
  <2>2. b \in Keys
    BY <2>1, Sides DEF Shaped
  <2> QED
    BY <2>1, <2>2, NoKey DEF Shaped, Trees
<1>2. t.parent[b] # NULL /\ t.parent[b] \in Keys /\ t.parent[b] # b
  BY <1>1, ParentsBelow, AtParent, NoKey
<1>3. t.parent[a] # b /\ t.parent[a] # a /\ a \notin S[b]
  <2>1. a \notin S[b]
    BY <1>1, Antisymmetric
  <2>2. t.parent[a] # NULL => t.parent[a] \in Keys /\ t.parent[a] # a /\ a \in S[t.parent[a]]
    BY <1>1, AtParent, Sides
  <2> QED
    BY <1>1, <2>1, <2>2, NoKey
<1>4. \A k \in Keys : /\ t.left[k] # NULL => t.left[k] \in Keys /\ t.parent[t.left[k]] = k
                      /\ t.right[k] # NULL => t.right[k] \in Keys /\ t.parent[t.right[k]] = k
                      /\ t.parent[k] # NULL => /\ t.parent[k] \in Keys
                                               /\ \/ t.left[t.parent[k]] = k /\ t.right[t.parent[k]] # k
                                                  \/ t.right[t.parent[k]] = k /\ t.left[t.parent[k]] # k
  <2>1. ASSUME NEW k \in Keys
        PROVE  /\ t.left[k] # NULL => t.left[k] \in Keys /\ t.parent[t.left[k]] = k
               /\ t.right[k] # NULL => t.right[k] \in Keys /\ t.parent[t.right[k]] = k
    BY <1>1, Sides DEF Linked
  <2>2. ASSUME NEW k \in Keys, t.parent[k] # NULL
        PROVE  /\ t.parent[k] \in Keys
               /\ \/ t.left[t.parent[k]] = k /\ t.right[t.parent[k]] # k
                  \/ t.right[t.parent[k]] = k /\ t.left[t.parent[k]] # k
    BY <1>1, <2>2, AtParent
  <2> QED
    BY <2>1, <2>2
<1> DEFINE moved ==
             CASE t.parent[a] = b -> [SwapWithChild(t, b, a) EXCEPT !.depth = Exchanged(@, a, b)]
               [] t.parent[b] = a -> SwapWithChild(t, a, b)
               [] OTHER -> [t EXCEPT !.parent = Exchanged(@, a, b), !.left = Exchanged(@, a, b),
                                     !.right = Exchanged(@, a, b), !.depth = Exchanged(@, a, b)]
           adopted == Adopt(Adopt(moved, a), b)
           pinned  == PutChild(adopted, getPosition(t, b), adopted.parent[a], a)
<1>5. u = PutChild(pinned, getPosition(t, a), pinned.parent[b], b)
  BY DEF swapPosition
<1>6. Traded(moved, t, a, b)
  <2>1. CASE t.parent[b] = a
    <3>1. \/ t.left[a] = b /\ t.right[a] # b
          \/ t.right[a] = b /\ t.left[a] # b
      BY <1>1, <1>4, <2>1, NoKey
    <3>2. Traded(SwapWithChild(t, a, b), t, a, b)
      BY <1>1, <2>1, <3>1, SwapWithChildIs
    <3>3. moved = SwapWithChild(t, a, b)
      BY <1>3, <2>1
    <3> QED
      BY <3>2, <3>3
  <2>2. CASE t.parent[b] # a
    <3>1. t.left[a] # b /\ t.right[a] # b
      BY <1>1, <1>4, <2>2, NoKey
    <3>2. PICK v : v = [t EXCEPT !.parent = Exchanged(@, a, b), !.left = Exchanged(@, a, b),
                                 !.right = Exchanged(@, a, b), !.depth = Exchanged(@, a, b)]
      OBVIOUS
    <3>3. Traded(v, t, a, b)
      BY <1>1, <2>2, <3>1, <3>2, ApartIs
    <3>4. moved = v
      BY <1>3, <2>2, <3>2
    <3> QED
      BY <3>3, <3>4
  <2> QED
    BY <2>1, <2>2
<1> HIDE DEF moved
<1>7. /\ adopted \in Trees /\ adopted.root = t.root /\ adopted.left = moved.left /\ adopted.right = moved.right
      /\ adopted.depth = moved.depth /\ adopted.fault = t.fault /\ adopted.misjudged = t.misjudged
      /\ \A k \in Keys : adopted.parent[k] =
            IF k = moved.left[b] \/ k = moved.right[b] THEN b
            ELSE IF k = moved.left[a] \/ k = moved.right[a] THEN a ELSE moved.parent[k]
  <2>1. PICK v : v = Adopt(moved, a)
    OBVIOUS
  <2>2. Adopted(v, moved, a)
    BY <1>1, <1>6, <2>1, AdoptIs DEF Traded
  <2>3. adopted = Adopt(v, b) /\ v \in Trees
    BY <2>1, <2>2 DEF Adopted
  <2>4. Adopted(adopted, v, b)
    BY <1>1, <2>3, AdoptIs
  <2> HIDE DEF adopted
  <2> QED
    BY <1>6, <2>2, <2>4 DEF Adopted, Traded
<1> HIDE DEF adopted
<1>8. \A k \in Keys :
         /\ moved.parent[k] = IF k = a THEN (IF t.parent[b] = a THEN b ELSE t.parent[b])
                              ELSE IF k = b THEN t.parent[a] ELSE t.parent[k]
         /\ moved.left[k] = IF k = a THEN t.left[b]
                            ELSE IF k = b THEN (IF t.left[a] = b THEN a ELSE t.left[a]) ELSE t.left[k]
         /\ moved.right[k] = IF k = a THEN t.right[b]
                             ELSE IF k = b THEN (IF t.right[a] = b THEN a ELSE t.right[a]) ELSE t.right[k]
         /\ moved.depth[k] = IF t.parent[b] = a \/ k \notin {a, b} THEN t.depth[k]
                             ELSE IF k = a THEN t.depth[b] ELSE t.depth[a]
  BY <1>6 DEF Traded
<1>9. /\ f[NULL] = NULL /\ f[a] = b /\ f[b] = a /\ f \in [Pointers -> Pointers]
      /\ \A k \in Pointers : k # a /\ k # b => f[k] = k
  <2>1. SwapsNames(f, a, b)
    BY <1>1, SwappingIs
  <2> QED
    BY <2>1 DEF SwapsNames, Renaming
<1>10. \A k \in Keys : adopted.parent[k] = f[t.parent[f[k]]]
  <2> SUFFICES ASSUME NEW k \in Keys PROVE adopted.parent[k] = f[t.parent[f[k]]]
    OBVIOUS
  <2>1. t.parent[k] \in Pointers /\ k \in Pointers /\ k # NULL
    BY NoKey DEF Shaped, Trees
  <2>2. adopted.parent[k] =
            IF k = moved.left[b] \/ k = moved.right[b] THEN b
            ELSE IF k = moved.left[a] \/ k = moved.right[a] THEN a ELSE moved.parent[k]
    BY <1>7
  <2>3. /\ moved.left[a] = t.left[b] /\ moved.right[a] = t.right[b]
        /\ moved.left[b] = (IF t.left[a] = b THEN a ELSE t.left[a])
        /\ moved.right[b] = (IF t.right[a] = b THEN a ELSE t.right[a])
    BY <1>1, <1>8
  <2>4. CASE k = a
    <3>1. k # moved.left[a] /\ k # moved.right[a]
      BY <1>1, <1>3, <1>4, <2>1, <2>3, <2>4
    <3>2. CASE t.parent[b] = a
      <4>1. k = moved.left[b] \/ k = moved.right[b]
        BY <1>1, <1>4, <2>3, <2>4, <3>2, NoKey
      <4> QED
        BY <1>9, <2>2, <2>4, <3>2, <4>1
    <3>3. CASE t.parent[b] # a
      <4>1. k # moved.left[b] /\ k # moved.right[b]
        BY <1>1, <1>2, <1>3, <1>4, <2>1, <2>3, <2>4, <3>3, NoKey
      <4>2. adopted.parent[k] = t.parent[b]
        BY <1>8, <2>2, <2>4, <3>1, <3>3, <4>1
      <4> QED
        BY <1>1, <1>2, <1>9, <2>4, <3>3, <4>2
    <3> QED
      BY <3>2, <3>3
  <2>5. CASE k = b
    <3>1. k # moved.left[a] /\ k # moved.right[a] /\ k # moved.left[b] /\ k # moved.right[b]
      BY <1>1, <1>2, <1>4, <2>1, <2>3, <2>5
    <3>2. adopted.parent[k] = t.parent[a]
      BY <1>1, <1>8, <2>2, <2>5, <3>1
    <3> QED
      BY <1>1, <1>3, <1>9, <2>5, <3>2
  <2>6. CASE k # a /\ k # b
    <3>1. f[k] = k /\ moved.parent[k] = t.parent[k]
      BY <1>8, <1>9, <2>1, <2>6
    <3>2. /\ t.parent[k] = a <=> k = moved.left[b] \/ k = moved.right[b]
          /\ t.parent[k] = b <=> k = moved.left[a] \/ k = moved.right[a]
      BY <1>1, <1>4, <2>1, <2>3, <2>6, NoKey
    <3> QED
      BY <1>1, <1>9, <2>1, <2>2, <3>1, <3>2
  <2> QED
    BY <2>4, <2>5, <2>6
<1>11. /\ adopted.parent[a] = (IF t.parent[b] = a THEN b ELSE t.parent[b])
       /\ adopted.parent[b] = t.parent[a] /\ adopted.parent[a] \in Keys
  BY <1>1, <1>2, <1>3, <1>9, <1>10
<1>12. /\ getPosition(t, b) \in {"left", "right"}
       /\ getPosition(t, b) = "left" <=> t.left[t.parent[b]] = b
       /\ getPosition(t, b) = "right" <=> t.right[t.parent[b]] = b
  BY <1>1, <1>2, PositionIs
<1>13. /\ getPosition(t, a) \in {"left", "right", "root"}
       /\ getPosition(t, a) = "root" <=> t.parent[a] = NULL
       /\ getPosition(t, a) = "left" <=> t.parent[a] # NULL /\ t.left[t.parent[a]] = a
       /\ getPosition(t, a) = "right" <=> t.parent[a] # NULL /\ t.right[t.parent[a]] = a
  BY <1>1, PositionIs
<1>14. /\ pinned \in Trees /\ pinned.parent = adopted.parent /\ pinned.depth = adopted.depth
       /\ pinned.fault = adopted.fault /\ pinned.misjudged = adopted.misjudged
       /\ pinned.root = adopted.root
       /\ \A k \in Keys :
            /\ pinned.left[k] = IF getPosition(t, b) = "left" /\ k = adopted.parent[a] THEN a ELSE adopted.left[k]
            /\ pinned.right[k] = IF getPosition(t, b) = "right" /\ k = adopted.parent[a] THEN a ELSE adopted.right[k]
  <2>1. PICK side, p : side = getPosition(t, b) /\ p = adopted.parent[a]
    OBVIOUS
  <2>2. side \in {"left", "right"} /\ p \in Keys /\ p \in Pointers
    BY <1>11, <1>12, <2>1, NoKey
  <2>3. pinned = PutChild(adopted, side, p, a)
    BY <2>1
  <2> HIDE DEF pinned
  <2> QED
    BY <1>1, <1>7, <2>1, <2>2, <2>3, PutChildIs
<1> HIDE DEF pinned
<1>15. /\ u \in Trees /\ u.parent = pinned.parent /\ u.depth = pinned.depth
       /\ u.fault = pinned.fault /\ u.misjudged = pinned.misjudged
       /\ u.root = IF getPosition(t, a) \in {"left", "right"} THEN pinned.root ELSE b
       /\ \A k \in Keys :
            /\ u.left[k] = IF getPosition(t, a) = "left" /\ k = pinned.parent[b] THEN b ELSE pinned.left[k]
            /\ u.right[k] = IF getPosition(t, a) = "right" /\ k = pinned.parent[b] THEN b ELSE pinned.right[k]
  <2>1. PICK side, p : side = getPosition(t, a) /\ p = pinned.parent[b]
    OBVIOUS
  <2>2. p = t.parent[a] /\ p \in Pointers /\ (side \in {"left", "right"} => p \in Keys)
    BY <1>1, <1>11, <1>13, <1>14, <2>1, NoKey
  <2>3. u = PutChild(pinned, side, p, b)
    BY <1>5, <2>1
  <2> QED
    BY <1>1, <1>14, <2>1, <2>2, <2>3, PutChildIs
<1>16. u.root = f[t.root]
  <2>1. t.parent[t.root] = NULL /\ t.root # b
    BY <1>1, <1>2, NoKey DEF Shaped
  <2>2. t.parent[a] = NULL <=> a = t.root
    BY <2>1, InTree
  <2> QED
    BY <1>1, <1>7, <1>9, <1>13, <1>14, <1>15, <2>1, <2>2
<1>17. \A k \in Keys : u.left[k] = f[t.left[f[k]]]
  <2> SUFFICES ASSUME NEW k \in Keys PROVE u.left[k] = f[t.left[f[k]]]
    OBVIOUS
  <2>1. t.left[k] \in Pointers /\ k \in Pointers /\ k # NULL /\ t.left[a] \in Pointers /\ t.left[b] \in Pointers
    BY <1>1, NoKey DEF Nested
  <2>2. u.left[k] = IF getPosition(t, a) = "left" /\ k = t.parent[a] THEN b
                    ELSE IF getPosition(t, b) = "left" /\ k = adopted.parent[a] THEN a ELSE moved.left[k]
    BY <1>7, <1>11, <1>14, <1>15
  <2>3. CASE k = a
    <3>1. t.left[b] # a /\ t.left[b] # b
      BY <1>1, <1>2, <1>3, <1>4, NoKey
    <3>2. adopted.parent[a] # a
      BY <1>1, <1>11
    <3>3. u.left[k] = t.left[b]
      BY <1>1, <1>3, <1>8, <2>2, <2>3, <3>2
    <3> QED
      BY <1>9, <2>1, <2>3, <3>1, <3>3
  <2>4. CASE k = b
    <3>1. t.left[a] # a
      BY <1>1, <1>3, <1>4, NoKey
    <3>2. CASE t.parent[b] = a
      <4>1. u.left[k] = IF t.left[a] = b THEN a ELSE t.left[a]
        BY <1>1, <1>3, <1>8, <1>11, <1>12, <2>2, <2>4, <3>2
      <4> QED
        BY <1>9, <2>1, <2>4, <3>1, <4>1
    <3>3. CASE t.parent[b] # a
      <4>1. t.left[a] # b
        BY <1>1, <1>4, <3>3, NoKey
      <4>2. u.left[k] = t.left[a]
        BY <1>1, <1>2, <1>3, <1>8, <1>11, <2>2, <2>4, <3>3, <4>1
      <4> QED
        BY <1>9, <2>1, <2>4, <3>1, <4>1, <4>2
    <3> QED
      BY <3>2, <3>3
  <2>5. CASE k # a /\ k # b
    <3>1. f[k] = k /\ moved.left[k] = t.left[k]
      BY <1>8, <1>9, <2>1, <2>5
    <3>2. t.left[k] = a <=> getPosition(t, a) = "left" /\ k = t.parent[a]
      BY <1>1, <1>4, <1>13, <2>1, NoKey
    <3>3. t.left[k] = b <=> getPosition(t, b) = "left" /\ k = adopted.parent[a]
      BY <1>1, <1>2, <1>4, <1>11, <1>12, <2>1, <2>5, NoKey
    <3> QED
      BY <1>9, <2>1, <2>2, <3>1, <3>2, <3>3
  <2> QED
    BY <2>3, <2>4, <2>5
<1>18. \A k \in Keys : u.right[k] = f[t.right[f[k]]]
  <2> SUFFICES ASSUME NEW k \in Keys PROVE u.right[k] = f[t.right[f[k]]]
    OBVIOUS
  <2>1. t.right[k] \in Pointers /\ k \in Pointers /\ k # NULL /\ t.right[a] \in Pointers /\ t.right[b] \in Pointers
    BY <1>1, NoKey DEF Nested
  <2>2. u.right[k] = IF getPosition(t, a) = "right" /\ k = t.parent[a] THEN b
                     ELSE IF getPosition(t, b) = "right" /\ k = adopted.parent[a] THEN a ELSE moved.right[k]
    BY <1>7, <1>11, <1>14, <1>15
  <2>3. CASE k = a
    <3>1. t.right[b] # a /\ t.right[b] # b
      BY <1>1, <1>2, <1>3, <1>4, NoKey
    <3>2. adopted.parent[a] # a
      BY <1>1, <1>11
    <3>3. u.right[k] = t.right[b]
      BY <1>1, <1>3, <1>8, <2>2, <2>3, <3>2
    <3> QED
      BY <1>9, <2>1, <2>3, <3>1, <3>3
  <2>4. CASE k = b
    <3>1. t.right[a] # a
      BY <1>1, <1>3, <1>4, NoKey
    <3>2. CASE t.parent[b] = a
      <4>1. u.right[k] = IF t.right[a] = b THEN a ELSE t.right[a]
        BY <1>1, <1>3, <1>8, <1>11, <1>12, <2>2, <2>4, <3>2
      <4> QED
        BY <1>9, <2>1, <2>4, <3>1, <4>1
    <3>3. CASE t.parent[b] # a
      <4>1. t.right[a] # b
        BY <1>1, <1>4, <3>3, NoKey
      <4>2. u.right[k] = t.right[a]
        BY <1>1, <1>2, <1>3, <1>8, <1>11, <2>2, <2>4, <3>3, <4>1
      <4> QED
        BY <1>9, <2>1, <2>4, <3>1, <4>1, <4>2
    <3> QED
      BY <3>2, <3>3
  <2>5. CASE k # a /\ k # b
    <3>1. f[k] = k /\ moved.right[k] = t.right[k]
      BY <1>8, <1>9, <2>1, <2>5
    <3>2. t.right[k] = a <=> getPosition(t, a) = "right" /\ k = t.parent[a]
      BY <1>1, <1>4, <1>13, <2>1, NoKey
    <3>3. t.right[k] = b <=> getPosition(t, b) = "right" /\ k = adopted.parent[a]
      BY <1>1, <1>2, <1>4, <1>11, <1>12, <2>1, <2>5, NoKey
    <3> QED
      BY <1>9, <2>1, <2>2, <3>1, <3>2, <3>3
  <2> QED
    BY <2>3, <2>4, <2>5
<1>19. \A k \in Keys : u.parent[k] = f[t.parent[f[k]]]
  BY <1>10, <1>14, <1>15
<1>20. Renamed(t.left, t.right, t.parent, u.left, u.right, u.parent, f)
  BY <1>15, <1>17, <1>18, <1>19 DEF Renamed, Trees
<1>21. \A k \in Keys : u.depth[k] = IF t.parent[b] = a \/ k \notin {a, b} THEN t.depth[k]
                                    ELSE IF k = a THEN t.depth[b] ELSE t.depth[a]
  BY <1>7, <1>8, <1>14, <1>15
<1> QED
  BY <1>7, <1>14, <1>15, <1>16, <1>20, <1>21

-----------------------------------------------------------------------------
(* A node leaves the tree *)

\* In u, n and what is below it hang from nothing.
Unpinned(u, t, n) ==
    /\ u \in Trees /\ u.depth = t.depth /\ u.fault = t.fault /\ u.misjudged = t.misjudged
    /\ u.root = IF t.parent[n] = NULL THEN NULL ELSE t.root
    /\ \A k \in Keys : /\ u.left[k] = IF k = t.parent[n] /\ t.left[k] = n THEN NULL ELSE t.left[k]
                       /\ u.right[k] = IF k = t.parent[n] /\ t.right[k] = n THEN NULL ELSE t.right[k]
                       /\ u.parent[k] = IF k = n THEN NULL ELSE t.parent[k]

LEMMA UnpinIs ==
    ASSUME NEW t, NEW S, NEW pos, Shaped(t, S, pos), NEW n \in Keys
    PROVE  Unpinned(unpin(t, n), t, n)
<1>1. PICK side, p, v, u : /\ side = getPosition(t, n) /\ p = t.parent[n]
                           /\ v = PutChild(t, side, p, NULL)
                           /\ u = [v EXCEPT !.parent[n] = NULL]
  OBVIOUS
<1>2. u = unpin(t, n)
  BY <1>1 DEF unpin
<1>3. /\ t \in Trees /\ Nested(t.left, t.right, S, pos) /\ Linked(t.left, t.right, t.parent)
      /\ p \in Pointers
  BY <1>1 DEF Shaped, Trees
<1>4. /\ side \in {"left", "right", "root"}
      /\ side = "root" <=> p = NULL
      /\ side = "left" <=> p # NULL /\ t.left[p] = n
      /\ side = "right" <=> p # NULL /\ t.right[p] = n
  BY <1>1, <1>3, PositionIs
<1>5. /\ v \in Trees /\ v.parent = t.parent /\ v.depth = t.depth
      /\ v.fault = t.fault /\ v.misjudged = t.misjudged
      /\ v.root = IF side \in {"left", "right"} THEN t.root ELSE NULL
      /\ \A k \in Keys :
           /\ v.left[k] = IF side = "left" /\ k = p THEN NULL ELSE t.left[k]
           /\ v.right[k] = IF side = "right" /\ k = p THEN NULL ELSE t.right[k]
  <2>1. NULL \in Pointers /\ (side \in {"left", "right"} => p \in Keys)
    BY <1>3, <1>4, NoKey
  <2> QED
    BY <1>1, <1>3, <2>1, PutChildIs
<1>6. /\ u \in Trees /\ u.root = v.root /\ u.left = v.left /\ u.right = v.right
      /\ u.depth = v.depth /\ u.fault = v.fault /\ u.misjudged = v.misjudged
      /\ \A k \in Keys : u.parent[k] = IF k = n THEN NULL ELSE t.parent[k]
  BY <1>1, <1>5, NoKey DEF Trees
<1>7. \A k \in Keys : k # NULL
  BY NoKey
<1>8. Unpinned(u, t, n)
  BY <1>1, <1>4, <1>5, <1>6, <1>7 DEF Unpinned
<1> QED
  BY <1>2, <1>8

\* What is below each node then.
Freed(u, t, S, T, n, pos) ==
    /\ Shaped(u, T, pos) /\ T[u.root] = S[t.root] \ S[n]
    /\ \A m \in Pointers : T[m] = IF m # n /\ n \in S[m] THEN S[m] \ S[n] ELSE S[m]

LEMMA UnpinnedShape ==
    ASSUME NEW t, NEW S, NEW pos, Shaped(t, S, pos), NEW n \in S[t.root],
           NEW u, Unpinned(u, t, n)
    PROVE  \E T : Freed(u, t, S, T, n, pos)
<1>1. /\ t \in Trees /\ Nested(t.left, t.right, S, pos) /\ Linked(t.left, t.right, t.parent)
      /\ n \in Keys /\ t.root \in Keys /\ t.parent[t.root] = NULL /\ n \in S[n]
      /\ t.root \in Pointers /\ S[NULL] = {}
      /\ t.parent[n] = NULL <=> n = t.root
  <2>1. n \in Keys /\ t.root \in Keys /\ t.root # NULL /\ t.root \in Pointers
    BY InTree, NoKey
  <2>2. t.parent[t.root] = NULL
    BY <2>1 DEF Shaped
  <2>3. t \in Trees /\ Nested(t.left, t.right, S, pos) /\ Linked(t.left, t.right, t.parent)
    BY DEF Shaped
  <2>4. S[NULL] = {}
    BY <2>3 DEF Nested
  <2>5. n \in S[n]
    BY <2>1, <2>3, Sides
  <2>6. t.parent[n] = NULL <=> n = t.root
    BY <2>2, InTree
  <2> QED
    BY <2>1, <2>2, <2>3, <2>4, <2>5, <2>6
<1>2. \A k \in Keys : /\ t.left[k] \in Pointers /\ t.right[k] \in Pointers /\ t.parent[k] \in Pointers
                      /\ t.left[k] # NULL => t.left[k] \in Keys /\ t.parent[t.left[k]] = k
                      /\ t.right[k] # NULL => t.right[k] \in Keys /\ t.parent[t.right[k]] = k
                      /\ t.parent[k] # NULL => /\ t.parent[k] \in Keys
                                               /\ t.left[t.parent[k]] = k \/ t.right[t.parent[k]] = k
  BY <1>1, NoKey DEF Linked, Nested
<1>3. /\ u \in Trees /\ u.root = IF t.parent[n] = NULL THEN NULL ELSE t.root
      /\ \A k \in Keys : /\ u.left[k] = IF t.left[k] = n THEN NULL ELSE t.left[k]
                         /\ u.right[k] = IF t.right[k] = n THEN NULL ELSE t.right[k]
                         /\ u.parent[k] = IF k = n THEN NULL ELSE t.parent[k]
  BY <1>1, <1>2, NoKey DEF Unpinned
<1> DEFINE T == [m \in Pointers |-> IF m # n /\ n \in S[m] THEN S[m] \ S[n] ELSE S[m]]
<1>4. /\ T \in [Pointers -> SUBSET Keys] /\ T[NULL] = {}
      /\ \A m \in Pointers : T[m] = IF m # n /\ n \in S[m] THEN S[m] \ S[n] ELSE S[m]
  <2>1. S \in [Pointers -> SUBSET Keys]
    BY <1>1 DEF Nested
  <2>2. NULL \in Pointers
    BY NoKey
  <2>3. \A m \in Pointers : T[m] = IF m # n /\ n \in S[m] THEN S[m] \ S[n] ELSE S[m]
    OBVIOUS
  <2>4. T \in [Pointers -> SUBSET Keys]
    BY <2>1
  <2>5. T[NULL] = {}
    BY <1>1, <2>2, <2>3
  <2> QED
    BY <2>3, <2>4, <2>5
<1> HIDE DEF T
<1>5. ASSUME NEW k \in Keys
      PROVE  /\ T[k] = {k} \cup T[u.left[k]] \cup T[u.right[k]]
             /\ \A x \in T[u.left[k]] : x \in Keys /\ pos[x] < pos[k]
             /\ \A x \in T[u.right[k]] : x \in Keys /\ pos[k] < pos[x]
  <2> DEFINE a == t.left[k]
             b == t.right[k]
  <2>1. /\ S[k] = {k} \cup S[a] \cup S[b] /\ a \in Pointers /\ b \in Pointers
        /\ \A x \in S[a] : x \in Keys /\ pos[x] < pos[k]
        /\ \A x \in S[b] : x \in Keys /\ pos[k] < pos[x]
        /\ S[a] \cap S[b] = {} /\ k \notin S[a] /\ k \notin S[b] /\ k \in Pointers
    BY <1>1, Sides, NoKey DEF Nested
  <2>2. n \in S[a] => S[n] \subseteq S[a] /\ S[n] \cap S[b] = {} /\ k \notin S[n] /\ k # n
    <3>1. n \in S[a] => a \in Keys
      BY <1>1, <2>1, NoKey
    <3>2. n \in S[a] => S[n] \subseteq S[a]
      BY <1>1, <3>1, Transitive
    <3> QED
      BY <2>1, <3>2
  <2>3. n \in S[b] => S[n] \subseteq S[b] /\ S[n] \cap S[a] = {} /\ k \notin S[n] /\ k # n
    <3>1. n \in S[b] => b \in Keys
      BY <1>1, <2>1, NoKey
    <3>2. n \in S[b] => S[n] \subseteq S[b]
      BY <1>1, <3>1, Transitive
    <3> QED
      BY <2>1, <3>2
  <2>4. T[u.left[k]] = IF n \in S[a] THEN S[a] \ S[n] ELSE S[a]
    <3>1. CASE a = n
      <4>1. u.left[k] = NULL
        BY <1>3, <3>1
      <4> QED
        BY <1>1, <1>4, <3>1, <4>1
    <3>2. CASE a # n
      <4>1. u.left[k] = a
        BY <1>3, <3>2
      <4> QED
        BY <1>4, <2>1, <3>2, <4>1
    <3> QED
      BY <3>1, <3>2
  <2>5. T[u.right[k]] = IF n \in S[b] THEN S[b] \ S[n] ELSE S[b]
    <3>1. CASE b = n
      <4>1. u.right[k] = NULL
        BY <1>3, <3>1
      <4> QED
        BY <1>1, <1>4, <3>1, <4>1
    <3>2. CASE b # n
      <4>1. u.right[k] = b
        BY <1>3, <3>2
      <4> QED
        BY <1>4, <2>1, <3>2, <4>1
    <3> QED
      BY <3>1, <3>2
  <2>6. T[k] = IF k # n /\ n \in S[k] THEN S[k] \ S[n] ELSE S[k]
    BY <1>4, <2>1
  <2> HIDE DEF a, b
  <2>7. T[k] = {k} \cup T[u.left[k]] \cup T[u.right[k]]
    BY <2>1, <2>2, <2>3, <2>4, <2>5, <2>6
  <2> QED
    BY <2>1, <2>4, <2>5, <2>7
<1>6. /\ u.left \in [Keys -> Pointers] /\ u.right \in [Keys -> Pointers]
      /\ u.parent \in [Keys -> Pointers]
  BY <1>3 DEF Trees
<1>7. Nested(u.left, u.right, T, pos)
  BY <1>1, <1>4, <1>5, <1>6 DEF Nested
<1>8. Linked(u.left, u.right, u.parent)
  <2>1. ASSUME NEW k \in Keys
        PROVE  /\ u.left[k] # NULL => u.parent[u.left[k]] = k
               /\ u.right[k] # NULL => u.parent[u.right[k]] = k
               /\ u.parent[k] # NULL => u.left[u.parent[k]] = k \/ u.right[u.parent[k]] = k
    <3>1. u.left[k] # NULL => u.parent[u.left[k]] = k
      BY <1>2, <1>3
    <3>2. u.right[k] # NULL => u.parent[u.right[k]] = k
      BY <1>2, <1>3
    <3>3. u.parent[k] # NULL => u.left[u.parent[k]] = k \/ u.right[u.parent[k]] = k
      BY <1>2, <1>3
    <3> QED
      BY <3>1, <3>2, <3>3
  <2> QED
    BY <1>6, <2>1 DEF Linked
<1>9. u.root # NULL => u.parent[u.root] = NULL
  BY <1>1, <1>3
<1>10. T[u.root] = S[t.root] \ S[n]
  <2>1. CASE n = t.root
    BY <1>1, <1>3, <1>4, <2>1
  <2>2. CASE n # t.root
    BY <1>1, <1>3, <1>4, <2>2
  <2> QED
    BY <2>1, <2>2
<1>11. Shaped(u, T, pos)
  BY <1>3, <1>7, <1>8, <1>9 DEF Shaped
<1> QED
  BY <1>4, <1>10, <1>11 DEF Freed

LEMMA UnpinnedTree ==
    ASSUME NEW t, NEW S, NEW pos, Shaped(t, S, pos), NEW n \in S[t.root],
           NEW u, Unpinned(u, t, n)
    PROVE  TreeOf(u, S[t.root] \ S[n], pos)
  BY UnpinnedShape DEF TreeOf, Freed

-----------------------------------------------------------------------------
(* Two nodes of a tree change places, one of them below the other *)

\* On the nodes of D, the order of the tree is that of the keys.
Agrees(pos, D) == \A x, y \in D : pos[x] < pos[y] => x < y

\* In u, b stands where a stood, above the same nodes, and a where b did.
Swapped(u, t, S, T, a, b, pos) ==
    /\ Shaped(u, T, OrderRenamed(pos, Swapping(a, b)))
    /\ T[u.root] = S[t.root] /\ T[a] = (S[b] \ {b}) \cup {a}
    /\ u.left[a] = t.left[b] /\ u.right[a] = t.right[b]
    /\ u.fault = t.fault /\ u.misjudged = t.misjudged

LEMMA SwapShapes ==
    ASSUME NEW t, NEW S, NEW pos, Shaped(t, S, pos), NEW a \in S[t.root], NEW b \in S[a], a # b
    PROVE  \E T : Swapped(swapPosition(t, a, b), t, S, T, a, b, pos)
<1>1. PICK u, f, T : u = swapPosition(t, a, b) /\ f = Swapping(a, b) /\ T = BelowRenamed(S, f)
  OBVIOUS
<1>2. /\ u \in Trees /\ u.fault = t.fault /\ u.misjudged = t.misjudged /\ u.root = f[t.root]
      /\ Renamed(t.left, t.right, t.parent, u.left, u.right, u.parent, f)
  BY <1>1, SwapIs
<1>3. /\ t \in Trees /\ Nested(t.left, t.right, S, pos) /\ Linked(t.left, t.right, t.parent)
  BY DEF Shaped
<1>4. /\ a \in Keys /\ t.root \in Keys /\ S[a] \subseteq S[t.root] /\ S[t.root] \subseteq Keys
      /\ t.root # NULL
  BY InTree
<1>5. b \in Keys /\ b \in S[t.root] /\ S[b] \subseteq Keys
  BY <1>3, <1>4, Sides
<1>6. SwapsNames(f, a, b)
  BY <1>1, <1>4, <1>5, SwappingIs
<1>7. Renaming(f) /\ f[a] = b /\ f[b] = a /\ \A k \in Pointers : k # a /\ k # b => f[k] = k
  BY <1>6 DEF SwapsNames
<1>8. Rooted(t.left, t.right, t.parent, S, pos, t.root)
  BY <1>4, ShapedRooted
<1>9. Rooted(u.left, u.right, u.parent, T, OrderRenamed(pos, f), u.root)
  BY <1>1, <1>2, <1>7, <1>8, RenamedRooted
<1>10. Shaped(u, T, OrderRenamed(pos, f))
  BY <1>2, <1>9, RootedShaped
<1>11. /\ f \in [Pointers -> Pointers] /\ \A k \in Keys : f[k] \in Keys /\ f[f[k]] = k
       /\ Pointers = Keys \cup {NULL} /\ NULL \notin Keys
  BY <1>7, NoKey DEF Renaming
<1>12. \A m \in Pointers : T[m] = {k \in Keys : f[k] \in S[f[m]]}
  BY <1>1 DEF BelowRenamed
<1>13. T[u.root] = S[t.root]
  <2>1. u.root \in Pointers /\ f[u.root] = t.root
    BY <1>2, <1>4, <1>11
  <2>2. T[u.root] = {k \in Keys : f[k] \in S[t.root]}
    BY <1>12, <2>1
  <2>3. \A k \in Keys : f[k] \in S[t.root] <=> k \in S[t.root]
    BY <1>4, <1>5, <1>7, <1>11
  <2> QED
    BY <1>4, <2>2, <2>3
<1>14. T[a] = (S[b] \ {b}) \cup {a}
  <2>1. a \notin S[b]
    BY <1>3, <1>4, Antisymmetric
  <2>2. b \in S[b]
    BY <1>3, <1>5, Sides
  <2>3. T[a] = {k \in Keys : f[k] \in S[b]}
    BY <1>4, <1>7, <1>11, <1>12
  <2>4. \A k \in Keys : f[k] \in S[b] <=> k \in (S[b] \ {b}) \cup {a}
    BY <1>4, <1>5, <1>7, <1>11, <2>1, <2>2
  <2> QED
    BY <1>4, <1>5, <2>3, <2>4
<1>15. u.left[a] = t.left[b] /\ u.right[a] = t.right[b]
  <2>1. u.left[a] = f[t.left[b]] /\ u.right[a] = f[t.right[b]]
    BY <1>2, <1>4, <1>7 DEF Renamed
  <2>2. /\ t.left[b] \in Pointers /\ t.right[b] \in Pointers /\ t.left[b] # b /\ t.right[b] # b
    BY <1>3, <1>5, <1>11, Sides
  <2>3. t.left[b] # a /\ t.right[b] # a
    <3>1. a \notin S[b]
      BY <1>3, <1>4, Antisymmetric
    <3>2. a \in S[a]
      BY <1>3, <1>4, Sides
    <3> QED
      BY <1>3, <1>5, <3>1, <3>2, Sides
  <2> QED
    BY <1>7, <2>1, <2>2, <2>3
<1> QED
  BY <1>1, <1>2, <1>10, <1>13, <1>14, <1>15 DEF Swapped

\* a goes, and b takes its place in the order: none of the nodes that stay
\* stood between the two.
LEMMA Vacated ==
    ASSUME NEW pos, NEW D, D \subseteq Keys, NEW a \in Keys, NEW b \in Keys, a # b, a \notin D,
           pos \in [Keys -> Int], Agrees(pos, D),
           \A k \in D : k # b => /\ pos[k] < pos[a] => pos[k] < pos[b]
                                 /\ pos[a] < pos[k] => pos[b] < pos[k]
    PROVE  Agrees(OrderRenamed(pos, Swapping(a, b)), D)
<1>1. PICK f, q : f = Swapping(a, b) /\ q = OrderRenamed(pos, f)
  OBVIOUS
<1>2. SwapsNames(f, a, b)
  BY <1>1, SwappingIs
<1>3. f[b] = a /\ \A k \in Keys : k # a /\ k # b => f[k] = k
  BY <1>2, NoKey DEF SwapsNames
<1>4. \A k \in Keys : q[k] = pos[f[k]]
  BY <1>1 DEF OrderRenamed
<1>5. \A k \in D : q[k] = IF k = b THEN pos[a] ELSE pos[k]
  BY <1>3, <1>4
<1>6. ASSUME NEW x \in D, NEW y \in D, q[x] < q[y]
      PROVE  x < y
  <2>1. CASE x = b
    <3>1. y # b /\ pos[a] < pos[y]
      BY <1>5, <1>6, <2>1
    <3>2. pos[x] < pos[y]
      BY <2>1, <3>1
    <3> QED
      BY <3>2 DEF Agrees
  <2>2. CASE x # b /\ y = b
    <3>1. pos[x] < pos[a]
      BY <1>5, <1>6, <2>2
    <3>2. pos[x] < pos[y]
      BY <2>2, <3>1
    <3> QED
      BY <3>2 DEF Agrees
  <2>3. CASE x # b /\ y # b
    <3>1. pos[x] < pos[y]
      BY <1>5, <1>6, <2>3
    <3> QED
      BY <3>1 DEF Agrees
  <2> QED
    BY <2>1, <2>2, <2>3
<1>7. Agrees(q, D)
  BY <1>6 DEF Agrees
<1> QED
  BY <1>1, <1>7

-----------------------------------------------------------------------------
(* A node with at most one child leaves the tree *)

OnlyChild(t, n) == IF t.left[n] # NULL THEN t.left[n] ELSE t.right[n]
Taken(t, n) == unpin(IF OnlyChild(t, n) = NULL THEN t ELSE swapPosition(t, n, OnlyChild(t, n)), n)

\* What stays: all but n, or, when n has a child, none of those below the child.
Left(t, S, n) ==
    IF OnlyChild(t, n) = NULL THEN S[t.root] \ {n}
    ELSE (S[t.root] \ S[n]) \cup {OnlyChild(t, n)}

LEMMA TakenTree ==
    ASSUME NEW t, NEW S, NEW pos, Shaped(t, S, pos), NEW n \in S[t.root],
           t.left[n] = NULL \/ t.right[n] = NULL, Agrees(pos, S[t.root] \ {n})
    PROVE  /\ \E q : TreeOf(Taken(t, n), Left(t, S, n), q) /\ Agrees(q, Left(t, S, n))
           /\ Left(t, S, n) \subseteq S[t.root] \ {n}
           /\ OnlyChild(t, n) # NULL => OnlyChild(t, n) \in Left(t, S, n)
           /\ OnlyChild(t, n) = NULL => t.parent[n] \in Left(t, S, n) \cup {NULL}
<1>1. /\ t \in Trees /\ Nested(t.left, t.right, S, pos) /\ Linked(t.left, t.right, t.parent)
  BY DEF Shaped
<1>2. /\ n \in Keys /\ S[n] \subseteq S[t.root] /\ S[t.root] \subseteq Keys
      /\ t.parent[n] # NULL => t.parent[n] \in S[t.root]
  BY InTree
<1>3. S[NULL] = {} /\ S[n] = {n} \cup S[t.left[n]] \cup S[t.right[n]] /\ pos \in [Keys -> Int]
  BY <1>1, <1>2 DEF Nested
<1>4. PICK c : c = OnlyChild(t, n)
  OBVIOUS
<1>5. /\ c # NULL => /\ S[n] = {n} \cup S[c] /\ c \in Keys /\ c \in S[c] /\ c \in S[n] /\ c # n
                     /\ n \notin S[c] /\ S[c] \subseteq S[n]
      /\ c = NULL => S[n] = {n}
  BY <1>1, <1>2, <1>3, <1>4, Sides DEF OnlyChild
<1>6. CASE c = NULL
  <2>1. PICK u : u = unpin(t, n)
    OBVIOUS
  <2>2. Unpinned(u, t, n)
    BY <1>2, <2>1, UnpinIs
  <2>3. TreeOf(u, S[t.root] \ S[n], pos)
    BY <2>2, UnpinnedTree
  <2>4. t.parent[n] # NULL => t.parent[n] # n
    BY <1>1, <1>2, AtParent
  <2>5. Left(t, S, n) = S[t.root] \ {n} /\ S[n] = {n}
    BY <1>4, <1>5, <1>6 DEF Left
  <2>6. Taken(t, n) = u
    BY <1>4, <1>6, <2>1 DEF Taken
  <2> QED
    BY <1>2, <1>4, <1>6, <2>3, <2>4, <2>5, <2>6
<1>7. CASE c # NULL
  <2>1. PICK u : u = swapPosition(t, n, c)
    OBVIOUS
  <2>2. PICK T : Swapped(u, t, S, T, n, c, pos)
    BY <1>5, <1>7, <2>1, SwapShapes
  <2>3. PICK q : q = OrderRenamed(pos, Swapping(n, c))
    OBVIOUS
  <2>4. Shaped(u, T, q) /\ T[u.root] = S[t.root] /\ T[n] = (S[c] \ {c}) \cup {n}
    BY <2>2, <2>3 DEF Swapped
  <2>5. PICK w : w = unpin(u, n)
    OBVIOUS
  <2>6. Unpinned(w, u, n)
    BY <1>2, <2>4, <2>5, UnpinIs
  <2>7. TreeOf(w, T[u.root] \ T[n], q)
    BY <2>4, <2>6, UnpinnedTree
  <2>8. PICK D : D = Left(t, S, n)
    OBVIOUS
  <2>9. D = (S[t.root] \ S[n]) \cup {c}
    BY <1>4, <1>7, <2>8 DEF Left
  <2>10. T[u.root] \ T[n] = D
    BY <1>2, <1>5, <1>7, <2>4, <2>9
  <2>11. D \subseteq S[t.root] \ {n} /\ c \in D
    BY <1>2, <1>5, <1>7, <2>9
  <2>12. Agrees(pos, D)
    BY <2>11 DEF Agrees
  <2>13. ASSUME NEW k \in D, k # c
         PROVE  /\ pos[k] < pos[n] => pos[k] < pos[c]
                /\ pos[n] < pos[k] => pos[c] < pos[k]
    <3>1. k \in S[t.root] /\ k \notin S[n]
      BY <2>9, <2>13
    <3>2. t.root \in Keys
      BY InTree
    <3>3. (\A x \in S[n] : pos[k] < pos[x]) \/ (\A x \in S[n] : pos[x] < pos[k])
      BY <1>1, <3>1, <3>2, Contiguous
    <3>4. pos[k] \in Int /\ pos[n] \in Int /\ pos[c] \in Int
      BY <1>2, <1>3, <1>5, <1>7, <3>1
    <3> QED
      BY <1>5, <1>7, <3>3, <3>4
  <2>14. Agrees(q, D)
    BY <1>2, <1>3, <1>5, <1>7, <2>3, <2>11, <2>12, <2>13, Vacated
  <2>15. Taken(t, n) = w
    BY <1>4, <1>7, <2>1, <2>5 DEF Taken
  <2> QED
    BY <1>4, <1>7, <2>7, <2>8, <2>10, <2>11, <2>14, <2>15
<1> QED
  BY <1>6, <1>7

-----------------------------------------------------------------------------
(* Any node leaves the tree: one with two children first changes places with *)
(* the next one.                                                             *)

Lowered(t, n) ==
    IF t.left[n] # NULL /\ t.right[n] # NULL
    THEN swapPosition(t, n, minKeyNode(t, t.right[n])) ELSE t

LEMMA DetachIs ==
    ASSUME NEW t, NEW n, NEW climb
    PROVE  Detach(t, n, climb) =
             Balancing(Taken(Lowered(t, n), n),
                       IF OnlyChild(Lowered(t, n), n) # NULL THEN OnlyChild(Lowered(t, n), n)
                       ELSE IF climb THEN Lowered(t, n).parent[n] ELSE NULL)
  BY DEF Detach, Taken, OnlyChild, Lowered

LEMMA LoweredTree ==
    ASSUME NEW t, NEW S, Shaped(t, S, InKeyOrder), NEW n \in S[t.root]
    PROVE  \E T, q : /\ Shaped(Lowered(t, n), T, q) /\ T[Lowered(t, n).root] = S[t.root]
                     /\ Lowered(t, n).left[n] = NULL \/ Lowered(t, n).right[n] = NULL
                     /\ Agrees(q, S[t.root] \ {n})
<1>1. /\ t \in Trees /\ Nested(t.left, t.right, S, InKeyOrder) /\ Linked(t.left, t.right, t.parent)
  BY DEF Shaped
<1>2. n \in Keys /\ S[n] \subseteq S[t.root] /\ S[t.root] \subseteq Keys /\ t.root \in Keys
  BY InTree
<1>3. PICK pos : pos = InKeyOrder
  OBVIOUS
<1>4. pos \in [Keys -> Int] /\ \A k \in Keys : pos[k] = k /\ k \in Nat
  BY <1>3, KeyOrder
<1>5. Agrees(pos, S[t.root] \ {n})
  BY <1>2, <1>4 DEF Agrees
<1>6. CASE ~(t.left[n] # NULL /\ t.right[n] # NULL)
  <2>1. Lowered(t, n) = t
    BY <1>6 DEF Lowered
  <2> QED
    BY <1>3, <1>5, <1>6, <2>1
<1>7. CASE t.left[n] # NULL /\ t.right[n] # NULL
  <2>1. PICK b : b = minKeyNode(t, t.right[n])
    OBVIOUS
  <2>2. /\ t.right[n] \in Keys /\ S[t.right[n]] \subseteq S[n] /\ n \notin S[t.right[n]]
    BY <1>1, <1>2, <1>7, Sides
  <2>3. /\ b \in S[t.right[n]] /\ t.left[b] = NULL
        /\ \A x \in S[t.right[n]] : x # b => pos[b] < pos[x]
    BY <1>1, <1>3, <2>1, <2>2, MinKeyNodeIs
  <2>4. b \in S[n] /\ b # n /\ b \in Keys /\ b \in S[t.root]
    BY <1>2, <2>2, <2>3
  <2>5. PICK u, T, q : /\ u = swapPosition(t, n, b) /\ q = OrderRenamed(pos, Swapping(n, b))
                       /\ Swapped(u, t, S, T, n, b, pos)
    <3>1. \E T : Swapped(swapPosition(t, n, b), t, S, T, n, b, pos)
      BY <1>3, <2>4, SwapShapes
    <3> QED
      BY <3>1
  <2>6. Shaped(u, T, q) /\ T[u.root] = S[t.root] /\ u.left[n] = NULL
    BY <2>3, <2>5 DEF Swapped
  <2>7. ASSUME NEW k \in S[t.root] \ {n}, k # b
        PROVE  /\ pos[k] < pos[n] => pos[k] < pos[b]
               /\ pos[n] < pos[k] => pos[b] < pos[k]
    <3>1. k \in Keys /\ pos[k] \in Int /\ pos[n] \in Int /\ pos[b] \in Int
      BY <1>2, <1>4, <2>4, <2>7
    <3>2. pos[n] < pos[b]
      BY <1>1, <1>2, <1>3, <2>3 DEF Nested
    <3>3. CASE k \in S[n]
      <4>1. k \in S[t.left[n]] \/ k \in S[t.right[n]]
        BY <1>1, <1>2, <2>7, <3>3, Sides
      <4>2. k \in S[t.left[n]] => pos[k] < pos[n]
        BY <1>1, <1>2, <1>3 DEF Nested
      <4>3. k \in S[t.right[n]] => pos[b] < pos[k]
        BY <2>3, <2>7
      <4> QED
        BY <3>1, <3>2, <4>1, <4>2, <4>3
    <3>4. CASE k \notin S[n]
      <4>1. (\A x \in S[n] : pos[k] < pos[x]) \/ (\A x \in S[n] : pos[x] < pos[k])
        BY <1>1, <1>2, <1>3, <2>7, <3>4, Contiguous
      <4>2. n \in S[n]
        BY <1>1, <1>2, Sides
      <4> QED
        BY <2>4, <3>1, <4>1, <4>2
    <3> QED
      BY <3>3, <3>4
  <2>8. Agrees(q, S[t.root] \ {n})
    <3>1. PICK D : D = S[t.root] \ {n}
      OBVIOUS
    <3>2. Agrees(q, D)
      BY <1>2, <1>4, <1>5, <2>4, <2>5, <2>7, <3>1, Vacated
    <3> QED
      BY <3>1, <3>2
  <2>9. Lowered(t, n) = u
    BY <1>7, <2>1, <2>5 DEF Lowered
  <2> QED
    BY <2>6, <2>8, <2>9
<1> QED
  BY <1>6, <1>7

-----------------------------------------------------------------------------
(* What an extraction leaves is a search tree again *)

LEMMA ReachableIs ==
    ASSUME NEW t \in Trees, NEW C, C \subseteq Keys, Contents(t) = C,
           NEW u, u = Reachable(t), \A k \in C : t.depth[k] \in Nat
    PROVE  /\ u.root = t.root /\ u.fault = t.fault /\ u.misjudged = t.misjudged
           /\ u.left \in [Keys -> Pointers] /\ u.right \in [Keys -> Pointers]
           /\ u.parent \in [Keys -> Pointers] /\ u.depth \in [Keys -> Nat]
           /\ u \in Trees
           /\ \A k \in Keys : /\ u.left[k] = IF k \in C THEN t.left[k] ELSE NULL
                              /\ u.right[k] = IF k \in C THEN t.right[k] ELSE NULL
                              /\ u.parent[k] = IF k \in C THEN t.parent[k] ELSE NULL
                              /\ u.depth[k] = IF k \in C THEN t.depth[k] ELSE 1
<1>1. PICK l, r, p, d : /\ l = [k \in Keys |-> IF k \in C THEN t.left[k] ELSE NULL]
                        /\ r = [k \in Keys |-> IF k \in C THEN t.right[k] ELSE NULL]
                        /\ p = [k \in Keys |-> IF k \in C THEN t.parent[k] ELSE NULL]
                        /\ d = [k \in Keys |-> IF k \in C THEN t.depth[k] ELSE 1]
  OBVIOUS
<1>2. /\ l \in [Keys -> Pointers] /\ r \in [Keys -> Pointers] /\ p \in [Keys -> Pointers]
      /\ d \in [Keys -> Nat]
      /\ t.root \in Pointers /\ t.fault \in BOOLEAN /\ t.misjudged \in BOOLEAN
  BY <1>1, NoKey DEF Trees
<1>3. u = [t EXCEPT !.left = l, !.right = r, !.parent = p, !.depth = d]
  BY <1>1 DEF Reachable
<1>4. /\ u.left = l /\ u.right = r /\ u.parent = p /\ u.depth = d
      /\ u.root = t.root /\ u.fault = t.fault /\ u.misjudged = t.misjudged
      /\ u \in Trees
  BY <1>2, <1>3 DEF Trees
<1>5. \A k \in Keys : /\ l[k] = IF k \in C THEN t.left[k] ELSE NULL
                      /\ r[k] = IF k \in C THEN t.right[k] ELSE NULL
                      /\ p[k] = IF k \in C THEN t.parent[k] ELSE NULL
                      /\ d[k] = IF k \in C THEN t.depth[k] ELSE 1
  BY <1>1
<1> QED
  BY <1>2, <1>4, <1>5

LEMMA ReachableHolds ==
    ASSUME NEW t, NEW C, NEW pos, TreeOf(t, C, pos), Agrees(pos, C)
    PROVE  Holds(Reachable(t), C)
<1>1. PICK S : Shaped(t, S, pos) /\ S[t.root] = C
  BY DEF TreeOf
<1>2. /\ t \in Trees /\ Nested(t.left, t.right, S, pos) /\ Linked(t.left, t.right, t.parent)
      /\ t.root \in Pointers /\ t.depth \in [Keys -> Nat] /\ C \subseteq Keys
  BY <1>1, TreeOfKeys DEF Shaped, Trees
<1>3. PICK u : u = Reachable(t)
  OBVIOUS
<1>4. Contents(t) = C
  BY <1>1, <1>2, BelowIs DEF Contents
<1>5. /\ u.root = t.root
      /\ u.left \in [Keys -> Pointers] /\ u.right \in [Keys -> Pointers]
      /\ u.parent \in [Keys -> Pointers] /\ u \in Trees
      /\ \A k \in Keys : /\ u.left[k] = IF k \in C THEN t.left[k] ELSE NULL
                         /\ u.right[k] = IF k \in C THEN t.right[k] ELSE NULL
                         /\ u.parent[k] = IF k \in C THEN t.parent[k] ELSE NULL
                         /\ u.depth[k] = IF k \in C THEN t.depth[k] ELSE 1
  BY <1>2, <1>3, <1>4, ReachableIs
<1>6. NULL \notin Keys /\ Pointers = Keys \cup {NULL}
  BY NoKey
<1>7. \A k \in C : /\ k \in Keys /\ S[k] \subseteq C
                   /\ t.left[k] # NULL => t.left[k] \in C
                   /\ t.right[k] # NULL => t.right[k] \in C
                   /\ t.parent[k] # NULL => t.parent[k] \in C
  BY <1>1, InTree
<1>8. PICK T : T = [m \in Pointers |-> IF m \in C THEN S[m] ELSE IF m = NULL THEN {} ELSE {m}]
  OBVIOUS
<1>9. /\ T[NULL] = {}
      /\ \A m \in Keys : T[m] = IF m \in C THEN S[m] ELSE {m}
  BY <1>2, <1>6, <1>8
<1>10. T \in [Pointers -> SUBSET Keys]
  <2>1. S \in [Pointers -> SUBSET Keys]
    BY <1>2 DEF Nested
  <2> QED
    BY <1>6, <1>8, <2>1
<1>11. S[NULL] = {}
  BY <1>2 DEF Nested
<1>12. PICK kpos : kpos = InKeyOrder
  OBVIOUS
<1>13. kpos \in [Keys -> Int] /\ \A k \in Keys : kpos[k] = k /\ k \in Nat
  BY <1>12, KeyOrder
<1>14. ASSUME NEW k \in Keys
       PROVE  /\ T[k] = {k} \cup T[u.left[k]] \cup T[u.right[k]]
              /\ \A x \in T[u.left[k]] : kpos[x] < kpos[k]
              /\ \A x \in T[u.right[k]] : kpos[k] < kpos[x]
  <2>1. CASE k \notin C
    BY <1>5, <1>9, <2>1
  <2>2. CASE k \in C
    <3>1. /\ S[k] = {k} \cup S[t.left[k]] \cup S[t.right[k]]
          /\ \A x \in S[t.left[k]] : pos[x] < pos[k]
          /\ \A x \in S[t.right[k]] : pos[k] < pos[x]
      BY <1>2 DEF Nested
    <3>2. T[u.left[k]] = S[t.left[k]] /\ T[u.right[k]] = S[t.right[k]] /\ T[k] = S[k]
      <4>1. \A m \in C \cup {NULL} : T[m] = S[m]
        BY <1>2, <1>9, <1>11
      <4>2. t.left[k] \in C \cup {NULL} /\ t.right[k] \in C \cup {NULL}
        BY <1>7, <2>2
      <4>3. u.left[k] = t.left[k] /\ u.right[k] = t.right[k]
        BY <1>5, <2>2
      <4> QED
        BY <2>2, <4>1, <4>2, <4>3
    <3>3. \A x \in S[k] : x \in C /\ x \in Keys
      BY <1>7, <2>2
    <3>4. \A x \in S[t.left[k]] : x < k
      BY <2>2, <3>1, <3>3 DEF Agrees
    <3>5. \A x \in S[t.right[k]] : k < x
      BY <2>2, <3>1, <3>3 DEF Agrees
    <3>6. \A x \in S[k] : kpos[x] = x
      BY <1>13, <3>3
    <3> QED
      BY <1>13, <3>1, <3>2, <3>4, <3>5, <3>6
  <2> QED
    BY <2>1, <2>2
<1>15. Nested(u.left, u.right, T, kpos)
  BY <1>5, <1>9, <1>10, <1>13, <1>14 DEF Nested
<1>16. Linked(u.left, u.right, u.parent)
  <2>1. \A k \in C : /\ t.left[k] # NULL => t.parent[t.left[k]] = k
                     /\ t.right[k] # NULL => t.parent[t.right[k]] = k
                     /\ t.parent[k] # NULL => t.left[t.parent[k]] = k \/ t.right[t.parent[k]] = k
    BY <1>2, <1>7 DEF Linked
  <2>2. ASSUME NEW k \in Keys
        PROVE  /\ u.left[k] # NULL => u.parent[u.left[k]] = k
               /\ u.right[k] # NULL => u.parent[u.right[k]] = k
               /\ u.parent[k] # NULL => u.left[u.parent[k]] = k \/ u.right[u.parent[k]] = k
    BY <1>5, <1>7, <2>1
  <2> QED
    BY <1>5, <2>2 DEF Linked
<1>17. u.root # NULL => u.parent[u.root] = NULL
  <2>1. t.root # NULL => t.parent[t.root] = NULL
    BY <1>1 DEF Shaped
  <2> QED
    BY <1>2, <1>5, <1>6, <2>1
<1>18. Shaped(u, T, kpos)
  BY <1>5, <1>15, <1>16, <1>17 DEF Shaped
<1>19. T[u.root] = C
  <2>1. CASE t.root = NULL
    BY <1>1, <1>5, <1>9, <1>11, <2>1
  <2>2. CASE t.root # NULL
    <3>1. t.root \in Keys
      BY <1>2, <1>6, <2>2
    <3>2. t.root \in C
      BY <1>1, <1>2, <3>1, Sides
    <3> QED
      BY <1>1, <1>5, <1>9, <3>1, <3>2
  <2> QED
    BY <2>1, <2>2
<1>20. Clean(u, C)
  BY <1>5 DEF Clean
<1> QED
  BY <1>3, <1>12, <1>18, <1>19, <1>20 DEF Holds, TreeOf

LEMMA ContentsAre ==
    ASSUME NEW t, NEW C, NEW pos, TreeOf(t, C, pos)
    PROVE  Contents(t) = C
<1>1. PICK S : Shaped(t, S, pos) /\ S[t.root] = C
  BY DEF TreeOf
<1>2. Nested(t.left, t.right, S, pos) /\ t.root \in Pointers
  BY <1>1 DEF Shaped, Trees
<1> QED
  BY <1>1, <1>2, BelowIs DEF Contents

LEMMA DetachKeeps ==
    ASSUME NEW t, NEW C, Holds(t, C), NEW n \in C, NEW climb
    PROVE  \E D : /\ D \subseteq C \ {n} /\ Contents(Detach(t, n, climb)) = D
                  /\ Holds(Reachable(Detach(t, n, climb)), D)
<1>1. PICK S : Shaped(t, S, InKeyOrder) /\ S[t.root] = C
  BY DEF Holds, TreeOf
<1>2. PICK low : low = Lowered(t, n)
  OBVIOUS
<1>3. PICK T, q : /\ Shaped(low, T, q) /\ T[low.root] = C
                  /\ low.left[n] = NULL \/ low.right[n] = NULL
                  /\ Agrees(q, C \ {n})
  BY <1>1, <1>2, LoweredTree
<1>4. PICK D, c, out : D = Left(low, T, n) /\ c = OnlyChild(low, n) /\ out = Taken(low, n)
  OBVIOUS
<1>5. /\ \E p : TreeOf(out, D, p) /\ Agrees(p, D)
      /\ D \subseteq C \ {n}
      /\ c # NULL => c \in D
      /\ c = NULL => low.parent[n] \in D \cup {NULL}
  BY <1>3, <1>4, TakenTree
<1>6. PICK p : TreeOf(out, D, p) /\ Agrees(p, D)
  BY <1>5
<1>7. PICK start : start = IF c # NULL THEN c ELSE IF climb THEN low.parent[n] ELSE NULL
  OBVIOUS
<1>8. start \in D \cup {NULL}
  BY <1>5, <1>7
<1>9. Reshaped(out, Balancing(out, start), D, p)
  BY <1>6, <1>8, BalancingKeeps
<1>10. Holds(Reachable(Balancing(out, start)), D) /\ Contents(Balancing(out, start)) = D
  BY <1>6, <1>9, ReachableHolds, ContentsAre DEF Reshaped
<1>11. Detach(t, n, climb) = Balancing(out, start)
  BY <1>2, <1>4, <1>7, DetachIs
<1> QED
  BY <1>5, <1>10, <1>11

-----------------------------------------------------------------------------
(* The climb of the iterators: up from right children, and once more *)

Climb(h, r, p) == h = [m \in Keys |-> IF p[m] # NULL /\ r[p[m]] = m THEN h[p[m]] ELSE p[m]]

LEMMA ClimbExists ==
    ASSUME NEW l, NEW r, NEW p, NEW S, NEW pos, Nested(l, r, S, pos), Linked(l, r, p)
    PROVE  \E h : Climb(h, r, p)
<1> DEFINE N == Cardinality(Keys)
           rank == [m \in Keys |-> N - Cardinality(S[m])]
           G == [q \in Keys \X [Keys -> Pointers] |->
                   IF p[q[1]] # NULL /\ r[p[q[1]]] = q[1] THEN q[2][p[q[1]]] ELSE p[q[1]]]
<1>1. N \in Nat
  BY KeysAreNumbers, FS_CardinalityType
<1>2. \A m \in Keys : Cardinality(S[m]) \in 0..N
  BY Sizes, NoKey
<1>3. rank \in [Keys -> 0..N]
  BY <1>1, <1>2
<1>4. \A m \in Keys : p[m] # NULL => p[m] \in Keys /\ rank[p[m]] < rank[m]
  <2> SUFFICES ASSUME NEW m \in Keys, p[m] # NULL
               PROVE  p[m] \in Keys /\ rank[p[m]] < rank[m]
    OBVIOUS
  <2>1. p[m] \in Keys /\ Cardinality(S[m]) < Cardinality(S[p[m]])
    BY AtParent
  <2> HIDE DEF N
  <2> QED
    BY <1>1, <1>2, <2>1
<1> HIDE DEF N, rank
<1>5. p \in [Keys -> Pointers]
  BY DEF Linked
<1>6. \A m \in Keys, f \in [Keys -> Pointers] :
          G[<<m, f>>] = IF p[m] # NULL /\ r[p[m]] = m THEN f[p[m]] ELSE p[m]
  OBVIOUS
<1>7. G \in [Keys \X [Keys -> Pointers] -> Pointers]
  BY <1>4, <1>5
<1>8. LowerDecides(G, Keys, Pointers, N, rank)
  <2> HIDE DEF G
  <2>1. ASSUME NEW m \in Keys, NEW f \in [Keys -> Pointers], NEW g \in [Keys -> Pointers],
               \A x \in Keys : rank[x] < rank[m] => f[x] = g[x]
        PROVE  G[<<m, f>>] = G[<<m, g>>]
    <3>1. p[m] # NULL => f[p[m]] = g[p[m]]
      BY <1>4, <2>1
    <3> QED
      BY <1>6, <3>1
  <2> QED
    BY <1>1, <1>3, <1>7, <2>1, NoKey DEF LowerDecides
<1>9. PICK h \in [Keys -> Pointers] : \A m \in Keys : h[m] = G[<<m, h>>]
  <2> HIDE DEF G
  <2> QED
    BY <1>8, Recursion
<1>10. h = [m \in Keys |-> IF p[m] # NULL /\ r[p[m]] = m THEN h[p[m]] ELSE p[m]]
  <2> HIDE DEF G
  <2>1. \A m \in Keys : h[m] = IF p[m] # NULL /\ r[p[m]] = m THEN h[p[m]] ELSE p[m]
    BY <1>6, <1>9
  <2> QED
    BY <1>9, <2>1
<1> QED
  BY <1>10 DEF Climb

\* Of the nodes of C, k is the first one beyond those of B; NULL when none is.
IsNext(C, pos, B, k) ==
    /\ k # NULL => k \in C /\ \A b \in B : pos[b] < pos[k]
    /\ \A x \in C \ B : \/ \A b \in B : pos[x] < pos[b]
                        \/ k # NULL /\ (x = k \/ pos[k] < pos[x])

LEMMA ClimbIs ==
    ASSUME NEW l, NEW r, NEW p, NEW S, NEW pos, NEW root, Rooted(l, r, p, S, pos, root),
           NEW h, Climb(h, r, p)
    PROVE  \A m \in S[root] : IsNext(S[root], pos, S[m], h[m])
<1> DEFINE N == Cardinality(Keys)
           Done(m) == IsNext(S[root], pos, S[m], h[m])
           P == {i \in Nat : \A m \in S[root] : N - Cardinality(S[m]) = i => Done(m)}
<1>1. Nested(l, r, S, pos) /\ Linked(l, r, p) /\ root \in Keys /\ p[root] = NULL
  BY DEF Rooted
<1>2. N \in Nat
  BY KeysAreNumbers, FS_CardinalityType
<1>3. \A m \in Keys : Cardinality(S[m]) \in 0..N
  BY <1>1, Sizes, NoKey
<1> HIDE DEF N
<1>4. S[root] \subseteq Keys /\ pos \in [Keys -> Int] /\ S \in [Pointers -> SUBSET Keys]
  BY <1>1, Sides DEF Nested
<1>5. ASSUME NEW i \in Nat, \A j \in 0 .. (i - 1) : j \in P
      PROVE  i \in P
  <2> SUFFICES ASSUME NEW m \in S[root], N - Cardinality(S[m]) = i
               PROVE  Done(m)
    OBVIOUS
  <2>1. m \in Keys /\ S[m] \subseteq Keys /\ m \in S[m]
    BY <1>1, <1>4, Sides
  <2>2. h[m] = IF p[m] # NULL /\ r[p[m]] = m THEN h[p[m]] ELSE p[m]
    BY <2>1 DEF Climb
  <2>3. CASE p[m] = NULL
    <3>1. m = root
      BY <2>3, InRooted
    <3> QED
      BY <2>2, <2>3, <3>1 DEF IsNext
  <2>4. CASE p[m] # NULL
    <3>1. PICK n : n = p[m]
      OBVIOUS
    <3>2. /\ n \in Keys /\ n \in S[root] /\ n \notin S[m] /\ S[m] \subseteq S[n]
          /\ (l[n] = m /\ r[n] # m) \/ (r[n] = m /\ l[n] # m)
          /\ Cardinality(S[m]) < Cardinality(S[n])
      BY <1>1, <2>1, <2>4, <3>1, AtParent, InRooted
    <3>3. /\ S[n] \subseteq S[root] /\ n \in S[n]
          /\ \A x \in S[n] : x = n \/ x \in S[l[n]] \/ x \in S[r[n]]
          /\ \A x \in S[l[n]] : pos[x] < pos[n]
          /\ \A x \in S[r[n]] : pos[n] < pos[x]
      BY <1>1, <3>2, Sides, InRooted DEF Nested
    <3>4. \A x \in S[root] : x \in Keys /\ pos[x] \in Int
      BY <1>4
    <3>5. \A x \in S[root] : x \notin S[n] =>
              (\A b \in S[n] : pos[x] < pos[b]) \/ (\A b \in S[n] : pos[b] < pos[x])
      BY <1>1, <3>2, Contiguous
    <3>6. CASE l[n] = m /\ r[n] # m
      <4>1. h[m] = n /\ n # NULL
        BY <2>2, <2>4, <3>1, <3>6
      <4>2. \A b \in S[m] : pos[b] < pos[n]
        BY <3>3, <3>6
      <4>3. ASSUME NEW x \in S[root] \ S[m]
            PROVE  (\A b \in S[m] : pos[x] < pos[b]) \/ x = n \/ pos[n] < pos[x]
        <5>1. CASE x \in S[n]
          BY <3>3, <3>6, <4>3, <5>1
        <5>2. CASE x \notin S[n]
          BY <3>2, <3>3, <3>5, <4>3, <5>2
        <5> QED
          BY <5>1, <5>2
      <4> QED
        BY <3>2, <4>1, <4>2, <4>3 DEF IsNext
    <3>7. CASE r[n] = m /\ l[n] # m
      <4>1. h[m] = h[n]
        BY <2>2, <2>4, <3>1, <3>7
      <4>2. Done(n)
        <5>1. PICK j : j = N - Cardinality(S[n])
          OBVIOUS
        <5>2. j \in 0 .. (i - 1)
          BY <1>2, <1>3, <2>1, <3>2, <5>1
        <5>3. j \in P
          BY <1>5, <5>2
        <5> HIDE DEF Done
        <5> QED
          BY <3>2, <5>1, <5>3
      <4>3. PICK k : k = h[n]
        OBVIOUS
      <4>4. /\ k # NULL => k \in S[root] /\ \A b \in S[n] : pos[b] < pos[k]
            /\ \A x \in S[root] \ S[n] : \/ \A b \in S[n] : pos[x] < pos[b]
                                         \/ k # NULL /\ (x = k \/ pos[k] < pos[x])
        BY <4>2, <4>3 DEF IsNext
      <4>5. ASSUME NEW x \in S[root] \ S[m]
            PROVE  (\A b \in S[m] : pos[x] < pos[b]) \/ (k # NULL /\ (x = k \/ pos[k] < pos[x]))
        <5>1. CASE x \in S[n]
          <6>1. x = n \/ pos[x] < pos[n]
            BY <3>3, <3>7, <4>5, <5>1
          <6>2. ASSUME NEW b \in S[m]
                PROVE  pos[x] < pos[b]
            <7>1. pos[n] < pos[b]
              BY <3>3, <3>7
            <7>2. b \in S[root] /\ n \in S[root] /\ x \in S[root]
              BY <3>2, <3>3, <4>5
            <7> QED
              BY <3>4, <6>1, <7>1, <7>2
          <6> QED
            BY <6>2
        <5>2. CASE x \notin S[n]
          BY <3>2, <4>4, <4>5, <5>2
        <5> QED
          BY <5>1, <5>2
      <4> QED
        BY <3>2, <4>1, <4>3, <4>4, <4>5 DEF IsNext
    <3> QED
      BY <3>2, <3>6, <3>7
  <2> QED
    BY <2>3, <2>4
<1> HIDE DEF P
<1>6. Nat \subseteq P
  BY <1>5, StrongInduction
<1>7. ASSUME NEW m \in S[root]
      PROVE  Done(m)
  <2>1. PICK i : i = N - Cardinality(S[m])
    OBVIOUS
  <2>2. i \in Nat
    BY <1>2, <1>3, <1>4, <2>1
  <2>3. i \in P
    BY <1>6, <2>2
  <2> HIDE DEF Done
  <2> QED
    BY <2>1, <2>3 DEF P
<1> QED
  BY <1>7

LEMMA AncestorIs ==
    ASSUME NEW t, NEW S, NEW pos, Shaped(t, S, pos), NEW n \in Keys
    PROVE  /\ \E h : Climb(h, t.right, t.parent) /\ Ancestor(t, n, "right") = h[t.parent[n]]
           /\ \E h : Climb(h, t.left, t.parent) /\ Ancestor(t, n, "left") = h[t.parent[n]]
<1>1. /\ t \in Trees /\ Nested(t.left, t.right, S, pos) /\ Linked(t.left, t.right, t.parent)
  BY DEF Shaped
<1>2. \A m \in Keys :
        /\ getPosition(t, m) = "left" <=> t.parent[m] # NULL /\ t.left[t.parent[m]] = m
        /\ getPosition(t, m) = "right" <=> t.parent[m] # NULL /\ t.right[t.parent[m]] = m
  BY <1>1, PositionIs
<1>3. ASSUME NEW side, NEW c,
             \A m \in Keys : t.parent[m] # NULL /\ getPosition(t, m) = side
                               <=> t.parent[m] # NULL /\ c[t.parent[m]] = m,
             \E h : Climb(h, c, t.parent)
      PROVE  \E h : Climb(h, c, t.parent) /\ Ancestor(t, n, side) = h[t.parent[n]]
  <2> DEFINE up[m \in Keys] ==
               IF t.parent[m] # NULL /\ getPosition(t, m) = side THEN up[t.parent[m]] ELSE t.parent[m]
             Solves(g) == g = [m \in Keys |->
               IF t.parent[m] # NULL /\ getPosition(t, m) = side THEN g[t.parent[m]] ELSE t.parent[m]]
  <2>1. Ancestor(t, n, side) = up[t.parent[n]]
    BY DEF Ancestor
  <2>2. up = CHOOSE g : Solves(g)
    OBVIOUS
  <2> HIDE DEF up
  <2>3. ASSUME NEW g
        PROVE  Solves(g) <=> Climb(g, c, t.parent)
    <3>1. [m \in Keys |->
             IF t.parent[m] # NULL /\ getPosition(t, m) = side THEN g[t.parent[m]] ELSE t.parent[m]]
          = [m \in Keys |->
             IF t.parent[m] # NULL /\ c[t.parent[m]] = m THEN g[t.parent[m]] ELSE t.parent[m]]
      BY <1>3
    <3> QED
      BY <3>1 DEF Climb
  <2> HIDE DEF Solves
  <2>4. \E g : Solves(g)
    BY <1>3, <2>3
  <2>5. Solves(up)
    BY <2>2, <2>4
  <2> QED
    BY <2>1, <2>3, <2>5
<1>4. \E h : Climb(h, t.right, t.parent)
  BY <1>1, ClimbExists
<1>5. \E h : Climb(h, t.left, t.parent)
  <2>1. Nested(t.right, t.left, S, Mirrored(pos)) /\ Linked(t.right, t.left, t.parent)
    BY <1>1, Mirror, MirrorLinks
  <2> QED
    BY <2>1, ClimbExists
<1>6. \E h : Climb(h, t.right, t.parent) /\ Ancestor(t, n, "right") = h[t.parent[n]]
  BY <1>2, <1>3, <1>4
<1>7. \E h : Climb(h, t.left, t.parent) /\ Ancestor(t, n, "left") = h[t.parent[n]]
  BY <1>2, <1>3, <1>5
<1> QED
  BY <1>6, <1>7

\* A node without a right child: the climb from it is the way to the next one.
LEMMA NextOfLast ==
    ASSUME NEW l, NEW r, NEW p, NEW S, NEW pos, NEW root, Rooted(l, r, p, S, pos, root),
           NEW n \in S[root], r[n] = NULL, NEW k, IsNext(S[root], pos, S[n], k)
    PROVE  IsNext(S[root], pos, {n}, k)
<1>1. Nested(l, r, S, pos) /\ root \in Keys
  BY DEF Rooted
<1>2. n \in Keys /\ S[n] \subseteq S[root]
  BY InRooted
<1>3. S[n] = {n} \cup S[l[n]] /\ \A x \in S[l[n]] : pos[x] < pos[n]
  BY <1>1, <1>2 DEF Nested
<1> QED
  BY <1>3 DEF IsNext

\* A node with a right child: the next one is the first of the right side.
LEMMA NextOfRight ==
    ASSUME NEW l, NEW r, NEW p, NEW S, NEW pos, NEW root, Rooted(l, r, p, S, pos, root),
           NEW n \in S[root], r[n] # NULL, NEW k \in S[r[n]],
           \A x \in S[r[n]] : x # k => pos[k] < pos[x]
    PROVE  IsNext(S[root], pos, {n}, k)
<1>1. Nested(l, r, S, pos) /\ root \in Keys
  BY DEF Rooted
<1>2. /\ n \in Keys /\ S[n] \subseteq S[root] /\ S[root] \subseteq Keys /\ pos \in [Keys -> Int]
      /\ S[r[n]] \subseteq S[n] /\ n \in S[n] /\ NULL \notin Keys
  BY <1>1, InRooted, Sides, NoKey DEF Nested
<1>3. /\ \A x \in S[n] : x = n \/ x \in S[l[n]] \/ x \in S[r[n]]
      /\ \A x \in S[l[n]] : pos[x] < pos[n]
      /\ \A x \in S[r[n]] : pos[n] < pos[x]
  BY <1>1, <1>2, Sides DEF Nested
<1>4. k \in S[root] /\ k # NULL /\ pos[n] < pos[k]
  BY <1>2, <1>3
<1>5. ASSUME NEW x \in S[root] \ {n}
      PROVE  pos[x] < pos[n] \/ x = k \/ pos[k] < pos[x]
  <2>1. CASE x \in S[n]
    BY <1>3, <1>5, <2>1
  <2>2. CASE x \notin S[n]
    <3>1. (\A b \in S[n] : pos[x] < pos[b]) \/ (\A b \in S[n] : pos[b] < pos[x])
      BY <1>1, <2>2, Contiguous
    <3> QED
      BY <1>2, <3>1
  <2> QED
    BY <2>1, <2>2
<1> QED
  BY <1>4, <1>5 DEF IsNext

LEMMA SuccessorIs ==
    ASSUME NEW t, NEW S, NEW pos, Shaped(t, S, pos), NEW n \in S[t.root]
    PROVE  IsNext(S[t.root], pos, {n}, Successor(t, n))
<1>1. /\ t \in Trees /\ Nested(t.left, t.right, S, pos) /\ Linked(t.left, t.right, t.parent)
      /\ n \in Keys /\ t.root # NULL
  BY InTree DEF Shaped
<1>2. Rooted(t.left, t.right, t.parent, S, pos, t.root)
  BY <1>1, ShapedRooted
<1>3. CASE t.right[n] # NULL
  <2>1. PICK k : k = minKeyNode(t, t.right[n])
    OBVIOUS
  <2>2. t.right[n] \in Keys
    BY <1>1, <1>3, Sides
  <2>3. k \in S[t.right[n]] /\ \A x \in S[t.right[n]] : x # k => pos[k] < pos[x]
    BY <1>1, <2>1, <2>2, MinKeyNodeIs
  <2>4. Successor(t, n) = k
    BY <1>3, <2>1 DEF Successor
  <2> QED
    BY <1>2, <1>3, <2>3, <2>4, NextOfRight
<1>4. CASE t.right[n] = NULL
  <2>1. /\ getPosition(t, n) \in {"left", "right", "root"}
        /\ getPosition(t, n) = "root" <=> t.parent[n] = NULL
        /\ getPosition(t, n) = "left" <=> t.parent[n] # NULL /\ t.left[t.parent[n]] = n
        /\ getPosition(t, n) = "right" <=> t.parent[n] # NULL /\ t.right[t.parent[n]] = n
    BY <1>1, PositionIs
  <2>2. PICK h : Climb(h, t.right, t.parent) /\ Ancestor(t, n, "right") = h[t.parent[n]]
    BY <1>1, AncestorIs
  <2>3. h[n] = IF t.parent[n] # NULL /\ t.right[t.parent[n]] = n THEN h[t.parent[n]] ELSE t.parent[n]
    BY <1>1, <2>2 DEF Climb
  <2>4. Successor(t, n) = h[n]
    <3>1. CASE getPosition(t, n) = "left"
      <4>1. Successor(t, n) = t.parent[n]
        BY <1>4, <3>1 DEF Successor
      <4>2. t.right[t.parent[n]] # n
        BY <2>1, <3>1
      <4> QED
        BY <2>3, <4>1, <4>2
    <3>2. CASE getPosition(t, n) = "right"
      <4>1. Successor(t, n) = h[t.parent[n]]
        BY <1>4, <2>2, <3>2 DEF Successor
      <4> QED
        BY <2>1, <2>3, <3>2, <4>1
    <3>3. CASE getPosition(t, n) = "root"
      <4>1. Successor(t, n) = NULL
        BY <1>4, <3>3 DEF Successor
      <4> QED
        BY <2>1, <2>3, <3>3, <4>1
    <3> QED
      BY <2>1, <3>1, <3>2, <3>3
  <2>5. IsNext(S[t.root], pos, S[n], h[n])
    BY <1>2, <2>2, ClimbIs
  <2> QED
    BY <1>2, <1>4, <2>4, <2>5, NextOfLast
<1> QED
  BY <1>3, <1>4

LEMMA PredecessorIs ==
    ASSUME NEW t, NEW S, NEW pos, Shaped(t, S, pos), NEW n \in S[t.root]
    PROVE  IsNext(S[t.root], Mirrored(pos), {n}, Predecessor(t, n))
<1>1. /\ t \in Trees /\ Nested(t.left, t.right, S, pos) /\ Linked(t.left, t.right, t.parent)
      /\ n \in Keys /\ t.root # NULL
  BY InTree DEF Shaped
<1>2. PICK back : back = Mirrored(pos)
  OBVIOUS
<1>3. Rooted(t.right, t.left, t.parent, S, back, t.root)
  BY <1>1, <1>2, ShapedRooted
<1>4. CASE t.left[n] # NULL
  <2>1. PICK k : k = maxKeyNode(t, t.left[n])
    OBVIOUS
  <2>2. t.left[n] \in Keys /\ S[t.left[n]] \subseteq Keys
    BY <1>1, <1>4, Sides
  <2>3. k \in S[t.left[n]] /\ \A x \in S[t.left[n]] : x # k => pos[x] < pos[k]
    BY <1>1, <2>1, <2>2, MaxKeyNodeIs
  <2>4. \A x \in S[t.left[n]] : x # k => back[k] < back[x]
    <3>1. pos \in [Keys -> Int]
      BY <1>1 DEF Nested
    <3> QED
      BY <1>2, <2>2, <2>3, <3>1 DEF Mirrored
  <2>5. Predecessor(t, n) = k
    BY <1>4, <2>1 DEF Predecessor
  <2> QED
    BY <1>2, <1>3, <1>4, <2>3, <2>4, <2>5, NextOfRight
<1>5. CASE t.left[n] = NULL
  <2>1. /\ getPosition(t, n) \in {"left", "right", "root"}
        /\ getPosition(t, n) = "root" <=> t.parent[n] = NULL
        /\ getPosition(t, n) = "left" <=> t.parent[n] # NULL /\ t.left[t.parent[n]] = n
        /\ getPosition(t, n) = "right" <=> t.parent[n] # NULL /\ t.right[t.parent[n]] = n
    BY <1>1, PositionIs
  <2>2. PICK h : Climb(h, t.left, t.parent) /\ Ancestor(t, n, "left") = h[t.parent[n]]
    BY <1>1, AncestorIs
  <2>3. h[n] = IF t.parent[n] # NULL /\ t.left[t.parent[n]] = n THEN h[t.parent[n]] ELSE t.parent[n]
    BY <1>1, <2>2 DEF Climb
  <2>4. Predecessor(t, n) = h[n]
    <3>1. CASE getPosition(t, n) = "right"
      <4>1. Predecessor(t, n) = t.parent[n]
        BY <1>5, <3>1 DEF Predecessor
      <4>2. t.left[t.parent[n]] # n
        BY <2>1, <3>1
      <4> QED
        BY <2>3, <4>1, <4>2
    <3>2. CASE getPosition(t, n) = "left"
      <4>1. Predecessor(t, n) = h[t.parent[n]]
        BY <1>5, <2>2, <3>2 DEF Predecessor
      <4> QED
        BY <2>1, <2>3, <3>2, <4>1
    <3>3. CASE getPosition(t, n) = "root"
      <4>1. Predecessor(t, n) = NULL
        BY <1>5, <3>3 DEF Predecessor
      <4> QED
        BY <2>1, <2>3, <3>3, <4>1
    <3> QED
      BY <2>1, <3>1, <3>2, <3>3
  <2>5. IsNext(S[t.root], back, S[n], h[n])
    BY <1>3, <2>2, ClimbIs
  <2>6. IsNext(S[t.root], back, {n}, h[n])
    BY <1>3, <1>5, <2>5, NextOfLast
  <2> QED
    BY <1>2, <2>4, <2>6
<1> QED
  BY <1>4, <1>5

LEMMA LeastIs ==
    ASSUME NEW B \in SUBSET Keys, NEW k \in B, \A j \in B : k <= j
    PROVE  Least(B) = k
<1>1. B # {} /\ \A x \in B : x \in Nat
  BY KeysAreNumbers
<1>2. \A x \in B : (\A j \in B : x <= j) => x = k
  BY <1>1
<1> QED
  BY <1>1, <1>2 DEF Least

LEMMA GreatestIs ==
    ASSUME NEW B \in SUBSET Keys, NEW k \in B, \A j \in B : k >= j
    PROVE  Greatest(B) = k
<1>1. B # {} /\ \A x \in B : x \in Nat
  BY KeysAreNumbers
<1>2. \A x \in B : (\A j \in B : x >= j) => x = k
  BY <1>1
<1> QED
  BY <1>1, <1>2 DEF Greatest

LEMMA NextIsAbove ==
    ASSUME NEW C \in SUBSET Keys, NEW n \in C, NEW k, IsNext(C, InKeyOrder, {n}, k)
    PROVE  k = Least({x \in C : x > n})
<1>1. PICK pos : pos = InKeyOrder
  OBVIOUS
<1>2. \A x \in C : x \in Keys /\ x \in Nat /\ pos[x] = x
  BY <1>1, KeyOrder
<1>3. /\ k # NULL => k \in C /\ pos[n] < pos[k]
      /\ \A x \in C \ {n} : \/ pos[x] < pos[n]
                            \/ k # NULL /\ (x = k \/ pos[k] < pos[x])
  BY <1>1 DEF IsNext
<1>4. PICK B : B = {x \in C : x > n}
  OBVIOUS
<1>5. CASE k = NULL
  <2>1. B = {}
    BY <1>2, <1>3, <1>4, <1>5
  <2> QED
    BY <1>4, <1>5, <2>1 DEF Least
<1>6. CASE k # NULL
  <2>1. k \in B /\ B \in SUBSET Keys
    BY <1>2, <1>3, <1>4, <1>6
  <2>2. \A j \in B : k <= j
    BY <1>2, <1>3, <1>4, <1>6
  <2> QED
    BY <1>4, <2>1, <2>2, LeastIs
<1> QED
  BY <1>5, <1>6

LEMMA NextIsUnder ==
    ASSUME NEW C \in SUBSET Keys, NEW n \in C, NEW k,
           IsNext(C, Mirrored(InKeyOrder), {n}, k)
    PROVE  k = Greatest({x \in C : x < n})
<1>1. PICK pos : pos = Mirrored(InKeyOrder)
  OBVIOUS
<1>2. \A x \in C : x \in Keys /\ x \in Nat /\ pos[x] = 0 - x
  BY <1>1, KeyOrder DEF Mirrored
<1>3. /\ k # NULL => k \in C /\ pos[n] < pos[k]
      /\ \A x \in C \ {n} : \/ pos[x] < pos[n]
                            \/ k # NULL /\ (x = k \/ pos[k] < pos[x])
  BY <1>1 DEF IsNext
<1>4. PICK B : B = {x \in C : x < n}
  OBVIOUS
<1>5. CASE k = NULL
  <2>1. B = {}
    BY <1>2, <1>3, <1>4, <1>5
  <2> QED
    BY <1>4, <1>5, <2>1 DEF Greatest
<1>6. CASE k # NULL
  <2>1. k \in B /\ B \in SUBSET Keys
    BY <1>2, <1>3, <1>4, <1>6
  <2>2. \A j \in B : k >= j
    BY <1>2, <1>3, <1>4, <1>6
  <2> QED
    BY <1>4, <2>1, <2>2, GreatestIs
<1> QED
  BY <1>5, <1>6

LEMMA HeldInOrder ==
    ASSUME NEW t, NEW C, Holds(t, C)
    PROVE  InOrder(t)
<1>1. PICK S : Shaped(t, S, InKeyOrder) /\ S[t.root] = C
  BY DEF Holds, TreeOf
<1>2. Contents(t) = C /\ C \in SUBSET Keys
  BY ContentsAre, TreeOfKeys DEF Holds
<1>3. ASSUME NEW n \in C
      PROVE  Successor(t, n) = Above(t, n) /\ Predecessor(t, n) = Under(t, n)
  <2>1. IsNext(C, InKeyOrder, {n}, Successor(t, n))
    BY <1>1, SuccessorIs
  <2>2. IsNext(C, Mirrored(InKeyOrder), {n}, Predecessor(t, n))
    BY <1>1, PredecessorIs
  <2>3. Above(t, n) = Least({x \in C : x > n}) /\ Under(t, n) = Greatest({x \in C : x < n})
    BY <1>2 DEF Above, Under
  <2> QED
    BY <1>2, <2>1, <2>2, <2>3, NextIsAbove, NextIsUnder
<1> QED
  BY <1>2, <1>3 DEF InOrder

LEMMA HeldSearchTree ==
    ASSUME NEW t, NEW C, Holds(t, C)
    PROVE  SearchTree(t)
<1>1. PICK S : Shaped(t, S, InKeyOrder) /\ S[t.root] = C
  BY DEF Holds, TreeOf
<1>2. /\ Nested(t.left, t.right, S, InKeyOrder) /\ Linked(t.left, t.right, t.parent)
      /\ t.root # NULL => t.parent[t.root] = NULL
  BY <1>1 DEF Shaped
<1>3. Contents(t) = C /\ C \in SUBSET Keys
  BY ContentsAre, TreeOfKeys DEF Holds
<1>4. ASSUME NEW n \in C
      PROVE  /\ \A c \in {t.left[n], t.right[n]} \ {NULL} : t.parent[c] = n
             /\ \A x \in Below(t, t.left[n]) : x < n
             /\ \A x \in Below(t, t.right[n]) : n < x
  <2>1. n \in Keys /\ n \in Nat
    BY <1>3, KeyOrder
  <2>2. /\ t.left[n] \in Pointers /\ t.right[n] \in Pointers
        /\ S[t.left[n]] \subseteq S[n] /\ S[t.right[n]] \subseteq S[n] /\ S[n] \subseteq Keys
    BY <1>2, <2>1, Sides
  <2>3. Below(t, t.left[n]) = S[t.left[n]] /\ Below(t, t.right[n]) = S[t.right[n]]
    BY <1>2, <2>2, BelowIs
  <2>4. PICK pos : pos = InKeyOrder
    OBVIOUS
  <2>5. \A x \in S[n] : pos[x] = x
    BY <2>2, <2>4, KeyOrder
  <2>6. pos[n] = n
    BY <2>1, <2>4, KeyOrder
  <2>7. /\ \A x \in S[t.left[n]] : pos[x] < pos[n]
        /\ \A x \in S[t.right[n]] : pos[n] < pos[x]
    BY <1>2, <2>1, <2>4 DEF Nested
  <2>8. \A c \in {t.left[n], t.right[n]} \ {NULL} : t.parent[c] = n
    BY <1>2, <2>1 DEF Linked
  <2> QED
    BY <2>2, <2>3, <2>5, <2>6, <2>7, <2>8
<1> QED
  BY <1>2, <1>3, <1>4 DEF SearchTree

LEMMA EmptyHolds == Holds(EmptyTree, {})
<1>1. PICK t, S : t = EmptyTree /\ S = [m \in Pointers |-> IF m = NULL THEN {} ELSE {m}]
  OBVIOUS
<1>2. /\ t \in Trees /\ t.root = NULL
      /\ \A k \in Keys : t.left[k] = NULL /\ t.right[k] = NULL /\ t.parent[k] = NULL /\ t.depth[k] = 1
      /\ t.left \in [Keys -> Pointers] /\ t.right \in [Keys -> Pointers] /\ t.parent \in [Keys -> Pointers]
  BY <1>1, NoKey DEF EmptyTree, Trees
<1>3. /\ S \in [Pointers -> SUBSET Keys] /\ S[NULL] = {} /\ \A k \in Keys : S[k] = {k}
  BY <1>1, NoKey
<1>4. Nested(t.left, t.right, S, InKeyOrder)
  BY <1>2, <1>3, KeyOrder DEF Nested
<1>5. Linked(t.left, t.right, t.parent)
  BY <1>2 DEF Linked
<1>6. Shaped(t, S, InKeyOrder)
  BY <1>2, <1>4, <1>5 DEF Shaped
<1>7. Clean(t, {})
  BY <1>2 DEF Clean
<1> QED
  BY <1>1, <1>2, <1>3, <1>6, <1>7 DEF Holds, TreeOf

-----------------------------------------------------------------------------
(* AVLTree *)

\* The tree holds some of the keys, in their order; which ones is another question.
AVLInv == /\ \E C \in SUBSET Keys : Holds(tree, C)
          /\ kept \subseteq Keys /\ byNode \in BOOLEAN

LEMMA InsertHolds ==
    ASSUME NEW t, NEW C \in SUBSET Keys, Holds(t, C), NEW key \in Keys
    PROVE  /\ key \in C <=> t.root # NULL /\ Place(t, key) = key
           /\ key \notin C => Holds(Attach(t, key), C \cup {key})
<1>1. PICK S : Shaped(t, S, InKeyOrder) /\ S[t.root] = C
  BY DEF Holds, TreeOf
<1>2. t.root = NULL <=> C = {}
  BY TreeOfKeys DEF Holds
<1>3. t.root # NULL => (key \in C <=> Place(t, key) = key)
  <2>1. t.root # NULL => FoundFrom(t.left, t.right, S, t.root, key, Place(t, key))
    BY <1>1, PlaceIs
  <2> QED
    BY <1>1, <2>1 DEF FoundFrom
<1> QED
  BY <1>2, <1>3, AttachKeeps

LEMMA SearchedHolds ==
    ASSUME NEW t, NEW C, Holds(t, C), NEW key \in Keys
    PROVE  Search(t, key) = IF key \in C THEN key ELSE NULL
  BY SearchIs DEF Holds, TreeOf

LEMMA AVLInvStep == AVLInv /\ [AVLNext]_avlVars => AVLInv'
<1> SUFFICES ASSUME AVLInv, [AVLNext]_avlVars
             PROVE  AVLInv'
  OBVIOUS
<1>1. PICK C \in SUBSET Keys : Holds(tree, C)
  BY DEF AVLInv
<1>2. kept \subseteq Keys /\ byNode \in BOOLEAN
  BY DEF AVLInv
<1>3. Contents(tree) = C
  BY <1>1, ContentsAre DEF Holds
<1>4. ASSUME NEW key \in Keys, insert(key), UNCHANGED byNode
      PROVE  AVLInv'
  <2>1. CASE key \in C
    <3>1. tree' = tree
      BY <1>1, <1>4, <2>1, InsertHolds DEF insert
    <3> QED
      BY <1>1, <1>2, <1>4, <3>1 DEF AVLInv, insert
  <2>2. CASE key \notin C
    <3>1. tree' = Attach(tree, key) /\ Holds(Attach(tree, key), C \cup {key})
      BY <1>1, <1>4, <2>2, InsertHolds DEF insert
    <3>2. C \cup {key} \in SUBSET Keys
      OBVIOUS
    <3>3. \E D \in SUBSET Keys : Holds(tree', D)
      BY <3>1, <3>2
    <3> QED
      BY <1>2, <1>4, <3>3 DEF AVLInv, insert
  <2> QED
    BY <2>1, <2>2
<1>5. ASSUME NEW n \in C, NEW climb, tree' = Reachable(Detach(tree, n, climb)),
             kept' = kept \ {n}, UNCHANGED byNode
      PROVE  AVLInv'
  <2>1. PICK D : D \subseteq C \ {n} /\ Holds(Reachable(Detach(tree, n, climb)), D)
    BY <1>1, DetachKeeps
  <2>2. D \in SUBSET Keys
    BY <1>1, <2>1
  <2> QED
    BY <1>2, <1>5, <2>1, <2>2 DEF AVLInv
<1>6. ASSUME NEW key \in Keys, extractKey(key), UNCHANGED byNode
      PROVE  AVLInv'
  <2>1. Search(tree, key) = IF key \in C THEN key ELSE NULL
    BY <1>1, SearchedHolds
  <2>2. CASE key \in C
    <3>1. key # NULL
      BY NoKey
    <3>2. tree' = Reachable(Detach(tree, key, TRUE)) /\ kept' = kept \ {key}
      BY <1>6, <2>1, <2>2, <3>1 DEF extractKey
    <3> QED
      BY <1>5, <1>6, <2>2, <3>2
  <2>3. CASE key \notin C
    <3>1. tree' = tree /\ kept' = kept \ {key}
      BY <1>6, <2>1, <2>3 DEF extractKey
    <3> QED
      BY <1>1, <1>2, <1>6, <3>1 DEF AVLInv
  <2> QED
    BY <2>2, <2>3
<1>7. ASSUME NEW n \in Keys, extractNode(n), UNCHANGED byNode
      PROVE  AVLInv'
  <2>1. n \in C /\ tree' = Reachable(Detach(tree, n, FALSE)) /\ kept' = kept \ {n}
    BY <1>3, <1>7 DEF extractNode
  <2> QED
    BY <1>5, <1>7, <2>1
<1>8. ASSUME clear, UNCHANGED byNode
      PROVE  AVLInv'
  BY <1>2, <1>8, EmptyHolds DEF AVLInv, clear
<1>9. CASE UNCHANGED avlVars
  BY <1>1, <1>2, <1>9 DEF AVLInv, avlVars
<1> QED
  BY <1>4, <1>6, <1>7, <1>8, <1>9 DEF AVLNext

\* The nodes are a search tree at all times, for callers of any kind.
THEOREM AVLInvariance == AVLSpec => []AVLInv
<1>1. AVLInit => AVLInv
  BY EmptyHolds DEF AVLInit, AVLInv
<1> QED
  BY <1>1, AVLInvStep, PTL DEF AVLSpec

\* Pointers, depths and flags keep their types, whatever the callers do.
THEOREM AVLTypeCorrect == AVLSpec => []AVLTypeOK
<1>1. AVLInv => AVLTypeOK
  BY TreeOfKeys DEF AVLInv, AVLTypeOK, Holds
<1> QED
  BY <1>1, AVLInvariance, PTL

\* From every node the iterators go to the next key and to the one before, for any
\* keys, through any calls; trees that were misjudged or got out of balance, and
\* callers of extract(AVLNode*), are no exception.
THEOREM AVLIteration == AVLSpec => []IterationInOrder
<1>1. AVLInv => IterationInOrder
  BY HeldInOrder, HeldSearchTree DEF AVLInv, IterationInOrder
<1> QED
  BY <1>1, AVLInvariance, PTL

-----------------------------------------------------------------------------
(* MultiAVLTree *)

\* The descent of find and removeKey finds the key or nothing.
LEMMA SearchLeftIs ==
    ASSUME NEW t, NEW C, Holds(t, C), NEW key \in Keys
    PROVE  SearchLeft(t, key) # NULL => SearchLeft(t, key) = key /\ key \in C
<1> DEFINE next == [m \in Pointers |-> IF m = NULL \/ m = key THEN m ELSE t.left[m]]
           down[m \in Pointers] == IF m = NULL \/ m = key THEN m ELSE down[t.left[m]]
           Solves(g) == g = [m \in Pointers |-> IF m = NULL \/ m = key THEN m ELSE g[t.left[m]]]
<1>0. PICK S : Shaped(t, S, InKeyOrder) /\ S[t.root] = C
  BY DEF Holds, TreeOf
<1>1. Nested(t.left, t.right, S, InKeyOrder) /\ t.root \in Pointers
  BY <1>0 DEF Shaped, Trees
<1>2. \A m \in Keys : t.left[m] \in Pointers /\ t.right[m] \in Pointers /\ t.left[m] # m /\ t.right[m] # m
  BY <1>1, Sides, NoKey
<1>3. Descends(next, t.left, t.right)
  BY <1>2, NoKey DEF Descends
<1>4. \E h : EndOf(h, next)
  <2> HIDE DEF next, down, Solves
  <2> QED
    BY <1>1, <1>3, DescentExists
<1>5. PICK h \in [Pointers -> Pointers] :
               \A m \in Pointers : h[m] = IF next[m] = m THEN m ELSE h[next[m]]
  BY <1>4 DEF EndOf
<1>6. \A m \in Pointers : h[m] = IF m = NULL \/ m = key THEN m ELSE h[t.left[m]]
  <2>1. ASSUME NEW m \in Pointers
        PROVE  h[m] = IF m = NULL \/ m = key THEN m ELSE h[t.left[m]]
    BY <1>2, <1>5, NoKey
  <2> HIDE DEF next
  <2> QED
    BY <2>1
<1>7. Solves(h)
  <2> HIDE DEF next, down
  <2> QED
    BY <1>6
<1>8. Solves(down)
  <2> HIDE DEF Solves
  <2>1. down = CHOOSE g : Solves(g)
    BY DEF Solves
  <2> QED
    BY <1>7, <2>1
<1>9. /\ down[NULL] = NULL /\ down[key] = key
      /\ \A m \in Keys : m # key => down[m] = down[t.left[m]]
  <2> HIDE DEF next, down
  <2>1. \A m \in Pointers : down[m] = IF m = NULL \/ m = key THEN m ELSE down[t.left[m]]
    BY <1>8
  <2> HIDE DEF Solves
  <2> QED
    BY <2>1, NoKey
<1>10. SearchLeft(t, key) = down[t.root]
  BY DEF SearchLeft
<1> HIDE DEF next, down, Solves
<1> DEFINE P == {n \in Keys : down[n] = NULL \/ (down[n] = key /\ key \in S[n])}
<1>11. ASSUME NEW n \in Keys,
              \A x \in Keys : x \in S[t.left[n]] \/ x \in S[t.right[n]] => x \in P
       PROVE  n \in P
  <2>1. n \in S[n] /\ S[t.left[n]] \subseteq S[n]
    BY <1>1, Sides
  <2>2. CASE n = key
    BY <1>9, <2>1, <2>2
  <2>3. CASE n # key /\ t.left[n] = NULL
    BY <1>9, <2>3
  <2>4. CASE n # key /\ t.left[n] # NULL
    <3>1. t.left[n] \in Keys /\ t.left[n] \in S[t.left[n]]
      BY <1>1, <2>4, Sides
    <3>2. t.left[n] \in P
      BY <1>11, <3>1
    <3> QED
      BY <1>9, <2>1, <2>4, <3>2
  <2> QED
    BY <2>2, <2>3, <2>4
<1> HIDE DEF P
<1>12. Keys \subseteq P
  BY <1>1, <1>11, FromBelow
<1>13. CASE t.root = NULL
  BY <1>9, <1>10, <1>13
<1>14. CASE t.root # NULL
  BY <1>0, <1>1, <1>10, <1>12, <1>14, NoKey DEF P
<1> QED
  BY <1>13, <1>14

Chains == [first : [Keys -> Entries \cup {NULL}], last : [Keys -> Entries \cup {NULL}],
           size : [Keys -> Nat], next : [Entries -> Entries \cup {NULL}],
           prev : [Entries -> Entries \cup {NULL}], key_node : [Entries -> Keys \cup {NULL}]]

\* The list of the key node k is s, in both directions.
Lists(c, k, s) ==
    /\ s \in Seq(Entries) /\ c.size[k] = Len(s)
    /\ c.first[k] = IF Len(s) = 0 THEN NULL ELSE s[1]
    /\ c.last[k] = IF Len(s) = 0 THEN NULL ELSE s[Len(s)]
    /\ \A i, j \in 1..Len(s) : s[i] = s[j] => i = j
    /\ \A i \in 1..Len(s) : /\ c.key_node[s[i]] = k
                            /\ c.next[s[i]] = IF i = Len(s) THEN NULL ELSE s[i + 1]
                            /\ c.prev[s[i]] = IF i = 1 THEN NULL ELSE s[i - 1]

\* A value node outside the tree points nowhere, any other is in the list of its key.
Accounted(c, l, e) ==
    IF c.key_node[e] = NULL THEN c.next[e] = NULL /\ c.prev[e] = NULL
    ELSE \E i \in 1..Len(l[c.key_node[e]]) : l[c.key_node[e]][i] = e

Chained(c, l) ==
    /\ c \in Chains /\ l \in [Keys -> Seq(Entries)]
    /\ \A k \in Keys : Lists(c, k, l[k])
    /\ \A e \in Entries : Accounted(c, l, e)

\* d is c with the list s at k: value nodes came from outside or went there.
Relisted(d, c, k, s) ==
    /\ d \in Chains /\ Lists(d, k, s)
    /\ \A j \in Keys \ {k} : d.first[j] = c.first[j] /\ d.last[j] = c.last[j] /\ d.size[j] = c.size[j]
    /\ \A x \in Entries :
         IF c.key_node[x] \in {k, NULL}
         THEN IF d.key_node[x] = NULL THEN d.next[x] = NULL /\ d.prev[x] = NULL
              ELSE d.key_node[x] = k /\ \E i \in 1..Len(s) : s[i] = x
         ELSE d.key_node[x] = c.key_node[x] /\ d.next[x] = c.next[x] /\ d.prev[x] = c.prev[x]

LEMMA NoEntry == NULL \notin Entries
  BY EntriesAreNumbers DEF NULL

LEMMA RelistedKeeps ==
    ASSUME NEW c, NEW l, Chained(c, l), NEW k \in Keys, NEW s, NEW d, Relisted(d, c, k, s)
    PROVE  Chained(d, [l EXCEPT ![k] = s])
<1>1. PICK m : m = [l EXCEPT ![k] = s]
  OBVIOUS
<1>2. l \in [Keys -> Seq(Entries)] /\ s \in Seq(Entries)
  BY DEF Chained, Relisted, Lists
<1>3. /\ m \in [Keys -> Seq(Entries)] /\ m[k] = s
      /\ \A j \in Keys \ {k} : m[j] = l[j]
  BY <1>1, <1>2
<1>4. ASSUME NEW j \in Keys
      PROVE  Lists(d, j, m[j])
  <2>1. CASE j = k
    BY <1>3, <2>1 DEF Relisted
  <2>2. CASE j # k
    <3>1. Lists(c, j, l[j])
      BY DEF Chained
    <3>2. \A i \in 1..Len(l[j]) : l[j][i] \in Entries /\ c.key_node[l[j][i]] = j
      BY <1>2, <3>1 DEF Lists
    <3>3. \A x \in Entries : c.key_node[x] = j =>
             d.key_node[x] = c.key_node[x] /\ d.next[x] = c.next[x] /\ d.prev[x] = c.prev[x]
      BY <2>2, NoKey DEF Relisted
    <3>4. d.first[j] = c.first[j] /\ d.last[j] = c.last[j] /\ d.size[j] = c.size[j]
      BY <2>2 DEF Relisted
    <3>5. PICK s1 : s1 = l[j]
      OBVIOUS
    <3>6. \A i \in 1..Len(s1) : /\ d.key_node[s1[i]] = c.key_node[s1[i]]
                               /\ d.next[s1[i]] = c.next[s1[i]] /\ d.prev[s1[i]] = c.prev[s1[i]]
      BY <3>2, <3>3, <3>5
    <3>7. Lists(d, j, s1)
      BY <3>1, <3>4, <3>5, <3>6 DEF Lists
    <3> QED
      BY <1>3, <2>2, <3>5, <3>7
  <2> QED
    BY <2>1, <2>2
<1>5. ASSUME NEW x \in Entries
      PROVE  Accounted(d, m, x)
  <2>1. Accounted(c, l, x)
    BY DEF Chained
  <2>2. IF c.key_node[x] \in {k, NULL}
        THEN IF d.key_node[x] = NULL THEN d.next[x] = NULL /\ d.prev[x] = NULL
             ELSE d.key_node[x] = k /\ \E i \in 1..Len(s) : s[i] = x
        ELSE d.key_node[x] = c.key_node[x] /\ d.next[x] = c.next[x] /\ d.prev[x] = c.prev[x]
    BY DEF Relisted
  <2>3. c.key_node[x] \in Keys \cup {NULL}
    BY DEF Chained, Chains
  <2>4. CASE c.key_node[x] \in {k, NULL}
    BY <1>3, <2>2, <2>4 DEF Accounted
  <2>5. CASE c.key_node[x] \notin {k, NULL}
    <3>1. m[c.key_node[x]] = l[c.key_node[x]] /\ d.key_node[x] = c.key_node[x]
      BY <1>3, <2>2, <2>3, <2>5
    <3> QED
      BY <2>1, <2>5, <3>1 DEF Accounted
  <2> QED
    BY <2>4, <2>5
<1>6. d \in Chains
  BY DEF Relisted
<1> QED
  BY <1>1, <1>3, <1>4, <1>5, <1>6 DEF Chained

\* In a list, a value node is once, and others are in none or in another.
LEMMA ListedOnce ==
    ASSUME NEW c, NEW l, Chained(c, l), NEW k \in Keys, NEW e \in Entries
    PROVE  c.key_node[e] = k <=> \E i \in 1..Len(l[k]) : l[k][i] = e
<1>1. Lists(c, k, l[k]) /\ Accounted(c, l, e)
  BY DEF Chained
<1> QED
  BY <1>1, NoKey DEF Lists, Accounted

LEMMA PushBackIs ==
    ASSUME NEW c, NEW l, Chained(c, l), NEW k \in Keys, NEW e \in Entries, c.key_node[e] = NULL
    PROVE  Relisted(pushBack(c, k, e), c, k, Append(l[k], e))
<1>1. PICK s, n, t : s = l[k] /\ n = Len(s) /\ t = Append(s, e)
  OBVIOUS
<1>2. Lists(c, k, s) /\ c \in Chains /\ Accounted(c, l, e)
  BY <1>1 DEF Chained
<1>3. /\ s \in Seq(Entries) /\ n \in Nat /\ t \in Seq(Entries) /\ Len(t) = n + 1
      /\ t[n + 1] = e /\ \A i \in 1..n : t[i] = s[i] /\ s[i] \in Entries
  BY <1>1, <1>2 DEF Lists
<1>4. PICK d : d = pushBack(c, k, e)
  OBVIOUS
<1>5. /\ c.next[e] = NULL /\ c.prev[e] = NULL
      /\ c.size[k] = n /\ c.first[k] = (IF n = 0 THEN NULL ELSE s[1])
      /\ c.last[k] = (IF n = 0 THEN NULL ELSE s[n])
      /\ \A i, j \in 1..n : s[i] = s[j] => i = j
      /\ \A i \in 1..n : /\ c.key_node[s[i]] = k
                         /\ c.next[s[i]] = IF i = n THEN NULL ELSE s[i + 1]
                         /\ c.prev[s[i]] = IF i = 1 THEN NULL ELSE s[i - 1]
  BY <1>1, <1>2 DEF Lists, Accounted
<1>6. \A i \in 1..n : s[i] # e /\ s[i] # NULL
  BY <1>3, <1>5, NoKey, NoEntry
<1>7. /\ d \in Chains
      /\ \A j \in Keys : /\ d.first[j] = IF j = k /\ n = 0 THEN e ELSE c.first[j]
                         /\ d.last[j] = IF j = k THEN e ELSE c.last[j]
                         /\ d.size[j] = IF j = k THEN n + 1 ELSE c.size[j]
      /\ \A x \in Entries : /\ d.key_node[x] = IF x = e THEN k ELSE c.key_node[x]
                            /\ d.next[x] = IF n # 0 /\ x = s[n] THEN e ELSE c.next[x]
                            /\ d.prev[x] = IF x = e /\ n # 0 THEN s[n] ELSE c.prev[x]
  <2>1. CASE n = 0
    <3>1. c.first[k] = NULL
      BY <1>5, <2>1
    <3>2. d = [c EXCEPT !.key_node[e] = k, !.first[k] = e, !.last[k] = e,
                        !.next[e] = NULL, !.prev[e] = NULL, !.size[k] = @ + 1]
      BY <1>4, <3>1 DEF pushBack
    <3>3. /\ d.key_node = [c.key_node EXCEPT ![e] = k] /\ d.first = [c.first EXCEPT ![k] = e]
          /\ d.last = [c.last EXCEPT ![k] = e] /\ d.next = [c.next EXCEPT ![e] = NULL]
          /\ d.prev = [c.prev EXCEPT ![e] = NULL] /\ d.size = [c.size EXCEPT ![k] = n + 1]
          /\ d \in Chains
      <4>1. PICK fi, la, si, ne, pr, kn :
                 /\ fi = [c.first EXCEPT ![k] = e] /\ la = [c.last EXCEPT ![k] = e]
                 /\ si = [c.size EXCEPT ![k] = n + 1] /\ ne = [c.next EXCEPT ![e] = NULL]
                 /\ pr = [c.prev EXCEPT ![e] = NULL] /\ kn = [c.key_node EXCEPT ![e] = k]
        OBVIOUS
      <4>2. /\ fi \in [Keys -> Entries \cup {NULL}] /\ la \in [Keys -> Entries \cup {NULL}]
            /\ si \in [Keys -> Nat] /\ ne \in [Entries -> Entries \cup {NULL}]
            /\ pr \in [Entries -> Entries \cup {NULL}] /\ kn \in [Entries -> Keys \cup {NULL}]
        BY <1>2, <1>3, <4>1 DEF Chains
      <4>3. d = [c EXCEPT !.first = fi, !.last = la, !.size = si, !.next = ne,
                          !.prev = pr, !.key_node = kn]
        BY <1>2, <1>5, <3>2, <4>1 DEF Chains
      <4>4. /\ d \in Chains /\ d.first = fi /\ d.last = la /\ d.size = si
            /\ d.next = ne /\ d.prev = pr /\ d.key_node = kn
        BY <1>2, <4>2, <4>3 DEF Chains
      <4> QED
        BY <4>1, <4>4
    <3> QED
      BY <1>2, <1>5, <2>1, <3>3 DEF Chains
  <2>2. CASE n # 0
    <3>1. c.first[k] # NULL /\ c.last[k] = s[n] /\ s[n] \in Entries
      BY <1>3, <1>5, <1>6, <2>2
    <3>2. d = [c EXCEPT !.key_node[e] = k, !.prev[e] = s[n], !.next[s[n]] = e,
                        !.last[k] = e, !.size[k] = @ + 1]
      BY <1>4, <3>1 DEF pushBack
    <3>3. /\ d.key_node = [c.key_node EXCEPT ![e] = k] /\ d.first = c.first
          /\ d.last = [c.last EXCEPT ![k] = e] /\ d.next = [c.next EXCEPT ![s[n]] = e]
          /\ d.prev = [c.prev EXCEPT ![e] = s[n]] /\ d.size = [c.size EXCEPT ![k] = n + 1]
          /\ d \in Chains
      <4>1. PICK fi, la, si, ne, pr, kn :
                 /\ fi = c.first /\ la = [c.last EXCEPT ![k] = e]
                 /\ si = [c.size EXCEPT ![k] = n + 1] /\ ne = [c.next EXCEPT ![s[n]] = e]
                 /\ pr = [c.prev EXCEPT ![e] = s[n]] /\ kn = [c.key_node EXCEPT ![e] = k]
        OBVIOUS
      <4>2. /\ fi \in [Keys -> Entries \cup {NULL}] /\ la \in [Keys -> Entries \cup {NULL}]
            /\ si \in [Keys -> Nat] /\ ne \in [Entries -> Entries \cup {NULL}]
            /\ pr \in [Entries -> Entries \cup {NULL}] /\ kn \in [Entries -> Keys \cup {NULL}]
        BY <1>2, <1>3, <3>1, <4>1 DEF Chains
      <4>3. d = [c EXCEPT !.first = fi, !.last = la, !.size = si, !.next = ne,
                          !.prev = pr, !.key_node = kn]
        BY <1>2, <1>5, <3>2, <4>1 DEF Chains
      <4>4. /\ d \in Chains /\ d.first = fi /\ d.last = la /\ d.size = si
            /\ d.next = ne /\ d.prev = pr /\ d.key_node = kn
        BY <1>2, <4>2, <4>3 DEF Chains
      <4> QED
        BY <4>1, <4>4
    <3> QED
      BY <1>2, <1>5, <2>2, <3>1, <3>3 DEF Chains
  <2> QED
    BY <2>1, <2>2
<1>8. Lists(d, k, t)
  <2>1. ASSUME NEW i \in 1..(n + 1), NEW j \in 1..(n + 1), t[i] = t[j]
        PROVE  i = j
    <3>1. (i \in 1..n \/ i = n + 1) /\ (j \in 1..n \/ j = n + 1)
      BY <1>3
    <3> QED
      BY <1>3, <1>5, <1>6, <2>1, <3>1
  <2>2. ASSUME NEW i \in 1..(n + 1)
        PROVE  /\ d.key_node[t[i]] = k
               /\ d.next[t[i]] = IF i = n + 1 THEN NULL ELSE t[i + 1]
               /\ d.prev[t[i]] = IF i = 1 THEN NULL ELSE t[i - 1]
    <3>1. CASE i = n + 1
      <4>1. t[i] = e /\ (n # 0 => s[n] # e /\ t[i - 1] = s[n])
        BY <1>3, <1>6, <3>1
      <4> QED
        BY <1>3, <1>5, <1>7, <3>1, <4>1
    <3>2. CASE i \in 1..n
      <4>1. /\ t[i] = s[i] /\ s[i] # e /\ s[i] \in Entries /\ n # 0
            /\ i # 1 => t[i - 1] = s[i - 1]
        BY <1>3, <1>6, <3>2
      <4>2. s[i] = s[n] <=> i = n
        <5>1. n \in 1..n
          BY <1>3, <4>1
        <5> QED
          BY <1>5, <3>2, <5>1
      <4>3. i = n => t[i + 1] = e
        BY <1>3
      <4>4. i # n => t[i + 1] = s[i + 1]
        BY <1>3, <3>2
      <4>5. s[i] \in Entries /\ i \in Int /\ i # n + 1 /\ t[i] = s[i]
        BY <1>3, <3>2, <4>1
      <4>6. d.key_node[s[i]] = k /\ d.prev[s[i]] = c.prev[s[i]]
        BY <1>5, <1>7, <3>2, <4>1
      <4>7. d.next[s[i]] = IF i = n THEN e ELSE c.next[s[i]]
        BY <1>7, <4>1, <4>2
      <4>8. c.prev[s[i]] = (IF i = 1 THEN NULL ELSE s[i - 1])
            /\ c.next[s[i]] = (IF i = n THEN NULL ELSE s[i + 1])
        BY <1>5, <3>2
      <4> QED
        BY <4>1, <4>3, <4>4, <4>5, <4>6, <4>7, <4>8
    <3> QED
      BY <1>3, <3>1, <3>2
  <2>3. d.first[k] = t[1] /\ d.last[k] = t[n + 1]
    BY <1>3, <1>5, <1>7
  <2> QED
    BY <1>3, <1>7, <2>1, <2>2, <2>3 DEF Lists
<1>9. ASSUME NEW x \in Entries
      PROVE  IF c.key_node[x] \in {k, NULL}
             THEN IF d.key_node[x] = NULL THEN d.next[x] = NULL /\ d.prev[x] = NULL
                  ELSE d.key_node[x] = k /\ \E i \in 1..Len(t) : t[i] = x
             ELSE d.key_node[x] = c.key_node[x] /\ d.next[x] = c.next[x] /\ d.prev[x] = c.prev[x]
  <2>1. c.key_node[x] = k => \E i \in 1..n : s[i] = x
    BY <1>1, ListedOnce
  <2>2. c.key_node[x] = k => \E i \in 1..Len(t) : t[i] = x
    BY <1>3, <2>1
  <2>3. \E i \in 1..Len(t) : t[i] = e
    BY <1>3
  <2>4. c.key_node[x] = NULL => c.next[x] = NULL /\ c.prev[x] = NULL
    BY DEF Chained, Accounted
  <2>5. c.key_node[x] # k => ~(n # 0 /\ x = s[n])
    <3>1. n # 0 => n \in 1..n
      BY <1>3
    <3> QED
      BY <1>5, <3>1
  <2> QED
    BY <1>7, <2>2, <2>3, <2>4, <2>5, NoKey
<1> QED
  BY <1>1, <1>4, <1>7, <1>8, <1>9 DEF Relisted

LEMMA PushFrontIs ==
    ASSUME NEW c, NEW l, Chained(c, l), NEW k \in Keys, NEW e \in Entries, c.key_node[e] = NULL
    PROVE  Relisted(pushFront(c, k, e), c, k, <<e>> \o l[k])
<1>1. PICK s, n : s = l[k] /\ n = Len(s)
  OBVIOUS
<1>2. Lists(c, k, s) /\ c \in Chains /\ Accounted(c, l, e)
  BY <1>1 DEF Chained
<1>3. s \in Seq(Entries) /\ n \in Nat /\ \A i \in 1..n : s[i] \in Entries
  BY <1>1, <1>2 DEF Lists
<1>4. /\ c.next[e] = NULL /\ c.prev[e] = NULL
      /\ c.size[k] = n /\ c.first[k] = (IF n = 0 THEN NULL ELSE s[1])
      /\ c.last[k] = (IF n = 0 THEN NULL ELSE s[n])
      /\ \A i, j \in 1..n : s[i] = s[j] => i = j
      /\ \A i \in 1..n : /\ c.key_node[s[i]] = k
                         /\ c.next[s[i]] = IF i = n THEN NULL ELSE s[i + 1]
                         /\ c.prev[s[i]] = IF i = 1 THEN NULL ELSE s[i - 1]
  BY <1>1, <1>2 DEF Lists, Accounted
<1>5. CASE n = 0
  <2>1. s = <<>>
    BY <1>1, <1>3, <1>5, EmptySeq
  <2>2. Append(s, e) = <<e>> \o s
    BY <2>1
  <2>3. pushFront(c, k, e) = pushBack(c, k, e)
    BY <1>4, <1>5 DEF pushFront
  <2>4. Relisted(pushBack(c, k, e), c, k, Append(l[k], e))
    BY PushBackIs
  <2> QED
    BY <1>1, <2>2, <2>3, <2>4
<1>6. CASE n # 0
  <2>1. PICK t : t = <<e>> \o s
    OBVIOUS
  <2>2. /\ t \in Seq(Entries) /\ Len(t) = n + 1 /\ t[1] = e
        /\ \A i \in 1..n : t[i + 1] = s[i]
    <3>1. <<e>> \in Seq(Entries) /\ Len(<<e>>) = 1 /\ <<e>>[1] = e
      OBVIOUS
    <3>2. /\ t \in Seq(Entries) /\ Len(t) = 1 + n
          /\ \A i \in 1..(1 + n) : t[i] = IF i <= 1 THEN <<e>>[i] ELSE s[i - 1]
      BY <1>1, <1>3, <2>1, <3>1, ConcatProperties
    <3>3. t[1] = e
      BY <1>3, <3>1, <3>2
    <3>4. ASSUME NEW i \in 1..n PROVE t[i + 1] = s[i]
      <4>1. i + 1 \in 1..(1 + n) /\ ~(i + 1 <= 1) /\ (i + 1) - 1 = i
        BY <1>3
      <4> QED
        BY <3>2, <4>1
    <3> QED
      BY <1>3, <3>2, <3>3, <3>4
  <2>3. 1 \in 1..n /\ n \in 1..n /\ s[1] \in Entries /\ c.first[k] = s[1] /\ s[1] # NULL
    <3>1. 1 \in 1..n /\ n \in 1..n
      BY <1>3, <1>6
    <3> QED
      BY <1>3, <1>4, <1>6, <3>1, NoEntry
  <2>4. \A i \in 1..n : s[i] # e
    BY <1>4, NoKey
  <2>5. PICK d : d = pushFront(c, k, e)
    OBVIOUS
  <2>6. /\ d \in Chains /\ d.first = [c.first EXCEPT ![k] = e] /\ d.last = c.last
        /\ d.size = [c.size EXCEPT ![k] = n + 1] /\ d.next = [c.next EXCEPT ![e] = s[1]]
        /\ d.prev = [c.prev EXCEPT ![s[1]] = e] /\ d.key_node = [c.key_node EXCEPT ![e] = k]
    <3>1. PICK fi, si, ne, pr, kn :
               /\ fi = [c.first EXCEPT ![k] = e]
               /\ si = [c.size EXCEPT ![k] = n + 1] /\ ne = [c.next EXCEPT ![e] = s[1]]
               /\ pr = [c.prev EXCEPT ![s[1]] = e] /\ kn = [c.key_node EXCEPT ![e] = k]
      OBVIOUS
    <3>2. /\ fi \in [Keys -> Entries \cup {NULL}]
          /\ si \in [Keys -> Nat] /\ ne \in [Entries -> Entries \cup {NULL}]
          /\ pr \in [Entries -> Entries \cup {NULL}] /\ kn \in [Entries -> Keys \cup {NULL}]
      BY <1>2, <1>3, <2>3, <3>1 DEF Chains
    <3>3. d = [c EXCEPT !.first = fi, !.size = si, !.next = ne, !.prev = pr, !.key_node = kn]
      BY <1>2, <1>4, <2>3, <2>5, <3>1 DEF Chains, pushFront
    <3>4. /\ d \in Chains /\ d.first = fi /\ d.last = c.last /\ d.size = si
          /\ d.next = ne /\ d.prev = pr /\ d.key_node = kn
      BY <1>2, <3>2, <3>3 DEF Chains
    <3> QED
      BY <3>1, <3>4
  <2>7. /\ \A j \in Keys : /\ d.first[j] = IF j = k THEN e ELSE c.first[j]
                           /\ d.last[j] = c.last[j]
                           /\ d.size[j] = IF j = k THEN n + 1 ELSE c.size[j]
        /\ \A x \in Entries : /\ d.key_node[x] = IF x = e THEN k ELSE c.key_node[x]
                              /\ d.next[x] = IF x = e THEN s[1] ELSE c.next[x]
                              /\ d.prev[x] = IF x = s[1] THEN e ELSE c.prev[x]
    BY <1>2, <2>3, <2>6 DEF Chains
  <2>8. \A i \in 1..(n + 1) : i = 1 \/ (i # 1 /\ i - 1 \in 1..n /\ t[i] = s[i - 1])
    <3>1. ASSUME NEW i \in 1..(n + 1), i # 1
          PROVE  i - 1 \in 1..n /\ t[i] = s[i - 1]
      <4>1. i - 1 \in 1..n /\ (i - 1) + 1 = i
        BY <1>3, <3>1
      <4> QED
        BY <2>2, <4>1
    <3> QED
      BY <3>1
  <2>9. Lists(d, k, t)
    <3>1. ASSUME NEW i \in 1..(n + 1), NEW j \in 1..(n + 1), t[i] = t[j]
          PROVE  i = j
      <4>1. (i = 1 \/ (i # 1 /\ i - 1 \in 1..n /\ t[i] = s[i - 1]))
            /\ (j = 1 \/ (j # 1 /\ j - 1 \in 1..n /\ t[j] = s[j - 1]))
        BY <2>8
      <4>2. CASE i # 1 /\ j # 1
        <5>1. i - 1 = j - 1
          BY <1>4, <3>1, <4>1, <4>2
        <5> QED
          BY <1>3, <5>1
      <4>3. CASE i = 1 \/ j = 1
        BY <2>2, <2>4, <3>1, <4>1, <4>3
      <4> QED
        BY <4>2, <4>3
    <3>2. ASSUME NEW i \in 1..(n + 1)
          PROVE  /\ d.key_node[t[i]] = k
                 /\ d.next[t[i]] = IF i = n + 1 THEN NULL ELSE t[i + 1]
                 /\ d.prev[t[i]] = IF i = 1 THEN NULL ELSE t[i - 1]
      <4>1. CASE i = 1
        <5>1. t[i] = e /\ e # s[1] /\ t[i + 1] = s[1] /\ i # n + 1
          BY <1>3, <1>6, <2>2, <2>3, <2>4, <4>1
        <5> QED
          BY <1>4, <2>7, <4>1, <5>1
      <4>2. CASE i # 1
        <5>1. PICK j \in 1..n : j = i - 1 /\ j + 1 = i /\ t[i] = s[j] /\ s[j] \in Entries /\ s[j] # e
          <6>1. i - 1 \in 1..n /\ (i - 1) + 1 = i
            BY <1>3, <4>2
          <6> QED
            BY <1>3, <2>4, <2>8, <4>2, <6>1
        <5>2. d.key_node[s[j]] = k /\ d.next[s[j]] = c.next[s[j]]
          BY <1>4, <2>7, <5>1
        <5>3. c.next[s[j]] = (IF j = n THEN NULL ELSE s[j + 1])
              /\ c.prev[s[j]] = (IF j = 1 THEN NULL ELSE s[j - 1])
          BY <1>4
        <5>4. j # n => t[i + 1] = s[j + 1] /\ i # n + 1
          <6>1. j # n => i \in 1..n
            BY <1>3, <5>1
          <6> QED
            BY <1>3, <2>2, <5>1, <6>1
        <5>5. j = n => i = n + 1
          BY <5>1
        <5>6. d.next[s[j]] = IF i = n + 1 THEN NULL ELSE t[i + 1]
          BY <5>2, <5>3, <5>4, <5>5
        <5>7. s[j] = s[1] <=> j = 1
          BY <1>4, <2>3
        <5>8. j = 1 => t[i - 1] = e
          BY <2>2, <5>1
        <5>9. j # 1 => t[i - 1] = s[j - 1]
          <6>1. j # 1 => j \in 1..(n + 1) /\ j # 1
            BY <1>3
          <6> QED
            BY <2>8, <5>1, <6>1
        <5>10. d.prev[s[j]] = t[i - 1]
          BY <2>7, <5>1, <5>3, <5>7, <5>8, <5>9
        <5> QED
          BY <4>2, <5>1, <5>2, <5>6, <5>10
      <4> QED
        BY <4>1, <4>2
    <3>3. d.first[k] = t[1] /\ d.last[k] = t[n + 1] /\ d.size[k] = n + 1 /\ n + 1 # 0
      BY <1>3, <1>4, <1>6, <2>2, <2>3, <2>7
    <3> QED
      BY <2>2, <3>1, <3>2, <3>3 DEF Lists
  <2>10. ASSUME NEW x \in Entries
         PROVE  IF c.key_node[x] \in {k, NULL}
                THEN IF d.key_node[x] = NULL THEN d.next[x] = NULL /\ d.prev[x] = NULL
                     ELSE d.key_node[x] = k /\ \E i \in 1..Len(t) : t[i] = x
                ELSE d.key_node[x] = c.key_node[x] /\ d.next[x] = c.next[x] /\ d.prev[x] = c.prev[x]
    <3>1. c.key_node[x] = k => \E i \in 1..n : s[i] = x
      BY <1>1, ListedOnce
    <3>2. \A i \in 1..n : i + 1 \in 1..(n + 1)
      BY <1>3
    <3>3. c.key_node[x] = k => \E i \in 1..Len(t) : t[i] = x
      BY <2>2, <3>1, <3>2
    <3>4. \E i \in 1..Len(t) : t[i] = e
      BY <1>3, <2>2
    <3>5. c.key_node[x] = NULL => c.next[x] = NULL /\ c.prev[x] = NULL
      BY DEF Chained, Accounted
    <3>6. c.key_node[s[1]] = k
      BY <1>4, <2>3
    <3> QED
      BY <2>7, <3>3, <3>4, <3>5, <3>6, NoKey
  <2> QED
    BY <1>1, <2>1, <2>5, <2>6, <2>7, <2>9, <2>10 DEF Relisted
<1> QED
  BY <1>5, <1>6

\* s without its place q, element by element.
LEMMA WithoutIs ==
    ASSUME NEW E, NEW s \in Seq(E), NEW q \in 1..Len(s)
    PROVE  /\ Without(s, q) \in Seq(E) /\ Len(Without(s, q)) = Len(s) - 1
           /\ \A j \in 1..(Len(s) - 1) : Without(s, q)[j] = IF j < q THEN s[j] ELSE s[j + 1]
<1>1. PICK n \in Nat : n = Len(s)
  OBVIOUS
<1>2. PICK m \in Nat : m = n - 1
  <2>1. n - 1 \in Nat
    BY <1>1
  <2> QED
    BY <2>1
<1>3. PICK t : t = [j \in 1..m |-> IF j < q THEN s[j] ELSE s[j + 1]]
  OBVIOUS
<1>4. \A j \in 1..m : (IF j < q THEN s[j] ELSE s[j + 1]) \in E
  BY <1>1, <1>2
<1>5. t \in Seq(E) /\ Len(t) = m /\ \A j \in 1..m : t[j] = IF j < q THEN s[j] ELSE s[j + 1]
  BY <1>3, <1>4
<1> QED
  BY <1>1, <1>2, <1>3, <1>5 DEF Without

\* Unlinking the value node at place q of its list: the fields that change.
Unlinked(d, c, k, s, q) ==
    LET n == Len(s)
        after  == IF q = n THEN NULL ELSE s[q + 1]
        before == IF q = 1 THEN NULL ELSE s[q - 1]
    IN  /\ d \in Chains
        /\ \A j \in Keys : /\ d.first[j] = IF j = k /\ q = 1 THEN after ELSE c.first[j]
                           /\ d.last[j] = IF j = k /\ q = n THEN before ELSE c.last[j]
                           /\ d.size[j] = IF j = k THEN n - 1 ELSE c.size[j]
        /\ \A x \in Entries :
             /\ d.key_node[x] = IF x = s[q] THEN NULL ELSE c.key_node[x]
             /\ d.next[x] = IF x = s[q] THEN NULL ELSE IF q # 1 /\ x = before THEN after ELSE c.next[x]
             /\ d.prev[x] = IF x = s[q] THEN NULL ELSE IF q # n /\ x = after THEN before ELSE c.prev[x]

LEMMA UnlinkedIs ==
    ASSUME NEW c, NEW l, Chained(c, l), NEW k \in Keys, NEW q \in 1..Len(l[k])
    PROVE  Unlinked(Unlink(c, k, l[k][q]), c, k, l[k], q)
<1>1. PICK s, n, e : s = l[k] /\ n = Len(s) /\ e = s[q]
  OBVIOUS
<1>2. Lists(c, k, s) /\ c \in Chains
  BY <1>1 DEF Chained
<1>3. /\ s \in Seq(Entries) /\ n \in Nat /\ q \in 1..n /\ e \in Entries /\ n - 1 \in Nat
      /\ q # n => q + 1 \in 1..n /\ s[q + 1] \in Entries
      /\ q # 1 => q - 1 \in 1..n /\ s[q - 1] \in Entries
  BY <1>1, <1>2 DEF Lists
<1>4. PICK after, before : /\ after = (IF q = n THEN NULL ELSE s[q + 1])
                           /\ before = (IF q = 1 THEN NULL ELSE s[q - 1])
  OBVIOUS
<1>5. /\ c.size[k] = n /\ c.first[k] = s[1] /\ c.last[k] = s[n]
      /\ \A i, j \in 1..n : s[i] = s[j] => i = j
      /\ c.next[e] = after /\ c.prev[e] = before
  <2>1. n # 0 /\ c.size[k] = n /\ \A i, j \in 1..n : s[i] = s[j] => i = j
    BY <1>1, <1>2, <1>3 DEF Lists
  <2>2. c.first[k] = s[1] /\ c.last[k] = s[n]
    BY <1>1, <1>2, <2>1 DEF Lists
  <2>3. c.next[s[q]] = (IF q = n THEN NULL ELSE s[q + 1]) /\ c.prev[s[q]] = (IF q = 1 THEN NULL ELSE s[q - 1])
    BY <1>1, <1>2, <1>3 DEF Lists
  <2> QED
    BY <1>1, <1>4, <2>1, <2>2, <2>3
<1>6. /\ after \in Entries \cup {NULL} /\ before \in Entries \cup {NULL}
      /\ after # NULL <=> q # n
      /\ before # NULL <=> q # 1
      /\ after # NULL => after \in Entries /\ after # e
      /\ before # NULL => before \in Entries /\ before # e
      /\ q = n => e = c.last[k]
      /\ q = 1 => e = c.first[k]
  <2>1. q # n => s[q + 1] # e
    BY <1>1, <1>3, <1>5
  <2>2. q # 1 => s[q - 1] # e
    BY <1>1, <1>3, <1>5
  <2> QED
    BY <1>1, <1>3, <1>4, <1>5, <2>1, <2>2, NoEntry
<1>7. PICK a : a = IF q # n THEN [c EXCEPT !.prev[after] = before] ELSE [c EXCEPT !.last[k] = before]
  OBVIOUS
<1>8. /\ a \in Chains /\ a.first = c.first /\ a.size = c.size /\ a.next = c.next /\ a.key_node = c.key_node
      /\ a.last = IF q = n THEN [c.last EXCEPT ![k] = before] ELSE c.last
      /\ a.prev = IF q = n THEN c.prev ELSE [c.prev EXCEPT ![after] = before]
  <2>1. PICK la, pr : la = [c.last EXCEPT ![k] = before] /\ pr = [c.prev EXCEPT ![after] = before]
    OBVIOUS
  <2>2. la \in [Keys -> Entries \cup {NULL}] /\ pr \in [Entries -> Entries \cup {NULL}]
    BY <1>2, <1>6, <2>1 DEF Chains
  <2>3. a = IF q # n THEN [c EXCEPT !.prev = pr] ELSE [c EXCEPT !.last = la]
    BY <1>2, <1>7, <2>1 DEF Chains
  <2>4. /\ a \in Chains /\ a.first = c.first /\ a.size = c.size /\ a.next = c.next /\ a.key_node = c.key_node
        /\ a.last = (IF q = n THEN la ELSE c.last) /\ a.prev = (IF q = n THEN c.prev ELSE pr)
    BY <1>2, <2>2, <2>3 DEF Chains
  <2> QED
    BY <2>1, <2>4
<1>9. PICK b : b = IF q # 1 THEN [a EXCEPT !.next[before] = after] ELSE [a EXCEPT !.first[k] = after]
  OBVIOUS
<1>10. /\ b \in Chains /\ b.last = a.last /\ b.size = c.size /\ b.prev = a.prev /\ b.key_node = c.key_node
       /\ b.first = IF q = 1 THEN [c.first EXCEPT ![k] = after] ELSE c.first
       /\ b.next = IF q = 1 THEN c.next ELSE [c.next EXCEPT ![before] = after]
  <2>1. PICK fi, ne : fi = [c.first EXCEPT ![k] = after] /\ ne = [c.next EXCEPT ![before] = after]
    OBVIOUS
  <2>2. fi \in [Keys -> Entries \cup {NULL}] /\ ne \in [Entries -> Entries \cup {NULL}]
    BY <1>2, <1>6, <2>1 DEF Chains
  <2>3. b = IF q # 1 THEN [a EXCEPT !.next = ne] ELSE [a EXCEPT !.first = fi]
    BY <1>8, <1>9, <2>1 DEF Chains
  <2>4. /\ b \in Chains /\ b.last = a.last /\ b.size = a.size /\ b.prev = a.prev /\ b.key_node = a.key_node
        /\ b.first = (IF q = 1 THEN fi ELSE a.first) /\ b.next = (IF q = 1 THEN a.next ELSE ne)
    BY <1>8, <2>2, <2>3 DEF Chains
  <2> QED
    BY <1>8, <2>1, <2>4
<1>11. PICK d : d = Unlink(c, k, e)
  OBVIOUS
<1>12. d = [b EXCEPT !.key_node[e] = NULL, !.next[e] = NULL, !.prev[e] = NULL, !.size[k] = @ - 1]
  <2>1. a = IF after # NULL THEN [c EXCEPT !.prev[after] = before]
            ELSE IF e = c.last[k] THEN [c EXCEPT !.last[k] = before] ELSE c
    BY <1>6, <1>7
  <2>2. b = IF before # NULL THEN [a EXCEPT !.next[before] = after]
            ELSE IF e = c.first[k] THEN [a EXCEPT !.first[k] = after] ELSE a
    BY <1>6, <1>9
  <2>3. after = c.next[e] /\ before = c.prev[e]
    BY <1>5
  <2> QED
    BY <1>11, <2>1, <2>2, <2>3 DEF Unlink
<1>13. /\ d \in Chains /\ d.first = b.first /\ d.last = b.last
       /\ d.key_node = [c.key_node EXCEPT ![e] = NULL] /\ d.next = [b.next EXCEPT ![e] = NULL]
       /\ d.prev = [b.prev EXCEPT ![e] = NULL] /\ d.size = [c.size EXCEPT ![k] = n - 1]
  <2>1. PICK kn, ne, pr, si :
              /\ kn = [b.key_node EXCEPT ![e] = NULL] /\ ne = [b.next EXCEPT ![e] = NULL]
              /\ pr = [b.prev EXCEPT ![e] = NULL] /\ si = [b.size EXCEPT ![k] = n - 1]
    OBVIOUS
  <2>2. /\ kn \in [Entries -> Keys \cup {NULL}] /\ ne \in [Entries -> Entries \cup {NULL}]
        /\ pr \in [Entries -> Entries \cup {NULL}] /\ si \in [Keys -> Nat]
    BY <1>3, <1>10, <2>1 DEF Chains
  <2>3. d = [b EXCEPT !.key_node = kn, !.next = ne, !.prev = pr, !.size = si]
    BY <1>5, <1>10, <1>12, <2>1 DEF Chains
  <2>4. /\ d \in Chains /\ d.first = b.first /\ d.last = b.last /\ d.key_node = kn
        /\ d.next = ne /\ d.prev = pr /\ d.size = si
    BY <1>10, <2>2, <2>3 DEF Chains
  <2> QED
    BY <1>10, <2>1, <2>4
<1>14. \A j \in Keys : /\ d.first[j] = IF j = k /\ q = 1 THEN after ELSE c.first[j]
                       /\ d.last[j] = IF j = k /\ q = n THEN before ELSE c.last[j]
                       /\ d.size[j] = IF j = k THEN n - 1 ELSE c.size[j]
  BY <1>2, <1>8, <1>10, <1>13 DEF Chains
<1>15. \A x \in Entries :
         /\ d.key_node[x] = IF x = e THEN NULL ELSE c.key_node[x]
         /\ d.next[x] = IF x = e THEN NULL ELSE IF q # 1 /\ x = before THEN after ELSE c.next[x]
         /\ d.prev[x] = IF x = e THEN NULL ELSE IF q # n /\ x = after THEN before ELSE c.prev[x]
  <2>1. /\ c.next \in [Entries -> Entries \cup {NULL}] /\ c.prev \in [Entries -> Entries \cup {NULL}]
        /\ b.next \in [Entries -> Entries \cup {NULL}] /\ b.prev \in [Entries -> Entries \cup {NULL}]
        /\ c.key_node \in [Entries -> Keys \cup {NULL}]
    BY <1>2, <1>10 DEF Chains
  <2>2. \A x \in Entries : b.next[x] = IF q # 1 /\ x = before THEN after ELSE c.next[x]
    BY <1>10, <2>1
  <2>3. \A x \in Entries : b.prev[x] = IF q # n /\ x = after THEN before ELSE c.prev[x]
    BY <1>8, <1>10, <2>1
  <2> QED
    BY <1>13, <2>1, <2>2, <2>3
<1> QED
  BY <1>1, <1>4, <1>11, <1>13, <1>14, <1>15 DEF Unlinked

LEMMA UnlinkIs ==
    ASSUME NEW c, NEW l, Chained(c, l), NEW k \in Keys, NEW q \in 1..Len(l[k])
    PROVE  Relisted(Unlink(c, k, l[k][q]), c, k, Without(l[k], q))
<1>1. PICK s, n, e, t, d : /\ s = l[k] /\ n = Len(s) /\ e = s[q] /\ t = Without(s, q)
                           /\ d = Unlink(c, k, e)
  OBVIOUS
<1>2. Lists(c, k, s) /\ c \in Chains
  BY <1>1 DEF Chained
<1>3. s \in Seq(Entries) /\ n \in Nat /\ q \in 1..n /\ n - 1 \in Nat /\ \A i \in 1..n : s[i] \in Entries
  BY <1>1, <1>2 DEF Lists
<1>4. /\ \A i, j \in 1..n : s[i] = s[j] => i = j
      /\ \A i \in 1..n : /\ c.key_node[s[i]] = k
                         /\ c.next[s[i]] = IF i = n THEN NULL ELSE s[i + 1]
                         /\ c.prev[s[i]] = IF i = 1 THEN NULL ELSE s[i - 1]
      /\ c.first[k] = s[1] /\ c.last[k] = s[n]
  <2>1. n # 0
    BY <1>3
  <2> QED
    BY <1>1, <1>2, <2>1 DEF Lists
<1>5. /\ t \in Seq(Entries) /\ Len(t) = n - 1
      /\ \A j \in 1..(n - 1) : t[j] = IF j < q THEN s[j] ELSE s[j + 1]
  BY <1>1, <1>3, WithoutIs
<1>6. PICK after, before : /\ after = (IF q = n THEN NULL ELSE s[q + 1])
                           /\ before = (IF q = 1 THEN NULL ELSE s[q - 1])
  OBVIOUS
<1>7. /\ d \in Chains
      /\ \A j \in Keys : /\ d.first[j] = IF j = k /\ q = 1 THEN after ELSE c.first[j]
                         /\ d.last[j] = IF j = k /\ q = n THEN before ELSE c.last[j]
                         /\ d.size[j] = IF j = k THEN n - 1 ELSE c.size[j]
      /\ \A x \in Entries :
           /\ d.key_node[x] = IF x = e THEN NULL ELSE c.key_node[x]
           /\ d.next[x] = IF x = e THEN NULL ELSE IF q # 1 /\ x = before THEN after ELSE c.next[x]
           /\ d.prev[x] = IF x = e THEN NULL ELSE IF q # n /\ x = after THEN before ELSE c.prev[x]
  <2>1. Unlinked(d, c, k, s, q)
    BY <1>1, UnlinkedIs
  <2> QED
    BY <1>1, <1>6, <2>1 DEF Unlinked
\* where the element at place j of t stands in s
<1>8. PICK w : w = [j \in 1..(n - 1) |-> IF j < q THEN j ELSE j + 1]
  OBVIOUS
<1>9. \A j \in 1..(n - 1) : /\ w[j] \in 1..n /\ w[j] # q /\ t[j] = s[w[j]]
                            /\ w[j] = IF j < q THEN j ELSE j + 1
  BY <1>3, <1>5, <1>8
<1>10. \A i, j \in 1..(n - 1) : t[i] = t[j] => i = j
  <2>1. ASSUME NEW i \in 1..(n - 1), NEW j \in 1..(n - 1), t[i] = t[j] PROVE i = j
    <3>1. w[i] = w[j]
      BY <1>4, <1>9, <2>1
    <3> QED
      BY <1>3, <1>9, <3>1
  <2> QED
    BY <2>1
<1>11. ASSUME NEW i \in 1..n, i # q
       PROVE  /\ s[i] \in Entries /\ s[i] # e /\ d.key_node[s[i]] = k
              /\ d.next[s[i]] = IF q # 1 /\ i = q - 1 THEN after ELSE IF i = n THEN NULL ELSE s[i + 1]
              /\ d.prev[s[i]] = IF q # n /\ i = q + 1 THEN before ELSE IF i = 1 THEN NULL ELSE s[i - 1]
  <2>1. s[i] \in Entries /\ s[i] # e
    BY <1>1, <1>3, <1>4, <1>11
  <2>2. q # 1 => (s[i] = before <=> i = q - 1)
    <3>1. q # 1 => q - 1 \in 1..n
      BY <1>3
    <3> QED
      BY <1>4, <1>6, <3>1
  <2>3. q # n => (s[i] = after <=> i = q + 1)
    <3>1. q # n => q + 1 \in 1..n
      BY <1>3
    <3> QED
      BY <1>4, <1>6, <3>1
  <2> QED
    BY <1>4, <1>7, <2>1, <2>2, <2>3
<1>12. ASSUME NEW j \in 1..(n - 1)
       PROVE  /\ d.key_node[t[j]] = k
              /\ d.next[t[j]] = IF j = n - 1 THEN NULL ELSE t[j + 1]
              /\ d.prev[t[j]] = IF j = 1 THEN NULL ELSE t[j - 1]
  <2>1. PICK i \in 1..n : i = w[j] /\ i # q /\ t[j] = s[i] /\ i = IF j < q THEN j ELSE j + 1
    BY <1>9
  <2>2. /\ d.key_node[s[i]] = k
        /\ d.next[s[i]] = IF q # 1 /\ i = q - 1 THEN after ELSE IF i = n THEN NULL ELSE s[i + 1]
        /\ d.prev[s[i]] = IF q # n /\ i = q + 1 THEN before ELSE IF i = 1 THEN NULL ELSE s[i - 1]
    BY <1>11, <2>1
  <2>3. j # n - 1 => j + 1 \in 1..(n - 1) /\ t[j + 1] = IF j + 1 < q THEN s[j + 1] ELSE s[j + 2]
    <3>1. j # n - 1 => j + 1 \in 1..(n - 1) /\ (j + 1) + 1 = j + 2
      BY <1>3
    <3> QED
      BY <1>5, <3>1
  <2>4. j # 1 => j - 1 \in 1..(n - 1) /\ t[j - 1] = IF j - 1 < q THEN s[j - 1] ELSE s[j]
    <3>1. j # 1 => j - 1 \in 1..(n - 1) /\ (j - 1) + 1 = j
      BY <1>3
    <3> QED
      BY <1>5, <3>1
  <2>5. d.next[t[j]] = IF j = n - 1 THEN NULL ELSE t[j + 1]
    <3>1. CASE j < q - 1
      <4>1. i = j /\ i # q - 1 /\ i # n /\ j # n - 1 /\ j + 1 < q
        BY <1>3, <2>1, <3>1
      <4> QED
        BY <2>1, <2>2, <2>3, <4>1
    <3>2. CASE j = q - 1
      <4>1. i = j /\ q # 1 /\ i = q - 1 /\ (q = n <=> j = n - 1) /\ ~(j + 1 < q) /\ j + 2 = q + 1
        BY <1>3, <2>1, <3>2
      <4> QED
        BY <1>6, <2>1, <2>2, <2>3, <4>1
    <3>3. CASE j > q - 1
      <4>1. i = j + 1 /\ i # q - 1 /\ (i = n <=> j = n - 1) /\ ~(j + 1 < q) /\ i + 1 = j + 2
        BY <1>3, <2>1, <3>3
      <4> QED
        BY <2>1, <2>2, <2>3, <4>1
    <3> QED
      BY <1>3, <3>1, <3>2, <3>3
  <2>6. d.prev[t[j]] = IF j = 1 THEN NULL ELSE t[j - 1]
    <3>1. CASE j < q
      <4>1. i = j /\ i # q + 1 /\ j - 1 < q
        BY <1>3, <2>1, <3>1
      <4> QED
        BY <2>1, <2>2, <2>4, <4>1
    <3>2. CASE j = q
      <4>1. i = j + 1 /\ i = q + 1 /\ q # n /\ j - 1 < q
        BY <1>3, <2>1, <3>2
      <4> QED
        BY <1>6, <2>1, <2>2, <2>4, <3>2, <4>1
    <3>3. CASE j > q
      <4>1. i = j + 1 /\ i # q + 1 /\ i # 1 /\ j # 1 /\ ~(j - 1 < q) /\ i - 1 = j
        BY <1>3, <2>1, <3>3
      <4> QED
        BY <2>1, <2>2, <2>4, <4>1
    <3> QED
      BY <1>3, <3>1, <3>2, <3>3
  <2> QED
    BY <2>1, <2>2, <2>5, <2>6
<1>13. d.size[k] = n - 1 /\ d.first[k] = (IF n - 1 = 0 THEN NULL ELSE t[1])
       /\ d.last[k] = (IF n - 1 = 0 THEN NULL ELSE t[n - 1])
  <2>1. d.size[k] = n - 1 /\ d.first[k] = (IF q = 1 THEN after ELSE s[1])
        /\ d.last[k] = (IF q = n THEN before ELSE s[n])
    BY <1>4, <1>7
  <2>2. n - 1 # 0 => /\ t[1] = (IF 1 < q THEN s[1] ELSE s[1 + 1])
                     /\ t[n - 1] = IF n - 1 < q THEN s[n - 1] ELSE s[(n - 1) + 1]
    <3>1. n - 1 # 0 => 1 \in 1..(n - 1) /\ n - 1 \in 1..(n - 1)
      BY <1>3
    <3> QED
      BY <1>5, <3>1
  <2>3. CASE n - 1 = 0
    <3>1. q = 1 /\ q = n
      BY <1>3, <2>3
    <3> QED
      BY <1>6, <2>1, <2>3, <3>1
  <2>4. CASE n - 1 # 0
    <3>1. t[1] = IF q = 1 THEN after ELSE s[1]
      BY <1>3, <1>6, <2>2, <2>4
    <3>2. t[n - 1] = IF q = n THEN before ELSE s[n]
      <4>1. (n - 1) + 1 = n /\ (n - 1 < q <=> q = n) /\ (q = n => q # 1 /\ q - 1 = n - 1)
        BY <1>3, <2>4
      <4> QED
        BY <1>6, <2>2, <2>4, <4>1
    <3> QED
      BY <2>1, <2>4, <3>1, <3>2
  <2> QED
    BY <2>3, <2>4
<1>14. Lists(d, k, t)
  BY <1>5, <1>10, <1>12, <1>13 DEF Lists
<1>15. ASSUME NEW x \in Entries
       PROVE  IF c.key_node[x] \in {k, NULL}
              THEN IF d.key_node[x] = NULL THEN d.next[x] = NULL /\ d.prev[x] = NULL
                   ELSE d.key_node[x] = k /\ \E i \in 1..Len(t) : t[i] = x
              ELSE d.key_node[x] = c.key_node[x] /\ d.next[x] = c.next[x] /\ d.prev[x] = c.prev[x]
  <2>1. CASE x = e
    <3>1. c.key_node[x] = k
      BY <1>1, <1>3, <1>4, <2>1
    <3> QED
      BY <1>7, <2>1, <3>1
  <2>2. CASE x # e /\ c.key_node[x] = k
    <3>1. PICK i \in 1..n : s[i] = x /\ i # q
      BY <1>1, <2>2, ListedOnce
    <3>2. PICK j \in 1..(n - 1) : i = IF j < q THEN j ELSE j + 1
      <4>1. i < q => i \in 1..(n - 1)
        BY <1>3
      <4>2. ~(i < q) => i - 1 \in 1..(n - 1) /\ ~(i - 1 < q) /\ i = (i - 1) + 1
        BY <1>3, <3>1
      <4> QED
        BY <4>1, <4>2
    <3>3. t[j] = x
      BY <1>5, <3>1, <3>2
    <3> QED
      BY <1>5, <1>7, <2>2, <3>3, NoKey
  <2>3. CASE x # e /\ c.key_node[x] # k
    <3>1. ~(q # 1 /\ x = before) /\ ~(q # n /\ x = after)
      <4>1. (q # 1 => q - 1 \in 1..n) /\ (q # n => q + 1 \in 1..n)
        BY <1>3
      <4> QED
        BY <1>4, <1>6, <2>3, <4>1
    <3>2. d.key_node[x] = c.key_node[x] /\ d.next[x] = c.next[x] /\ d.prev[x] = c.prev[x]
      BY <1>7, <2>3, <3>1
    <3>3. c.key_node[x] = NULL => c.next[x] = NULL /\ c.prev[x] = NULL
      BY DEF Chained, Accounted
    <3> QED
      BY <2>3, <3>2, <3>3
  <2> QED
    BY <2>1, <2>2, <2>3
<1> QED
  BY <1>1, <1>7, <1>14, <1>15 DEF Relisted

-----------------------------------------------------------------------------
(* What cannot be reached any more *)

\* The lists of the keys in D, and no others.
Kept(l, D) == [k \in Keys |-> IF k \in D THEN l[k] ELSE <<>>]

LEMMA AbandonIs ==
    ASSUME NEW c, NEW l, Chained(c, l), NEW t, NEW d, d = Abandon(c, t)
    PROVE  /\ d \in Chains
           /\ \A k \in Keys : IF k \in Contents(t)
                THEN d.first[k] = c.first[k] /\ d.last[k] = c.last[k] /\ d.size[k] = c.size[k]
                ELSE d.first[k] = NULL /\ d.last[k] = NULL /\ d.size[k] = 0
           /\ \A x \in Entries : IF c.key_node[x] \in Keys \ Contents(t)
                THEN d.key_node[x] = NULL /\ d.next[x] = NULL /\ d.prev[x] = NULL
                ELSE d.key_node[x] = c.key_node[x] /\ d.next[x] = c.next[x] /\ d.prev[x] = c.prev[x]
<1>1. PICK D, gone : D = Contents(t) /\ gone = {e \in Entries : c.key_node[e] \in Keys \ D}
  OBVIOUS
<1>2. /\ c.first \in [Keys -> Entries \cup {NULL}] /\ c.last \in [Keys -> Entries \cup {NULL}]
      /\ c.size \in [Keys -> Nat] /\ c.next \in [Entries -> Entries \cup {NULL}]
      /\ c.prev \in [Entries -> Entries \cup {NULL}] /\ c.key_node \in [Entries -> Keys \cup {NULL}]
  BY DEF Chained, Chains
<1>3. PICK fi, la, si, ne, pr, kn :
           /\ fi = [k \in Keys |-> IF k \in Keys \ D THEN NULL ELSE c.first[k]]
           /\ la = [k \in Keys |-> IF k \in Keys \ D THEN NULL ELSE c.last[k]]
           /\ si = [k \in Keys |-> IF k \in Keys \ D THEN 0 ELSE c.size[k]]
           /\ ne = [x \in Entries |-> IF x \in gone THEN NULL ELSE c.next[x]]
           /\ pr = [x \in Entries |-> IF x \in gone THEN NULL ELSE c.prev[x]]
           /\ kn = [x \in Entries |-> IF x \in gone THEN NULL ELSE c.key_node[x]]
  OBVIOUS
<1>4. d = [first |-> fi, last |-> la, size |-> si, next |-> ne, prev |-> pr, key_node |-> kn]
  <2>1. /\ DOMAIN c.first = Keys /\ DOMAIN c.last = Keys /\ DOMAIN c.size = Keys
        /\ DOMAIN c.next = Entries /\ DOMAIN c.prev = Entries /\ DOMAIN c.key_node = Entries
    BY <1>2
  <2> QED
    BY <1>1, <1>3, <2>1 DEF Abandon
<1>5. /\ fi \in [Keys -> Entries \cup {NULL}] /\ la \in [Keys -> Entries \cup {NULL}]
      /\ si \in [Keys -> Nat] /\ ne \in [Entries -> Entries \cup {NULL}]
      /\ pr \in [Entries -> Entries \cup {NULL}] /\ kn \in [Entries -> Keys \cup {NULL}]
  BY <1>2, <1>3
<1>6. /\ d \in Chains /\ d.first = fi /\ d.last = la /\ d.size = si
      /\ d.next = ne /\ d.prev = pr /\ d.key_node = kn
  BY <1>4, <1>5 DEF Chains
<1>7. \A k \in Keys : IF k \in D
                THEN fi[k] = c.first[k] /\ la[k] = c.last[k] /\ si[k] = c.size[k]
                ELSE fi[k] = NULL /\ la[k] = NULL /\ si[k] = 0
  BY <1>3
<1>8. \A x \in Entries : IF c.key_node[x] \in Keys \ D
                THEN kn[x] = NULL /\ ne[x] = NULL /\ pr[x] = NULL
                ELSE kn[x] = c.key_node[x] /\ ne[x] = c.next[x] /\ pr[x] = c.prev[x]
  BY <1>1, <1>3
<1> QED
  BY <1>1, <1>6, <1>7, <1>8

LEMMA AbandonKeeps ==
    ASSUME NEW c, NEW l, Chained(c, l), NEW t, NEW D, Contents(t) = D
    PROVE  Chained(Abandon(c, t), Kept(l, D))
<1>1. PICK d, m : d = Abandon(c, t) /\ m = Kept(l, D)
  OBVIOUS
<1>2. /\ d \in Chains
      /\ \A k \in Keys : IF k \in D
           THEN d.first[k] = c.first[k] /\ d.last[k] = c.last[k] /\ d.size[k] = c.size[k]
           ELSE d.first[k] = NULL /\ d.last[k] = NULL /\ d.size[k] = 0
      /\ \A x \in Entries : IF c.key_node[x] \in Keys \ D
           THEN d.key_node[x] = NULL /\ d.next[x] = NULL /\ d.prev[x] = NULL
           ELSE d.key_node[x] = c.key_node[x] /\ d.next[x] = c.next[x] /\ d.prev[x] = c.prev[x]
  BY <1>1, AbandonIs
<1>3. /\ m \in [Keys -> Seq(Entries)]
      /\ \A k \in Keys : m[k] = IF k \in D THEN l[k] ELSE <<>>
  <2>1. <<>> \in Seq(Entries) /\ l \in [Keys -> Seq(Entries)]
    BY DEF Chained
  <2> QED
    BY <1>1, <2>1 DEF Kept
<1>4. ASSUME NEW k \in Keys
      PROVE  Lists(d, k, m[k])
  <2>1. CASE k \in D
    <3>1. PICK s : s = l[k]
      OBVIOUS
    <3>2. Lists(c, k, s)
      BY <3>1 DEF Chained
    <3>3. \A i \in 1..Len(s) : s[i] \in Entries /\ c.key_node[s[i]] = k
      BY <3>2 DEF Lists
    <3>4. \A i \in 1..Len(s) : /\ d.key_node[s[i]] = c.key_node[s[i]]
                               /\ d.next[s[i]] = c.next[s[i]] /\ d.prev[s[i]] = c.prev[s[i]]
      BY <1>2, <2>1, <3>3
    <3>5. Lists(d, k, s)
      BY <1>2, <2>1, <3>2, <3>4 DEF Lists
    <3> QED
      BY <1>3, <2>1, <3>1, <3>5
  <2>2. CASE k \notin D
    <3>1. m[k] = <<>> /\ d.first[k] = NULL /\ d.last[k] = NULL /\ d.size[k] = 0
      BY <1>2, <1>3, <2>2
    <3> QED
      BY <3>1 DEF Lists
  <2> QED
    BY <2>1, <2>2
<1>5. ASSUME NEW x \in Entries
      PROVE  Accounted(d, m, x)
  <2>1. Accounted(c, l, x) /\ c.key_node[x] \in Keys \cup {NULL}
    BY DEF Chained, Chains
  <2>2. CASE c.key_node[x] \in Keys \ D
    BY <1>2, <2>2 DEF Accounted
  <2>3. CASE c.key_node[x] \notin Keys \ D
    <3>1. d.key_node[x] = c.key_node[x] /\ d.next[x] = c.next[x] /\ d.prev[x] = c.prev[x]
      BY <1>2, <2>3
    <3>2. c.key_node[x] # NULL => m[c.key_node[x]] = l[c.key_node[x]]
      BY <1>3, <2>1, <2>3
    <3> QED
      BY <2>1, <3>1, <3>2 DEF Accounted
  <2> QED
    BY <2>2, <2>3
<1> QED
  BY <1>1, <1>2, <1>3, <1>4, <1>5 DEF Chained

KeysWithValues(l) == {k \in Keys : l[k] # <<>>}

\* The key nodes in the tree are those with a value, and hold the lists of them.
MultiInv == Chained(chain, listed) /\ Holds(keyTree, KeysWithValues(listed))

LEMMA KeptKeys ==
    ASSUME NEW l, NEW D, D \subseteq KeysWithValues(l)
    PROVE  KeysWithValues(Kept(l, D)) = D
  BY DEF KeysWithValues, Kept

\* A call ends in Reach; t may be the tree before its unreachable nodes are cleaned.
LEMMA ReachKeeps ==
    ASSUME NEW t, NEW c, NEW l, Chained(c, l), Reach(t, c, l), NEW D,
           D \subseteq KeysWithValues(l), Contents(t) = D, Holds(Reachable(t), D)
    PROVE  MultiInv'
<1>1. keyTree' = Reachable(t) /\ chain' = Abandon(c, t) /\ listed' = Kept(l, D)
  BY DEF Reach, Kept
<1>2. Chained(chain', listed')
  BY <1>1, AbandonKeeps
<1>3. KeysWithValues(listed') = D
  BY <1>1, KeptKeys
<1>4. Holds(keyTree', KeysWithValues(listed'))
  BY <1>1, <1>3
<1> QED
  BY <1>2, <1>4 DEF MultiInv

LEMMA HeldReachable ==
    ASSUME NEW t, NEW C, Holds(t, C)
    PROVE  Contents(t) = C /\ Holds(Reachable(t), C)
<1>1. TreeOf(t, C, InKeyOrder) /\ C \subseteq Keys
  BY TreeOfKeys DEF Holds
<1>2. Agrees(InKeyOrder, C)
  BY <1>1, KeyOrder DEF Agrees
<1> QED
  BY <1>1, <1>2, ContentsAre, ReachableHolds

LEMMA WithValue ==
    ASSUME NEW l, l \in [Keys -> Seq(Entries)], NEW k \in Keys, NEW s \in Seq(Entries)
    PROVE  KeysWithValues([l EXCEPT ![k] = s]) =
             IF s = <<>> THEN KeysWithValues(l) \ {k} ELSE KeysWithValues(l) \cup {k}
  BY DEF KeysWithValues

LEMMA InsertValueKeeps ==
    ASSUME MultiInv, NEW key \in Keys, NEW e \in Entries, NEW position, insertValue(key, e, position)
    PROVE  MultiInv'
<1>1. PICK C : C = KeysWithValues(listed)
  OBVIOUS
<1>2. /\ Chained(chain, listed) /\ Holds(keyTree, C) /\ C \in SUBSET Keys
      /\ chain.key_node[e] = NULL /\ listed \in [Keys -> Seq(Entries)]
  BY <1>1 DEF MultiInv, KeysWithValues, Chained, insertValue
<1>3. PICK there, t, s, l, c :
           /\ there = (keyTree.root # NULL /\ Place(keyTree, key) = key)
           /\ t = IF there THEN keyTree ELSE Attach(keyTree, key)
           /\ s = IF position = "front" THEN <<e>> \o listed[key] ELSE Append(listed[key], e)
           /\ l = [listed EXCEPT ![key] = s]
           /\ c = IF there /\ position = "front" THEN pushFront(chain, key, e) ELSE pushBack(chain, key, e)
  OBVIOUS
<1>4. there <=> key \in C
  BY <1>2, <1>3, InsertHolds
<1>5. Relisted(c, chain, key, s)
  <2>1. CASE position # "front"
    BY <1>2, <1>3, <2>1, PushBackIs
  <2>2. CASE position = "front" /\ there
    BY <1>2, <1>3, <2>2, PushFrontIs
  <2>3. CASE position = "front" /\ ~there
    <3>1. listed[key] = <<>>
      BY <1>1, <1>4, <2>3 DEF KeysWithValues
    <3>2. <<e>> \o listed[key] = Append(listed[key], e)
      BY <3>1
    <3> QED
      BY <1>2, <1>3, <2>3, <3>2, PushBackIs
  <2> QED
    BY <2>1, <2>2, <2>3
<1>6. Chained(c, l)
  BY <1>2, <1>3, <1>5, RelistedKeeps
<1>7. s \in Seq(Entries) /\ s # <<>>
  <2>1. s \in Seq(Entries) /\ listed[key] \in Seq(Entries)
    BY <1>2, <1>5 DEF Relisted, Lists
  <2>2. Append(listed[key], e) # <<>>
    BY <2>1
  <2>3. <<e>> \o listed[key] # <<>>
    <3>1. <<e>> \in Seq(Entries) /\ Len(<<e>>) = 1
      OBVIOUS
    <3>2. Len(<<e>> \o listed[key]) = 1 + Len(listed[key])
      BY <2>1, <3>1, ConcatProperties
    <3> QED
      BY <2>1, <3>2
  <2> QED
    BY <1>3, <2>1, <2>2, <2>3
<1>8. KeysWithValues(l) = C \cup {key}
  BY <1>1, <1>2, <1>3, <1>7, WithValue
<1>9. Holds(t, C \cup {key})
  <2>1. key \in C => C \cup {key} = C
    OBVIOUS
  <2> QED
    BY <1>2, <1>3, <1>4, <2>1, InsertHolds
<1>10. Contents(t) = C \cup {key} /\ Holds(Reachable(t), C \cup {key})
  BY <1>9, HeldReachable
<1>11. Reach(t, c, l)
  BY <1>3 DEF insertValue
<1> QED
  BY <1>6, <1>8, <1>10, <1>11, ReachKeeps

LEMMA ExtractValueKeeps ==
    ASSUME MultiInv, NEW e \in Entries, extractValue(e)
    PROVE  MultiInv'
<1>1. PICK C, k : C = KeysWithValues(listed) /\ k = chain.key_node[e]
  OBVIOUS
<1>2. /\ Chained(chain, listed) /\ Holds(keyTree, C) /\ C \in SUBSET Keys
      /\ k \in Keys /\ listed \in [Keys -> Seq(Entries)]
  BY <1>1 DEF MultiInv, KeysWithValues, Chained, Chains, extractValue
<1>3. PICK q : q = Where(listed[k], e)
  OBVIOUS
<1>4. q \in 1..Len(listed[k]) /\ listed[k][q] = e
  <2>1. \E i \in 1..Len(listed[k]) : listed[k][i] = e
    BY <1>1, <1>2, ListedOnce
  <2>2. DOMAIN listed[k] = 1..Len(listed[k])
    BY <1>2
  <2> QED
    BY <1>3, <2>1, <2>2 DEF Where
<1>5. PICK c, s, l : /\ c = Unlink(chain, k, e) /\ s = Without(listed[k], q)
                     /\ l = [listed EXCEPT ![k] = s]
  OBVIOUS
<1>6. Relisted(c, chain, k, s)
  BY <1>2, <1>4, <1>5, UnlinkIs
<1>7. Chained(c, l)
  BY <1>2, <1>5, <1>6, RelistedKeeps
<1>8. c.size[k] = Len(s) /\ s \in Seq(Entries)
  BY <1>6 DEF Relisted, Lists
<1>9. k \in C
  <2>1. listed[k] # <<>>
    BY <1>2, <1>4
  <2> QED
    BY <1>1, <1>2, <2>1 DEF KeysWithValues
<1>10. PICK t : t = IF c.size[k] > 0 THEN keyTree ELSE Detach(keyTree, k, FALSE)
  OBVIOUS
<1>11. Reach(t, c, l)
  <2>1. l = [listed EXCEPT ![k] = Without(@, Where(@, e))]
    BY <1>2, <1>3, <1>5
  <2>2. Reach(IF c.size[k] > 0 THEN keyTree ELSE Detach(keyTree, k, FALSE), c,
              [listed EXCEPT ![k] = Without(@, Where(@, e))])
    BY <1>1, <1>5 DEF extractValue
  <2> QED
    BY <1>10, <2>1, <2>2
<1>12. KeysWithValues(l) = IF s = <<>> THEN C \ {k} ELSE C \cup {k}
  <2>1. KeysWithValues([listed EXCEPT ![k] = s]) =
          IF s = <<>> THEN KeysWithValues(listed) \ {k} ELSE KeysWithValues(listed) \cup {k}
    BY <1>2, <1>8, WithValue
  <2> QED
    BY <1>1, <1>5, <2>1
<1>13. CASE c.size[k] > 0
  <2>1. KeysWithValues(l) = C
    <3>1. s # <<>>
      BY <1>8, <1>13
    <3> QED
      BY <1>9, <1>12, <3>1
  <2>2. Contents(t) = C /\ Holds(Reachable(t), C)
    BY <1>2, <1>10, <1>13, HeldReachable
  <2> QED
    BY <1>7, <1>11, <2>1, <2>2, ReachKeeps
<1>14. CASE ~(c.size[k] > 0)
  <2>1. PICK D : /\ D \subseteq C \ {k} /\ Contents(Detach(keyTree, k, FALSE)) = D
                 /\ Holds(Reachable(Detach(keyTree, k, FALSE)), D)
    BY <1>2, <1>9, DetachKeeps
  <2>2. D \subseteq KeysWithValues(l)
    BY <1>12, <2>1
  <2>3. t = Detach(keyTree, k, FALSE)
    BY <1>10, <1>14
  <2> QED
    BY <1>7, <1>11, <2>1, <2>2, <2>3, ReachKeeps
<1> QED
  BY <1>13, <1>14

LEMMA RemoveKeyKeeps ==
    ASSUME MultiInv, NEW key \in Keys, removeKey(key)
    PROVE  MultiInv'
<1>1. PICK C : C = KeysWithValues(listed)
  OBVIOUS
<1>2. Chained(chain, listed) /\ Holds(keyTree, C)
  BY <1>1 DEF MultiInv
<1>3. /\ SearchLeft(keyTree, key) = key /\ key \in C
      /\ Reach(Detach(keyTree, key, FALSE), chain, listed)
  BY <1>2, SearchLeftIs DEF removeKey
<1>4. PICK D : /\ D \subseteq C \ {key} /\ Contents(Detach(keyTree, key, FALSE)) = D
               /\ Holds(Reachable(Detach(keyTree, key, FALSE)), D)
  BY <1>2, <1>3, DetachKeeps
<1> QED
  BY <1>1, <1>2, <1>3, <1>4, ReachKeeps

LEMMA ClearAllKeeps ==
    ASSUME MultiInv, clearAll
    PROVE  MultiInv'
<1>1. Contents(EmptyTree) = {} /\ Holds(Reachable(EmptyTree), {})
  BY EmptyHolds, HeldReachable
<1>2. Chained(chain, listed) /\ Reach(EmptyTree, chain, listed) /\ {} \subseteq KeysWithValues(listed)
  BY DEF MultiInv, clearAll
<1> QED
  BY <1>1, <1>2, ReachKeeps

LEMMA MultiInitHolds == MultiInit => MultiInv
<1> SUFFICES ASSUME MultiInit PROVE MultiInv
  OBVIOUS
<1>1. keyTree = EmptyTree /\ chain = EmptyChain /\ listed = [k \in Keys |-> <<>>]
  BY DEF MultiInit
<1>2. KeysWithValues(listed) = {}
  BY <1>1 DEF KeysWithValues
<1>3. PICK c : c = EmptyChain
  OBVIOUS
<1>4. /\ c \in Chains
      /\ \A k \in Keys : c.first[k] = NULL /\ c.last[k] = NULL /\ c.size[k] = 0
      /\ \A e \in Entries : c.next[e] = NULL /\ c.prev[e] = NULL /\ c.key_node[e] = NULL
  BY <1>3 DEF EmptyChain, Chains
<1>5. listed \in [Keys -> Seq(Entries)] /\ \A k \in Keys : listed[k] = <<>>
  BY <1>1
<1>6. \A k \in Keys : Lists(c, k, <<>>)
  BY <1>4 DEF Lists
<1>7. \A e \in Entries : Accounted(c, listed, e)
  BY <1>4 DEF Accounted
<1>8. Chained(c, listed)
  BY <1>4, <1>5, <1>6, <1>7 DEF Chained
<1> QED
  BY <1>1, <1>2, <1>3, <1>8, EmptyHolds DEF MultiInv

LEMMA MultiInvStep == MultiInv /\ [MultiNext]_multiVars => MultiInv'
<1> SUFFICES ASSUME MultiInv, [MultiNext]_multiVars
             PROVE  MultiInv'
  OBVIOUS
<1>1. MultiKeys \subseteq Keys
  BY EntriesAreNumbers
<1>2. ASSUME NEW e \in Entries, extractValue(e)
      PROVE  MultiInv'
  BY <1>2, ExtractValueKeeps
<1>3. ASSUME NEW e \in Entries, NEW k \in MultiKeys, NEW position \in {"front", "back"},
             insertValue(k, e, position)
      PROVE  MultiInv'
  BY <1>1, <1>3, InsertValueKeeps
<1>4. ASSUME NEW k \in MultiKeys, removeKey(k)
      PROVE  MultiInv'
  BY <1>1, <1>4, RemoveKeyKeeps
<1>5. CASE UNCHANGED multiVars
  BY <1>5 DEF MultiInv, multiVars
<1> QED
  BY <1>2, <1>3, <1>4, <1>5, ClearAllKeeps DEF MultiNext

\* The key nodes are the keys with a value, through any insertions and extractions,
\* and their lists are linked; nodes cut off by an extraction leave no pointer behind.
THEOREM MultiInvariance == MultiSpec => []MultiInv
  BY MultiInitHolds, MultiInvStep, PTL DEF MultiSpec

\* The pointers of key nodes and value nodes keep their types.
THEOREM MultiTypeCorrect == MultiSpec => []MultiTypeOK
<1>1. MultiInv => MultiTypeOK
  <2> SUFFICES ASSUME MultiInv PROVE MultiTypeOK
    OBVIOUS
  <2>1. keyTree \in Trees
    BY TreeOfKeys DEF MultiInv, Holds
  <2>2. chain \in Chains /\ listed \in [Keys -> Seq(Entries)]
    BY DEF MultiInv, Chained
  <2> QED
    BY <2>1, <2>2 DEF MultiTypeOK, Chains
<1> QED
  BY <1>1, MultiInvariance, PTL

\* The list of every key is what was put under it, in its order and in both
\* directions, for any keys and any number of values.
THEOREM MultiLists == MultiSpec => []ListsExact
<1>1. MultiInv => ListsExact
  <2> SUFFICES ASSUME MultiInv, NEW k \in Contents(keyTree), NEW s, s = listed[k]
               PROVE  /\ chain.size[k] = Len(s) /\ s # <<>>
                      /\ chain.first[k] = s[1] /\ chain.last[k] = s[Len(s)]
                      /\ \A i \in 1..Len(s) :
                           /\ chain.key_node[s[i]] = k
                           /\ chain.next[s[i]] = IF i = Len(s) THEN NULL ELSE s[i + 1]
                           /\ chain.prev[s[i]] = IF i = 1 THEN NULL ELSE s[i - 1]
    BY DEF ListsExact
  <2>1. k \in Keys /\ s # <<>>
    BY HeldReachable DEF MultiInv, KeysWithValues
  <2>2. Lists(chain, k, s)
    BY <2>1 DEF MultiInv, Chained
  <2>3. Len(s) # 0
    BY <2>1, <2>2, EmptySeq DEF Lists
  <2> QED
    BY <2>1, <2>2, <2>3 DEF Lists
<1> QED
  BY <1>1, MultiInvariance, PTL

\* The next and the previous key are keys of the tree, or there is none.
LEMMA OneOrNone ==
    ASSUME NEW t, NEW C, Holds(t, C), NEW n \in C
    PROVE  Above(t, n) \in C \cup {NULL} /\ Under(t, n) \in C \cup {NULL}
<1>1. PICK S : Shaped(t, S, InKeyOrder) /\ S[t.root] = C
  BY DEF Holds, TreeOf
<1>2. /\ IsNext(C, InKeyOrder, {n}, Successor(t, n))
      /\ IsNext(C, Mirrored(InKeyOrder), {n}, Predecessor(t, n))
  BY <1>1, SuccessorIs, PredecessorIs
<1>3. Contents(t) = C /\ InOrder(t)
  BY HeldReachable, HeldInOrder
<1> QED
  BY <1>2, <1>3 DEF InOrder, IsNext

\* From any value node the iterators walk its key's values and then the next key's,
\* forward and backward, and find stands at the first value if it finds the key.
THEOREM MultiWalks == MultiSpec => []WalksInOrder
<1>1. MultiInv => WalksInOrder
  <2> SUFFICES ASSUME MultiInv PROVE WalksInOrder
    OBVIOUS
  <2>1. PICK C : C = KeysWithValues(listed)
    OBVIOUS
  <2>2. Holds(keyTree, C) /\ Contents(keyTree) = C /\ C \in SUBSET Keys
    BY <2>1, HeldReachable DEF MultiInv, KeysWithValues
  <2>3. SearchTree(keyTree) /\ InOrder(keyTree)
    BY <2>2, HeldSearchTree, HeldInOrder
  <2>4. ASSUME NEW k \in C
        PROVE  /\ listed[k] \in Seq(Entries) /\ Len(listed[k]) \in Nat \ {0}
               /\ Lists(chain, k, listed[k])
               /\ chain.first[k] = listed[k][1] /\ chain.last[k] = listed[k][Len(listed[k])]
    <3>1. Lists(chain, k, listed[k]) /\ listed[k] # <<>>
      BY <2>1, <2>2, <2>4 DEF MultiInv, Chained, KeysWithValues
    <3>2. listed[k] \in Seq(Entries) /\ Len(listed[k]) # 0
      BY <3>1, EmptySeq DEF Lists
    <3>3. chain.first[k] = listed[k][1] /\ chain.last[k] = listed[k][Len(listed[k])]
      BY <3>1, <3>2 DEF Lists
    <3>4. Len(listed[k]) \in Nat \ {0}
      BY <3>2
    <3> QED
      BY <3>1, <3>2, <3>3, <3>4
  <2>5. \A n \in C : Above(keyTree, n) \in C \cup {NULL} /\ Under(keyTree, n) \in C \cup {NULL}
    BY <2>2, OneOrNone
  <2>6. ASSUME NEW k \in C, NEW i \in DOMAIN listed[k], NEW s, s = listed[k],
               NEW up, up = Above(keyTree, k), NEW down, down = Under(keyTree, k),
               NEW ahead, ahead = IF i < Len(s) THEN s[i + 1]
                                  ELSE IF up # NULL THEN Head(listed[up]) ELSE NULL,
               NEW behind, behind = IF i > 1 THEN s[i - 1]
                                    ELSE IF down # NULL THEN listed[down][Len(listed[down])] ELSE NULL
        PROVE  /\ Forward(s[i]) = ahead   /\ ReverseBackward(s[i]) = ahead
               /\ Backward(s[i]) = behind /\ ReverseForward(s[i]) = behind
               /\ find(k) \in {NULL, s[1]}
    <3>1. /\ s \in Seq(Entries) /\ i \in 1..Len(s) /\ Len(s) \in Nat
          /\ chain.key_node[s[i]] = k
          /\ chain.next[s[i]] = IF i = Len(s) THEN NULL ELSE s[i + 1]
          /\ chain.prev[s[i]] = IF i = 1 THEN NULL ELSE s[i - 1]
      BY <2>4, <2>6 DEF Lists
    <3>2. (i # Len(s) => s[i + 1] # NULL) /\ (i # 1 => s[i - 1] # NULL)
      <4>1. (i # Len(s) => i + 1 \in 1..Len(s)) /\ (i # 1 => i - 1 \in 1..Len(s))
        BY <3>1
      <4> QED
        BY <3>1, <4>1, NoEntry
    <3>3. (i # Len(s) <=> i < Len(s)) /\ (i # 1 <=> i > 1)
      BY <3>1
    <3>4. Successor(keyTree, k) = up /\ Predecessor(keyTree, k) = down
      BY <2>2, <2>3, <2>6 DEF InOrder
    <3>5. up # NULL => chain.first[up] = Head(listed[up])
      <4>1. up # NULL => up \in C
        BY <2>5, <2>6
      <4> QED
        BY <2>4, <4>1
    <3>6. down # NULL => chain.last[down] = listed[down][Len(listed[down])]
      <4>1. down # NULL => down \in C
        BY <2>5, <2>6
      <4> QED
        BY <2>4, <4>1
    <3>7. Forward(s[i]) = ahead /\ ReverseBackward(s[i]) = ahead
      BY <2>6, <3>1, <3>2, <3>3, <3>4, <3>5 DEF Forward, ReverseBackward, goToNextKey
    <3>8. Backward(s[i]) = behind /\ ReverseForward(s[i]) = behind
      BY <2>6, <3>1, <3>2, <3>3, <3>4, <3>6 DEF Backward, ReverseForward, goToPrevKey
    <3>9. find(k) \in {NULL, s[1]}
      BY <2>2, <2>4, <2>6, SearchLeftIs DEF find
    <3> QED
      BY <3>7, <3>8, <3>9
  <2> QED
    BY <2>2, <2>3, <2>6 DEF WalksInOrder
<1> QED
  BY <1>1, MultiInvariance, PTL
=============================================================================
