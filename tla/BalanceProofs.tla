--------------------------- MODULE BalanceProofs ---------------------------
(***************************************************************************)
(* Theorems about AVLTree: no call loses a node, and the nodes are         *)
(* balanced, for every finite set of keys, as long as the loop under       *)
(* "Balancing" never rotates a node by the balance of another one          *)
(* (misjudged) and no node is extracted by the call that balances less.    *)
(*                                                                         *)
(* E gives the height of the subtree in each place.  While the loop is at  *)
(* a node f (Focused), the nodes elsewhere are balanced, those that do not *)
(* stand above f store their height, and f is what an insertion or an      *)
(* extraction can leave: the heights of its sides differ by two at most,   *)
(* and E[f] is still what those above reckon with, the height from before  *)
(* (OffByOne).  One round moves that to the parent of f, or to the node a  *)
(* rotation has put above it, so that the loop ends after at most two      *)
(* rounds for each level (Paced), and with every node balanced (Settled).  *)
(* Depths, heights and the measures of a side are mirrored as the shape is *)
(* in TreesProofs.                                                         *)
(***************************************************************************)
EXTENDS TreesProofs

-----------------------------------------------------------------------------
(* Balance.  E gives the heights of the nodes of C, and D the depths stored. *)
(* While the loop under "Balancing" is at a node f, E has the height that f  *)
(* had before, and the nodes from f upwards may store anything.              *)

Even(a, b) == a <= b + 1 /\ b <= a + 1

Grown(l, r, E, n) == E[n] = 1 + Larger(E[l[n]], E[r[n]]) /\ Even(E[l[n]], E[r[n]])

\* X: nodes of which nothing is known yet
Measured(l, r, S, D, E, C, X, f) ==
    /\ E \in [Pointers -> Nat] /\ E[NULL] = 0
    /\ \A n \in C \ X : Grown(l, r, E, n)
    /\ \A n \in C : f \notin S[n] => D[n] = E[n]

DepthIn(D, n) == IF n = NULL THEN 0 ELSE D[n]

\* A node that had the height e and has sides of the heights a and b: a side has
\* become one higher or one lower since.
OffByOne(e, a, b) ==
    \/ Even(a, b) /\ Even(1 + Larger(a, b), e)
    \/ a = b + 2 /\ e \in {a, a + 1}
    \/ b = a + 2 /\ e \in {b, b + 1}

LEMMA LargerSwaps ==
    ASSUME NEW a \in Nat, NEW b \in Nat
    PROVE  Larger(a, b) = Larger(b, a)
  BY DEF Larger

LEMMA MirrorMeasured ==
    ASSUME NEW l, NEW r, NEW S, NEW pos, Nested(l, r, S, pos), NEW D, NEW E, NEW C, C \subseteq Keys,
           NEW X, NEW f, Measured(l, r, S, D, E, C, X, f)
    PROVE  Measured(r, l, S, D, E, C, X, f)
<1>1. ASSUME NEW n \in C \ X
      PROVE  Grown(r, l, E, n)
  <2>1. n \in Keys /\ Grown(l, r, E, n) /\ E \in [Pointers -> Nat]
    BY <1>1 DEF Measured
  <2>2. l[n] \in Pointers /\ r[n] \in Pointers
    BY <2>1 DEF Nested
  <2>3. Larger(E[l[n]], E[r[n]]) = Larger(E[r[n]], E[l[n]])
    BY <2>1, <2>2, LargerSwaps
  <2> QED
    BY <2>1, <2>3 DEF Grown, Even
<1> QED
  BY <1>1 DEF Measured

\* What a rotation of y with its child x does to the depths, and to the heights when
\* y is measured; x takes over what y has had.
Remeasured(D1, D, r, x, y) ==
    /\ D1[y] = 1 + Larger(DepthIn(D, r[x]), DepthIn(D, r[y]))
    /\ \A k \in Keys \ {x, y} : D1[k] = D[k]

Raised(E1, E, r, x, y) ==
    /\ E1 \in [Pointers -> Nat] /\ E1[y] = 1 + Larger(E[r[x]], E[r[y]]) /\ E1[x] = E[y]
    /\ \A k \in Pointers \ {x, y} : E1[k] = E[k]

LEMMA RaisedExists ==
    ASSUME NEW E \in [Pointers -> Nat], NEW r, NEW x \in Keys, NEW y \in Keys, x # y,
           r[x] \in Pointers, r[y] \in Pointers
    PROVE  \E E1 : Raised(E1, E, r, x, y)
<1>1. PICK h : h = 1 + Larger(E[r[x]], E[r[y]]) /\ h \in Nat
  <2>1. Larger(E[r[x]], E[r[y]]) \in Nat
    BY LargerIs
  <2> QED
    BY <2>1
<1>2. PICK E1 : E1 = [E EXCEPT ![y] = h, ![x] = E[y]]
  OBVIOUS
<1> QED
  BY <1>1, <1>2, NoKey DEF Raised

\* The loop is at or below neither of the subtrees that y gets.
Aside(S, r, x, y, f) == f \in Keys /\ x \in S[f] /\ f \notin S[r[x]] /\ f \notin S[r[y]]

\* A rotation, once or as the half of a double one.
LEMMA TurnMeasured ==
    ASSUME NEW l, NEW r, NEW p, NEW S, NEW pos, Nested(l, r, S, pos), Linked(l, r, p),
           NEW C \in SUBSET Keys, NEW y \in C, NEW x \in C, l[y] = x,
           r[x] \in C \cup {NULL}, r[y] \in C \cup {NULL},
           NEW D, NEW E, NEW X, NEW f, Measured(l, r, S, D, E, C, X, f),
           NEW Z, X \subseteq Z \cup {y}, x \in Z,
           Aside(S, r, x, y, f), Even(E[r[x]], E[r[y]]),
           NEW l1, NEW r1, NEW p1, Rotated(l, r, p, l1, r1, p1, y),
           NEW D1, Remeasured(D1, D, r, x, y),
           NEW E1, Raised(E1, E, r, x, y)
    PROVE  Measured(l1, r1, BelowRotated(l, r, S, y), D1, E1, C, Z, x)
<1> /\ f \in Keys /\ x \in S[f] /\ f \notin S[r[x]] /\ f \notin S[r[y]]
  BY DEF Aside
<1> /\ D1[y] = 1 + Larger(DepthIn(D, r[x]), DepthIn(D, r[y]))
    /\ \A k \in Keys \ {x, y} : D1[k] = D[k]
  BY DEF Remeasured
<1>1. /\ x \in Keys /\ y \in Keys /\ x # NULL /\ x # y
      /\ l[y] \in Pointers /\ r[y] \in Pointers /\ l[x] \in Pointers /\ r[x] \in Pointers
      /\ r[y] # x /\ r[y] # y /\ r[x] # x
  BY NoKey, Sides
<1>2. r[x] # y
  <2>1. y \notin S[x]
    BY <1>1, Sides
  <2>2. r[x] = y => y \in S[x]
    BY <1>1, Sides, NoKey
  <2> QED
    BY <2>1, <2>2
<1>3. /\ E \in [Pointers -> Nat] /\ E[NULL] = 0
      /\ \A n \in C : n \notin X => Grown(l, r, E, n)
      /\ \A n \in C : f \notin S[n] => D[n] = E[n]
  BY DEF Measured
<1>4. PICK a, b : a = E[r[x]] /\ b = E[r[y]] /\ a \in Nat /\ b \in Nat /\ Larger(a, b) \in Nat
  <2>1. E[r[x]] \in Nat /\ E[r[y]] \in Nat
    BY <1>1, <1>3
  <2> QED
    BY <2>1, LargerIs
<1>5. /\ E1 \in [Pointers -> Nat] /\ E1[y] = 1 + Larger(a, b) /\ E1[x] = E[y]
      /\ \A k \in Pointers : k # x /\ k # y => E1[k] = E[k]
  BY <1>4 DEF Raised
<1>6. E1[NULL] = 0 /\ E1[r[x]] = a /\ E1[r[y]] = b
  BY <1>1, <1>2, <1>3, <1>4, <1>5, NoKey
<1>7. DepthIn(D, r[x]) = a /\ DepthIn(D, r[y]) = b
  <2>1. r[x] # NULL => D[r[x]] = E[r[x]]
    BY <1>3
  <2>2. r[y] # NULL => D[r[y]] = E[r[y]]
    BY <1>3
  <2> QED
    BY <1>3, <1>4, <2>1, <2>2 DEF DepthIn
<1>8. ASSUME NEW n \in C, n \notin Z
      PROVE  Grown(l1, r1, E1, n)
  <2>0. n # x
    BY <1>8
  <2>1. CASE n = y
    <3>1. l1[y] = r[x] /\ r1[y] = r[y]
      BY <1>1, <1>2 DEF Rotated, Linked
    <3> QED
      BY <1>4, <1>5, <1>6, <2>1, <3>1 DEF Grown
  <2>2. CASE n # y
    <3>1. n \in Keys /\ l[n] \in Pointers /\ r[n] \in Pointers
      BY DEF Nested
    <3>2. l[n] # x /\ r[n] # x
      BY <1>1, <2>2, <3>1, NoKey DEF Linked
    <3>3. (l[n] = y => n = p[y]) /\ (r[n] = y => n = p[y])
      BY <1>1, <3>1, NoKey DEF Linked
    <3>4. /\ l1[n] = IF l[n] = y THEN x ELSE l[n]
          /\ r1[n] = IF r[n] = y THEN x ELSE r[n]
      BY <1>1, <2>0, <2>2, <3>1, <3>3 DEF Rotated
    <3>5. E1[l1[n]] = E[l[n]] /\ E1[r1[n]] = E[r[n]]
      BY <1>5, <3>1, <3>2, <3>4
    <3>6. E1[n] = E[n]
      BY <1>5, <2>0, <2>2, <3>1, NoKey
    <3>7. Grown(l, r, E, n)
      BY <1>3, <1>8, <2>2
    <3> QED
      BY <3>5, <3>6, <3>7 DEF Grown
  <2> QED
    BY <2>1, <2>2
<1>9. ASSUME NEW n \in C, x \notin BelowRotated(l, r, S, y)[n]
      PROVE  D1[n] = E1[n]
  <2>1. n \in Keys /\ n \in Pointers
    BY NoKey
  <2>2. n # x
    <3>1. x \in S[y]
      BY <1>1, NoKey, Sides
    <3> QED
      BY <1>9, <2>1, <3>1 DEF BelowRotated
  <2>3. CASE n = y
    BY <1>5, <1>7, <2>3
  <2>4. CASE n # y
    <3>1. x \notin S[n]
      BY <1>9, <2>1, <2>2, <2>4 DEF BelowRotated
    <3>2. f \notin S[n]
      BY <2>1, <3>1, Transitive
    <3> QED
      BY <1>3, <1>5, <2>1, <2>2, <2>4, <3>2
  <2> QED
    BY <2>3, <2>4
<1> QED
  BY <1>5, <1>6, <1>8, <1>9 DEF Measured

\* The loop is at f, with one side or the other off by one.
At(l, r, S, D, E, C, f) ==
    /\ Measured(l, r, S, D, E, C, {f}, f)
    /\ OffByOne(E[f], E[l[f]], E[r[f]])

LEMMA HeightIs ==
    ASSUME NEW l, NEW r, NEW S, NEW pos, Nested(l, r, S, pos), NEW C \in SUBSET Keys, NEW D, NEW E,
           NEW X, NEW f, Measured(l, r, S, D, E, C, X, f), NEW n \in C, n \notin X
    PROVE  /\ E[n] \in Nat /\ E[l[n]] \in Nat /\ E[r[n]] \in Nat /\ Even(E[l[n]], E[r[n]])
           /\ E[n] = 1 + Larger(E[l[n]], E[r[n]])
<1>1. n \in Keys /\ n \in Pointers /\ l[n] \in Pointers /\ r[n] \in Pointers
  BY NoKey DEF Nested
<1> QED
  BY <1>1 DEF Measured, Grown

\* The loop is at f after a rotation: the sides of f are balanced.
Capped(l, r, S, D, C, f) == \E E : At(l, r, S, D, E, C, f) /\ Even(E[l[f]], E[r[f]])

LEMMA OnceTurned ==
    ASSUME NEW l, NEW r, NEW p, NEW S, NEW pos, Nested(l, r, S, pos), Linked(l, r, p),
           NEW C \in SUBSET Keys, NEW y \in C, NEW x \in C, l[y] = x,
           r[x] \in C \cup {NULL}, r[y] \in C \cup {NULL},
           NEW D, NEW E, At(l, r, S, D, E, C, y), E[x] > E[r[y]] + 1, E[l[x]] >= E[r[x]],
           NEW l1, NEW r1, NEW p1, Rotated(l, r, p, l1, r1, p1, y),
           NEW D1, Remeasured(D1, D, r, x, y)
    PROVE  Capped(l1, r1, BelowRotated(l, r, S, y), D1, C, x)
<1>1. /\ x \in Keys /\ y \in Keys /\ x # NULL /\ x # y
      /\ l[y] \in Pointers /\ r[y] \in Pointers /\ l[x] \in Pointers /\ r[x] \in Pointers
      /\ x \in S[y] /\ y \notin S[x] /\ S[r[x]] \subseteq S[x] /\ y \notin S[r[y]]
  BY NoKey, Sides
<1>2. Measured(l, r, S, D, E, C, {y}, y) /\ OffByOne(E[y], E[l[y]], E[r[y]])
  BY DEF At
<1>3. E[x] = 1 + Larger(E[l[x]], E[r[x]]) /\ Even(E[l[x]], E[r[x]])
  <2>1. PICK X : X = {y}
    OBVIOUS
  <2>2. x \notin X /\ Measured(l, r, S, D, E, C, X, y)
    BY <1>1, <1>2, <2>1
  <2> QED
    BY <2>2, HeightIs
<1>4. E \in [Pointers -> Nat]
  BY <1>2 DEF Measured
<1>5. PICK a, b, c, e : a = E[l[x]] /\ b = E[r[x]] /\ c = E[r[y]] /\ e = E[y]
                        /\ a \in Nat /\ b \in Nat /\ c \in Nat /\ e \in Nat
  BY <1>1, <1>4, NoKey
<1>6. PICK h : h = E[x] /\ h \in Nat
  BY <1>1, <1>4
<1>7. h = a + 1 /\ h = c + 2 /\ b \in {a, a - 1} /\ e \in {h, h + 1}
  <2>1. h = 1 + Larger(a, b) /\ a <= b + 1 /\ b <= a
    BY <1>3, <1>5, <1>6 DEF Even
  <2>2. h > c + 1 /\ OffByOne(e, h, c)
    BY <1>2, <1>5, <1>6
  <2>3. h = a + 1 /\ b \in {a, a - 1}
    BY <1>5, <1>6, <2>1 DEF Larger
  <2>4. h = c + 2 /\ e \in {h, h + 1}
    BY <1>5, <1>6, <2>2 DEF OffByOne, Even
  <2> QED
    BY <2>3, <2>4
<1>8. Even(E[r[x]], E[r[y]])
  BY <1>5, <1>6, <1>7 DEF Even
<1>9. PICK E1 : Raised(E1, E, r, x, y)
  BY <1>1, <1>4, RaisedExists
<1>10. Measured(l1, r1, BelowRotated(l, r, S, y), D1, E1, C, {x}, x)
  <2>1. PICK X, Z : X = {y} /\ Z = {x}
    OBVIOUS
  <2>2. Measured(l, r, S, D, E, C, X, y) /\ X \subseteq Z \cup {y} /\ x \in Z
    BY <1>2, <2>1
  <2>3. Aside(S, r, x, y, y)
    BY <1>1 DEF Aside
  <2>4. Measured(l1, r1, BelowRotated(l, r, S, y), D1, E1, C, Z, x)
    BY <1>1, <1>8, <1>9, <2>2, <2>3, TurnMeasured
  <2> QED
    BY <2>1, <2>4
<1>11. l1[x] = l[x] /\ r1[x] = y
  <2>1. l[x] # y
    <3>1. l[x] = y => y \in S[x]
      BY <1>1, Sides, NoKey
    <3> QED
      BY <1>1, <3>1
  <2> QED
    BY <1>1, <2>1 DEF Rotated
<1>12. l[x] # x /\ l[x] # y
  <2>1. l[x] # NULL => l[x] \in S[x] /\ l[x] # x
    BY <1>1, Sides
  <2> QED
    BY <1>1, <2>1, NoKey
<1>13. E1[x] = e /\ E1[l1[x]] = a /\ E1[r1[x]] = 1 + Larger(b, c)
  BY <1>1, <1>5, <1>9, <1>11, <1>12, NoKey DEF Raised
<1>14. Larger(b, c) \in {c, c + 1} /\ a = c + 1 /\ Larger(b, c) \in Nat
  BY <1>5, <1>6, <1>7 DEF Larger
<1>15. PICK g : g = E1[r1[x]] /\ g = 1 + Larger(b, c)
  BY <1>13
<1>16. Even(a, g) /\ Even(1 + Larger(a, g), e)
  <2>1. g \in {c + 1, c + 2} /\ e \in {c + 2, c + 3} /\ g \in Nat
    BY <1>5, <1>6, <1>7, <1>14, <1>15
  <2>2. g = c + 2 \/ g = c + 1
    BY <2>1
  <2>3. g = c + 2 => g = a + 1
    BY <1>5, <1>14, <2>1
  <2>4. g = c + 1 => g = a
    BY <1>5, <1>14, <2>1
  <2>5. Larger(a, g) = g
    BY <1>5, <1>14, <2>1 DEF Larger
  <2> QED
    BY <1>5, <1>14, <2>1, <2>5 DEF Even
<1>17. OffByOne(E1[x], E1[l1[x]], E1[r1[x]])
  BY <1>13, <1>15, <1>16 DEF OffByOne
<1> QED
  BY <1>10, <1>13, <1>15, <1>16, <1>17 DEF At, Capped

\* The higher side x of y has w as its higher side, which is inside.
Bent(l, r, C, E, y, x, w) ==
    /\ C \in SUBSET Keys /\ y \in C /\ x \in C /\ w \in C /\ l[y] = x /\ r[x] = w
    /\ l[x] \in C \cup {NULL} /\ l[w] \in C \cup {NULL} /\ r[w] \in C \cup {NULL}
    /\ r[y] \in C \cup {NULL}
    /\ E[x] > E[r[y]] + 1 /\ E[l[x]] < E[w]

\* The child x has been rotated the other way.
HalfTurned(l, r, p, S, D, l1, r1, p1, S1, D1, x, w) ==
    /\ Rotated(r, l, p, r1, l1, p1, x) /\ Remeasured(D1, D, l, w, x)
    /\ S1 = BelowRotated(r, l, S, x)

LEMMA TwiceTurned ==
    ASSUME NEW l, NEW r, NEW p, NEW S, NEW pos, Nested(l, r, S, pos), Linked(l, r, p),
           NEW C, NEW E, NEW y, NEW x, NEW w, Bent(l, r, C, E, y, x, w),
           NEW D, At(l, r, S, D, E, C, y),
           NEW l1, NEW r1, NEW p1, NEW S1, NEW D1, HalfTurned(l, r, p, S, D, l1, r1, p1, S1, D1, x, w),
           NEW l2, NEW r2, NEW p2, Rotated(l1, r1, p1, l2, r2, p2, y),
           NEW D2, Remeasured(D2, D1, r1, w, y)
    PROVE  Capped(l2, r2, BelowRotated(l1, r1, S1, y), D2, C, w)
<1> /\ C \in SUBSET Keys /\ y \in C /\ x \in C /\ w \in C /\ l[y] = x /\ r[x] = w
    /\ l[x] \in C \cup {NULL} /\ l[w] \in C \cup {NULL} /\ r[w] \in C \cup {NULL}
    /\ r[y] \in C \cup {NULL}
    /\ E[x] > E[r[y]] + 1 /\ E[l[x]] < E[w]
  BY DEF Bent
<1> /\ Rotated(r, l, p, r1, l1, p1, x) /\ Remeasured(D1, D, l, w, x)
    /\ S1 = BelowRotated(r, l, S, x)
  BY DEF HalfTurned
<1>1. /\ x \in Keys /\ y \in Keys /\ x # NULL /\ x # y /\ w \in Keys /\ w # NULL
      /\ l[y] \in Pointers /\ r[y] \in Pointers /\ l[x] \in Pointers /\ r[x] \in Pointers
      /\ l[w] \in Pointers /\ r[w] \in Pointers
      /\ x \in S[y] /\ y \notin S[x] /\ S[r[x]] \subseteq S[x] /\ S[l[x]] \subseteq S[x] /\ y \notin S[r[y]]
      /\ w \in S[x] /\ x \notin S[w] /\ w # x /\ S[l[w]] \subseteq S[w] /\ S[r[w]] \subseteq S[w]
      /\ l[x] # w /\ r[y] # x /\ S[x] \cap S[r[y]] = {} /\ w \notin S[l[x]]
      /\ w \notin S[l[w]] /\ w \notin S[r[w]]
  <2>1. x \in Keys /\ y \in Keys /\ w \in Keys /\ x # NULL /\ w # NULL
    BY NoKey
  <2>2. /\ x # y /\ l[y] \in Pointers /\ r[y] \in Pointers /\ x \in S[y] /\ y \notin S[x]
        /\ y \notin S[r[y]] /\ r[y] # x /\ S[x] \cap S[r[y]] = {}
    BY <2>1, Sides
  <2>3. /\ l[x] \in Pointers /\ r[x] \in Pointers /\ S[r[x]] \subseteq S[x] /\ S[l[x]] \subseteq S[x]
        /\ w \in S[x] /\ x \notin S[w] /\ w # x /\ l[x] # w /\ w \notin S[l[x]]
    <3>1. S[l[x]] \cap S[r[x]] = {} /\ w \in S[w]
      BY <2>1, Sides
    <3>2. w \in S[r[x]]
      BY <2>1, Sides
    <3> QED
      BY <2>1, <3>1, <3>2, Sides
  <2>4. /\ l[w] \in Pointers /\ r[w] \in Pointers /\ S[l[w]] \subseteq S[w] /\ S[r[w]] \subseteq S[w]
        /\ w \notin S[l[w]] /\ w \notin S[r[w]]
    BY <2>1, Sides
  <2> QED
    BY <2>1, <2>2, <2>3, <2>4
<1>2. w # y /\ y \notin S[l[x]] /\ y \notin S[l[w]] /\ y \notin S[w] /\ w \in S[y]
  <2>1. y \notin S[l[x]] /\ y \notin S[w] /\ w # y /\ y \notin S[l[w]]
    BY <1>1
  <2>2. S[x] \subseteq S[y]
    BY <1>1, Transitive
  <2> QED
    BY <1>1, <2>1, <2>2
<1>3. Measured(l, r, S, D, E, C, {y}, y) /\ OffByOne(E[y], E[l[y]], E[r[y]])
  BY DEF At
<1>4. E \in [Pointers -> Nat] /\ E[NULL] = 0
  BY <1>3 DEF Measured
<1>5. PICK a, b, c, e : a = E[l[x]] /\ b = E[w] /\ c = E[r[y]] /\ e = E[y]
                        /\ a \in Nat /\ b \in Nat /\ c \in Nat /\ e \in Nat
  BY <1>1, <1>4, NoKey
<1>6. PICK h, i, j : h = E[x] /\ h \in Nat /\ i = E[l[w]] /\ j = E[r[w]] /\ i \in Nat /\ j \in Nat
  BY <1>1, <1>4
<1>7. /\ h = 1 + Larger(a, b) /\ Even(a, b)
      /\ b = 1 + Larger(i, j) /\ Even(i, j)
  <2>1. PICK X : X = {y}
    OBVIOUS
  <2>2. x \notin X /\ w \notin X /\ Measured(l, r, S, D, E, C, X, y)
    BY <1>1, <1>2, <1>3, <2>1
  <2>3. E[x] = 1 + Larger(E[l[x]], E[r[x]]) /\ Even(E[l[x]], E[r[x]])
    BY <2>2, HeightIs
  <2>4. E[w] = 1 + Larger(E[l[w]], E[r[w]]) /\ Even(E[l[w]], E[r[w]])
    BY <2>2, HeightIs
  <2> QED
    BY <1>5, <1>6, <2>3, <2>4
<1>8. b = a + 1 /\ h = b + 1 /\ c = a /\ e \in {h, h + 1}
  <2>1. a < b /\ h > c + 1 /\ OffByOne(e, h, c)
    BY <1>3, <1>5, <1>6
  <2>2. b = a + 1 /\ h = b + 1
    <3>1. b <= a + 1
      BY <1>7 DEF Even
    <3>2. Larger(a, b) = b
      BY <1>5, <2>1 DEF Larger
    <3> QED
      BY <1>5, <1>6, <1>7, <2>1, <3>1, <3>2
  <2>3. h = c + 2 /\ e \in {h, h + 1}
    BY <1>5, <1>6, <2>1 DEF OffByOne, Even
  <2> QED
    BY <1>5, <1>6, <2>2, <2>3
<1>9. i \in {a, a - 1} /\ j \in {a, a - 1}
  BY <1>5, <1>6, <1>7, <1>8 DEF Larger, Even
<1>10. PICK E1 : Raised(E1, E, l, w, x)
  BY <1>1, <1>4, RaisedExists
<1>11. /\ Nested(r, l, S, Mirrored(pos)) /\ Linked(r, l, p)
       /\ Nested(r1, l1, S1, Mirrored(pos)) /\ Linked(r1, l1, p1)
       /\ Nested(l1, r1, S1, Mirrored(Mirrored(pos))) /\ Linked(l1, r1, p1)
  <2>1. Nested(r, l, S, Mirrored(pos)) /\ Linked(r, l, p)
    BY Mirror, MirrorLinks
  <2>2. Nested(r1, l1, S1, Mirrored(pos)) /\ Linked(r1, l1, p1)
    BY <1>1, <2>1, RotatedNested, RotatedLinked
  <2> QED
    BY <2>1, <2>2, Mirror, MirrorLinks
<1>12. Measured(r1, l1, S1, D1, E1, C, {y, w}, w)
  <2>1. Measured(r, l, S, D, E, C, {y}, y)
    BY <1>3, MirrorMeasured
  <2>2. PICK X, Z : X = {y} /\ Z = {y, w}
    OBVIOUS
  <2>3. Measured(r, l, S, D, E, C, X, y) /\ X \subseteq Z \cup {x} /\ w \in Z
    BY <2>1, <2>2
  <2>4. Even(E[l[w]], E[l[x]])
    BY <1>5, <1>6, <1>9 DEF Even
  <2>5. Aside(S, l, w, x, y)
    BY <1>1, <1>2 DEF Aside
  <2>6. PICK pos1 : Nested(r, l, S, pos1)
    BY <1>11
  <2>7. Measured(r1, l1, S1, D1, E1, C, Z, w)
    BY <1>10, <1>11, <2>3, <2>4, <2>5, <2>6, TurnMeasured
  <2> QED
    BY <2>2, <2>7
<1>13. Measured(l1, r1, S1, D1, E1, C, {y, w}, w)
  BY <1>11, <1>12, MirrorMeasured
<1>14. /\ l1[y] = w /\ r1[y] = r[y] /\ r1[w] = r[w] /\ l1[w] = x
  <2>1. p[x] = y /\ l[y] = x
    BY <1>1 DEF Linked
  <2>2. r[w] # x
    <3>1. r[w] = x => x \in S[w]
      BY <1>1, Sides, NoKey
    <3> QED
      BY <1>1, <3>1
  <2> QED
    BY <1>1, <1>2, <2>1, <2>2 DEF Rotated
<1>15. /\ E1[x] = 1 + Larger(i, a) /\ E1[w] = h /\ E1[y] = e
       /\ E1[r[w]] = j /\ E1[r[y]] = c /\ E1 \in [Pointers -> Nat]
  <2>1. r[w] # x /\ r[w] # w /\ r[y] # w /\ r[y] # x
    <3>1. r[w] # NULL => r[w] \in S[w] /\ r[w] # w
      BY <1>1, Sides
    <3>2. r[y] # NULL => r[y] \in S[r[y]]
      BY <1>1, Sides
    <3> QED
      BY <1>1, <3>1, <3>2
  <2>2. E1 \in [Pointers -> Nat]
    BY <1>12 DEF Measured
  <2> QED
    BY <1>1, <1>2, <1>5, <1>6, <1>10, <2>1, <2>2, NoKey DEF Raised
<1>16. PICK E2 : Raised(E2, E1, r1, w, y)
  BY <1>1, <1>2, <1>14, <1>15, RaisedExists
<1>17. Measured(l2, r2, BelowRotated(l1, r1, S1, y), D2, E2, C, {w}, w)
  <2>1. Even(E1[r1[w]], E1[r1[y]])
    BY <1>5, <1>6, <1>8, <1>9, <1>14, <1>15 DEF Even
  <2>2. PICK pos1 : Nested(l1, r1, S1, pos1)
    BY <1>11
  <2>3. Aside(S1, r1, w, y, w)
    <3>1. S1[r[y]] = S[r[y]]
      <4>1. r[y] # NULL => r[y] \in S[r[y]]
        BY <1>1, Sides
      <4>2. r[y] # w /\ r[y] # x
        BY <1>1, <4>1
      <4> QED
        BY <1>1, <4>2 DEF BelowRotated
    <3> QED
      BY <1>1, <1>14, <2>2, <3>1, Sides DEF Aside
  <2>4. r1[w] \in C \cup {NULL} /\ r1[y] \in C \cup {NULL} /\ l1[y] = w
    BY <1>1, <1>14
  <2>5. PICK X, Z : X = {y, w} /\ Z = {w}
    OBVIOUS
  <2>6. Measured(l1, r1, S1, D1, E1, C, X, w) /\ X \subseteq Z \cup {y} /\ w \in Z
    BY <1>13, <2>5
  <2>7. Measured(l2, r2, BelowRotated(l1, r1, S1, y), D2, E2, C, Z, w)
    BY <1>11, <1>16, <2>1, <2>2, <2>3, <2>4, <2>6, TurnMeasured
  <2> QED
    BY <2>5, <2>7
<1>18. l2[w] = x /\ r2[w] = y
  <2>1. l1[y] = w /\ l1[w] = x
    BY <1>14
  <2> QED
    BY <1>1, <1>2, <2>1 DEF Rotated
<1>19. E2[w] = e /\ E2[x] = 1 + Larger(i, a) /\ E2[y] = 1 + Larger(j, c)
  BY <1>1, <1>2, <1>14, <1>15, <1>16, NoKey DEF Raised
<1>20. Larger(i, a) = a /\ Larger(j, c) = a
  BY <1>5, <1>6, <1>8, <1>9 DEF Larger
<1>21. E2[l2[w]] = a + 1 /\ E2[r2[w]] = a + 1
  BY <1>5, <1>18, <1>19, <1>20
<1>22. Even(a + 1, a + 1) /\ Larger(a + 1, a + 1) = a + 1 /\ Even(1 + (a + 1), e)
  <2>1. e \in {a + 2, a + 3}
    BY <1>5, <1>6, <1>8
  <2> QED
    BY <1>5, <2>1 DEF Even, Larger
<1>23. OffByOne(E2[w], E2[l2[w]], E2[r2[w]])
  BY <1>19, <1>21, <1>22 DEF OffByOne
<1> QED
  BY <1>17, <1>21, <1>22, <1>23 DEF At, Capped

\* What rotateRight makes of a tree around y, and rotateLeft with left for right: for
\* l and r the pointers of t, and l1 and r1 those of u.
Turned(u, t, C, S, T, pos, y, l, r, l1, r1) ==
    /\ Shaped(u, T, pos) /\ T[u.root] = C
    /\ u.fault = t.fault /\ u.misjudged = t.misjudged
    /\ Rotated(l, r, t.parent, l1, r1, u.parent, y)
    /\ Remeasured(u.depth, t.depth, r, l[y], y)
    /\ u.parent[y] = l[y] /\ T[l[y]] = S[y] /\ l[y] \in C

LEMMA RightTurns ==
    ASSUME NEW t, NEW S, NEW pos, Shaped(t, S, pos), NEW C, S[t.root] = C,
           NEW y \in C, t.left[y] # NULL, NEW u, u = rotateRight(t, y),
           NEW T, T = BelowRotated(t.left, t.right, S, y)
    PROVE  Turned(u, t, C, S, T, pos, y, t.left, t.right, u.left, u.right)
<1>1. /\ y \in Keys /\ t.root # NULL /\ (t.parent[y] = NULL => y = t.root)
      /\ t.left[y] \in Keys /\ t.left[y] \in C /\ t \in Trees
  BY InTree DEF Shaped
<1>2. /\ u \in Trees /\ u.fault = t.fault /\ u.misjudged = t.misjudged
      /\ Rotated(t.left, t.right, t.parent, u.left, u.right, u.parent, y)
      /\ u.root = IF t.parent[y] = NULL THEN t.left[y] ELSE t.root
      /\ u.depth[y] = 1 + Larger(depth(t, t.right[t.left[y]]), depth(t, t.right[y]))
      /\ \A k \in Keys : k # y /\ k # t.left[y] => u.depth[k] = t.depth[k]
  BY <1>1, RotateRightIs
<1>3. Rooted(t.left, t.right, t.parent, S, pos, t.root)
  BY <1>1, ShapedRooted
<1>4. Rooted(u.left, u.right, u.parent, T, pos, u.root) /\ T[u.root] = S[t.root]
  BY <1>1, <1>2, <1>3, RotationShapes
<1>5. Shaped(u, T, pos)
  BY <1>2, <1>4, RootedShaped
<1>6. Remeasured(u.depth, t.depth, t.right, t.left[y], y)
  BY <1>2 DEF Remeasured, depth, DepthIn
<1>7. u.parent[y] = t.left[y] /\ T[t.left[y]] = S[y]
  <2>1. t.left[y] # y /\ t.left[y] \in Pointers
    BY <1>1, Sides, NoKey DEF Shaped
  <2> QED
    BY <1>1, <1>2, <2>1 DEF Rotated, BelowRotated
<1> QED
  BY <1>1, <1>2, <1>4, <1>5, <1>6, <1>7 DEF Turned

LEMMA LeftTurns ==
    ASSUME NEW t, NEW S, NEW pos, Shaped(t, S, pos), NEW C, S[t.root] = C,
           NEW x \in C, t.right[x] # NULL, NEW u, u = rotateLeft(t, x),
           NEW T, T = BelowRotated(t.right, t.left, S, x)
    PROVE  Turned(u, t, C, S, T, pos, x, t.right, t.left, u.right, u.left)
<1>1. /\ x \in Keys /\ t.root # NULL /\ (t.parent[x] = NULL => x = t.root)
      /\ t.right[x] \in Keys /\ t.right[x] \in C /\ t \in Trees /\ pos \in [Keys -> Int]
  BY InTree DEF Shaped, Nested
<1>2. /\ u \in Trees /\ u.fault = t.fault /\ u.misjudged = t.misjudged
      /\ Rotated(t.right, t.left, t.parent, u.right, u.left, u.parent, x)
      /\ u.root = IF t.parent[x] = NULL THEN t.right[x] ELSE t.root
      /\ u.depth[x] = 1 + Larger(depth(t, t.left[x]), depth(t, t.left[t.right[x]]))
      /\ \A k \in Keys : k # x /\ k # t.right[x] => u.depth[k] = t.depth[k]
  BY <1>1, RotateLeftIs
<1>3. PICK back : back = Mirrored(pos)
  OBVIOUS
<1>4. Rooted(t.right, t.left, t.parent, S, back, t.root)
  BY <1>1, <1>3, ShapedRooted
<1>5. Rooted(u.right, u.left, u.parent, T, back, u.root) /\ T[u.root] = S[t.root]
  BY <1>1, <1>2, <1>4, RotationShapes
<1>6. Shaped(u, T, pos)
  <2>1. Rooted(u.left, u.right, u.parent, T, pos, u.root)
    BY <1>1, <1>3, <1>5, Unmirror
  <2> QED
    BY <1>2, <2>1, RootedShaped
<1>7. Remeasured(u.depth, t.depth, t.left, t.right[x], x)
  <2>1. t.left[x] \in Pointers /\ t.left[t.right[x]] \in Pointers
    BY <1>1 DEF Trees
  <2>2. PICK a, b \in Nat : a = depth(t, t.left[x]) /\ b = depth(t, t.left[t.right[x]])
    BY <1>1, <2>1, DepthIs
  <2>3. a = DepthIn(t.depth, t.left[x]) /\ b = DepthIn(t.depth, t.left[t.right[x]])
    BY <2>2 DEF depth, DepthIn
  <2>4. u.depth[x] = 1 + Larger(b, a)
    BY <1>2, <2>2, LargerSwaps
  <2> QED
    BY <1>2, <2>3, <2>4 DEF Remeasured
<1>8. u.parent[x] = t.right[x] /\ T[t.right[x]] = S[x]
  <2>1. t.right[x] # x /\ t.right[x] \in Pointers
    BY <1>1, Sides, NoKey DEF Shaped
  <2> QED
    BY <1>1, <1>2, <2>1 DEF Rotated, BelowRotated
<1> QED
  BY <1>1, <1>2, <1>5, <1>6, <1>7, <1>8 DEF Turned

-----------------------------------------------------------------------------
(* One round of the loop *)

\* The loop has balanced all that is below f, or everything.
Focused(t, S, pos, E, C, f) ==
    /\ Shaped(t, S, pos) /\ S[t.root] = C /\ ~t.fault
    /\ f = NULL => Measured(t.left, t.right, S, t.depth, E, C, {}, NULL)
    /\ f # NULL => f \in C /\ At(t.left, t.right, S, t.depth, E, C, f)

\* What a rotation leaves: as high a tree, or one that is one lower.
Topped(u, t, S, pos, C, y, top) ==
    /\ \E T, E : /\ Focused(u, T, pos, E, C, top) /\ T[top] = S[y]
                 /\ Even(E[u.left[top]], E[u.right[top]])
    /\ top \in C /\ u.parent[y] = top /\ u.misjudged = t.misjudged

LEMMA MirrorAt ==
    ASSUME NEW l, NEW r, NEW S, NEW pos, Nested(l, r, S, pos), NEW D, NEW E, NEW C \in SUBSET Keys,
           NEW f \in C, At(l, r, S, D, E, C, f)
    PROVE  At(r, l, S, D, E, C, f)
<1>1. Measured(l, r, S, D, E, C, {f}, f) /\ OffByOne(E[f], E[l[f]], E[r[f]])
  BY DEF At
<1>2. Measured(r, l, S, D, E, C, {f}, f)
  BY <1>1, MirrorMeasured
<1>3. l[f] \in Pointers /\ r[f] \in Pointers /\ E \in [Pointers -> Nat]
  BY <1>1 DEF Measured, Nested
<1>4. OffByOne(E[f], E[r[f]], E[l[f]])
  <2>1. PICK a, b \in Nat : a = E[l[f]] /\ b = E[r[f]]
    BY <1>3
  <2>2. Larger(a, b) = Larger(b, a)
    BY LargerSwaps
  <2>3. Even(a, b) <=> Even(b, a)
    BY DEF Even
  <2>4. OffByOne(E[f], a, b)
    BY <1>1, <2>1
  <2>5. OffByOne(E[f], b, a)
    BY <2>2, <2>3, <2>4 DEF OffByOne
  <2> QED
    BY <2>1, <2>5
<1> QED
  BY <1>2, <1>4 DEF At

LEMMA InTreeOrNull ==
    ASSUME NEW t, NEW S, NEW pos, Shaped(t, S, pos), NEW n \in S[t.root]
    PROVE  /\ t.left[n] \in S[t.root] \cup {NULL} /\ t.right[n] \in S[t.root] \cup {NULL}
           /\ t.parent[n] \in S[t.root] \cup {NULL}
           /\ Nested(t.left, t.right, S, pos) /\ Linked(t.left, t.right, t.parent)
           /\ S[t.root] \in SUBSET Keys
  BY InTree DEF Shaped

LEMMA RightTopped ==
    ASSUME NEW t, NEW S, NEW pos, NEW E, NEW C, NEW y \in C, Focused(t, S, pos, E, C, y),
           E[t.left[y]] > E[t.right[y]] + 1, t.left[y] # NULL,
           E[t.left[t.left[y]]] >= E[t.right[t.left[y]]],
           NEW u, u = rotateRight(t, y)
    PROVE  Topped(u, t, S, pos, C, y, t.left[y])
<1>1. PICK x, T : x = t.left[y] /\ T = BelowRotated(t.left, t.right, S, y)
  OBVIOUS
<1>2. Shaped(t, S, pos) /\ S[t.root] = C /\ ~t.fault /\ y \in S[t.root]
  BY DEF Focused
<1>3. /\ Nested(t.left, t.right, S, pos) /\ Linked(t.left, t.right, t.parent) /\ C \in SUBSET Keys
      /\ x \in C /\ t.right[y] \in C \cup {NULL}
  BY <1>1, <1>2, InTreeOrNull
<1>4. t.right[x] \in C \cup {NULL} /\ y # NULL /\ x # NULL
  BY <1>2, <1>3, InTreeOrNull, NoKey
<1>5. At(t.left, t.right, S, t.depth, E, C, y)
  BY <1>4 DEF Focused
<1>6. Turned(u, t, C, S, T, pos, y, t.left, t.right, u.left, u.right)
  BY <1>1, <1>2, <1>4, RightTurns
<1>7. /\ Rotated(t.left, t.right, t.parent, u.left, u.right, u.parent, y)
      /\ Remeasured(u.depth, t.depth, t.right, x, y)
  BY <1>1, <1>6 DEF Turned
<1>8. \E E1 : At(u.left, u.right, T, u.depth, E1, C, x) /\ Even(E1[u.left[x]], E1[u.right[x]])
  <2>1. t.left[y] = x /\ E[x] > E[t.right[y]] + 1 /\ E[t.left[x]] >= E[t.right[x]]
    BY <1>1
  <2>2. PICK order : Nested(t.left, t.right, S, order) /\ Linked(t.left, t.right, t.parent)
    BY <1>3
  <2>3. PICK D1 : D1 = u.depth
    OBVIOUS
  <2>4. PICK l1, r1, p1 : l1 = u.left /\ r1 = u.right /\ p1 = u.parent
    OBVIOUS
  <2>5. Rotated(t.left, t.right, t.parent, l1, r1, p1, y) /\ Remeasured(D1, t.depth, t.right, x, y)
    BY <1>7, <2>3, <2>4
  <2>6. Capped(l1, r1, T, D1, C, x)
    BY <1>1, <1>3, <1>4, <1>5, <2>1, <2>2, <2>5, OnceTurned
  <2> QED
    BY <2>3, <2>4, <2>6 DEF Capped
<1>9. PICK E1 : At(u.left, u.right, T, u.depth, E1, C, x) /\ Even(E1[u.left[x]], E1[u.right[x]])
  BY <1>8
<1>10. Focused(u, T, pos, E1, C, x)
  BY <1>2, <1>3, <1>4, <1>6, <1>9 DEF Focused, Turned
<1> QED
  BY <1>1, <1>3, <1>6, <1>9, <1>10 DEF Topped, Turned

LEMMA LeftTopped ==
    ASSUME NEW t, NEW S, NEW pos, NEW E, NEW C, NEW y \in C, Focused(t, S, pos, E, C, y),
           E[t.right[y]] > E[t.left[y]] + 1, t.right[y] # NULL,
           E[t.right[t.right[y]]] >= E[t.left[t.right[y]]],
           NEW u, u = rotateLeft(t, y)
    PROVE  Topped(u, t, S, pos, C, y, t.right[y])
<1>1. PICK x, T : x = t.right[y] /\ T = BelowRotated(t.right, t.left, S, y)
  OBVIOUS
<1>2. Shaped(t, S, pos) /\ S[t.root] = C /\ ~t.fault /\ y \in S[t.root]
  BY DEF Focused
<1>3. /\ Nested(t.left, t.right, S, pos) /\ Linked(t.left, t.right, t.parent) /\ C \in SUBSET Keys
      /\ x \in C /\ t.left[y] \in C \cup {NULL}
  BY <1>1, <1>2, InTreeOrNull
<1>4. t.left[x] \in C \cup {NULL} /\ y # NULL /\ x # NULL
  BY <1>2, <1>3, InTreeOrNull, NoKey
<1>5. At(t.right, t.left, S, t.depth, E, C, y)
  <2>1. At(t.left, t.right, S, t.depth, E, C, y)
    BY <1>4 DEF Focused
  <2> QED
    BY <1>3, <2>1, MirrorAt
<1>6. Turned(u, t, C, S, T, pos, y, t.right, t.left, u.right, u.left)
  BY <1>1, <1>2, <1>4, LeftTurns
<1>7. /\ Rotated(t.right, t.left, t.parent, u.right, u.left, u.parent, y)
      /\ Remeasured(u.depth, t.depth, t.left, x, y)
  BY <1>1, <1>6 DEF Turned
<1>8. PICK back : Nested(t.right, t.left, S, back) /\ Linked(t.right, t.left, t.parent)
  BY <1>3, Mirror, MirrorLinks
<1>9. \E E1 : At(u.right, u.left, T, u.depth, E1, C, x) /\ Even(E1[u.right[x]], E1[u.left[x]])
  <2>1. t.right[y] = x /\ E[x] > E[t.left[y]] + 1 /\ E[t.right[x]] >= E[t.left[x]]
    BY <1>1
  <2>2. Capped(u.right, u.left, T, u.depth, C, x)
    BY <1>1, <1>3, <1>4, <1>5, <1>7, <1>8, <2>1, OnceTurned
  <2> QED
    BY <2>2 DEF Capped
<1>10. PICK E1 : At(u.right, u.left, T, u.depth, E1, C, x) /\ Even(E1[u.right[x]], E1[u.left[x]])
  BY <1>9
<1>11. At(u.left, u.right, T, u.depth, E1, C, x)
  <2>1. Nested(u.left, u.right, T, pos)
    BY <1>6 DEF Turned, Shaped
  <2>2. PICK front : Nested(u.right, u.left, T, front)
    BY <2>1, Mirror
  <2> QED
    BY <1>3, <1>10, <2>2, MirrorAt
<1>12. Even(E1[u.left[x]], E1[u.right[x]])
  BY <1>10 DEF Even
<1>13. Focused(u, T, pos, E1, C, x)
  BY <1>2, <1>3, <1>4, <1>6, <1>11 DEF Focused, Turned
<1> QED
  BY <1>1, <1>3, <1>6, <1>12, <1>13 DEF Topped, Turned

\* Twice: the child is rotated the other way first.
LEMMA RightTwice ==
    ASSUME NEW t, NEW S, NEW pos, NEW E, NEW C, NEW y \in C, Focused(t, S, pos, E, C, y),
           NEW x, x = t.left[y], x # NULL, NEW w, w = t.right[x],
           E[x] > E[t.right[y]] + 1, E[t.left[x]] < E[w],
           NEW v, v = rotateLeft(t, x), NEW u, u = rotateRight(v, y)
    PROVE  Topped(u, t, S, pos, C, y, w)
<1>1. Shaped(t, S, pos) /\ S[t.root] = C /\ ~t.fault /\ y \in S[t.root]
  BY DEF Focused
<1>2. /\ Nested(t.left, t.right, S, pos) /\ Linked(t.left, t.right, t.parent) /\ C \in SUBSET Keys
      /\ x \in C /\ t.right[y] \in C \cup {NULL} /\ y # NULL
  BY <1>1, InTreeOrNull, NoKey
<1>3. t.left[x] \in C \cup {NULL} /\ w \in C \cup {NULL}
  BY <1>1, <1>2, InTreeOrNull
<1>4. At(t.left, t.right, S, t.depth, E, C, y)
  <2>1. At(t.left, t.right, S, t.depth, E, C, y)
    BY <1>2 DEF Focused
  <2> QED
    BY <1>2, <2>1, MirrorAt
<1>5. w # NULL
  <2>1. E \in [Pointers -> Nat] /\ E[NULL] = 0
    BY <1>4 DEF At, Measured
  <2>2. E[t.left[x]] \in Nat
    BY <1>2, <1>3, <2>1, NoKey
  <2> QED
    BY <2>1, <2>2
<1>6. w \in C /\ t.left[w] \in C \cup {NULL} /\ t.right[w] \in C \cup {NULL}
  BY <1>1, <1>3, <1>5, InTreeOrNull
<1>7. PICK S1 : S1 = BelowRotated(t.right, t.left, S, x)
  OBVIOUS
<1>8. Turned(v, t, C, S, S1, pos, x, t.right, t.left, v.right, v.left)
  BY <1>1, <1>2, <1>5, <1>7, LeftTurns
<1>9. PICK l1, r1, p1, D1 : l1 = v.left /\ r1 = v.right /\ p1 = v.parent /\ D1 = v.depth
  OBVIOUS
<1>10. /\ Shaped(v, S1, pos) /\ S1[v.root] = C /\ v.fault = t.fault /\ v.misjudged = t.misjudged
       /\ Rotated(t.right, t.left, t.parent, r1, l1, p1, x)
       /\ Remeasured(D1, t.depth, t.left, w, x)
  BY <1>8, <1>9 DEF Turned
<1>11. x # y /\ w # y /\ w # x /\ x \in Keys /\ y \in Keys /\ w \in Keys /\ y \in Pointers
  <2>1. x \in Keys /\ y \in Keys /\ w \in Keys /\ y \in Pointers
    BY <1>2, <1>6, NoKey
  <2>2. x # y /\ y \notin S[x] /\ w # x /\ w \in S[x]
    <3>1. y \notin S[x] /\ x # y
      BY <1>2, <2>1, Sides
    <3>2. w # x /\ S[w] \subseteq S[x] /\ w \in S[w]
      BY <1>2, <1>5, <2>1, Sides
    <3> QED
      BY <3>1, <3>2
  <2> QED
    BY <2>1, <2>2
<1>12. l1[y] = w
  <2>1. t.parent[x] = y
    BY <1>2, <1>11 DEF Linked
  <2> QED
    BY <1>10, <1>11, <2>1 DEF Rotated
<1>13. S1[y] = S[y]
  BY <1>7, <1>11 DEF BelowRotated
<1>14. PICK T : T = BelowRotated(l1, r1, S1, y)
  OBVIOUS
<1>15. Turned(u, v, C, S1, T, pos, y, l1, r1, u.left, u.right)
  BY <1>1, <1>5, <1>9, <1>10, <1>12, <1>14, RightTurns
<1>16. PICK l2, r2, p2, D2 : l2 = u.left /\ r2 = u.right /\ p2 = u.parent /\ D2 = u.depth
  OBVIOUS
<1>17. /\ Shaped(u, T, pos) /\ T[u.root] = C /\ u.fault = v.fault /\ u.misjudged = v.misjudged
       /\ Rotated(l1, r1, p1, l2, r2, p2, y)
       /\ Remeasured(D2, D1, r1, w, y)
       /\ u.parent[y] = w /\ T[w] = S[y]
  BY <1>9, <1>12, <1>13, <1>15, <1>16 DEF Turned
<1>18. \E E2 : At(l2, r2, T, D2, E2, C, w) /\ Even(E2[l2[w]], E2[r2[w]])
  <2>1. PICK l, r, p, D : l = t.left /\ r = t.right /\ p = t.parent /\ D = t.depth
    OBVIOUS
  <2>2. PICK order : Nested(l, r, S, order) /\ Linked(l, r, p)
    BY <1>2, <2>1, Mirror, MirrorLinks
  <2>3. Bent(l, r, C, E, y, x, w)
    BY <1>2, <1>3, <1>6, <2>1 DEF Bent
  <2>4. At(l, r, S, D, E, C, y) /\ HalfTurned(l, r, p, S, D, l1, r1, p1, S1, D1, x, w)
    BY <1>4, <1>7, <1>10, <2>1 DEF HalfTurned
  <2>5. Rotated(l1, r1, p1, l2, r2, p2, y) /\ Remeasured(D2, D1, r1, w, y)
    BY <1>17
  <2>6. Capped(l2, r2, BelowRotated(l1, r1, S1, y), D2, C, w)
    BY <2>5, <2>2, <2>3, <2>4, TwiceTurned
  <2> QED
    BY <1>14, <2>6 DEF Capped
<1>19. PICK E2 : At(l2, r2, T, D2, E2, C, w) /\ Even(E2[l2[w]], E2[r2[w]])
  BY <1>18
<1>20. At(u.left, u.right, T, u.depth, E2, C, w) /\ Even(E2[u.left[w]], E2[u.right[w]])
  <2>1. PICK order : Nested(l2, r2, T, order)
    BY <1>16, <1>17, Mirror DEF Shaped
  <2>2. At(r2, l2, T, D2, E2, C, w)
    BY <1>2, <1>6, <1>19, <2>1, MirrorAt
  <2> QED
    BY <1>16, <1>19, <2>2 DEF Even
<1>21. Focused(u, T, pos, E2, C, w)
  BY <1>1, <1>5, <1>6, <1>10, <1>17, <1>20 DEF Focused
<1> QED
  BY <1>6, <1>10, <1>17, <1>20, <1>21 DEF Topped

LEMMA LeftTwice ==
    ASSUME NEW t, NEW S, NEW pos, NEW E, NEW C, NEW y \in C, Focused(t, S, pos, E, C, y),
           NEW x, x = t.right[y], x # NULL, NEW w, w = t.left[x],
           E[x] > E[t.left[y]] + 1, E[t.right[x]] < E[w],
           NEW v, v = rotateRight(t, x), NEW u, u = rotateLeft(v, y)
    PROVE  Topped(u, t, S, pos, C, y, w)
<1>1. Shaped(t, S, pos) /\ S[t.root] = C /\ ~t.fault /\ y \in S[t.root]
  BY DEF Focused
<1>2. /\ Nested(t.left, t.right, S, pos) /\ Linked(t.left, t.right, t.parent) /\ C \in SUBSET Keys
      /\ x \in C /\ t.left[y] \in C \cup {NULL} /\ y # NULL
  BY <1>1, InTreeOrNull, NoKey
<1>3. t.right[x] \in C \cup {NULL} /\ w \in C \cup {NULL}
  BY <1>1, <1>2, InTreeOrNull
<1>4. At(t.right, t.left, S, t.depth, E, C, y)
  <2>1. At(t.left, t.right, S, t.depth, E, C, y)
    BY <1>2 DEF Focused
  <2> QED
    BY <1>2, <2>1, MirrorAt
<1>5. w # NULL
  <2>1. E \in [Pointers -> Nat] /\ E[NULL] = 0
    BY <1>4 DEF At, Measured
  <2>2. E[t.right[x]] \in Nat
    BY <1>2, <1>3, <2>1, NoKey
  <2> QED
    BY <2>1, <2>2
<1>6. w \in C /\ t.left[w] \in C \cup {NULL} /\ t.right[w] \in C \cup {NULL}
  BY <1>1, <1>3, <1>5, InTreeOrNull
<1>7. PICK S1 : S1 = BelowRotated(t.left, t.right, S, x)
  OBVIOUS
<1>8. Turned(v, t, C, S, S1, pos, x, t.left, t.right, v.left, v.right)
  BY <1>1, <1>2, <1>5, <1>7, RightTurns
<1>9. PICK l1, r1, p1, D1 : l1 = v.right /\ r1 = v.left /\ p1 = v.parent /\ D1 = v.depth
  OBVIOUS
<1>10. /\ Shaped(v, S1, pos) /\ S1[v.root] = C /\ v.fault = t.fault /\ v.misjudged = t.misjudged
       /\ Rotated(t.left, t.right, t.parent, r1, l1, p1, x)
       /\ Remeasured(D1, t.depth, t.right, w, x)
  BY <1>8, <1>9 DEF Turned
<1>11. x # y /\ w # y /\ w # x /\ x \in Keys /\ y \in Keys /\ w \in Keys /\ y \in Pointers
  <2>1. x \in Keys /\ y \in Keys /\ w \in Keys /\ y \in Pointers
    BY <1>2, <1>6, NoKey
  <2>2. x # y /\ y \notin S[x] /\ w # x /\ w \in S[x]
    <3>1. y \notin S[x] /\ x # y
      BY <1>2, <2>1, Sides
    <3>2. w # x /\ S[w] \subseteq S[x] /\ w \in S[w]
      BY <1>2, <1>5, <2>1, Sides
    <3> QED
      BY <3>1, <3>2
  <2> QED
    BY <2>1, <2>2
<1>12. l1[y] = w
  <2>1. t.parent[x] = y
    BY <1>2, <1>11 DEF Linked
  <2> QED
    BY <1>10, <1>11, <2>1 DEF Rotated
<1>13. S1[y] = S[y]
  BY <1>7, <1>11 DEF BelowRotated
<1>14. PICK T : T = BelowRotated(l1, r1, S1, y)
  OBVIOUS
<1>15. Turned(u, v, C, S1, T, pos, y, l1, r1, u.right, u.left)
  BY <1>1, <1>5, <1>9, <1>10, <1>12, <1>14, LeftTurns
<1>16. PICK l2, r2, p2, D2 : l2 = u.right /\ r2 = u.left /\ p2 = u.parent /\ D2 = u.depth
  OBVIOUS
<1>17. /\ Shaped(u, T, pos) /\ T[u.root] = C /\ u.fault = v.fault /\ u.misjudged = v.misjudged
       /\ Rotated(l1, r1, p1, l2, r2, p2, y)
       /\ Remeasured(D2, D1, r1, w, y)
       /\ u.parent[y] = w /\ T[w] = S[y]
  BY <1>9, <1>12, <1>13, <1>15, <1>16 DEF Turned
<1>18. \E E2 : At(l2, r2, T, D2, E2, C, w) /\ Even(E2[l2[w]], E2[r2[w]])
  <2>1. PICK l, r, p, D : l = t.right /\ r = t.left /\ p = t.parent /\ D = t.depth
    OBVIOUS
  <2>2. PICK order : Nested(l, r, S, order) /\ Linked(l, r, p)
    BY <1>2, <2>1, Mirror, MirrorLinks
  <2>3. Bent(l, r, C, E, y, x, w)
    BY <1>2, <1>3, <1>6, <2>1 DEF Bent
  <2>4. At(l, r, S, D, E, C, y) /\ HalfTurned(l, r, p, S, D, l1, r1, p1, S1, D1, x, w)
    BY <1>4, <1>7, <1>10, <2>1 DEF HalfTurned
  <2>5. Rotated(l1, r1, p1, l2, r2, p2, y) /\ Remeasured(D2, D1, r1, w, y)
    BY <1>17
  <2>6. Capped(l2, r2, BelowRotated(l1, r1, S1, y), D2, C, w)
    BY <2>5, <2>2, <2>3, <2>4, TwiceTurned
  <2> QED
    BY <1>14, <2>6 DEF Capped
<1>19. PICK E2 : At(l2, r2, T, D2, E2, C, w) /\ Even(E2[l2[w]], E2[r2[w]])
  BY <1>18
<1>20. At(u.left, u.right, T, u.depth, E2, C, w) /\ Even(E2[u.left[w]], E2[u.right[w]])
  <2>1. PICK order : Nested(l2, r2, T, order)
    BY <1>16, <1>17, Mirror DEF Shaped
  <2>2. At(r2, l2, T, D2, E2, C, w)
    BY <1>2, <1>6, <1>19, <2>1, MirrorAt
  <2> QED
    BY <1>16, <1>19, <2>2 DEF Even
<1>21. Focused(u, T, pos, E2, C, w)
  BY <1>1, <1>5, <1>6, <1>10, <1>17, <1>20 DEF Focused
<1> QED
  BY <1>6, <1>10, <1>17, <1>20, <1>21 DEF Topped

LEMMA RotationsKeepFlag ==
    ASSUME NEW t, NEW C, NEW pos, TreeOf(t, C, pos), NEW y \in C
    PROVE  /\ rotateRight(t, y).misjudged = t.misjudged
           /\ rotateLeft(t, y).misjudged = t.misjudged
<1>1. PICK S : Shaped(t, S, pos) /\ S[t.root] = C
  BY DEF TreeOf
<1>2. y \in Keys /\ (t.parent[y] = NULL => y = t.root) /\ t \in Trees
  BY <1>1, InTree DEF Shaped
<1>3. t.left[y] = NULL => rotateRight(t, y) = [t EXCEPT !.fault = TRUE]
  BY DEF rotateRight
<1>4. t.right[y] = NULL => rotateLeft(t, y) = [t EXCEPT !.fault = TRUE]
  BY DEF rotateLeft
<1>5. [t EXCEPT !.fault = TRUE].misjudged = t.misjudged
  BY <1>2 DEF Trees
<1>6. t.left[y] # NULL => rotateRight(t, y).misjudged = t.misjudged
  BY <1>1, <1>2, RotateRightIs
<1>7. t.right[y] # NULL => rotateLeft(t, y).misjudged = t.misjudged
  BY <1>1, <1>2, RotateLeftIs
<1> QED
  BY <1>3, <1>4, <1>5, <1>6, <1>7

\* The same but for the flag misjudged.
SameNodes(j, d) ==
    /\ j \in Trees /\ j.root = d.root /\ j.left = d.left /\ j.right = d.right
    /\ j.parent = d.parent /\ j.depth = d.depth /\ j.fault = d.fault

\* How BalanceNode decides, on a node that has been measured.
Decides(u, d, j, n) ==
    LET balance == getBalance(d, n)
        atLeft  == getBalance(d, d.left[n])
        atRight == getBalance(d, d.right[n])
    IN  /\ balance > 1 /\ atLeft >= 0 => u = rotateRight(j, n)
        /\ balance > 1 /\ atLeft < 0 => u = rotateRight(rotateLeft(j, d.left[n]), n)
        /\ balance < -1 /\ atRight <= 0 => u = rotateLeft(d, n)
        /\ balance < -1 /\ atRight > 0 => u = rotateLeft(rotateRight(d, d.right[n]), n)
        /\ ~(balance > 1) /\ ~(balance < -1) => u = d

LEMMA NotMisjudged ==
    ASSUME NEW t, NEW C, NEW pos, TreeOf(t, C, pos), NEW n \in C,
           NEW u, u = BalanceNode(t, n), ~u.misjudged,
           NEW d, d = Measure(t, n)
    PROVE  /\ ~t.misjudged
           /\ \E j : Decides(u, d, j, n) /\ SameNodes(j, d)
<1> DEFINE balance == getBalance(d, n)
           atRoot  == getBalance(d, d.left[d.root])
           atLeft  == getBalance(d, d.left[n])
           atRight == getBalance(d, d.right[n])
           j  == [d EXCEPT !.misjudged = @ \/ (atRoot >= 0) # (atLeft >= 0)]
<1>1. TreeOf(d, C, pos) /\ d \in Trees /\ t \in Trees /\ n \in Keys /\ d.misjudged = t.misjudged
  <2>1. t \in Trees /\ n \in Keys
    BY InTree DEF TreeOf, Shaped
  <2>2. SamePointers(d, t) /\ d \in Trees
    BY <2>1, MeasureIs
  <2>3. TreeOf(d, C, pos)
    BY MeasureKeeps DEF Reshaped
  <2> QED
    BY <2>1, <2>2, <2>3 DEF SamePointers
<1>2. u = CASE balance > 1 /\ atRoot >= 0   -> rotateRight(j, n)
            [] balance > 1 /\ atRoot < 0    -> rotateRight(rotateLeft(j, d.left[n]), n)
            [] balance < -1 /\ atRight <= 0 -> rotateLeft(d, n)
            [] balance < -1 /\ atRight > 0  -> rotateLeft(rotateRight(d, d.right[n]), n)
            [] OTHER                        -> d
  BY DEF BalanceNode
<1>3. PICK e : e = ((atRoot >= 0) # (atLeft >= 0)) /\ e \in BOOLEAN
  OBVIOUS
<1>4. j = [d EXCEPT !.misjudged = d.misjudged \/ e]
  BY <1>3
<1>5. /\ balance \in Int /\ (balance > 1 => d.left[n] \in C) /\ (balance < -1 => d.right[n] \in C)
  <2>1. balance \in Int /\ (balance > 1 => d.left[n] # NULL) /\ (balance < -1 => d.right[n] # NULL)
    BY <1>1, HeavyHasChild
  <2> HIDE DEF balance
  <2> QED
    BY <1>1, <2>1, InTree DEF TreeOf
<1>6. getBalance(d, d.left[d.root]) \in Int /\ getBalance(d, d.left[n]) \in Int
      /\ getBalance(d, d.right[n]) \in Int
  <2>1. \A m \in Pointers : getBalance(d, m) \in Int
    <3> SUFFICES ASSUME NEW m \in Pointers PROVE getBalance(d, m) \in Int
      OBVIOUS
    <3>1. CASE m = NULL
      BY <3>1 DEF getBalance
    <3>2. CASE m # NULL
      <4>1. m \in Keys
        BY <3>2, NoKey
      <4> QED
        BY <1>1, <4>1, HeavyHasChild
    <3> QED
      BY <3>1, <3>2
  <2>2. d.left[n] \in Pointers /\ d.right[n] \in Pointers
    BY <1>1 DEF Trees
  <2>3. CASE d.root \in Keys
    <3>1. d.left[d.root] \in Pointers
      BY <1>1, <2>3 DEF Trees
    <3> QED
      BY <2>1, <2>2, <3>1
  <2>4. CASE d.root \notin Keys
    <3>1. n \in C /\ C = {}
      BY <1>1, <2>4, TreeOfKeys, NoKey DEF Trees
    <3> QED
      BY <3>1
  <2> QED
    BY <2>3, <2>4
<1>7. PICK a, l, r : a = atRoot /\ l = atLeft /\ r = atRight /\ a \in Int /\ l \in Int /\ r \in Int
  BY <1>6
<1>8. e = ((a >= 0) # (l >= 0))
  BY <1>3, <1>7
<1>9. u = CASE balance > 1 /\ a >= 0  -> rotateRight(j, n)
            [] balance > 1 /\ a < 0   -> rotateRight(rotateLeft(j, d.left[n]), n)
            [] balance < -1 /\ r <= 0 -> rotateLeft(d, n)
            [] balance < -1 /\ r > 0  -> rotateLeft(rotateRight(d, d.right[n]), n)
            [] OTHER                  -> d
  BY <1>2, <1>7
<1> HIDE DEF j, balance, atRoot, atLeft, atRight
<1>10. /\ SameNodes(j, d) /\ j \in Trees
       /\ j.misjudged = (d.misjudged \/ e) /\ j.root = d.root /\ j.left = d.left
       /\ j.right = d.right /\ j.parent = d.parent /\ j.fault = d.fault
  <2>1. j.misjudged = (d.misjudged \/ e) /\ j \in Trees
    BY <1>1, <1>3, <1>4 DEF Trees
  <2>2. /\ j.root = d.root /\ j.left = d.left /\ j.right = d.right /\ j.parent = d.parent
        /\ j.fault = d.fault /\ j.depth = d.depth
    BY <1>1, <1>4 DEF Trees
  <2> QED
    BY <2>1, <2>2 DEF SameNodes
<1>11. TreeOf(j, C, pos)
  BY <1>1, <1>10, FlagsOnly
<1>12. balance > 1 => u.misjudged = j.misjudged
  <2> SUFFICES ASSUME balance > 1 PROVE u.misjudged = j.misjudged
    OBVIOUS
  <2>1. u \in {rotateRight(j, n), rotateRight(rotateLeft(j, d.left[n]), n)}
    BY <1>5, <1>7, <1>9
  <2>2. rotateRight(j, n).misjudged = j.misjudged
    BY <1>11, RotationsKeepFlag
  <2>3. PICK v : v = rotateLeft(j, d.left[n])
    OBVIOUS
  <2>4. v.misjudged = j.misjudged /\ TreeOf(v, C, pos)
    BY <1>5, <1>11, <2>3, RotationsKeepFlag, RotateLeftKeeps DEF Reshaped
  <2>5. rotateRight(v, n).misjudged = v.misjudged
    BY <2>4, RotationsKeepFlag
  <2> QED
    BY <2>1, <2>2, <2>3, <2>4, <2>5
<1>13. ~(balance > 1) => u.misjudged = d.misjudged
  <2> SUFFICES ASSUME ~(balance > 1) PROVE u.misjudged = d.misjudged
    OBVIOUS
  <2>1. \/ u \in {rotateLeft(d, n), d}
        \/ u = rotateLeft(rotateRight(d, d.right[n]), n) /\ balance < -1
    BY <1>5, <1>7, <1>9
  <2>2. rotateLeft(d, n).misjudged = d.misjudged
    BY <1>1, RotationsKeepFlag
  <2>3. ASSUME balance < -1, u = rotateLeft(rotateRight(d, d.right[n]), n)
        PROVE  u.misjudged = d.misjudged
    <3>1. PICK v : v = rotateRight(d, d.right[n])
      OBVIOUS
    <3>2. v.misjudged = d.misjudged /\ TreeOf(v, C, pos)
      BY <1>1, <1>5, <2>3, <3>1, RotationsKeepFlag, RotateRightKeeps DEF Reshaped
    <3>3. rotateLeft(v, n).misjudged = v.misjudged
      BY <3>2, RotationsKeepFlag
    <3> QED
      BY <2>3, <3>1, <3>2, <3>3
  <2> QED
    BY <2>1, <2>2, <2>3
<1>14. ~d.misjudged /\ (balance > 1 => ~j.misjudged /\ ~e)
  <2>1. d.misjudged \in BOOLEAN
    BY <1>1 DEF Trees
  <2> QED
    BY <1>3, <1>10, <1>12, <1>13, <2>1
<1>15. balance > 1 => ((a >= 0) <=> (l >= 0))
  BY <1>8, <1>14
<1>16. /\ balance > 1 /\ l >= 0 => u = rotateRight(j, n)
       /\ balance > 1 /\ l < 0 => u = rotateRight(rotateLeft(j, d.left[n]), n)
       /\ balance < -1 /\ r <= 0 => u = rotateLeft(d, n)
       /\ balance < -1 /\ r > 0 => u = rotateLeft(rotateRight(d, d.right[n]), n)
       /\ ~(balance > 1) /\ ~(balance < -1) => u = d
  BY <1>5, <1>7, <1>9, <1>15
<1>17. Decides(u, d, j, n)
  BY <1>7, <1>16 DEF Decides, balance, atLeft, atRight
<1> QED
  BY <1>1, <1>10, <1>14, <1>17

\* A side that has become one higher or lower makes its parent off by one.
LEMMA SideShifted ==
    ASSUME NEW a \in Nat, NEW b \in Nat, NEW a1 \in Nat, Even(a, b), Even(a1, a)
    PROVE  OffByOne(1 + Larger(a, b), a1, b)
<1>1. a <= b + 1 /\ b <= a + 1 /\ a1 <= a + 1 /\ a <= a1 + 1
  BY DEF Even
<1>2. CASE a > b
  <2>1. a = b + 1 /\ Larger(a, b) = a
    BY <1>1, <1>2 DEF Larger
  <2>2. CASE a1 = a + 1
    <3>1. a1 = b + 2 /\ 1 + Larger(a, b) = a1
      BY <2>1, <2>2
    <3> QED
      BY <3>1 DEF OffByOne
  <2>3. CASE a1 # a + 1
    <3>1. a1 \in {b, b + 1} /\ Larger(a1, b) = a1
      BY <1>1, <2>1, <2>3 DEF Larger
    <3> QED
      BY <2>1, <3>1 DEF OffByOne, Even
  <2> QED
    BY <2>2, <2>3
<1>3. CASE ~(a > b)
  <2>1. b \in {a, a + 1} /\ Larger(a, b) = b
    BY <1>1, <1>3 DEF Larger
  <2>2. CASE a1 + 2 = b
    <3>1. 1 + Larger(a, b) = b + 1
      BY <2>1
    <3> QED
      BY <2>2, <3>1 DEF OffByOne
  <2>3. CASE a1 + 2 # b
    <3>1. a1 <= b + 1 /\ b <= a1 + 1
      BY <1>1, <2>1, <2>3
    <3>2. Larger(a1, b) \in {b, b + 1}
      BY <3>1 DEF Larger
    <3> QED
      BY <2>1, <3>1, <3>2 DEF OffByOne, Even
  <2> QED
    BY <2>2, <2>3
<1> QED
  BY <1>2, <1>3

LEMMA MeasuredDepth ==
    ASSUME NEW l, NEW r, NEW S, NEW D, NEW E, NEW C, NEW X, NEW f, Measured(l, r, S, D, E, C, X, f),
           NEW c \in C \cup {NULL}, f \notin S[c]
    PROVE  DepthIn(D, c) = E[c]
  BY DEF Measured, DepthIn

\* The measures of a node of which both sides are known.
LEMMA FocusMeasured ==
    ASSUME NEW t, NEW S, NEW pos, NEW E, NEW C, NEW v \in C, Focused(t, S, pos, E, C, v),
           NEW d, d = Measure(t, v)
    PROVE  /\ Focused(d, S, pos, E, C, v) /\ SamePointers(d, t)
           /\ E[d.left[v]] \in Nat /\ E[d.right[v]] \in Nat
           /\ d.depth[v] = 1 + Larger(E[d.left[v]], E[d.right[v]])
           /\ getBalance(d, v) = E[d.left[v]] - E[d.right[v]]
           /\ \A c \in {d.left[v], d.right[v]} : c # NULL =>
                /\ E[d.left[c]] \in Nat /\ E[d.right[c]] \in Nat
                /\ getBalance(d, c) = E[d.left[c]] - E[d.right[c]]
<1>1. Shaped(t, S, pos) /\ S[t.root] = C /\ ~t.fault /\ v \in S[t.root] /\ v # NULL
  <2>1. S[t.root] \in SUBSET Keys
    BY InTreeOrNull DEF Focused
  <2> QED
    BY <2>1, NoKey DEF Focused
<1>2. /\ Nested(t.left, t.right, S, pos) /\ Linked(t.left, t.right, t.parent) /\ C \in SUBSET Keys
      /\ t.left[v] \in C \cup {NULL} /\ t.right[v] \in C \cup {NULL} /\ t \in Trees
  BY <1>1, InTreeOrNull DEF Shaped
<1>3. v \in Keys /\ v \notin S[t.left[v]] /\ v \notin S[t.right[v]]
  BY <1>2, Sides
<1>4. At(t.left, t.right, S, t.depth, E, C, v)
  BY <1>1 DEF Focused
<1>5. Measured(t.left, t.right, S, t.depth, E, C, {v}, v)
  BY <1>4 DEF At
<1>6. /\ d \in Trees /\ SamePointers(d, t)
      /\ d.depth = [t.depth EXCEPT ![v] = 1 + Larger(depth(t, t.left[v]), depth(t, t.right[v]))]
  BY <1>2, <1>3, MeasureIs
<1>7. depth(t, t.left[v]) = E[t.left[v]] /\ depth(t, t.right[v]) = E[t.right[v]]
  <2>1. DepthIn(t.depth, t.left[v]) = E[t.left[v]] /\ DepthIn(t.depth, t.right[v]) = E[t.right[v]]
    BY <1>2, <1>3, <1>5, MeasuredDepth
  <2> QED
    BY <2>1 DEF DepthIn, depth
<1>8. /\ d.depth[v] = 1 + Larger(E[t.left[v]], E[t.right[v]])
      /\ \A k \in Keys : k # v => d.depth[k] = t.depth[k]
  BY <1>2, <1>3, <1>6, <1>7 DEF Trees
<1>9. Measured(t.left, t.right, S, d.depth, E, C, {v}, v)
  <2>1. ASSUME NEW n \in C, v \notin S[n]
        PROVE  d.depth[n] = E[n]
    <3>1. n # v /\ n \in Keys
      BY <1>2, <1>3, <2>1, Sides
    <3> QED
      BY <1>5, <1>8, <2>1, <3>1 DEF Measured
  <2> QED
    BY <1>5, <2>1 DEF Measured
<1>10. At(t.left, t.right, S, d.depth, E, C, v)
  BY <1>4, <1>9 DEF At
<1>11. Focused(d, S, pos, E, C, v)
  BY <1>1, <1>2, <1>6, <1>10 DEF Focused, Shaped, SamePointers
<1>12. ASSUME NEW c \in C \cup {NULL}, v \notin S[c]
       PROVE  depth(d, c) = E[c]
  <2>1. DepthIn(d.depth, c) = E[c]
    BY <1>9, <1>12, MeasuredDepth
  <2> QED
    BY <2>1 DEF DepthIn, depth
<1>13. E \in [Pointers -> Nat]
  BY <1>5 DEF Measured
<1>14. getBalance(d, v) = E[t.left[v]] - E[t.right[v]] /\ E[t.left[v]] \in Nat /\ E[t.right[v]] \in Nat
  <2>1. depth(d, t.left[v]) = E[t.left[v]] /\ depth(d, t.right[v]) = E[t.right[v]]
    BY <1>2, <1>3, <1>12
  <2>2. t.left[v] \in Pointers /\ t.right[v] \in Pointers
    BY <1>2, NoKey
  <2> QED
    BY <1>1, <1>6, <1>13, <2>1, <2>2 DEF getBalance, SamePointers
<1>15. ASSUME NEW c \in {t.left[v], t.right[v]}, c # NULL
       PROVE  /\ E[t.left[c]] \in Nat /\ E[t.right[c]] \in Nat
              /\ getBalance(d, c) = E[t.left[c]] - E[t.right[c]]
  <2>1. c \in C /\ v \notin S[c] /\ c \in S[t.root] /\ c \in Keys
    BY <1>1, <1>2, <1>3, <1>15
  <2>2. t.left[c] \in C \cup {NULL} /\ t.right[c] \in C \cup {NULL}
    BY <1>1, <2>1, InTreeOrNull
  <2>3. v \notin S[t.left[c]] /\ v \notin S[t.right[c]]
    BY <1>2, <2>1, Sides
  <2>4. depth(d, t.left[c]) = E[t.left[c]] /\ depth(d, t.right[c]) = E[t.right[c]]
    BY <1>12, <2>2, <2>3
  <2>5. t.left[c] \in Pointers /\ t.right[c] \in Pointers
    BY <1>2, <2>2, NoKey
  <2> QED
    BY <1>6, <1>13, <1>15, <2>4, <2>5 DEF getBalance, SamePointers
<1> QED
  BY <1>6, <1>8, <1>11, <1>14, <1>15 DEF SamePointers

\* Nothing to rotate: the loop goes on at the parent.
LEMMA Passed ==
    ASSUME NEW d, NEW S, NEW pos, NEW E, NEW C, NEW v \in C, Focused(d, S, pos, E, C, v),
           d.depth[v] = 1 + Larger(E[d.left[v]], E[d.right[v]]),
           Even(E[d.left[v]], E[d.right[v]])
    PROVE  \E E1 : Focused(d, S, pos, E1, C, d.parent[v])
<1>1. Shaped(d, S, pos) /\ S[d.root] = C /\ ~d.fault /\ v \in S[d.root] /\ v # NULL
  <2>1. S[d.root] \in SUBSET Keys
    BY InTreeOrNull DEF Focused
  <2> QED
    BY <2>1, NoKey DEF Focused
<1>2. PICK l, r, p, D, q : l = d.left /\ r = d.right /\ p = d.parent /\ D = d.depth /\ q = p[v]
  OBVIOUS
<1>3. /\ Nested(l, r, S, pos) /\ Linked(l, r, p) /\ C \in SUBSET Keys
      /\ l[v] \in C \cup {NULL} /\ r[v] \in C \cup {NULL} /\ q \in C \cup {NULL}
  BY <1>1, <1>2, InTreeOrNull
<1>4. /\ v \in Keys /\ v \in S[v] /\ l[v] # v /\ r[v] # v
      /\ l[v] \in Pointers /\ r[v] \in Pointers
  BY <1>1, <1>3, Sides
<1>5. Measured(l, r, S, D, E, C, {v}, v) /\ OffByOne(E[v], E[l[v]], E[r[v]])
  BY <1>1, <1>2 DEF Focused, At
<1>6. E \in [Pointers -> Nat] /\ E[NULL] = 0 /\ v \in Pointers
  BY <1>4, <1>5, NoKey DEF Measured
<1>7. PICK a, b, e, h : /\ a = E[l[v]] /\ b = E[r[v]] /\ e = E[v] /\ h = 1 + Larger(a, b)
                        /\ a \in Nat /\ b \in Nat /\ e \in Nat /\ h \in Nat
  <2>1. E[l[v]] \in Nat /\ E[r[v]] \in Nat /\ E[v] \in Nat
    BY <1>4, <1>6
  <2>2. Larger(E[l[v]], E[r[v]]) \in Nat
    BY <2>1, LargerIs
  <2> QED
    BY <2>1, <2>2
<1>8. Even(a, b) /\ Even(h, e) /\ D[v] = h
  <2>1. Even(a, b) /\ OffByOne(e, a, b) /\ D[v] = h
    BY <1>2, <1>5, <1>7
  <2>2. a # b + 2 /\ b # a + 2
    BY <1>7, <2>1 DEF Even
  <2> QED
    BY <1>7, <2>1, <2>2 DEF OffByOne
<1>9. PICK E1 : E1 = [E EXCEPT ![v] = h]
  OBVIOUS
<1>10. /\ E1 \in [Pointers -> Nat] /\ E1[NULL] = 0 /\ E1[v] = h
       /\ \A k \in Pointers : k # v => E1[k] = E[k]
  BY <1>1, <1>6, <1>7, <1>9
<1>11. ASSUME NEW n \in C, n # v
       PROVE  /\ n \in Keys /\ l[n] \in Pointers /\ r[n] \in Pointers /\ Grown(l, r, E, n)
              /\ (l[n] = v => q = n) /\ (r[n] = v => q = n) /\ E1[n] = E[n]
  <2>1. n \in Keys /\ l[n] \in Pointers /\ r[n] \in Pointers /\ n \in Pointers
    BY <1>3, NoKey DEF Nested
  <2>2. (l[n] = v => q = n) /\ (r[n] = v => q = n)
    BY <1>1, <1>2, <1>3, <2>1 DEF Linked
  <2>3. Grown(l, r, E, n)
    BY <1>5, <1>11 DEF Measured
  <2> QED
    BY <1>10, <1>11, <2>1, <2>2, <2>3
<1>12. ASSUME NEW n \in C, n # q
       PROVE  Grown(l, r, E1, n)
  <2>1. CASE n = v
    <3>1. E1[l[v]] = a /\ E1[r[v]] = b
      BY <1>4, <1>7, <1>10
    <3> QED
      BY <1>7, <1>8, <1>10, <2>1, <3>1 DEF Grown
  <2>2. CASE n # v
    <3>1. E1[l[n]] = E[l[n]] /\ E1[r[n]] = E[r[n]] /\ E1[n] = E[n]
      BY <1>10, <1>11, <1>12, <2>2
    <3> QED
      BY <1>11, <2>2, <3>1 DEF Grown
  <2> QED
    BY <2>1, <2>2
<1>13. ASSUME NEW n \in C, q \notin S[n]
       PROVE  D[n] = E1[n]
  <2>1. CASE n = v
    BY <1>8, <1>10, <2>1
  <2>2. CASE n # v
    <3>1. v \notin S[n]
      <4>1. n \in Keys
        BY <1>3
      <4>2. v \in S[n] => p[v] \in S[n]
        BY <1>3, <2>2, <4>1, ParentsBelow
      <4> QED
        BY <1>2, <1>13, <4>2
    <3>2. D[n] = E[n]
      BY <1>5, <3>1 DEF Measured
    <3> QED
      BY <1>11, <2>2, <3>2
  <2> QED
    BY <2>1, <2>2
<1>14. ASSUME q = NULL
       PROVE  Measured(l, r, S, D, E1, C, {}, NULL)
  <2>1. NULL \notin C
    BY <1>3, NoKey
  <2>2. \A n \in C : n # q
    BY <1>14, <2>1
  <2>3. q \notin Keys
    BY <1>14, NoKey
  <2>4. \A n \in C : q \notin S[n]
    BY <1>3, <2>3, Sides
  <2>5. \A n \in C \ {} : Grown(l, r, E1, n)
    BY <1>12, <2>2
  <2>6. \A n \in C : D[n] = E1[n]
    BY <1>13, <2>4
  <2> QED
    BY <1>10, <2>5, <2>6 DEF Measured
<1>15. ASSUME q # NULL
       PROVE  q \in C /\ At(l, r, S, D, E1, C, q)
  <2>1. q \in C /\ q \in Keys /\ q # v /\ ((l[q] = v /\ r[q] # v) \/ (r[q] = v /\ l[q] # v))
    BY <1>2, <1>3, <1>4, <1>15, AtParent
  <2>2. Measured(l, r, S, D, E1, C, {q}, q)
    BY <1>10, <1>12, <1>13 DEF Measured
  <2>3. /\ Grown(l, r, E, q) /\ E1[q] = E[q] /\ l[q] \in Pointers /\ r[q] \in Pointers
    BY <1>11, <2>1
  <2>4. CASE l[q] = v /\ r[q] # v
    <3>1. PICK c \in Nat : c = E[r[q]]
      BY <1>6, <2>3
    <3>2. E1[l[q]] = h /\ E1[r[q]] = c /\ E1[q] = 1 + Larger(e, c) /\ Even(e, c)
      BY <1>7, <1>10, <2>3, <2>4, <3>1 DEF Grown
    <3>3. OffByOne(1 + Larger(e, c), h, c)
      BY <1>7, <1>8, <3>2, SideShifted
    <3> QED
      BY <2>1, <2>2, <3>2, <3>3 DEF At
  <2>5. CASE r[q] = v /\ l[q] # v
    <3>1. PICK c \in Nat : c = E[l[q]]
      BY <1>6, <2>3
    <3>2. E1[r[q]] = h /\ E1[l[q]] = c /\ E1[q] = 1 + Larger(c, e) /\ Even(c, e)
      BY <1>7, <1>10, <2>3, <2>5, <3>1 DEF Grown
    <3>3. Larger(c, e) = Larger(e, c) /\ Even(e, c)
      BY <1>7, <3>2, LargerSwaps DEF Even
    <3>4. OffByOne(1 + Larger(e, c), h, c)
      BY <1>7, <1>8, <3>3, SideShifted
    <3>5. Larger(c, h) = Larger(h, c) /\ (Even(h, c) <=> Even(c, h))
      BY <1>7, LargerSwaps DEF Even
    <3>6. OffByOne(1 + Larger(e, c), c, h)
      BY <3>4, <3>5 DEF OffByOne
    <3> QED
      BY <2>1, <2>2, <3>2, <3>3, <3>6 DEF At
  <2> QED
    BY <2>1, <2>4, <2>5
<1> QED
  BY <1>1, <1>2, <1>14, <1>15 DEF Focused

LEMMA FocusedSame ==
    ASSUME NEW d, NEW S, NEW pos, NEW E, NEW C, NEW f, Focused(d, S, pos, E, C, f),
           NEW j, SameNodes(j, d)
    PROVE  Focused(j, S, pos, E, C, f)
  BY DEF Focused, SameNodes, Shaped

\* One round of the loop: nothing to rotate, and on to the parent, or a rotation,
\* and on to the node that is on top now.
RoundDone(u, t, S, pos, E, C, v, T, E1) ==
    /\ Focused(u, T, pos, E1, C, u.parent[v])
    /\ Even(E[t.left[v]], E[t.right[v]]) => T = S /\ u.parent[v] = t.parent[v]
    /\ ~Even(E[t.left[v]], E[t.right[v]]) =>
         /\ u.parent[v] \in C /\ T[u.parent[v]] = S[v]
         /\ Even(E1[u.left[u.parent[v]]], E1[u.right[u.parent[v]]])

LEMMA BalanceRound ==
    ASSUME NEW t, NEW S, NEW pos, NEW E, NEW C, NEW v \in C, Focused(t, S, pos, E, C, v),
           NEW u, u = BalanceNode(t, v), ~u.misjudged
    PROVE  ~t.misjudged /\ \E T, E1 : RoundDone(u, t, S, pos, E, C, v, T, E1)
<1>1. Shaped(t, S, pos) /\ S[t.root] = C /\ TreeOf(t, C, pos)
  BY DEF Focused, TreeOf
<1>2. PICK d : d = Measure(t, v)
  OBVIOUS
<1>3. ~t.misjudged /\ \E j : Decides(u, d, j, v) /\ SameNodes(j, d)
  BY <1>1, <1>2, NotMisjudged
<1>4. PICK j : Decides(u, d, j, v) /\ SameNodes(j, d)
  BY <1>3
<1>5. /\ Focused(d, S, pos, E, C, v) /\ SamePointers(d, t)
      /\ E[d.left[v]] \in Nat /\ E[d.right[v]] \in Nat
      /\ d.depth[v] = 1 + Larger(E[d.left[v]], E[d.right[v]])
      /\ getBalance(d, v) = E[d.left[v]] - E[d.right[v]]
      /\ \A c \in {d.left[v], d.right[v]} : c # NULL =>
           /\ E[d.left[c]] \in Nat /\ E[d.right[c]] \in Nat
           /\ getBalance(d, c) = E[d.left[c]] - E[d.right[c]]
  BY <1>2, FocusMeasured
<1>6. Focused(j, S, pos, E, C, v) /\ j.left = d.left /\ j.right = d.right
  BY <1>4, <1>5, FocusedSame DEF SameNodes
<1>7. E[NULL] = 0 /\ v # NULL
  <2>1. Shaped(d, S, pos) /\ v \in S[d.root]
    BY <1>5 DEF Focused
  <2>2. v # NULL
    BY <2>1, InTreeOrNull, NoKey
  <2> QED
    BY <1>5, <2>2 DEF Focused, At, Measured
<1>8. d.left = t.left /\ d.right = t.right /\ d.parent = t.parent
  BY <1>5 DEF SamePointers
<1>9. PICK a, b \in Nat : a = E[d.left[v]] /\ b = E[d.right[v]]
  BY <1>5
<1>10. ASSUME Even(a, b)
       PROVE  \E T, E1 : RoundDone(u, t, S, pos, E, C, v, T, E1)
  <2>1. u = d
    <3>1. ~(getBalance(d, v) > 1) /\ ~(getBalance(d, v) < -1)
      BY <1>5, <1>9, <1>10 DEF Even
    <3> QED
      BY <1>4, <3>1 DEF Decides
  <2>2. PICK E1 : Focused(d, S, pos, E1, C, d.parent[v])
    BY <1>5, <1>9, <1>10, Passed
  <2> QED
    BY <1>8, <1>9, <1>10, <2>1, <2>2 DEF RoundDone
<1>11. ASSUME NEW top, NEW s, Topped(u, s, S, pos, C, v, top), ~Even(a, b)
       PROVE  \E T, E1 : RoundDone(u, t, S, pos, E, C, v, T, E1)
  <2>1. /\ \E T, E1 : /\ Focused(u, T, pos, E1, C, top) /\ T[top] = S[v]
                      /\ Even(E1[u.left[top]], E1[u.right[top]])
        /\ top \in C /\ u.parent[v] = top
    BY <1>11 DEF Topped
  <2>2. PICK T, E1 : /\ Focused(u, T, pos, E1, C, top) /\ T[top] = S[v]
                     /\ Even(E1[u.left[top]], E1[u.right[top]])
    BY <2>1
  <2> QED
    BY <1>8, <1>9, <1>11, <2>1, <2>2 DEF RoundDone
<1>12. ASSUME a > b + 1
       PROVE  \E top, s : Topped(u, s, S, pos, C, v, top)
  <2>1. PICK x : x = d.left[v]
    OBVIOUS
  <2>2. x # NULL /\ getBalance(d, v) > 1
    BY <1>5, <1>7, <1>9, <1>12, <2>1
  <2>3. /\ E[d.left[x]] \in Nat /\ E[d.right[x]] \in Nat
        /\ getBalance(d, x) = E[d.left[x]] - E[d.right[x]]
    BY <1>5, <2>1, <2>2
  <2>4. CASE E[d.left[x]] >= E[d.right[x]]
    <3>1. getBalance(d, x) >= 0
      BY <2>3, <2>4
    <3>2. u = rotateRight(j, v)
      BY <1>4, <2>1, <2>2, <3>1 DEF Decides
    <3>3. Topped(u, j, S, pos, C, v, j.left[v])
      BY <1>6, <1>9, <1>12, <2>1, <2>2, <2>4, <3>2, RightTopped
    <3> QED
      BY <3>3
  <2>5. CASE ~(E[d.left[x]] >= E[d.right[x]])
    <3>1. getBalance(d, x) < 0 /\ E[d.left[x]] < E[d.right[x]]
      BY <2>3, <2>5
    <3>2. u = rotateRight(rotateLeft(j, x), v)
      BY <1>4, <2>1, <2>2, <3>1 DEF Decides
    <3>3. PICK w, y : w = j.right[x] /\ y = rotateLeft(j, x)
      OBVIOUS
    <3>4. Topped(u, j, S, pos, C, v, w)
      BY <1>6, <1>9, <1>12, <2>1, <2>2, <3>1, <3>2, <3>3, RightTwice
    <3> QED
      BY <3>4
  <2> QED
    BY <2>4, <2>5
<1>13. ASSUME b > a + 1
       PROVE  \E top, s : Topped(u, s, S, pos, C, v, top)
  <2>1. PICK x : x = d.right[v]
    OBVIOUS
  <2>2. x # NULL /\ getBalance(d, v) < -1
    BY <1>5, <1>7, <1>9, <1>13, <2>1
  <2>3. /\ E[d.left[x]] \in Nat /\ E[d.right[x]] \in Nat
        /\ getBalance(d, x) = E[d.left[x]] - E[d.right[x]]
    BY <1>5, <2>1, <2>2
  <2>4. CASE E[d.right[x]] >= E[d.left[x]]
    <3>1. getBalance(d, x) <= 0
      BY <2>3, <2>4
    <3>2. u = rotateLeft(d, v)
      BY <1>4, <2>1, <2>2, <3>1 DEF Decides
    <3>3. Topped(u, d, S, pos, C, v, d.right[v])
      BY <1>5, <1>9, <1>13, <2>1, <2>2, <2>4, <3>2, LeftTopped
    <3> QED
      BY <3>3
  <2>5. CASE ~(E[d.right[x]] >= E[d.left[x]])
    <3>1. getBalance(d, x) > 0 /\ E[d.right[x]] < E[d.left[x]]
      BY <2>3, <2>5
    <3>2. u = rotateLeft(rotateRight(d, x), v)
      BY <1>4, <2>1, <2>2, <3>1 DEF Decides
    <3>3. PICK w, y : w = d.left[x] /\ y = rotateRight(d, x)
      OBVIOUS
    <3>4. Topped(u, d, S, pos, C, v, w)
      BY <1>5, <1>9, <1>13, <2>1, <2>2, <3>1, <3>2, <3>3, LeftTwice
    <3> QED
      BY <3>4
  <2> QED
    BY <2>4, <2>5
<1>14. Even(a, b) \/ (~Even(a, b) /\ (a > b + 1 \/ b > a + 1))
  BY <1>9 DEF Even
<1> QED
  BY <1>3, <1>10, <1>11, <1>12, <1>13, <1>14

-----------------------------------------------------------------------------
(* The loop ends.  It is at a node once more when it has rotated there, and  *)
(* then the node is balanced.                                                *)

Paced(i, S, l, r, E, f) ==
    f # NULL => i + (IF Even(E[l[f]], E[r[f]]) THEN 1 ELSE 2) <= 2 * Cardinality(S[f])

LEMMA PacedRound ==
    ASSUME NEW t, NEW S, NEW pos, NEW E, NEW C, NEW v \in C, Focused(t, S, pos, E, C, v),
           NEW i \in Nat, Paced(i, S, t.left, t.right, E, v),
           NEW u, NEW T, NEW E1, RoundDone(u, t, S, pos, E, C, v, T, E1)
    PROVE  Paced(i + 1, T, u.left, u.right, E1, u.parent[v])
<1>1. Shaped(t, S, pos) /\ v \in S[t.root] /\ C = S[t.root]
  BY DEF Focused
<1>2. /\ Nested(t.left, t.right, S, pos) /\ Linked(t.left, t.right, t.parent)
      /\ v \in Keys /\ v \in Pointers /\ v # NULL /\ C \in SUBSET Keys
  BY <1>1, InTreeOrNull, NoKey
<1>3. Cardinality(S[v]) \in Nat
  BY <1>2, Sizes
<1>4. PICK q : q = u.parent[v]
  OBVIOUS
<1> SUFFICES ASSUME q # NULL
             PROVE  i + 1 + (IF Even(E1[u.left[q]], E1[u.right[q]]) THEN 1 ELSE 2)
                      <= 2 * Cardinality(T[q])
  BY <1>4 DEF Paced
<1>5. CASE Even(E[t.left[v]], E[t.right[v]])
  <2>1. i + 1 <= 2 * Cardinality(S[v])
    BY <1>2, <1>5 DEF Paced
  <2>2. T = S /\ q = t.parent[v]
    BY <1>4, <1>5 DEF RoundDone
  <2>3. q \in Keys /\ q \in Pointers /\ Cardinality(S[v]) < Cardinality(S[q])
    BY <1>2, <2>2, AtParent, NoKey
  <2>4. Cardinality(S[q]) \in Nat
    BY <1>2, <2>3, Sizes
  <2> QED
    BY <1>3, <2>1, <2>2, <2>3, <2>4
<1>6. CASE ~Even(E[t.left[v]], E[t.right[v]])
  <2>1. i + 2 <= 2 * Cardinality(S[v])
    BY <1>2, <1>6 DEF Paced
  <2>2. T[q] = S[v] /\ Even(E1[u.left[q]], E1[u.right[q]])
    BY <1>4, <1>6 DEF RoundDone
  <2> QED
    BY <1>3, <2>1, <2>2
<1> QED
  BY <1>5, <1>6

\* The state of the loop after i rounds.
Climbing(s, t, pos, C, i) ==
    ~s.tree.misjudged =>
        /\ ~t.misjudged
        /\ \E S, E : /\ Focused(s.tree, S, pos, E, C, s.node)
                     /\ Paced(i, S, s.tree.left, s.tree.right, E, s.node)

LEMMA ClimbingStep ==
    ASSUME NEW s, NEW t, NEW pos, NEW C, NEW i \in Nat, Climbing(s, t, pos, C, i),
           TreeOf(s.tree, C, pos), s.node \in C \cup {NULL}
    PROVE  Climbing(BalanceStep(s), t, pos, C, i + 1)
<1>1. PICK w : w = BalanceStep(s)
  OBVIOUS
<1> SUFFICES ASSUME ~w.tree.misjudged
             PROVE  /\ ~t.misjudged
                    /\ \E S, E : /\ Focused(w.tree, S, pos, E, C, w.node)
                                 /\ Paced(i + 1, S, w.tree.left, w.tree.right, E, w.node)
  BY <1>1 DEF Climbing
<1>2. CASE s.node = NULL
  <2>1. w = s
    BY <1>1, <1>2 DEF BalanceStep
  <2> QED
    BY <1>2, <2>1 DEF Climbing, Paced
<1>3. CASE s.node # NULL /\ s.tree.fault
  <2>1. w = s
    BY <1>1, <1>3 DEF BalanceStep
  <2> QED
    BY <1>3, <2>1 DEF Climbing, Focused
<1>4. CASE s.node # NULL /\ ~s.tree.fault
  <2>1. PICK b, v : b = BalanceNode(s.tree, s.node) /\ v = s.node
    OBVIOUS
  <2>2. w.tree = b /\ w.node = b.parent[v] /\ v \in C
    BY <1>1, <1>4, <2>1 DEF BalanceStep
  <2>3. ~b.misjudged
    BY <2>2
  <2>4. ~s.tree.misjudged
    BY <2>1, <2>2, <2>3, NotMisjudged
  <2>5. ~t.misjudged
    BY <2>4 DEF Climbing
  <2>6. PICK S, E : /\ Focused(s.tree, S, pos, E, C, v)
                    /\ Paced(i, S, s.tree.left, s.tree.right, E, v)
    BY <2>1, <2>4 DEF Climbing
  <2>7. \E T, E1 : RoundDone(b, s.tree, S, pos, E, C, v, T, E1)
    BY <2>1, <2>2, <2>3, <2>6, BalanceRound
  <2>8. PICK T, E1 : RoundDone(b, s.tree, S, pos, E, C, v, T, E1)
    BY <2>7
  <2>9. Paced(i + 1, T, b.left, b.right, E1, b.parent[v])
    BY <2>2, <2>6, <2>8, PacedRound
  <2>10. Focused(b, T, pos, E1, C, b.parent[v])
    BY <2>8 DEF RoundDone
  <2> QED
    BY <2>2, <2>5, <2>9, <2>10
<1> QED
  BY <1>2, <1>3, <1>4

\* What the loop leaves is balanced.
LEMMA BalancingBalances ==
    ASSUME NEW t, NEW S, NEW pos, NEW E, NEW C, NEW start, Focused(t, S, pos, E, C, start),
           NEW u, u = Balancing(t, start), ~u.misjudged
    PROVE  ~t.misjudged /\ ~u.fault /\ \E T, E1 : Focused(u, T, pos, E1, C, NULL)
<1>1. Shaped(t, S, pos) /\ S[t.root] = C /\ TreeOf(t, C, pos) /\ start \in C \cup {NULL}
  BY DEF Focused, TreeOf
<1>2. t \in Trees /\ C \subseteq Keys /\ start \in Pointers
  BY <1>1, TreeOfKeys, NoKey
<1> DEFINE R == {s \in [tree : Trees, node : Pointers] :
                    TreeOf(s.tree, C, pos) /\ s.node \in C \cup {NULL}}
<1>3. [tree |-> t, node |-> start] \in R
  BY <1>1, <1>2
<1>4. ASSUME NEW s \in R
      PROVE  BalanceStep(s) \in R
  <2>1. CASE s.node = NULL \/ s.tree.fault
    BY <2>1 DEF BalanceStep
  <2>2. CASE ~(s.node = NULL \/ s.tree.fault)
    <3>1. PICK b : b = BalanceNode(s.tree, s.node)
      OBVIOUS
    <3>2. TreeOf(s.tree, C, pos) /\ s.node \in C
      BY <2>2
    <3>3. TreeOf(b, C, pos)
      BY <3>1, <3>2, BalanceNodeKeeps DEF Reshaped
    <3>4. b \in Trees
      BY <3>3, TreeOfKeys
    <3>5. b.parent[s.node] \in C \cup {NULL}
      BY <3>2, <3>3, InTree DEF TreeOf
    <3>6. b.parent[s.node] \in Pointers
      BY <1>2, <3>5, NoKey
    <3>7. BalanceStep(s) = [tree |-> b, node |-> b.parent[s.node]]
      BY <2>2, <3>1 DEF BalanceStep
    <3> QED
      BY <3>3, <3>4, <3>5, <3>6, <3>7
  <2> QED
    BY <2>1, <2>2
<1>5. \A s \in R : TreeOf(s.tree, C, pos) /\ s.node \in C \cup {NULL}
  OBVIOUS
<1> HIDE DEF R
<1>6. PICK h \in [0..Rounds -> R] : /\ h[0] = [tree |-> t, node |-> start]
                                    /\ \A i \in 1..Rounds : h[i] = BalanceStep(h[i - 1])
                                    /\ u = h[Rounds].tree
  BY <1>3, <1>4, BalancingIs
<1> DEFINE Q == {k \in Nat : k \in 0..Rounds => Climbing(h[k], t, pos, C, k)}
<1>7. ASSUME NEW k \in Nat, \A m \in 0 .. (k - 1) : m \in Q
      PROVE  k \in Q
  <2>1. CASE k = 0
    <3>1. /\ Focused(h[0].tree, S, pos, E, C, h[0].node)
          /\ h[0].tree = t /\ h[0].node = start
      BY <1>6
    <3>2. Paced(0, S, t.left, t.right, E, start)
      <4> SUFFICES ASSUME start # NULL PROVE 2 <= 2 * Cardinality(S[start])
        <5>1. ASSUME NEW c \in Nat, 2 <= 2 * c
              PROVE  0 + (IF Even(E[t.left[start]], E[t.right[start]]) THEN 1 ELSE 2) <= 2 * c
          BY <5>1
        <5>2. Cardinality(S[start]) \in Nat
          BY <1>1, <1>2, Sizes DEF Shaped
        <5> QED
          BY <5>1, <5>2 DEF Paced
      <4>1. start \in Keys /\ start \in S[start] /\ start \in Pointers
        BY <1>1, <1>2, NoKey, Sides DEF Shaped
      <4>2. {} \in SUBSET S[start] /\ {} # S[start]
        BY <4>1
      <4>3. Cardinality({}) < Cardinality(S[start]) /\ Cardinality(S[start]) \in Nat
        BY <1>1, <4>1, <4>2, Sizes DEF Shaped
      <4>4. Cardinality({}) = 0
        BY FS_EmptySet
      <4> QED
        BY <4>3, <4>4
    <3>3. ~h[0].tree.misjudged => ~t.misjudged
      BY <3>1
    <3>4. Climbing(h[0], t, pos, C, 0)
      BY <3>1, <3>2, <3>3 DEF Climbing
    <3> QED
      BY <2>1, <3>4
  <2>2. CASE k # 0 /\ k \in 0..Rounds
    <3>1. k - 1 \in 0 .. (k - 1) /\ k - 1 \in 0..Rounds /\ k \in 1..Rounds /\ k - 1 \in Nat
          /\ (k - 1) + 1 = k
      BY <2>2, RoundsIs
    <3>2. Climbing(h[k - 1], t, pos, C, k - 1) /\ h[k - 1] \in R
      BY <1>7, <3>1
    <3>3. TreeOf(h[k - 1].tree, C, pos) /\ h[k - 1].node \in C \cup {NULL}
      BY <1>5, <3>2
    <3>4. PICK i, s : i = k - 1 /\ s = h[k - 1]
      OBVIOUS
    <3>5. Climbing(BalanceStep(s), t, pos, C, i + 1)
      BY <3>1, <3>2, <3>3, <3>4, ClimbingStep
    <3>6. h[k] = BalanceStep(s) /\ i + 1 = k
      BY <1>6, <3>1, <3>4
    <3>7. Climbing(h[k], t, pos, C, k)
      BY <3>5, <3>6
    <3> QED
      BY <3>7
  <2>3. CASE k \notin 0..Rounds
    BY <2>3
  <2> QED
    BY <2>1, <2>2, <2>3
<1> HIDE DEF Q
<1>8. Nat \subseteq Q
  BY <1>7, StrongInduction
<1>9. Climbing(h[Rounds], t, pos, C, Rounds)
  BY <1>8, RoundsIs DEF Q
<1>10. PICK T, E1, f : /\ Focused(u, T, pos, E1, C, f)
                       /\ Paced(Rounds, T, u.left, u.right, E1, f)
  BY <1>6, <1>9 DEF Climbing
<1>11. f = NULL
  <2> SUFFICES ASSUME f # NULL PROVE FALSE
    OBVIOUS
  <2>1. f \in C /\ f \in Pointers /\ Shaped(u, T, pos)
    BY <1>2, <1>10, NoKey DEF Focused
  <2>2. Cardinality(T[f]) \in Nat /\ Cardinality(T[f]) <= Cardinality(Keys) /\ Cardinality(Keys) \in Nat
    <3>1. Cardinality(T[f]) \in 0..Cardinality(Keys)
      BY <2>1, Sizes DEF Shaped
    <3>2. Cardinality(Keys) \in Nat
      BY KeysAreNumbers, FS_CardinalityType
    <3> QED
      BY <3>1, <3>2
  <2>3. Rounds + 1 <= 2 * Cardinality(T[f])
    BY <1>10, <2>2, RoundsIs DEF Paced
  <2> QED
    BY <2>2, <2>3 DEF Rounds
<1>12. ~t.misjudged
  BY <1>6, <1>9 DEF Climbing
<1> QED
  BY <1>10, <1>11, <1>12 DEF Focused

\* Every node is balanced, and stores its height.
Settled(t, C) ==
    \E E \in [Pointers -> Nat] :
        E[NULL] = 0 /\ \A n \in C : Grown(t.left, t.right, E, n) /\ t.depth[n] = E[n]

LEMMA FocusedSettled ==
    ASSUME NEW t, NEW S, NEW pos, NEW E, NEW C, Focused(t, S, pos, E, C, NULL)
    PROVE  Settled(t, C)
<1>1. /\ Shaped(t, S, pos) /\ S[t.root] = C
      /\ Measured(t.left, t.right, S, t.depth, E, C, {}, NULL)
  BY DEF Focused
<1>2. \A n \in C : NULL \notin S[n]
  <2>1. t.root \in Pointers
    BY <1>1 DEF Shaped, Trees
  <2>2. C \subseteq Keys
    BY <1>1, <2>1 DEF Shaped, Nested
  <2>3. \A n \in C : S[n] \subseteq Keys
    BY <1>1, <2>2, Sides DEF Shaped
  <2> QED
    BY <2>3, NoKey
<1> QED
  BY <1>1, <1>2 DEF Measured, Settled

\* What is reached of a tree.
SameReached(u, t, C) ==
    /\ u.root = t.root /\ u.fault = t.fault /\ u.misjudged = t.misjudged
    /\ \A k \in C : u.left[k] = t.left[k] /\ u.right[k] = t.right[k] /\ u.depth[k] = t.depth[k]

LEMMA ReachedSame ==
    ASSUME NEW t, NEW C, NEW pos, TreeOf(t, C, pos), NEW u, u = Reachable(t)
    PROVE  SameReached(u, t, C)
<1>1. t \in Trees /\ C \subseteq Keys /\ Contents(t) = C
  BY TreeOfKeys, ContentsAre
<1>2. \A k \in C : t.depth[k] \in Nat
  BY <1>1 DEF Trees
<1>3. /\ u.root = t.root /\ u.fault = t.fault /\ u.misjudged = t.misjudged
      /\ \A k \in C : u.left[k] = t.left[k] /\ u.right[k] = t.right[k] /\ u.depth[k] = t.depth[k]
  BY <1>1, <1>2, ReachableIs
<1> QED
  BY <1>3 DEF SameReached

LEMMA SettledReachable ==
    ASSUME NEW t, NEW C, NEW pos, TreeOf(t, C, pos), Settled(t, C)
    PROVE  Settled(Reachable(t), C)
<1>1. PICK u : u = Reachable(t)
  OBVIOUS
<1>2. SameReached(u, t, C)
  BY <1>1, ReachedSame
<1>3. Settled(u, C)
  BY <1>2 DEF Settled, Grown, SameReached
<1> QED
  BY <1>1, <1>3

\* The flag stays once it is set.
LEMMA BalancingKeepsFlag ==
    ASSUME NEW t, NEW C, NEW pos, TreeOf(t, C, pos), NEW start \in C \cup {NULL},
           t.misjudged
    PROVE  Balancing(t, start).misjudged
<1>1. t \in Trees /\ C \subseteq Keys /\ start \in Pointers
  BY TreeOfKeys, NoKey
<1> DEFINE R == {s \in [tree : Trees, node : Pointers] :
                    TreeOf(s.tree, C, pos) /\ s.node \in C \cup {NULL} /\ s.tree.misjudged}
<1>2. [tree |-> t, node |-> start] \in R
  BY <1>1
<1>3. ASSUME NEW s \in R
      PROVE  BalanceStep(s) \in R
  <2>1. CASE s.node = NULL \/ s.tree.fault
    BY <2>1 DEF BalanceStep
  <2>2. CASE ~(s.node = NULL \/ s.tree.fault)
    <3>1. PICK b : b = BalanceNode(s.tree, s.node)
      OBVIOUS
    <3>2. TreeOf(s.tree, C, pos) /\ s.node \in C /\ s.tree.misjudged
      BY <2>2
    <3>3. TreeOf(b, C, pos)
      BY <3>1, <3>2, BalanceNodeKeeps DEF Reshaped
    <3>4. b \in Trees
      BY <3>3, TreeOfKeys
    <3>5. b.parent[s.node] \in C \cup {NULL}
      BY <3>2, <3>3, InTree DEF TreeOf
    <3>6. b.parent[s.node] \in Pointers
      BY <1>1, <3>5, NoKey
    <3>7. b.misjudged
      BY <3>1, <3>2, NotMisjudged
    <3>8. BalanceStep(s) = [tree |-> b, node |-> b.parent[s.node]]
      BY <2>2, <3>1 DEF BalanceStep
    <3> QED
      BY <3>3, <3>4, <3>5, <3>6, <3>7, <3>8
  <2> QED
    BY <2>1, <2>2
<1>4. \A s \in R : s.tree.misjudged
  OBVIOUS
<1> HIDE DEF R
<1>5. PICK h \in [0..Rounds -> R] : Balancing(t, start) = h[Rounds].tree
  BY <1>2, <1>3, BalancingIs
<1>6. h[Rounds] \in R
  BY RoundsIs
<1> QED
  BY <1>4, <1>5, <1>6

-----------------------------------------------------------------------------
(* Insertion *)

LEMMA HungFocused ==
    ASSUME NEW t, NEW C, Holds(t, C), ~t.fault, Settled(t, C), C # {}, NEW key \in Keys \ C,
           NEW p, p = Place(t, key), NEW u, Hung(t, u, key, p)
    PROVE  \E S, E : Focused(u, S, InKeyOrder, E, C \cup {key}, p)
<1>1. /\ p \in C /\ (key < p => t.left[p] = NULL) /\ (p < key => t.right[p] = NULL)
      /\ Holds(u, C \cup {key})
  BY HungHolds
<1>2. PICK S : Shaped(t, S, InKeyOrder) /\ S[t.root] = C
  BY DEF Holds, TreeOf
<1>3. PICK T : Shaped(u, T, InKeyOrder) /\ T[u.root] = C \cup {key}
  BY <1>1 DEF Holds, TreeOf
<1>4. PICK E \in [Pointers -> Nat] :
         E[NULL] = 0 /\ \A n \in C : Grown(t.left, t.right, E, n) /\ t.depth[n] = E[n]
  BY DEF Settled
<1>5. C \subseteq Keys /\ \A n \in C : t.left[n] \in C \cup {NULL} /\ t.right[n] \in C \cup {NULL}
  BY <1>2, InTreeOrNull
<1>6. /\ \A k \in Keys :
           /\ u.left[k] = IF k = p /\ key < p THEN key ELSE IF k = key THEN NULL ELSE t.left[k]
           /\ u.right[k] = IF k = p /\ p < key THEN key ELSE IF k = key THEN NULL ELSE t.right[k]
           /\ u.depth[k] = IF k = key THEN 1 ELSE t.depth[k]
      /\ u.fault = t.fault
  BY DEF Hung
<1>7. key # NULL /\ key \in Pointers /\ key # p /\ p \in Keys /\ (key < p \/ p < key)
      /\ key \in Nat /\ p \in Nat
  <2>1. key \in Keys /\ key \notin C /\ p \in C /\ p \in Keys /\ key # p
    BY <1>1, <1>5
  <2>2. key \in Nat /\ p \in Nat /\ key # NULL
    BY <2>1, KeysAreNumbers, NoKey
  <2>3. key < p \/ p < key
    BY <2>1, <2>2
  <2>4. key \in Pointers
    BY <2>1 DEF Pointers
  <2> QED
    BY <2>1, <2>2, <2>3, <2>4
<1>8. PICK G : G = [E EXCEPT ![key] = 1]
  OBVIOUS
<1>9. /\ G \in [Pointers -> Nat] /\ G[NULL] = 0 /\ G[key] = 1
      /\ \A k \in C \cup {NULL} : G[k] = E[k]
  BY <1>4, <1>5, <1>7, <1>8, NoKey
<1>10. ASSUME NEW n \in C \cup {key}
       PROVE  u.depth[n] = G[n]
  BY <1>4, <1>5, <1>6, <1>9
<1>11. ASSUME NEW n \in (C \cup {key}) \ {p}
       PROVE  Grown(u.left, u.right, G, n)
  <2>1. CASE n = key
    <3>1. u.left[n] = NULL /\ u.right[n] = NULL
      BY <1>6, <1>7, <2>1
    <3>2. Larger(0, 0) = 0 /\ Even(0, 0)
      BY DEF Larger, Even
    <3> QED
      BY <1>9, <2>1, <3>1, <3>2 DEF Grown
  <2>2. CASE n # key
    <3>1. n \in C /\ u.left[n] = t.left[n] /\ u.right[n] = t.right[n]
      BY <1>5, <1>6, <1>11, <2>2
    <3>2. G[n] = E[n] /\ G[t.left[n]] = E[t.left[n]] /\ G[t.right[n]] = E[t.right[n]]
      BY <1>5, <1>9, <3>1
    <3> QED
      BY <1>4, <3>1, <3>2 DEF Grown
  <2> QED
    BY <2>1, <2>2
<1>12. OffByOne(G[p], G[u.left[p]], G[u.right[p]])
  <2>1. PICK a, b \in Nat : a = E[t.left[p]] /\ b = E[t.right[p]]
    BY <1>1, <1>4, <1>5, NoKey
  <2>2. G[p] = 1 + Larger(a, b) /\ Even(a, b)
    BY <1>1, <1>4, <1>9, <2>1 DEF Grown
  <2>3. CASE key < p
    <3>1. u.left[p] = key /\ u.right[p] = t.right[p] /\ a = 0
      BY <1>1, <1>4, <1>6, <1>7, <2>1, <2>3
    <3>2. G[u.left[p]] = 1 /\ G[u.right[p]] = b
      BY <1>1, <1>5, <1>9, <2>1, <3>1
    <3>3. Even(1, a)
      BY <3>1 DEF Even
    <3>4. OffByOne(1 + Larger(a, b), 1, b)
      BY <2>1, <2>2, <3>3, SideShifted
    <3> QED
      BY <2>2, <3>2, <3>4
  <2>4. CASE p < key
    <3>1. u.right[p] = key /\ u.left[p] = t.left[p] /\ b = 0
      BY <1>1, <1>4, <1>6, <1>7, <2>1, <2>4
    <3>2. G[u.right[p]] = 1 /\ G[u.left[p]] = a
      BY <1>1, <1>5, <1>9, <2>1, <3>1
    <3>3. a \in {0, 1} /\ Larger(a, b) = a
      BY <2>1, <2>2, <3>1 DEF Even, Larger
    <3>4. Larger(a, 1) = 1 /\ Even(a, 1) /\ Even(1 + 1, 1 + a)
      BY <3>3 DEF Larger, Even
    <3>5. OffByOne(1 + a, a, 1)
      BY <3>4 DEF OffByOne
    <3> QED
      BY <2>2, <3>2, <3>3, <3>5
  <2> QED
    BY <1>7, <2>3, <2>4
<1>13. Measured(u.left, u.right, T, u.depth, G, C \cup {key}, {p}, p)
  BY <1>9, <1>10, <1>11 DEF Measured
<1>14. Focused(u, T, InKeyOrder, G, C \cup {key}, p)
  BY <1>1, <1>3, <1>6, <1>7, <1>12, <1>13, NoKey DEF Focused, At
<1> QED
  BY <1>14

LEMMA AttachSettles ==
    ASSUME NEW t, NEW C, Holds(t, C), ~t.misjudged => ~t.fault /\ Settled(t, C),
           NEW key \in Keys \ C, NEW u, u = Attach(t, key), ~u.misjudged
    PROVE  ~t.misjudged /\ ~u.fault /\ Settled(u, C \cup {key})
<1>1. t \in Trees /\ C \subseteq Keys /\ (t.root = NULL <=> C = {})
  BY TreeOfKeys DEF Holds
<1>2. CASE t.root = NULL
  <2>1. u = [NewNode(t, key) EXCEPT !.root = key] /\ C = {}
    BY <1>1, <1>2, AttachIs
  <2>2. PICK w : w = NewNode(t, key)
    OBVIOUS
  <2>3. Fresh(w, t, key)
    BY <1>1, <2>2, NewNodeIs
  <2>4. u = [w EXCEPT !.root = key]
    BY <2>1, <2>2
  <2>5. /\ u.fault = t.fault /\ u.misjudged = t.misjudged
        /\ u.left = w.left /\ u.right = w.right /\ u.depth = w.depth
    BY <2>3, <2>4 DEF Fresh, Trees
  <2>6. u.left[key] = NULL /\ u.right[key] = NULL /\ u.depth[key] = 1
    BY <2>3, <2>5 DEF Fresh
  <2>7. PICK E : E = [m \in Pointers |-> IF m = key THEN 1 ELSE 0]
    OBVIOUS
  <2>8. E \in [Pointers -> Nat] /\ E[NULL] = 0 /\ E[key] = 1
    BY <2>7, NoKey
  <2>9. Larger(0, 0) = 0 /\ Even(0, 0)
    BY DEF Larger, Even
  <2>10. Grown(u.left, u.right, E, key) /\ u.depth[key] = E[key]
    BY <2>6, <2>8, <2>9 DEF Grown
  <2>11. Settled(u, C \cup {key})
    BY <2>1, <2>8, <2>10 DEF Settled
  <2> QED
    BY <2>5, <2>11
<1>3. CASE t.root # NULL
  <2>1. PICK p, w : p = Place(t, key) /\ w = Unbalanced(t, key)
    OBVIOUS
  <2>2. u = Balancing(w, p) /\ C # {}
    BY <1>1, <1>3, <2>1, AttachIs
  <2>3. p \in C /\ p # key /\ p \in Keys
    <3>1. PICK S : Shaped(t, S, InKeyOrder) /\ S[t.root] = C
      BY DEF Holds, TreeOf
    <3>2. FoundFrom(t.left, t.right, S, t.root, key, p)
      BY <1>3, <2>1, <3>1, PlaceIs
    <3> QED
      BY <1>1, <3>1, <3>2 DEF FoundFrom
  <2>4. Hung(t, w, key, p)
    BY <1>1, <2>1, <2>3, UnbalancedIs
  <2>5. TreeOf(w, C \cup {key}, InKeyOrder)
    BY <2>1, <2>2, <2>4, HungHolds DEF Holds
  <2>6. ~w.misjudged
    BY <2>2, <2>3, <2>5, BalancingKeepsFlag
  <2>7. ~t.misjudged
    BY <2>4, <2>6 DEF Hung
  <2>8. \E S, E : Focused(w, S, InKeyOrder, E, C \cup {key}, p)
    BY <2>1, <2>2, <2>4, <2>7, HungFocused
  <2>9. ~u.fault /\ \E T, E1 : Focused(u, T, InKeyOrder, E1, C \cup {key}, NULL)
    BY <2>2, <2>8, BalancingBalances
  <2> QED
    BY <2>7, <2>9, FocusedSettled
<1> QED
  BY <1>2, <1>3

-----------------------------------------------------------------------------
(* Extraction *)

\* The node n is about to leave: the measures are those of the places, and only
\* the depths stored in the nodes above n may be off.
Leaving(t, S, pos, E, C, n) ==
    /\ Shaped(t, S, pos) /\ S[t.root] = C /\ n \in C
    /\ Measured(t.left, t.right, S, t.depth, E, C, {}, n)

LEMMA SettledLeaving ==
    ASSUME NEW t, NEW C, Holds(t, C), Settled(t, C), NEW n \in C
    PROVE  \E S, E : Leaving(t, S, InKeyOrder, E, C, n)
<1>1. PICK S : Shaped(t, S, InKeyOrder) /\ S[t.root] = C
  BY DEF Holds, TreeOf
<1>2. PICK E \in [Pointers -> Nat] :
         E[NULL] = 0 /\ \A k \in C : Grown(t.left, t.right, E, k) /\ t.depth[k] = E[k]
  BY DEF Settled
<1>3. Measured(t.left, t.right, S, t.depth, E, C, {}, n)
  BY <1>2 DEF Measured
<1> QED
  BY <1>1, <1>3 DEF Leaving

LEMMA SwapLeaving ==
    ASSUME NEW t, NEW S, NEW pos, NEW E, NEW C, NEW a, Leaving(t, S, pos, E, C, a),
           NEW b \in S[a], a # b,
           NEW u, u = swapPosition(t, a, b)
    PROVE  /\ \E T, q, E1 : Leaving(u, T, q, E1, C, a)
           /\ u.left[a] = Swapping(a, b)[t.left[b]] /\ u.right[a] = Swapping(a, b)[t.right[b]]
           /\ u.parent[a] = Swapping(a, b)[t.parent[b]]
           /\ u.fault = t.fault /\ u.misjudged = t.misjudged
<1>1. PICK f : f = Swapping(a, b)
  OBVIOUS
<1>2. /\ Shaped(t, S, pos) /\ S[t.root] = C /\ a \in S[t.root] /\ a \in C
      /\ Measured(t.left, t.right, S, t.depth, E, C, {}, a)
  BY DEF Leaving
<1>3. /\ u \in Trees /\ u.fault = t.fault /\ u.misjudged = t.misjudged /\ u.root = f[t.root]
      /\ Renamed(t.left, t.right, t.parent, u.left, u.right, u.parent, f)
      /\ \A k \in Keys : u.depth[k] = IF t.parent[b] = a \/ k \notin {a, b} THEN t.depth[k]
                                      ELSE IF k = a THEN t.depth[b] ELSE t.depth[a]
  BY <1>1, <1>2, SwapIs
<1>4. /\ t \in Trees /\ Nested(t.left, t.right, S, pos) /\ C \subseteq Keys
      /\ a \in Keys /\ t.root \in Keys /\ S[a] \subseteq C /\ t.root # NULL
  BY <1>2, InTree DEF Shaped
<1>5. b \in Keys /\ b \in C
  BY <1>4
<1>6. SwapsNames(f, a, b)
  BY <1>1, <1>4, <1>5, SwappingIs
<1>7. /\ Renaming(f) /\ f[a] = b /\ f[b] = a /\ \A k \in Pointers : k # a /\ k # b => f[k] = k
      /\ f[NULL] = NULL /\ f \in [Pointers -> Pointers]
      /\ \A k \in Keys : f[k] \in Keys /\ f[f[k]] = k
      /\ NULL \notin Keys /\ Pointers = Keys \cup {NULL}
  BY <1>6, NoKey DEF SwapsNames, Renaming
<1>8. PICK T, q, E1 : /\ T = BelowRenamed(S, f) /\ q = OrderRenamed(pos, f)
                      /\ E1 = [k \in Pointers |-> E[f[k]]]
  OBVIOUS
<1>9. Shaped(u, T, q)
  <2>1. Rooted(t.left, t.right, t.parent, S, pos, t.root)
    BY <1>2, <1>4, ShapedRooted
  <2>2. Rooted(u.left, u.right, u.parent, T, q, u.root)
    BY <1>3, <1>7, <1>8, <2>1, RenamedRooted
  <2> QED
    BY <1>3, <2>2, RootedShaped
<1>10. \A m \in Pointers : T[m] = {k \in Keys : f[k] \in S[f[m]]}
  BY <1>8 DEF BelowRenamed
<1>11. \A k \in C : f[k] \in C
  <2>1. ASSUME NEW k \in C
        PROVE  f[k] \in C
    <3>1. k \in Pointers
      BY <1>4, <1>7
    <3>2. k = a \/ k = b \/ f[k] = k
      BY <1>7, <3>1
    <3> QED
      BY <1>2, <1>5, <1>7, <3>2
  <2> QED
    BY <2>1
<1>12. T[u.root] = C
  <2>1. u.root \in Pointers /\ f[u.root] = t.root
    BY <1>3, <1>4, <1>7
  <2>2. T[u.root] = {k \in Keys : f[k] \in C}
    BY <1>2, <1>10, <2>1
  <2>3. \A k \in Keys : f[k] \in C <=> k \in C
    BY <1>7, <1>11
  <2> QED
    BY <1>4, <2>2, <2>3
<1>13. E \in [Pointers -> Nat] /\ E[NULL] = 0 /\ \A k \in C : Grown(t.left, t.right, E, k)
  BY <1>2 DEF Measured
<1>14. /\ E1 \in [Pointers -> Nat] /\ E1[NULL] = 0 /\ \A k \in Pointers : E1[k] = E[f[k]]
  BY <1>7, <1>8, <1>13
<1>15. \A k \in Keys : /\ u.left[k] = f[t.left[f[k]]] /\ u.right[k] = f[t.right[f[k]]]
                       /\ u.parent[k] = f[t.parent[f[k]]]
  BY <1>3 DEF Renamed
<1>16. \A k \in Pointers : f[f[k]] = k /\ f[k] \in Pointers
  BY <1>7
<1>17. ASSUME NEW k \in C
       PROVE  Grown(u.left, u.right, E1, k)
  <2>1. PICK m \in C : m = f[k]
    BY <1>11
  <2>2. k \in Keys /\ k \in Pointers /\ m \in Keys /\ t.left[m] \in Pointers /\ t.right[m] \in Pointers
    BY <1>4, <1>7, <2>1, Sides
  <2>3. E1[k] = E[m] /\ E1[u.left[k]] = E[t.left[m]] /\ E1[u.right[k]] = E[t.right[m]]
    BY <1>14, <1>15, <1>16, <2>1, <2>2
  <2> QED
    BY <1>13, <2>1, <2>3 DEF Grown
<1>18. ASSUME NEW k \in C, a \notin T[k]
       PROVE  u.depth[k] = E1[k]
  <2>1. k \in Keys /\ k \in Pointers
    BY <1>4, <1>7
  <2>2. b \notin S[f[k]]
    BY <1>4, <1>7, <1>10, <1>18, <2>1
  <2>3. k # a
    BY <1>4, <1>5, <1>7, <2>2, Sides
  <2>4. k # b
    BY <1>7, <2>2
  <2>5. f[k] = k /\ b \notin S[k]
    BY <1>7, <2>1, <2>2, <2>3, <2>4
  <2>6. a \notin S[k]
    <3>1. a \in S[k] => S[a] \subseteq S[k]
      BY <1>4, <2>1, Transitive
    <3> QED
      BY <2>5, <3>1
  <2>7. t.depth[k] = E[k]
    BY <1>2, <2>6 DEF Measured
  <2> QED
    BY <1>3, <1>14, <2>1, <2>3, <2>4, <2>5, <2>7
<1>19. Measured(u.left, u.right, T, u.depth, E1, C, {}, a)
  BY <1>14, <1>17, <1>18 DEF Measured
<1>20. Leaving(u, T, q, E1, C, a)
  BY <1>2, <1>9, <1>12, <1>19 DEF Leaving
<1>21. /\ u.left[a] = f[t.left[b]] /\ u.right[a] = f[t.right[b]] /\ u.parent[a] = f[t.parent[b]]
  BY <1>4, <1>7, <1>15
<1> QED
  BY <1>1, <1>3, <1>20, <1>21

\* A leaf leaves, and its parent is where the loop starts.
LEMMA LeafTaken ==
    ASSUME NEW t, NEW S, NEW pos, NEW E, NEW C, NEW n, Leaving(t, S, pos, E, C, n), ~t.fault,
           t.left[n] = NULL, t.right[n] = NULL, NEW u, u = unpin(t, n)
    PROVE  /\ \E T : Focused(u, T, pos, E, C \ {n}, t.parent[n])
           /\ u.misjudged = t.misjudged
<1>1. /\ Shaped(t, S, pos) /\ S[t.root] = C /\ n \in C /\ n \in S[t.root]
      /\ Measured(t.left, t.right, S, t.depth, E, C, {}, n)
  BY DEF Leaving
<1>2. /\ t \in Trees /\ Nested(t.left, t.right, S, pos) /\ Linked(t.left, t.right, t.parent)
      /\ C \subseteq Keys /\ n \in Keys
      /\ t.parent[n] \in C \cup {NULL} /\ NULL \notin Keys
      /\ t.parent[n] = NULL => n = t.root
  BY <1>1, InTree, InTreeOrNull, NoKey DEF Shaped
<1>3. S[n] = {n}
  BY <1>2 DEF Nested
<1>4. Unpinned(u, t, n)
  BY <1>1, <1>2, UnpinIs
<1>5. PICK T : /\ Shaped(u, T, pos) /\ T[u.root] = C \ {n}
               /\ \A m \in Pointers : T[m] = IF m # n /\ n \in S[m] THEN S[m] \ {n} ELSE S[m]
  <2>1. PICK T : Freed(u, t, S, T, n, pos)
    BY <1>1, <1>4, UnpinnedShape
  <2> QED
    BY <1>1, <1>3, <2>1 DEF Freed
<1>6. /\ u.depth = t.depth /\ u.fault = t.fault /\ u.misjudged = t.misjudged
      /\ \A k \in Keys : /\ u.left[k] = IF k = t.parent[n] /\ t.left[k] = n THEN NULL ELSE t.left[k]
                         /\ u.right[k] = IF k = t.parent[n] /\ t.right[k] = n THEN NULL ELSE t.right[k]
  BY <1>4 DEF Unpinned
<1>7. /\ E \in [Pointers -> Nat] /\ E[NULL] = 0 /\ \A k \in C : Grown(t.left, t.right, E, k)
      /\ \A k \in C : n \notin S[k] => t.depth[k] = E[k]
  BY <1>1 DEF Measured
<1>8. CASE t.parent[n] = NULL
  <2>1. C = {n}
    BY <1>1, <1>2, <1>3, <1>8
  <2>2. Measured(u.left, u.right, T, u.depth, E, C \ {n}, {}, NULL)
    BY <1>7, <2>1 DEF Measured
  <2>3. Focused(u, T, pos, E, C \ {n}, t.parent[n])
    BY <1>5, <1>6, <1>8, <2>2 DEF Focused
  <2> QED
    BY <1>6, <2>3
<1>9. CASE t.parent[n] # NULL
  <2>1. PICK p : p = t.parent[n]
    OBVIOUS
  <2>2. /\ p \in Keys /\ p # n /\ p \in C /\ p \notin S[n]
        /\ (t.left[p] = n /\ t.right[p] # n) \/ (t.right[p] = n /\ t.left[p] # n)
    BY <1>2, <1>9, <2>1, AtParent
  <2>3. ASSUME NEW k \in C \ {n}, k # p
        PROVE  Grown(u.left, u.right, E, k)
    <3>1. k \in Keys /\ u.left[k] = t.left[k] /\ u.right[k] = t.right[k]
      BY <1>2, <1>6, <2>1, <2>3
    <3> QED
      BY <1>7, <3>1 DEF Grown
  <2>4. ASSUME NEW k \in C \ {n}, p \notin T[k]
        PROVE  u.depth[k] = E[k]
    <3>1. k \in Keys /\ k \in Pointers /\ k # n
      BY <1>2, NoKey
    <3>2. n \notin S[k]
      <4>1. n \in S[k] => p \in S[k]
        BY <1>2, <2>1, <3>1, ParentsBelow
      <4> QED
        BY <1>5, <2>2, <2>4, <3>1, <4>1
    <3> QED
      BY <1>6, <1>7, <3>2
  <2>5. PICK a, b \in Nat : a = E[t.left[p]] /\ b = E[t.right[p]]
    <3>1. t.left[p] \in Pointers /\ t.right[p] \in Pointers
      BY <1>2, <2>2, Sides
    <3> QED
      BY <1>7, <3>1
  <2>6. E[p] = 1 + Larger(a, b) /\ Even(a, b)
    BY <1>7, <2>2, <2>5 DEF Grown
  <2>7. E[n] = 1
    <3>1. Larger(0, 0) = 0
      BY DEF Larger
    <3> QED
      BY <1>1, <1>7, <3>1 DEF Grown
  <2>8. Even(0, 1) /\ Even(1, 0)
    BY DEF Even
  <2>9. OffByOne(E[p], E[u.left[p]], E[u.right[p]])
    <3>1. CASE t.left[p] = n /\ t.right[p] # n
      <4>1. u.left[p] = NULL /\ u.right[p] = t.right[p]
        BY <1>6, <2>1, <2>2, <3>1
      <4>2. a = 1
        BY <2>5, <2>7, <3>1
      <4>3. OffByOne(1 + Larger(a, b), 0, b)
        BY <2>5, <2>6, <2>8, <4>2, SideShifted
      <4> QED
        BY <1>7, <2>5, <2>6, <4>1, <4>3
    <3>2. CASE t.right[p] = n /\ t.left[p] # n
      <4>1. u.right[p] = NULL /\ u.left[p] = t.left[p]
        BY <1>6, <2>1, <2>2, <3>2
      <4>2. b = 1 /\ a \in Nat
        BY <2>5, <2>7, <3>2
      <4>3. OffByOne(1 + Larger(a, b), a, 0)
        <5>1. a \in {0, 1, 2}
          BY <2>6, <4>2 DEF Even
        <5>2. Larger(a, 1) \in {1, 2} /\ (a = 2 <=> Larger(a, 1) = 2)
          BY <5>1 DEF Larger
        <5>3. CASE a = 2
          BY <4>2, <5>2, <5>3 DEF OffByOne
        <5>4. CASE a # 2
          <6>1. Larger(a, 1) = 1 /\ Larger(a, 0) = a
            BY <5>1, <5>2, <5>4 DEF Larger
          <6>2. Even(a, 0) /\ Even(1 + a, 2)
            BY <5>1, <5>4 DEF Even
          <6> QED
            BY <4>2, <6>1, <6>2 DEF OffByOne
        <5> QED
          BY <5>3, <5>4
      <4> QED
        BY <1>7, <2>5, <2>6, <4>1, <4>3
    <3> QED
      BY <2>2, <3>1, <3>2
  <2>10. Measured(u.left, u.right, T, u.depth, E, C \ {n}, {p}, p)
    BY <1>7, <2>3, <2>4 DEF Measured
  <2>11. Focused(u, T, pos, E, C \ {n}, p)
    BY <1>2, <1>5, <1>6, <2>2, <2>9, <2>10 DEF Focused, At
  <2> QED
    BY <1>6, <2>1, <2>11
<1> QED
  BY <1>8, <1>9

\* The node to extract has one child at most, when it comes to taking it out.
LEMMA LoweredLeaving ==
    ASSUME NEW t, NEW S, NEW pos, NEW E, NEW C, NEW n, Leaving(t, S, pos, E, C, n),
           NEW u, u = Lowered(t, n)
    PROVE  /\ \E T, q, E1 : Leaving(u, T, q, E1, C, n)
           /\ u.left[n] = NULL \/ u.right[n] = NULL
           /\ u.fault = t.fault /\ u.misjudged = t.misjudged
<1>1. CASE t.left[n] # NULL /\ t.right[n] # NULL
  <2>1. PICK b : b = minKeyNode(t, t.right[n])
    OBVIOUS
  <2>2. /\ Nested(t.left, t.right, S, pos) /\ n \in Keys /\ NULL \in Pointers /\ NULL \notin Keys
    BY InTree, NoKey DEF Leaving, Shaped
  <2>3. t.right[n] \in Keys /\ S[t.right[n]] \subseteq S[n] /\ n \notin S[t.right[n]] /\ S[n] \subseteq Keys
    BY <1>1, <2>2, Sides
  <2>4. b \in S[t.right[n]] /\ t.left[b] = NULL
    BY <2>1, <2>2, <2>3, MinKeyNodeIs
  <2>5. b \in S[n] /\ n # b /\ b \in Keys
    BY <2>3, <2>4
  <2>6. u = swapPosition(t, n, b)
    BY <1>1, <2>1 DEF Lowered
  <2>7. /\ \E T, q, E1 : Leaving(u, T, q, E1, C, n)
        /\ u.left[n] = Swapping(n, b)[t.left[b]]
        /\ u.fault = t.fault /\ u.misjudged = t.misjudged
    BY <2>5, <2>6, SwapLeaving
  <2>8. Swapping(n, b)[NULL] = NULL
    BY <2>2, <2>5 DEF Swapping
  <2> QED
    BY <2>4, <2>7, <2>8
<1>2. CASE ~(t.left[n] # NULL /\ t.right[n] # NULL)
  BY <1>2 DEF Lowered
<1> QED
  BY <1>1, <1>2

\* The places of the nodes of C are balanced, with E as their heights.
Evened(t, S, pos, E, C) ==
    /\ Shaped(t, S, pos) /\ S[t.root] = C
    /\ E \in [Pointers -> Nat] /\ E[NULL] = 0 /\ \A n \in C : Grown(t.left, t.right, E, n)

\* An only child has no child.
LEMMA OnlyChildIsLeaf ==
    ASSUME NEW t, NEW S, NEW pos, NEW E, NEW C, Evened(t, S, pos, E, C), NEW n \in C, NEW c \in C,
           \/ c = t.left[n] /\ t.right[n] = NULL
           \/ c = t.right[n] /\ t.left[n] = NULL
    PROVE  t.left[c] = NULL /\ t.right[c] = NULL
<1>1. /\ Shaped(t, S, pos) /\ S[t.root] = C /\ c \in S[t.root] /\ n \in S[t.root]
      /\ E[NULL] = 0 /\ Even(E[t.left[n]], E[t.right[n]]) /\ E \in [Pointers -> Nat]
      /\ \A k \in C : E[k] = 1 + Larger(E[t.left[k]], E[t.right[k]])
  BY DEF Evened, Grown
<1>2. /\ C \subseteq Keys /\ \A k \in C : t.left[k] \in C \cup {NULL} /\ t.right[k] \in C \cup {NULL}
  BY <1>1, InTreeOrNull
<1>3. \A k \in C : E[t.left[k]] \in Nat /\ E[t.right[k]] \in Nat /\ E[k] \in Nat
  BY <1>1, <1>2, NoKey
<1>4. \A k \in C : E[k] >= 1 /\ E[k] >= 1 + E[t.left[k]] /\ E[k] >= 1 + E[t.right[k]]
  BY <1>1, <1>3 DEF Larger
<1>5. E[c] <= 1
  BY <1>1, <1>3 DEF Even
<1>6. E[t.left[c]] = 0 /\ E[t.right[c]] = 0
  <2>1. E[c] \in Nat /\ E[t.left[c]] \in Nat /\ E[t.right[c]] \in Nat
    BY <1>3
  <2>2. E[c] >= 1 + E[t.left[c]] /\ E[c] >= 1 + E[t.right[c]]
    BY <1>4
  <2> QED
    BY <1>5, <2>1, <2>2
<1> QED
  BY <1>2, <1>4, <1>6

\* Its child, if it has one, has none itself, and takes its place.
LEMMA TakenLeaving ==
    ASSUME NEW t, NEW S, NEW pos, NEW E, NEW C, NEW n, Leaving(t, S, pos, E, C, n), ~t.fault,
           t.left[n] = NULL \/ t.right[n] = NULL,
           NEW u, u = Taken(t, n),
           NEW start, start = IF OnlyChild(t, n) # NULL THEN OnlyChild(t, n) ELSE t.parent[n]
    PROVE  /\ \E T, q, E1 : Focused(u, T, q, E1, C \ {n}, start)
           /\ u.misjudged = t.misjudged
<1>1. PICK c : c = OnlyChild(t, n)
  OBVIOUS
<1>2. CASE c = NULL
  <2>1. t.left[n] = NULL /\ t.right[n] = NULL
    BY <1>1, <1>2 DEF OnlyChild
  <2>2. u = unpin(t, n) /\ start = t.parent[n]
    BY <1>1, <1>2 DEF Taken
  <2>3. /\ \E T : Focused(u, T, pos, E, C \ {n}, t.parent[n])
        /\ u.misjudged = t.misjudged
    BY <2>1, <2>2, LeafTaken
  <2> QED
    BY <2>2, <2>3
<1>3. CASE c # NULL
  <2>1. /\ Nested(t.left, t.right, S, pos) /\ n \in Keys /\ NULL \in Pointers /\ NULL \notin Keys
        /\ Linked(t.left, t.right, t.parent) /\ S[n] \subseteq C /\ C \subseteq Keys /\ n \in C
        /\ Measured(t.left, t.right, S, t.depth, E, C, {}, n)
    BY InTree, NoKey DEF Leaving, Shaped
  <2>2. /\ \/ c = t.left[n] /\ t.right[n] = NULL
           \/ c = t.right[n] /\ t.left[n] = NULL
    BY <1>1, <1>3 DEF OnlyChild
  <2>3. c \in Keys /\ c \in S[n] /\ n # c /\ t.parent[c] = n /\ c \in C
    <3>1. c \in Keys /\ c \in S[n] /\ n # c
      BY <1>3, <2>1, <2>2, Sides
    <3>2. t.parent[c] = n
      BY <1>3, <2>1, <2>2 DEF Linked
    <3> QED
      BY <2>1, <3>1, <3>2
  <2>4. t.left[c] = NULL /\ t.right[c] = NULL
    <3>1. Evened(t, S, pos, E, C)
      BY <2>1 DEF Evened, Measured, Leaving
    <3> QED
      BY <2>1, <2>2, <2>3, <3>1, OnlyChildIsLeaf
  <2>5. PICK v : v = swapPosition(t, n, c)
    OBVIOUS
  <2>6. /\ \E T, q, E1 : Leaving(v, T, q, E1, C, n)
        /\ v.left[n] = Swapping(n, c)[t.left[c]] /\ v.right[n] = Swapping(n, c)[t.right[c]]
        /\ v.parent[n] = Swapping(n, c)[t.parent[c]]
        /\ v.fault = t.fault /\ v.misjudged = t.misjudged
    BY <2>3, <2>5, SwapLeaving
  <2>7. Swapping(n, c)[NULL] = NULL /\ Swapping(n, c)[n] = c
    BY <2>1, <2>3, NoKey DEF Swapping
  <2>8. v.left[n] = NULL /\ v.right[n] = NULL /\ v.parent[n] = c
    BY <2>3, <2>4, <2>6, <2>7
  <2>9. u = unpin(v, n) /\ start = c
    BY <1>1, <1>3, <2>5 DEF Taken
  <2>10. PICK T, q, E1 : Leaving(v, T, q, E1, C, n)
    BY <2>6
  <2>11. ~v.fault
    BY <2>6
  <2>12. /\ \E T1 : Focused(u, T1, q, E1, C \ {n}, c)
         /\ u.misjudged = v.misjudged
    BY <2>8, <2>9, <2>10, <2>11, LeafTaken
  <2> QED
    BY <2>6, <2>9, <2>12
<1> QED
  BY <1>2, <1>3

LEMMA DetachSettles ==
    ASSUME NEW t, NEW C, Holds(t, C), ~t.misjudged => ~t.fault /\ Settled(t, C), NEW n \in C,
           NEW u, u = Reachable(Detach(t, n, TRUE)), ~u.misjudged
    PROVE  ~t.misjudged /\ ~u.fault /\ Holds(u, C \ {n}) /\ Settled(u, C \ {n})
<1>1. PICK low, out, start :
         /\ low = Lowered(t, n) /\ out = Taken(low, n)
         /\ start = IF OnlyChild(low, n) # NULL THEN OnlyChild(low, n) ELSE low.parent[n]
  OBVIOUS
<1>2. PICK w : w = Balancing(out, start)
  OBVIOUS
<1>3. w = Detach(t, n, TRUE)
  BY <1>1, <1>2, DetachIs
<1>4. PICK S : Shaped(t, S, InKeyOrder) /\ S[t.root] = C
  BY DEF Holds, TreeOf
<1>5. /\ \E T, q : /\ Shaped(low, T, q) /\ T[low.root] = C
                   /\ Agrees(q, C \ {n})
      /\ low.left[n] = NULL \/ low.right[n] = NULL
  BY <1>1, <1>4, LoweredTree
<1>6. PICK T, q : Shaped(low, T, q) /\ T[low.root] = C /\ Agrees(q, C \ {n})
  BY <1>5
<1>7. PICK D : D = Left(low, T, n)
  OBVIOUS
<1>8. PICK p : TreeOf(out, D, p)
  BY <1>1, <1>5, <1>6, <1>7, TakenTree
<1>9. start \in D \cup {NULL}
  BY <1>1, <1>5, <1>6, <1>7, TakenTree
<1>10. PICK e : TreeOf(w, D, e)
  BY <1>2, <1>8, <1>9, BalancingKeeps DEF Reshaped
<1>11. w \in Trees /\ D \subseteq Keys /\ Contents(w) = D
  BY <1>10, TreeOfKeys, ContentsAre
<1>12. u.misjudged = w.misjudged /\ u.fault = w.fault
  <2>1. u = Reachable(w)
    BY <1>3
  <2>2. SameReached(u, w, D)
    BY <1>10, <2>1, ReachedSame
  <2> QED
    BY <2>2 DEF SameReached
<1>13. ~out.misjudged
  BY <1>2, <1>8, <1>9, <1>12, BalancingKeepsFlag
<1>14. ~t.misjudged
  <2>1. low.misjudged = t.misjudged
    <3>1. PICK b : b = minKeyNode(t, t.right[n])
      OBVIOUS
    <3>2. CASE t.left[n] # NULL /\ t.right[n] # NULL
      <4>1. low = swapPosition(t, n, b)
        BY <1>1, <3>1, <3>2 DEF Lowered
      <4>2. /\ Nested(t.left, t.right, S, InKeyOrder) /\ n \in Keys /\ n \in S[t.root]
        BY <1>4, InTree DEF Shaped
      <4>3. t.right[n] \in Keys /\ S[t.right[n]] \subseteq S[n] /\ n \notin S[t.right[n]]
        BY <3>2, <4>2, Sides
      <4>4. b \in S[t.right[n]]
        BY <3>1, <4>2, <4>3, MinKeyNodeIs
      <4>5. b \in S[n] /\ n # b
        BY <4>3, <4>4
      <4> QED
        BY <1>4, <4>1, <4>2, <4>5, SwapIs
    <3>3. CASE ~(t.left[n] # NULL /\ t.right[n] # NULL)
      BY <1>1, <3>3 DEF Lowered
    <3> QED
      BY <3>2, <3>3
  <2>2. out.misjudged = low.misjudged
    <3>1. PICK c : c = OnlyChild(low, n)
      OBVIOUS
    <3>2. /\ Nested(low.left, low.right, T, q) /\ n \in Keys /\ n \in T[low.root]
      BY <1>6, InTree DEF Shaped
    <3>3. CASE c = NULL
      <4>1. out = unpin(low, n)
        BY <1>1, <3>1, <3>3 DEF Taken
      <4>2. Unpinned(out, low, n)
        BY <1>6, <3>2, <4>1, UnpinIs
      <4> QED
        BY <4>2 DEF Unpinned
    <3>4. CASE c # NULL
      <4>1. PICK v : v = swapPosition(low, n, c)
        OBVIOUS
      <4>2. out = unpin(v, n)
        BY <1>1, <3>1, <3>4, <4>1 DEF Taken
      <4>3. c \in T[n] /\ n # c
        <5>1. c = low.left[n] \/ c = low.right[n]
          BY <3>1 DEF OnlyChild
        <5> QED
          BY <3>2, <3>4, <5>1, Sides
      <4>4. PICK V, e1 : Shaped(v, V, e1) /\ v.misjudged = low.misjudged
        <5>1. \E V : Swapped(swapPosition(low, n, c), low, T, V, n, c, q)
          BY <1>6, <3>2, <4>3, SwapShapes
        <5> QED
          BY <4>1, <5>1 DEF Swapped
      <4>5. Unpinned(out, v, n)
        BY <3>2, <4>2, <4>4, UnpinIs
      <4> QED
        BY <4>4, <4>5 DEF Unpinned
    <3> QED
      BY <3>3, <3>4
  <2> QED
    BY <1>13, <2>1, <2>2
<1>15. ~t.fault /\ Settled(t, C)
  BY <1>14
<1>16. PICK S1, E1 : Leaving(t, S1, InKeyOrder, E1, C, n)
  BY <1>15, SettledLeaving
<1>17. /\ \E T1, q1, E2 : Leaving(low, T1, q1, E2, C, n)
       /\ ~low.fault
  BY <1>1, <1>15, <1>16, LoweredLeaving
<1>18. PICK T1, q1, E2 : Leaving(low, T1, q1, E2, C, n)
  BY <1>17
<1>19. \E T2, q2, E3 : Focused(out, T2, q2, E3, C \ {n}, start)
  BY <1>1, <1>5, <1>17, <1>18, TakenLeaving
<1>20. PICK T2, q2, E3 : Focused(out, T2, q2, E3, C \ {n}, start)
  BY <1>19
<1>21. ~w.misjudged /\ ~u.fault
  BY <1>2, <1>12, <1>20, BalancingBalances
<1>22. \E T3, E4 : Focused(w, T3, q2, E4, C \ {n}, NULL)
  BY <1>2, <1>20, <1>21, BalancingBalances
<1>23. Settled(w, C \ {n}) /\ TreeOf(w, C \ {n}, q2)
  BY <1>22, FocusedSettled DEF Focused, TreeOf
<1>24. Settled(u, C \ {n})
  BY <1>3, <1>23, SettledReachable
<1>25. Contents(w) = C \ {n}
  BY <1>23, ContentsAre
<1>26. Holds(u, C \ {n})
  <2>1. PICK B : /\ B \subseteq C \ {n} /\ Contents(Detach(t, n, TRUE)) = B
                 /\ Holds(Reachable(Detach(t, n, TRUE)), B)
    BY DetachKeeps
  <2> QED
    BY <1>3, <1>25, <2>1
<1> QED
  BY <1>14, <1>21, <1>24, <1>26

-----------------------------------------------------------------------------
(* What was put and not taken out *)

\* The tree holds C, which is what it should hold as long as it was never
\* rotated by the balance of another node and no node extracted by the call that
\* balances nothing; then every node is balanced, too.
Carries(t, C, k, free) ==
    /\ C \in SUBSET Keys /\ Holds(t, C)
    /\ ~free /\ ~t.misjudged => C = k /\ ~t.fault /\ Settled(t, C)

BalInv == kept \subseteq Keys /\ byNode \in BOOLEAN /\ \E C : Carries(tree, C, kept, byNode)

LEMMA EmptyCarries ==
    ASSUME NEW free
    PROVE  Carries(EmptyTree, {}, {}, free)
<1>1. ~EmptyTree.fault
  BY DEF EmptyTree
<1>2. Settled(EmptyTree, {})
  <2>1. [m \in Pointers |-> 0] \in [Pointers -> Nat] /\ [m \in Pointers |-> 0][NULL] = 0
    BY NoKey
  <2> QED
    BY <2>1 DEF Settled
<1> QED
  BY <1>1, <1>2, EmptyHolds DEF Carries

LEMMA InsertCarries ==
    ASSUME NEW t, NEW C, NEW k, NEW free, Carries(t, C, k, free), NEW key \in Keys,
           NEW u, u = IF t.root # NULL /\ Place(t, key) = key THEN t ELSE Attach(t, key)
    PROVE  Carries(u, C \cup {key}, k \cup {key}, free)
<1>1. C \in SUBSET Keys /\ Holds(t, C)
  BY DEF Carries
<1>2. CASE key \in C
  <2>1. u = t
    BY <1>1, <1>2, InsertHolds
  <2>2. C \cup {key} = C /\ (C = k => k \cup {key} = k)
    BY <1>2
  <2> QED
    BY <2>1, <2>2 DEF Carries
<1>3. CASE key \notin C
  <2>1. u = Attach(t, key) /\ Holds(u, C \cup {key})
    BY <1>1, <1>3, InsertHolds
  <2>2. ASSUME ~free, ~u.misjudged
        PROVE  C \cup {key} = k \cup {key} /\ ~u.fault /\ Settled(u, C \cup {key})
    <3>1. ~t.misjudged => C = k /\ ~t.fault /\ Settled(t, C)
      BY <2>2 DEF Carries
    <3>2. key \in Keys \ C
      BY <1>3
    <3>3. ~t.misjudged /\ ~u.fault /\ Settled(u, C \cup {key})
      BY <1>1, <2>1, <2>2, <3>1, <3>2, AttachSettles
    <3> QED
      BY <3>1, <3>3
  <2>3. C \cup {key} \in SUBSET Keys
    BY <1>1
  <2> QED
    BY <2>1, <2>2, <2>3 DEF Carries
<1> QED
  BY <1>2, <1>3

LEMMA ExtractCarries ==
    ASSUME NEW t, NEW C, NEW k, NEW free, Carries(t, C, k, free), NEW key \in Keys,
           NEW n, n = Search(t, key),
           NEW u, u = IF n = NULL THEN t ELSE Reachable(Detach(t, n, TRUE))
    PROVE  \E D : Carries(u, D, k \ {key}, free)
<1>1. C \in SUBSET Keys /\ Holds(t, C)
  BY DEF Carries
<1>2. n = IF key \in C THEN key ELSE NULL
  BY <1>1, SearchedHolds
<1>3. CASE key \notin C
  <2>1. u = t
    BY <1>2, <1>3
  <2>2. C = k => C = k \ {key}
    BY <1>3
  <2>3. Carries(u, C, k \ {key}, free)
    BY <2>1, <2>2 DEF Carries
  <2> QED
    BY <2>3
<1>4. CASE key \in C
  <2>1. n = key /\ u = Reachable(Detach(t, key, TRUE))
    BY <1>2, <1>4, NoKey
  <2>2. CASE ~free /\ ~u.misjudged
    <3>1. ~t.misjudged => C = k /\ ~t.fault /\ Settled(t, C)
      BY <2>2 DEF Carries
    <3>2. ~t.misjudged /\ ~u.fault /\ Holds(u, C \ {key}) /\ Settled(u, C \ {key})
      BY <1>1, <1>4, <2>1, <2>2, <3>1, DetachSettles
    <3>3. C \ {key} \in SUBSET Keys
      BY <1>1
    <3>4. Carries(u, C \ {key}, k \ {key}, free)
      BY <3>1, <3>2, <3>3 DEF Carries
    <3> QED
      BY <3>4
  <2>3. CASE ~(~free /\ ~u.misjudged)
    <3>1. PICK climb : climb = TRUE
      OBVIOUS
    <3>2. PICK D : D \subseteq C \ {key} /\ Holds(Reachable(Detach(t, key, climb)), D)
      BY <1>1, <1>4, DetachKeeps
    <3>3. D \in SUBSET Keys
      BY <1>1, <3>2
    <3>4. Carries(u, D, k \ {key}, free)
      BY <2>1, <2>3, <3>1, <3>2, <3>3 DEF Carries
    <3> QED
      BY <3>4
  <2> QED
    BY <2>2, <2>3
<1> QED
  BY <1>3, <1>4

LEMMA ExtractNodeCarries ==
    ASSUME NEW t, NEW C, NEW k, Carries(t, C, k, TRUE), NEW n \in C,
           NEW u, u = Reachable(Detach(t, n, FALSE))
    PROVE  \E D : Carries(u, D, k \ {n}, TRUE)
<1>1. C \in SUBSET Keys /\ Holds(t, C)
  BY DEF Carries
<1>2. PICK climb : climb = FALSE
  OBVIOUS
<1>3. PICK D : D \subseteq C \ {n} /\ Holds(Reachable(Detach(t, n, climb)), D)
  BY <1>1, DetachKeeps
<1>4. D \in SUBSET Keys
  BY <1>1, <1>3
<1>5. Carries(u, D, k \ {n}, TRUE)
  BY <1>2, <1>3, <1>4 DEF Carries
<1> QED
  BY <1>5

LEMMA BalInvStep == BalInv /\ [AVLNext]_avlVars => BalInv'
<1> SUFFICES ASSUME BalInv, [AVLNext]_avlVars
             PROVE  BalInv'
  OBVIOUS
<1>1. PICK C : Carries(tree, C, kept, byNode)
  BY DEF BalInv
<1>2. kept \subseteq Keys /\ byNode \in BOOLEAN
  BY DEF BalInv
<1>3. ASSUME NEW key \in Keys, insert(key), byNode' = byNode
      PROVE  BalInv'
  <2>1. Carries(tree', C \cup {key}, kept \cup {key}, byNode)
    BY <1>1, <1>3, InsertCarries DEF insert
  <2> QED
    BY <1>2, <1>3, <2>1 DEF BalInv, insert
<1>4. ASSUME NEW key \in Keys, extractKey(key), byNode' = byNode
      PROVE  BalInv'
  <2>1. \E D : Carries(tree', D, kept \ {key}, byNode)
    BY <1>1, <1>4, ExtractCarries DEF extractKey
  <2> QED
    BY <1>2, <1>4, <2>1 DEF BalInv, extractKey
<1>5. ASSUME NEW key \in Keys, extractNode(key), byNode' = byNode
      PROVE  BalInv'
  <2>1. byNode = TRUE /\ key \in Contents(tree)
    BY <1>2, <1>5 DEF extractNode
  <2>2. Contents(tree) = C
    BY <1>1, ContentsAre DEF Carries, Holds
  <2>3. \E D : Carries(tree', D, kept \ {key}, TRUE)
    BY <1>1, <1>5, <2>1, <2>2, ExtractNodeCarries DEF extractNode
  <2> QED
    BY <1>2, <1>5, <2>1, <2>3 DEF BalInv, extractNode
<1>6. ASSUME clear, byNode' = byNode
      PROVE  BalInv'
  <2>1. tree' = EmptyTree /\ kept' = {}
    BY <1>6 DEF clear
  <2> QED
    BY <1>2, <1>6, <2>1, EmptyCarries DEF BalInv
<1>7. ASSUME UNCHANGED avlVars
      PROVE  BalInv'
  BY <1>7 DEF BalInv, avlVars
<1> QED
  BY <1>3, <1>4, <1>5, <1>6, <1>7 DEF AVLNext

\* As long as the nodes are rotated by their own balance, an AVL tree holds what
\* was put in it and not taken out, and its nodes are balanced.
THEOREM AVLBalInvariance == AVLSpec => []BalInv
<1>1. AVLInit => BalInv
  <2> SUFFICES ASSUME AVLInit
               PROVE  BalInv
    OBVIOUS
  <2>1. Carries(tree, {}, kept, byNode)
    BY EmptyCarries DEF AVLInit
  <2> QED
    BY <2>1 DEF BalInv, AVLInit
<1> QED
  BY <1>1, BalInvStep, PTL DEF AVLSpec

\* No call loses a node, and the descent of extract finds every key.
THEOREM AVLKeepsAll == AVLSpec => []NothingLost
<1>1. BalInv => NothingLost
  <2> SUFFICES ASSUME BalInv, ~byNode, ~tree.misjudged
               PROVE  Contents(tree) = kept /\ \A k \in kept : Search(tree, k) = k
    BY DEF NothingLost
  <2>1. Holds(tree, kept) /\ kept \subseteq Keys
    BY DEF BalInv, Carries
  <2>2. Contents(tree) = kept
    BY <2>1, ContentsAre DEF Holds
  <2>3. \A k \in kept : Search(tree, k) = k
    BY <2>1, SearchedHolds
  <2> QED
    BY <2>2, <2>3
<1> QED
  BY <1>1, AVLBalInvariance, PTL

-----------------------------------------------------------------------------
(* Heights *)

LEMMA HeldEvened ==
    ASSUME NEW t, NEW C, Holds(t, C), Settled(t, C)
    PROVE  \E S, E : Evened(t, S, InKeyOrder, E, C) /\ \A n \in C : t.depth[n] = E[n]
<1>1. PICK S : Shaped(t, S, InKeyOrder) /\ S[t.root] = C
  BY DEF Holds, TreeOf
<1>2. PICK E \in [Pointers -> Nat] :
         E[NULL] = 0 /\ \A n \in C : Grown(t.left, t.right, E, n) /\ t.depth[n] = E[n]
  BY DEF Settled
<1> QED
  BY <1>1, <1>2 DEF Evened

\* The heights of the nodes are those that the depths give.
LEMMA HeightsAre ==
    ASSUME NEW t, NEW S, NEW pos, NEW E, NEW C, Evened(t, S, pos, E, C), Clean(t, C)
    PROVE  \A n \in C \cup {NULL} : Height(t, n) = E[n]
<1> DEFINE h[m \in Pointers] == IF m = NULL THEN 0 ELSE 1 + Larger(h[t.left[m]], h[t.right[m]])
           Solves(g) == g = [m \in Pointers |->
                              IF m = NULL THEN 0 ELSE 1 + Larger(g[t.left[m]], g[t.right[m]])]
           F == [m \in Pointers |-> IF m \in C \cup {NULL} THEN E[m] ELSE 1]
<1>1. /\ Shaped(t, S, pos) /\ S[t.root] = C /\ Nested(t.left, t.right, S, pos)
      /\ E \in [Pointers -> Nat] /\ E[NULL] = 0 /\ \A n \in C : Grown(t.left, t.right, E, n)
  BY DEF Evened, Shaped
<1>2. C \subseteq Keys
  <2>1. t.root \in Pointers
    BY <1>1 DEF Shaped, Trees
  <2> QED
    BY <1>1, <2>1 DEF Nested
<1>3. \A n \in C : t.left[n] \in C \cup {NULL} /\ t.right[n] \in C \cup {NULL}
  BY <1>1, InTreeOrNull
<1>4. ASSUME NEW m \in Pointers
      PROVE  F[m] = IF m = NULL THEN 0 ELSE 1 + Larger(F[t.left[m]], F[t.right[m]])
  <2>1. CASE m = NULL
    BY <1>1, <2>1, NoKey
  <2>2. CASE m \in C
    <3>1. F[m] = E[m] /\ F[t.left[m]] = E[t.left[m]] /\ F[t.right[m]] = E[t.right[m]] /\ m # NULL
      BY <1>2, <1>3, <2>2, NoKey
    <3>2. E[m] = 1 + Larger(E[t.left[m]], E[t.right[m]])
      BY <1>1, <2>2 DEF Grown
    <3> QED
      BY <3>1, <3>2
  <2>3. CASE m # NULL /\ m \notin C
    <3>1. t.left[m] = NULL /\ t.right[m] = NULL
      BY <2>3, NoKey DEF Clean
    <3>2. F[m] = 1 /\ F[NULL] = 0
      BY <1>1, <2>3, NoKey
    <3>3. Larger(0, 0) = 0
      BY DEF Larger
    <3> QED
      BY <2>3, <3>1, <3>2, <3>3
  <2> QED
    BY <2>1, <2>2, <2>3
<1>5. \E g : Solves(g)
  <2>1. PICK g : g = F
    OBVIOUS
  <2>2. g = [m \in Pointers |-> g[m]]
    BY <2>1
  <2>3. \A m \in Pointers : g[m] = IF m = NULL THEN 0 ELSE 1 + Larger(g[t.left[m]], g[t.right[m]])
    <3> HIDE DEF F
    <3> QED
      BY <1>4, <2>1
  <2> HIDE DEF F, h
  <2>4. Solves(g)
    BY <2>2, <2>3
  <2> QED
    BY <2>4
<1>6. Solves(h)
  <2> HIDE DEF Solves, F
  <2>1. h = CHOOSE g : Solves(g)
    BY DEF Solves
  <2> QED
    BY <1>5, <2>1
<1>7. \A n \in Pointers : Height(t, n) = h[n]
  BY DEF Height
<1> HIDE DEF h
<1>8. \A m \in Pointers : h[m] = IF m = NULL THEN 0 ELSE 1 + Larger(h[t.left[m]], h[t.right[m]])
  BY <1>6
<1>9. PICK f : f = F
  OBVIOUS
<1>10. /\ \A m \in Pointers : f[m] = IF m = NULL THEN 0 ELSE 1 + Larger(f[t.left[m]], f[t.right[m]])
       /\ \A m \in C \cup {NULL} : f[m] = E[m]
  <2>1. \A m \in C \cup {NULL} : f[m] = E[m]
    BY <1>2, <1>9, NoKey
  <2> HIDE DEF F
  <2> QED
    BY <1>4, <1>9, <2>1
<1> HIDE DEF F, Solves
<1> DEFINE P == {n \in Keys : h[n] = f[n]}
<1>11. h[NULL] = f[NULL]
  BY <1>8, <1>10, NoKey
<1>12. ASSUME NEW n \in Keys,
              \A x \in Keys : x \in S[t.left[n]] \/ x \in S[t.right[n]] => x \in P
       PROVE  n \in P
  <2>1. ASSUME NEW c \in {t.left[n], t.right[n]}
        PROVE  h[c] = f[c]
    <3>1. CASE c = NULL
      BY <1>11, <3>1
    <3>2. CASE c # NULL
      <4>1. c \in Keys /\ (c \in S[t.left[n]] \/ c \in S[t.right[n]])
        BY <1>1, <3>2, Sides
      <4> QED
        BY <1>12, <4>1
    <3> QED
      BY <3>1, <3>2
  <2>2. h[t.left[n]] = f[t.left[n]] /\ h[t.right[n]] = f[t.right[n]]
    BY <2>1
  <2> QED
    BY <1>8, <1>10, <2>2, NoKey
<1> HIDE DEF P
<1>13. Keys \subseteq P
  BY <1>1, <1>12, FromBelow
<1> QED
  BY <1>2, <1>7, <1>10, <1>11, <1>13, NoKey DEF P

-----------------------------------------------------------------------------
(* The walk of clear *)

\* The node m of the subtree of q is a leaf, and no node of it comes before m.
FirstOf(S, pos, q, m) ==
    /\ m \in S[q] /\ S[m] = {m}
    /\ \A x \in S[q] : pos[x] < pos[m] => m \in S[x]

LEMMA ClearFromIs ==
    ASSUME NEW t, NEW S, NEW pos, NEW E, NEW C, Evened(t, S, pos, E, C), NEW q \in C
    PROVE  FirstOf(S, pos, q, ClearFrom(t, q))
<1>1. /\ Shaped(t, S, pos) /\ S[t.root] = C /\ q \in S[t.root]
      /\ Nested(t.left, t.right, S, pos) /\ S[NULL] = {}
  BY DEF Evened, Shaped, Nested
<1>2. q \in Keys /\ S[q] \subseteq C /\ C \subseteq Keys
  BY <1>1, InTree
<1>3. PICK low, w : low = minKeyNode(t, q) /\ w = t.right[low]
  OBVIOUS
<1>4. /\ low \in S[q] /\ t.left[low] = NULL
      /\ \A x \in S[q] : x # low => pos[low] < pos[x]
  BY <1>1, <1>2, <1>3, MinKeyNodeIs
<1>5. low \in C /\ low \in Keys /\ low \in S[low] /\ S[low] \subseteq S[q]
  BY <1>1, <1>2, <1>4, Sides, Transitive
<1>6. S[low] = {low} \cup S[w]
  BY <1>1, <1>3, <1>4, <1>5 DEF Nested
<1>7. pos \in [Keys -> Int]
  BY <1>1 DEF Nested
<1>8. CASE w = NULL
  <2>1. ClearFrom(t, q) = low
    BY <1>3, <1>8 DEF ClearFrom
  <2>2. S[low] = {low}
    BY <1>1, <1>6, <1>8
  <2>3. \A x \in S[q] : ~(pos[x] < pos[low])
    <3>1. ASSUME NEW x \in S[q]
          PROVE  ~(pos[x] < pos[low])
      <4>1. pos[x] \in Int /\ pos[low] \in Int /\ (x # low => pos[low] < pos[x])
        BY <1>2, <1>4, <1>5, <1>7
      <4> QED
        BY <4>1
    <3> QED
      BY <3>1
  <2> QED
    BY <1>4, <2>1, <2>2, <2>3 DEF FirstOf
<1>9. CASE w # NULL
  <2>1. ClearFrom(t, q) = w
    BY <1>3, <1>9 DEF ClearFrom
  <2>2. w \in Keys /\ w \in S[low] /\ w \in C
    BY <1>1, <1>2, <1>3, <1>5, <1>9, Sides
  <2>3. t.left[w] = NULL /\ t.right[w] = NULL
    BY <1>3, <1>4, <1>5, <2>2, OnlyChildIsLeaf
  <2>4. S[w] = {w}
    BY <1>1, <2>2, <2>3 DEF Nested
  <2>5. S[low] = {low, w}
    BY <1>6, <2>4
  <2>6. ASSUME NEW x \in S[q], pos[x] < pos[w]
        PROVE  w \in S[x]
    <3>1. pos[x] \in Int /\ pos[low] \in Int /\ pos[w] \in Int
      BY <1>2, <1>5, <1>7, <2>2
    <3>2. x \in S[low]
      <4>1. SUFFICES ASSUME x \notin S[low]
                     PROVE  FALSE
        OBVIOUS
      <4>2. pos[low] < pos[x]
        BY <1>4, <1>5, <4>1
      <4>3. (\A y \in S[low] : pos[x] < pos[y]) \/ (\A y \in S[low] : pos[y] < pos[x])
        BY <1>1, <1>2, <1>4, <4>1, Contiguous
      <4>4. pos[x] < pos[low] \/ pos[w] < pos[x]
        BY <1>5, <2>2, <4>3
      <4> QED
        BY <2>6, <3>1, <4>2, <4>4
    <3>3. x = low \/ x = w
      BY <2>5, <3>2
    <3> QED
      BY <2>2, <2>4, <3>3
  <2>7. w \in S[q]
    BY <1>5, <2>2
  <2> QED
    BY <2>1, <2>4, <2>6, <2>7 DEF FirstOf
<1> QED
  BY <1>8, <1>9

\* The nodes that are destroyed before n: those below it, and those to the left
\* of it that are not above it.
Earlier(S, pos, C, n) == {x \in C : n \notin S[x] /\ (x \in S[n] \/ pos[x] < pos[n])}

LEMMA NoneEarlier ==
    ASSUME NEW S, NEW pos, NEW C, NEW q, S[q] = C, NEW m, FirstOf(S, pos, q, m)
    PROVE  Earlier(S, pos, C, m) = {} /\ m \in C
  BY DEF Earlier, FirstOf

\* From the last node of a subtree to its root.
LEMMA UpEarlier ==
    ASSUME NEW l, NEW r, NEW p, NEW S, NEW pos, NEW root, Rooted(l, r, p, S, pos, root),
           NEW C, C = S[root], NEW n \in C, p[n] # NULL,
           l[p[n]] = n => r[p[n]] = NULL
    PROVE  Earlier(S, pos, C, p[n]) = Earlier(S, pos, C, n) \cup {n}
<1>1. PICK q : q = p[n]
  OBVIOUS
<1>2. Nested(l, r, S, pos) /\ Linked(l, r, p) /\ root \in Keys /\ S[NULL] = {}
  BY DEF Rooted, Nested
<1>3. n \in Keys /\ C \subseteq Keys /\ pos \in [Keys -> Int]
  BY <1>2, Sides DEF Nested
<1>4. /\ q \in Keys /\ q # n /\ q \in C /\ S[n] \subseteq S[q] /\ q \notin S[n]
      /\ (l[q] = n /\ r[q] # n) \/ (r[q] = n /\ l[q] # n)
  BY <1>1, <1>2, <1>3, AtParent, InRooted
<1>5. /\ n \in S[n] /\ q \in S[q] /\ S[q] = {q} \cup S[l[q]] \cup S[r[q]]
      /\ S[l[q]] \cap S[r[q]] = {} /\ S[q] \subseteq C
  BY <1>2, <1>3, <1>4, Sides, InRooted DEF Nested
<1>6. \A x \in C : n \in S[x] /\ x # n => q \in S[x]
  BY <1>1, <1>2, <1>3, ParentsBelow
<1>7. \A x \in C : q \in S[x] => n \in S[x]
  <2>1. ASSUME NEW x \in C, q \in S[x]
        PROVE  n \in S[x]
    <3>1. S[q] \subseteq S[x]
      BY <1>2, <1>3, <2>1, Transitive
    <3> QED
      BY <1>4, <1>5, <3>1
  <2> QED
    BY <2>1
<1>8. ASSUME NEW x \in C, x \notin S[q]
      PROVE  pos[x] < pos[q] <=> pos[x] < pos[n]
  <2>1. (\A y \in S[q] : pos[x] < pos[y]) \/ (\A y \in S[q] : pos[y] < pos[x])
    <3>1. PICK m \in Keys, k \in Keys : m = q /\ k = x
      BY <1>3, <1>4
    <3>2. q \in S[root] /\ x \in S[root]
      BY <1>4
    <3> QED
      BY <1>2, <1>8, <3>2, Contiguous
  <2>2. n \in S[q] /\ q \in S[q]
    BY <1>4, <1>5
  <2>3. pos[x] \in Int /\ pos[q] \in Int /\ pos[n] \in Int
    BY <1>3, <1>4
  <2>4. (pos[x] < pos[q] /\ pos[x] < pos[n]) \/ (pos[q] < pos[x] /\ pos[n] < pos[x])
    BY <2>1, <2>2
  <2> QED
    BY <2>3, <2>4
<1>9. \A x \in S[n] : x # n => n \notin S[x]
  BY <1>2, <1>3, Antisymmetric
<1>10. \A x \in S[q] : x # q => q \notin S[x]
  BY <1>2, <1>4, Antisymmetric
<1>11. ASSUME NEW x \in S[q], x # q, x \notin S[n]
       PROVE  n \notin S[x] /\ pos[x] < pos[n]
  <2>1. r[q] = n /\ x \in S[l[q]]
    <3>1. CASE l[q] = n
      <4>1. S[r[q]] = {}
        BY <1>1, <1>2, <3>1
      <4> QED
        BY <1>5, <1>11, <3>1, <4>1
    <3>2. CASE r[q] = n
      BY <1>5, <1>11, <3>2
    <3> QED
      BY <1>4, <3>1, <3>2
  <2>2. x \in Keys /\ l[q] \in Keys /\ S[x] \subseteq S[l[q]]
    <3>1. x \in Keys /\ l[q] \in Pointers /\ l[q] # NULL
      BY <1>2, <1>3, <1>4, <1>5, <2>1, Sides
    <3> QED
      BY <1>2, <2>1, <3>1, NoKey, Transitive
  <2>3. n \notin S[x]
    BY <1>5, <2>1, <2>2
  <2>4. pos[x] < pos[q] /\ pos[q] < pos[n]
    BY <1>2, <1>4, <1>5, <2>1 DEF Nested
  <2>5. pos[x] \in Int /\ pos[q] \in Int /\ pos[n] \in Int
    BY <1>3, <1>4, <2>2
  <2> QED
    BY <2>3, <2>4, <2>5
<1>12. ASSUME NEW x \in C
       PROVE  x \in Earlier(S, pos, C, q) <=> x \in Earlier(S, pos, C, n) \/ x = n
  <2>1. CASE x = n
    BY <1>4, <1>5, <2>1 DEF Earlier
  <2>2. CASE x = q
    BY <1>4, <1>5, <2>2 DEF Earlier
  <2>3. CASE x \in S[n] /\ x # n
    BY <1>4, <1>9, <1>10, <2>3 DEF Earlier
  <2>4. CASE x \in S[q] /\ x # q /\ x \notin S[n]
    BY <1>10, <1>11, <1>5, <2>4 DEF Earlier
  <2>5. CASE x \notin S[q]
    <3>1. x # n /\ x \notin S[n]
      BY <1>4, <1>5, <2>5
    <3>2. q \in S[x] <=> n \in S[x]
      BY <1>6, <1>7, <3>1
    <3> QED
      BY <1>8, <2>5, <3>1, <3>2 DEF Earlier
  <2> QED
    BY <2>1, <2>2, <2>3, <2>4, <2>5
<1>13. Earlier(S, pos, C, q) = Earlier(S, pos, C, n) \cup {n}
  <2>1. Earlier(S, pos, C, q) \subseteq C /\ Earlier(S, pos, C, n) \subseteq C
    BY DEF Earlier
  <2> QED
    BY <1>12, <2>1
<1> QED
  BY <1>1, <1>13

\* From the left side of a node to the first node of its right side.
LEMMA AcrossEarlier ==
    ASSUME NEW l, NEW r, NEW p, NEW S, NEW pos, NEW root, Rooted(l, r, p, S, pos, root),
           NEW C, C = S[root], NEW q \in C, NEW n \in C, l[q] = n,
           NEW m, FirstOf(S, pos, r[q], m)
    PROVE  Earlier(S, pos, C, m) = Earlier(S, pos, C, n) \cup {n} /\ m \in C
<1>1. Nested(l, r, S, pos) /\ Linked(l, r, p) /\ root \in Keys
  BY DEF Rooted
<1>2. n \in Keys /\ q \in Keys /\ C \subseteq Keys /\ pos \in [Keys -> Int] /\ n # NULL
  BY <1>1, Sides, NoKey DEF Nested
<1>3. /\ S[q] = {q} \cup S[n] \cup S[r[q]] /\ n \in S[n] /\ S[n] \cap S[r[q]] = {}
      /\ q \notin S[n] /\ q \notin S[r[q]] /\ S[q] \subseteq C /\ n # q /\ q \in S[q]
  BY <1>1, <1>2, Sides, InRooted DEF Nested
<1>4. m \in S[r[q]] /\ S[m] = {m} /\ \A x \in S[r[q]] : pos[x] < pos[m] => m \in S[x]
  BY DEF FirstOf
<1>5. m \in C /\ m \in S[q] /\ m \notin S[n] /\ m # n /\ m \in Keys
  BY <1>2, <1>3, <1>4
<1>6. pos[n] < pos[q] /\ pos[q] < pos[m] /\ \A x \in S[n] : pos[x] < pos[q]
  BY <1>1, <1>2, <1>3, <1>4 DEF Nested
<1>7. \A x \in C : pos[x] \in Int
  BY <1>2
<1>8. p[n] = q
  BY <1>1, <1>2 DEF Linked
<1>9. \A x \in C : n \in S[x] /\ x # n => q \in S[x]
  BY <1>1, <1>2, <1>8, ParentsBelow
<1>10. \A x \in S[n] : x # n => n \notin S[x]
  BY <1>1, <1>2, Antisymmetric
<1>11. \A x \in C : q \in S[x] => m \in S[x]
  <2>1. ASSUME NEW x \in C, q \in S[x]
        PROVE  m \in S[x]
    <3>1. S[q] \subseteq S[x]
      BY <1>1, <1>2, <2>1, Transitive
    <3> QED
      BY <1>5, <3>1
  <2> QED
    BY <2>1
<1>12. ASSUME NEW x \in C, NEW y \in C, x \notin S[y]
       PROVE  (\A z \in S[y] : pos[x] < pos[z]) \/ (\A z \in S[y] : pos[z] < pos[x])
  BY <1>1, <1>12, Contiguous
<1>13. ASSUME NEW x \in S[n]
       PROVE  m \notin S[x] /\ pos[x] < pos[m]
  <2>1. x \in Keys /\ S[x] \subseteq S[n] /\ x \in C
    BY <1>1, <1>2, <1>3, Transitive
  <2>2. pos[x] < pos[q] /\ pos[q] < pos[m]
    BY <1>6
  <2>3. pos[x] \in Int /\ pos[q] \in Int /\ pos[m] \in Int
    BY <1>5, <1>7, <2>1
  <2>4. pos[x] < pos[m]
    BY <2>2, <2>3
  <2> QED
    BY <1>5, <2>1, <2>4
<1>14. ASSUME NEW x \in C, x \notin S[n], pos[x] < pos[n], n \notin S[x]
       PROVE  m \notin S[x] /\ pos[x] < pos[m]
  <2>1. pos[x] \in Int /\ pos[n] \in Int /\ pos[q] \in Int /\ pos[m] \in Int
    BY <1>5, <1>7
  <2>2. pos[x] < pos[m]
    BY <1>6, <1>14, <2>1
  <2>3. m \notin S[x]
    <3>1. SUFFICES ASSUME m \in S[x]
                   PROVE  FALSE
      OBVIOUS
    <3>2. x \in S[x]
      BY <1>1, <1>2, Sides
    <3>3. (\A z \in S[x] : pos[n] < pos[z]) \/ (\A z \in S[x] : pos[z] < pos[n])
      BY <1>12, <1>14
    <3>4. pos[n] < pos[x] \/ pos[m] < pos[n]
      BY <3>1, <3>2, <3>3
    <3> QED
      BY <1>6, <1>14, <2>1, <3>4
  <2> QED
    BY <2>2, <2>3
<1>15. ASSUME NEW x \in C, m \notin S[x], pos[x] < pos[m], x \notin S[n]
       PROVE  n \notin S[x] /\ pos[x] < pos[n]
  <2>1. x \notin S[r[q]] /\ x # q
    BY <1>4, <1>5, <1>15
  <2>2. x \notin S[q]
    BY <1>3, <1>15, <2>1
  <2>3. (\A z \in S[q] : pos[x] < pos[z]) \/ (\A z \in S[q] : pos[z] < pos[x])
    BY <1>12, <2>2
  <2>4. pos[x] \in Int /\ pos[n] \in Int /\ pos[m] \in Int
    BY <1>5, <1>7
  <2>5. n \in S[q]
    BY <1>3
  <2>6. pos[x] < pos[n]
    <3>1. pos[x] < pos[n] \/ pos[m] < pos[x]
      BY <1>5, <2>3, <2>5
    <3> QED
      BY <1>15, <2>4, <3>1
  <2>7. n \notin S[x]
    BY <1>3, <1>9, <1>11, <1>15
  <2> QED
    BY <2>6, <2>7
<1>16. m \notin S[n]
  BY <1>5
<1>17. ASSUME NEW x \in C
       PROVE  x \in Earlier(S, pos, C, m) <=> x \in Earlier(S, pos, C, n) \/ x = n
  <2>1. x \in Earlier(S, pos, C, m) <=> m \notin S[x] /\ pos[x] < pos[m]
    <3>1. x \in S[m] => m \in S[x]
      BY <1>4
    <3> QED
      BY <3>1 DEF Earlier
  <2>2. x \in Earlier(S, pos, C, n) <=> n \notin S[x] /\ (x \in S[n] \/ pos[x] < pos[n])
    BY DEF Earlier
  <2>3. CASE x \in S[n]
    BY <1>3, <1>10, <1>13, <2>1, <2>2, <2>3
  <2>4. CASE x \notin S[n]
    BY <1>3, <1>14, <1>15, <2>1, <2>2, <2>4
  <2> QED
    BY <2>3, <2>4
<1>18. Earlier(S, pos, C, m) \subseteq C /\ Earlier(S, pos, C, n) \subseteq C
  BY DEF Earlier
<1> QED
  BY <1>5, <1>17, <1>18

\* The root is the last.
LEMMA LastEarlier ==
    ASSUME NEW l, NEW r, NEW p, NEW S, NEW pos, NEW root, Rooted(l, r, p, S, pos, root),
           NEW C, C = S[root]
    PROVE  Earlier(S, pos, C, root) \cup {root} = C
<1>1. Nested(l, r, S, pos) /\ root \in Keys
  BY DEF Rooted
<1>2. root \in C /\ \A x \in C : x # root => root \notin S[x]
  BY <1>1, Sides, Antisymmetric
<1> QED
  BY <1>2 DEF Earlier

\* One round of the walk.
Walking(S, pos, C, s, i) ==
    /\ s.node \in C \cup {NULL}
    /\ s.node # NULL => s.gone = Earlier(S, pos, C, s.node) /\ Cardinality(s.gone) = i
    /\ s.node = NULL => s.gone = C

ClearStep(t, s) ==
    IF s.node = NULL THEN s
    ELSE [node |-> ClearNext(t, s.node), gone |-> s.gone \cup {s.node}]

LEMMA ClearNextIs ==
    ASSUME NEW t, NEW S, NEW pos, NEW E, NEW C, Evened(t, S, pos, E, C), NEW n \in C,
           NEW m, m = ClearNext(t, n)
    PROVE  /\ m \in C \cup {NULL}
           /\ IF m = NULL THEN Earlier(S, pos, C, n) \cup {n} = C
              ELSE Earlier(S, pos, C, n) \cup {n} = Earlier(S, pos, C, m)
<1>1. /\ Shaped(t, S, pos) /\ S[t.root] = C /\ n \in S[t.root]
      /\ Nested(t.left, t.right, S, pos) /\ Linked(t.left, t.right, t.parent) /\ t \in Trees
  BY DEF Evened, Shaped
<1>2. n \in Keys /\ C \subseteq Keys /\ t.root # NULL /\ NULL \notin Keys
  BY <1>1, InTree, NoKey
<1>3. Rooted(t.left, t.right, t.parent, S, pos, t.root)
  BY <1>1, <1>2, ShapedRooted
<1>4. PICK p : p = t.parent[n]
  OBVIOUS
<1>5. CASE p = NULL
  <2>1. m = NULL /\ n = t.root
    BY <1>1, <1>4, <1>5, InTree DEF ClearNext
  <2> QED
    BY <1>1, <1>3, <2>1, LastEarlier
<1>6. CASE p # NULL
  <2>1. p \in C /\ p \in Keys
    BY <1>1, <1>2, <1>4, <1>6, InTree
  <2>2. (t.left[p] = n /\ t.right[p] # n) \/ (t.right[p] = n /\ t.left[p] # n)
    BY <1>1, <1>2, <1>4, <1>6, AtParent
  <2>3. getPosition(t, n) = "left" <=> t.left[p] = n
    BY <1>1, <1>2, <1>4, <1>6, PositionIs
  <2>4. CASE t.left[p] = n /\ t.right[p] # NULL
    <3>1. m = ClearFrom(t, t.right[p])
      BY <1>4, <1>6, <2>3, <2>4 DEF ClearNext
    <3>2. t.right[p] \in C
      BY <1>1, <2>1, <2>4, InTree
    <3>3. FirstOf(S, pos, t.right[p], m)
      BY <3>1, <3>2, ClearFromIs
    <3>4. Earlier(S, pos, C, m) = Earlier(S, pos, C, n) \cup {n} /\ m \in C
      BY <1>1, <1>3, <2>1, <2>4, <3>3, AcrossEarlier
    <3> QED
      BY <1>2, <3>4
  <2>5. CASE ~(t.left[p] = n /\ t.right[p] # NULL)
    <3>1. m = p
      BY <1>4, <1>6, <2>3, <2>5 DEF ClearNext
    <3>2. t.left[p] = n => t.right[p] = NULL
      BY <2>5
    <3>3. Earlier(S, pos, C, t.parent[n]) = Earlier(S, pos, C, n) \cup {n}
      BY <1>1, <1>3, <1>4, <1>6, <3>2, UpEarlier
    <3> QED
      BY <1>2, <1>4, <2>1, <3>1, <3>3
  <2> QED
    BY <2>4, <2>5
<1> QED
  BY <1>5, <1>6

LEMMA WalkingStep ==
    ASSUME NEW t, NEW S, NEW pos, NEW E, NEW C, Evened(t, S, pos, E, C),
           NEW s, NEW i \in Nat, Walking(S, pos, C, s, i)
    PROVE  Walking(S, pos, C, ClearStep(t, s), i + 1)
<1>1. CASE s.node = NULL
  BY <1>1 DEF Walking, ClearStep
<1>2. CASE s.node # NULL
  <2>1. PICK n, m, g : n = s.node /\ m = ClearNext(t, n) /\ g = s.gone
    OBVIOUS
  <2>2. n \in C /\ g = Earlier(S, pos, C, n) /\ Cardinality(g) = i
    BY <1>2, <2>1 DEF Walking
  <2>3. /\ m \in C \cup {NULL}
        /\ m = NULL => g \cup {n} = C
        /\ m # NULL => g \cup {n} = Earlier(S, pos, C, m)
    BY <2>1, <2>2, ClearNextIs
  <2>4. Cardinality(g \cup {n}) = i + 1
    <3>1. /\ Nested(t.left, t.right, S, pos) /\ n \in Keys /\ C \subseteq Keys
      BY <2>2, InTree DEF Evened, Shaped
    <3>2. n \in S[n]
      BY <3>1, Sides
    <3>3. n \notin g /\ g \subseteq Keys
      BY <2>2, <3>1, <3>2 DEF Earlier
    <3>4. IsFiniteSet(g)
      BY <3>3, KeysAreNumbers, FS_Subset
    <3> QED
      BY <2>2, <3>3, <3>4, FS_AddElement
  <2>5. ClearStep(t, s) = [node |-> m, gone |-> g \cup {n}]
    BY <1>2, <2>1 DEF ClearStep
  <2> QED
    BY <2>3, <2>4, <2>5 DEF Walking
<1> QED
  BY <1>1, <1>2

LEMMA ClearedIs ==
    ASSUME NEW t, t.root # NULL, NEW R, NEW s0, s0 = [node |-> ClearFrom(t, t.root), gone |-> {}],
           s0 \in R, \A s \in R : ClearStep(t, s) \in R
    PROVE  \E h : /\ \A i \in 0..Rounds : h[i] = IF i = 0 THEN s0 ELSE ClearStep(t, h[i - 1])
                  /\ Cleared(t) = h[Rounds].gone
<1> DEFINE F == [s \in R |-> ClearStep(t, s)]
           after[i \in 0..Rounds] == IF i = 0 THEN s0 ELSE ClearStep(t, after[i - 1])
<1>1. Cleared(t) = after[Rounds].gone
  BY DEF Cleared, Iterate, ClearStep
<1>2. s0 \in R /\ F \in [R -> R] /\ \A s \in R : F[s] = ClearStep(t, s)
  OBVIOUS
<1> HIDE DEF F
<1>3. \E h : RunOf(h, R, s0, F, Rounds)
  BY <1>2, RoundsIs, Loop
<1>4. PICK h \in [0..Rounds -> R] : \A i \in 0..Rounds : h[i] = IF i = 0 THEN s0 ELSE F[h[i - 1]]
  BY <1>3 DEF RunOf
<1>5. \A i \in 0..Rounds : h[i] = IF i = 0 THEN s0 ELSE ClearStep(t, h[i - 1])
  <2> SUFFICES ASSUME NEW i \in 0..Rounds, i # 0
               PROVE  h[i] = ClearStep(t, h[i - 1])
    BY <1>4
  <2>1. i - 1 \in 0..Rounds
    BY RoundsIs
  <2>2. h[i - 1] \in R
    BY <2>1
  <2> QED
    BY <1>2, <1>4, <2>2
<1> DEFINE Solves(g) == g = [i \in 0..Rounds |-> IF i = 0 THEN s0 ELSE ClearStep(t, g[i - 1])]
<1>6. Solves(h)
  BY <1>5
<1>7. Solves(after)
  <2> HIDE DEF Solves
  <2>1. \E g : Solves(g)
    BY <1>6
  <2>2. after = CHOOSE g : Solves(g)
    BY DEF Solves
  <2> QED
    BY <2>1, <2>2
<1>8. \A i \in 0..Rounds : after[i] = IF i = 0 THEN s0 ELSE ClearStep(t, after[i - 1])
  BY <1>7
<1> HIDE DEF after, Solves
<1> QED
  BY <1>1, <1>8

\* The walk destroys every node, in as many rounds as there are nodes.
LEMMA AllCleared ==
    ASSUME NEW t, NEW S, NEW pos, NEW E, NEW C, Evened(t, S, pos, E, C)
    PROVE  Cleared(t) = C
<1>1. /\ Shaped(t, S, pos) /\ S[t.root] = C
      /\ Nested(t.left, t.right, S, pos) /\ t \in Trees /\ t.root \in Pointers /\ S[NULL] = {}
  BY DEF Evened, Shaped, Trees, Nested
<1>2. CASE t.root = NULL
  BY <1>1, <1>2 DEF Cleared
<1>3. CASE t.root # NULL
  <2>1. t.root \in Keys /\ t.root \in C /\ C \subseteq Keys
    BY <1>1, <1>3, NoKey, Sides
  <2>2. IsFiniteSet(C) /\ Cardinality(C) \in Nat /\ Cardinality(C) <= Rounds /\ Rounds \in Nat
    <3>1. IsFiniteSet(Keys) /\ IsFiniteSet(C) /\ Cardinality(C) <= Cardinality(Keys)
      BY <2>1, KeysAreNumbers, FS_Subset
    <3>2. Cardinality(Keys) \in Nat /\ Cardinality(C) \in Nat
      BY <3>1, FS_CardinalityType
    <3> QED
      BY <3>1, <3>2 DEF Rounds
  <2>3. PICK s0 : s0 = [node |-> ClearFrom(t, t.root), gone |-> {}]
    OBVIOUS
  <2>4. FirstOf(S, pos, t.root, ClearFrom(t, t.root))
    BY <2>1, ClearFromIs
  <2>5. Walking(S, pos, C, s0, 0)
    <3>1. Earlier(S, pos, C, s0.node) = {} /\ s0.node \in C /\ s0.gone = {}
      BY <1>1, <2>3, <2>4, NoneEarlier
    <3>2. Cardinality({}) = 0
      BY FS_EmptySet
    <3>3. s0.node # NULL
      BY <2>1, <3>1, NoKey
    <3> QED
      BY <3>1, <3>2, <3>3 DEF Walking
  <2>6. PICK R : R = [node : C \cup {NULL}, gone : SUBSET C]
    OBVIOUS
  <2>7. s0 \in R
    <3>1. s0.node \in C \cup {NULL}
      BY <2>5 DEF Walking
    <3> QED
      BY <2>3, <2>6, <3>1
  <2>8. ASSUME NEW s \in R
        PROVE  ClearStep(t, s) \in R
    <3>1. CASE s.node = NULL
      BY <3>1 DEF ClearStep
    <3>2. CASE s.node # NULL
      <4>1. PICK n, m : n = s.node /\ m = ClearNext(t, n)
        OBVIOUS
      <4>2. n \in C /\ s.gone \subseteq C
        BY <2>6, <3>2, <4>1
      <4>3. m \in C \cup {NULL}
        BY <4>1, <4>2, ClearNextIs
      <4>4. ClearStep(t, s) = [node |-> m, gone |-> s.gone \cup {n}]
        BY <3>2, <4>1 DEF ClearStep
      <4> QED
        BY <2>6, <4>2, <4>3, <4>4
    <3> QED
      BY <3>1, <3>2
  <2>9. PICK h : /\ \A i \in 0..Rounds : h[i] = IF i = 0 THEN s0 ELSE ClearStep(t, h[i - 1])
                 /\ Cleared(t) = h[Rounds].gone
    BY <1>3, <2>3, <2>7, <2>8, ClearedIs
  <2> DEFINE Q == {k \in Nat : k \in 0..Rounds => Walking(S, pos, C, h[k], k)}
  <2>10. ASSUME NEW k \in Nat, \A m \in 0 .. (k - 1) : m \in Q
         PROVE  k \in Q
    <3>1. CASE k \notin 0..Rounds
      BY <3>1
    <3>2. CASE k \in 0..Rounds /\ k = 0
      BY <2>5, <2>9, <3>2
    <3>3. CASE k \in 0..Rounds /\ k # 0
      <4>1. k - 1 \in 0 .. (k - 1) /\ k - 1 \in 0..Rounds /\ k - 1 \in Nat /\ k - 1 + 1 = k
        BY <2>2, <3>3
      <4>2. Walking(S, pos, C, h[k - 1], k - 1)
        BY <2>10, <4>1
      <4>3. Walking(S, pos, C, ClearStep(t, h[k - 1]), k - 1 + 1)
        BY <4>1, <4>2, WalkingStep
      <4>4. h[k] = ClearStep(t, h[k - 1])
        BY <2>9, <3>3
      <4> QED
        BY <4>1, <4>3, <4>4
    <3> QED
      BY <3>1, <3>2, <3>3
  <2> HIDE DEF Q
  <2>11. Nat \subseteq Q
    BY <2>10, StrongInduction
  <2>12. Walking(S, pos, C, h[Rounds], Rounds)
    BY <2>2, <2>11 DEF Q
  <2>13. h[Rounds].node = NULL
    <3>1. SUFFICES ASSUME h[Rounds].node # NULL
                   PROVE  FALSE
      OBVIOUS
    <3>2. PICK n, g : n = h[Rounds].node /\ g = h[Rounds].gone
      OBVIOUS
    <3>3. n \in C /\ g = Earlier(S, pos, C, n) /\ Cardinality(g) = Rounds
      BY <2>12, <3>1, <3>2 DEF Walking
    <3>4. n \in S[n]
      BY <1>1, <2>1, <3>3, Sides
    <3>5. g \subseteq C /\ g # C
      BY <3>3, <3>4 DEF Earlier
    <3>6. Cardinality(g) < Cardinality(C)
      BY <2>2, <3>5, FS_Subset, FS_CardinalityType
    <3> QED
      <4>1. Cardinality(g) \in Nat
        BY <2>2, <3>3
      <4> QED
        BY <2>2, <3>3, <3>6
  <2> QED
    BY <2>9, <2>12, <2>13 DEF Walking
<1> QED
  BY <1>2, <1>3

\* As long as it looks at the node it rotates, the loop under "Balancing" follows
\* no null pointer and leaves every node balanced, with its height in it, and clear
\* destroys every node.
THEOREM AVLBalanced == AVLSpec => []KeptBalanced
<1>1. BalInv => KeptBalanced
  <2> SUFFICES ASSUME BalInv, ~byNode, ~tree.misjudged
               PROVE  /\ ~tree.fault
                      /\ \A n \in Contents(tree) : /\ BalancedAt(tree, n)
                                                   /\ tree.depth[n] = Height(tree, n)
                      /\ Cleared(tree) = Contents(tree)
    BY DEF KeptBalanced
  <2>1. PICK C : C = kept
    OBVIOUS
  <2>2. Holds(tree, C) /\ ~tree.fault /\ Settled(tree, C)
    BY <2>1 DEF BalInv, Carries
  <2>3. Contents(tree) = C
    BY <2>2, ContentsAre DEF Holds
  <2>4. PICK S, E : Evened(tree, S, InKeyOrder, E, C) /\ \A n \in C : tree.depth[n] = E[n]
    BY <2>2, HeldEvened
  <2>5. Cleared(tree) = C
    BY <2>4, AllCleared
  <2>6. \A n \in C \cup {NULL} : Height(tree, n) = E[n]
    BY <2>2, <2>4, HeightsAre DEF Holds
  <2>7. ASSUME NEW n \in C
        PROVE  BalancedAt(tree, n) /\ tree.depth[n] = Height(tree, n)
    <3>1. PICK l, r : l = tree.left[n] /\ r = tree.right[n]
      OBVIOUS
    <3>2. l \in C \cup {NULL} /\ r \in C \cup {NULL} /\ C \subseteq Keys
      BY <2>4, <3>1, InTreeOrNull DEF Evened
    <3>3. E[l] \in Nat /\ E[r] \in Nat
      BY <2>4, <3>2, NoKey DEF Evened
    <3>4. Even(E[l], E[r])
      BY <2>4, <3>1 DEF Evened, Grown
    <3>5. E[l] - E[r] \in -1..1
      BY <3>3, <3>4 DEF Even
    <3>6. Height(tree, l) = E[l] /\ Height(tree, r) = E[r]
      BY <2>6, <3>2
    <3> QED
      BY <2>4, <2>6, <3>1, <3>5, <3>6 DEF BalancedAt
  <2> QED
    BY <2>2, <2>3, <2>5, <2>7
<1> QED
  BY <1>1, AVLBalInvariance, PTL
=============================================================================
