----------------------------- MODULE ValuesProofs -----------------------------
(***************************************************************************)
(* Theorems about the values of variables, Arrays, KeyValues and KeySet.   *)
(*                                                                         *)
(* An array holds what the calls describe, and its block is as large as    *)
(* its capacity says, for elements and headers of any width and any        *)
(* number of elements.                                                     *)
(*                                                                         *)
(* No array of a key leaks, none has two owners, none is deleted twice,    *)
(* for any keys, array variables and addresses.  That an owner is the only *)
(* one is a fact about every two places.  The counting form of OneOwner is *)
(* derived from it.                                                        *)
(*                                                                         *)
(* A map whose keys are comparable is in order of iteration and each of    *)
(* its keys is found.  The comparators of the code are an order of such    *)
(* keys, and a search whose answers are an order ends at one place,        *)
(* whatever the shape of the tree it goes through.                         *)
(***************************************************************************)
EXTENDS Arrays, KeySet, SequenceTheorems, FiniteSetTheorems, WellFoundedInduction, TLAPS

\* Any sequence of calls on one array.
ArraysSpec == ArraysInit /\ [][ArraysNext]_arrayVars

-----------------------------------------------------------------------------
(* Induction *)

\* A set that has n whenever it has all that is below n has all numbers.
LEMMA StrongInduction ==
    ASSUME NEW S, \A n \in Nat : (\A m \in 0 .. (n - 1) : m \in S) => n \in S
    PROVE  Nat \subseteq S
<1> DEFINE T == Nat \ S
           R == OpToRel(<, Nat)
<1> SUFFICES ASSUME T # {} PROVE FALSE
  OBVIOUS
<1>1. IsWellFoundedOn(R, Nat)
  BY NatLessThanWellFounded
<1>2. T \subseteq Nat
  OBVIOUS
<1> HIDE DEF R, T
<1>3. \E x \in T : \A y \in T : ~ (<<y, x>> \in R)
  BY <1>1, <1>2, WFMin
<1> USE DEF R, T
<1>4. PICK x \in T : \A y \in T : ~ (<<y, x>> \in R)
  BY <1>3
<1>5. \A y \in T : ~ (y < x)
  BY <1>4 DEF OpToRel
<1> QED
  BY <1>5

-----------------------------------------------------------------------------
(* getNearestPow2 *)

\* The first n + 1 values of getNearestPow2.
Pow2Until(n, g) ==
    /\ g \in [0..n -> Nat]
    /\ \A m \in 0..n : g[m] = IF m <= 1 THEN m ELSE 2 * g[(m + 1) \div 2]

LEMMA HalfIsLess ==
    ASSUME NEW m \in Nat, m > 1
    PROVE  (m + 1) \div 2 \in 0 .. (m - 1) /\ 2 * ((m + 1) \div 2) >= m
  OBVIOUS

LEMMA Pow2Unique ==
    ASSUME NEW n \in Nat, NEW k \in Nat, NEW g, NEW h,
           Pow2Until(n, g), Pow2Until(k, h)
    PROVE  \A m \in Nat : m <= n /\ m <= k => g[m] = h[m]
<1> DEFINE S == {m \in Nat : m <= n /\ m <= k => g[m] = h[m]}
<1>1. ASSUME NEW m \in Nat, \A i \in 0 .. (m - 1) : i \in S
      PROVE  m \in S
  <2> SUFFICES ASSUME m <= n, m <= k PROVE g[m] = h[m]
    OBVIOUS
  <2>1. CASE m <= 1
    BY <2>1 DEF Pow2Until
  <2>2. CASE m > 1
    <3>1. g[(m + 1) \div 2] = h[(m + 1) \div 2]
      BY <1>1, <2>2, HalfIsLess
    <3>2. g[m] = 2 * g[(m + 1) \div 2] /\ h[m] = 2 * h[(m + 1) \div 2]
      BY <2>2 DEF Pow2Until
    <3> QED
      BY <3>1, <3>2
  <2> QED
    BY <2>1, <2>2
<1> HIDE DEF S
<1>2. Nat \subseteq S
  BY <1>1, StrongInduction
<1> QED
  BY <1>2 DEF S

LEMMA Pow2Exists == \A n \in Nat : \E g : Pow2Until(n, g)
<1> DEFINE S == {n \in Nat : \E g : Pow2Until(n, g)}
<1>1. ASSUME NEW n \in Nat, \A m \in 0 .. (n - 1) : m \in S
      PROVE  n \in S
  <2>1. CASE n <= 1
    <3> DEFINE g == [m \in 0..n |-> m]
    <3>1. Pow2Until(n, g)
      BY <2>1 DEF Pow2Until
    <3> QED
      BY <3>1
  <2>2. CASE n > 1
    <3>1. PICK h : Pow2Until(n - 1, h)
      BY <1>1, <2>2
    <3> DEFINE g == [m \in 0..n |-> IF m = n THEN 2 * h[(n + 1) \div 2] ELSE h[m]]
    <3>2. (n + 1) \div 2 \in 0 .. (n - 1)
      BY <2>2, HalfIsLess
    <3>3. g \in [0..n -> Nat]
      BY <2>2, <3>1, <3>2 DEF Pow2Until
    <3>4. ASSUME NEW m \in 0..n
          PROVE  g[m] = IF m <= 1 THEN m ELSE 2 * g[(m + 1) \div 2]
      <4>1. CASE m <= 1
        BY <2>2, <3>1, <4>1 DEF Pow2Until
      <4>2. CASE m > 1
        <5>1. (m + 1) \div 2 \in 0 .. (m - 1)
          BY <4>2, HalfIsLess
        <5>2. g[(m + 1) \div 2] = h[(m + 1) \div 2]
          BY <5>1
        <5>3. CASE m = n
          BY <4>2, <5>2, <5>3
        <5>4. CASE m # n
          BY <3>1, <4>2, <5>2, <5>4 DEF Pow2Until
        <5> QED
          BY <5>3, <5>4
      <4> QED
        BY <4>1, <4>2
    <3> HIDE DEF g
    <3>5. Pow2Until(n, g)
      BY <3>3, <3>4 DEF Pow2Until
    <3> QED
      BY <3>5
  <2> QED
    BY <2>1, <2>2
<1> HIDE DEF S
<1>2. Nat \subseteq S
  BY <1>1, StrongInduction
<1> QED
  BY <1>2 DEF S

\* The recursion of getNearestPow2 defines a function.
LEMMA Pow2Defined ==
    getNearestPow2 =
        [n \in Nat |-> IF n <= 1 THEN n ELSE 2 * getNearestPow2[(n + 1) \div 2]]
<1> DEFINE v(n) == CHOOSE g : Pow2Until(n, g)
           f == [n \in Nat |-> v(n)[n]]
<1>1. \A n \in Nat : Pow2Until(n, v(n))
  BY Pow2Exists
<1> HIDE DEF v
<1>2. ASSUME NEW n \in Nat
      PROVE  f[n] = IF n <= 1 THEN n ELSE 2 * f[(n + 1) \div 2]
  <2>1. CASE n <= 1
    BY <1>1, <2>1 DEF Pow2Until
  <2>2. CASE n > 1
    <3> DEFINE q == (n + 1) \div 2
    <3>1. q \in 0 .. (n - 1) /\ q \in Nat
      BY <2>2, HalfIsLess
    <3>2. v(n)[n] = 2 * v(n)[q]
      BY <1>1, <2>2 DEF Pow2Until
    <3> HIDE DEF q
    <3>3. v(n)[q] = v(q)[q]
      BY <1>1, <3>1, Pow2Unique
    <3> QED
      BY <2>2, <3>1, <3>2, <3>3 DEF q
  <2> QED
    BY <2>1, <2>2
<1>3. f = [n \in Nat |-> IF n <= 1 THEN n ELSE 2 * f[(n + 1) \div 2]]
  BY <1>2
<1> HIDE DEF f
<1>4. \E g : g = [n \in Nat |-> IF n <= 1 THEN n ELSE 2 * g[(n + 1) \div 2]]
  BY <1>3
<1> QED
  BY <1>4 DEF getNearestPow2

\* getNearestPow2 rounds up.
LEMMA Pow2RoundsUp == \A n \in Nat : getNearestPow2[n] \in Nat /\ getNearestPow2[n] >= n
<1> DEFINE S == {n \in Nat : getNearestPow2[n] \in Nat /\ getNearestPow2[n] >= n}
<1>1. ASSUME NEW n \in Nat, \A m \in 0 .. (n - 1) : m \in S
      PROVE  n \in S
  <2>1. getNearestPow2[n] = IF n <= 1 THEN n ELSE 2 * getNearestPow2[(n + 1) \div 2]
    BY Pow2Defined
  <2>2. CASE n <= 1
    BY <2>1, <2>2
  <2>3. CASE n > 1
    <3> DEFINE q == (n + 1) \div 2
    <3>1. q \in 0 .. (n - 1) /\ 2 * q >= n
      BY <2>3, HalfIsLess
    <3>2. getNearestPow2[q] \in Nat /\ getNearestPow2[q] >= q
      BY <1>1, <3>1
    <3>3. getNearestPow2[n] = 2 * getNearestPow2[q]
      BY <2>1, <2>3
    <3> HIDE DEF q
    <3> QED
      BY <3>1, <3>2, <3>3
  <2> QED
    BY <2>2, <2>3
<1> HIDE DEF S
<1>2. Nat \subseteq S
  BY <1>1, StrongInduction
<1> QED
  BY <1>2 DEF S

-----------------------------------------------------------------------------
(* The inductive invariant *)

Elements == ArrayValues \cup {NoElement}

Vectors == [kind : {"array", "buffer"}, width : Nat \ {0}, count : 0..MaxElements,
            capacity : Nat, block : Nat, slots : [Slots -> Elements]]

\* v has the elements of s, in order.
Keeps(v, s) ==
    /\ v.count = Len(s)
    /\ \A i \in 1..Len(s) : v.slots[i - 1] = s[i]

\* A block is as large as the capacity says; a buffer that was copied has a
\* header too many.
BlockFromCapacity(v) ==
    \/ v.block = v.capacity
    \/ v.kind = "buffer" /\ v.block = ArrayHeader + v.capacity

ArraysInv ==
    /\ vector \in Vectors
    /\ contents \in Seq(ArrayValues) /\ Len(contents) <= MaxElements
    /\ BlockFromCapacity(vector)
    /\ ArraysHold

-----------------------------------------------------------------------------
(* Sequences and blocks *)

LEMMA ConstantsAreNumbers ==
    /\ ArrayHeader \in Nat \ {0} /\ LinkWidth \in Nat \ {0} /\ MaxElements \in Nat \ {0}
    /\ BufferWidths \subseteq Nat \ {0}
  BY ArraysAssumption

\* Two sequences, one behind the other.
LEMMA TwoParts ==
    ASSUME NEW a \in Seq(ArrayValues), NEW b \in Seq(ArrayValues)
    PROVE  \E r \in Seq(ArrayValues) :
              /\ r = a \o b /\ Len(r) = Len(a) + Len(b)
              /\ \A i \in 1..Len(a) : r[i] = a[i]
              /\ \A i \in 1..Len(b) : r[Len(a) + i] = b[i]
<1>1. a \o b \in Seq(ArrayValues) /\ Len(a \o b) = Len(a) + Len(b)
  BY ConcatProperties
<1>2. \A i \in 1..(Len(a) + Len(b)) :
         (a \o b)[i] = IF i <= Len(a) THEN a[i] ELSE b[i - Len(a)]
  BY ConcatProperties
<1>3. PICK r \in Seq(ArrayValues) :
          /\ r = a \o b /\ Len(r) = Len(a) + Len(b)
          /\ \A i \in 1..(Len(a) + Len(b)) :
                r[i] = IF i <= Len(a) THEN a[i] ELSE b[i - Len(a)]
  BY <1>1, <1>2
<1>4. \A i \in 1..Len(a) : r[i] = a[i]
  BY <1>3
<1>5. ASSUME NEW i \in 1..Len(b) PROVE r[Len(a) + i] = b[i]
  <2>1. /\ Len(a) + i \in 1..(Len(a) + Len(b)) /\ ~ (Len(a) + i <= Len(a))
        /\ (Len(a) + i) - Len(a) = i
    OBVIOUS
  <2>2. r[Len(a) + i] = b[(Len(a) + i) - Len(a)]
    BY <1>3, <2>1
  <2> QED
    BY <2>1, <2>2
<1> QED
  BY <1>3, <1>4, <1>5

\* The first k elements of a sequence, and the others.
LEMMA HeadAndTail ==
    ASSUME NEW s \in Seq(ArrayValues), NEW n \in Nat, Len(s) = n,
           NEW k \in Nat, k <= n
    PROVE  \E h \in Seq(ArrayValues), t \in Seq(ArrayValues) :
              /\ h = SubSeq(s, 1, k) /\ t = SubSeq(s, k + 1, n)
              /\ Len(h) = k /\ Len(t) = n - k
              /\ \A i \in 1..k : h[i] = s[i]
              /\ \A i \in 1..(n - k) : t[i] = s[k + i]
<1> DEFINE h == SubSeq(s, 1, k)
           t == SubSeq(s, k + 1, n)
<1>1. /\ h = SubSeq(s, 1, k) /\ h \in Seq(ArrayValues) /\ Len(h) = k
      /\ \A i \in 1..k : h[i] = s[i]
  OBVIOUS
<1>2. /\ t = SubSeq(s, k + 1, n) /\ t \in Seq(ArrayValues) /\ Len(t) = n - k
      /\ \A i \in 1..(n - k) : t[i] = s[k + i]
  OBVIOUS
<1> HIDE DEF h, t
<1> QED
  BY <1>1, <1>2

\* The first at elements of a sequence and those from a place behind them on.
LEMMA CutSequence ==
    ASSUME NEW s \in Seq(ArrayValues),
           NEW at \in Nat, NEW from \in Nat, at <= from, from <= Len(s)
    PROVE  \E r \in Seq(ArrayValues) :
              /\ r = SubSeq(s, 1, at) \o SubSeq(s, from + 1, Len(s))
              /\ Len(r) = at + (Len(s) - from)
              /\ \A i \in 1..at : r[i] = s[i]
              /\ \A i \in 1..(Len(s) - from) : r[at + i] = s[from + i]
<1>0. PICK len \in Nat : len = Len(s)
  OBVIOUS
<1>a. at <= len /\ from <= len /\ Len(s) = len
  BY <1>0
<1>b. ASSUME NEW k \in Nat, k <= len
      PROVE  \E h \in Seq(ArrayValues), t \in Seq(ArrayValues) :
                /\ h = SubSeq(s, 1, k) /\ t = SubSeq(s, k + 1, len)
                /\ Len(h) = k /\ Len(t) = len - k
                /\ \A i \in 1..k : h[i] = s[i]
                /\ \A i \in 1..(len - k) : t[i] = s[k + i]
  BY <1>a, <1>b, HeadAndTail, ZenonT(40)
<1>c. \E y \in Seq(ArrayValues), c \in Seq(ArrayValues) :
          /\ y = SubSeq(s, 1, from) /\ c = SubSeq(s, from + 1, len)
          /\ Len(y) = from /\ Len(c) = len - from
          /\ \A i \in 1..from : y[i] = s[i]
          /\ \A i \in 1..(len - from) : c[i] = s[from + i]
  BY <1>a, <1>b, Zenon
<1>1. PICK a \in Seq(ArrayValues), x \in Seq(ArrayValues) :
          /\ a = SubSeq(s, 1, at) /\ x = SubSeq(s, at + 1, len)
          /\ Len(a) = at /\ Len(x) = len - at
          /\ \A i \in 1..at : a[i] = s[i]
          /\ \A i \in 1..(len - at) : x[i] = s[at + i]
  BY <1>a, <1>b, Zenon
<1>2. PICK y \in Seq(ArrayValues), c \in Seq(ArrayValues) :
          /\ y = SubSeq(s, 1, from) /\ c = SubSeq(s, from + 1, len)
          /\ Len(y) = from /\ Len(c) = len - from
          /\ \A i \in 1..from : y[i] = s[i]
          /\ \A i \in 1..(len - from) : c[i] = s[from + i]
  BY <1>c, Zenon
<1>3. \E r \in Seq(ArrayValues) :
         /\ r = a \o c /\ Len(r) = Len(a) + Len(c)
         /\ \A i \in 1..Len(a) : r[i] = a[i]
         /\ \A i \in 1..Len(c) : r[Len(a) + i] = c[i]
  BY TwoParts, Zenon
<1>4. PICK r \in Seq(ArrayValues) :
          /\ r = a \o c /\ Len(r) = at + (len - from)
          /\ \A i \in 1..at : r[i] = a[i]
          /\ \A i \in 1..(len - from) : r[at + i] = c[i]
  <2>1. Len(a) = at /\ Len(c) = len - from
    BY <1>1, <1>2
  <2> QED
    BY <1>3, <2>1, Zenon
<1>5. \A i \in 1..at : r[i] = s[i]
  BY <1>1, <1>4
<1>6. \A i \in 1..(len - from) : r[at + i] = s[from + i]
  BY <1>2, <1>4
<1>7. r = SubSeq(s, 1, at) \o SubSeq(s, from + 1, len)
  BY <1>1, <1>2, <1>4, Zenon
<1> QED
  BY <1>a, <1>4, <1>5, <1>6, <1>7, Zenon

\* A sequence with a list put behind its first at elements.
LEMMA SplicedSequence ==
    ASSUME NEW s \in Seq(ArrayValues), NEW at \in Nat, at <= Len(s),
           NEW list \in Seq(ArrayValues)
    PROVE  \E r \in Seq(ArrayValues) :
              /\ r = SubSeq(s, 1, at) \o list \o SubSeq(s, at + 1, Len(s))
              /\ Len(r) = Len(s) + Len(list)
              /\ \A i \in 1..at : r[i] = s[i]
              /\ \A i \in 1..Len(list) : r[at + i] = list[i]
              /\ \A i \in 1..(Len(s) - at) : r[at + Len(list) + i] = s[at + i]
<1> DEFINE len == Len(s)
           n == Len(list)
<1>0. /\ len \in Nat /\ Len(s) = len /\ at <= len
      /\ n \in Nat /\ Len(list) = n
  OBVIOUS
<1> HIDE DEF len, n
<1>1. PICK a \in Seq(ArrayValues), c \in Seq(ArrayValues) :
          /\ a = SubSeq(s, 1, at) /\ c = SubSeq(s, at + 1, len)
          /\ Len(a) = at /\ Len(c) = len - at
          /\ \A i \in 1..at : a[i] = s[i]
          /\ \A i \in 1..(len - at) : c[i] = s[at + i]
  BY <1>0, HeadAndTail, ZenonT(40)
<1>2. \E f \in Seq(ArrayValues) :
         /\ f = a \o list /\ Len(f) = Len(a) + Len(list)
         /\ \A i \in 1..Len(a) : f[i] = a[i]
         /\ \A i \in 1..Len(list) : f[Len(a) + i] = list[i]
  BY TwoParts, Zenon
<1>3. PICK f \in Seq(ArrayValues) :
          /\ f = a \o list /\ Len(f) = at + n
          /\ \A i \in 1..at : f[i] = a[i]
          /\ \A i \in 1..n : f[at + i] = list[i]
  <2>1. Len(a) = at /\ Len(list) = n
    BY <1>0, <1>1
  <2> QED
    BY <1>2, <2>1, Zenon
<1>4. \E r \in Seq(ArrayValues) :
         /\ r = f \o c /\ Len(r) = Len(f) + Len(c)
         /\ \A i \in 1..Len(f) : r[i] = f[i]
         /\ \A i \in 1..Len(c) : r[Len(f) + i] = c[i]
  BY TwoParts, Zenon
<1>5. PICK r \in Seq(ArrayValues) :
          /\ r = f \o c /\ Len(r) = at + n + (len - at)
          /\ \A i \in 1..(at + n) : r[i] = f[i]
          /\ \A i \in 1..(len - at) : r[at + n + i] = c[i]
  <2>1. Len(f) = at + n /\ Len(c) = len - at
    BY <1>1, <1>3
  <2> DEFINE k == at + n
             m == len - at
  <2>2. Len(f) = k /\ Len(c) = m
    BY <2>1
  <2> HIDE DEF k, m
  <2>3. PICK r \in Seq(ArrayValues) :
          /\ r = f \o c /\ Len(r) = k + m
          /\ \A i \in 1..k : r[i] = f[i]
          /\ \A i \in 1..m : r[k + i] = c[i]
    BY <1>4, <2>2, Zenon
  <2> QED
    BY <2>3 DEF k, m
<1>6. ASSUME NEW i \in 1..at PROVE r[i] = s[i]
  <2>1. i \in 1..(at + n)
    BY <1>0
  <2> QED
    BY <1>1, <1>3, <1>5, <2>1, Zenon
<1>7. ASSUME NEW i \in 1..n PROVE r[at + i] = list[i]
  <2>1. at + i \in 1..(at + n)
    BY <1>0
  <2> QED
    BY <1>3, <1>5, <2>1, Zenon
<1>8. \A i \in 1..(len - at) : r[at + n + i] = s[at + i]
  BY <1>1, <1>5
<1>9. r = SubSeq(s, 1, at) \o list \o SubSeq(s, at + 1, len)
  BY <1>1, <1>3, <1>5, Zenon
<1>10. Len(r) = len + n
  <2>1. at + n + (len - at) = len + n
    BY <1>0
  <2> QED
    BY <1>5, <2>1, Zenon
<1> QED
  BY <1>6, <1>7, <1>8, <1>9, <1>10, Zenon DEF len, n

\* The capacity for a number of elements is enough for their block.
LEMMA CapacitySuffices ==
    ASSUME NEW w \in Nat, NEW n \in Nat
    PROVE  CapacityFor(w, n) \in Nat /\ CapacityFor(w, n) >= ArrayHeader + w * n
<1>1. ArrayHeader + w * n \in Nat
  BY ConstantsAreNumbers
<1> QED
  BY <1>1, Pow2RoundsUp DEF CapacityFor

\* Fewer elements fit where more did.
LEMMA FewerFit ==
    ASSUME NEW w \in Nat, NEW m \in Nat, NEW n \in Nat, m <= n
    PROVE  w * m \in Nat /\ w * n \in Nat /\ w * m <= w * n
<1>1. PICK d \in Nat : n = m + d
  <2>1. n - m \in Nat /\ n = m + (n - m)
    OBVIOUS
  <2> QED
    BY <2>1
<1>2. w * n = w * m + w * d /\ w * d \in Nat /\ w * m \in Nat
  BY <1>1
<1> QED
  BY <1>2

-----------------------------------------------------------------------------
(* What the methods do to the block *)

\* w is v with other elements, perhaps fewer.
SameBlock(w, v) ==
    /\ w \in Vectors /\ w.kind = v.kind /\ w.width = v.width
    /\ w.capacity = v.capacity /\ w.block = v.block

LEMMA ShortenedVector ==
    ASSUME NEW v \in Vectors, NEW n \in Nat
    PROVE  /\ SameBlock(Shortened(v, n), v)
           /\ Shortened(v, n).count = IF n <= v.count THEN v.count - n ELSE 0
           /\ Shortened(v, n).count <= v.count
           /\ Shortened(v, n).slots = v.slots
<1>1. Shortened(v, n) = [v EXCEPT !.count = IF n <= v.count THEN v.count - n ELSE 0]
  BY DEF Shortened
<1>2. (IF n <= v.count THEN v.count - n ELSE 0) \in 0..MaxElements
  BY ConstantsAreNumbers DEF Vectors
<1> QED
  BY <1>1, <1>2, ConstantsAreNumbers DEF SameBlock, Vectors

LEMMA MovedSlots ==
    ASSUME NEW v \in Vectors, NEW to \in Nat, NEW from \in Nat, NEW n \in Nat,
           from + n <= MaxElements
    PROVE  /\ SameBlock(MoveSlots(v, to, from, n), v)
           /\ MoveSlots(v, to, from, n).count = v.count
           /\ \A i \in Slots : i \notin to..(to + n - 1) =>
                 MoveSlots(v, to, from, n).slots[i] = v.slots[i]
           /\ \A i \in 0..(n - 1) : to + i \in Slots =>
                 MoveSlots(v, to, from, n).slots[to + i] = v.slots[from + i]
<1> DEFINE f == [i \in Slots |-> IF i \in to..(to + n - 1)
                                 THEN v.slots[from + i - to] ELSE v.slots[i]]
<1>1. MoveSlots(v, to, from, n) = [v EXCEPT !.slots = f]
  BY DEF MoveSlots
<1>2. ASSUME NEW i \in Slots, i \in to..(to + n - 1)
      PROVE  from + i - to \in Slots
  BY <1>2, ConstantsAreNumbers DEF Slots
<1>3. f \in [Slots -> Elements]
  BY <1>2 DEF Vectors
<1>4. ASSUME NEW i \in 0..(n - 1), to + i \in Slots
      PROVE  f[to + i] = v.slots[from + i]
  <2>1. to + i \in to..(to + n - 1) /\ from + (to + i) - to = from + i
    OBVIOUS
  <2> QED
    BY <1>4, <2>1
<1>5. \A i \in Slots : i \notin to..(to + n - 1) => f[i] = v.slots[i]
  OBVIOUS
<1> HIDE DEF f
<1> QED
  BY <1>1, <1>3, <1>4, <1>5 DEF SameBlock, Vectors

LEMMA SetSlotsOf ==
    ASSUME NEW v \in Vectors, NEW at \in Nat, NEW list \in Seq(ArrayValues),
           NEW n \in Nat, Len(list) = n
    PROVE  /\ SameBlock(SetSlots(v, at, list), v)
           /\ SetSlots(v, at, list).count = v.count
           /\ \A i \in Slots : i \notin at..(at + n - 1) =>
                 SetSlots(v, at, list).slots[i] = v.slots[i]
           /\ \A i \in 0..(n - 1) : at + i \in Slots =>
                 SetSlots(v, at, list).slots[at + i] = list[i + 1]
<1> DEFINE f == [i \in Slots |-> IF i \in at..(at + n - 1)
                                 THEN list[i - at + 1] ELSE v.slots[i]]
<1>1. SetSlots(v, at, list) = [v EXCEPT !.slots = f]
  BY DEF SetSlots
<1>2. ASSUME NEW i \in Slots, i \in at..(at + n - 1)
      PROVE  list[i - at + 1] \in ArrayValues
  <2>1. i - at + 1 \in 1..n
    BY <1>2, ConstantsAreNumbers DEF Slots
  <2> QED
    BY <2>1
<1>3. f \in [Slots -> Elements]
  BY <1>2 DEF Vectors, Elements
<1>4. ASSUME NEW i \in 0..(n - 1), at + i \in Slots
      PROVE  f[at + i] = list[i + 1]
  <2>1. at + i \in at..(at + n - 1) /\ (at + i) - at + 1 = i + 1
    OBVIOUS
  <2> QED
    BY <1>4, <2>1
<1>5. \A i \in Slots : i \notin at..(at + n - 1) => f[i] = v.slots[i]
  OBVIOUS
<1> HIDE DEF f
<1> QED
  BY <1>1, <1>3, <1>4, <1>5 DEF SameBlock, Vectors

\* A range of elements is removed: those behind it are moved, or it is the end.
LEMMA WithoutRangeVector ==
    ASSUME NEW v \in Vectors, NEW at \in Nat, NEW n \in Nat
    PROVE  /\ SameBlock(WithoutRange(v, at, n), v)
           /\ WithoutRange(v, at, n).count <= v.count
           /\ at <= v.count =>
                 LET from == IF at + n <= v.count THEN at + n ELSE v.count
                     w == WithoutRange(v, at, n)
                 IN  /\ w.count = at + (v.count - from)
                     /\ \A i \in 0..(at - 1) : w.slots[i] = v.slots[i]
                     /\ \A i \in 0..(v.count - from - 1) : w.slots[at + i] = v.slots[from + i]
<1>0. v.count \in Nat /\ v.count <= MaxElements /\ MaxElements \in Nat
  BY ConstantsAreNumbers DEF Vectors
<1>1. CASE at >= v.count
  <2>1. WithoutRange(v, at, n) = v
    BY <1>1 DEF WithoutRange
  <2> QED
    BY <1>0, <1>1, <2>1 DEF SameBlock
<1>2. CASE at < v.count /\ at + n >= v.count
  <2>1. WithoutRange(v, at, n) = Shortened(v, v.count - at)
    BY <1>0, <1>2 DEF WithoutRange
  <2>2. v.count - at \in Nat
    BY <1>0, <1>2
  <2>3. /\ SameBlock(Shortened(v, v.count - at), v)
        /\ Shortened(v, v.count - at).count = at
        /\ Shortened(v, v.count - at).slots = v.slots
    BY <1>0, <1>2, <2>2, ShortenedVector
  <2> QED
    BY <1>0, <1>2, <2>1, <2>3
<1>3. CASE at + n < v.count
  <2>1. PICK d \in Nat, from \in Nat : d = v.count - at - n /\ from = at + n
    BY <1>0, <1>3
  <2> DEFINE m == MoveSlots(v, at, from, d)
             w == WithoutRange(v, at, n)
  <2>2. w = Shortened(m, n)
    BY <1>0, <1>3, <2>1 DEF WithoutRange
  <2>3. /\ SameBlock(m, v) /\ m.count = v.count
        /\ \A i \in Slots : i \notin at..(at + d - 1) => m.slots[i] = v.slots[i]
        /\ \A i \in 0..(d - 1) : at + i \in Slots => m.slots[at + i] = v.slots[from + i]
    <3>1. from + d <= MaxElements
      BY <1>0, <2>1
    <3>2. SameBlock(m, v) /\ m.count = v.count
      BY <3>1, MovedSlots
    <3>3. \A i \in Slots : i \notin at..(at + d - 1) => m.slots[i] = v.slots[i]
      BY <3>1, MovedSlots
    <3>4. ASSUME NEW i \in 0..(d - 1), at + i \in Slots
          PROVE  m.slots[at + i] = v.slots[from + i]
      <4>1. at + i \in at..(at + d - 1) /\ from + (at + i) - at = from + i
        OBVIOUS
      <4>2. m.slots[at + i] = v.slots[from + (at + i) - at]
        BY <3>4, <4>1 DEF MoveSlots, Vectors
      <4> QED
        BY <4>1, <4>2
    <3> QED
      BY <3>2, <3>3, <3>4
  <2> HIDE DEF m
  <2>4. /\ SameBlock(w, m) /\ w.count = v.count - n /\ w.slots = m.slots
    <3>1. m \in Vectors /\ n <= m.count
      BY <1>0, <1>3, <2>3 DEF SameBlock
    <3>2. /\ SameBlock(Shortened(m, n), m)
          /\ Shortened(m, n).count = IF n <= m.count THEN m.count - n ELSE 0
          /\ Shortened(m, n).slots = m.slots
      BY <3>1, ShortenedVector
    <3> QED
      BY <2>2, <2>3, <3>1, <3>2
  <2>5. ASSUME NEW i \in 0..(at - 1)
        PROVE  w.slots[i] = v.slots[i]
    <3>1. i \in Slots /\ i \notin at..(at + d - 1)
      BY <1>0, <1>3, <2>1 DEF Slots
    <3> QED
      BY <2>3, <2>4, <3>1
  <2>6. ASSUME NEW i \in 0..(v.count - from - 1)
        PROVE  w.slots[at + i] = v.slots[from + i]
    <3>1. at + i \in Slots /\ i \in 0..(d - 1)
      BY <1>0, <1>3, <2>1 DEF Slots
    <3> QED
      BY <2>3, <2>4, <3>1
  <2>7. SameBlock(w, v)
    BY <2>3, <2>4 DEF SameBlock
  <2>8. w.count = at + (v.count - from) /\ w.count <= v.count
    BY <1>0, <1>3, <2>1, <2>4
  <2> HIDE DEF w
  <2>9. w = WithoutRange(v, at, n)
    BY DEF w
  <2> QED
    BY <1>0, <1>3, <2>1, <2>5, <2>6, <2>7, <2>8, <2>9
<1> QED
  BY <1>0, <1>1, <1>2, <1>3

-----------------------------------------------------------------------------
(* What the methods do to the elements *)

LEMMA WithoutRangeHolds ==
    ASSUME NEW v \in Vectors, NEW s \in Seq(ArrayValues), Keeps(v, s),
           NEW at \in Nat, at <= v.count, NEW n \in Nat
    PROVE  \E r \in Seq(ArrayValues) :
              /\ r = SubSeq(s, 1, at) \o SubSeq(s, at + n + 1, Len(s))
              /\ Len(r) <= Len(s)
              /\ Keeps(WithoutRange(v, at, n), r)
<1>1. PICK len \in Nat : len = Len(s) /\ len = v.count
  BY DEF Keeps
<1>2. PICK from \in Nat : from = IF at + n <= len THEN at + n ELSE len
  OBVIOUS
<1>3. at <= from /\ from <= len
  BY <1>1, <1>2
<1>4. SubSeq(s, at + n + 1, len) = SubSeq(s, from + 1, len)
  <2>1. CASE at + n <= len
    BY <1>2, <2>1
  <2>2. CASE at + n > len
    <3>1. SubSeq(s, at + n + 1, len) = <<>> /\ SubSeq(s, from + 1, len) = <<>>
      BY <1>2, <2>2, SubSeqEmpty
    <3> QED
      BY <3>1
  <2> QED
    BY <2>1, <2>2
<1>5. \E r \in Seq(ArrayValues) :
         /\ r = SubSeq(s, 1, at) \o SubSeq(s, from + 1, Len(s))
         /\ Len(r) = at + (Len(s) - from)
         /\ \A i \in 1..at : r[i] = s[i]
         /\ \A i \in 1..(Len(s) - from) : r[at + i] = s[from + i]
  <2>1. from <= Len(s)
    BY <1>1, <1>3
  <2> QED
    BY <1>3, <2>1, CutSequence, Zenon
<1>6. PICK r \in Seq(ArrayValues) :
         /\ r = SubSeq(s, 1, at) \o SubSeq(s, from + 1, len)
         /\ Len(r) = at + (len - from)
         /\ \A i \in 1..at : r[i] = s[i]
         /\ \A i \in 1..(len - from) : r[at + i] = s[from + i]
  BY <1>1, <1>5
<1> DEFINE w == WithoutRange(v, at, n)
<1>7. /\ w.count = at + (len - from)
      /\ \A i \in 0..(at - 1) : w.slots[i] = v.slots[i]
      /\ \A i \in 0..(len - from - 1) : w.slots[at + i] = v.slots[from + i]
  <2>1. from = IF at + n <= v.count THEN at + n ELSE v.count
    BY <1>1, <1>2
  <2>2. LET last == IF at + n <= v.count THEN at + n ELSE v.count
        IN  /\ w.count = at + (v.count - last)
            /\ \A i \in 0..(at - 1) : w.slots[i] = v.slots[i]
            /\ \A i \in 0..(v.count - last - 1) : w.slots[at + i] = v.slots[last + i]
    BY WithoutRangeVector, Zenon
  <2>3. /\ w.count = at + (v.count - from)
        /\ \A i \in 0..(at - 1) : w.slots[i] = v.slots[i]
        /\ \A i \in 0..(v.count - from - 1) : w.slots[at + i] = v.slots[from + i]
    BY <2>1, <2>2, Zenon
  <2> QED
    BY <1>1, <2>3
<1> HIDE DEF w
<1>8. \A i \in 1..len : v.slots[i - 1] = s[i]
  BY <1>1 DEF Keeps
<1>9. ASSUME NEW i \in 1..Len(r)
      PROVE  w.slots[i - 1] = r[i]
  <2>1. CASE i <= at
    <3>1. i \in 1..at /\ i \in 1..len /\ i - 1 \in 0..(at - 1)
      BY <1>1, <2>1
    <3> QED
      BY <1>6, <1>7, <1>8, <3>1
  <2>2. CASE i > at
    <3>1. PICK j \in Nat : i = at + j
      <4>1. i - at \in Nat /\ i = at + (i - at)
        BY <1>3, <1>6, <2>2
      <4> QED
        BY <4>1
    <3>2. /\ j \in 1..(len - from) /\ j - 1 \in 0..(len - from - 1)
          /\ from + j \in 1..len
          /\ i - 1 = at + (j - 1) /\ (from + j) - 1 = from + (j - 1)
      BY <1>3, <1>6, <2>2, <3>1
    <3>3. w.slots[i - 1] = v.slots[(from + j) - 1]
      BY <1>7, <3>2
    <3>4. v.slots[(from + j) - 1] = s[from + j]
      BY <1>8, <3>2
    <3>5. r[i] = s[from + j]
      BY <1>6, <3>1, <3>2
    <3> QED
      BY <3>3, <3>4, <3>5
  <2> QED
    BY <1>3, <1>6, <2>1, <2>2
<1>10. Keeps(w, r)
  BY <1>6, <1>7, <1>9 DEF Keeps
<1>11. Len(r) <= Len(s)
  BY <1>1, <1>3, <1>6
<1> QED
  BY <1>1, <1>4, <1>6, <1>10, <1>11 DEF w

\* The first elements of an array, when its last n are gone.
LEMMA ShortenedHolds ==
    ASSUME NEW v \in Vectors, NEW s \in Seq(ArrayValues), Keeps(v, s),
           NEW n \in Nat, n <= v.count
    PROVE  /\ SubSeq(s, 1, Len(s) - n) \in Seq(ArrayValues)
           /\ Len(SubSeq(s, 1, Len(s) - n)) <= Len(s)
           /\ Keeps(Shortened(v, n), SubSeq(s, 1, Len(s) - n))
<1>1. PICK len \in Nat : len = Len(s) /\ len = v.count
  BY DEF Keeps
<1>2. PICK k \in Nat : k = len - n
  BY <1>1
<1>3. k <= len /\ Len(s) - n = k
  BY <1>1, <1>2
<1>4. PICK h \in Seq(ArrayValues), t \in Seq(ArrayValues) :
              /\ h = SubSeq(s, 1, k) /\ t = SubSeq(s, k + 1, len)
              /\ Len(h) = k /\ Len(t) = len - k
              /\ \A i \in 1..k : h[i] = s[i]
              /\ \A i \in 1..(len - k) : t[i] = s[k + i]
  <2>1. Len(s) = len
    BY <1>1
  <2> QED
    BY <1>3, <2>1, HeadAndTail, ZenonT(40)
<1>5. Shortened(v, n).count = k /\ Shortened(v, n).slots = v.slots
  BY <1>1, <1>2, ShortenedVector
<1>6. \A i \in 1..k : v.slots[i - 1] = s[i]
  BY <1>1, <1>3 DEF Keeps
<1>7. Keeps(Shortened(v, n), h)
  BY <1>4, <1>5, <1>6 DEF Keeps
<1> QED
  BY <1>1, <1>2, <1>3, <1>4, <1>7

\* increaseSize leaves the elements where they are.
LEMMA EnlargedVector ==
    ASSUME NEW v \in Vectors, NEW n \in Nat, v.count + n <= MaxElements,
           BlockFromCapacity(v)
    PROVE  /\ Enlarged(v, n) \in Vectors
           /\ Enlarged(v, n).kind = v.kind /\ Enlarged(v, n).width = v.width
           /\ Enlarged(v, n).count = v.count + n
           /\ BlockFromCapacity(Enlarged(v, n))
           /\ \A i \in 0..(v.count - 1) : Enlarged(v, n).slots[i] = v.slots[i]
<1> DEFINE capacity == CapacityFor(v.width, v.count + n)
           copy == CopiedArray(v, capacity)
           f == [i \in Slots |-> IF i < v.count THEN v.slots[i] ELSE NoElement]
<1>1. v.count + n \in 0..MaxElements /\ v.width \in Nat /\ v.count + n \in Nat
      /\ v.count \in Nat /\ v.count <= MaxElements
  BY ConstantsAreNumbers DEF Vectors
<1>2. capacity \in Nat
  BY <1>1, CapacitySuffices
<1>3. Enlarged(v, n) = IF capacity = v.capacity
                       THEN [copy EXCEPT !.count = v.count + n]
                       ELSE [v EXCEPT !.count = v.count + n]
  BY DEF Enlarged, CopiedArray, Vectors
<1>4. copy = [v EXCEPT !.block = capacity, !.slots = f]
  BY DEF CopiedArray
<1>5. f \in [Slots -> Elements]
  BY DEF Vectors, Elements
<1>6. \A i \in 0..(v.count - 1) : f[i] = v.slots[i]
  BY <1>1, ConstantsAreNumbers DEF Slots
<1> HIDE DEF capacity, copy, f
<1>7. CASE capacity = v.capacity
  <2>1. Enlarged(v, n) = [v EXCEPT !.block = capacity, !.slots = f, !.count = v.count + n]
    BY <1>3, <1>4, <1>7 DEF Vectors
  <2> QED
    BY <1>1, <1>2, <1>5, <1>6, <1>7, <2>1 DEF Vectors, BlockFromCapacity
<1>8. CASE capacity # v.capacity
  BY <1>1, <1>3, <1>8 DEF Vectors, BlockFromCapacity
<1> QED
  BY <1>7, <1>8

\* The elements behind a place move on, and the list goes in between.
LEMMA InsertedVector ==
    ASSUME NEW v \in Vectors, BlockFromCapacity(v),
           NEW at \in Nat, at <= v.count,
           NEW list \in Seq(ArrayValues), v.count + Len(list) <= MaxElements,
           NEW g, g = WithGap(v, at, Len(list)),
           NEW w, w = SetSlots(g, GapAt(v, at), list)
    PROVE  /\ w \in Vectors /\ BlockFromCapacity(w) /\ (Fits(g) => Fits(w))
           /\ w.count = v.count + Len(list)
           /\ \A i \in 0..(at - 1) : w.slots[i] = v.slots[i]
           /\ \A i \in 0..(Len(list) - 1) : w.slots[at + i] = list[i + 1]
           /\ \A i \in 0..(v.count - at - 1) :
                 w.slots[at + Len(list) + i] = v.slots[at + i]
<1>1. PICK n \in Nat : n = Len(list)
  OBVIOUS
<1>2. /\ v.count \in Nat /\ MaxElements \in Nat /\ v.count + n <= MaxElements
      /\ Len(list) = n
  BY <1>1, ConstantsAreNumbers DEF Vectors
<1>3. GapAt(v, at) = at
  BY <1>2 DEF GapAt
<1>4. PICK e \in Vectors :
          /\ e = Enlarged(v, n) /\ e.kind = v.kind /\ e.width = v.width
          /\ e.count = v.count + n /\ BlockFromCapacity(e)
          /\ \A i \in 0..(v.count - 1) : e.slots[i] = v.slots[i]
  BY <1>2, EnlargedVector
<1>5. PICK to \in Nat, d \in Nat : to = at + n /\ d = v.count - at
  <2>1. at + n \in Nat /\ v.count - at \in Nat
    BY <1>2
  <2> QED
    BY <2>1
<1>6. g = MoveSlots(e, to, at, d)
  BY <1>1, <1>3, <1>4, <1>5 DEF WithGap
<1>7. /\ SameBlock(g, e) /\ g.count = e.count
      /\ \A i \in Slots : i \notin to..(to + d - 1) => g.slots[i] = e.slots[i]
  <2>1. at + d <= MaxElements
    BY <1>2, <1>5
  <2> QED
    BY <1>6, <2>1, MovedSlots
<1>8. ASSUME NEW i \in 0..(d - 1)
      PROVE  to + i \in Slots /\ g.slots[to + i] = v.slots[at + i]
  <2>0. i \in Nat /\ i <= d - 1
    BY <1>5
  <2>1. /\ to + i \in Slots /\ to + i \in to..(to + d - 1) /\ at + (to + i) - to = at + i
        /\ at + i \in 0..(v.count - 1)
    <3>1. at + i \in Nat /\ at + i <= v.count - 1
      BY <1>2, <1>5, <2>0
    <3>2. to + i \in Nat /\ to + i <= MaxElements - 1
      BY <1>2, <1>5, <2>0
    <3>3. to + i >= to /\ to + i <= to + d - 1 /\ at + (to + i) - to = at + i
      BY <1>5, <2>0
    <3> QED
      BY <1>2, <1>5, <3>1, <3>2, <3>3 DEF Slots
  <2>2. g.slots[to + i] = e.slots[at + (to + i) - to]
    BY <1>6, <2>1 DEF MoveSlots, Vectors
  <2> QED
    BY <1>4, <2>1, <2>2
<1>9. g \in Vectors /\ w = SetSlots(g, at, list)
  BY <1>3, <1>7 DEF SameBlock
<1>10. /\ SameBlock(w, g) /\ w.count = g.count
       /\ \A i \in Slots : i \notin at..(at + n - 1) => w.slots[i] = g.slots[i]
  BY <1>2, <1>9, SetSlotsOf
<1>11. ASSUME NEW i \in 0..(at - 1)
       PROVE  w.slots[i] = v.slots[i]
  <2>1. /\ i \in Slots /\ i \notin at..(at + n - 1) /\ i \notin to..(to + d - 1)
        /\ i \in 0..(v.count - 1)
    BY <1>2, <1>5 DEF Slots
  <2> QED
    BY <1>4, <1>7, <1>10, <2>1
<1>12. ASSUME NEW i \in 0..(n - 1)
       PROVE  w.slots[at + i] = list[i + 1]
  <2>1. at + i \in Slots /\ at + i \in at..(at + n - 1) /\ (at + i) - at + 1 = i + 1
    BY <1>2 DEF Slots
  <2>2. w.slots[at + i] = list[(at + i) - at + 1]
    BY <1>2, <1>9, <2>1, ZenonT(40) DEF SetSlots, Vectors
  <2> QED
    BY <2>1, <2>2
<1>13. ASSUME NEW i \in 0..(d - 1)
       PROVE  w.slots[to + i] = v.slots[at + i]
  <2>1. to + i \notin at..(at + n - 1)
    BY <1>5
  <2> QED
    BY <1>8, <1>10, <2>1
<1>14. w \in Vectors /\ BlockFromCapacity(w) /\ (Fits(g) => Fits(w))
  BY <1>4, <1>7, <1>10 DEF SameBlock, BlockFromCapacity, Fits
<1>15. w.count = v.count + n
  BY <1>4, <1>7, <1>10
<1>16. /\ \A i \in 0..(n - 1) : w.slots[at + i] = list[i + 1]
       /\ \A i \in 0..(v.count - at - 1) : w.slots[at + n + i] = v.slots[at + i]
  BY <1>5, <1>12, <1>13
<1> QED
  BY <1>1, <1>11, <1>14, <1>15, <1>16

LEMMA InsertedHolds ==
    ASSUME NEW v \in Vectors, BlockFromCapacity(v),
           NEW s \in Seq(ArrayValues), Keeps(v, s),
           NEW at \in Nat, at <= v.count,
           NEW list \in Seq(ArrayValues), v.count + Len(list) <= MaxElements
    PROVE  \E r \in Seq(ArrayValues) :
              /\ r = SubSeq(s, 1, at) \o list \o SubSeq(s, at + 1, Len(s))
              /\ Len(r) = Len(s) + Len(list)
              /\ Keeps(SetSlots(WithGap(v, at, Len(list)), GapAt(v, at), list), r)
<1>0. PICK g, w : /\ g = WithGap(v, at, Len(list))
                  /\ w = SetSlots(g, GapAt(v, at), list)
  OBVIOUS
<1>1. PICK len \in Nat, n \in Nat :
          len = Len(s) /\ n = Len(list) /\ len = v.count
  BY DEF Keeps
<1>2. Len(s) = len /\ Len(list) = n /\ at <= len
  BY <1>1
<1>a. \E r \in Seq(ArrayValues) :
          /\ r = SubSeq(s, 1, at) \o list \o SubSeq(s, at + 1, Len(s))
          /\ Len(r) = Len(s) + Len(list)
          /\ \A i \in 1..at : r[i] = s[i]
          /\ \A i \in 1..Len(list) : r[at + i] = list[i]
          /\ \A i \in 1..(Len(s) - at) : r[at + Len(list) + i] = s[at + i]
  <2>1. at <= Len(s)
    BY <1>1
  <2> QED
    BY <2>1, SplicedSequence, Zenon
<1>3. PICK r \in Seq(ArrayValues) :
          /\ r = SubSeq(s, 1, at) \o list \o SubSeq(s, at + 1, len)
          /\ Len(r) = len + n
          /\ \A i \in 1..at : r[i] = s[i]
          /\ \A i \in 1..n : r[at + i] = list[i]
          /\ \A i \in 1..(len - at) : r[at + n + i] = s[at + i]
  BY <1>2, <1>a, Zenon
<1>4. /\ w.count = len + n
      /\ \A i \in 0..(at - 1) : w.slots[i] = v.slots[i]
      /\ \A i \in 0..(n - 1) : w.slots[at + i] = list[i + 1]
      /\ \A i \in 0..(len - at - 1) : w.slots[at + n + i] = v.slots[at + i]
  BY <1>0, <1>1, InsertedVector, SMTT(40)
<1>5. \A i \in 1..len : v.slots[i - 1] = s[i]
  BY <1>1 DEF Keeps
<1>6. Len(r) = len + n
  BY <1>3, Zenon
<1>7. ASSUME NEW i \in 1..Len(r)
      PROVE  w.slots[i - 1] = r[i]
  <2>1. CASE i <= at
    <3>1. i \in 1..at /\ i \in 1..len /\ i - 1 \in 0..(at - 1)
      BY <1>2, <2>1
    <3> QED
      BY <1>3, <1>4, <1>5, <3>1
  <2>2. CASE i > at /\ i <= at + n
    <3>1. PICK j \in 1..n : i = at + j
      <4>1. i - at \in 1..n /\ i = at + (i - at)
        BY <1>6, <2>2
      <4> QED
        BY <4>1
    <3>2. j - 1 \in 0..(n - 1) /\ i - 1 = at + (j - 1) /\ (j - 1) + 1 = j
      BY <3>1
    <3>3. w.slots[i - 1] = list[(j - 1) + 1]
      BY <1>4, <3>2
    <3> QED
      BY <1>3, <3>1, <3>2, <3>3
  <2>3. CASE i > at + n
    <3>1. PICK j \in 1..(len - at) : i = at + n + j
      <4>1. i - (at + n) \in 1..(len - at) /\ i = at + n + (i - (at + n))
        BY <1>2, <1>6, <2>3
      <4> QED
        BY <4>1
    <3>2. /\ j - 1 \in 0..(len - at - 1) /\ i - 1 = at + n + (j - 1)
          /\ at + j \in 1..len /\ (at + j) - 1 = at + (j - 1)
      BY <1>2, <3>1
    <3>3. w.slots[i - 1] = v.slots[at + (j - 1)]
      BY <1>4, <3>2
    <3>4. v.slots[(at + j) - 1] = s[at + j]
      BY <1>5, <3>2
    <3>5. r[i] = s[at + j]
      BY <1>3, <3>1
    <3> QED
      BY <3>2, <3>3, <3>4, <3>5
  <2> QED
    BY <1>6, <2>1, <2>2, <2>3
<1>8. Keeps(w, r)
  BY <1>4, <1>6, <1>7 DEF Keeps
<1>9. Keeps(SetSlots(WithGap(v, at, Len(list)), GapAt(v, at), list), r)
  BY <1>0, <1>8, Zenon
<1>10. /\ r = SubSeq(s, 1, at) \o list \o SubSeq(s, at + 1, Len(s))
       /\ Len(r) = Len(s) + Len(list)
  BY <1>1, <1>3
<1> QED
  BY <1>9, <1>10, Zenon

-----------------------------------------------------------------------------
(* The calls *)

LEMMA CopiedVector ==
    ASSUME NEW v \in Vectors, NEW block \in Nat
    PROVE  /\ CopiedArray(v, block) \in Vectors
           /\ CopiedArray(v, block).kind = v.kind /\ CopiedArray(v, block).width = v.width
           /\ CopiedArray(v, block).count = v.count
           /\ CopiedArray(v, block).capacity = v.capacity
           /\ CopiedArray(v, block).block = block
           /\ \A i \in 0..(v.count - 1) : CopiedArray(v, block).slots[i] = v.slots[i]
<1> DEFINE f == [i \in Slots |-> IF i < v.count THEN v.slots[i] ELSE NoElement]
<1>1. CopiedArray(v, block) = [v EXCEPT !.block = block, !.slots = f]
  BY DEF CopiedArray
<1>2. f \in [Slots -> Elements]
  BY DEF Vectors, Elements
<1>3. \A i \in 0..(v.count - 1) : f[i] = v.slots[i]
  BY ConstantsAreNumbers DEF Slots, Vectors
<1> HIDE DEF f
<1> QED
  BY <1>1, <1>2, <1>3 DEF Vectors

LEMMA ListsAreSequences ==
    \A list \in Lists : list \in Seq(ArrayValues) /\ Len(list) <= 2
<1> SUFFICES ASSUME NEW n \in 0..2, NEW list \in [1..n -> ArrayValues]
             PROVE  list \in Seq(ArrayValues) /\ Len(list) <= 2
  BY DEF Lists
<1>1. list \in Seq(ArrayValues)
  OBVIOUS
<1>2. Len(list) = n
  OBVIOUS
<1> QED
  BY <1>1, <1>2

LEMMA InitArraysInv == ArraysInit => ArraysInv
<1> SUFFICES ASSUME ArraysInit PROVE ArraysInv
  OBVIOUS
<1>1. PICK list \in Lists, kind \in {"array", "buffer"}, width \in Nat \ {0} :
          vector = CreatedArray(kind, width, list) /\ contents = list
  BY ConstantsAreNumbers DEF ArraysInit
<1>2. list \in Seq(ArrayValues) /\ Len(list) <= 2 /\ Len(list) \in Nat
  BY ListsAreSequences
<1>3. Len(list) \in 0..MaxElements /\ MaxElements \in Nat /\ Len(list) <= MaxElements
  BY <1>2, ArraysAssumption
<1> DEFINE f == [i \in Slots |-> IF i < Len(list) THEN list[i + 1] ELSE NoElement]
           size == CapacityFor(width, Len(list))
<1>4. vector = [kind |-> kind, width |-> width, count |-> Len(list),
                capacity |-> size, block |-> size, slots |-> f]
  BY <1>1 DEF CreatedArray
<1>5. f \in [Slots -> Elements]
  <2>1. ASSUME NEW i \in Slots, i < Len(list) PROVE list[i + 1] \in ArrayValues
    <3>1. i + 1 \in 1..Len(list)
      BY <1>2, <1>3, <2>1 DEF Slots
    <3> QED
      BY <1>2, <3>1
  <2> QED
    BY <2>1 DEF Elements
<1>6. size \in Nat /\ size >= ArrayHeader + width * Len(list)
  BY <1>2, CapacitySuffices
<1>7. ASSUME NEW i \in 1..Len(list) PROVE f[i - 1] = list[i]
  <2>1. i - 1 \in Slots /\ i - 1 < Len(list) /\ (i - 1) + 1 = i
    BY <1>2, <1>3 DEF Slots
  <2> QED
    BY <2>1
<1> HIDE DEF f, size
<1>8. vector \in Vectors
  BY <1>3, <1>4, <1>5, <1>6 DEF Vectors
<1>9. Fits(vector)
  BY <1>4, <1>6 DEF Fits
<1>10. BlockFromCapacity(vector)
  BY <1>4 DEF BlockFromCapacity
<1>11. ArraysHold
  BY <1>1, <1>4, <1>7, <1>9 DEF ArraysHold
<1> QED
  BY <1>1, <1>2, <1>3, <1>8, <1>10, <1>11 DEF ArraysInv

\* A step that removes elements and leaves the block alone.
LEMMA FewerElements ==
    ASSUME ArraysInv, Fits(vector), SameBlock(vector', vector),
           vector'.count <= vector.count,
           contents' \in Seq(ArrayValues), Len(contents') <= Len(contents),
           asked' => Keeps(vector', contents')
    PROVE  ArraysInv'
<1>1. vector \in Vectors /\ vector' \in Vectors
  BY DEF ArraysInv, SameBlock
<1>2. Len(contents') <= MaxElements
  BY ConstantsAreNumbers DEF ArraysInv
<1>3. Fits(vector')
  <2>1. /\ vector.width \in Nat /\ vector.count \in Nat /\ vector'.count \in Nat
        /\ vector.block \in Nat /\ ArrayHeader \in Nat
        /\ vector'.width = vector.width /\ vector'.block = vector.block
    BY <1>1, ConstantsAreNumbers DEF Vectors, SameBlock
  <2>2. /\ vector.width * vector'.count \in Nat /\ vector.width * vector.count \in Nat
        /\ vector.width * vector'.count <= vector.width * vector.count
    BY <2>1, FewerFit
  <2>3. ArrayHeader + vector.width * vector.count <= vector.block
    BY DEF Fits
  <2> QED
    BY <2>1, <2>2, <2>3 DEF Fits
<1>4. BlockFromCapacity(vector')
  BY DEF ArraysInv, SameBlock, BlockFromCapacity
<1>5. ArraysHold'
  BY <1>3 DEF ArraysHold, Keeps
<1> QED
  BY <1>1, <1>2, <1>4, <1>5 DEF ArraysInv

LEMMA StepArraysInv == ArraysInv /\ [ArraysNext]_arrayVars => ArraysInv'
<1> SUFFICES ASSUME ArraysInv, [ArraysNext]_arrayVars PROVE ArraysInv'
  OBVIOUS
<1>0. CASE UNCHANGED arrayVars
  BY <1>0 DEF arrayVars, ArraysInv, ArraysHold
<1> SUFFICES ASSUME ArraysNext PROVE ArraysInv'
  BY <1>0
<1>1. /\ vector \in Vectors /\ contents \in Seq(ArrayValues)
      /\ asked /\ ~outside /\ BlockFromCapacity(vector)
      /\ Keeps(vector, contents) /\ Fits(vector)
  BY DEF ArraysNext, ArraysInv, ArraysHold, Keeps
<1>2. PICK len \in Nat : len = Len(contents) /\ vector.count = len /\ len <= MaxElements
  BY <1>1 DEF Keeps, ArraysInv
<1>3. /\ vector.width \in Nat \ {0} /\ vector.width * len \in Nat
      /\ vector.width * len >= len /\ LinkWidth * len \in Nat /\ LinkWidth * len >= len
      /\ vector.kind \in {"array", "buffer"} /\ MaxElements \in Nat
  <2>1. \A w \in Nat \ {0} : w * len \in Nat /\ w * len >= len
    <3> SUFFICES ASSUME NEW w \in Nat \ {0} PROVE w * len \in Nat /\ w * len >= len
      OBVIOUS
    <3>1. PICK x \in Nat : w = 1 + x
      <4>1. w - 1 \in Nat /\ w = 1 + (w - 1)
        OBVIOUS
      <4> QED
        BY <4>1
    <3>2. w * len = len + x * len /\ x * len \in Nat
      BY <3>1
    <3> QED
      BY <3>2
  <2> QED
    BY <1>1, <2>1, ConstantsAreNumbers DEF Vectors
<1>4. ASSUME NEW list \in Lists, NEW at \in 0..Len(contents),
             Len(contents) + Len(list) <= MaxElements, insertElements(at, list)
      PROVE  ArraysInv'
  <2>1. /\ list \in Seq(ArrayValues) /\ at \in Nat /\ at <= vector.count
        /\ vector.count + Len(list) <= MaxElements /\ Len(list) \in Nat
    BY <1>2, <1>4, ListsAreSequences
  <2>a. PICK g, w : /\ g = WithGap(vector, at, Len(list))
                    /\ w = SetSlots(g, GapAt(vector, at), list)
    OBVIOUS
  <2>2. /\ vector' = IF Fits(g) THEN w ELSE vector
        /\ outside' = ~Fits(g) /\ asked' = asked
        /\ contents' = SubSeq(contents, 1, at) \o list
                       \o SubSeq(contents, at + 1, Len(contents))
    BY <1>4, <2>a DEF insertElements
  <2>3. w \in Vectors /\ BlockFromCapacity(w) /\ (Fits(g) => Fits(w))
    BY <1>1, <2>1, <2>a, InsertedVector
  <2>b. vector \in Vectors /\ BlockFromCapacity(vector)
        /\ contents \in Seq(ArrayValues) /\ Keeps(vector, contents)
    BY <1>1
  <2>4. PICK r \in Seq(ArrayValues) :
            /\ r = SubSeq(contents, 1, at) \o list \o SubSeq(contents, at + 1, Len(contents))
            /\ Len(r) = Len(contents) + Len(list)
            /\ Keeps(w, r)
    <3>1. \E r \in Seq(ArrayValues) :
              /\ r = SubSeq(contents, 1, at) \o list \o SubSeq(contents, at + 1, Len(contents))
              /\ Len(r) = Len(contents) + Len(list)
              /\ Keeps(SetSlots(WithGap(vector, at, Len(list)), GapAt(vector, at), list), r)
      BY <2>1, <2>b, InsertedHolds, Zenon
    <3> QED
      BY <2>a, <3>1, Zenon
  <2>5. contents' \in Seq(ArrayValues) /\ Len(contents') <= MaxElements
        /\ Keeps(w, contents')
    BY <1>4, <2>2, <2>4
  <2>6. vector' \in Vectors /\ BlockFromCapacity(vector')
    BY <1>1, <2>2, <2>3
  <2>7. ArraysHold'
    BY <2>2, <2>3, <2>5 DEF ArraysHold, Keeps
  <2> QED
    BY <2>5, <2>6, <2>7 DEF ArraysInv
<1>5. ASSUME NEW at \in 0..Len(contents), NEW n \in 0..2, removeElements(at, n)
      PROVE  ArraysInv'
  <2>1. at \in Nat /\ n \in Nat /\ at <= vector.count
    BY <1>2
  <2>2. PICK r \in Seq(ArrayValues) :
            /\ r = SubSeq(contents, 1, at) \o SubSeq(contents, at + n + 1, Len(contents))
            /\ Len(r) <= Len(contents)
            /\ Keeps(WithoutRange(vector, at, n), r)
    BY <1>1, <2>1, WithoutRangeHolds
  <2>3. /\ SameBlock(WithoutRange(vector, at, n), vector)
        /\ WithoutRange(vector, at, n).count <= vector.count
    BY <1>1, <2>1, WithoutRangeVector
  <2> QED
    BY <1>1, <1>5, <2>2, <2>3, FewerElements DEF removeElements
<1>6. ASSUME NEW n \in 0..Len(contents), popBackElements(n), vector.kind = "array"
      PROVE  ArraysInv'
  <2>1. n \in Nat /\ n <= vector.count
    BY <1>2
  <2>2. /\ SubSeq(contents, 1, Len(contents) - n) \in Seq(ArrayValues)
        /\ Len(SubSeq(contents, 1, Len(contents) - n)) <= Len(contents)
        /\ Keeps(Shortened(vector, n), SubSeq(contents, 1, Len(contents) - n))
    BY <1>1, <2>1, ShortenedHolds
  <2>3. SameBlock(Shortened(vector, n), vector) /\ Shortened(vector, n).count <= vector.count
    BY <1>1, <2>1, ShortenedVector
  <2> QED
    BY <1>1, <1>6, <2>2, <2>3, FewerElements DEF popBackElements
<1>7. ASSUME NEW n \in 0..Len(contents), popBackElements(n), vector.kind = "buffer"
      PROVE  ArraysInv'
  <2>1. PICK at \in Nat : at = vector.width * vector.count - n
    <3>1. vector.width * len - n \in Nat
      BY <1>2, <1>3
    <3> QED
      BY <1>2, <3>1
  <2>2. /\ vector' = WithoutRange(vector, at, n)
        /\ contents' = SubSeq(contents, 1, Len(contents) - n)
        /\ asked' => vector.width = 1 \/ n = 0 \/ vector.count = 0
    BY <1>1, <1>7, <2>1 DEF popBackElements
  <2>3. n \in Nat /\ n <= vector.count
    BY <1>2
  <2>4. /\ SubSeq(contents, 1, Len(contents) - n) \in Seq(ArrayValues)
        /\ Len(SubSeq(contents, 1, Len(contents) - n)) <= Len(contents)
        /\ Keeps(Shortened(vector, n), SubSeq(contents, 1, Len(contents) - n))
    BY <1>1, <2>3, ShortenedHolds
  <2>5. /\ SameBlock(WithoutRange(vector, at, n), vector)
        /\ WithoutRange(vector, at, n).count <= vector.count
    BY <1>1, <2>3, WithoutRangeVector
  <2>6. ASSUME asked'
        PROVE  vector' = Shortened(vector, n) \/ (n = 0 /\ vector' = vector)
    <3>1. CASE n = 0
      <4>1. at >= vector.count
        BY <1>2, <1>3, <2>1, <3>1
      <4> QED
        BY <2>2, <3>1, <4>1 DEF WithoutRange
    <3>2. CASE n # 0 /\ vector.width = 1
      <4>1. /\ at < vector.count /\ at + n >= vector.count
            /\ vector.count - at = n
        BY <1>2, <2>1, <2>3, <3>2
      <4>2. ~ (at >= vector.count)
        BY <1>2, <4>1
      <4> QED
        BY <2>2, <4>1, <4>2 DEF WithoutRange
    <3> QED
      BY <1>2, <2>2, <2>3, <2>6, <3>1, <3>2
  <2>7. ASSUME asked', n = 0, vector' = vector
        PROVE  Keeps(vector', contents')
    <3>1. SubSeq(contents, 1, Len(contents) - n) = contents
      BY <1>1, <1>2, <2>7, SubSeqFull
    <3> QED
      BY <1>1, <2>2, <2>7, <3>1
  <2> QED
    BY <1>1, <2>2, <2>4, <2>5, <2>6, <2>7, FewerElements
<1>8. ASSUME clearElements
      PROVE  ArraysInv'
  <2>1. /\ SameBlock(vector', vector) /\ vector'.count = 0 /\ vector'.count <= vector.count
    <3>1. CASE vector.kind = "array"
      <4>1. vector' = Shortened(vector, LinkWidth * len)
        BY <1>2, <1>8, <3>1 DEF clearElements
      <4>2. LinkWidth * len <= len => len - LinkWidth * len = 0
        BY <1>3
      <4> QED
        BY <1>1, <1>2, <1>3, <4>1, <4>2, ShortenedVector
    <3>2. CASE vector.kind = "buffer"
      <4>1. vector' = WithoutRange(vector, 0, vector.width * len)
        BY <1>2, <1>8, <3>2 DEF clearElements
      <4>2. CASE len = 0
        <5>1. vector' = vector
          BY <1>2, <4>1, <4>2 DEF WithoutRange
        <5> QED
          BY <1>1, <1>2, <4>2, <5>1 DEF SameBlock
      <4>3. CASE len > 0
        <5>1. vector' = Shortened(vector, len)
          BY <1>2, <1>3, <4>1, <4>3 DEF WithoutRange
        <5> QED
          BY <1>1, <1>2, <5>1, ShortenedVector
      <4> QED
        BY <1>2, <4>2, <4>3
    <3> QED
      BY <1>3, <3>1, <3>2
  <2>2. contents' = <<>>
    BY <1>8 DEF clearElements
  <2>3. contents' \in Seq(ArrayValues) /\ Len(contents') = 0
    BY <2>2
  <2>4. Keeps(vector', contents')
    BY <2>1, <2>3 DEF Keeps
  <2> QED
    BY <1>1, <1>2, <2>1, <2>3, <2>4, FewerElements
<1>9. ASSUME copyElements
      PROVE  ArraysInv'
  <2> DEFINE block == IF vector.kind = "array" THEN vector.capacity
                      ELSE ArrayHeader + vector.capacity
  <2>1. block \in Nat /\ vector.block <= block /\ vector.block \in Nat
    BY <1>1, <1>3, ConstantsAreNumbers DEF BlockFromCapacity, Vectors
  <2>2. vector' = CopiedArray(vector, block)
    BY <1>9 DEF copyElements
  <2> HIDE DEF block
  <2>3. /\ vector' \in Vectors /\ vector'.kind = vector.kind
        /\ vector'.width = vector.width /\ vector'.count = vector.count
        /\ vector'.capacity = vector.capacity /\ vector'.block = block
        /\ \A i \in 0..(vector.count - 1) : vector'.slots[i] = vector.slots[i]
    BY <1>1, <2>1, <2>2, CopiedVector
  <2>4. BlockFromCapacity(vector')
    BY <1>3, <2>3 DEF BlockFromCapacity, block
  <2>5. Fits(vector')
    <3>1. ArrayHeader + vector.width * vector.count \in Nat
      BY <1>2, <1>3, ConstantsAreNumbers
    <3> QED
      BY <1>1, <2>1, <2>3, <3>1 DEF Fits
  <2>6. contents' = contents /\ Keeps(vector', contents')
    <3>1. ASSUME NEW i \in 1..len PROVE vector'.slots[i - 1] = contents[i]
      <4>1. i - 1 \in 0..(vector.count - 1)
        BY <1>2
      <4> QED
        BY <1>1, <1>2, <2>3, <4>1 DEF Keeps
    <3> QED
      BY <1>2, <1>9, <2>3, <3>1 DEF Keeps, copyElements
  <2>7. ArraysHold'
    BY <2>5, <2>6 DEF ArraysHold, Keeps
  <2> QED
    BY <2>3, <2>4, <2>6, <2>7 DEF ArraysInv
<1> QED
  BY <1>3, <1>4, <1>5, <1>6, <1>7, <1>8, <1>9 DEF ArraysNext

\* Any sequence of calls on an array keeps its block as large as the capacity
\* says, and its elements those the calls describe.
THEOREM ArraysInvariance == ArraysSpec => []ArraysInv
  BY InitArraysInv, StepArraysInv, PTL DEF ArraysSpec

\* An array holds exactly the elements the calls so far describe, in their
\* order and inside its block, until a call of the kind "asked" and "outside"
\* record; for elements and headers of any width and arrays of any length.
THEOREM ArraysAlwaysHold == ArraysSpec => []ArraysHold
  BY ArraysInvariance, PTL DEF ArraysInv

-----------------------------------------------------------------------------
(* The owners of the arrays of keys *)

\* Any sequence of constructions, assignments and destructions.
OwnSpec == OwnInit /\ [][OwnNext]_ownVars

-----------------------------------------------------------------------------
(* The inductive invariant *)

OwnTypeOK ==
    /\ keyOf \in [KeyObjects -> [class : {"none", "null", "array"},
                                 block : Blocks \cup {NoBlock}]]
    /\ dataOf \in [Resources -> Blocks \cup {NoBlock}]
    /\ live \subseteq Blocks
    /\ stray \subseteq live

\* Only an array key has data, and what a key or a resource has is allocated.
OwnedIsLive ==
    /\ \A k \in KeyObjects : keyOf[k].class # "array" => keyOf[k].block = NoBlock
    /\ \A k \in KeyObjects : keyOf[k].block \in live \cup {NoBlock}
    /\ \A v \in Resources : dataOf[v] \in live \cup {NoBlock}

\* Two places never have the same data.
NotShared ==
    /\ \A k, l \in KeyObjects :
          k # l /\ keyOf[k].block = keyOf[l].block => keyOf[k].block = NoBlock
    /\ \A v, w \in Resources :
          v # w /\ dataOf[v] = dataOf[w] => dataOf[v] = NoBlock
    /\ \A k \in KeyObjects, v \in Resources :
          keyOf[k].block = dataOf[v] => dataOf[v] = NoBlock

LiveIsOwned ==
    \A b \in live \ stray : \/ \E k \in KeyObjects : keyOf[k].block = b
                            \/ \E v \in Resources : dataOf[v] = b

\* What a key of a number type points to is nobody's.
StrayIsNobodys ==
    \A b \in stray : /\ \A k \in KeyObjects : keyOf[k].block # b
                     /\ \A v \in Resources : dataOf[v] # b

OwnInv ==
    /\ OwnTypeOK /\ ~deleted
    /\ OwnedIsLive /\ NotShared /\ LiveIsOwned /\ StrayIsNobodys

-----------------------------------------------------------------------------
(* The three ways in which data moves between places *)

\* The data of a key or a resource is created with the place that owns it.
Creates(b) ==
    /\ b \in Blocks \ live
    /\ live' = live \cup {b}

\* A key takes what another key had; what it had itself is deleted.
LEMMA KeyFromKey ==
    ASSUME OwnInv, NEW k \in KeyObjects, NEW l \in KeyObjects, k # l,
           keyOf' = [keyOf EXCEPT ![k] = keyOf[l], ![l] = Null],
           live' = live \ {keyOf[k].block}, ~deleted', UNCHANGED <<dataOf, stray>>
    PROVE  OwnInv'
<1>1. /\ keyOf'[k] = keyOf[l] /\ keyOf'[l] = Null
      /\ \A j \in KeyObjects \ {k, l} : keyOf'[j] = keyOf[j]
  BY DEF OwnInv, OwnTypeOK
<1>2. Null \in [class : {"none", "null", "array"}, block : Blocks \cup {NoBlock}]
  BY DEF Null
<1>3. OwnTypeOK'
  BY <1>2 DEF OwnInv, OwnTypeOK, StrayIsNobodys
<1>4. OwnedIsLive'
  BY <1>1, NoBlockAssumption DEF OwnInv, OwnTypeOK, OwnedIsLive, NotShared, Null
<1>5. NotShared'
  BY <1>1, NoBlockAssumption DEF OwnInv, OwnTypeOK, OwnedIsLive, NotShared, Null
<1>6. LiveIsOwned'
  <2>1. ASSUME NEW b \in live' \ stray', NEW j \in KeyObjects, keyOf[j].block = b
        PROVE  \E i \in KeyObjects : keyOf'[i].block = b
    <3>1. j # k
      BY <2>1
    <3> QED
      BY <1>1, <2>1, <3>1
  <2> QED
    BY <2>1 DEF OwnInv, LiveIsOwned
<1>7. StrayIsNobodys'
  BY <1>1, NoBlockAssumption DEF OwnInv, OwnTypeOK, StrayIsNobodys, Null
<1> QED
  BY <1>3, <1>4, <1>5, <1>6, <1>7 DEF OwnInv

\* A key takes the data of a variable; what it had itself is deleted.
LEMMA KeyFromResource ==
    ASSUME OwnInv, NEW k \in KeyObjects, NEW v \in Resources,
           keyOf' = [keyOf EXCEPT ![k] = [class |-> "array", block |-> dataOf[v]]],
           dataOf' = [dataOf EXCEPT ![v] = NoBlock],
           live' = live \ {keyOf[k].block}, ~deleted', UNCHANGED stray
    PROVE  OwnInv'
<1>1. /\ keyOf'[k] = [class |-> "array", block |-> dataOf[v]]
      /\ \A j \in KeyObjects \ {k} : keyOf'[j] = keyOf[j]
      /\ dataOf'[v] = NoBlock
      /\ \A w \in Resources \ {v} : dataOf'[w] = dataOf[w]
  BY DEF OwnInv, OwnTypeOK
<1>2. OwnTypeOK'
  BY DEF OwnInv, OwnTypeOK, StrayIsNobodys
<1>3. OwnedIsLive'
  BY <1>1, NoBlockAssumption DEF OwnInv, OwnTypeOK, OwnedIsLive, NotShared
<1>4. NotShared'
  BY <1>1, NoBlockAssumption DEF OwnInv, OwnTypeOK, OwnedIsLive, NotShared
<1>5. LiveIsOwned'
  <2>1. ASSUME NEW b \in live' \ stray'
        PROVE  \/ \E j \in KeyObjects : keyOf'[j].block = b
               \/ \E w \in Resources : dataOf'[w] = b
    <3>1. CASE \E j \in KeyObjects : keyOf[j].block = b
      <4>1. PICK j \in KeyObjects : keyOf[j].block = b
        BY <3>1
      <4>2. j # k
        BY <2>1, <4>1
      <4> QED
        BY <1>1, <4>1, <4>2
    <3>2. CASE \E w \in Resources : dataOf[w] = b
      <4>1. PICK w \in Resources : dataOf[w] = b
        BY <3>2
      <4>2. CASE w = v
        BY <1>1, <4>1, <4>2
      <4>3. CASE w # v
        BY <1>1, <4>1, <4>3
      <4> QED
        BY <4>2, <4>3
    <3> QED
      BY <2>1, <3>1, <3>2 DEF OwnInv, LiveIsOwned
  <2> QED
    BY <2>1 DEF LiveIsOwned
<1>6. StrayIsNobodys'
  BY <1>1, NoBlockAssumption DEF OwnInv, OwnTypeOK, StrayIsNobodys
<1> QED
  BY <1>2, <1>3, <1>4, <1>5, <1>6 DEF OwnInv

\* A key that is not constructed gets data of its own.
LEMMA KeyWithNewData ==
    ASSUME OwnInv, NEW k \in KeyObjects, ~Constructed(k), NEW b, Creates(b),
           keyOf' = [keyOf EXCEPT ![k] = [class |-> "array", block |-> b]],
           UNCHANGED <<dataOf, stray, deleted>>
    PROVE  OwnInv'
<1>1. /\ keyOf'[k] = [class |-> "array", block |-> b]
      /\ \A j \in KeyObjects \ {k} : keyOf'[j] = keyOf[j]
      /\ keyOf[k].block = NoBlock
  BY DEF OwnInv, OwnTypeOK, OwnedIsLive, Constructed
<1>2. OwnTypeOK' /\ b \in Blocks /\ b \notin live /\ b # NoBlock
  BY NoBlockAssumption DEF OwnInv, OwnTypeOK, Creates
<1>3. OwnedIsLive'
  BY <1>1 DEF OwnInv, OwnedIsLive, Creates
<1>4. NotShared'
  BY <1>1, <1>2 DEF OwnInv, OwnedIsLive, NotShared
<1>5. LiveIsOwned' /\ StrayIsNobodys'
  BY <1>1, <1>2, NoBlockAssumption
     DEF OwnInv, OwnTypeOK, LiveIsOwned, StrayIsNobodys, Creates
<1> QED
  BY <1>2, <1>3, <1>4, <1>5 DEF OwnInv

\* A key of a number type points to new data.
LEMMA KeyWithStrayData ==
    ASSUME OwnInv, NEW k \in KeyObjects, NEW v \in Resources,
           ConstructByBufferCopy(k, v)
    PROVE  OwnInv'
<1>1. PICK b : /\ Creates(b) /\ stray' = stray \cup {b}
               /\ keyOf' = [keyOf EXCEPT ![k] = Null]
               /\ UNCHANGED <<dataOf, deleted>>
  BY DEF ConstructByBufferCopy, Creates
<1>2. /\ keyOf'[k] = Null /\ keyOf[k].block = NoBlock
      /\ \A j \in KeyObjects \ {k} : keyOf'[j] = keyOf[j]
  BY <1>1 DEF OwnInv, OwnTypeOK, OwnedIsLive, ConstructByBufferCopy, Constructed
<1>3. b \in Blocks /\ b \notin live /\ b # NoBlock
  BY <1>1, NoBlockAssumption DEF Creates
<1>4. OwnTypeOK'
  BY <1>1, <1>3 DEF OwnInv, OwnTypeOK, Creates, Null
<1>5. OwnedIsLive' /\ NotShared'
  BY <1>1, <1>2 DEF OwnInv, OwnedIsLive, NotShared, Creates, Null
<1>6. LiveIsOwned' /\ StrayIsNobodys'
  BY <1>1, <1>2, <1>3, NoBlockAssumption
     DEF OwnInv, OwnTypeOK, OwnedIsLive, LiveIsOwned, StrayIsNobodys, Creates, Null
<1> QED
  BY <1>1, <1>4, <1>5, <1>6 DEF OwnInv

\* What ~KeyValue deletes is what the key had, and it was allocated.
LEMMA DestroyedFacts ==
    ASSUME OwnInv, NEW k \in KeyObjects, Destroyed(k)
    PROVE  live' = live \ {keyOf[k].block} /\ ~deleted' /\ UNCHANGED stray
  BY NoBlockAssumption DEF Destroyed, OwnInv, OwnTypeOK, OwnedIsLive

LEMMA DestroyKeyInv ==
    ASSUME OwnInv, NEW k \in KeyObjects, DestroyKey(k)
    PROVE  OwnInv'
<1>1. live' = live \ {keyOf[k].block} /\ ~deleted' /\ UNCHANGED stray
  BY DestroyedFacts DEF DestroyKey
<1>2. /\ keyOf'[k] = Dead /\ \A j \in KeyObjects \ {k} : keyOf'[j] = keyOf[j]
      /\ dataOf' = dataOf
  BY DEF DestroyKey, OwnInv, OwnTypeOK
<1>3. OwnTypeOK'
  BY <1>1 DEF DestroyKey, OwnInv, OwnTypeOK, StrayIsNobodys, Dead
<1>4. OwnedIsLive'
  BY <1>1, <1>2, NoBlockAssumption
     DEF OwnInv, OwnTypeOK, OwnedIsLive, NotShared, Dead
<1>5. NotShared'
  BY <1>2 DEF OwnInv, NotShared, Dead
<1>6. LiveIsOwned'
  <2>1. ASSUME NEW b \in live' \ stray', NEW j \in KeyObjects, keyOf[j].block = b
        PROVE  keyOf'[j].block = b
    BY <1>1, <1>2, <2>1
  <2> QED
    BY <1>1, <1>2, <2>1 DEF OwnInv, LiveIsOwned
<1>7. StrayIsNobodys'
  BY <1>1, <1>2, NoBlockAssumption DEF OwnInv, OwnTypeOK, StrayIsNobodys, Dead
<1> QED
  BY <1>1, <1>3, <1>4, <1>5, <1>6, <1>7 DEF OwnInv

LEMMA CreateArrayInv ==
    ASSUME OwnInv, NEW v \in Resources, CreateArray(v)
    PROVE  OwnInv'
<1>1. PICK b : /\ Creates(b) /\ dataOf[v] = NoBlock
               /\ dataOf' = [dataOf EXCEPT ![v] = b]
               /\ UNCHANGED <<keyOf, stray, deleted>>
  BY DEF CreateArray, Creates
<1>2. /\ dataOf'[v] = b /\ \A w \in Resources \ {v} : dataOf'[w] = dataOf[w]
      /\ OwnTypeOK' /\ b \in Blocks /\ b \notin live /\ b # NoBlock
  BY <1>1, NoBlockAssumption DEF OwnInv, OwnTypeOK, Creates
<1>3. OwnedIsLive'
  BY <1>1, <1>2 DEF OwnInv, OwnedIsLive, Creates
<1>4. NotShared'
  BY <1>1, <1>2 DEF OwnInv, OwnedIsLive, NotShared
<1>5. LiveIsOwned' /\ StrayIsNobodys'
  BY <1>1, <1>2, NoBlockAssumption
     DEF OwnInv, OwnTypeOK, LiveIsOwned, StrayIsNobodys, Creates
<1> QED
  BY <1>1, <1>2, <1>3, <1>4, <1>5 DEF OwnInv

\* The three constructors from a variable or a key that copy, and those that
\* move: the place that is constructed had no data, so nothing is deleted.
LEMMA ConstructInv ==
    ASSUME OwnInv, NEW k \in KeyObjects, ~Constructed(k)
    PROVE  /\ \A v \in Resources : ConstructByMove(k, v) => OwnInv'
           /\ \A v \in Resources : ConstructByCopy(k, v) => OwnInv'
           /\ \A l \in KeyObjects : CopyKey(k, l) => OwnInv'
           /\ \A l \in KeyObjects : MoveKey(k, l) => OwnInv'
<1>1. keyOf[k].block = NoBlock /\ live = live \ {keyOf[k].block} /\ ~deleted
  BY NoBlockAssumption DEF OwnInv, OwnTypeOK, OwnedIsLive, Constructed
<1>2. ASSUME NEW v \in Resources, ConstructByMove(k, v)
      PROVE  OwnInv'
  BY <1>1, <1>2, KeyFromResource DEF ConstructByMove
<1>3. ASSUME NEW v \in Resources, ConstructByCopy(k, v)
      PROVE  OwnInv'
  BY <1>3, KeyWithNewData DEF ConstructByCopy, Creates
<1>4. ASSUME NEW l \in KeyObjects, CopyKey(k, l)
      PROVE  OwnInv'
  <2>1. CASE keyOf[l].class = "array"
    BY <1>4, <2>1, KeyWithNewData DEF CopyKey, Creates
  <2>2. CASE keyOf[l].class # "array"
    <3>1. /\ keyOf'[k] = keyOf[l] /\ keyOf[l].block = NoBlock
          /\ \A j \in KeyObjects \ {k} : keyOf'[j] = keyOf[j]
          /\ dataOf' = dataOf /\ live' = live /\ deleted' = deleted
          /\ stray' = stray
          /\ OwnTypeOK'
      BY <1>4, <2>2 DEF CopyKey, OwnInv, OwnTypeOK, OwnedIsLive
    <3>2. OwnedIsLive'
      BY <3>1 DEF OwnInv, OwnedIsLive
    <3>3. NotShared'
      BY <3>1 DEF OwnInv, NotShared
    <3>4. LiveIsOwned' /\ StrayIsNobodys'
      BY <1>1, <3>1, NoBlockAssumption
         DEF OwnInv, OwnTypeOK, LiveIsOwned, StrayIsNobodys
    <3> QED
      BY <3>1, <3>2, <3>3, <3>4 DEF OwnInv
  <2> QED
    BY <2>1, <2>2
<1>5. ASSUME NEW l \in KeyObjects, MoveKey(k, l)
      PROVE  OwnInv'
  <2>1. k # l
    BY <1>5 DEF MoveKey
  <2> QED
    BY <1>1, <1>5, <2>1, KeyFromKey DEF MoveKey
<1> QED
  BY <1>2, <1>3, <1>4, <1>5

LEMMA AssignInv ==
    ASSUME OwnInv, NEW k \in KeyObjects
    PROVE  /\ \A v \in Resources : AssignVariable(k, v) => OwnInv'
           /\ \A l \in KeyObjects : AssignKey(k, l) => OwnInv'
<1>1. ASSUME NEW v \in Resources, AssignVariable(k, v)
      PROVE  OwnInv'
  BY <1>1, DestroyedFacts, KeyFromResource DEF AssignVariable
<1>2. ASSUME NEW l \in KeyObjects, AssignKey(k, l)
      PROVE  OwnInv'
  <2>1. CASE k = l
    BY <1>2, <2>1
       DEF AssignKey, OwnInv, OwnTypeOK, OwnedIsLive, NotShared, LiveIsOwned,
           StrayIsNobodys
  <2>2. CASE k # l
    BY <1>2, <2>2, DestroyedFacts, KeyFromKey DEF AssignKey
  <2> QED
    BY <2>1, <2>2
<1> QED
  BY <1>1, <1>2

\* Whatever is copied, moved, assigned and destroyed.
THEOREM OwnInvariance == OwnSpec => []OwnInv
<1>1. OwnInit => OwnInv
  BY DEF OwnInit, OwnInv, OwnTypeOK, OwnedIsLive, NotShared, LiveIsOwned,
         StrayIsNobodys, Dead
<1>2. OwnInv /\ [OwnNext]_ownVars => OwnInv'
  <2> SUFFICES ASSUME OwnInv, [OwnNext]_ownVars PROVE OwnInv'
    OBVIOUS
  <2>1. ASSUME NEW v \in Resources, CreateArray(v)
        PROVE  OwnInv'
    BY <2>1, CreateArrayInv
  <2>2. ASSUME NEW k \in KeyObjects, NEW v \in Resources,
               \/ ConstructByMove(k, v) \/ AssignVariable(k, v)
               \/ ConstructByCopy(k, v) \/ ConstructByBufferCopy(k, v)
        PROVE  OwnInv'
    BY <2>2, ConstructInv, AssignInv, KeyWithStrayData
       DEF ConstructByMove, ConstructByCopy
  <2>3. ASSUME NEW k \in KeyObjects, NEW l \in KeyObjects,
               CopyKey(k, l) \/ MoveKey(k, l) \/ AssignKey(k, l)
        PROVE  OwnInv'
    BY <2>3, ConstructInv, AssignInv DEF CopyKey, MoveKey
  <2>4. ASSUME NEW k \in KeyObjects, DestroyKey(k)
        PROVE  OwnInv'
    BY <2>4, DestroyKeyInv
  <2>5. CASE UNCHANGED ownVars
    BY <2>5
       DEF ownVars, OwnInv, OwnTypeOK, OwnedIsLive, NotShared, LiveIsOwned,
           StrayIsNobodys
  <2> QED
    BY <2>1, <2>2, <2>3, <2>4, <2>5 DEF OwnNext
<1> QED
  BY <1>1, <1>2, PTL DEF OwnSpec

\* An allocated array is owned in exactly one place, but for the copies of
\* KeyValue(const BufferArray&), which like freed arrays are owned in none.
THEOREM OneOwnerAlways == OwnSpec => []OneOwner
<1> DEFINE owners(b) == {k \in KeyObjects : keyOf[k].block = b}
                        \cup {v \in Resources : dataOf[v] = b}
<1>1. ASSUME OwnInv, NEW b \in live \ stray
      PROVE  Cardinality(owners(b)) = 1
  <2>1. b # NoBlock
    BY <1>1, NoBlockAssumption DEF OwnInv, OwnTypeOK
  <2>2. CASE \E k \in KeyObjects : keyOf[k].block = b
    <3>1. PICK k \in KeyObjects : keyOf[k].block = b
      BY <2>2
    <3>2. owners(b) = {k}
      BY <1>1, <2>1, <3>1 DEF OwnInv, NotShared
    <3> QED
      BY <3>2, FS_Singleton
  <2>3. CASE \E v \in Resources : dataOf[v] = b
    <3>1. PICK v \in Resources : dataOf[v] = b
      BY <2>3
    <3>2. owners(b) = {v}
      BY <1>1, <2>1, <3>1 DEF OwnInv, NotShared
    <3> QED
      BY <3>2, FS_Singleton
  <2> QED
    BY <1>1, <2>2, <2>3 DEF OwnInv, LiveIsOwned
<1>2. ASSUME OwnInv, NEW b \in stray \cup (Blocks \ live)
      PROVE  owners(b) = {}
  BY <1>2, NoBlockAssumption DEF OwnInv, OwnedIsLive, StrayIsNobodys
<1>3. OwnInv => OneOwner
  BY <1>1, <1>2 DEF OneOwner, OwnInv, OwnTypeOK
<1> QED
  BY <1>3, OwnInvariance, PTL

-----------------------------------------------------------------------------
(* The keys of a map.  Types of keys and their codes *)

\* The code of a type is its place in VarTypes.
LEMMA CodesOf ==
    \A i \in 1 .. 28 : Code(VarTypes[i]) = i /\ VarTypes[i] # "invalid_type"
<1>1. \A i \in 1 .. 28 : VarTypes[i] # "invalid_type"
  BY DEF VarTypes
<1>2. \A i, j \in 1 .. 28 : VarTypes[i] = VarTypes[j] => i = j
  BY DEF VarTypes
<1>3. DOMAIN VarTypes = 1 .. 28
  BY DEF VarTypes
<1> QED
  BY <1>1, <1>2, <1>3 DEF Code

\* Numbers are the types from boolean to f64.
LEMMA NumberTypes ==
    ValTypes = {"boolean", "ui8", "si8", "ui16", "si16", "ui32", "si32", "f32",
                "ui64", "si64", "f64"}
<1>1. Code("boolean") = 2 /\ Code("f64") = 12
  BY CodesOf DEF VarTypes
<1> QED
  BY <1>1 DEF ValTypes, TypesFrom, VarTypes

\* Buffer arrays are the types from ui8_array to f64_array.
LEMMA ArraysOfTypes ==
    BufferArrayTypes =
        {"ui8_array", "si8_array", "ui16_array", "si16_array", "ui32_array", "si32_array",
         "f32_array", "ui64_array", "si64_array", "f64_array"}
<1>1. Code("ui8_array") = 14 /\ Code("f64_array") = 23
  BY CodesOf DEF VarTypes
<1> QED
  BY <1>1 DEF BufferArrayTypes, TypesFrom, VarTypes

\* The types a key can have.
KeyTypes == {"null"} \cup ValTypes \cup ArrayTypes

\* Types of keys are numbered, no two alike, up to the last array.
LEMMA CodesDiffer ==
    /\ \A t \in KeyTypes : Code(t) \in 1 .. 23
    /\ \A t, u \in KeyTypes : Code(t) = Code(u) => t = u
<1>1. \A t \in KeyTypes : \E i \in 1 .. 23 : t = VarTypes[i]
  BY NumberTypes, ArraysOfTypes DEF KeyTypes, ArrayTypes, VarTypes
<1> QED
  BY <1>1, CodesOf

\* Every type a key can have belongs to one class.
LEMMA Classes ==
    /\ toTypeClass("null") = "null"
    /\ toTypeClass("bit_array") = "bit_array"
    /\ \A t \in ValTypes : toTypeClass(t) = "number"
    /\ \A t \in BufferArrayTypes : toTypeClass(t) = "buffer_array"
    /\ \A t \in KeyTypes : t # "null" => toTypeClass(t) # "null"
  BY NumberTypes, ArraysOfTypes DEF toTypeClass, KeyTypes, ArrayTypes

\* The codes of the four classes of keys, in order.
LEMMA ClassCodes ==
    /\ ClassCode("null") = 1 /\ ClassCode("number") = 2
    /\ ClassCode("bit_array") = 3 /\ ClassCode("buffer_array") = 4
<1> DEFINE classes == << "null", "number", "bit_array", "buffer_array", "array", "list",
                         "map", "multimap", "table" >>
<1>1. \A i, j \in 1 .. 9 : classes[i] = classes[j] => i = j
  OBVIOUS
<1>2. DOMAIN classes = 1 .. 9
  OBVIOUS
<1>3. \A c : c # "invalid_type" => \A i \in 1 .. 9 : classes[i] = c => ClassCode(c) = i
  BY <1>1, <1>2 DEF ClassCode
<1> QED
  BY <1>3

\* The kind of number that a number is, and that the elements of an array are.
LEMMA Kinds ==
    /\ \A t \in ValTypes \cup ArrayTypes :
          /\ toValueType(t) \in ValTypes
          /\ toNumberType(t) \in {"unsigned_integer", "signed_integer", "float_point"}
          /\ toNumberType(toValueType(t)) = toNumberType(t)
    /\ \A t \in ValTypes : toValueType(t) = t
<1>1. \A t \in ValTypes : toValueType(t) = t
  BY NumberTypes, ArraysOfTypes DEF toValueType
<1>2. toValueType("bit_array") = "boolean" /\ "boolean" \in ValTypes
  BY NumberTypes, ArraysOfTypes DEF toValueType
<1>3. \A t \in BufferArrayTypes : toValueType(t) = VarTypes[Code(t) - 11]
  BY NumberTypes, ArraysOfTypes DEF toValueType
<1>4. \A i \in 14 .. 23 : VarTypes[i - 11] \in ValTypes
  BY NumberTypes DEF VarTypes
<1>5. \A t \in BufferArrayTypes : Code(t) \in 14 .. 23
  <2>1. \A t \in BufferArrayTypes : \E i \in 14 .. 23 : t = VarTypes[i]
    BY ArraysOfTypes DEF VarTypes
  <2> QED
    BY <2>1, CodesOf
<1>6. \A t \in ValTypes \cup ArrayTypes : toValueType(t) \in ValTypes
  BY <1>1, <1>2, <1>3, <1>4, <1>5 DEF ArrayTypes
<1>7. \A t \in ValTypes \cup ArrayTypes : toNumberType(toValueType(t)) = toNumberType(t)
  BY <1>1, <1>6 DEF toNumberType
<1>8. \A t \in ValTypes : toNumberType(t) \in {"unsigned_integer", "signed_integer", "float_point"}
  BY <1>1, NumberTypes DEF toNumberType
<1> QED
  BY <1>1, <1>6, <1>7, <1>8

\* A key made from the variable of a key is that key.
LEMMA KeyAgain ==
    /\ \A t \in KeyTypes : toKeyType(t) = t
    /\ \A t \in BufferArrayTypes : toKeyBufferType(toValueType(t)) = t
<1>1. Code("f64_array") = 23
  BY CodesOf DEF VarTypes
<1>2. \A t \in KeyTypes : toKeyType(t) = t
  BY <1>1, CodesDiffer DEF toKeyType
<1>3. ASSUME NEW t \in BufferArrayTypes
      PROVE  toKeyBufferType(toValueType(t)) = t
  <2>1. PICK i \in 14 .. 23 : t = VarTypes[i]
    BY ArraysOfTypes DEF VarTypes
  <2>2. Code(t) = i
    BY <2>1, CodesOf
  <2>3. toValueType(t) = VarTypes[i - 11]
    BY <2>2, NumberTypes, ArraysOfTypes DEF toValueType
  <2>4. Code(VarTypes[i - 11]) = i - 11
    BY CodesOf
  <2>5. VarTypes[i - 11] \in ValTypes \ {"boolean"}
    BY NumberTypes DEF VarTypes
  <2> QED
    BY <2>1, <2>3, <2>4, <2>5 DEF toKeyBufferType
<1> QED
  BY <1>2, <1>3

-----------------------------------------------------------------------------
\* A set of numbers has a least one.
LEMMA LeastIn ==
    ASSUME NEW S, S \subseteq Nat, S # {}
    PROVE  /\ Min(S) \in S
           /\ \A n \in S : Min(S) <= n
           /\ \A n \in Nat : n < Min(S) => n \notin S
<1> DEFINE P == {n \in Nat : n \notin S}
<1>1. \E n \in S : \A m \in S : n <= m
  <2> SUFFICES ASSUME ~ \E n \in S : \A m \in S : n <= m PROVE FALSE
    OBVIOUS
  <2>1. ASSUME NEW n \in Nat, \A m \in 0 .. (n - 1) : m \in P
        PROVE  n \in P
    BY <2>1
  <2> HIDE DEF P
  <2>2. Nat \subseteq P
    BY <2>1, StrongInduction
  <2> QED
    BY <2>2 DEF P
<1>2. Min(S) \in S /\ \A n \in S : Min(S) <= n
  BY <1>1 DEF Min
<1> DEFINE l == Min(S)
<1> HIDE DEF l
<1>3. l \in S /\ \A n \in S : l <= n
  BY <1>2 DEF l
<1>4. l \in S /\ (\A n \in S : l <= n) /\ (\A n \in Nat : n < l => n \notin S)
  BY <1>3
<1> QED
  BY <1>4 DEF l

\* The least of two numbers.
LEMMA LesserOfTwo ==
    ASSUME NEW m \in Nat, NEW n \in Nat
    PROVE  Min({m, n}) = IF m <= n THEN m ELSE n
<1>1. Min({m, n}) \in {m, n} /\ Min({m, n}) <= m /\ Min({m, n}) <= n
  BY LeastIn
<1> QED
  BY <1>1

-----------------------------------------------------------------------------
(* The order of keys.  It is one by classes, and in each class by the values *)
(* and the codes of types.                                                   *)

\* The class of a key, by which keys are ordered first.
ClassOf(a) == ClassCode(toTypeClass(a.type))

\* What the class of a key says of its type and value.
LEMMA KeyParts ==
    ASSUME NEW a \in MapKeys
    PROVE  /\ a.type \in KeyTypes
           /\ ClassOf(a) \in 1 .. 4
           /\ ClassOf(a) = 1 => a = NullKey
           /\ ClassOf(a) = 2 <=> toTypeClass(a.type) = "number"
           /\ ClassOf(a) = 2 => a.type \in ValTypes /\ a.val \in Int
           /\ ClassOf(a) \in {3, 4} <=> toTypeClass(a.type) \in {"bit_array", "buffer_array"}
           /\ ClassOf(a) \in {3, 4} => a.type \in ArrayTypes /\ a.val \in Seq(Int)
           /\ a = [type |-> a.type, val |-> a.val]
<1>1. CASE a = NullKey
  BY <1>1, Classes, ClassCodes DEF NullKey, ClassOf, KeyTypes
<1>2. CASE a \in [type : ValTypes, val : Int]
  BY <1>2, Classes, ClassCodes DEF ClassOf, KeyTypes
<1>3. CASE a \in [type : ArrayTypes, val : Seq(Int)]
  <2>1. CASE a.type = "bit_array"
    BY <1>3, <2>1, Classes, ClassCodes DEF ClassOf, KeyTypes
  <2>2. CASE a.type \in BufferArrayTypes
    BY <1>3, <2>2, Classes, ClassCodes DEF ClassOf, KeyTypes
  <2> QED
    BY <1>3, <2>1, <2>2 DEF ArrayTypes
<1> QED
  BY <1>1, <1>2, <1>3 DEF MapKeys

\* Keys of one class number have the same class.
LEMMA SameClass ==
    ASSUME NEW a \in MapKeys, NEW b \in MapKeys
    PROVE  toTypeClass(a.type) = toTypeClass(b.type) <=> ClassOf(a) = ClassOf(b)
<1>1. \A x \in MapKeys : toTypeClass(x.type) \in {"null", "number", "bit_array", "buffer_array"}
  BY Classes, KeyParts DEF KeyTypes, ArrayTypes
<1> QED
  BY <1>1, ClassCodes DEF ClassOf

\* x comes before y by the first element in which they differ.
FirstLess(x, y) ==
    \E m \in 1 .. Len(x) :
        /\ m <= Len(y) /\ x[m] < y[m]
        /\ \A i \in 1 .. m - 1 : x[i] = y[i]

\* Two keys of one class, without their types.
ByValue(a, b) ==
    \/ ClassOf(a) = 2 /\ a.val < b.val
    \/ ClassOf(a) \in {3, 4} /\ FirstLess(a.val, b.val)

\* The order of keys: by class, by value, and by type.
Precedes(a, b) ==
    \/ ClassOf(a) < ClassOf(b)
    \/ ClassOf(a) = ClassOf(b) /\ ByValue(a, b)
    \/ ClassOf(a) = ClassOf(b) /\ a.val = b.val /\ Code(a.type) < Code(b.type)

\* The elements of a sequence of integers are integers.
LEMMA ElementIsInt ==
    ASSUME NEW x \in Seq(Int), NEW i \in 1 .. Len(x)
    PROVE  x[i] \in Int
OBVIOUS

\* The first k elements of a sequence.
LEMMA BeginningOf ==
    ASSUME NEW x \in Seq(Int), NEW k \in Nat, k <= Len(x)
    PROVE  /\ SubSeq(x, 1, k) \in Seq(Int) /\ Len(SubSeq(x, 1, k)) = k
           /\ \A i \in 1 .. k : SubSeq(x, 1, k)[i] = x[i]
OBVIOUS

\* No array of a is the beginning of one of b, or the other way round.
LEMMA ArraysDiffer ==
    ASSUME NEW x \in Seq(Int), NEW y \in Seq(Int),
           ~ (Len(x) < Len(y) /\ x = SubSeq(y, 1, Len(x))),
           ~ (Len(y) < Len(x) /\ y = SubSeq(x, 1, Len(y)))
    PROVE  LET common == Min({Len(x), Len(y)})
               differ == {i \in 1 .. common : x[i] # y[i]}
           IN  /\ differ = {} <=> x = y
               /\ x # y => FirstLess(x, y) \/ FirstLess(y, x)
               /\ differ # {} => /\ Min(differ) \in 1 .. common
                                 /\ x[Min(differ)] < y[Min(differ)] <=> FirstLess(x, y)
                                 /\ x[Min(differ)] > y[Min(differ)] <=> FirstLess(y, x)
<1> DEFINE common == Min({Len(x), Len(y)})
           differ == {i \in 1 .. common : x[i] # y[i]}
<1>1. /\ common \in Nat /\ common <= Len(x) /\ common <= Len(y)
      /\ common = Len(x) \/ common = Len(y)
  <2>1. PICK m \in Nat, n \in Nat : m = Len(x) /\ n = Len(y)
    OBVIOUS
  <2>2. Min({m, n}) = IF m <= n THEN m ELSE n
    BY LesserOfTwo
  <2> QED
    BY <2>1, <2>2
<1> HIDE DEF common
<1>2. differ = {} <=> x = y
  <2>1. ASSUME x = y PROVE differ = {}
    BY <2>1
  <2>2. ASSUME differ = {}, Len(x) < Len(y) PROVE FALSE
    <3>1. x = SubSeq(y, 1, Len(x))
      <4>1. /\ SubSeq(y, 1, Len(x)) \in Seq(Int)
            /\ Len(SubSeq(y, 1, Len(x))) = Len(x)
            /\ \A i \in 1 .. Len(x) : SubSeq(y, 1, Len(x))[i] = y[i]
        <5>1. Len(x) \in Nat /\ Len(x) <= Len(y)
          BY <2>2, SMTT(40)
        <5> QED
          BY <5>1, BeginningOf
      <4>2. \A i \in 1 .. common : x[i] = y[i]
        BY <2>2
      <4>3. common = Len(x)
        BY <1>1, <2>2
      <4> QED
        BY <4>1, <4>2, <4>3, SeqEqual
    <3> QED
      BY <2>2, <3>1
  <2>3. ASSUME differ = {}, Len(y) < Len(x) PROVE FALSE
    <3>1. y = SubSeq(x, 1, Len(y))
      <4>1. /\ SubSeq(x, 1, Len(y)) \in Seq(Int)
            /\ Len(SubSeq(x, 1, Len(y))) = Len(y)
            /\ \A i \in 1 .. Len(y) : SubSeq(x, 1, Len(y))[i] = x[i]
        <5>1. Len(y) \in Nat /\ Len(y) <= Len(x)
          BY <2>3, SMTT(40)
        <5> QED
          BY <5>1, BeginningOf
      <4>2. \A i \in 1 .. common : x[i] = y[i]
        BY <2>3
      <4>3. common = Len(y)
        BY <1>1, <2>3
      <4> QED
        BY <4>1, <4>2, <4>3, SeqEqual
    <3> QED
      BY <2>3, <3>1
  <2>4. ASSUME differ = {}, Len(x) = Len(y) PROVE x = y
    <3>1. \A i \in 1 .. Len(x) : x[i] = y[i]
      BY <1>1, <2>4
    <3> QED
      BY <2>4, <3>1, SeqEqual
  <2> QED
    BY <2>1, <2>2, <2>3, <2>4, SMTT(40)
<1>3. ASSUME differ # {}
      PROVE  /\ Min(differ) \in 1 .. common
             /\ x[Min(differ)] < y[Min(differ)] <=> FirstLess(x, y)
             /\ x[Min(differ)] > y[Min(differ)] <=> FirstLess(y, x)
  <2> DEFINE m == Min(differ)
  <2>1. m \in differ /\ \A n \in Nat : n < m => n \notin differ
    <3>1. differ \subseteq Nat
      BY <1>1
    <3> HIDE DEF differ
    <3> QED
      BY <1>3, <3>1, LeastIn
  <2> HIDE DEF m
  <2>2. m \in 1 .. common /\ x[m] # y[m] /\ \A i \in 1 .. m - 1 : x[i] = y[i]
    <3>1. m \in 1 .. common /\ x[m] # y[m]
      BY <2>1
    <3>2. ASSUME NEW i \in 1 .. m - 1 PROVE x[i] = y[i]
      <4>1. i \in 1 .. common /\ i \notin differ
        BY <1>1, <2>1, <3>1
      <4> QED
        BY <4>1
    <3> QED
      BY <3>1, <3>2
  <2>3. m \in 1 .. Len(x) /\ m \in 1 .. Len(y) /\ x[m] \in Int /\ y[m] \in Int
    BY <1>1, <2>2, SMTT(40)
  <2>4. x[m] < y[m] => FirstLess(x, y)
    BY <2>2, <2>3 DEF FirstLess
  <2>5. x[m] > y[m] => FirstLess(y, x)
    BY <2>2, <2>3 DEF FirstLess
  <2>6. FirstLess(x, y) => ~ FirstLess(y, x)
    <3> SUFFICES ASSUME FirstLess(x, y), FirstLess(y, x) PROVE FALSE
      OBVIOUS
    <3>1. PICK i \in 1 .. Len(x) : /\ i <= Len(y) /\ x[i] < y[i]
                                  /\ \A j \in 1 .. i - 1 : x[j] = y[j]
      BY DEF FirstLess
    <3>2. PICK k \in 1 .. Len(y) : /\ k <= Len(x) /\ y[k] < x[k]
                                  /\ \A j \in 1 .. k - 1 : y[j] = x[j]
      BY DEF FirstLess
    <3>3. x[i] \in Int /\ y[i] \in Int /\ x[k] \in Int /\ y[k] \in Int
      BY <3>1, <3>2, SMTT(40)
    <3>4. CASE i < k
      <4>1. i \in 1 .. k - 1
        BY <3>4
      <4> QED
        BY <3>1, <3>2, <3>3, <4>1
    <3>5. CASE k < i
      <4>1. k \in 1 .. i - 1
        BY <3>5
      <4> QED
        BY <3>1, <3>2, <3>3, <4>1
    <3>6. CASE i = k
      BY <3>1, <3>2, <3>3, <3>6
    <3> QED
      BY <3>4, <3>5, <3>6
  <2> QED
    BY <2>2, <2>3, <2>4, <2>5, <2>6, SMTT(40) DEF m
<1>4. ASSUME x # y PROVE FirstLess(x, y) \/ FirstLess(y, x)
  <2>1. differ # {}
    BY <1>2, <1>4
  <2>2. differ \subseteq Nat
    BY <1>1
  <2> DEFINE m == Min(differ)
  <2>3. m \in differ
    <3> HIDE DEF differ
    <3> QED
      BY <2>1, <2>2, LeastIn
  <2>4. x[m] < y[m] <=> FirstLess(x, y)
    BY <1>3, <2>1
  <2>5. x[m] > y[m] <=> FirstLess(y, x)
    BY <1>3, <2>1
  <2> HIDE DEF m
  <2>6. x[m] # y[m] /\ x[m] \in Int /\ y[m] \in Int
    BY <1>1, <2>3
  <2> QED
    BY <2>4, <2>5, <2>6
<1> QED
  BY <1>2, <1>3, <1>4 DEF common

-----------------------------------------------------------------------------
(* What the comparisons of keys return *)

\* Comparisons of numbers are those of their values.
LEMMA NumbersCompared ==
    ASSUME NEW a, NEW b, a.type \in ValTypes, b.type \in ValTypes, a.val \in Int, b.val \in Int,
           \/ toNumberType(a.type) = toNumberType(b.type)
           \/ /\ "float_point" \notin {toNumberType(a.type), toNumberType(b.type)}
              /\ a.val >= 0 /\ b.val >= 0
    PROVE  (Gt(a, b) <=> a.val > b.val) /\ (Lt(a, b) <=> a.val < b.val)
<1>1. \A t \in ValTypes :
         toNumberType(t) \in {"unsigned_integer", "signed_integer", "float_point"}
  BY Kinds
<1>2. ASSUME NEW relation \in {">", ">="}
      PROVE  Compare(relation, a, b) <=> Holds(relation, a.val, b.val)
  <2>1. CASE toNumberType(a.type) = toNumberType(b.type)
    <3>1. CASE toNumberType(a.type) = "unsigned_integer"
      BY <2>1, <3>1 DEF Compare
    <3>2. CASE toNumberType(a.type) = "signed_integer"
      BY <2>1, <3>2 DEF Compare
    <3>3. CASE toNumberType(a.type) = "float_point"
      BY <2>1, <3>3 DEF Compare
    <3> QED
      BY <1>1, <3>1, <3>2, <3>3
  <2>2. CASE /\ toNumberType(a.type) = "unsigned_integer"
             /\ toNumberType(b.type) = "signed_integer" /\ b.val >= 0
    BY <2>2 DEF Compare, Holds
  <2>3. CASE /\ toNumberType(a.type) = "signed_integer"
             /\ toNumberType(b.type) = "unsigned_integer" /\ a.val >= 0
    BY <2>3 DEF Compare
  <2> QED
    BY <1>1, <2>1, <2>2, <2>3
<1>3. Holds(">", a.val, b.val) <=> a.val > b.val
  BY DEF Holds
<1>4. Holds(">=", a.val, b.val) <=> a.val >= b.val
  BY DEF Holds
<1>5. Gt(a, b) <=> a.val > b.val
  BY <1>2, <1>3 DEF Gt
<1>6. Lt(a, b) <=> a.val < b.val
  BY <1>2, <1>4 DEF Lt, Ge
<1> QED
  BY <1>5, <1>6

\* Types are compared by their codes.
LEMMA TypesCompared ==
    ASSUME NEW a, NEW b, a.type \in KeyTypes, b.type \in KeyTypes
    PROVE  /\ CompareTypes(a, b) = "lower" <=> Code(a.type) < Code(b.type)
           /\ CompareTypes(a, b) = "equal" <=> Code(a.type) = Code(b.type)
  BY CodesDiffer DEF CompareTypes

\* Numbers of comparable kinds are compared by value and then by type.
LEMMA NumberKeysCompared ==
    ASSUME NEW a \in MapKeys, NEW b \in MapKeys, Comparable(a, b),
           ClassOf(a) = 2, ClassOf(b) = 2
    PROVE  /\ CompareNumbers(a, b) = "lower" <=> Precedes(a, b)
           /\ getCompare(a, b) = {CompareNumbers(a, b)}
           /\ Before(a, b) <=> Precedes(a, b)
<1>1. /\ a.type \in ValTypes /\ b.type \in ValTypes /\ a.val \in Int /\ b.val \in Int
      /\ toTypeClass(a.type) = "number" /\ toTypeClass(b.type) = "number"
      /\ a.type \in KeyTypes /\ b.type \in KeyTypes
  BY KeyParts
<1>2. (Gt(a, b) <=> a.val > b.val) /\ (Lt(a, b) <=> a.val < b.val)
  <2>1. \/ toNumberType(a.type) = toNumberType(b.type)
        \/ /\ "float_point" \notin {toNumberType(a.type), toNumberType(b.type)}
           /\ a.val >= 0 /\ b.val >= 0
    BY <1>1 DEF Comparable
  <2> QED
    BY <1>1, <2>1, NumbersCompared
<1>3. ClassCode("number") = 2
  BY ClassCodes
<1>4. getCompare(a, b) = {CompareNumbers(a, b)}
  BY <1>1, <1>3 DEF getCompare
<1>5. Precedes(a, b) <=> (a.val < b.val \/ (a.val = b.val /\ Code(a.type) < Code(b.type)))
  BY <1>3 DEF Precedes, ByValue
<1>6. CompareNumbers(a, b) = "lower" <=> Precedes(a, b)
  <2>1. CASE Gt(a, b)
    BY <1>1, <1>2, <1>5, <2>1 DEF CompareNumbers
  <2>2. CASE ~Gt(a, b) /\ Lt(a, b)
    BY <1>1, <1>2, <1>5, <2>2 DEF CompareNumbers
  <2>3. CASE ~Gt(a, b) /\ ~Lt(a, b)
    <3>1. CompareNumbers(a, b) = CompareTypes(a, b)
      BY <2>3 DEF CompareNumbers
    <3>2. a.val = b.val
      BY <1>1, <1>2, <2>3
    <3> QED
      BY <1>1, <1>5, <3>1, <3>2, TypesCompared
  <2> QED
    BY <2>1, <2>2, <2>3
<1>7. Before(a, b) <=> (a.val < b.val \/ (a.val = b.val /\ Code(a.type) < Code(b.type)))
  BY <1>1, <1>3 DEF Before
<1> QED
  BY <1>4, <1>5, <1>6, <1>7

\* Arrays are compared by their first difference and then by type.
LEMMA ArrayKeysCompared ==
    ASSUME NEW a \in MapKeys, NEW b \in MapKeys, Comparable(a, b),
           ClassOf(a) \in {3, 4}, ClassOf(b) = ClassOf(a)
    PROVE  \E c : /\ getCompare(a, b) = {c}
                  /\ c = "lower" <=> Precedes(a, b)
                  /\ Before(a, b) <=> Precedes(a, b)
<1> DEFINE x == a.val
           y == b.val
           common == Min({Len(x), Len(y)})
           differ == {i \in 1 .. common : x[i] # y[i]}
<1>1. /\ a.type \in ArrayTypes /\ b.type \in ArrayTypes /\ x \in Seq(Int) /\ y \in Seq(Int)
      /\ toTypeClass(a.type) \in {"bit_array", "buffer_array"}
      /\ toTypeClass(b.type) = toTypeClass(a.type)
      /\ a.type \in KeyTypes /\ b.type \in KeyTypes
  BY KeyParts, SameClass
<1>2. /\ toNumberType(a.type) = toNumberType(b.type)
      /\ ~ (Len(x) < Len(y) /\ x = SubSeq(y, 1, Len(x)))
      /\ ~ (Len(y) < Len(x) /\ y = SubSeq(x, 1, Len(y)))
  BY <1>1 DEF Comparable
<1>3. /\ differ = {} <=> x = y
      /\ differ # {} => /\ Min(differ) \in 1 .. common
                        /\ x[Min(differ)] < y[Min(differ)] <=> FirstLess(x, y)
                        /\ x[Min(differ)] > y[Min(differ)] <=> FirstLess(y, x)
  BY <1>1, <1>2, ArraysDiffer, ZenonT(40)
<1>4. common \in Nat /\ common <= Len(x) /\ common <= Len(y)
  <2>1. PICK m \in Nat, n \in Nat : m = Len(x) /\ n = Len(y)
    BY <1>1
  <2>2. Min({m, n}) = IF m <= n THEN m ELSE n
    BY LesserOfTwo
  <2> QED
    BY <2>1, <2>2
<1>e. \A i \in 1 .. common : x[i] \in Int /\ y[i] \in Int
  <2>1. x \in Seq(Int) /\ y \in Seq(Int)
    BY <1>1
  <2> HIDE DEF x, y, common
  <2>2. \A i \in 1 .. common : i \in 1 .. Len(x) /\ i \in 1 .. Len(y)
    BY <1>4, <2>1
  <2> QED
    BY <2>1, <2>2, ElementIsInt
<1>5. \A i \in 1 .. common :
         /\ Gt(Element(a, i), Element(b, i)) <=> x[i] > y[i]
         /\ Lt(Element(a, i), Element(b, i)) <=> x[i] < y[i]
  <2> SUFFICES ASSUME NEW i \in 1 .. common
               PROVE  /\ Gt(Element(a, i), Element(b, i)) <=> x[i] > y[i]
                      /\ Lt(Element(a, i), Element(b, i)) <=> x[i] < y[i]
    OBVIOUS
  <2>1. x[i] \in Int /\ y[i] \in Int
    BY <1>e
  <2>2. /\ Element(a, i).type \in ValTypes /\ Element(b, i).type \in ValTypes
        /\ Element(a, i).val = x[i] /\ Element(b, i).val = y[i]
        /\ toNumberType(Element(a, i).type) = toNumberType(Element(b, i).type)
    BY <1>1, <1>2, Kinds DEF Element
  <2> HIDE DEF x, y
  <2> QED
    BY <2>1, <2>2, NumbersCompared
<1>6. /\ ClassCode(toTypeClass(a.type)) = ClassCode(toTypeClass(b.type))
      /\ ClassCode(toTypeClass(a.type)) \in Int
  BY <1>1, KeyParts DEF ClassOf
<1>7. getCompare(a, b) = CompareArrays(a, b)
  BY <1>1, <1>6, ClassCodes DEF getCompare, ClassOf
<1>8. Precedes(a, b) <=> (FirstLess(x, y) \/ (x = y /\ Code(a.type) < Code(b.type)))
  BY DEF Precedes, ByValue
<1>b. Before(a, b) <=> IF differ # {} THEN x[Min(differ)] < y[Min(differ)]
                       ELSE Len(x) = Len(y) /\ Code(a.type) < Code(b.type)
  <2>1. a.type # "null"
    BY <1>1, NumberTypes, ArraysOfTypes DEF ArrayTypes
  <2>2. toTypeClass(a.type) # "number"
    BY <1>1
  <2> DEFINE ca == ClassCode(toTypeClass(a.type))
             cb == ClassCode(toTypeClass(b.type))
             numbers == toTypeClass(a.type) = "number"
             codes == Code(a.type) < Code(b.type)
             first == x[Min(differ)] < y[Min(differ)]
  <2>3. Before(a, b) <=>
            \/ ca < cb
            \/ ca = cb /\ numbers /\ a.val < b.val
            \/ ca = cb /\ numbers /\ a.val = b.val /\ codes
            \/ /\ ca = cb /\ ~numbers /\ a.type # "null"
               /\ IF differ # {} THEN first ELSE Len(x) = Len(y) /\ codes
    BY DEF Before
  <2>4. ca = cb /\ ca \in Int /\ ~numbers
    BY <1>6, <2>2
  <2> HIDE DEF x, y, differ, ca, cb, numbers, codes, first
  <2>5. Before(a, b) <=> IF differ # {} THEN first ELSE Len(x) = Len(y) /\ codes
    BY <2>1, <2>3, <2>4
  <2> QED
    BY <2>5 DEF first, codes
<1>9. {i \in 1 .. common : Gt(Element(a, i), Element(b, i)) \/ Lt(Element(a, i), Element(b, i))}
         = differ
  <2> HIDE DEF x, y, common
  <2> QED
    BY <1>5, <1>e
<1> HIDE DEF x, y
<1>10. CASE differ # {}
  <2> DEFINE m == Min(differ)
             c == IF x[m] > y[m] THEN "highter" ELSE "lower"
  <2>1. m \in 1 .. common
    BY <1>3, <1>10
  <2>2. CompareArrays(a, b) = {IF Gt(Element(a, m), Element(b, m)) THEN "highter" ELSE "lower"}
    BY <1>9, <1>10 DEF CompareArrays, x, y
  <2>3. CompareArrays(a, b) = {c}
    BY <1>5, <2>1, <2>2
  <2>4. x[m] \in Int /\ y[m] \in Int /\ x[m] # y[m]
    <3>1. differ \subseteq Nat
      BY <1>4
    <3>2. m \in differ
      <4> HIDE DEF differ
      <4> QED
        BY <1>10, <3>1, LeastIn
    <3> HIDE DEF m
    <3> QED
      BY <1>e, <2>1, <3>2
  <2>5. x # y
    BY <1>3, <1>10
  <2>6. x[m] < y[m] <=> FirstLess(x, y)
    BY <1>3, <1>10
  <2>7. Before(a, b) <=> x[m] < y[m]
    BY <1>b, <1>10
  <2> HIDE DEF m
  <2>8. c = "lower" <=> x[m] < y[m]
    BY <2>4
  <2>9. c = "lower" <=> Precedes(a, b)
    BY <1>8, <2>5, <2>6, <2>8
  <2>10. Before(a, b) <=> Precedes(a, b)
    BY <1>8, <2>5, <2>6, <2>7
  <2> HIDE DEF c
  <2> QED
    BY <1>7, <2>3, <2>9, <2>10
<1>11. CASE differ = {}
  <2>1. x = y
    BY <1>3, <1>11
  <2>2. CompareArrays(a, b) = {CompareTypes(a, b)}
    <3>1. Len(a.val) \in Nat /\ a.val = b.val
      BY <1>1, <2>1 DEF x, y
    <3> DEFINE e == {i \in 1 .. common :
                        Gt(Element(a, i), Element(b, i)) \/ Lt(Element(a, i), Element(b, i))}
               same == {IF Gt(Element(a, Min(e)), Element(b, Min(e)))
                        THEN "highter" ELSE "lower"}
    <3>2. e = {}
      BY <1>9, <1>11
    <3>3. CompareArrays(a, b) =
            CASE e # {} -> same
              [] e = {} /\ Len(a.val) > Len(b.val) -> {"highter"}
              [] e = {} /\ Len(a.val) < Len(b.val) -> {"highter", "lower"}
              [] OTHER -> {CompareTypes(a, b)}
      BY DEF CompareArrays, x, y
    <3>4. ~ (Len(a.val) > Len(b.val)) /\ ~ (Len(a.val) < Len(b.val))
      BY <3>1
    <3> HIDE DEF e, same
    <3> QED
      BY <3>2, <3>3, <3>4
  <2>3. ~ FirstLess(x, y)
    BY <1>1, <2>1 DEF FirstLess
  <2>4. Precedes(a, b) <=> Code(a.type) < Code(b.type)
    BY <1>8, <2>1, <2>3
  <2>5. Before(a, b) <=> Code(a.type) < Code(b.type)
    BY <1>b, <1>11, <2>1
  <2>6. CompareTypes(a, b) = "lower" <=> Code(a.type) < Code(b.type)
    BY <1>1, TypesCompared
  <2> QED
    BY <1>7, <2>2, <2>4, <2>5, <2>6
<1> QED
  BY <1>10, <1>11

\* The code orders comparable keys, and as is meant.
THEOREM KeysCompared ==
    ASSUME NEW a \in MapKeys, NEW b \in MapKeys, Comparable(a, b)
    PROVE  /\ Precedes(a, b) => Less(a, b) = {TRUE}
           /\ ~Precedes(a, b) => Less(a, b) = {FALSE}
           /\ Before(a, b) <=> Precedes(a, b)
<1> DEFINE ca == ClassCode(toTypeClass(a.type))
           cb == ClassCode(toTypeClass(b.type))
<1>1. /\ ca = ClassOf(a) /\ cb = ClassOf(b) /\ ca \in 1 .. 4 /\ cb \in 1 .. 4
  BY KeyParts DEF ClassOf
<1>2. ASSUME NEW c, getCompare(a, b) = {c}, c = "lower" <=> Precedes(a, b)
      PROVE  /\ Precedes(a, b) => Less(a, b) = {TRUE}
             /\ ~Precedes(a, b) => Less(a, b) = {FALSE}
  <2>1. Less(a, b) = {r = "lower" : r \in {c}}
    BY <1>2 DEF Less
  <2>2. CASE Precedes(a, b)
    BY <1>2, <2>1, <2>2, ZenonT(40)
  <2>3. CASE ~Precedes(a, b)
    BY <1>2, <2>1, <2>3
  <2> QED
    BY <2>2, <2>3
<1>3. CASE ca < cb
  <2>1. getCompare(a, b) = {"lower"}
    BY <1>1, <1>3 DEF getCompare
  <2>2. Precedes(a, b) /\ Before(a, b)
    BY <1>1, <1>3 DEF Precedes, Before
  <2> QED
    BY <1>2, <2>1, <2>2
<1>4. CASE ca > cb
  <2>1. getCompare(a, b) = {"highter"}
    BY <1>1, <1>4 DEF getCompare
  <2>2. ~(ca < cb) /\ ca # cb
    BY <1>1, <1>4
  <2>3. ~Precedes(a, b)
    BY <1>1, <2>2 DEF Precedes
  <2>4. ~Before(a, b)
    BY <2>2 DEF Before
  <2> QED
    BY <1>2, <2>1, <2>3, <2>4
<1>5. CASE ca = cb /\ ca = 1
  <2>1. a = NullKey /\ b = NullKey
    BY <1>1, <1>5, KeyParts
  <2>2. toTypeClass(a.type) = "null" /\ a.type = "null"
    BY <2>1, Classes DEF NullKey
  <2>3. getCompare(a, b) = {"equal"}
    BY <1>1, <1>5, <2>2 DEF getCompare
  <2>4. ~ (ca < cb) /\ ~ (Code(a.type) < Code(b.type))
    <3>1. Code(a.type) \in Int /\ a.type = b.type
      BY <2>1, KeyParts, CodesDiffer
    <3> QED
      BY <1>1, <1>5, <2>1, <3>1
  <2>5. ~Precedes(a, b)
    BY <1>1, <1>5, <2>4 DEF Precedes, ByValue
  <2>6. ~Before(a, b)
    BY <2>2, <2>4 DEF Before
  <2> QED
    BY <1>2, <2>3, <2>5, <2>6
<1>6. CASE ca = cb /\ ca = 2
  <2>1. /\ CompareNumbers(a, b) = "lower" <=> Precedes(a, b)
        /\ getCompare(a, b) = {CompareNumbers(a, b)}
        /\ Before(a, b) <=> Precedes(a, b)
    BY <1>1, <1>6, NumberKeysCompared
  <2> QED
    BY <1>2, <2>1
<1>7. CASE ca = cb /\ ca \in {3, 4}
  <2>1. PICK c : /\ getCompare(a, b) = {c}
                 /\ c = "lower" <=> Precedes(a, b)
                 /\ Before(a, b) <=> Precedes(a, b)
    BY <1>1, <1>7, ArrayKeysCompared
  <2> QED
    BY <1>2, <2>1
<1> HIDE DEF ca, cb
<1>8. \/ ca < cb \/ ca > cb
      \/ ca = cb /\ ca = 1
      \/ ca = cb /\ ca = 2
      \/ ca = cb /\ ca \in {3, 4}
  BY <1>1
<1> QED
  BY <1>3, <1>4, <1>5, <1>6, <1>7, <1>8

\* The first difference orders sequences.
LEMMA FirstLessOrders ==
    ASSUME NEW x \in Seq(Int), NEW y \in Seq(Int), NEW z \in Seq(Int)
    PROVE  /\ ~FirstLess(x, x)
           /\ FirstLess(x, y) /\ FirstLess(y, z) => FirstLess(x, z)
<1>1. ~FirstLess(x, x)
  <2>1. \A m \in 1 .. Len(x) : x[m] \in Int
    OBVIOUS
  <2> QED
    BY <2>1 DEF FirstLess
<1>2. ASSUME FirstLess(x, y), FirstLess(y, z) PROVE FirstLess(x, z)
  <2>1. PICK i \in 1 .. Len(x) : /\ i <= Len(y) /\ x[i] < y[i]
                                /\ \A j \in 1 .. i - 1 : x[j] = y[j]
    BY <1>2 DEF FirstLess
  <2>2. PICK k \in 1 .. Len(y) : /\ k <= Len(z) /\ y[k] < z[k]
                                /\ \A j \in 1 .. k - 1 : y[j] = z[j]
    BY <1>2 DEF FirstLess
  <2>3. x[i] \in Int /\ y[i] \in Int /\ y[k] \in Int /\ z[k] \in Int
    <3>1. i \in 1 .. Len(y) /\ k \in 1 .. Len(z)
      BY <2>1, <2>2
    <3> QED
      BY <3>1, ElementIsInt
  <2>4. CASE i < k
    <3>1. y[i] = z[i] /\ i <= Len(z) /\ \A j \in 1 .. i - 1 : j \in 1 .. k - 1
      BY <2>2, <2>4, SMTT(40)
    <3> QED
      BY <2>1, <2>2, <3>1 DEF FirstLess
  <2>5. CASE k < i
    <3>1. x[k] = y[k] /\ k \in 1 .. Len(x) /\ \A j \in 1 .. k - 1 : j \in 1 .. i - 1
      BY <2>1, <2>5
    <3> QED
      BY <2>1, <2>2, <3>1 DEF FirstLess
  <2>6. CASE i = k
    <3>1. x[i] < z[i]
      BY <2>1, <2>2, <2>3, <2>6, SMTT(40)
    <3> QED
      BY <2>1, <2>2, <2>6, <3>1 DEF FirstLess
  <2> QED
    BY <2>4, <2>5, <2>6
<1> QED
  BY <1>1, <1>2

\* Comparable keys are in a total order.
LEMMA PrecedesOrders ==
    /\ \A a \in MapKeys : ~Precedes(a, a)
    /\ \A a, b \in MapKeys : Comparable(a, b) /\ a # b => Precedes(a, b) \/ Precedes(b, a)
    /\ \A a, b, c \in MapKeys : Precedes(a, b) /\ Precedes(b, c) => Precedes(a, c)
<1>a. \A a \in MapKeys : ClassOf(a) \in 1 .. 4 /\ Code(a.type) \in Int
  BY KeyParts, CodesDiffer, SMTT(40)
<1>1. ASSUME NEW a \in MapKeys PROVE ~Precedes(a, a)
  <2>1. ~ByValue(a, a)
    BY KeyParts, FirstLessOrders DEF ByValue
  <2> QED
    BY <1>a, <2>1 DEF Precedes
<1>2. ASSUME NEW a \in MapKeys, NEW b \in MapKeys, Comparable(a, b), a # b
      PROVE  Precedes(a, b) \/ Precedes(b, a)
  <2>1. CASE ClassOf(a) # ClassOf(b)
    BY <1>a, <2>1 DEF Precedes
  <2>2. CASE ClassOf(a) = ClassOf(b) /\ a.val = b.val
    <3>1. a.type # b.type
      BY <1>2, <2>2, KeyParts
    <3>2. Code(a.type) # Code(b.type)
      BY <3>1, CodesDiffer, KeyParts
    <3> QED
      BY <1>a, <2>2, <3>2 DEF Precedes
  <2>3. CASE ClassOf(a) = 2 /\ ClassOf(b) = 2 /\ a.val # b.val
    BY <2>3, KeyParts DEF Precedes, ByValue
  <2>4. CASE ClassOf(a) \in {3, 4} /\ ClassOf(a) = ClassOf(b) /\ a.val # b.val
    <3> DEFINE x == a.val
               y == b.val
    <3>1. /\ x \in Seq(Int) /\ y \in Seq(Int) /\ toTypeClass(a.type) = toTypeClass(b.type)
          /\ toTypeClass(a.type) \in {"bit_array", "buffer_array"}
      BY <2>4, KeyParts, SameClass
    <3>2. /\ ~ (Len(x) < Len(y) /\ x = SubSeq(y, 1, Len(x)))
          /\ ~ (Len(y) < Len(x) /\ y = SubSeq(x, 1, Len(y)))
      BY <1>2, <3>1 DEF Comparable
    <3> HIDE DEF x, y
    <3>3. FirstLess(x, y) \/ FirstLess(y, x)
      BY <2>4, <3>1, <3>2, ArraysDiffer DEF x, y
    <3> QED
      BY <2>4, <3>3 DEF Precedes, ByValue, x, y
  <2>5. CASE ClassOf(a) = 1 /\ ClassOf(b) = 1
    BY <1>2, <2>5, KeyParts
  <2> QED
    BY <1>a, <2>1, <2>2, <2>3, <2>4, <2>5
<1>3. ASSUME NEW a \in MapKeys, NEW b \in MapKeys, NEW c \in MapKeys,
             Precedes(a, b), Precedes(b, c)
      PROVE  Precedes(a, c)
  <2>1. CASE ClassOf(a) # ClassOf(b) \/ ClassOf(b) # ClassOf(c)
    BY <1>a, <1>3, <2>1 DEF Precedes
  <2>2. CASE ClassOf(a) = ClassOf(b) /\ ClassOf(b) = ClassOf(c)
    <3>1. ByValue(a, b) \/ (a.val = b.val /\ Code(a.type) < Code(b.type))
      BY <1>3, <1>a, <2>2 DEF Precedes
    <3>2. ByValue(b, c) \/ (b.val = c.val /\ Code(b.type) < Code(c.type))
      BY <1>3, <1>a, <2>2 DEF Precedes
    <3>3. a.val = b.val => (ByValue(b, c) <=> ByValue(a, c))
      BY <2>2 DEF ByValue
    <3>4. b.val = c.val => (ByValue(a, b) <=> ByValue(a, c))
      BY <2>2 DEF ByValue
    <3>5. ByValue(a, b) /\ ByValue(b, c) => ByValue(a, c)
      <4>1. CASE ClassOf(a) = 2
        <5>1. a.val \in Int /\ b.val \in Int /\ c.val \in Int
          BY <2>2, <4>1, KeyParts
        <5> QED
          BY <2>2, <4>1, <5>1 DEF ByValue
      <4>2. CASE ClassOf(a) \in {3, 4}
        <5>1. a.val \in Seq(Int) /\ b.val \in Seq(Int) /\ c.val \in Seq(Int)
          BY <2>2, <4>2, KeyParts
        <5> QED
          BY <2>2, <4>2, <5>1, FirstLessOrders DEF ByValue
      <4> QED
        BY <4>1, <4>2 DEF ByValue
    <3>6. Code(a.type) < Code(b.type) /\ Code(b.type) < Code(c.type)
             => Code(a.type) < Code(c.type)
      BY <1>a
    <3> QED
      BY <2>2, <3>1, <3>2, <3>3, <3>4, <3>5, <3>6 DEF Precedes
  <2> QED
    BY <2>1, <2>2
<1> QED
  BY <1>1, <1>2, <1>3

\* A key, and the variable it was made from, are found equal to it.
LEMMA KeyEqualsItself ==
    ASSUME NEW a \in MapKeys
    PROVE  getCompare(a, a) = {"equal"} /\ getCompareVariable(a, a) = {"equal"}
<1> DEFINE ca == ClassCode(toTypeClass(a.type))
<1>1. /\ ca = ClassOf(a) /\ ca \in 1 .. 4 /\ a.type \in KeyTypes
      /\ CompareTypes(a, a) = "equal"
  BY KeyParts, TypesCompared DEF ClassOf
<1>2. getCompare(a, a) = {"equal"}
  <2>1. CASE ca = 1
    <3>1. toTypeClass(a.type) = "null"
      BY <1>1, <2>1, KeyParts, Classes DEF NullKey
    <3> QED
      BY <1>1, <3>1 DEF getCompare
  <2>2. CASE ca = 2
    <3>1. toTypeClass(a.type) = "number" /\ a.type \in ValTypes /\ a.val \in Int
      BY <1>1, <2>2, KeyParts
    <3>2. ~Gt(a, a) /\ ~Lt(a, a)
      BY <3>1, NumbersCompared
    <3>3. CompareNumbers(a, a) = "equal"
      BY <1>1, <3>2 DEF CompareNumbers
    <3> QED
      BY <1>1, <3>1, <3>3 DEF getCompare
  <2>3. CASE ca \in {3, 4}
    <3>1. /\ toTypeClass(a.type) \in {"bit_array", "buffer_array"}
          /\ a.type \in ArrayTypes /\ a.val \in Seq(Int)
      BY <1>1, <2>3, KeyParts
    <3>2. PICK n \in Nat : n = Len(a.val)
      BY <3>1
    <3>3. Min({Len(a.val), Len(a.val)}) = n
      <4>1. Min({n, n}) = n
        BY LesserOfTwo
      <4> QED
        BY <3>2, <4>1
    <3> DEFINE e == {i \in 1 .. Min({Len(a.val), Len(a.val)}) :
                        Gt(Element(a, i), Element(a, i)) \/ Lt(Element(a, i), Element(a, i))}
               same == {IF Gt(Element(a, Min(e)), Element(a, Min(e)))
                        THEN "highter" ELSE "lower"}
    <3>4. e = {}
      <4>1. ASSUME NEW i \in 1 .. n
            PROVE  ~Gt(Element(a, i), Element(a, i)) /\ ~Lt(Element(a, i), Element(a, i))
        <5>1. Element(a, i).type \in ValTypes /\ Element(a, i).val \in Int
          BY <3>1, <3>2, Kinds DEF Element
        <5> QED
          BY <5>1, NumbersCompared
      <4> QED
        BY <3>3, <4>1
    <3>5. CompareArrays(a, a) =
            CASE e # {} -> same
              [] e = {} /\ Len(a.val) > Len(a.val) -> {"highter"}
              [] e = {} /\ Len(a.val) < Len(a.val) -> {"highter", "lower"}
              [] OTHER -> {CompareTypes(a, a)}
      BY DEF CompareArrays
    <3>6. ~ (Len(a.val) > Len(a.val)) /\ ~ (Len(a.val) < Len(a.val))
      BY <3>2
    <3> HIDE DEF e, same
    <3>7. CompareArrays(a, a) = {"equal"}
      BY <1>1, <3>4, <3>5, <3>6
    <3> QED
      BY <1>1, <3>1, <3>7 DEF getCompare
  <2> QED
    BY <1>1, <2>1, <2>2, <2>3
<1>3. getCompareVariable(a, a) = getCompare(a, a)
  <2>1. ~ (ca > ClassCode("buffer_array"))
    BY <1>1, ClassCodes
  <2>2. [a EXCEPT !.type = toKeyType(@)] = a
    BY <1>1, KeyParts, KeyAgain
  <2> QED
    BY <2>1, <2>2 DEF getCompareVariable
<1> QED
  BY <1>2, <1>3

\* A key made from the variable of a key is that key.
LEMMA KeyFromItself ==
    ASSUME NEW a \in MapKeys
    PROVE  KeyFrom(a) = IF toTypeClass(a.type) = "null" THEN NullKey ELSE a
<1>1. a.type \in KeyTypes /\ a = [type |-> a.type, val |-> a.val]
  BY KeyParts
<1>2. toKeyType(a.type) = a.type
  BY <1>1, KeyAgain
<1>3. CASE toTypeClass(a.type) \in {"number", "bit_array"}
  <2>1. [a EXCEPT !.type = toKeyType(@)] = a
    BY <1>1, <1>2
  <2> QED
    BY <1>3, <2>1 DEF KeyFrom
<1>4. CASE toTypeClass(a.type) = "buffer_array"
  <2>1. a.type \in BufferArrayTypes
    BY <1>1, <1>4, Classes DEF KeyTypes, ArrayTypes
  <2>2. [a EXCEPT !.type = toKeyBufferType(toValueType(@))] = a
    BY <1>1, <2>1, KeyAgain
  <2> QED
    BY <1>4, <2>2 DEF KeyFrom
<1>5. CASE toTypeClass(a.type) = "null"
  BY <1>5 DEF KeyFrom
<1>6. toTypeClass(a.type) \in {"null", "number", "bit_array", "buffer_array"}
  BY <1>1, Classes DEF KeyTypes, ArrayTypes
<1> QED
  BY <1>3, <1>4, <1>5, <1>6

-----------------------------------------------------------------------------
(* Keys put in and taken out *)

\* A key put behind the first g of a map.
LEMMA KeyInserted ==
    ASSUME NEW S, NEW s \in Seq(S), NEW g \in 0 .. Len(s), NEW x \in S
    PROVE  \E r \in Seq(S) :
              /\ r = InsertAt(s, g + 1, x)
              /\ Len(r) = Len(s) + 1
              /\ \A i \in 1 .. g : r[i] = s[i]
              /\ r[g + 1] = x
              /\ \A i \in g + 2 .. Len(s) + 1 : r[i] = s[i - 1]
<1> DEFINE a == SubSeq(s, 1, g)
           b == <<x>>
           c == SubSeq(s, g + 1, Len(s))
           ab == a \o b
           r == ab \o c
<1>1. a \in Seq(S) /\ Len(a) = g /\ \A i \in 1 .. g : a[i] = s[i]
  OBVIOUS
<1>2. b \in Seq(S) /\ Len(b) = 1 /\ b[1] = x
  OBVIOUS
<1>3. c \in Seq(S) /\ Len(c) = Len(s) - g /\ \A i \in 1 .. Len(s) - g : c[i] = s[g + i]
  OBVIOUS
<1>4. r = InsertAt(s, g + 1, x)
  <2>1. (g + 1) - 1 = g
    OBVIOUS
  <2> QED
    BY <2>1 DEF InsertAt
<1> HIDE DEF a, b, c
<1>5. /\ ab \in Seq(S) /\ Len(ab) = g + 1
      /\ \A i \in 1 .. g + 1 : ab[i] = IF i <= g THEN a[i] ELSE b[i - g]
  <2>1. /\ ab \in Seq(S) /\ Len(ab) = Len(a) + Len(b)
        /\ \A i \in 1 .. Len(a) + Len(b) : ab[i] = IF i <= Len(a) THEN a[i] ELSE b[i - Len(a)]
    BY <1>1, <1>2, ConcatProperties
  <2> QED
    BY <1>1, <1>2, <2>1
<1> HIDE DEF ab
<1>6. /\ r \in Seq(S) /\ Len(r) = Len(s) + 1
      /\ \A i \in 1 .. Len(s) + 1 : r[i] = IF i <= g + 1 THEN ab[i] ELSE c[i - (g + 1)]
  <2>1. /\ r \in Seq(S) /\ Len(r) = Len(ab) + Len(c)
        /\ \A i \in 1 .. Len(ab) + Len(c) :
              r[i] = IF i <= Len(ab) THEN ab[i] ELSE c[i - Len(ab)]
    BY <1>3, <1>5, ConcatProperties
  <2>2. Len(ab) + Len(c) = Len(s) + 1
    BY <1>3, <1>5
  <2> QED
    BY <1>5, <2>1, <2>2
<1> HIDE DEF r
<1>7. \A i \in 1 .. g : r[i] = s[i]
  BY <1>1, <1>5, <1>6
<1>8. r[g + 1] = x
  <2>1. (g + 1) - g = 1
    OBVIOUS
  <2> QED
    BY <1>2, <1>5, <1>6, <2>1
<1>9. ASSUME NEW i \in g + 2 .. Len(s) + 1 PROVE r[i] = s[i - 1]
  <2>1. i - (g + 1) \in 1 .. Len(s) - g /\ g + (i - (g + 1)) = i - 1
    OBVIOUS
  <2>2. r[i] = c[i - (g + 1)]
    BY <1>6
  <2> QED
    BY <1>3, <2>1, <2>2
<1> QED
  BY <1>4, <1>6, <1>7, <1>8, <1>9

\* A map without its key at i.
LEMMA KeyRemoved ==
    ASSUME NEW S, NEW s \in Seq(S), NEW i \in 1 .. Len(s)
    PROVE  \E r \in Seq(S) :
              /\ r = RemoveAt(s, i)
              /\ Len(r) = Len(s) - 1
              /\ \A j \in 1 .. i - 1 : r[j] = s[j]
              /\ \A j \in i .. Len(s) - 1 : r[j] = s[j + 1]
<1> DEFINE a == SubSeq(s, 1, i - 1)
           c == SubSeq(s, i + 1, Len(s))
           r == a \o c
<1>1. a \in Seq(S) /\ Len(a) = i - 1 /\ \A j \in 1 .. i - 1 : a[j] = s[j]
  OBVIOUS
<1>2. c \in Seq(S) /\ Len(c) = Len(s) - i /\ \A j \in 1 .. Len(s) - i : c[j] = s[i + j]
  OBVIOUS
<1>3. r = RemoveAt(s, i)
  BY DEF RemoveAt
<1> HIDE DEF a, c
<1>4. /\ r \in Seq(S) /\ Len(r) = Len(s) - 1
      /\ \A j \in 1 .. Len(s) - 1 : r[j] = IF j <= i - 1 THEN a[j] ELSE c[j - (i - 1)]
  <2>1. /\ r \in Seq(S) /\ Len(r) = Len(a) + Len(c)
        /\ \A j \in 1 .. Len(a) + Len(c) : r[j] = IF j <= Len(a) THEN a[j] ELSE c[j - Len(a)]
    BY <1>1, <1>2, ConcatProperties
  <2>2. Len(a) + Len(c) = Len(s) - 1
    BY <1>1, <1>2
  <2> QED
    BY <1>1, <2>1, <2>2
<1> HIDE DEF r
<1>5. ASSUME NEW j \in i .. Len(s) - 1 PROVE r[j] = s[j + 1]
  <2>1. j - (i - 1) \in 1 .. Len(s) - i /\ i + (j - (i - 1)) = j + 1
    OBVIOUS
  <2>2. r[j] = c[j - (i - 1)]
    BY <1>4
  <2> QED
    BY <1>2, <2>1, <2>2
<1>6. \A j \in 1 .. i - 1 : r[j] = s[j]
  BY <1>1, <1>4
<1> QED
  BY <1>3, <1>4, <1>5, <1>6

-----------------------------------------------------------------------------
(* Where a search ends *)

\* One step of a descent between the gaps l and h, where f has the results of
\* the steps after it.
Descent(goesLeft, f, l, h) ==
    IF l >= h THEN {l}
    ELSE UNION {UNION {IF left THEN f[<<l, m - 1>>] ELSE f[<<m, h>>] : left \in goesLeft[m]} :
                    m \in Roots(l, h)}

\* A step depends only on the steps between gaps that are closer together.
LEMMA DescentSame ==
    ASSUME NEW n \in Nat, NEW f, NEW g, NEW goesLeft, NEW l \in 0 .. n, NEW h \in 0 .. n,
           Roots(l, h) \subseteq (l + 1) .. h,
           \A i, j \in 0 .. n : j - i < h - l => f[<<i, j>>] = g[<<i, j>>]
    PROVE  Descent(goesLeft, f, l, h) = Descent(goesLeft, g, l, h)
<1>1. CASE l >= h
  BY <1>1 DEF Descent
<1>2. CASE ~ (l >= h)
  <2>1. ASSUME NEW m \in Roots(l, h)
        PROVE  f[<<l, m - 1>>] = g[<<l, m - 1>>] /\ f[<<m, h>>] = g[<<m, h>>]
    <3>0. m \in (l + 1) .. h
      OBVIOUS
    <3>1. m \in 0 .. n /\ m - 1 \in 0 .. n /\ (m - 1) - l < h - l /\ h - m < h - l
      BY <3>0
    <3> QED
      BY <3>1
  <2> DEFINE F(m) == {IF left THEN f[<<l, m - 1>>] ELSE f[<<m, h>>] : left \in goesLeft[m]}
             G(m) == {IF left THEN g[<<l, m - 1>>] ELSE g[<<m, h>>] : left \in goesLeft[m]}
  <2>2. \A m \in Roots(l, h) : F(m) = G(m)
    BY <2>1
  <2>3. /\ Descent(goesLeft, f, l, h) = UNION {UNION F(m) : m \in Roots(l, h)}
        /\ Descent(goesLeft, g, l, h) = UNION {UNION G(m) : m \in Roots(l, h)}
    BY <1>2 DEF Descent
  <2> HIDE DEF F, G
  <2>4. {UNION F(m) : m \in Roots(l, h)} = {UNION G(m) : m \in Roots(l, h)}
    BY <2>2
  <2> QED
    BY <2>3, <2>4
<1> QED
  BY <1>1, <1>2

\* f has the results of the steps between gaps that are at most d apart.
EndsUpTo(n, d, goesLeft, f) ==
    /\ f = [w \in (0..n) \X (0..n) |-> f[w]]
    /\ \A l, h \in 0 .. n : h - l <= d => f[<<l, h>>] = Descent(goesLeft, f, l, h)

\* A function with the results of the steps exists, for gaps of any distance.
LEMMA EndsExist ==
    ASSUME NEW n \in Nat, NEW goesLeft,
           \A l, h \in 0 .. n : l < h => Roots(l, h) \subseteq (l + 1) .. h
    PROVE  \A d \in Nat : \E f : EndsUpTo(n, d, goesLeft, f)
<1> DEFINE S == {d \in Nat : \E f : EndsUpTo(n, d, goesLeft, f)}
<1>1. ASSUME NEW d \in Nat, \A i \in 0 .. (d - 1) : i \in S
      PROVE  d \in S
  <2>1. CASE d = 0
    <3> DEFINE f == [w \in (0..n) \X (0..n) |-> {w[1]}]
    <3>1. \A l, h \in 0 .. n : f[<<l, h>>] = {l}
      OBVIOUS
    <3>2. EndsUpTo(n, 0, goesLeft, f)
      BY <3>1 DEF EndsUpTo, Descent
    <3> QED
      BY <2>1, <3>2
  <2>2. CASE d > 0
    <3>1. PICK f : EndsUpTo(n, d - 1, goesLeft, f)
      BY <1>1, <2>2
    <3> DEFINE g == [w \in (0..n) \X (0..n) |->
                        IF w[2] - w[1] = d THEN Descent(goesLeft, f, w[1], w[2]) ELSE f[w]]
    <3>2. \A l, h \in 0 .. n :
             g[<<l, h>>] = IF h - l = d THEN Descent(goesLeft, f, l, h) ELSE f[<<l, h>>]
      OBVIOUS
    <3>3. g = [w \in (0..n) \X (0..n) |-> g[w]]
      OBVIOUS
    <3> HIDE DEF g
    <3>4. ASSUME NEW l \in 0 .. n, NEW h \in 0 .. n, h - l <= d
          PROVE  g[<<l, h>>] = Descent(goesLeft, g, l, h)
      <4>1. CASE l >= h
        <5>1. g[<<l, h>>] = f[<<l, h>>] /\ f[<<l, h>>] = Descent(goesLeft, f, l, h)
          BY <2>2, <3>1, <3>2, <4>1, SMTT(40) DEF EndsUpTo
        <5> QED
          BY <4>1, <5>1 DEF Descent
      <4>2. CASE l < h
        <5>1. \A i, j \in 0 .. n : j - i < h - l => f[<<i, j>>] = g[<<i, j>>]
          BY <3>2, <3>4
        <5>2. Descent(goesLeft, f, l, h) = Descent(goesLeft, g, l, h)
          BY <4>2, <5>1, DescentSame
        <5>3. CASE h - l = d
          BY <3>2, <5>2, <5>3
        <5>4. CASE h - l # d
          <6>1. h - l <= d - 1
            BY <3>4, <5>4
          <6>2. g[<<l, h>>] = f[<<l, h>>] /\ f[<<l, h>>] = Descent(goesLeft, f, l, h)
            BY <3>1, <3>2, <5>4, <6>1 DEF EndsUpTo
          <6> QED
            BY <5>2, <6>2
        <5> QED
          BY <5>3, <5>4
      <4> QED
        BY <4>1, <4>2
    <3> QED
      BY <3>3, <3>4 DEF EndsUpTo
  <2> QED
    BY <2>1, <2>2
<1> HIDE DEF S
<1>2. Nat \subseteq S
  BY <1>1, StrongInduction
<1> QED
  BY <1>2 DEF S

\* The root of a subtree is one of its keys, and there is one.
LEMMA RootsInside ==
    ASSUME keys \in Seq(MapKeys), top \in 0 .. Len(keys),
           NEW l \in 0 .. Len(keys), NEW h \in 0 .. Len(keys), l < h
    PROVE  Roots(l, h) \subseteq (l + 1) .. h /\ Roots(l, h) # {}
<1>1. CASE h - l = 3
  <2>1. Roots(l, h) = {l + 2}
    BY <1>1 DEF Roots
  <2> QED
    BY <1>1, <2>1
<1>2. CASE h - l # 3 /\ l = 0 /\ h = Len(keys) /\ top # 0
  <2>1. Roots(l, h) = {top}
    BY <1>2 DEF Roots
  <2>2. PICK n \in Nat : n = Len(keys)
    OBVIOUS
  <2>3. top \in (l + 1) .. h
    BY <1>2, <2>2
  <2> QED
    BY <2>1, <2>3
<1>3. CASE h - l # 3 /\ ~ (l = 0 /\ h = Len(keys) /\ top # 0)
  <2>1. Roots(l, h) = (l + 1) .. h
    BY <1>3 DEF Roots
  <2>2. h \in (l + 1) .. h
    OBVIOUS
  <2> QED
    BY <2>1, <2>2
<1> QED
  BY <1>1, <1>2, <1>3

\* The recursion of Ends defines a function.
LEMMA EndsDefined ==
    ASSUME keys \in Seq(MapKeys), top \in 0 .. Len(keys), NEW goesLeft
    PROVE  \E f : /\ Ends(goesLeft) = f[<<0, Len(keys)>>]
                  /\ \A l, h \in 0 .. Len(keys) : f[<<l, h>>] = Descent(goesLeft, f, l, h)
<1> DEFINE n == Len(keys)
           Rec(f) == [w \in (0..n) \X (0..n) |-> Descent(goesLeft, f, w[1], w[2])]
           end == CHOOSE f : f = Rec(f)
<1>1. n \in Nat
  OBVIOUS
<1>2. Ends(goesLeft) = end[<<0, n>>]
  BY DEF Ends, Descent
<1>3. \A f : \A l, h \in 0 .. n : Rec(f)[<<l, h>>] = Descent(goesLeft, f, l, h)
  OBVIOUS
<1>4. \A f : Rec(f) = [w \in (0..n) \X (0..n) |-> Rec(f)[w]]
  OBVIOUS
<1> HIDE DEF Rec
<1>5. PICK f : EndsUpTo(n, n, goesLeft, f)
  BY <1>1, EndsExist, RootsInside
<1>6. ASSUME NEW w \in (0..n) \X (0..n) PROVE f[w] = Rec(f)[w]
  <2>1. PICK l \in 0 .. n, h \in 0 .. n : w = <<l, h>>
    OBVIOUS
  <2>2. h - l <= n
    BY <1>1
  <2>3. f[<<l, h>>] = Descent(goesLeft, f, l, h)
    BY <1>5, <2>2 DEF EndsUpTo
  <2>4. Rec(f)[<<l, h>>] = Descent(goesLeft, f, l, h)
    BY <1>3
  <2> QED
    BY <2>1, <2>3, <2>4
<1>7. f = Rec(f)
  BY <1>4, <1>5, <1>6 DEF EndsUpTo
<1>8. end = Rec(end)
  BY <1>7
<1> HIDE DEF end
<1>9. \A l, h \in 0 .. n : end[<<l, h>>] = Descent(goesLeft, end, l, h)
  BY <1>3, <1>8
<1> QED
  BY <1>2, <1>9

\* A descent that goes left of the keys behind the first k ends behind them.
LEMMA DescentEnds ==
    ASSUME keys \in Seq(MapKeys), top \in 0 .. Len(keys), NEW goesLeft, NEW k \in 0 .. Len(keys),
           \A i \in 1 .. k : goesLeft[i] = {FALSE},
           \A i \in k + 1 .. Len(keys) : goesLeft[i] = {TRUE}
    PROVE  Ends(goesLeft) = {k}
<1> DEFINE n == Len(keys)
<1>1. n \in Nat
  OBVIOUS
<1>2. PICK f : /\ Ends(goesLeft) = f[<<0, n>>]
               /\ \A l, h \in 0 .. n : f[<<l, h>>] = Descent(goesLeft, f, l, h)
  BY EndsDefined
<1> DEFINE S == {d \in Nat : \A l, h \in 0 .. n : h - l = d /\ l <= k /\ k <= h => f[<<l, h>>] = {k}}
<1>3. ASSUME NEW d \in Nat, \A i \in 0 .. (d - 1) : i \in S
      PROVE  d \in S
  <2> SUFFICES ASSUME NEW l \in 0 .. n, NEW h \in 0 .. n, h - l = d, l <= k, k <= h
               PROVE  f[<<l, h>>] = {k}
    OBVIOUS
  <2>1. f[<<l, h>>] = Descent(goesLeft, f, l, h)
    BY <1>2
  <2>2. CASE l = h
    BY <2>1, <2>2 DEF Descent
  <2>3. CASE l < h
    <3> DEFINE F(m) == {IF left THEN f[<<l, m - 1>>] ELSE f[<<m, h>>] : left \in goesLeft[m]}
    <3>1. Roots(l, h) \subseteq (l + 1) .. h /\ Roots(l, h) # {}
      BY <2>3, RootsInside
    <3>2. f[<<l, h>>] = UNION {UNION F(m) : m \in Roots(l, h)}
      BY <2>1, <2>3 DEF Descent
    <3>3. ASSUME NEW m \in Roots(l, h) PROVE UNION F(m) = {k}
      <4>0. m \in (l + 1) .. h /\ m \in 1 .. n /\ m - 1 \in 0 .. n
        BY <1>1, <3>1
      <4>1. CASE m <= k
        <5>0. m \in 1 .. k
          BY <4>0, <4>1
        <5>1. goesLeft[m] = {FALSE}
          BY <5>0
        <5>2. F(m) = {f[<<m, h>>]}
          BY <5>1
        <5>3. h - m \in 0 .. (d - 1) /\ m \in 0 .. n
          BY <4>0
        <5>4. f[<<m, h>>] = {k}
          BY <1>3, <4>1, <5>3, ZenonT(40)
        <5> QED
          BY <5>2, <5>4
      <4>2. CASE m > k
        <5>0. m \in k + 1 .. n
          BY <4>0, <4>2
        <5>1. goesLeft[m] = {TRUE}
          BY <5>0
        <5>2. F(m) = {f[<<l, m - 1>>]}
          BY <5>1
        <5>3. (m - 1) - l \in 0 .. (d - 1) /\ k <= m - 1
          BY <4>0, <4>2
        <5>4. f[<<l, m - 1>>] = {k}
          BY <1>3, <4>0, <5>3, ZenonT(40)
        <5> QED
          BY <5>2, <5>4
      <4>3. k \in Int /\ m \in Int
        BY <1>1, <4>0
      <4>4. m <= k \/ m > k
        BY <4>3
      <4> QED
        BY <4>1, <4>2, <4>4
    <3> HIDE DEF F
    <3>4. {UNION F(m) : m \in Roots(l, h)} = {{k}}
      BY <3>1, <3>3
    <3> QED
      BY <3>2, <3>4
  <2> QED
    BY <2>2, <2>3
<1> HIDE DEF S
<1>4. Nat \subseteq S
  BY <1>3, StrongInduction
<1>5. n \in S
  BY <1>1, <1>4
<1> QED
  BY <1>1, <1>2, <1>5 DEF S

-----------------------------------------------------------------------------
(* What a search finds *)

\* A sequence of keys, each of which is before those behind it.
Sorted(s) == \A i, j \in 1 .. Len(s) : i < j => Precedes(s[i], s[j])

\* The keys of a map, in order, and those it may be asked for.
Ordered(F) ==
    /\ F \subseteq MapKeys
    /\ \A a, b \in F : Comparable(a, b)
    /\ keys \in Seq(F)
    /\ top \in 0 .. Len(keys)
    /\ Sorted(keys)

\* A set of indexes that holds every index before one it holds ends somewhere.
LEMMA Cut ==
    ASSUME NEW n \in Nat, NEW P,
           \A i, j \in 1 .. n : i < j /\ j \in P => i \in P
    PROVE  \E k \in 0 .. n : \A i \in 1 .. n : i \in P <=> i <= k
<1> DEFINE S == {m \in 0 .. n : \A j \in 1 .. n : j > m => j \notin P}
           k == Min(S)
<1>1. S \subseteq Nat /\ n \in S
  OBVIOUS
<1>2. k \in S /\ \A m \in Nat : m < k => m \notin S
  BY <1>1, LeastIn
<1> HIDE DEF k
<1>3. k \in 0 .. n
  BY <1>2
<1>4. ASSUME k > 0 PROVE k \in P
  <2>1. k - 1 \in 0 .. n /\ k - 1 < k
    BY <1>3, <1>4
  <2>2. k - 1 \notin S
    BY <1>2, <2>1
  <2>3. PICK j \in 1 .. n : j > k - 1 /\ j \in P
    BY <2>1, <2>2
  <2>4. ~ (j > k)
    BY <1>2, <2>3
  <2> QED
    BY <1>3, <2>3, <2>4
<1>5. ASSUME NEW i \in 1 .. n PROVE i \in P <=> i <= k
  <2>1. CASE i > k
    BY <1>2, <1>3, <2>1
  <2>2. CASE i = k
    BY <1>4, <2>2
  <2>3. CASE i < k
    <3>1. k > 0 /\ k \in 1 .. n
      BY <1>3, <2>3
    <3> QED
      BY <1>4, <2>3, <3>1
  <2> QED
    BY <1>3, <2>1, <2>2, <2>3
<1> QED
  BY <1>3, <1>5

\* What is known of the keys of a map in order.
LEMMA OrderedParts ==
    ASSUME NEW F, Ordered(F)
    PROVE  /\ F \subseteq MapKeys
           /\ keys \in Seq(MapKeys)
           /\ Len(keys) \in Nat
           /\ DOMAIN keys = 1 .. Len(keys)
           /\ top \in 0 .. Len(keys)
           /\ \A i \in 1 .. Len(keys) : keys[i] \in F /\ keys[i] \in MapKeys
           /\ \A i, j \in 1 .. Len(keys) : i < j => Precedes(keys[i], keys[j])
BY DEF Ordered, Sorted

\* What the comparators say of a key of the map and one it is asked for.
LEMMA OrderedLess ==
    ASSUME NEW F, Ordered(F), NEW a \in F, NEW b \in F
    PROVE  /\ a \in MapKeys /\ b \in MapKeys
           /\ Precedes(a, b) => Less(a, b) = {TRUE}
           /\ ~Precedes(a, b) => Less(a, b) = {FALSE}
           /\ Precedes(a, b) \/ Precedes(b, a) \/ a = b
           /\ ~Precedes(a, a)
           /\ Before(a, b) <=> Precedes(a, b)
<1>1. a \in MapKeys /\ b \in MapKeys /\ Comparable(a, b)
  BY DEF Ordered
<1> QED
  BY <1>1, KeysCompared, PrecedesOrders

\* The same of a key of the map at an index and one it is asked for.
LEMMA OrderedAt ==
    ASSUME NEW F, Ordered(F), NEW key \in F, NEW i \in 1 .. Len(keys)
    PROVE  /\ Precedes(keys[i], key) => Less(keys[i], key) = {TRUE}
           /\ ~Precedes(keys[i], key) => Less(keys[i], key) = {FALSE}
           /\ Precedes(key, keys[i]) => Less(key, keys[i]) = {TRUE}
           /\ ~Precedes(key, keys[i]) => Less(key, keys[i]) = {FALSE}
           /\ Precedes(keys[i], key) \/ Precedes(key, keys[i]) \/ keys[i] = key
           /\ keys[i] = key => ~Precedes(keys[i], key) /\ ~Precedes(key, keys[i])
<1> DEFINE a == keys[i]
<1>1. a \in F
  BY OrderedParts
<1> HIDE DEF a
<1>2. /\ Precedes(a, key) => Less(a, key) = {TRUE}
      /\ ~Precedes(a, key) => Less(a, key) = {FALSE}
      /\ Precedes(key, a) => Less(key, a) = {TRUE}
      /\ ~Precedes(key, a) => Less(key, a) = {FALSE}
      /\ Precedes(a, key) \/ Precedes(key, a) \/ a = key
      /\ ~Precedes(key, key)
  BY <1>1, OrderedLess, Zenon
<1> QED
  BY <1>2, Zenon DEF a

\* find returns the one element that is the key it is asked for, or none.
LEMMA FoundExact ==
    ASSUME NEW F, Ordered(F), NEW key \in F
    PROVE  \/ Found(key) = {0} /\ \A i \in 1 .. Len(keys) : keys[i] # key
           \/ \E i \in 1 .. Len(keys) : Found(key) = {i} /\ keys[i] = key
<1> DEFINE n == Len(keys)
           P == {i \in 1 .. n : Precedes(keys[i], key)}
           goesLeft == [i \in DOMAIN keys |-> {~b : b \in Less(keys[i], key)}]
<1>1. n \in Nat /\ DOMAIN keys = 1 .. n
  BY OrderedParts
<1>2. \A i \in 1 .. n : keys[i] \in F /\ keys[i] \in MapKeys /\ key \in MapKeys
  BY OrderedParts, OrderedLess
<1>3. ASSUME NEW i \in 1 .. n, NEW j \in 1 .. n, i < j, j \in P PROVE i \in P
  <2>1. Precedes(keys[i], keys[j]) /\ Precedes(keys[j], key)
    BY <1>3, OrderedParts
  <2> QED
    BY <1>2, <2>1, PrecedesOrders
<1>4. PICK k \in 0 .. n : \A i \in 1 .. n : i \in P <=> i <= k
  BY <1>1, <1>3, Cut
<1>5. \A i \in 1 .. n : Precedes(keys[i], key) <=> i <= k
  BY <1>4
<1>6. ASSUME NEW i \in 1 .. n
      PROVE  (i <= k => goesLeft[i] = {FALSE}) /\ (~ (i <= k) => goesLeft[i] = {TRUE})
  <2>1. goesLeft[i] = {~b : b \in Less(keys[i], key)}
    BY <1>1
  <2>2. ASSUME i <= k PROVE goesLeft[i] = {FALSE}
    <3>1. Less(keys[i], key) = {TRUE}
      BY <1>5, <2>2, OrderedAt, Zenon
    <3> QED
      BY <2>1, <3>1
  <2>3. ASSUME ~ (i <= k) PROVE goesLeft[i] = {TRUE}
    <3>1. Less(keys[i], key) = {FALSE}
      BY <1>5, <2>3, OrderedAt, Zenon
    <3> QED
      BY <2>1, <3>1
  <2> QED
    BY <2>2, <2>3
<1>7. Found(key) = UNION {IF g < n THEN {IF above THEN 0 ELSE g + 1 :
                                        above \in Less(key, keys[g + 1])}
                          ELSE {0} : g \in Ends(goesLeft)}
  BY DEF Found
<1> HIDE DEF goesLeft, P
<1>8. Ends(goesLeft) = {k}
  <2>1. ASSUME NEW i \in 1 .. k PROVE goesLeft[i] = {FALSE}
    <3>1. i \in 1 .. n /\ i <= k
      BY <1>1
    <3> QED
      BY <1>6, <3>1, Zenon
  <2>2. ASSUME NEW i \in k + 1 .. n PROVE goesLeft[i] = {TRUE}
    <3>1. i \in 1 .. n /\ ~ (i <= k)
      BY <1>1
    <3> QED
      BY <1>6, <3>1, Zenon
  <2> QED
    BY <2>1, <2>2, OrderedParts, DescentEnds
<1>9. CASE k = n
  <2>1. Found(key) = {0}
    BY <1>1, <1>7, <1>8, <1>9
  <2>2. \A i \in 1 .. n : keys[i] # key
    BY <1>1, <1>2, <1>5, <1>9, PrecedesOrders
  <2> QED
    BY <2>1, <2>2
<1>10. CASE k < n
  <2>1. k + 1 \in 1 .. n /\ ~ (k + 1 <= k)
    BY <1>1, <1>10
  <2>2. Found(key) = {IF above THEN 0 ELSE k + 1 : above \in Less(key, keys[k + 1])}
    BY <1>7, <1>8, <1>10
  <2>3. ~Precedes(keys[k + 1], key)
    BY <1>5, <2>1
  <2>4. CASE keys[k + 1] = key
    <3>1. Less(key, keys[k + 1]) = {FALSE}
      BY <2>1, <2>3, <2>4, OrderedAt, Zenon
    <3>2. Found(key) = {k + 1}
      BY <2>2, <3>1
    <3> QED
      BY <2>1, <2>4, <3>2
  <2>5. CASE keys[k + 1] # key
    <3>1. Precedes(key, keys[k + 1])
      BY <2>1, <2>3, <2>5, OrderedAt, Zenon
    <3>2. Less(key, keys[k + 1]) = {TRUE}
      BY <2>1, <3>1, OrderedAt, Zenon
    <3>3. Found(key) = {0}
      BY <2>2, <3>2
    <3>4. ASSUME NEW i \in 1 .. n PROVE keys[i] # key
      <4>1. CASE i <= k
        BY <1>2, <1>5, <4>1, PrecedesOrders
      <4>2. CASE i = k + 1
        BY <2>5, <4>2
      <4>3. CASE i > k + 1
        <5>1. Precedes(keys[k + 1], keys[i])
          BY <2>1, <4>3, OrderedParts
        <5>2. Precedes(key, keys[i])
          BY <1>2, <2>1, <3>1, <5>1, PrecedesOrders
        <5> QED
          BY <1>2, <5>2, PrecedesOrders
      <4> QED
        BY <4>1, <4>2, <4>3
    <3> QED
      BY <3>3, <3>4
  <2> QED
    BY <2>4, <2>5
<1>11. k \in Int /\ n \in Int /\ k <= n
  BY <1>1
<1>12. k = n \/ k < n
  BY <1>11
<1> QED
  BY <1>9, <1>10, <1>12

\* A new key goes behind every key before it and in front of every other, and
\* a key the map has already goes nowhere.
LEMMA GapsExact ==
    ASSUME NEW F, Ordered(F), NEW key \in F
    PROVE  \/ Gaps(key) = {-1} /\ \E i \in 1 .. Len(keys) : keys[i] = key
           \/ \E g \in 0 .. Len(keys) :
                /\ Gaps(key) = {g}
                /\ \A i \in 1 .. g : Precedes(keys[i], key)
                /\ \A i \in g + 1 .. Len(keys) : Precedes(key, keys[i])
<1> DEFINE n == Len(keys)
           P == {i \in 1 .. n : ~Precedes(key, keys[i])}
           goesLeft == [i \in DOMAIN keys |-> Less(key, keys[i])]
<1>1. n \in Nat /\ DOMAIN keys = 1 .. n
  BY OrderedParts
<1>2. \A i \in 1 .. n : keys[i] \in F /\ keys[i] \in MapKeys /\ key \in MapKeys
  BY OrderedParts, OrderedLess
<1>3. ASSUME NEW i \in 1 .. n, NEW j \in 1 .. n, i < j, j \in P PROVE i \in P
  <2>1. Precedes(keys[i], keys[j]) /\ ~Precedes(key, keys[j])
    BY <1>3, OrderedParts
  <2> QED
    BY <1>2, <2>1, PrecedesOrders
<1>4. PICK k \in 0 .. n : \A i \in 1 .. n : i \in P <=> i <= k
  BY <1>1, <1>3, Cut
<1>5. \A i \in 1 .. n : ~Precedes(key, keys[i]) <=> i <= k
  BY <1>4
<1>6. ASSUME NEW i \in 1 .. n
      PROVE  (i <= k => goesLeft[i] = {FALSE}) /\ (~ (i <= k) => goesLeft[i] = {TRUE})
  <2>1. goesLeft[i] = Less(key, keys[i])
    BY <1>1
  <2>2. ASSUME i <= k PROVE goesLeft[i] = {FALSE}
    BY <1>5, <2>1, <2>2, OrderedAt, Zenon
  <2>3. ASSUME ~ (i <= k) PROVE goesLeft[i] = {TRUE}
    BY <1>5, <2>1, <2>3, OrderedAt, Zenon
  <2> QED
    BY <2>2, <2>3
<1>7. Gaps(key) = UNION {IF g = 0 THEN {0}
                         ELSE {IF below THEN g ELSE -1 : below \in Less(keys[g], key)} :
                            g \in Ends(goesLeft)}
  BY DEF Gaps
<1> HIDE DEF goesLeft, P
<1>8. Ends(goesLeft) = {k}
  <2>1. ASSUME NEW i \in 1 .. k PROVE goesLeft[i] = {FALSE}
    <3>1. i \in 1 .. n /\ i <= k
      BY <1>1
    <3> QED
      BY <1>6, <3>1, Zenon
  <2>2. ASSUME NEW i \in k + 1 .. n PROVE goesLeft[i] = {TRUE}
    <3>1. i \in 1 .. n /\ ~ (i <= k)
      BY <1>1
    <3> QED
      BY <1>6, <3>1, Zenon
  <2> QED
    BY <2>1, <2>2, OrderedParts, DescentEnds
<1>9. \A i \in k + 1 .. n : Precedes(key, keys[i])
  BY <1>1, <1>5
<1>10. CASE k = 0
  <2>1. Gaps(key) = {k}
    BY <1>7, <1>8, <1>10
  <2> QED
    BY <1>9, <1>10, <2>1
<1>11. CASE k # 0
  <2>1. k \in 1 .. n /\ k <= k
    BY <1>1, <1>11
  <2>2. Gaps(key) = {IF below THEN k ELSE -1 : below \in Less(keys[k], key)}
    BY <1>7, <1>8, <1>11
  <2>3. ~Precedes(key, keys[k])
    BY <1>5, <2>1
  <2>4. CASE keys[k] = key
    <3>1. Less(keys[k], key) = {FALSE}
      BY <2>1, <2>3, <2>4, OrderedAt, Zenon
    <3>2. Gaps(key) = {-1}
      BY <2>2, <3>1
    <3> QED
      BY <2>1, <2>4, <3>2
  <2>5. CASE keys[k] # key
    <3>1. Precedes(keys[k], key)
      BY <2>1, <2>3, <2>5, OrderedAt, Zenon
    <3>2. Less(keys[k], key) = {TRUE}
      BY <2>1, <3>1, OrderedAt, Zenon
    <3>3. Gaps(key) = {k}
      BY <2>2, <3>2
    <3>4. ASSUME NEW i \in 1 .. k PROVE Precedes(keys[i], key)
      <4>1. CASE i = k
        BY <3>1, <4>1
      <4>2. CASE i < k
        <5>1. Precedes(keys[i], keys[k])
          BY <1>1, <2>1, <4>2, OrderedParts
        <5> QED
          BY <1>1, <1>2, <2>1, <3>1, <5>1, PrecedesOrders
      <4> QED
        BY <2>1, <4>1, <4>2
    <3> QED
      BY <1>9, <3>3, <3>4
  <2> QED
    BY <2>4, <2>5
<1> QED
  BY <1>10, <1>11

-----------------------------------------------------------------------------
(* The invariant *)

\* The root is one of the keys, or unknown.
LEMMA TopInside ==
    ASSUME NEW n \in Nat, NEW gaps
    PROVE  Top(n, gaps) \in 0 .. n
<1>1. CASE n = 1
  BY <1>1 DEF Top
<1>2. CASE n = 2
  BY <1>2 DEF Top
<1>3. CASE n = 3
  BY <1>3 DEF Top
<1>4. CASE n # 1 /\ n # 2 /\ n # 3
  BY <1>4 DEF Top
<1> QED
  BY <1>1, <1>2, <1>3, <1>4

\* r is s with x behind its first g elements.
IsInserted(r, s, g, x) ==
    /\ Len(r) = Len(s) + 1
    /\ \A i \in 1 .. g : r[i] = s[i]
    /\ r[g + 1] = x
    /\ \A i \in g + 2 .. Len(s) + 1 : r[i] = s[i - 1]

\* A key put into the map goes where it is put, and the others keep their order.
LEMMA InsertedAt ==
    ASSUME NEW F, keys \in Seq(F), NEW g \in 0 .. Len(keys), NEW key \in F
    PROVE  /\ InsertAt(keys, g + 1, key) \in Seq(F)
           /\ IsInserted(InsertAt(keys, g + 1, key), keys, g, key)
<1>1. PICK r \in Seq(F) : /\ r = InsertAt(keys, g + 1, key)
                          /\ Len(r) = Len(keys) + 1
                          /\ \A i \in 1 .. g : r[i] = keys[i]
  BY KeyInserted
<1>2. PICK p \in Seq(F) : p = InsertAt(keys, g + 1, key) /\ p[g + 1] = key
  BY KeyInserted
<1>3. PICK q \in Seq(F) : /\ q = InsertAt(keys, g + 1, key)
                          /\ \A i \in g + 2 .. Len(keys) + 1 : q[i] = keys[i - 1]
  BY KeyInserted
<1>4. p = r /\ q = r
  BY <1>1, <1>2, <1>3, Zenon
<1>5. r[g + 1] = key /\ \A i \in g + 2 .. Len(keys) + 1 : r[i] = keys[i - 1]
  BY <1>2, <1>3, <1>4, Zenon
<1>6. IsInserted(r, keys, g, key)
  BY <1>1, <1>5, Zenon DEF IsInserted
<1> QED
  BY <1>1, <1>6, Zenon

\* An insertion leaves the map in order.
LEMMA InsertKeepsOrder ==
    ASSUME NEW F, Ordered(F), NEW key \in F, insertField(key)
    PROVE  keys' \in Seq(F) /\ top' \in 0 .. Len(keys') /\ Sorted(keys')
<1> DEFINE n == Len(keys)
<1>1. /\ n \in Nat /\ keys \in Seq(F) /\ top \in 0 .. n
      /\ \A i, j \in 1 .. n : i < j => Precedes(keys[i], keys[j])
  BY DEF Ordered, Sorted
<1>2. PICK g \in Gaps(key) :
        IF g = -1 THEN UNCHANGED <<keys, top>>
        ELSE keys' = InsertAt(keys, g + 1, key) /\ top' = Top(n + 1, {g})
  BY DEF insertField
<1>3. CASE g = -1
  BY <1>1, <1>2, <1>3 DEF Sorted
<1>4. CASE g # -1
  <2>1. /\ g \in 0 .. n
        /\ \A i \in 1 .. g : Precedes(keys[i], key)
        /\ \A i \in g + 1 .. n : Precedes(key, keys[i])
    BY <1>2, <1>4, GapsExact
  <2>0. keys \in Seq(F) /\ g \in 0 .. Len(keys) /\ key \in F
    BY <1>1, <2>1
  <2> DEFINE r == InsertAt(keys, g + 1, key)
  <2>a. r \in Seq(F) /\ IsInserted(r, keys, g, key)
    BY <2>0, InsertedAt
  <2>2. /\ r \in Seq(F)
        /\ Len(r) = n + 1
        /\ \A i \in 1 .. g : r[i] = keys[i]
        /\ r[g + 1] = key
        /\ \A i \in g + 2 .. n + 1 : r[i] = keys[i - 1]
    BY <2>a, Zenon DEF IsInserted
  <2>3. keys' = r /\ top' = Top(n + 1, {g})
    BY <1>2, <1>4
  <2> HIDE DEF r
  <2>4. ASSUME NEW i \in 1 .. n + 1, NEW j \in 1 .. n + 1, i < j
        PROVE  Precedes(r[i], r[j])
    <3>1. CASE j <= g
      <4>1. i \in 1 .. g /\ j \in 1 .. g /\ i \in 1 .. n /\ j \in 1 .. n
        BY <1>1, <2>1, <2>4, <3>1
      <4> QED
        BY <1>1, <2>2, <2>4, <4>1
    <3>2. CASE j = g + 1
      <4>1. i \in 1 .. g
        BY <1>1, <2>1, <2>4, <3>2
      <4> QED
        BY <2>1, <2>2, <3>2, <4>1
    <3>3. CASE j > g + 1
      <4>1. j \in g + 2 .. n + 1 /\ j - 1 \in g + 1 .. n /\ j - 1 \in 1 .. n
        BY <1>1, <2>1, <2>4, <3>3
      <4>2. r[j] = keys[j - 1]
        BY <2>2, <4>1
      <4>3. CASE i <= g
        <5>1. i \in 1 .. g /\ i \in 1 .. n /\ i < j - 1
          BY <1>1, <2>1, <2>4, <3>3, <4>3
        <5> QED
          BY <1>1, <2>2, <4>1, <4>2, <5>1
      <4>4. CASE i = g + 1
        BY <2>1, <2>2, <4>1, <4>2, <4>4
      <4>5. CASE i > g + 1
        <5>1. i \in g + 2 .. n + 1 /\ i - 1 \in 1 .. n /\ i - 1 < j - 1
          BY <1>1, <2>1, <2>4, <4>5
        <5>2. r[i] = keys[i - 1]
          BY <2>2, <5>1
        <5> QED
          BY <1>1, <4>1, <4>2, <5>1, <5>2
      <4> QED
        BY <2>1, <4>3, <4>4, <4>5
    <3> QED
      BY <2>1, <3>1, <3>2, <3>3
  <2>5. top' \in 0 .. n + 1
    BY <1>1, <2>3, TopInside
  <2> QED
    BY <2>2, <2>3, <2>4, <2>5 DEF Sorted
<1> QED
  BY <1>3, <1>4

\* And so does a removal.
LEMMA RemoveKeepsOrder ==
    ASSUME NEW F, Ordered(F), NEW key \in F, removeField(key)
    PROVE  keys' \in Seq(F) /\ top' \in 0 .. Len(keys') /\ Sorted(keys')
<1> DEFINE n == Len(keys)
<1>1. /\ n \in Nat /\ keys \in Seq(F) /\ top \in 0 .. n
      /\ \A i, j \in 1 .. n : i < j => Precedes(keys[i], keys[j])
  BY DEF Ordered, Sorted
<1>2. PICK p \in Found(key) :
        IF p = 0 THEN UNCHANGED <<keys, top>>
        ELSE keys' = RemoveAt(keys, p) /\ top' = Top(n - 1, {})
  BY DEF removeField
<1>3. CASE p = 0
  BY <1>1, <1>2, <1>3 DEF Sorted
<1>4. CASE p # 0
  <2>1. p \in 1 .. n
    BY <1>2, <1>4, FoundExact
  <2>0. keys \in Seq(F) /\ p \in 1 .. Len(keys)
    BY <1>1, <2>1
  <2>2. PICK r \in Seq(F) : /\ r = RemoveAt(keys, p)
                            /\ Len(r) = Len(keys) - 1
                            /\ \A j \in 1 .. p - 1 : r[j] = keys[j]
                            /\ \A j \in p .. Len(keys) - 1 : r[j] = keys[j + 1]
    BY <2>0, KeyRemoved
  <2>3. keys' = r /\ top' = Top(n - 1, {}) /\ n - 1 \in Nat
    BY <1>1, <1>2, <1>4, <2>1, <2>2
  <2>4. ASSUME NEW i \in 1 .. n - 1
        PROVE  \E k \in 1 .. n : /\ r[i] = keys[k]
                                 /\ (i < p /\ k = i) \/ (~ (i < p) /\ k = i + 1)
    <3>1. CASE i < p
      <4>1. i \in 1 .. p - 1 /\ i \in 1 .. n
        BY <1>1, <2>1, <3>1
      <4> QED
        BY <2>2, <3>1, <4>1
    <3>2. CASE ~ (i < p)
      <4>1. i \in p .. n - 1 /\ i + 1 \in 1 .. n
        BY <1>1, <2>1, <3>2
      <4> QED
        BY <2>2, <3>2, <4>1
    <3> QED
      BY <3>1, <3>2
  <2>5. ASSUME NEW i \in 1 .. n - 1, NEW j \in 1 .. n - 1, i < j
        PROVE  Precedes(r[i], r[j])
    <3>1. PICK k \in 1 .. n : r[i] = keys[k] /\ ((i < p /\ k = i) \/ (~ (i < p) /\ k = i + 1))
      BY <2>4
    <3>2. PICK m \in 1 .. n : r[j] = keys[m] /\ ((j < p /\ m = j) \/ (~ (j < p) /\ m = j + 1))
      BY <2>4
    <3>3. k < m
      BY <1>1, <2>1, <2>5, <3>1, <3>2
    <3> QED
      BY <1>1, <3>1, <3>2, <3>3
  <2>6. top' \in 0 .. n - 1
    BY <2>3, TopInside
  <2> QED
    BY <2>2, <2>3, <2>5, <2>6 DEF Sorted
<1> QED
  BY <1>3, <1>4

\* The inductive invariant: the keys of a map that are all comparable are kept
\* in the order of Precedes.
KeyInv ==
    /\ family \in KeyFamilies
    /\ (\A a, b \in family : Comparable(a, b)) => Ordered(family)

\* An empty map is in order.
LEMMA KeyInitHolds == KeyInit => KeyInv
<1> SUFFICES ASSUME KeyInit PROVE KeyInv
  OBVIOUS
<1>1. family \subseteq MapKeys
  BY KeysAssumption DEF KeyInit
<1>2. keys \in Seq(family) /\ Len(keys) = 0 /\ top \in 0 .. Len(keys)
  BY DEF KeyInit
<1>3. Sorted(keys)
  BY <1>2 DEF Sorted
<1> QED
  BY <1>1, <1>2, <1>3 DEF KeyInit, KeyInv, Ordered

\* Every call keeps the invariant.
LEMMA KeyNextKeeps == KeyInv /\ [KeyNext]_keyVars => KeyInv'
<1> SUFFICES ASSUME KeyInv, [KeyNext]_keyVars PROVE KeyInv'
  OBVIOUS
<1>1. PICK F : F = family
  OBVIOUS
<1>2. family' = F
  BY <1>1 DEF KeyNext, keyVars
<1>3. F \in KeyFamilies
  BY <1>1 DEF KeyInv
<1>4. ASSUME \A a, b \in F : Comparable(a, b)
      PROVE  keys' \in Seq(F) /\ top' \in 0 .. Len(keys') /\ Sorted(keys')
  <2>1. Ordered(F)
    BY <1>1, <1>4 DEF KeyInv
  <2>2. CASE UNCHANGED <<keys, top>>
    BY <2>1, <2>2 DEF Ordered, Sorted
  <2>3. ASSUME NEW key \in F, insertField(key)
        PROVE  keys' \in Seq(F) /\ top' \in 0 .. Len(keys') /\ Sorted(keys')
    BY <2>1, <2>3, InsertKeepsOrder
  <2>4. ASSUME NEW key \in F, removeField(key)
        PROVE  keys' \in Seq(F) /\ top' \in 0 .. Len(keys') /\ Sorted(keys')
    BY <2>1, <2>4, RemoveKeepsOrder
  <2>5. ASSUME NEW key \in F, getOrInsertFieldRef(key)
        PROVE  keys' \in Seq(F) /\ top' \in 0 .. Len(keys') /\ Sorted(keys')
    <3>1. insertField(key) \/ UNCHANGED <<keys, top>>
      BY <2>5 DEF getOrInsertFieldRef
    <3> QED
      BY <2>2, <2>3, <3>1
  <2> QED
    BY <1>1, <2>2, <2>3, <2>4, <2>5 DEF KeyNext, keyVars
<1>5. F \subseteq MapKeys
  BY <1>3, KeysAssumption
<1> QED
  BY <1>2, <1>3, <1>4, <1>5 DEF KeyInv, Ordered

\* In a map in order, the searches are exact.
LEMMA KeyInvOrders == KeyInv => KeysOrdered
<1> SUFFICES ASSUME KeyInv, \A a, b \in family : Comparable(a, b)
             PROVE  /\ \A i, j \in DOMAIN keys : i < j => Before(keys[i], keys[j])
                    /\ \A key \in family :
                            Found(key) = {IF \E i \in DOMAIN keys : keys[i] = key
                                          THEN CHOOSE i \in DOMAIN keys : keys[i] = key ELSE 0}
                    /\ \A i \in DOMAIN keys :
                            /\ KeyFrom(keys[i]) = IF toTypeClass(keys[i].type) = "null"
                                                  THEN NullKey ELSE keys[i]
                            /\ getCompareVariable(keys[i], keys[i]) = {"equal"}
  BY Zenon DEF KeysOrdered
<1>1. Ordered(family)
  BY DEF KeyInv
<1>2. PICK F : F = family
  OBVIOUS
<1>3. Ordered(F)
  BY <1>1, <1>2
<1> DEFINE n == Len(keys)
<1>4. /\ DOMAIN keys = 1 .. n /\ n \in Nat
      /\ \A i \in 1 .. n : keys[i] \in F /\ keys[i] \in MapKeys
      /\ \A i, j \in 1 .. n : i < j => Precedes(keys[i], keys[j])
  BY <1>3, OrderedParts
<1>5. ASSUME NEW i \in 1 .. n, NEW j \in 1 .. n, i < j
      PROVE  Before(keys[i], keys[j])
  <2>1. PICK a \in F, b \in F : a = keys[i] /\ b = keys[j]
    BY <1>4
  <2>2. Precedes(a, b)
    BY <1>4, <1>5, <2>1
  <2> QED
    BY <1>3, <2>1, <2>2, OrderedLess, Zenon
<1>6. ASSUME NEW i \in 1 .. n, NEW j \in 1 .. n, keys[i] = keys[j]
      PROVE  i = j
  <2>1. ~Precedes(keys[i], keys[j]) /\ ~Precedes(keys[j], keys[i])
    BY <1>4, <1>6, PrecedesOrders
  <2>2. ~ (i < j) /\ ~ (j < i)
    BY <1>4, <2>1
  <2> QED
    BY <2>2
<1>7. ASSUME NEW key \in F
      PROVE  Found(key) = {IF \E i \in 1 .. n : keys[i] = key
                           THEN CHOOSE i \in 1 .. n : keys[i] = key ELSE 0}
  <2>1. CASE Found(key) = {0} /\ \A i \in 1 .. n : keys[i] # key
    BY <2>1
  <2>2. CASE \E i \in 1 .. n : Found(key) = {i} /\ keys[i] = key
    <3>1. PICK i \in 1 .. n : Found(key) = {i} /\ keys[i] = key
      BY <2>2
    <3>2. (CHOOSE m \in 1 .. n : keys[m] = key) = i
      BY <1>6, <3>1
    <3> QED
      BY <3>1, <3>2
  <2> QED
    BY <1>3, <2>1, <2>2, FoundExact
<1>8. ASSUME NEW i \in 1 .. n
      PROVE  /\ KeyFrom(keys[i]) = IF toTypeClass(keys[i].type) = "null"
                                   THEN NullKey ELSE keys[i]
             /\ getCompareVariable(keys[i], keys[i]) = {"equal"}
  <2>1. PICK a \in MapKeys : a = keys[i]
    BY <1>4
  <2> QED
    BY <2>1, KeyFromItself, KeyEqualsItself
<1> QED
  BY <1>2, <1>4, <1>5, <1>7, <1>8

\* The keys of a map that are all comparable stay in order of iteration.
THEOREM KeysInvariance == KeySpec => []KeyInv
<1> QED
  BY KeyInitHolds, KeyNextKeeps, PTL DEF KeySpec

\* Whatever was inserted and removed before, a map of comparable keys is sorted
\* and holds no key twice, and find returns the key it is asked for or none.
THEOREM KeysAlwaysOrdered == KeySpec => []KeysOrdered
<1> QED
  BY KeysInvariance, KeyInvOrders, PTL
==============================================================================
