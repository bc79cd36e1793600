----------------------------- MODULE TableLemmas -----------------------------
(***************************************************************************)
(* What the operators of Table on indexes, fields and maps do: each keeps  *)
(* Good whatever the client does, and most keep Tidy and Ordered, too.  A  *)
(* lemma is about a database db, which an operator makes d of; L is the    *)
(* set of tables that exist.  A loop of the code is a fold in Table, and   *)
(* has three lemmas: that it is a fold to which the rules of Folding       *)
(* apply, what one round of it does, and what all of it does.              *)
(***************************************************************************)
EXTENDS Table, SequenceTheorems, FiniteSetTheorems, WellFoundedInduction, TLAPS

Databases ==
    [rows : [Tables -> SUBSET Rows],
     index : [Tables -> [Columns -> Seq(Rows \X Slots)]],
     fields : [Rows -> [Slots -> Field \cup {NoField}]],
     order : [Rows -> Seq(Slots)],
     table_list : [Rows -> SUBSET Tables],
     held : SUBSET Rows]

\* What a field knows of its places is true, and they are in tables of L.
PointersTrue(db, L) ==
    \A r \in Rows, i \in Slots :
        db.fields[r][i] # NoField =>
            \A x \in db.fields[r][i].indexed_at :
                /\ x[1] \in L /\ x[2] = db.fields[r][i].key
                /\ <<r, i>> \in ToSet(db.index[x[1]][x[2]])

\* The iterators of a map go over each of its fields once.
OrdersExact(db) ==
    \A r \in Rows :
        ToSet(db.order[r]) = UsedSlots(db, r) /\ IsInjective(db.order[r])

\* What every operation keeps, whatever the client does.
Good(db, L) == db \in Databases /\ PointersTrue(db, L) /\ OrdersExact(db)

\* d differs from db in the indexes and in what fields know of them, only.
SameRows(d, db) ==
    /\ d.rows = db.rows /\ d.order = db.order
    /\ d.table_list = db.table_list /\ d.held = db.held
    /\ \A r \in Rows, i \in Slots :
          /\ d.fields[r][i] = NoField <=> db.fields[r][i] = NoField
          /\ db.fields[r][i] # NoField =>
                /\ d.fields[r][i].key = db.fields[r][i].key
                /\ d.fields[r][i].value = db.fields[r][i].value

-----------------------------------------------------------------------------
(* Numbers and sequences *)

\* A set of numbers that is not empty has a least one.
LEMMA LeastNumber ==
    ASSUME NEW N, N \subseteq Nat, N # {}
    PROVE  \E n \in N : \A m \in N : n <= m
<1>1. \E n \in N : \A m \in N : ~ (<<m, n>> \in OpToRel(<, Nat))
  BY NatLessThanWellFounded, WFMin
<1>2. PICK n \in N : \A m \in N : ~(m < n)
  BY <1>1 DEF OpToRel
<1> QED
  BY <1>2

\* r is a sequence over S that consists of a and b.
Joined(S, r, a, b) ==
    /\ r \in Seq(S) /\ r = a \o b /\ Len(r) = Len(a) + Len(b)
    /\ \A j \in 1..Len(a) : r[j] = a[j]
    /\ \A j \in 1..Len(b) : r[Len(a) + j] = b[j]

\* What the elements of a concatenation are.
LEMMA TwoParts ==
    ASSUME NEW S, NEW a \in Seq(S), NEW b \in Seq(S)
    PROVE  Joined(S, a \o b, a, b)
<1>1. a \o b \in Seq(S) /\ Len(a \o b) = Len(a) + Len(b)
  BY ConcatProperties
<1>2. \A j \in 1..(Len(a) + Len(b)) :
         (a \o b)[j] = IF j <= Len(a) THEN a[j] ELSE b[j - Len(a)]
  BY ConcatProperties
<1>3. PICK r \in Seq(S) :
          /\ r = a \o b /\ Len(r) = Len(a) + Len(b)
          /\ \A j \in 1..(Len(a) + Len(b)) :
                r[j] = IF j <= Len(a) THEN a[j] ELSE b[j - Len(a)]
  BY <1>1, <1>2
<1>4. \A j \in 1..Len(a) : r[j] = a[j]
  BY <1>3
<1>5. ASSUME NEW j \in 1..Len(b) PROVE r[Len(a) + j] = b[j]
  <2>1. /\ Len(a) + j \in 1..(Len(a) + Len(b)) /\ ~ (Len(a) + j <= Len(a))
        /\ (Len(a) + j) - Len(a) = j
    OBVIOUS
  <2>2. r[Len(a) + j] = b[(Len(a) + j) - Len(a)]
    BY <1>3, <2>1
  <2> QED
    BY <2>1, <2>2
<1>6. Joined(S, r, a, b)
  BY <1>3, <1>4, <1>5 DEF Joined
<1> QED
  BY <1>3, <1>6, Zenon

\* r is the part of s behind the first k elements up to the one at l.
Part(S, r, s, k, l) ==
    /\ r \in Seq(S) /\ r = SubSeq(s, k + 1, l) /\ Len(r) = l - k
    /\ \A j \in 1..(l - k) : r[j] = s[k + j]

\* What the elements of a part of a sequence are.
LEMMA OnePart ==
    ASSUME NEW S, NEW s \in Seq(S), NEW k \in Nat, NEW l \in Nat, k <= l, l <= Len(s)
    PROVE  Part(S, SubSeq(s, k + 1, l), s, k, l)
<1> DEFINE r == SubSeq(s, k + 1, l)
<1>1. r \in Seq(S) /\ Len(r) = l - k
  OBVIOUS
<1>2. \A j \in 1..(l - k) : r[j] = s[k + j]
  OBVIOUS
<1> HIDE DEF r
<1>3. r = SubSeq(s, k + 1, l)
  BY DEF r
<1>4. Part(S, r, s, k, l)
  BY <1>1, <1>2, <1>3 DEF Part
<1> QED
  BY <1>4 DEF r

\* t is s with x behind its first p elements.
Inserted(S, t, s, p, x) ==
    /\ t \in Seq(S) /\ Len(t) = Len(s) + 1
    /\ \A j \in 1..p : t[j] = s[j]
    /\ t[p + 1] = x
    /\ \A j \in (p + 1) .. Len(s) : t[j + 1] = s[j]
    /\ ToSet(t) = ToSet(s) \cup {x}

\* What InsertAt returns, element by element.
LEMMA InsertedAt ==
    ASSUME NEW S, NEW s \in Seq(S), NEW x \in S, NEW p \in 0 .. Len(s)
    PROVE  Inserted(S, InsertAt(s, p + 1, x), s, p, x)
<1>0. PICK n \in Nat : n = Len(s)
  OBVIOUS
<1>a. p \in Nat /\ p <= n /\ 0 + 1 = 1 /\ p - 0 = p
  BY <1>0
<1>1. PICK a : a = SubSeq(s, 1, p) /\ Part(S, a, s, 0, p)
  <2>1. Part(S, SubSeq(s, 0 + 1, p), s, 0, p)
    BY <1>0, <1>a, OnePart
  <2> QED
    BY <1>a, <2>1
<1>2. PICK b : b = SubSeq(s, p + 1, n) /\ Part(S, b, s, p, n)
  <2>1. Part(S, SubSeq(s, p + 1, n), s, p, n)
    BY <1>0, <1>a, OnePart
  <2> QED
    BY <2>1
<1>3. PICK y : y = <<x>> /\ y \in Seq(S) /\ Len(y) = 1 /\ y[1] = x
  <2>1. <<x>> \in Seq(S) /\ Len(<<x>>) = 1 /\ <<x>>[1] = x
    OBVIOUS
  <2> QED
    BY <2>1
<1>4. PICK u : u = a \o y /\ Joined(S, u, a, y)
  <2>1. a \in Seq(S)
    BY <1>1 DEF Part
  <2> QED
    BY <1>3, <2>1, TwoParts, Zenon
<1>5. /\ u \in Seq(S) /\ Len(u) = p + 1 /\ u[p + 1] = x
      /\ \A j \in 1..p : u[j] = s[j]
  BY <1>a, <1>1, <1>3, <1>4 DEF Part, Joined
<1>6. PICK t : t = u \o b /\ Joined(S, t, u, b)
  <2>1. b \in Seq(S)
    BY <1>2 DEF Part
  <2> QED
    BY <1>5, <2>1, TwoParts, Zenon
<1>7. t = InsertAt(s, p + 1, x)
  <2>1. (p + 1) - 1 = p
    BY <1>a
  <2>2. InsertAt(s, p + 1, x) = SubSeq(s, 1, p) \o <<x>> \o SubSeq(s, p + 1, n)
    BY <1>0, <2>1 DEF InsertAt
  <2> QED
    BY <1>1, <1>2, <1>3, <1>4, <1>6, <2>2, Zenon
<1>b. /\ t \in Seq(S) /\ Len(t) = Len(u) + Len(b)
      /\ \A j \in 1..Len(u) : t[j] = u[j]
      /\ \A j \in 1..Len(b) : t[Len(u) + j] = b[j]
  BY <1>6 DEF Joined
<1>c. Len(b) = n - p /\ \A j \in 1..(n - p) : b[j] = s[p + j]
  BY <1>2 DEF Part
<1>8. Len(t) = n + 1
  BY <1>a, <1>b, <1>c, <1>5
<1>9. \A j \in 1..p : t[j] = s[j]
  BY <1>a, <1>5, <1>b
<1>10. t[p + 1] = x
  BY <1>a, <1>5, <1>b
<1>11. ASSUME NEW j \in (p + 1) .. n PROVE t[j + 1] = s[j]
  <2>1. PICK q \in 1..(n - p) : j = p + q
    <3>1. j - p \in 1..(n - p) /\ j = p + (j - p)
      BY <1>0
    <3> QED
      BY <3>1
  <2>2. (p + 1) + q = j + 1
    BY <2>1
  <2>3. t[(p + 1) + q] = b[q] /\ b[q] = s[p + q]
    BY <1>b, <1>5, <1>c
  <2> QED
    BY <2>1, <2>2, <2>3
<1>12. ASSUME NEW k \in 1..(n + 1) PROVE t[k] \in ToSet(s) \cup {x}
  <2>s. \A j \in 1..n : s[j] \in ToSet(s)
    BY <1>0 DEF ToSet
  <2>1. CASE k <= p
    <3>1. k \in 1..n /\ k \in 1..p
      BY <1>0, <2>1
    <3> QED
      BY <1>9, <2>s, <3>1
  <2>2. CASE k = p + 1
    BY <1>10, <2>2
  <2>3. CASE k > p + 1
    <3>1. k - 1 \in (p + 1) .. n /\ (k - 1) + 1 = k /\ k - 1 \in 1..n
      BY <1>0, <2>3
    <3>2. t[k] = s[k - 1]
      BY <1>11, <3>1
    <3> QED
      BY <2>s, <3>1, <3>2
  <2> QED
    BY <1>0, <2>1, <2>2, <2>3
<1>13. ASSUME NEW k \in 1..n PROVE s[k] \in ToSet(t)
  <2>s. \A j \in 1..(n + 1) : t[j] \in ToSet(t)
    <3>1. DOMAIN t = 1..(n + 1)
      BY <1>8, <1>b
    <3> QED
      BY <3>1 DEF ToSet
  <2>1. CASE k <= p
    <3>1. k \in 1..p /\ k \in 1..(n + 1) /\ t[k] = s[k]
      BY <1>0, <1>9, <2>1
    <3> QED
      BY <2>s, <3>1
  <2>2. CASE k > p
    <3>1. t[k + 1] = s[k] /\ k + 1 \in 1..(n + 1)
      BY <1>0, <1>11, <2>2
    <3> QED
      BY <2>s, <3>1
  <2> QED
    BY <1>0, <2>1, <2>2
<1>14. x \in ToSet(t)
  <2>1. p + 1 \in 1..(n + 1) /\ DOMAIN t = 1..(n + 1)
    BY <1>0, <1>8, <1>b
  <2> QED
    BY <1>10, <2>1 DEF ToSet
<1>15. ToSet(t) = ToSet(s) \cup {x}
  <2>1. ToSet(t) \subseteq ToSet(s) \cup {x}
    BY <1>8, <1>b, <1>12 DEF ToSet
  <2>2. ToSet(s) \subseteq ToSet(t)
    BY <1>0, <1>13 DEF ToSet
  <2> QED
    BY <1>14, <2>1, <2>2
<1>16. Inserted(S, t, s, p, x)
  BY <1>0, <1>b, <1>8, <1>9, <1>10, <1>11, <1>15 DEF Inserted
<1> QED
  BY <1>7, <1>16

\* t is s without the element at place q.
Removed(S, t, s, q) ==
    /\ t \in Seq(S) /\ Len(t) = Len(s) - 1
    /\ \A j \in 1 .. (q - 1) : t[j] = s[j]
    /\ \A j \in q .. (Len(s) - 1) : t[j] = s[j + 1]

\* What RemoveAt returns, element by element.
LEMMA RemovedAt ==
    ASSUME NEW S, NEW s \in Seq(S), NEW q \in 1 .. Len(s)
    PROVE  Removed(S, RemoveAt(s, q), s, q)
<1>0. PICK n \in Nat : n = Len(s)
  OBVIOUS
<1>a. PICK p \in Nat : p + 1 = q /\ q - 1 = p /\ 0 + 1 = 1 /\ p - 0 = p /\ q <= n
  <2>1. q - 1 \in Nat /\ (q - 1) + 1 = q
    OBVIOUS
  <2> QED
    BY <1>0, <2>1
<1>1. PICK a : a = SubSeq(s, 1, p) /\ Part(S, a, s, 0, p)
  <2>1. Part(S, SubSeq(s, 0 + 1, p), s, 0, p)
    BY <1>0, <1>a, OnePart
  <2> QED
    BY <1>a, <2>1
<1>2. PICK b : b = SubSeq(s, q + 1, n) /\ Part(S, b, s, q, n)
  <2>1. Part(S, SubSeq(s, q + 1, n), s, q, n)
    BY <1>0, <1>a, OnePart
  <2> QED
    BY <2>1
<1>3. PICK t : t = a \o b /\ Joined(S, t, a, b)
  <2>1. a \in Seq(S) /\ b \in Seq(S)
    BY <1>1, <1>2 DEF Part
  <2> QED
    BY <2>1, TwoParts, Zenon
<1>4. t = RemoveAt(s, q)
  BY <1>0, <1>a, <1>1, <1>2, <1>3 DEF RemoveAt
<1>5. /\ t \in Seq(S) /\ Len(t) = Len(a) + Len(b)
      /\ \A j \in 1..Len(a) : t[j] = a[j]
      /\ \A j \in 1..Len(b) : t[Len(a) + j] = b[j]
  BY <1>3 DEF Joined
<1>6. /\ Len(a) = p /\ \A j \in 1..p : a[j] = s[j]
      /\ Len(b) = n - q /\ \A j \in 1..(n - q) : b[j] = s[q + j]
  BY <1>a, <1>1, <1>2 DEF Part
<1>7. Len(t) = n - 1
  BY <1>0, <1>a, <1>5, <1>6
<1>8. \A j \in 1 .. (q - 1) : t[j] = s[j]
  BY <1>a, <1>5, <1>6
<1>9. ASSUME NEW j \in q .. (n - 1) PROVE t[j] = s[j + 1]
  <2>1. PICK i \in 1..(n - q) : j = p + i
    <3>1. j - p \in 1..(n - q) /\ j = p + (j - p)
      BY <1>0, <1>a
    <3> QED
      BY <3>1
  <2>2. t[p + i] = b[i] /\ b[i] = s[q + i] /\ q + i = j + 1
    BY <1>a, <1>5, <1>6, <2>1
  <2> QED
    BY <2>1, <2>2
<1>10. Removed(S, t, s, q)
  BY <1>0, <1>5, <1>7, <1>8, <1>9 DEF Removed
<1> QED
  BY <1>4, <1>10

\* RemoveFirst takes nothing but its argument, and all of it when s has it once.
LEMMA RemovedFirst ==
    ASSUME NEW S, NEW s \in Seq(S), NEW x
    PROVE  /\ RemoveFirst(s, x) \in Seq(S)
           /\ ToSet(RemoveFirst(s, x)) \subseteq ToSet(s)
           /\ ToSet(s) \ {x} \subseteq ToSet(RemoveFirst(s, x))
           /\ IsInjective(s) => /\ IsInjective(RemoveFirst(s, x))
                                /\ x \notin ToSet(RemoveFirst(s, x))
           /\ x \notin ToSet(s) => RemoveFirst(s, x) = s
           /\ x \in ToSet(s) => \E q \in 1..Len(s) :
                 s[q] = x /\ Removed(S, RemoveFirst(s, x), s, q)
<1>0. PICK n \in Nat : n = Len(s) /\ DOMAIN s = 1..n
  OBVIOUS
<1>1. CASE x \notin ToSet(s)
  <2>1. ~ \E i \in 1..Len(s) : s[i] = x
    BY <1>0, <1>1 DEF ToSet
  <2>2. RemoveFirst(s, x) = s
    BY <2>1 DEF RemoveFirst
  <2> QED
    BY <1>1, <2>2
<1>2. CASE x \in ToSet(s)
  <2> DEFINE I == {i \in 1..Len(s) : s[i] = x}
  <2>1. I # {} /\ I \subseteq Nat
    BY <1>0, <1>2 DEF ToSet
  <2>2. PICK q \in I : q = Min(I)
    <3>1. \E m \in I : \A k \in I : m <= k
      <4> HIDE DEF I
      <4> QED
        BY <2>1, LeastNumber
    <3> QED
      BY <3>1 DEF Min
  <2>3. RemoveFirst(s, x) = RemoveAt(s, q)
    <3>1. SelectInSeq(s, LAMBDA v : v = x) = q
      BY <2>1, <2>2 DEF SelectInSeq
    <3>2. \E i \in 1..Len(s) : s[i] = x
      BY <2>2
    <3> QED
      BY <3>1, <3>2 DEF RemoveFirst
  <2>4. q \in 1..n /\ s[q] = x
    BY <1>0, <2>2
  <2> HIDE DEF I
  <2>5. PICK t : t = RemoveAt(s, q) /\ Removed(S, t, s, q)
    BY <1>0, <2>4, RemovedAt
  <2>6. /\ t \in Seq(S) /\ Len(t) = n - 1 /\ DOMAIN t = 1 .. (n - 1)
        /\ \A j \in 1 .. (q - 1) : t[j] = s[j]
        /\ \A j \in q .. (n - 1) : t[j] = s[j + 1]
    BY <1>0, <2>4, <2>5 DEF Removed
  <2>7. ASSUME NEW j \in 1 .. (n - 1)
        PROVE  \E k \in 1..n : /\ k # q /\ t[j] = s[k]
                               /\ (j < q /\ k = j) \/ (j >= q /\ k = j + 1)
    <3>1. CASE j < q
      BY <1>0, <2>4, <2>6, <3>1
    <3>2. CASE j >= q
      BY <1>0, <2>4, <2>6, <3>2
    <3> QED
      BY <1>0, <2>4, <3>1, <3>2
  <2>8. ASSUME NEW k \in 1..n, k # q
        PROVE  s[k] \in ToSet(t)
    <3>1. CASE k < q
      <4>1. k \in 1 .. (n - 1) /\ t[k] = s[k]
        BY <1>0, <2>4, <2>6, <3>1
      <4> QED
        BY <2>6, <4>1 DEF ToSet
    <3>2. CASE k > q
      <4>1. k - 1 \in q .. (n - 1) /\ k - 1 \in 1 .. (n - 1) /\ (k - 1) + 1 = k
        BY <1>0, <2>4, <3>2
      <4>2. t[k - 1] = s[k]
        BY <2>6, <4>1
      <4> QED
        BY <2>6, <4>1, <4>2 DEF ToSet
    <3> QED
      BY <1>0, <2>4, <2>8, <3>1, <3>2
  <2>9. ToSet(t) \subseteq ToSet(s)
    <3>1. ASSUME NEW j \in 1 .. (n - 1) PROVE t[j] \in ToSet(s)
      <4>1. PICK k \in 1..n : t[j] = s[k]
        BY <2>7
      <4> QED
        BY <1>0, <4>1 DEF ToSet
    <3> QED
      BY <2>6, <3>1 DEF ToSet
  <2>10. ToSet(s) \ {x} \subseteq ToSet(t)
    BY <1>0, <2>4, <2>8 DEF ToSet
  <2>11. IsInjective(s) => IsInjective(t) /\ x \notin ToSet(t)
    <3> SUFFICES ASSUME IsInjective(s)
                 PROVE  IsInjective(t) /\ x \notin ToSet(t)
      OBVIOUS
    <3>1. \A a, b \in 1..n : s[a] = s[b] => a = b
      BY <1>0 DEF IsInjective
    <3>2. ASSUME NEW a \in 1 .. (n - 1), NEW b \in 1 .. (n - 1), t[a] = t[b]
          PROVE  a = b
      <4>1. PICK k \in 1..n : /\ k # q /\ t[a] = s[k]
                              /\ (a < q /\ k = a) \/ (a >= q /\ k = a + 1)
        BY <2>7
      <4>2. PICK l \in 1..n : /\ l # q /\ t[b] = s[l]
                              /\ (b < q /\ l = b) \/ (b >= q /\ l = b + 1)
        BY <2>7
      <4>3. k = l
        BY <3>1, <3>2, <4>1, <4>2
      <4> QED
        BY <1>0, <2>4, <4>1, <4>2, <4>3
    <3>3. ASSUME NEW a \in 1 .. (n - 1), t[a] = x
          PROVE  FALSE
      <4>1. PICK k \in 1..n : k # q /\ t[a] = s[k]
        BY <2>7
      <4> QED
        BY <2>4, <3>1, <3>3, <4>1
    <3> QED
      BY <2>6, <3>2, <3>3 DEF IsInjective, ToSet
  <2>12. \E k \in 1..Len(s) : s[k] = x /\ Removed(S, t, s, k)
    BY <1>0, <2>4, <2>5
  <2>13. t = RemoveFirst(s, x)
    BY <2>3, <2>5
  <2> QED
    BY <1>2, <2>6, <2>9, <2>10, <2>11, <2>12, <2>13
<1> QED
  BY <1>1, <1>2

\* The place at which std::multiset::insert puts an element is there, whatever
\* the order.
LEMMA PlaceExists ==
    ASSUME NEW n \in Nat, NEW G
    PROVE  \E p \in 0..n : /\ \A j \in 1..p : j \in G
                           /\ p < n => p + 1 \notin G
<1> DEFINE M == {j \in 1 .. (n + 1) : j = n + 1 \/ j \notin G}
<1>1. M \subseteq Nat /\ M # {}
  OBVIOUS
<1>2. PICK m \in M : \A k \in M : m <= k
  <2> HIDE DEF M
  <2> QED
    BY <1>1, LeastNumber
<1>3. m - 1 \in 0..n /\ (m - 1) + 1 = m
  OBVIOUS
<1>4. ASSUME NEW j \in 1 .. (m - 1) PROVE j \in G
  BY <1>2
<1>5. m - 1 < n => m \notin G
  OBVIOUS
<1> QED
  BY <1>3, <1>4, <1>5

-----------------------------------------------------------------------------
(* Sequences in the order of f *)

\* The values of f grow along s; no two are the same when c is one of C.
Ascending(s, f, c, C) ==
    \A j, k \in 1 .. Len(s) :
        j < k => f[s[j]] <= f[s[k]] /\ (c \in C => f[s[j]] # f[s[k]])

\* A new element can be inserted anywhere and each stays the only one.
LEMMA InsertedInjective ==
    ASSUME NEW S, NEW s \in Seq(S), NEW t, NEW x, NEW p \in 0 .. Len(s),
           Inserted(S, t, s, p, x), IsInjective(s), x \notin ToSet(s)
    PROVE  IsInjective(t)
<1>1. PICK n \in Nat : n = Len(s) /\ DOMAIN s = 1..n /\ DOMAIN t = 1..(n + 1)
                       /\ p \in Nat /\ p <= n
  BY DEF Inserted
<1>2. \A j \in 1 .. (n + 1) : \/ j = p + 1 /\ t[j] = x
                              \/ j <= p /\ t[j] = s[j] /\ j \in 1..n
                              \/ j > p + 1 /\ t[j] = s[j - 1] /\ j - 1 \in 1..n
  <2> TAKE j \in 1 .. (n + 1)
  <2>1. CASE j <= p
    BY <1>1, <2>1 DEF Inserted
  <2>2. CASE j = p + 1
    BY <1>1, <2>2 DEF Inserted
  <2>3. CASE j > p + 1
    <3>1. j - 1 \in (p + 1) .. n /\ (j - 1) + 1 = j
      BY <1>1, <2>3
    <3> QED
      BY <1>1, <2>3, <3>1 DEF Inserted
  <2> QED
    BY <1>1, <2>1, <2>2, <2>3
<1>3. \A j \in 1..n : s[j] # x
  BY <1>1 DEF ToSet
<1>4. \A j, k \in 1..n : s[j] = s[k] => j = k
  BY <1>1 DEF IsInjective
<1>5. \A j, k \in 1 .. (n + 1) : t[j] = t[k] => j = k
  BY <1>1, <1>2, <1>3, <1>4
<1> QED
  BY <1>1, <1>5 DEF IsInjective

\* Where std::multiset::insert puts an element the order goes on.
LEMMA InsertedAscending ==
    ASSUME NEW S, NEW s \in Seq(S), NEW t, NEW x, NEW p \in 0 .. Len(s),
           NEW f, NEW c, NEW C,
           Inserted(S, t, s, p, x), Ascending(s, f, c, C),
           f[x] \in Nat, \A j \in 1 .. Len(s) : f[s[j]] \in Nat,
           \A j \in 1..p : f[s[j]] <= f[x],
           p < Len(s) => ~(f[s[p + 1]] <= f[x]),
           c \in C => \A j \in 1 .. Len(s) : f[s[j]] # f[x]
    PROVE  Ascending(t, f, c, C)
<1>1. PICK n \in Nat : n = Len(s) /\ Len(t) = n + 1 /\ p \in Nat /\ p <= n
  BY DEF Inserted
<1>2. \A j \in 1..p : j \in 1..n /\ t[j] = s[j]
  BY <1>1 DEF Inserted
<1>3. t[p + 1] = x
  BY DEF Inserted
<1>4. \A j \in (p + 2) .. (n + 1) : j - 1 \in (p + 1) .. n /\ j - 1 \in 1..n /\ t[j] = s[j - 1]
  <2> TAKE j \in (p + 2) .. (n + 1)
  <2>1. j - 1 \in (p + 1) .. n /\ (j - 1) + 1 = j /\ j - 1 \in 1..n
    BY <1>1
  <2> QED
    BY <1>1, <2>1 DEF Inserted
<1>5. \A j, k \in 1..n : j < k => f[s[j]] <= f[s[k]] /\ (c \in C => f[s[j]] # f[s[k]])
  BY <1>1 DEF Ascending
<1>6. \A j \in 1..n : f[s[j]] \in Nat /\ (c \in C => f[s[j]] # f[x])
  BY <1>1
<1>7. \A j \in (p + 1) .. n : f[x] <= f[s[j]]
  <2> TAKE j \in (p + 1) .. n
  <2>1. p + 1 \in 1..n /\ j \in 1..n /\ p + 1 <= j
    BY <1>1
  <2>2. f[x] <= f[s[p + 1]]
    BY <1>1, <1>6, <2>1
  <2>3. p + 1 < j => f[s[p + 1]] <= f[s[j]]
    BY <1>5, <2>1
  <2> QED
    BY <1>6, <2>1, <2>2, <2>3
<1>8. ASSUME NEW j \in 1 .. (n + 1), NEW k \in 1 .. (n + 1), j < k
      PROVE  f[t[j]] <= f[t[k]] /\ (c \in C => f[t[j]] # f[t[k]])
  <2>1. CASE k <= p
    <3>1. j \in 1..p /\ k \in 1..p
      BY <1>1, <1>8, <2>1
    <3> QED
      BY <1>2, <1>5, <1>8, <3>1
  <2>2. CASE k = p + 1
    <3>1. j \in 1..p
      BY <1>1, <1>8, <2>2
    <3>2. f[t[j]] = f[s[j]] /\ f[t[k]] = f[x] /\ j \in 1..n
      BY <1>2, <1>3, <2>2, <3>1
    <3> QED
      BY <1>6, <3>1, <3>2
  <2>3. CASE k > p + 1
    <3>1. k \in (p + 2) .. (n + 1)
      BY <1>1, <2>3
    <3>2. f[t[k]] = f[s[k - 1]] /\ k - 1 \in (p + 1) .. n /\ k - 1 \in 1..n
      BY <1>4, <3>1
    <3>3. CASE j <= p
      <4>1. f[t[j]] = f[s[j]] /\ j \in 1..n /\ j < k - 1
        BY <1>1, <1>2, <2>3, <3>3
      <4> QED
        BY <1>5, <3>2, <4>1
    <3>4. CASE j = p + 1
      <4>1. f[t[j]] = f[x]
        BY <1>3, <3>4
      <4> QED
        BY <1>6, <1>7, <3>2, <4>1
    <3>5. CASE j > p + 1
      <4>1. j \in (p + 2) .. (n + 1)
        BY <1>1, <3>5
      <4>2. f[t[j]] = f[s[j - 1]] /\ j - 1 \in 1..n /\ j - 1 < k - 1
        BY <1>1, <1>4, <1>8, <4>1
      <4> QED
        BY <1>5, <3>2, <4>2
    <3> QED
      BY <1>1, <3>3, <3>4, <3>5
  <2> QED
    BY <1>1, <2>1, <2>2, <2>3
<1> QED
  BY <1>1, <1>8 DEF Ascending

\* A sequence without an element is in order still.
LEMMA RemovedAscending ==
    ASSUME NEW S, NEW s \in Seq(S), NEW x, NEW f, NEW c, NEW C,
           Ascending(s, f, c, C)
    PROVE  Ascending(RemoveFirst(s, x), f, c, C)
<1>1. CASE x \notin ToSet(s)
  <2>1. RemoveFirst(s, x) = s
    BY <1>1, RemovedFirst
  <2> QED
    BY <2>1
<1>2. CASE x \in ToSet(s)
  <2>0. PICK t : t = RemoveFirst(s, x)
    OBVIOUS
  <2>1. PICK q \in 1 .. Len(s) : Removed(S, t, s, q)
    BY <1>2, <2>0, RemovedFirst
  <2>2. PICK n \in Nat : n = Len(s) /\ Len(t) = n - 1
    BY <2>1 DEF Removed
  <2>3. \A j \in 1 .. (n - 1) : \/ j < q /\ t[j] = s[j] /\ j \in 1..n
                                \/ j >= q /\ t[j] = s[j + 1] /\ j + 1 \in 1..n
    <3> TAKE j \in 1 .. (n - 1)
    <3>1. CASE j < q
      <4>1. j \in 1 .. (q - 1)
        BY <2>1, <3>1
      <4> QED
        BY <2>1, <3>1, <4>1 DEF Removed
    <3>2. CASE j >= q
      <4>1. j \in q .. (n - 1)
        BY <2>1, <3>2
      <4> QED
        BY <2>1, <2>2, <3>2, <4>1 DEF Removed
    <3> QED
      BY <2>1, <3>1, <3>2
  <2>4. \A j, k \in 1..n : j < k => f[s[j]] <= f[s[k]] /\ (c \in C => f[s[j]] # f[s[k]])
    BY <2>2 DEF Ascending
  <2>5. ASSUME NEW j \in 1 .. (n - 1), NEW k \in 1 .. (n - 1), j < k
        PROVE  f[t[j]] <= f[t[k]] /\ (c \in C => f[t[j]] # f[t[k]])
    <3>1. PICK a \in 1..n : t[j] = s[a] /\ ((j < q /\ a = j) \/ (j >= q /\ a = j + 1))
      BY <2>3
    <3>2. PICK b \in 1..n : t[k] = s[b] /\ ((k < q /\ b = k) \/ (k >= q /\ b = k + 1))
      BY <2>3
    <3>3. a < b
      BY <2>1, <2>5, <3>1, <3>2
    <3> QED
      BY <2>4, <3>1, <3>2, <3>3
  <2>6. Ascending(t, f, c, C)
    BY <2>2, <2>5 DEF Ascending
  <2> QED
    BY <2>0, <2>6
<1> QED
  BY <1>1, <1>2

-----------------------------------------------------------------------------
(* Careful clients *)

Nodes == Rows \X Slots
Places == Tables \X Columns

ValuesOf(db) == [n \in Nodes |-> ValueAt(db, n)]

\* An index has each field once, and the field knows of it.
Known(db) ==
    \A T \in Tables, c \in Columns :
        /\ IsInjective(db.index[T][c])
        /\ \A n \in ToSet(db.index[T][c]) :
              /\ db.fields[n[1]][n[2]] # NoField
              /\ <<T, c>> \in db.fields[n[1]][n[2]].indexed_at

\* Every index is in the order of values that have one.
Sorted(db) ==
    \A T \in Tables, c \in Columns :
        /\ \A n \in ToSet(db.index[T][c]) : ValueAt(db, n) \in Values
        /\ Ascending(db.index[T][c], ValuesOf(db), c, UniqueColumns)

\* What an operation of a careful client keeps, too.
Tidy(db) == Known(db) /\ Sorted(db)

-----------------------------------------------------------------------------
(* Indexes and pointers *)


\* The place of a field, taken apart.
LEMMA IsNode ==
    ASSUME NEW r \in Rows, NEW i \in Slots
    PROVE  \E n \in Nodes : n = <<r, i>> /\ n[1] = r /\ n[2] = i
<1>1. <<r, i>> \in Nodes
  BY DEF Nodes
<1>2. <<r, i>>[1] = r /\ <<r, i>>[2] = i
  OBVIOUS
<1> QED
  BY <1>1, <1>2

\* The parts of a field that is there.
LEMMA IsField ==
    ASSUME NEW db \in Databases, NEW r \in Rows, NEW i \in Slots,
           db.fields[r][i] # NoField
    PROVE  /\ db.fields[r][i] \in Field
           /\ db.fields[r][i].key \in Keys
           /\ db.fields[r][i].value \in Values \cup {NoKeyValue}
           /\ db.fields[r][i].indexed_at \in SUBSET Places
<1>1. db.fields[r][i] \in Field
  BY DEF Databases
<1> QED
  BY <1>1 DEF Field, Places

\* Of the indexes d has s for the one of T and c, and db's otherwise.
IndexIs(d, db, T, c, s) ==
    \A U \in Tables, e \in Columns :
        d.index[U][e] = IF U = T /\ e = c THEN s ELSE db.index[U][e]

\* What field n knows of its places is at; the other fields are db's.
PointersAre(d, db, n, at) ==
    \A r \in Rows, i \in Slots :
        d.fields[r][i] = IF <<r, i>> = n THEN [db.fields[r][i] EXCEPT !.indexed_at = at]
                         ELSE db.fields[r][i]

\* How an operation makes d of db.
IndexPut(d, db, T, c, s) == d = [db EXCEPT !.index[T][c] = s]
PointersPut(d, db, r, i, at) == d = [db EXCEPT !.fields[r][i].indexed_at = at]

\* What changes with an index.
LEMMA IndexChanged ==
    ASSUME NEW db \in Databases, NEW T \in Tables, NEW c \in Columns,
           NEW s \in Seq(Nodes), NEW d, IndexPut(d, db, T, c, s)
    PROVE  /\ d \in Databases /\ d.fields = db.fields /\ SameRows(d, db)
           /\ IndexIs(d, db, T, c, s)
<1>1. /\ d.rows = db.rows /\ d.order = db.order /\ d.fields = db.fields
      /\ d.table_list = db.table_list /\ d.held = db.held
      /\ d.index = [db.index EXCEPT ![T][c] = s]
  BY DEF Databases, IndexPut
<1>2. d.index \in [Tables -> [Columns -> Seq(Nodes)]]
  BY <1>1 DEF Databases, Nodes
<1>3. d \in Databases
  BY <1>1, <1>2 DEF Databases, Nodes, IndexPut
<1>4. IndexIs(d, db, T, c, s)
  BY <1>1 DEF IndexIs, Databases
<1> QED
  BY <1>1, <1>3, <1>4 DEF SameRows

\* What changes with what a field knows of its places.
LEMMA PointersChanged ==
    ASSUME NEW db \in Databases, NEW r \in Rows, NEW i \in Slots,
           db.fields[r][i] # NoField, NEW at \in SUBSET Places,
           NEW d, PointersPut(d, db, r, i, at)
    PROVE  /\ d \in Databases /\ d.index = db.index /\ SameRows(d, db)
           /\ PointersAre(d, db, <<r, i>>, at)
<1>1. /\ d.rows = db.rows /\ d.order = db.order /\ d.index = db.index
      /\ d.table_list = db.table_list /\ d.held = db.held
      /\ d.fields = [db.fields EXCEPT ![r][i].indexed_at = at]
  BY DEF Databases, PointersPut
<1>2. db.fields[r][i] \in Field /\ NoField \notin Field
  BY TableAssumption DEF Databases
<1>3. PICK f \in Field : f = [db.fields[r][i] EXCEPT !.indexed_at = at]
  BY <1>2 DEF Field, Places
<1>4. d.fields = [db.fields EXCEPT ![r][i] = f]
  BY <1>1, <1>3 DEF Databases
<1>5. d.fields \in [Rows -> [Slots -> Field \cup {NoField}]]
  BY <1>3, <1>4 DEF Databases
<1>6. d \in Databases
  BY <1>1, <1>5 DEF Databases, PointersPut
<1>7. PointersAre(d, db, <<r, i>>, at)
  BY <1>3, <1>4 DEF PointersAre, Databases
<1>8. f # NoField /\ f.key = db.fields[r][i].key /\ f.value = db.fields[r][i].value
  BY <1>2, <1>3 DEF Field
<1>9. SameRows(d, db)
  BY <1>1, <1>2, <1>4, <1>8 DEF SameRows, Databases, PointersPut
<1> QED
  BY <1>1, <1>6, <1>7, <1>9

\* Two operations that leave the rows alone, one after the other.
LEMMA SameRowsTransitive ==
    ASSUME NEW d, NEW e, NEW f, SameRows(d, e), SameRows(e, f)
    PROVE  SameRows(d, f)
  BY DEF SameRows

\* The steps that touch an index and a field at a time.
LEMMA BothChanged ==
    ASSUME NEW db \in Databases, NEW T \in Tables, NEW c \in Columns,
           NEW s \in Seq(Nodes), NEW r \in Rows, NEW i \in Slots,
           db.fields[r][i] # NoField, NEW at \in SUBSET Places,
           NEW e, IndexPut(e, db, T, c, s),
           NEW d, PointersPut(d, e, r, i, at)
    PROVE  /\ d \in Databases /\ SameRows(d, db)
           /\ IndexIs(d, db, T, c, s)
           /\ PointersAre(d, db, <<r, i>>, at)
<1>3. /\ e \in Databases /\ e.fields = db.fields /\ SameRows(e, db)
      /\ IndexIs(e, db, T, c, s)
  BY IndexChanged
<1>4. /\ d \in Databases /\ d.index = e.index /\ SameRows(d, e)
      /\ PointersAre(d, e, <<r, i>>, at)
  <2>1. e \in Databases /\ e.fields[r][i] # NoField
    BY <1>3
  <2> QED
    BY <2>1, PointersChanged
<1>5. SameRows(d, db)
  BY <1>3, <1>4, SameRowsTransitive
<1>6. IndexIs(d, db, T, c, s)
  BY <1>3, <1>4 DEF IndexIs
<1>7. PointersAre(d, db, <<r, i>>, at)
  BY <1>3, <1>4 DEF PointersAre
<1> QED
  BY <1>4, <1>5, <1>6, <1>7

\* Maps have the order of their fields as long as the fields are the same.
LEMMA OrdersKept ==
    ASSUME NEW d, NEW db, SameRows(d, db), OrdersExact(db)
    PROVE  OrdersExact(d)
  BY DEF SameRows, OrdersExact, UsedSlots

\* t is s with n filed by its value.
FiledByValue(t, s, db, n) ==
    /\ t \in Seq(Nodes)
    /\ \E p \in 0 .. Len(s) :
          /\ Inserted(Nodes, t, s, p, n)
          /\ \A j \in 1..p : ValueAt(db, s[j]) <= ValueAt(db, n)
          /\ p < Len(s) => ~(ValueAt(db, s[p + 1]) <= ValueAt(db, n))

\* Index::add of one field, its key being the column.
LEMMA InsertEffect ==
    ASSUME NEW db \in Databases, NEW T \in Tables, NEW c \in Columns,
           NEW r \in Rows, NEW i \in Slots, db.fields[r][i] # NoField,
           NEW n, n = <<r, i>>, NEW s, s = db.index[T][c],
           NEW at, at = db.fields[r][i].indexed_at \cup {<<T, c>>},
           NEW d, d = Insert(db, T, c, n)
    PROVE  /\ d \in Databases /\ SameRows(d, db)
           /\ PointersAre(d, db, n, at)
           /\ \E t : IndexIs(d, db, T, c, t) /\ FiledByValue(t, s, db, n)
<1> DEFINE G == {j \in 1 .. Len(s) : ValueAt(db, s[j]) <= ValueAt(db, n)}
           Place(q) == /\ \A j \in 1..q : ValueAt(db, s[j]) <= ValueAt(db, n)
                       /\ q < Len(s) => ~(ValueAt(db, s[q + 1]) <= ValueAt(db, n))
<1>1. s \in Seq(Nodes) /\ n \in Nodes /\ Len(s) \in Nat
  BY DEF Databases, Nodes
<1>2. at \in SUBSET Places
  <2>1. db.fields[r][i] \in Field
    BY DEF Databases
  <2>2. db.fields[r][i].indexed_at \cup {<<T, c>>} \in SUBSET Places
    BY <2>1 DEF Field, Places
  <2> QED
    BY <2>2
<1>3. \E q \in 0 .. Len(s) : Place(q)
  <2>1. PICK q \in 0 .. Len(s) : /\ \A j \in 1..q : j \in G
                                 /\ q < Len(s) => q + 1 \notin G
    <3> HIDE DEF G
    <3> QED
      BY <1>1, PlaceExists
  <2>2. Place(q)
    BY <1>1, <2>1
  <2> QED
    BY <2>2
<1>4. PICK p \in 0 .. Len(s) : /\ Place(p)
                               /\ p = UpperBound(s, LAMBDA m : ValueAt(db, m) <= ValueAt(db, n))
  <2> QED
    BY <1>3 DEF UpperBound
<1>5. PICK t : t = InsertAt(s, p + 1, n) /\ Inserted(Nodes, t, s, p, n)
  <2> QED
    BY <1>1, InsertedAt
<1>6. t = Filed(s, n, LAMBDA m : ValueAt(db, m) <= ValueAt(db, n))
  <2> QED
    BY <1>4, <1>5 DEF Filed
<1>7. t \in Seq(Nodes)
  BY <1>5 DEF Inserted
<1>8. PICK e : IndexPut(e, db, T, c, t)
  BY DEF IndexPut
<1>9. PointersPut(d, e, r, i, at)
  <2>1. d = [db EXCEPT !.index[T][c] = t, !.fields[r][i].indexed_at = @ \cup {<<T, c>>}]
    BY <1>6 DEF Insert, Databases
  <2>2. d = [e EXCEPT !.fields[r][i].indexed_at = @ \cup {<<T, c>>}]
    BY <1>8, <2>1 DEF IndexPut
  <2>3. e.fields = db.fields
    BY <1>8 DEF Databases, IndexPut
  <2> QED
    BY <2>2, <2>3 DEF PointersPut
<1>10. d \in Databases /\ SameRows(d, db)
       /\ IndexIs(d, db, T, c, t) /\ PointersAre(d, db, n, at)
  <2>1. /\ d \in Databases /\ SameRows(d, db)
        /\ IndexIs(d, db, T, c, t) /\ PointersAre(d, db, <<r, i>>, at)
    BY <1>2, <1>7, <1>8, <1>9, BothChanged
  <2> QED
    BY <2>1
<1>11. FiledByValue(t, s, db, n)
  BY <1>4, <1>5, <1>7 DEF FiledByValue
<1> QED
  BY <1>10, <1>11

\* d is db with field <<r, i>> in the index of T and c, and nothing else changed.
Gained(d, db, T, c, n) ==
    /\ SameRows(d, db)
    /\ PointersAre(d, db, n, db.fields[n[1]][n[2]].indexed_at \cup {<<T, c>>})
    /\ \A U \in Tables, e \in Columns :
          ToSet(d.index[U][e]) = ToSet(db.index[U][e])
                                 \cup (IF U = T /\ e = c THEN {n} ELSE {})

\* Field::addIndex: the field and the index know of each other.
LEMMA InsertGood ==
    ASSUME NEW L, NEW db, Good(db, L), NEW T \in Tables, T \in L, NEW r \in Rows,
           NEW i \in Slots, db.fields[r][i] # NoField,
           NEW c \in Columns, c = db.fields[r][i].key,
           NEW d, d = Insert(db, T, c, <<r, i>>)
    PROVE  Good(d, L) /\ Gained(d, db, T, c, <<r, i>>)
<1>0. PICK n : n = <<r, i>>
  OBVIOUS
<1>1. db \in Databases /\ PointersTrue(db, L) /\ OrdersExact(db)
  BY DEF Good
<1>2. PICK s \in Seq(Nodes) : s = db.index[T][c]
  BY <1>1 DEF Databases, Nodes
<1>3. PICK at \in SUBSET Places : at = db.fields[r][i].indexed_at \cup {<<T, c>>}
  <2>1. db.fields[r][i] \in Field
    BY <1>1 DEF Databases
  <2>2. db.fields[r][i].indexed_at \cup {<<T, c>>} \in SUBSET Places
    BY <2>1 DEF Field, Places
  <2> QED
    BY <2>2
<1>4. d \in Databases /\ SameRows(d, db) /\ PointersAre(d, db, n, at)
      /\ \E t : IndexIs(d, db, T, c, t) /\ FiledByValue(t, s, db, n)
  BY <1>0, <1>1, <1>2, <1>3, InsertEffect
<1>5. \A U \in Tables, e \in Columns :
         ToSet(d.index[U][e]) = ToSet(db.index[U][e])
                                \cup (IF U = T /\ e = c THEN {n} ELSE {})
  <2>1. PICK t : IndexIs(d, db, T, c, t) /\ ToSet(t) = ToSet(s) \cup {n}
    BY <1>4 DEF FiledByValue, Inserted
  <2> QED
    BY <1>2, <2>1 DEF IndexIs
<1>6. Gained(d, db, T, c, n)
  BY <1>0, <1>3, <1>4, <1>5 DEF Gained
<1>7. PointersTrue(d, L)
  <2> SUFFICES ASSUME NEW q \in Rows, NEW j \in Slots, d.fields[q][j] # NoField,
                      NEW x \in d.fields[q][j].indexed_at
               PROVE  /\ x[1] \in L /\ x[2] = d.fields[q][j].key
                      /\ <<q, j>> \in ToSet(d.index[x[1]][x[2]])
    BY DEF PointersTrue
  <2>a. d.fields[q][j] \in Field
    BY <1>4, IsField
  <2>1. /\ db.fields[q][j] # NoField /\ d.fields[q][j].key = db.fields[q][j].key
        /\ d.fields[q][j] \in Field
    BY <1>4, <2>a DEF SameRows
  <2>2. x[1] \in Tables /\ x[2] \in Columns
    BY <2>1 DEF Field
  <2>3. CASE x \in db.fields[q][j].indexed_at
    <3>1. /\ x[1] \in L /\ x[2] = db.fields[q][j].key
          /\ <<q, j>> \in ToSet(db.index[x[1]][x[2]])
      BY <1>1, <2>1, <2>3 DEF PointersTrue
    <3> QED
      BY <1>5, <2>1, <2>2, <3>1
  <2>4. CASE x \notin db.fields[q][j].indexed_at
    <3>1. <<q, j>> = n /\ x \in at
      <4>1. <<q, j>> # n => d.fields[q][j] = db.fields[q][j]
        BY <1>4 DEF PointersAre
      <4>2. <<q, j>> = n => d.fields[q][j] = [db.fields[q][j] EXCEPT !.indexed_at = at]
        BY <1>4 DEF PointersAre
      <4>3. db.fields[q][j] \in Field
        BY <1>1, <2>1 DEF Databases
      <4>4. <<q, j>> = n => d.fields[q][j].indexed_at = at
        BY <4>2, <4>3 DEF Field
      <4> QED
        BY <2>4, <4>1, <4>4
    <3>a. q = r /\ j = i
      BY <1>0, <3>1
    <3>2. x = <<T, c>>
      BY <1>3, <2>4, <3>1, <3>a
    <3>3. x[1] = T /\ x[2] = c
      BY <3>2
    <3> QED
      BY <1>5, <2>1, <2>2, <3>1, <3>3, <3>a
  <2> QED
    BY <2>3, <2>4
<1>8. OrdersExact(d)
  BY <1>1, <1>4, OrdersKept
<1> QED
  BY <1>0, <1>4, <1>6, <1>7, <1>8 DEF Good

\* What an index points to, in a database where d has the same rows.
LEMMA SameValues ==
    ASSUME NEW db \in Databases, NEW d \in Databases, SameRows(d, db), NEW n \in Nodes,
           db.fields[n[1]][n[2]] # NoField
    PROVE  /\ d.fields[n[1]][n[2]] # NoField
           /\ ValueAt(d, n) = ValueAt(db, n)
           /\ ValuesOf(d)[n] = ValuesOf(db)[n] /\ ValuesOf(db)[n] = ValueAt(db, n)
<1>1. n[1] \in Rows /\ n[2] \in Slots
  BY DEF Nodes
<1>2. d.fields[n[1]][n[2]] # NoField /\ ValueAt(d, n) = ValueAt(db, n)
  BY <1>1 DEF SameRows, ValueAt
<1> QED
  BY <1>2 DEF ValuesOf

\* The order of a sequence is one of the values it has.
LEMMA SameOrder ==
    ASSUME NEW S, NEW s \in Seq(S), NEW f, NEW g, NEW c, NEW C,
           \A n \in ToSet(s) : f[n] = g[n], Ascending(s, g, c, C)
    PROVE  Ascending(s, f, c, C)
<1>1. \A j \in 1 .. Len(s) : f[s[j]] = g[s[j]]
  BY DEF ToSet
<1> QED
  BY <1>1 DEF Ascending

\* What is in an index is a place of a field.
LEMMA InIndex ==
    ASSUME NEW db \in Databases, NEW T \in Tables, NEW c \in Columns
    PROVE  /\ db.index[T][c] \in Seq(Nodes)
           /\ ToSet(db.index[T][c]) \subseteq Nodes
<1>1. PICK s \in Seq(Nodes) : s = db.index[T][c]
  BY DEF Databases, Nodes
<1>2. ToSet(s) \subseteq Nodes
  BY DEF ToSet
<1> QED
  BY <1>1, <1>2

\* Fields that keep their values keep their order.
LEMMA SameSequence ==
    ASSUME NEW db \in Databases, NEW d \in Databases, SameRows(d, db),
           NEW s \in Seq(Nodes), \A n \in ToSet(s) : db.fields[n[1]][n[2]] # NoField,
           NEW c, NEW C, Ascending(s, ValuesOf(db), c, C)
    PROVE  Ascending(s, ValuesOf(d), c, C)
<1>1. \A n \in ToSet(s) : n \in Nodes
  BY DEF ToSet
<1>2. \A n \in ToSet(s) : ValuesOf(d)[n] = ValuesOf(db)[n]
  BY <1>1, SameValues
<1>3. PICK f, g : f = ValuesOf(d) /\ g = ValuesOf(db)
  OBVIOUS
<1> QED
  BY <1>2, <1>3, SameOrder

\* An index that takes a field it may add has it once, in its place.
LEMMA InsertTidy ==
    ASSUME NEW L, NEW db, Good(db, L), NEW T \in Tables, NEW r \in Rows,
           NEW i \in Slots, db.fields[r][i] # NoField, NEW c \in Columns,
           Tidy(db), CanAdd(db, T, c, <<r, i>>), <<T, c>> \notin db.fields[r][i].indexed_at,
           NEW d, d = Insert(db, T, c, <<r, i>>)
    PROVE  Tidy(d)
<1>0. PICK n \in Nodes : n = <<r, i>> /\ n[1] = r /\ n[2] = i
  BY IsNode
<1>1. db \in Databases /\ Known(db) /\ Sorted(db) /\ Values \subseteq Nat
  BY TableAssumption DEF Good, Tidy
<1>2. PICK s \in Seq(Nodes) : s = db.index[T][c]
  BY <1>1, InIndex
<1>3. PICK at : at = db.fields[r][i].indexed_at \cup {<<T, c>>}
  OBVIOUS
<1>4. d \in Databases /\ SameRows(d, db) /\ PointersAre(d, db, n, at)
      /\ \E t : IndexIs(d, db, T, c, t) /\ FiledByValue(t, s, db, n)
  BY <1>0, <1>1, <1>2, <1>3, InsertEffect
<1>5. PICK t \in Seq(Nodes) : IndexIs(d, db, T, c, t) /\ FiledByValue(t, s, db, n)
  BY <1>4 DEF FiledByValue
<1>6. PICK p \in 0 .. Len(s) :
          /\ Inserted(Nodes, t, s, p, n)
          /\ \A j \in 1..p : ValueAt(db, s[j]) <= ValueAt(db, n)
          /\ p < Len(s) => ~(ValueAt(db, s[p + 1]) <= ValueAt(db, n))
  BY <1>5 DEF FiledByValue
<1>7. n \notin ToSet(s)
  BY <1>0, <1>1, <1>2 DEF Known
<1>8. \A m \in ToSet(s) : m \in Nodes /\ db.fields[m[1]][m[2]] # NoField
                          /\ ValueAt(db, m) \in Values
  BY <1>1, <1>2, InIndex DEF Known, Sorted
<1>9. ValueAt(db, n) \in Values /\ (c \in UniqueColumns => ~HasValue(db, T, c, ValueAt(db, n)))
  BY <1>0 DEF CanAdd
<1>10. \A j \in 1 .. Len(s) : s[j] \in ToSet(s)
  BY DEF ToSet
<1>11. IsInjective(t)
  <2>1. IsInjective(s)
    BY <1>1, <1>2 DEF Known
  <2> QED
    BY <1>6, <1>7, <2>1, InsertedInjective
<1>12. ToSet(t) = ToSet(s) \cup {n}
  BY <1>6 DEF Inserted
<1>13. Ascending(t, ValuesOf(db), c, UniqueColumns)
  <2>1. PICK f : f = ValuesOf(db)
    OBVIOUS
  <2>2. \A m \in Nodes : f[m] = ValueAt(db, m)
    BY <2>1 DEF ValuesOf
  <2>4. Ascending(s, f, c, UniqueColumns)
    BY <1>1, <1>2, <2>1 DEF Sorted
  <2>5. f[n] \in Nat /\ f[n] = ValueAt(db, n)
    BY <1>1, <1>9, <2>2
  <2>6. \A j \in 1 .. Len(s) : f[s[j]] \in Nat /\ f[s[j]] = ValueAt(db, s[j])
    BY <1>1, <1>8, <1>10, <2>2
  <2>7. c \in UniqueColumns => \A j \in 1 .. Len(s) : f[s[j]] # f[n]
    BY <1>2, <1>9, <2>5, <2>6 DEF HasValue
  <2>8. \A j \in 1..p : f[s[j]] <= f[n]
    BY <1>6, <2>5, <2>6
  <2>9. p < Len(s) => ~(f[s[p + 1]] <= f[n])
    BY <1>6, <2>5, <2>6
  <2>10. Ascending(t, f, c, UniqueColumns)
    BY <1>6, <2>4, <2>5, <2>6, <2>7, <2>8, <2>9, InsertedAscending
  <2> QED
    BY <2>1, <2>10
<1>14. ASSUME NEW U \in Tables, NEW e \in Columns
       PROVE  /\ IsInjective(d.index[U][e])
              /\ \A m \in ToSet(d.index[U][e]) :
                    /\ m \in Nodes /\ db.fields[m[1]][m[2]] # NoField
                    /\ ValueAt(db, m) \in Values
                    /\ <<U, e>> \in db.fields[m[1]][m[2]].indexed_at
                       \/ (m = n /\ U = T /\ e = c)
              /\ Ascending(d.index[U][e], ValuesOf(db), e, UniqueColumns)
  <2>1. CASE U = T /\ e = c
    <3>1. d.index[U][e] = t
      BY <1>5, <2>1 DEF IndexIs
    <3>2. \A m \in ToSet(s) : <<U, e>> \in db.fields[m[1]][m[2]].indexed_at
      BY <1>1, <1>2, <2>1 DEF Known
    <3> QED
      BY <1>0, <1>8, <1>9, <1>11, <1>12, <1>13, <2>1, <3>1, <3>2
  <2>2. CASE ~(U = T /\ e = c)
    <3>1. d.index[U][e] = db.index[U][e]
      BY <1>5, <2>2 DEF IndexIs
    <3> QED
      BY <1>1, <3>1, InIndex DEF Known, Sorted
  <2> QED
    BY <2>1, <2>2
<1>15. Known(d)
  <2> SUFFICES ASSUME NEW U \in Tables, NEW e \in Columns, NEW m \in ToSet(d.index[U][e])
               PROVE  /\ d.fields[m[1]][m[2]] # NoField
                      /\ <<U, e>> \in d.fields[m[1]][m[2]].indexed_at
    BY <1>14 DEF Known
  <2>1. /\ m \in Nodes /\ db.fields[m[1]][m[2]] # NoField
        /\ <<U, e>> \in db.fields[m[1]][m[2]].indexed_at \/ (m = n /\ U = T /\ e = c)
    BY <1>14
  <2>2. m[1] \in Rows /\ m[2] \in Slots /\ m = <<m[1], m[2]>>
    BY <2>1 DEF Nodes
  <2>3. db.fields[m[1]][m[2]] \in Field /\ d.fields[m[1]][m[2]] # NoField
    BY <1>1, <1>4, <2>1, <2>2, IsField, SameValues
  <2>4. CASE m = n
    <3>1. d.fields[m[1]][m[2]] = [db.fields[m[1]][m[2]] EXCEPT !.indexed_at = at]
      BY <1>4, <2>2, <2>4 DEF PointersAre
    <3>2. d.fields[m[1]][m[2]].indexed_at = at
      BY <2>3, <3>1 DEF Field
    <3> QED
      BY <1>0, <1>3, <2>1, <2>3, <2>4, <3>2
  <2>5. CASE m # n
    <3>1. d.fields[m[1]][m[2]] = db.fields[m[1]][m[2]]
      BY <1>4, <2>2, <2>5 DEF PointersAre
    <3> QED
      BY <2>1, <2>5, <3>1
  <2> QED
    BY <2>4, <2>5
<1>16. Sorted(d)
  <2> SUFFICES ASSUME NEW U \in Tables, NEW e \in Columns
               PROVE  /\ \A m \in ToSet(d.index[U][e]) : ValueAt(d, m) \in Values
                      /\ Ascending(d.index[U][e], ValuesOf(d), e, UniqueColumns)
    BY DEF Sorted
  <2>1. \A m \in ToSet(d.index[U][e]) : ValueAt(d, m) = ValueAt(db, m)
                                        /\ ValuesOf(d)[m] = ValuesOf(db)[m]
    BY <1>1, <1>4, <1>14, SameValues
  <2>2. PICK u \in Seq(Nodes) : u = d.index[U][e]
    BY <1>4, InIndex
  <2>3. Ascending(u, ValuesOf(d), e, UniqueColumns)
    <3>1. \A m \in ToSet(u) : db.fields[m[1]][m[2]] # NoField
      BY <1>14, <2>2
    <3>2. Ascending(u, ValuesOf(db), e, UniqueColumns)
      BY <1>14, <2>2
    <3> QED
      BY <1>1, <1>4, <3>1, <3>2, SameSequence
  <2> QED
    BY <1>14, <2>1, <2>2, <2>3
<1> QED
  BY <1>15, <1>16 DEF Tidy

\* d is db without field n in the indexes of X, of which it knows no more.
Lost(d, db, n, X) ==
    /\ SameRows(d, db)
    /\ PointersAre(d, db, n, db.fields[n[1]][n[2]].indexed_at \ X)
    /\ \A U \in Tables, e \in Columns :
          d.index[U][e] = IF <<U, e>> \in X THEN RemoveFirst(db.index[U][e], n)
                          ELSE db.index[U][e]

\* Out of indexes, and the field knows: the others' places are true still.
LEMMA LostGood ==
    ASSUME NEW L, NEW db, Good(db, L), NEW n \in Nodes, NEW X,
           db.fields[n[1]][n[2]] # NoField, NEW d \in Databases, Lost(d, db, n, X)
    PROVE  Good(d, L)
<1>1. db \in Databases /\ PointersTrue(db, L) /\ OrdersExact(db) /\ SameRows(d, db)
  BY DEF Good, Lost
<1>2. OrdersExact(d)
  BY <1>1, OrdersKept
<1>3. PICK at : at = db.fields[n[1]][n[2]].indexed_at \ X
  OBVIOUS
<1>4. PointersAre(d, db, n, at)
  BY <1>3 DEF Lost
<1>5. PointersTrue(d, L)
  <2> SUFFICES ASSUME NEW q \in Rows, NEW j \in Slots, d.fields[q][j] # NoField,
                      NEW x \in d.fields[q][j].indexed_at
               PROVE  /\ x[1] \in L /\ x[2] = d.fields[q][j].key
                      /\ <<q, j>> \in ToSet(d.index[x[1]][x[2]])
    BY DEF PointersTrue
  <2>1. db.fields[q][j] # NoField /\ d.fields[q][j].key = db.fields[q][j].key
    BY <1>1 DEF SameRows
  <2>2. db.fields[q][j] \in Field /\ d.fields[q][j].indexed_at \in SUBSET Places
    BY <1>1, <2>1, IsField
  <2>3. x[1] \in Tables /\ x[2] \in Columns /\ x = <<x[1], x[2]>>
    BY <2>2 DEF Places
  <2>4. x \in db.fields[q][j].indexed_at /\ (<<q, j>> = n => x \notin X)
    <3>1. CASE <<q, j>> = n
      <4>1. d.fields[q][j] = [db.fields[q][j] EXCEPT !.indexed_at = at]
        BY <1>4, <3>1 DEF PointersAre
      <4>2. x \in at
        BY <2>2, <4>1 DEF Field
      <4>3. n[1] = q /\ n[2] = j
        BY <3>1
      <4> QED
        BY <1>3, <4>2, <4>3
    <3>2. CASE <<q, j>> # n
      <4>1. d.fields[q][j] = db.fields[q][j]
        BY <1>4, <3>2 DEF PointersAre
      <4> QED
        BY <3>2, <4>1
    <3> QED
      BY <3>1, <3>2
  <2>5. /\ x[1] \in L /\ x[2] = db.fields[q][j].key
        /\ <<q, j>> \in ToSet(db.index[x[1]][x[2]])
    BY <1>1, <2>1, <2>4 DEF PointersTrue
  <2>6. CASE x \in X
    <3>1. PICK s \in Seq(Nodes) : s = db.index[x[1]][x[2]]
      BY <1>1, <2>3, InIndex
    <3>2. d.index[x[1]][x[2]] = RemoveFirst(s, n)
      BY <2>3, <2>6, <3>1 DEF Lost
    <3>3. ToSet(s) \ {n} \subseteq ToSet(RemoveFirst(s, n))
      BY RemovedFirst
    <3> QED
      BY <2>1, <2>4, <2>5, <2>6, <3>1, <3>2, <3>3
  <2>7. CASE x \notin X
    <3>1. d.index[x[1]][x[2]] = db.index[x[1]][x[2]]
      BY <2>3, <2>7 DEF Lost
    <3> QED
      BY <2>1, <2>5, <3>1
  <2> QED
    BY <2>6, <2>7
<1> QED
  BY <1>2, <1>5 DEF Good

\* Out of indexes, and the field knows: each index is in order still.
LEMMA LostTidy ==
    ASSUME NEW L, NEW db, Good(db, L), NEW n \in Nodes, NEW X,
           db.fields[n[1]][n[2]] # NoField, NEW d \in Databases, Lost(d, db, n, X),
           Tidy(db)
    PROVE  Tidy(d)
<1>1. db \in Databases /\ Known(db) /\ Sorted(db) /\ SameRows(d, db)
  BY DEF Good, Lost, Tidy
<1>2. PICK at : at = db.fields[n[1]][n[2]].indexed_at \ X
  OBVIOUS
<1>3. PointersAre(d, db, n, at)
  BY <1>2 DEF Lost
<1>4. ASSUME NEW U \in Tables, NEW e \in Columns
      PROVE  /\ IsInjective(d.index[U][e])
             /\ ToSet(d.index[U][e]) \subseteq ToSet(db.index[U][e])
             /\ <<U, e>> \in X => n \notin ToSet(d.index[U][e])
             /\ Ascending(d.index[U][e], ValuesOf(db), e, UniqueColumns)
  <2>1. PICK s \in Seq(Nodes) : s = db.index[U][e]
    BY <1>1, InIndex
  <2>2. IsInjective(s)
    BY <1>1, <2>1 DEF Known
  <2>3. PICK f : f = ValuesOf(db)
    OBVIOUS
  <2>4. Ascending(s, f, e, UniqueColumns)
    BY <1>1, <2>1, <2>3 DEF Sorted
  <2>5. CASE <<U, e>> \in X
    <3>1. d.index[U][e] = RemoveFirst(s, n)
      BY <2>1, <2>5 DEF Lost
    <3>2. /\ IsInjective(RemoveFirst(s, n)) /\ n \notin ToSet(RemoveFirst(s, n))
          /\ ToSet(RemoveFirst(s, n)) \subseteq ToSet(s)
      BY <2>2, RemovedFirst
    <3>3. Ascending(RemoveFirst(s, n), f, e, UniqueColumns)
      BY <2>4, RemovedAscending
    <3> QED
      BY <2>1, <2>3, <3>1, <3>2, <3>3
  <2>6. CASE <<U, e>> \notin X
    <3>1. d.index[U][e] = s
      BY <2>1, <2>6 DEF Lost
    <3> QED
      BY <2>1, <2>2, <2>3, <2>4, <2>6, <3>1
  <2> QED
    BY <2>5, <2>6
<1>5. ASSUME NEW U \in Tables, NEW e \in Columns, NEW m \in ToSet(d.index[U][e])
      PROVE  /\ m \in Nodes /\ db.fields[m[1]][m[2]] # NoField
             /\ d.fields[m[1]][m[2]] # NoField
             /\ ValueAt(d, m) \in Values
             /\ <<U, e>> \in d.fields[m[1]][m[2]].indexed_at
  <2>1. m \in ToSet(db.index[U][e])
    BY <1>4
  <2>2. /\ m \in Nodes /\ db.fields[m[1]][m[2]] # NoField /\ ValueAt(db, m) \in Values
        /\ <<U, e>> \in db.fields[m[1]][m[2]].indexed_at
    BY <1>1, <2>1, InIndex DEF Known, Sorted
  <2>3. d.fields[m[1]][m[2]] # NoField /\ ValueAt(d, m) \in Values
    BY <1>1, <2>2, SameValues
  <2>4. m[1] \in Rows /\ m[2] \in Slots /\ m = <<m[1], m[2]>>
    BY <2>2 DEF Nodes
  <2>5. CASE m = n
    <3>1. d.fields[m[1]][m[2]] = [db.fields[m[1]][m[2]] EXCEPT !.indexed_at = at]
      BY <1>3, <2>4, <2>5 DEF PointersAre
    <3>2. db.fields[m[1]][m[2]] \in Field
      BY <1>1, <2>2, <2>4, IsField
    <3>3. d.fields[m[1]][m[2]].indexed_at = at
      BY <3>1, <3>2 DEF Field
    <3>4. <<U, e>> \notin X
      BY <1>4, <2>5
    <3> QED
      BY <1>2, <2>2, <2>3, <2>5, <3>3, <3>4
  <2>6. CASE m # n
    <3>1. d.fields[m[1]][m[2]] = db.fields[m[1]][m[2]]
      BY <1>3, <2>4, <2>6 DEF PointersAre
    <3> QED
      BY <2>2, <2>3, <3>1
  <2> QED
    BY <2>5, <2>6
<1>6. Known(d)
  BY <1>4, <1>5 DEF Known
<1>7. Sorted(d)
  <2> SUFFICES ASSUME NEW U \in Tables, NEW e \in Columns
               PROVE  Ascending(d.index[U][e], ValuesOf(d), e, UniqueColumns)
    BY <1>5 DEF Sorted
  <2>1. PICK u \in Seq(Nodes) : u = d.index[U][e]
    BY InIndex
  <2>2. \A m \in ToSet(u) : db.fields[m[1]][m[2]] # NoField
    BY <1>5, <2>1
  <2>3. Ascending(u, ValuesOf(db), e, UniqueColumns)
    BY <1>4, <2>1
  <2>4. Ascending(u, ValuesOf(d), e, UniqueColumns)
    BY <1>1, <2>2, <2>3, SameSequence
  <2> QED
    BY <2>1, <2>4
<1> QED
  BY <1>6, <1>7 DEF Tidy

KeysIn(db, r) == [i \in Slots |-> db.fields[r][i].key]

\* The fields of every map are in the order of their keys.
Ordered(db) ==
    \A r \in Rows : Ascending(db.order[r], KeysIn(db, r), kind, {"map"})

\* The order by keys does not depend on the indexes.
LEMMA OrderedKept ==
    ASSUME NEW db \in Databases, NEW d \in Databases, SameRows(d, db), OrdersExact(db),
           Ordered(db)
    PROVE  Ordered(d)
<1> SUFFICES ASSUME NEW r \in Rows
             PROVE  Ascending(d.order[r], KeysIn(d, r), kind, {"map"})
  BY DEF Ordered
<1>1. PICK s \in Seq(Slots) : s = db.order[r] /\ s = d.order[r]
  BY DEF Databases, SameRows
<1>2. \A i \in ToSet(s) : i \in Slots /\ db.fields[r][i] # NoField
  BY <1>1 DEF OrdersExact, UsedSlots
<1>3. PICK f, g : f = KeysIn(d, r) /\ g = KeysIn(db, r)
  OBVIOUS
<1>4. \A i \in ToSet(s) : f[i] = g[i]
  BY <1>2, <1>3 DEF KeysIn, SameRows
<1>5. Ascending(s, g, kind, {"map"})
  BY <1>1, <1>3 DEF Ordered
<1>6. Ascending(s, f, kind, {"map"})
  BY <1>4, <1>5, SameOrder
<1> QED
  BY <1>1, <1>3, <1>6

\* d keeps what db has.
Kept(d, db, L) ==
    Good(d, L) /\ (Tidy(db) => Tidy(d)) /\ (Ordered(db) => Ordered(d))

\* What two operations keep, one after the other.
LEMMA KeptTransitive ==
    ASSUME NEW L, NEW d, NEW e, NEW f, Kept(d, e, L), Kept(e, f, L)
    PROVE  Kept(d, f, L)
  BY DEF Kept

\* A field that leaves indexes disturbs nothing else.
LEMMA LostKept ==
    ASSUME NEW L, NEW db, Good(db, L), NEW n \in Nodes, NEW X,
           db.fields[n[1]][n[2]] # NoField, NEW d \in Databases, Lost(d, db, n, X)
    PROVE  Kept(d, db, L)
<1>1. Good(d, L)
  BY LostGood
<1>2. Tidy(db) => Tidy(d)
  BY LostTidy
<1>3. Ordered(db) => Ordered(d)
  BY OrderedKept DEF Good, Lost
<1> QED
  BY <1>1, <1>2, <1>3 DEF Kept

\* The indexes of d have less than those of db.
Fewer(d, db) ==
    \A T \in Tables, c \in Columns : ToSet(d.index[T][c]) \subseteq ToSet(db.index[T][c])

\* Index::remove takes one field out of one index.
LEMMA RemoveKept ==
    ASSUME NEW L, NEW db, Good(db, L), NEW T \in Tables, NEW c \in Columns,
           NEW r \in Rows, NEW i \in Slots, db.fields[r][i] # NoField,
           NEW d, d = remove(db, T, c, <<r, i>>)
    PROVE  /\ Kept(d, db, L) /\ SameRows(d, db)
           /\ PointersAre(d, db, <<r, i>>, db.fields[r][i].indexed_at \ {<<T, c>>})
           /\ Fewer(d, db)
<1>0. PICK n \in Nodes : n = <<r, i>> /\ n[1] = r /\ n[2] = i
  BY IsNode
<1>1. db \in Databases
  BY DEF Good
<1>2. db.fields[r][i] \in Field /\ db.fields[r][i].indexed_at \in SUBSET Places
  BY <1>1, IsField
<1>3. PICK at \in SUBSET Places : at = db.fields[r][i].indexed_at \ {<<T, c>>}
  BY <1>2
<1>4. CASE <<T, c>> \in db.fields[r][i].indexed_at
  <2>1. PICK s \in Seq(Nodes) : s = db.index[T][c]
    BY <1>1, InIndex
  <2>2. PICK t \in Seq(Nodes) : t = RemoveFirst(s, n)
    BY RemovedFirst
  <2>3. PICK e : IndexPut(e, db, T, c, t)
    BY DEF IndexPut
  <2>4. PointersPut(d, e, r, i, at)
    <3>1. e = Erase(db, T, c, n)
      BY <1>1, <2>1, <2>2, <2>3 DEF Erase, IndexPut, Databases
    <3>2. d = [e EXCEPT !.fields[r][i].indexed_at = @ \ {<<T, c>>}]
      BY <1>0, <1>4, <3>1 DEF remove
    <3>3. e.fields = db.fields
      BY <1>1, <2>3 DEF IndexPut, Databases
    <3> QED
      BY <1>3, <3>2, <3>3 DEF PointersPut
  <2>5. /\ d \in Databases /\ SameRows(d, db) /\ IndexIs(d, db, T, c, t)
        /\ PointersAre(d, db, <<r, i>>, at)
    BY <1>1, <2>3, <2>4, BothChanged
  <2>6. PICK X : X = {<<T, c>>}
    OBVIOUS
  <2>7. \A U \in Tables, e2 \in Columns :
           d.index[U][e2] = IF <<U, e2>> \in X THEN RemoveFirst(db.index[U][e2], n)
                            ELSE db.index[U][e2]
    BY <2>1, <2>2, <2>5, <2>6 DEF IndexIs
  <2>8. Lost(d, db, n, X)
    BY <1>0, <1>3, <2>5, <2>6, <2>7 DEF Lost
  <2>9. Kept(d, db, L)
    BY <1>0, <2>5, <2>8, LostKept
  <2>10. ASSUME NEW U \in Tables, NEW b \in Columns
         PROVE  ToSet(d.index[U][b]) \subseteq ToSet(db.index[U][b])
    <3>1. PICK u \in Seq(Nodes) : u = db.index[U][b]
      BY <1>1, InIndex
    <3>2. ToSet(RemoveFirst(u, n)) \subseteq ToSet(u)
      BY RemovedFirst
    <3> QED
      BY <2>8, <3>1, <3>2 DEF Lost
  <2> QED
    BY <1>3, <2>5, <2>9, <2>10 DEF Fewer
<1>5. CASE <<T, c>> \notin db.fields[r][i].indexed_at
  <2>1. d = db
    BY <1>0, <1>5 DEF remove
  <2>2. at = db.fields[r][i].indexed_at
    BY <1>3, <1>5
  <2>3. PointersAre(d, db, <<r, i>>, at)
    BY <1>2, <2>1, <2>2 DEF PointersAre, Field
  <2>4. SameRows(d, db) /\ Kept(d, db, L)
    BY <2>1 DEF SameRows, Kept
  <2> QED
    BY <1>3, <2>1, <2>3, <2>4 DEF Fewer
<1> QED
  BY <1>4, <1>5

-----------------------------------------------------------------------------
(* ~Field: out of every index it knows of *)

Unlinking == INSTANCE Folding WITH Op <- LAMBDA n, b, c, x, d : Erase(d, x[1], x[2], n)

UnlinkLoop(db, n, at) ==
    LET step(x, d) == Erase(d, x[1], x[2], n) IN FoldSet(step, db, at)

\* The loop over the places of a field, as a fold to which the rules apply.
LEMMA UnlinkIsFold ==
    ASSUME NEW db, NEW n, NEW at
    PROVE  UnlinkLoop(db, n, at) = Unlinking!SetFold(n, 0, 0, db, at)
  BY DEF UnlinkLoop, FoldSet, MapThenFoldSet, Unlinking!SetFold, Unlinking!Any

\* d is db without n in the indexes of X; the field still thinks it is there.
OutOf(d, db, n, X) ==
    /\ d \in Databases /\ SameRows(d, db) /\ d.fields = db.fields
    /\ \A U \in Tables, e \in Columns :
          d.index[U][e] = IF <<U, e>> \in X THEN RemoveFirst(db.index[U][e], n)
                          ELSE db.index[U][e]

\* One round of it: the field is out of one index more.
LEMMA EraseStep ==
    ASSUME NEW db \in Databases, NEW n \in Nodes, NEW X, NEW x \in X, x \in Places,
           NEW d, OutOf(d, db, n, X \ {x})
    PROVE  OutOf(Erase(d, x[1], x[2], n), db, n, X)
<1>1. PICK T \in Tables, c \in Columns : x = <<T, c>> /\ x[1] = T /\ x[2] = c
  BY DEF Places
<1>2. d \in Databases /\ SameRows(d, db) /\ d.fields = db.fields
  BY DEF OutOf
<1>3. PICK s \in Seq(Nodes) : s = d.index[T][c] /\ s = db.index[T][c]
  <2>1. d.index[T][c] = db.index[T][c]
    BY <1>1 DEF OutOf
  <2> QED
    BY <1>2, <2>1, InIndex
<1>4. PICK t \in Seq(Nodes) : t = RemoveFirst(s, n)
  BY RemovedFirst
<1>5. PICK e : IndexPut(e, d, T, c, t) /\ e = Erase(d, T, c, n)
  BY <1>2, <1>3, <1>4 DEF IndexPut, Erase, Databases
<1>6. e \in Databases /\ e.fields = d.fields /\ SameRows(e, d) /\ IndexIs(e, d, T, c, t)
  BY <1>2, <1>5, IndexChanged
<1>7. SameRows(e, db) /\ e.fields = db.fields
  BY <1>2, <1>6, SameRowsTransitive
<1>8. ASSUME NEW U \in Tables, NEW f \in Columns
      PROVE  e.index[U][f] = IF <<U, f>> \in X THEN RemoveFirst(db.index[U][f], n)
                             ELSE db.index[U][f]
  <2>1. CASE U = T /\ f = c
    BY <1>1, <1>3, <1>4, <1>6, <2>1 DEF IndexIs
  <2>2. CASE ~(U = T /\ f = c)
    <3>1. <<U, f>> \in X \ {x} <=> <<U, f>> \in X
      BY <1>1, <2>2
    <3>2. e.index[U][f] = d.index[U][f]
      BY <1>6, <2>2 DEF IndexIs
    <3> QED
      BY <3>1, <3>2 DEF OutOf
  <2> QED
    BY <2>1, <2>2
<1> QED
  BY <1>1, <1>5, <1>6, <1>7, <1>8 DEF OutOf

\* All of it: the field is out of each index it knows.
LEMMA UnlinkLoopOut ==
    ASSUME NEW db \in Databases, NEW n \in Nodes, NEW at \in SUBSET Places
    PROVE  OutOf(UnlinkLoop(db, n, at), db, n, at)
<1> DEFINE D == [s \in SUBSET at |-> {d \in Databases : OutOf(d, db, n, s)}]
<1>1. IsFiniteSet(at)
  <2>1. IsFiniteSet(Tables) /\ IsFiniteSet(Columns)
    BY TableAssumption, FS_Subset
  <2> QED
    BY <2>1, FS_Product, FS_Subset DEF Places
<1>2. db \in D[{}]
  BY DEF OutOf, SameRows
<1>3. ASSUME NEW s \in SUBSET at, NEW x \in s, NEW d \in D[s \ {x}]
      PROVE  Erase(d, x[1], x[2], n) \in D[s]
  <2>1. OutOf(d, db, n, s \ {x})
    BY <1>3
  <2>2. OutOf(Erase(d, x[1], x[2], n), db, n, s)
    BY <2>1, EraseStep
  <2> QED
    BY <2>2 DEF OutOf
<1>4. PICK E : E = D
  OBVIOUS
<1>5. db \in E[{}] /\ \A s \in SUBSET at : \A x \in s : \A d \in E[s \ {x}] :
                         Erase(d, x[1], x[2], n) \in E[s]
  BY <1>2, <1>3, <1>4
<1>6. Unlinking!SetFold(n, 0, 0, db, at) \in E[at]
  <2>1. Unlinking!IsFiniteSet(at)
    BY <1>1 DEF IsFiniteSet, Unlinking!IsFiniteSet
  <2> QED
    BY <1>5, <2>1, Unlinking!SetFoldRule
<1>7. UnlinkLoop(db, n, at) \in D[at]
  BY <1>4, <1>6, UnlinkIsFold
<1> QED
  BY <1>7

\* IndexedField::unlinkFromIndexes leaves the field in no index.
LEMMA UnlinkKept ==
    ASSUME NEW L, NEW db, Good(db, L), NEW r \in Rows, NEW i \in Slots,
           db.fields[r][i] # NoField, NEW d, d = unlinkFromIndexes(db, <<r, i>>)
    PROVE  Kept(d, db, L) /\ SameRows(d, db) /\ PointersAre(d, db, <<r, i>>, {})
<1>0. PICK n \in Nodes : n = <<r, i>> /\ n[1] = r /\ n[2] = i
  BY IsNode
<1>1. db \in Databases
  BY DEF Good
<1>2. PICK at \in SUBSET Places : at = db.fields[r][i].indexed_at
  BY <1>1, IsField
<1>3. PICK e : e = UnlinkLoop(db, n, at)
  OBVIOUS
<1>4. OutOf(e, db, n, at)
  BY <1>1, <1>3, UnlinkLoopOut
<1>5. e \in Databases /\ SameRows(e, db) /\ e.fields = db.fields
      /\ \A U \in Tables, f \in Columns :
            e.index[U][f] = IF <<U, f>> \in at THEN RemoveFirst(db.index[U][f], n)
                            ELSE db.index[U][f]
  BY <1>4 DEF OutOf
<1>6. PICK none \in SUBSET Places : none = {}
  OBVIOUS
<1>7. PointersPut(d, e, r, i, none)
  <2>1. d = [UnlinkLoop(db, n, at) EXCEPT !.fields[r][i].indexed_at = {}]
    <3>1. unlinkFromIndexes(db, n) =
             [UnlinkLoop(db, n, db.fields[n[1]][n[2]].indexed_at) EXCEPT
                 !.fields[n[1]][n[2]].indexed_at = {}]
      BY DEF unlinkFromIndexes, UnlinkLoop
    <3>2. d = unlinkFromIndexes(db, n)
      BY <1>0
    <3>3. UnlinkLoop(db, n, at) = UnlinkLoop(db, n, db.fields[n[1]][n[2]].indexed_at)
      BY <1>0, <1>2
    <3> QED
      BY <1>0, <3>1, <3>2, <3>3
  <2> QED
    BY <1>3, <1>6, <2>1 DEF PointersPut
<1>8. /\ d \in Databases /\ d.index = e.index /\ SameRows(d, e)
      /\ PointersAre(d, e, <<r, i>>, none)
  BY <1>5, <1>7, PointersChanged
<1>9. SameRows(d, db)
  BY <1>5, <1>8, SameRowsTransitive
<1>10. PointersAre(d, db, n, none)
  BY <1>0, <1>5, <1>8 DEF PointersAre
<1>11. Lost(d, db, n, at)
  <2>1. none = db.fields[n[1]][n[2]].indexed_at \ at
    BY <1>0, <1>2, <1>6
  <2> QED
    BY <1>5, <1>8, <1>9, <1>10, <2>1 DEF Lost
<1>12. Kept(d, db, L)
  BY <1>0, <1>8, <1>11, LostKept
<1> QED
  BY <1>0, <1>6, <1>9, <1>10, <1>12

-----------------------------------------------------------------------------
(* A field of a map, and the order of its fields *)

FieldPut(d, db, r, i, f, s) == d = [db EXCEPT !.fields[r][i] = f, !.order[r] = s]

FieldIs(d, db, r, i, f, s) ==
    /\ d.rows = db.rows /\ d.index = db.index
    /\ d.table_list = db.table_list /\ d.held = db.held
    /\ \A q \in Rows, j \in Slots :
          d.fields[q][j] = IF q = r /\ j = i THEN f ELSE db.fields[q][j]
    /\ \A q \in Rows : d.order[q] = IF q = r THEN s ELSE db.order[q]

\* What changes with a field and the order of its map.
LEMMA FieldChanged ==
    ASSUME NEW db \in Databases, NEW r \in Rows, NEW i \in Slots,
           NEW f \in Field \cup {NoField}, NEW s \in Seq(Slots),
           NEW d, FieldPut(d, db, r, i, f, s)
    PROVE  d \in Databases /\ FieldIs(d, db, r, i, f, s)
<1>1. /\ d.rows = db.rows /\ d.index = db.index
      /\ d.table_list = db.table_list /\ d.held = db.held
      /\ d.fields = [db.fields EXCEPT ![r][i] = f] /\ d.order = [db.order EXCEPT ![r] = s]
  BY DEF FieldPut, Databases
<1>2. d.fields \in [Rows -> [Slots -> Field \cup {NoField}]]
  BY <1>1 DEF Databases
<1>3. d.order \in [Rows -> Seq(Slots)]
  BY <1>1 DEF Databases
<1>4. d \in Databases
  BY <1>1, <1>2, <1>3 DEF FieldPut, Databases
<1>5. \A q \in Rows, j \in Slots :
         d.fields[q][j] = IF q = r /\ j = i THEN f ELSE db.fields[q][j]
  BY <1>1 DEF Databases
<1>6. \A q \in Rows : d.order[q] = IF q = r THEN s ELSE db.order[q]
  BY <1>1 DEF Databases
<1> QED
  BY <1>1, <1>4, <1>5, <1>6 DEF FieldIs

\* A field is written, put or taken away, with the places it has or with none.
LEMMA FieldGood ==
    ASSUME NEW L, NEW db, Good(db, L), NEW r \in Rows, NEW i \in Slots,
           NEW f \in Field \cup {NoField}, NEW s \in Seq(Slots),
           NEW d \in Databases, FieldIs(d, db, r, i, f, s),
           f # NoField => \/ f.indexed_at = {}
                          \/ /\ db.fields[r][i] # NoField
                             /\ f.indexed_at = db.fields[r][i].indexed_at
                             /\ f.key = db.fields[r][i].key,
           IsInjective(s),
           f = NoField => ToSet(s) = UsedSlots(db, r) \ {i},
           f # NoField => ToSet(s) = UsedSlots(db, r) \cup {i}
    PROVE  Good(d, L)
<1>1. db \in Databases /\ PointersTrue(db, L) /\ OrdersExact(db)
  BY DEF Good
<1>2. PointersTrue(d, L)
  <2> SUFFICES ASSUME NEW q \in Rows, NEW j \in Slots, d.fields[q][j] # NoField,
                      NEW x \in d.fields[q][j].indexed_at
               PROVE  /\ x[1] \in L /\ x[2] = d.fields[q][j].key
                      /\ <<q, j>> \in ToSet(d.index[x[1]][x[2]])
    BY DEF PointersTrue
  <2>1. /\ db.fields[q][j] # NoField /\ d.fields[q][j].key = db.fields[q][j].key
        /\ x \in db.fields[q][j].indexed_at
    BY DEF FieldIs
  <2>2. /\ x[1] \in L /\ x[2] = db.fields[q][j].key
        /\ <<q, j>> \in ToSet(db.index[x[1]][x[2]])
    BY <1>1, <2>1 DEF PointersTrue
  <2>3. d.index = db.index
    BY DEF FieldIs
  <2> QED
    BY <2>1, <2>2, <2>3
<1>3. ASSUME NEW q \in Rows
      PROVE  ToSet(d.order[q]) = UsedSlots(d, q) /\ IsInjective(d.order[q])
  <2>1. CASE q = r
    <3>1. d.order[q] = s
      BY <2>1 DEF FieldIs
    <3>2. f = NoField => UsedSlots(d, q) = UsedSlots(db, r) \ {i}
      BY <2>1 DEF FieldIs, UsedSlots
    <3>3. f # NoField => UsedSlots(d, q) = UsedSlots(db, r) \cup {i}
      BY <2>1 DEF FieldIs, UsedSlots
    <3> QED
      BY <3>1, <3>2, <3>3
  <2>2. CASE q # r
    <3>1. d.order[q] = db.order[q] /\ UsedSlots(d, q) = UsedSlots(db, q)
      BY <2>2 DEF FieldIs, UsedSlots
    <3> QED
      BY <1>1, <3>1 DEF OrdersExact
  <2> QED
    BY <2>1, <2>2
<1> QED
  BY <1>2, <1>3 DEF Good, OrdersExact

\* A field that is in no index changes nothing for the indexes.
LEMMA FieldTidy ==
    ASSUME NEW db \in Databases, NEW r \in Rows, NEW i \in Slots, NEW f, NEW s,
           NEW d \in Databases, FieldIs(d, db, r, i, f, s), Tidy(db),
           \A T \in Tables, c \in Columns : <<r, i>> \notin ToSet(db.index[T][c])
    PROVE  Tidy(d)
<1>1. Known(db) /\ Sorted(db) /\ d.index = db.index
  BY DEF Tidy, FieldIs
<1>2. ASSUME NEW T \in Tables, NEW c \in Columns, NEW n \in ToSet(db.index[T][c])
      PROVE  /\ n \in Nodes /\ d.fields[n[1]][n[2]] = db.fields[n[1]][n[2]]
             /\ ValueAt(d, n) = ValueAt(db, n) /\ ValuesOf(d)[n] = ValuesOf(db)[n]
  <2>1. n \in Nodes /\ n[1] \in Rows /\ n[2] \in Slots /\ n = <<n[1], n[2]>>
    BY InIndex DEF Nodes
  <2>2. d.fields[n[1]][n[2]] = db.fields[n[1]][n[2]]
    BY <1>2, <2>1 DEF FieldIs
  <2>3. ValueAt(d, n) = ValueAt(db, n)
    BY <2>2 DEF ValueAt
  <2> QED
    BY <2>1, <2>2, <2>3 DEF ValuesOf
<1>3. Known(d)
  BY <1>1, <1>2 DEF Known
<1>4. Sorted(d)
  <2> SUFFICES ASSUME NEW T \in Tables, NEW c \in Columns
               PROVE  /\ \A n \in ToSet(d.index[T][c]) : ValueAt(d, n) \in Values
                      /\ Ascending(d.index[T][c], ValuesOf(d), c, UniqueColumns)
    BY DEF Sorted
  <2>1. PICK u \in Seq(Nodes) : u = d.index[T][c] /\ u = db.index[T][c]
    BY <1>1, InIndex
  <2>2. PICK g, h : g = ValuesOf(d) /\ h = ValuesOf(db)
    OBVIOUS
  <2>3. Ascending(u, h, c, UniqueColumns)
    BY <1>1, <2>1, <2>2 DEF Sorted
  <2>4. \A n \in ToSet(u) : g[n] = h[n]
    BY <1>2, <2>1, <2>2
  <2>5. Ascending(u, g, c, UniqueColumns)
    BY <2>3, <2>4, SameOrder
  <2>6. \A n \in ToSet(d.index[T][c]) : ValueAt(d, n) \in Values
    BY <1>1, <1>2 DEF Sorted
  <2> QED
    BY <2>1, <2>2, <2>5, <2>6
<1> QED
  BY <1>3, <1>4 DEF Tidy

\* A map is in order when its own sequence is.
LEMMA FieldOrdered ==
    ASSUME NEW db \in Databases, NEW r \in Rows, NEW i \in Slots, NEW f, NEW s,
           NEW d \in Databases, FieldIs(d, db, r, i, f, s), Ordered(db),
           Ascending(s, KeysIn(d, r), kind, {"map"})
    PROVE  Ordered(d)
<1> SUFFICES ASSUME NEW q \in Rows
             PROVE  Ascending(d.order[q], KeysIn(d, q), kind, {"map"})
  BY DEF Ordered
<1>1. CASE q = r
  BY <1>1 DEF FieldIs
<1>2. CASE q # r
  <2>1. d.order[q] = db.order[q] /\ KeysIn(d, q) = KeysIn(db, q)
    BY <1>2 DEF FieldIs, KeysIn
  <2> QED
    BY <2>1 DEF Ordered
<1> QED
  BY <1>1, <1>2

\* Nothing but the fields of map r has changed, and what they are in.
OnlyMap(d, db, r) ==
    /\ d.rows = db.rows /\ d.table_list = db.table_list /\ d.held = db.held
    /\ \A q \in Rows : q # r => /\ d.order[q] = db.order[q]
                                /\ \A j \in Slots : d.fields[q][j] = db.fields[q][j]

\* Two operations on one map, one after the other.
LEMMA OnlyMapTransitive ==
    ASSUME NEW d, NEW e, NEW f, NEW r, OnlyMap(d, e, r), OnlyMap(e, f, r)
    PROVE  OnlyMap(d, f, r)
  BY DEF OnlyMap

\* Fields know of places they knew of, and of places in the tables of their map.
PointersFrom(d, db) ==
    \A q \in Rows : \A j \in UsedSlots(d, q) : \A x \in d.fields[q][j].indexed_at :
        \/ j \in UsedSlots(db, q) /\ x \in db.fields[q][j].indexed_at
        \/ x[1] \in db.table_list[q]

\* An operation on one map that gives fields no new places.
LEMMA PointersFromMap ==
    ASSUME NEW d, NEW db, NEW r, OnlyMap(d, db, r),
           \A j \in UsedSlots(d, r) :
               \/ d.fields[r][j].indexed_at = {}
               \/ j \in UsedSlots(db, r) /\ d.fields[r][j] = db.fields[r][j]
    PROVE  PointersFrom(d, db)
<1>1. ASSUME NEW q \in Rows, q # r PROVE UsedSlots(d, q) = UsedSlots(db, q)
  BY <1>1 DEF OnlyMap, UsedSlots
<1>2. \A q \in Rows : q # r => \A j \in UsedSlots(d, q) : d.fields[q][j] = db.fields[q][j]
  BY DEF OnlyMap, UsedSlots
<1> QED
  BY <1>1, <1>2 DEF PointersFrom

\* Fields, their orders and the indexes are as before.
LEMMA BooksKept ==
    ASSUME NEW L, NEW db, Good(db, L), NEW d \in Databases,
           d.index = db.index, d.fields = db.fields, d.order = db.order
    PROVE  Kept(d, db, L)
<1>1. PointersTrue(d, L)
  BY DEF Good, PointersTrue
<1>2. OrdersExact(d)
  BY DEF Good, OrdersExact, UsedSlots
<1>3. ValuesOf(d) = ValuesOf(db) /\ \A n : ValueAt(d, n) = ValueAt(db, n)
  BY DEF ValuesOf, ValueAt
<1>4. Known(db) => Known(d)
  BY DEF Known
<1>5. Sorted(db) => Sorted(d)
  BY <1>3 DEF Sorted
<1>6. ASSUME Ordered(db) PROVE Ordered(d)
  <2>1. \A r \in Rows : KeysIn(d, r) = KeysIn(db, r)
    BY DEF KeysIn
  <2> QED
    BY <1>6, <2>1 DEF Ordered
<1> QED
  BY <1>1, <1>2, <1>4, <1>5, <1>6 DEF Kept, Good, Tidy

\* ~Field: the field is out of its indexes and out of its map.
LEMMA RemoveFieldKept ==
    ASSUME NEW L, NEW db, Good(db, L), NEW r \in Rows, NEW i \in Slots,
           db.fields[r][i] # NoField, NEW d, d = RemoveField(db, r, i)
    PROVE  /\ Kept(d, db, L) /\ OnlyMap(d, db, r)
           /\ \A j \in Slots : d.fields[r][j] = IF j = i THEN NoField ELSE db.fields[r][j]
<1>1. PICK e : e = unlinkFromIndexes(db, <<r, i>>)
  OBVIOUS
<1>2. Kept(e, db, L) /\ SameRows(e, db) /\ PointersAre(e, db, <<r, i>>, {})
  BY <1>1, UnlinkKept
<1>3. db \in Databases /\ e \in Databases /\ Good(e, L) /\ OrdersExact(e)
  BY <1>2 DEF Good, Kept
<1>4. PICK s \in Seq(Slots) : s = e.order[r]
  BY <1>3 DEF Databases
<1>5. PICK t \in Seq(Slots) : t = RemoveFirst(s, i)
  BY RemovedFirst
<1>6. PICK f \in Field \cup {NoField} : f = NoField
  OBVIOUS
<1>7. FieldPut(d, e, r, i, f, t)
  <2>1. d = [e EXCEPT !.fields[r][i] = NoField, !.order[r] = RemoveFirst(@, i)]
    BY <1>1 DEF RemoveField
  <2> QED
    BY <1>3, <1>4, <1>5, <1>6, <2>1 DEF FieldPut, Databases
<1>8. d \in Databases /\ FieldIs(d, e, r, i, f, t)
  BY <1>3, <1>7, FieldChanged
<1>9. /\ IsInjective(s) /\ ToSet(s) = UsedSlots(e, r)
      /\ IsInjective(t) /\ ToSet(t) = UsedSlots(e, r) \ {i}
  <2>1. IsInjective(s) /\ ToSet(s) = UsedSlots(e, r)
    BY <1>3, <1>4 DEF OrdersExact
  <2>2. /\ IsInjective(t) /\ i \notin ToSet(t)
        /\ ToSet(t) \subseteq ToSet(s) /\ ToSet(s) \ {i} \subseteq ToSet(t)
    BY <1>5, <2>1, RemovedFirst
  <2> QED
    BY <2>1, <2>2
<1>10. Good(d, L)
  BY <1>3, <1>6, <1>8, <1>9, FieldGood
<1>11. ASSUME Tidy(e) PROVE Tidy(d)
  <2>1. \A T \in Tables, c \in Columns : <<r, i>> \notin ToSet(e.index[T][c])
    <3> SUFFICES ASSUME NEW T \in Tables, NEW c \in Columns,
                        <<r, i>> \in ToSet(e.index[T][c])
                 PROVE  FALSE
      OBVIOUS
    <3>0. PICK n \in Nodes : n = <<r, i>> /\ n[1] = r /\ n[2] = i
      BY IsNode
    <3>1. <<T, c>> \in e.fields[n[1]][n[2]].indexed_at
      BY <1>11, <3>0 DEF Tidy, Known
    <3>2. db.fields[r][i] \in Field
      BY <1>3, IsField
    <3>3. e.fields[r][i] = [db.fields[r][i] EXCEPT !.indexed_at = {}]
      BY <1>2 DEF PointersAre
    <3>4. e.fields[r][i].indexed_at = {}
      BY <3>2, <3>3 DEF Field
    <3> QED
      BY <3>0, <3>1, <3>4
  <2> QED
    BY <1>3, <1>8, <1>11, <2>1, FieldTidy
<1>12. ASSUME Ordered(e) PROVE Ordered(d)
  <2>1. PICK g, h : g = KeysIn(e, r) /\ h = KeysIn(d, r)
    OBVIOUS
  <2>2. Ascending(s, g, kind, {"map"})
    BY <1>4, <1>12, <2>1 DEF Ordered
  <2>3. Ascending(t, g, kind, {"map"})
    BY <1>5, <2>2, RemovedAscending
  <2>4. \A j \in ToSet(t) : h[j] = g[j]
    <3>1. \A j \in ToSet(t) : j \in Slots /\ j # i
      BY <1>9 DEF UsedSlots
    <3> QED
      BY <1>8, <2>1, <3>1 DEF FieldIs, KeysIn
  <2>5. Ascending(t, h, kind, {"map"})
    BY <2>3, <2>4, SameOrder
  <2> QED
    BY <1>3, <1>8, <1>12, <2>1, <2>5, FieldOrdered
<1>13. Kept(d, e, L)
  BY <1>10, <1>11, <1>12 DEF Kept
<1>14. \A q \in Rows, j \in Slots :
          d.fields[q][j] = IF q = r /\ j = i THEN NoField ELSE db.fields[q][j]
  <2> TAKE q \in Rows, j \in Slots
  <2>1. CASE q = r /\ j = i
    BY <1>6, <1>8, <2>1 DEF FieldIs
  <2>2. CASE ~(q = r /\ j = i)
    <3>1. e.fields[q][j] = db.fields[q][j]
      BY <1>2, <2>2 DEF PointersAre
    <3>2. d.fields[q][j] = e.fields[q][j]
      BY <1>8, <2>2 DEF FieldIs
    <3> QED
      BY <2>2, <3>1, <3>2
  <2> QED
    BY <2>1, <2>2
<1>15. OnlyMap(d, db, r)
  BY <1>2, <1>8, <1>14 DEF OnlyMap, FieldIs, SameRows
<1> QED
  BY <1>2, <1>13, <1>14, <1>15, KeptTransitive

-----------------------------------------------------------------------------
(* ~Map, and clear of it: field by field *)

Removing == INSTANCE Folding WITH Op <- LAMBDA r, b, c, i, d : RemoveField(d, r, i)

\* The loop over fields of a map, as a fold to which the rules apply.
LEMMA RemoveFieldsIsFold ==
    ASSUME NEW db, NEW r, NEW S
    PROVE  RemoveFields(db, r, S) = Removing!SetFold(r, 0, 0, db, S)
  BY DEF RemoveFields, FoldSet, MapThenFoldSet, Removing!SetFold, Removing!Any

\* d is db without the fields S of map r.
Without(d, db, L, r, S) ==
    /\ Kept(d, db, L) /\ OnlyMap(d, db, r)
    /\ \A j \in Slots : d.fields[r][j] = IF j \in S THEN NoField ELSE db.fields[r][j]

\* All of the fields S are gone, and nothing else is.
LEMMA RemoveFieldsKept ==
    ASSUME NEW L, NEW db, Good(db, L), NEW r \in Rows, NEW S \in SUBSET UsedSlots(db, r)
    PROVE  Without(RemoveFields(db, r, S), db, L, r, S)
<1> DEFINE D == [s \in SUBSET S |-> {d \in Databases : Without(d, db, L, r, s)}]
<1>0. S \subseteq Slots /\ \A i \in S : db.fields[r][i] # NoField
  BY DEF UsedSlots
<1>1. IsFiniteSet(S)
  BY <1>0, TableAssumption, FS_Subset
<1>2. db \in D[{}]
  BY DEF Without, Good, Kept, OnlyMap
<1>3. ASSUME NEW s \in SUBSET S, NEW i \in s, NEW d \in D[s \ {i}]
      PROVE  RemoveField(d, r, i) \in D[s]
  <2>1. Without(d, db, L, r, s \ {i}) /\ i \in Slots /\ db.fields[r][i] # NoField
    BY <1>0, <1>3
  <2>2. Kept(d, db, L) /\ Good(d, L) /\ OnlyMap(d, db, r) /\ d.fields[r][i] # NoField
    BY <2>1 DEF Without, Kept
  <2>3. PICK e : e = RemoveField(d, r, i)
    OBVIOUS
  <2>4. /\ Kept(e, d, L) /\ OnlyMap(e, d, r)
        /\ \A j \in Slots : e.fields[r][j] = IF j = i THEN NoField ELSE d.fields[r][j]
    BY <2>1, <2>2, <2>3, RemoveFieldKept
  <2>5. Kept(e, db, L) /\ OnlyMap(e, db, r)
    BY <2>2, <2>4, KeptTransitive, OnlyMapTransitive
  <2>6. \A j \in Slots : e.fields[r][j] = IF j \in s THEN NoField ELSE db.fields[r][j]
    BY <1>3, <2>1, <2>4 DEF Without
  <2>7. Without(e, db, L, r, s)
    BY <2>5, <2>6 DEF Without
  <2> QED
    BY <2>3, <2>7 DEF Without, Kept, Good
<1>4. PICK E : E = D
  OBVIOUS
<1>5. db \in E[{}] /\ \A s \in SUBSET S : \A i \in s : \A d \in E[s \ {i}] :
                         RemoveField(d, r, i) \in E[s]
  BY <1>2, <1>3, <1>4
<1>6. Removing!SetFold(r, 0, 0, db, S) \in E[S]
  <2>1. Removing!IsFiniteSet(S)
    BY <1>1 DEF IsFiniteSet, Removing!IsFiniteSet
  <2> QED
    BY <1>5, <2>1, Removing!SetFoldRule
<1>7. RemoveFields(db, r, S) \in D[S]
  BY <1>4, <1>6, RemoveFieldsIsFold
<1> QED
  BY <1>7

\* d is db without the maps S.
Freed(d, db, L, S) ==
    /\ Kept(d, db, L) /\ d.rows = db.rows /\ d.held = db.held
    /\ \A q \in Rows :
          IF q \in S THEN d.order[q] = <<>> /\ d.table_list[q] = {}
          ELSE /\ d.order[q] = db.order[q] /\ d.table_list[q] = db.table_list[q]
               /\ \A j \in Slots : d.fields[q][j] = db.fields[q][j]

\* A map without fields has nothing to iterate over.
LEMMA NoneLeft ==
    ASSUME NEW L, NEW d, Good(d, L), NEW r \in Rows,
           \A j \in Slots : d.fields[r][j] = NoField
    PROVE  d.order[r] = <<>>
<1>1. PICK s \in Seq(Slots) : s = d.order[r]
  BY DEF Good, Databases
<1>2. ToSet(s) = {}
  BY <1>1 DEF Good, OrdersExact, UsedSlots
<1>3. Len(s) = 0
  <2>1. \A j \in 1 .. Len(s) : s[j] \in ToSet(s)
    BY DEF ToSet
  <2>2. Len(s) \in Nat
    OBVIOUS
  <2>3. Len(s) # 0 => 1 \in 1 .. Len(s)
    BY <2>2
  <2> QED
    BY <1>2, <2>1, <2>3
<1> QED
  BY <1>1, <1>3

\* A map that is destroyed leaves nothing behind in any index.
LEMMA DestroyMapFreed ==
    ASSUME NEW L, NEW db, Good(db, L), NEW r \in Rows
    PROVE  Freed(DestroyMap(db, r), db, L, {r})
<1>1. PICK S \in SUBSET UsedSlots(db, r) : S = UsedSlots(db, r)
  OBVIOUS
<1>2. PICK e : e = RemoveFields(db, r, S)
  OBVIOUS
<1>3. Without(e, db, L, r, S)
  BY <1>1, <1>2, RemoveFieldsKept
<1>4. Kept(e, db, L) /\ Good(e, L) /\ e \in Databases /\ OnlyMap(e, db, r)
  BY <1>3 DEF Without, Kept, Good
<1>5. \A j \in Slots : e.fields[r][j] = NoField
  BY <1>1, <1>3 DEF Without, UsedSlots
<1>6. e.order[r] = <<>>
  BY <1>4, <1>5, NoneLeft
<1>7. PICK d : d = DestroyMap(db, r)
  OBVIOUS
<1>8. d = [e EXCEPT !.table_list[r] = {}]
  BY <1>1, <1>2, <1>7 DEF DestroyMap
<1>9. /\ d.index = e.index /\ d.fields = e.fields /\ d.order = e.order
      /\ d.rows = e.rows /\ d.held = e.held
      /\ d.table_list = [e.table_list EXCEPT ![r] = {}]
      /\ d \in Databases
  BY <1>4, <1>8 DEF Databases
<1>10. Kept(d, db, L)
  BY <1>4, <1>9, BooksKept, KeptTransitive
<1>11. \A q \in Rows : d.table_list[q] = IF q = r THEN {} ELSE e.table_list[q]
  BY <1>4, <1>9 DEF Databases
<1>12. Freed(d, db, L, {r})
  BY <1>4, <1>6, <1>9, <1>10, <1>11 DEF Freed, OnlyMap
<1> QED
  BY <1>7, <1>12

Releasing == INSTANCE Folding WITH Op <- LAMBDA a, b, c, r, d : DestroyMap(d, r)

\* The maps that nobody has any more.
Orphans(db) == {r \in Rows \ Alive(db) : db.order[r] # <<>> \/ db.table_list[r] # {}}

\* The maps nobody has are destroyed one by one.
LEMMA ReleasedIsFold ==
    ASSUME NEW db
    PROVE  Released(db) = Releasing!SetFold(0, 0, 0, db, Orphans(db))
  BY DEF Released, Orphans, FoldSet, MapThenFoldSet, Releasing!SetFold, Releasing!Any

\* One map more is destroyed.
LEMMA FreedOneMore ==
    ASSUME NEW L, NEW S, NEW r \in S, NEW db, NEW d, NEW e,
           Freed(d, db, L, S \ {r}), Freed(e, d, L, {r})
    PROVE  Freed(e, db, L, S)
<1>1. Kept(e, db, L) /\ e.rows = db.rows /\ e.held = db.held
  BY KeptTransitive DEF Freed
<1>2. ASSUME NEW q \in Rows
      PROVE  IF q \in S THEN e.order[q] = <<>> /\ e.table_list[q] = {}
             ELSE /\ e.order[q] = db.order[q] /\ e.table_list[q] = db.table_list[q]
                  /\ \A j \in Slots : e.fields[q][j] = db.fields[q][j]
  <2>1. CASE q = r
    BY <2>1 DEF Freed
  <2>2. CASE q # r
    BY <2>2 DEF Freed
  <2> QED
    BY <2>1, <2>2
<1> QED
  BY <1>1, <1>2 DEF Freed

\* All of them are, and in any order.
LEMMA ReleasedFreed ==
    ASSUME NEW L, NEW db, Good(db, L)
    PROVE  Freed(Released(db), db, L, Orphans(db))
<1>0. PICK S \in SUBSET Rows : S = Orphans(db)
  BY DEF Orphans
<1> DEFINE D == [s \in SUBSET S |-> {d \in Databases : Freed(d, db, L, s)}]
<1>1. IsFiniteSet(S)
  BY TableAssumption, FS_Subset
<1>2. db \in D[{}]
  BY DEF Freed, Good, Kept
<1>3. ASSUME NEW s \in SUBSET S, NEW r \in s, NEW d \in D[s \ {r}]
      PROVE  DestroyMap(d, r) \in D[s]
  <2>1. Freed(d, db, L, s \ {r}) /\ Good(d, L) /\ r \in Rows
    BY <1>3 DEF Freed, Kept
  <2>2. PICK e : e = DestroyMap(d, r)
    OBVIOUS
  <2>3. Freed(e, d, L, {r})
    BY <2>1, <2>2, DestroyMapFreed
  <2>4. Freed(e, db, L, s)
    BY <2>1, <2>3, FreedOneMore
  <2> QED
    BY <2>2, <2>4 DEF Freed, Kept, Good
<1>4. PICK E : E = D
  OBVIOUS
<1>5. db \in E[{}] /\ \A s \in SUBSET S : \A r \in s : \A d \in E[s \ {r}] :
                         DestroyMap(d, r) \in E[s]
  BY <1>2, <1>3, <1>4
<1>6. Releasing!SetFold(0, 0, 0, db, S) \in E[S]
  <2>1. Releasing!IsFiniteSet(S)
    BY <1>1 DEF IsFiniteSet, Releasing!IsFiniteSet
  <2> QED
    BY <1>5, <2>1, Releasing!SetFoldRule
<1>7. Released(db) \in D[S]
  BY <1>0, <1>4, <1>6, ReleasedIsFold
<1> QED
  BY <1>0, <1>7

\* A map that nobody has is free to be made anew.
AllFreed(db) ==
    \A r \in Rows \ Alive(db) : db.order[r] = <<>> /\ db.table_list[r] = {}

\* What is left when the maps that nobody has any more are gone.
LEMMA ReleasedKept ==
    ASSUME NEW L, NEW db, Good(db, L), NEW d, d = Released(db)
    PROVE  /\ Kept(d, db, L) /\ d.rows = db.rows /\ d.held = db.held
           /\ Alive(d) = Alive(db) /\ AllFreed(d)
           /\ \A r \in Alive(db) \cap Rows :
                 /\ d.order[r] = db.order[r] /\ d.table_list[r] = db.table_list[r]
                 /\ \A j \in Slots : d.fields[r][j] = db.fields[r][j]
           /\ \A r \in Rows : d.table_list[r] \subseteq db.table_list[r]
<1>1. PICK S : S = Orphans(db)
  OBVIOUS
<1>2. Freed(d, db, L, S)
  BY <1>1, ReleasedFreed
<1>3. Kept(d, db, L) /\ d.rows = db.rows /\ d.held = db.held
  BY <1>2 DEF Freed
<1>4. Alive(d) = Alive(db)
  BY <1>3 DEF Alive
<1>5. AllFreed(d)
  BY <1>1, <1>2, <1>4 DEF AllFreed, Freed, Orphans
<1>6. \A r \in Alive(db) \cap Rows :
         /\ d.order[r] = db.order[r] /\ d.table_list[r] = db.table_list[r]
         /\ \A j \in Slots : d.fields[r][j] = db.fields[r][j]
  BY <1>1, <1>2 DEF Freed, Orphans
<1>7. \A r \in Rows : d.table_list[r] \subseteq db.table_list[r]
  BY <1>2 DEF Freed
<1> QED
  BY <1>3, <1>4, <1>5, <1>6, <1>7

-----------------------------------------------------------------------------
(* A field comes into its place: a new one, and one with a new key *)

\* t is s with i filed by the keys of the fields of map r.
FiledByKey(t, s, db, r, i) ==
    \E p \in 0 .. Len(s) :
       /\ Inserted(Slots, t, s, p, i)
       /\ \A j \in 1..p : db.fields[r][s[j]].key <= db.fields[r][i].key
       /\ p < Len(s) => ~(db.fields[r][s[p + 1]].key <= db.fields[r][i].key)

\* std::set::insert files a field by its key.
LEMMA InPlaceEffect ==
    ASSUME NEW db \in Databases, NEW r \in Rows, NEW i \in Slots,
           NEW s, s = RemoveFirst(db.order[r], i)
    PROVE  \E t \in Seq(Slots) : /\ InPlace(db, r, i) = [db EXCEPT !.order[r] = t]
                                 /\ FiledByKey(t, s, db, r, i)
<1>1. s \in Seq(Slots) /\ Len(s) \in Nat
  <2>1. PICK u \in Seq(Slots) : u = db.order[r]
    BY DEF Databases
  <2>2. RemoveFirst(u, i) \in Seq(Slots)
    BY <2>1, RemovedFirst
  <2> QED
    BY <2>1, <2>2
<1> DEFINE G == {j \in 1 .. Len(s) : db.fields[r][s[j]].key <= db.fields[r][i].key}
           Place(q) == /\ \A j \in 1..q : db.fields[r][s[j]].key <= db.fields[r][i].key
                       /\ q < Len(s) => ~(db.fields[r][s[q + 1]].key <= db.fields[r][i].key)
<1>2. \E q \in 0 .. Len(s) : Place(q)
  <2>1. PICK q \in 0 .. Len(s) : /\ \A j \in 1..q : j \in G
                                 /\ q < Len(s) => q + 1 \notin G
    <3> HIDE DEF G
    <3> QED
      BY <1>1, PlaceExists
  <2>2. Place(q)
    BY <1>1, <2>1
  <2> QED
    BY <2>2
<1>3. PICK p \in 0 .. Len(s) :
          /\ Place(p)
          /\ p = UpperBound(s, LAMBDA j : db.fields[r][j].key <= db.fields[r][i].key)
  BY <1>2 DEF UpperBound
<1>4. PICK t : t = InsertAt(s, p + 1, i) /\ Inserted(Slots, t, s, p, i)
  BY <1>1, InsertedAt
<1>5. t = Filed(s, i, LAMBDA j : db.fields[r][j].key <= db.fields[r][i].key)
  BY <1>3, <1>4 DEF Filed
<1>6. t \in Seq(Slots)
  BY <1>4 DEF Inserted
<1>7. InPlace(db, r, i) = [db EXCEPT !.order[r] = t]
  <2>1. InPlace(db, r, i) =
           [db EXCEPT !.order[r] =
               Filed(RemoveFirst(@, i), i,
                     LAMBDA j : db.fields[r][j].key <= db.fields[r][i].key)]
    BY DEF InPlace
  <2> QED
    BY <1>5, <2>1 DEF Databases
<1>8. FiledByKey(t, s, db, r, i)
  BY <1>3, <1>4 DEF FiledByKey
<1> QED
  BY <1>6, <1>7, <1>8

\* No other field of a map has this key.
FreshKey(db, r, i, k) ==
    kind = "map" => \A j \in UsedSlots(db, r) \ {i} : db.fields[r][j].key # k

\* Field <<r, i>> becomes f and goes to its place in the order.
Placed(d, db, r, i, f) == d = InPlace([db EXCEPT !.fields[r][i] = f], r, i)

\* A field that comes or has a new key is in its place after that.
LEMMA PlacedEffect ==
    ASSUME NEW db \in Databases, OrdersExact(db), NEW r \in Rows, NEW i \in Slots,
           NEW f \in Field, NEW d, Placed(d, db, r, i, f)
    PROVE  \E t \in Seq(Slots) :
              /\ d \in Databases /\ FieldIs(d, db, r, i, f, t)
              /\ IsInjective(t) /\ ToSet(t) = UsedSlots(db, r) \cup {i}
              /\ Ordered(db) /\ FreshKey(db, r, i, f.key)
                    => Ascending(t, KeysIn(d, r), kind, {"map"})
<1>1. PICK o \in Seq(Slots) : o = db.order[r]
  BY DEF Databases
<1>2. PICK s \in Seq(Slots) : s = RemoveFirst(o, i)
  BY RemovedFirst
<1>3. PICK e : e = [db EXCEPT !.fields[r][i] = f]
  OBVIOUS
<1>4. /\ e.order = db.order /\ e.fields = [db.fields EXCEPT ![r][i] = f]
      /\ e \in Databases
  BY <1>3 DEF Databases
<1>5. PICK t \in Seq(Slots) : /\ InPlace(e, r, i) = [e EXCEPT !.order[r] = t]
                              /\ FiledByKey(t, s, e, r, i)
  BY <1>1, <1>2, <1>4, InPlaceEffect
<1>6. FieldPut(d, db, r, i, f, t)
  BY <1>3, <1>5 DEF Placed, FieldPut
<1>7. d \in Databases /\ FieldIs(d, db, r, i, f, t)
  BY <1>6, FieldChanged
<1>8. IsInjective(o) /\ ToSet(o) = UsedSlots(db, r)
  BY <1>1 DEF OrdersExact
<1>9. /\ IsInjective(s) /\ i \notin ToSet(s)
      /\ ToSet(s) \subseteq ToSet(o) /\ ToSet(o) \ {i} \subseteq ToSet(s)
  BY <1>2, <1>8, RemovedFirst
<1>10. PICK p \in 0 .. Len(s) :
          /\ Inserted(Slots, t, s, p, i)
          /\ \A j \in 1..p : e.fields[r][s[j]].key <= e.fields[r][i].key
          /\ p < Len(s) => ~(e.fields[r][s[p + 1]].key <= e.fields[r][i].key)
  BY <1>5 DEF FiledByKey
<1>11. IsInjective(t)
  BY <1>9, <1>10, InsertedInjective
<1>12. ToSet(t) = UsedSlots(db, r) \cup {i}
  BY <1>8, <1>9, <1>10 DEF Inserted
<1>13. ASSUME Ordered(db), FreshKey(db, r, i, f.key)
       PROVE  Ascending(t, KeysIn(d, r), kind, {"map"})
  <2>1. PICK g, h : g = KeysIn(d, r) /\ h = KeysIn(db, r)
    OBVIOUS
  <2>2. \A j \in Slots : g[j] = IF j = i THEN f.key ELSE h[j]
    BY <1>7, <2>1 DEF KeysIn, FieldIs
  <2>3. \A j \in Slots : e.fields[r][j].key = g[j]
    BY <1>4, <2>1, <1>7 DEF KeysIn, FieldIs, Databases
  <2>4. Ascending(o, h, kind, {"map"})
    BY <1>1, <1>13, <2>1 DEF Ordered
  <2>5. Ascending(s, h, kind, {"map"})
    BY <1>2, <2>4, RemovedAscending
  <2>6. \A j \in ToSet(s) : j \in Slots /\ j # i /\ db.fields[r][j] # NoField
    BY <1>8, <1>9 DEF UsedSlots
  <2>7. \A j \in ToSet(s) : g[j] = h[j]
    BY <2>2, <2>6
  <2>8. Ascending(s, g, kind, {"map"})
    BY <2>5, <2>7, SameOrder
  <2>9. \A j \in 1 .. Len(s) : s[j] \in ToSet(s)
    BY DEF ToSet
  <2>10. \A j \in ToSet(s) : g[j] \in Nat
    <3>1. Keys \subseteq Nat
      BY TableAssumption
    <3>2. \A j \in ToSet(s) : db.fields[r][j].key \in Keys
      BY <2>6, IsField
    <3> QED
      BY <2>1, <2>6, <2>7, <3>1, <3>2 DEF KeysIn
  <2>11. g[i] \in Nat /\ g[i] = f.key
    BY <2>2, TableAssumption DEF Field
  <2>12. kind \in {"map"} => \A j \in 1 .. Len(s) : g[s[j]] # g[i]
    <3> SUFFICES ASSUME kind = "map", NEW j \in 1 .. Len(s) PROVE g[s[j]] # g[i]
      OBVIOUS
    <3>1. s[j] \in UsedSlots(db, r) \ {i}
      BY <1>8, <1>9, <2>9
    <3>2. db.fields[r][s[j]].key # f.key
      BY <1>13, <3>1 DEF FreshKey
    <3> QED
      BY <2>1, <2>6, <2>7, <2>9, <2>11, <3>2 DEF KeysIn
  <2>13. \A j \in 1..p : g[s[j]] <= g[i]
    BY <1>10, <2>3, <2>6, <2>9
  <2>14. p < Len(s) => ~(g[s[p + 1]] <= g[i])
    BY <1>10, <2>3, <2>6, <2>9
  <2>15. Ascending(t, g, kind, {"map"})
    BY <1>10, <2>8, <2>9, <2>10, <2>11, <2>12, <2>13, <2>14, InsertedAscending
  <2> QED
    BY <2>1, <2>15
<1> QED
  BY <1>7, <1>11, <1>12, <1>13

\* A field that no index has comes to be f, which no index has.
LEMMA PlacedKept ==
    ASSUME NEW L, NEW db, Good(db, L), NEW r \in Rows, NEW i \in Slots,
           NEW f \in Field, f.indexed_at = {}, NEW d, Placed(d, db, r, i, f),
           db.fields[r][i] # NoField => db.fields[r][i].indexed_at = {}
    PROVE  /\ Good(d, L) /\ (Tidy(db) => Tidy(d))
           /\ Ordered(db) /\ FreshKey(db, r, i, f.key) => Ordered(d)
           /\ OnlyMap(d, db, r)
           /\ \A j \in Slots : d.fields[r][j] = IF j = i THEN f ELSE db.fields[r][j]
<1>1. db \in Databases /\ OrdersExact(db) /\ f # NoField
  BY TableAssumption DEF Good
<1>2. PICK t \in Seq(Slots) :
          /\ d \in Databases /\ FieldIs(d, db, r, i, f, t)
          /\ IsInjective(t) /\ ToSet(t) = UsedSlots(db, r) \cup {i}
          /\ Ordered(db) /\ FreshKey(db, r, i, f.key)
                => Ascending(t, KeysIn(d, r), kind, {"map"})
  BY <1>1, PlacedEffect
<1>3. Good(d, L)
  BY <1>1, <1>2, FieldGood
<1>4. ASSUME Tidy(db) PROVE Tidy(d)
  <2>1. \A T \in Tables, c \in Columns : <<r, i>> \notin ToSet(db.index[T][c])
    <3> SUFFICES ASSUME NEW T \in Tables, NEW c \in Columns,
                        <<r, i>> \in ToSet(db.index[T][c])
                 PROVE  FALSE
      OBVIOUS
    <3>1. PICK n \in Nodes : n = <<r, i>> /\ n[1] = r /\ n[2] = i
      BY IsNode
    <3> QED
      BY <1>4, <3>1 DEF Tidy, Known
  <2> QED
    BY <1>1, <1>2, <1>4, <2>1, FieldTidy
<1>5. ASSUME Ordered(db), FreshKey(db, r, i, f.key) PROVE Ordered(d)
  BY <1>1, <1>2, <1>5, FieldOrdered
<1>6. OnlyMap(d, db, r)
  BY <1>2 DEF FieldIs, OnlyMap
<1>7. \A j \in Slots : d.fields[r][j] = IF j = i THEN f ELSE db.fields[r][j]
  BY <1>2 DEF FieldIs
<1> QED
  BY <1>3, <1>4, <1>5, <1>6, <1>7

NewFieldOf(k, v) == [key |-> k, value |-> v, indexed_at |-> {}]

\* A field is made in a free slot of the map.
LEMMA NewFieldKept ==
    ASSUME NEW L, NEW db, Good(db, L), NEW r \in Rows, UsedSlots(db, r) # Slots,
           NEW k \in Keys, NEW v \in Values \cup {NoKeyValue},
           NEW d, d = NewField(db, r, k, v)
    PROVE  /\ Good(d, L) /\ (Tidy(db) => Tidy(d))
           /\ Ordered(db) /\ (kind = "map" => k \notin KeysOf(db, r)) => Ordered(d)
           /\ OnlyMap(d, db, r)
           /\ \E i \in Slots :
                 /\ db.fields[r][i] = NoField
                 /\ \A j \in Slots : d.fields[r][j] = IF j = i THEN NewFieldOf(k, v)
                                                      ELSE db.fields[r][j]
<1> DEFINE Free == Slots \ UsedSlots(db, r)
<1>1. Free \subseteq Nat /\ Free # {}
  BY TableAssumption DEF UsedSlots
<1>2. \E i \in Free : \A l \in Free : i <= l
  <2> HIDE DEF Free
  <2> QED
    BY <1>1, LeastNumber
<1>3. PICK i : i = CHOOSE j \in Free : \A l \in Free : j <= l
  OBVIOUS
<1>4. i \in Slots /\ db.fields[r][i] = NoField
  <2>1. i \in Free
    BY <1>2, <1>3
  <2> QED
    BY <2>1 DEF UsedSlots
<1>5. PICK f \in Field : f = NewFieldOf(k, v)
  BY DEF NewFieldOf, Field
<1>6. f.indexed_at = {} /\ f.key = k
  BY <1>5 DEF NewFieldOf
<1>7. Placed(d, db, r, i, f)
  BY <1>3, <1>5 DEF NewField, NewFieldOf, Placed
<1>8. /\ Good(d, L) /\ (Tidy(db) => Tidy(d))
      /\ Ordered(db) /\ FreshKey(db, r, i, f.key) => Ordered(d)
      /\ OnlyMap(d, db, r)
      /\ \A j \in Slots : d.fields[r][j] = IF j = i THEN f ELSE db.fields[r][j]
  BY <1>4, <1>6, <1>7, PlacedKept
<1>9. (kind = "map" => k \notin KeysOf(db, r)) => FreshKey(db, r, i, f.key)
  BY <1>6 DEF FreshKey, KeysOf
<1> QED
  BY <1>4, <1>5, <1>8, <1>9

-----------------------------------------------------------------------------
(* MapImplementation::updateKey: a new field goes into indexes *)

\* Field n knows of places of X now, and no other field has changed.
OnlyGains(d, db, n, X) ==
    /\ SameRows(d, db)
    /\ \A q \in Rows, j \in Slots :
          IF <<q, j>> = n
          THEN d.fields[q][j].indexed_at \subseteq db.fields[q][j].indexed_at \cup X
          ELSE d.fields[q][j] = db.fields[q][j]

\* Index::add files a field, or does not when the column is unique.
LEMMA AddKept ==
    ASSUME NEW L, NEW db, Good(db, L), NEW T \in Tables, T \in L, NEW r \in Rows,
           NEW i \in Slots, db.fields[r][i] # NoField,
           NEW c \in Columns, c = db.fields[r][i].key,
           NEW d, d = add(db, T, c, <<r, i>>)
    PROVE  /\ Good(d, L) /\ (Ordered(db) => Ordered(d))
           /\ Tidy(db) /\ <<T, c>> \notin db.fields[r][i].indexed_at => Tidy(d)
           /\ OnlyGains(d, db, <<r, i>>, {<<T, c>>})
<1>0. PICK n \in Nodes : n = <<r, i>> /\ n[1] = r /\ n[2] = i
  BY IsNode
<1>1. db \in Databases /\ OrdersExact(db)
  BY DEF Good
<1>2. CASE CanAdd(db, T, c, <<r, i>>)
  <2>1. d = Insert(db, T, c, <<r, i>>)
    BY <1>2 DEF add
  <2>2. Good(d, L) /\ Gained(d, db, T, c, <<r, i>>)
    BY <2>1, InsertGood
  <2>3. SameRows(d, db) /\ d \in Databases
    BY <2>2 DEF Gained, Good
  <2>4. Ordered(db) => Ordered(d)
    BY <1>1, <2>3, OrderedKept
  <2>5. Tidy(db) /\ <<T, c>> \notin db.fields[r][i].indexed_at => Tidy(d)
    BY <1>2, <2>1, InsertTidy
  <2>6. PICK at : at = db.fields[r][i].indexed_at \cup {<<T, c>>}
    OBVIOUS
  <2>7. PointersAre(d, db, n, at)
    BY <1>0, <2>2, <2>6 DEF Gained
  <2>8. db.fields[r][i] \in Field
    BY <1>1, IsField
  <2>9. d.fields[r][i].indexed_at = at
    BY <1>0, <2>7, <2>8 DEF PointersAre, Field
  <2>10. \A q \in Rows, j \in Slots : <<q, j>> # n => d.fields[q][j] = db.fields[q][j]
    BY <2>7 DEF PointersAre
  <2>11. \A q \in Rows, j \in Slots : <<q, j>> = n => q = r /\ j = i
    BY <1>0
  <2>12. OnlyGains(d, db, n, {<<T, c>>})
    BY <2>3, <2>6, <2>9, <2>10, <2>11 DEF OnlyGains
  <2> QED
    BY <1>0, <2>2, <2>4, <2>5, <2>12
<1>3. CASE ~CanAdd(db, T, c, <<r, i>>)
  <2>1. d = db
    BY <1>3 DEF add
  <2>2. OnlyGains(d, db, n, {<<T, c>>})
    BY <2>1 DEF OnlyGains, SameRows
  <2> QED
    BY <1>0, <2>1, <2>2
<1> QED
  BY <1>2, <1>3

Updating == INSTANCE Folding WITH Op <- LAMBDA n, k, c, T, d : add(d, T, k, n)

UpdateLoop(db, n, k, S) ==
    LET step(T, d) == add(d, T, k, n) IN FoldSet(step, db, S)

\* The loop over the tables of a map, as a fold to which the rules apply.
LEMMA UpdateIsFold ==
    ASSUME NEW db, NEW n, NEW k, NEW S
    PROVE  UpdateLoop(db, n, k, S) = Updating!SetFold(n, k, 0, db, S)
  BY DEF UpdateLoop, FoldSet, MapThenFoldSet, Updating!SetFold, Updating!Any

\* d is db with n in the indexes of column k of some of the tables S.
Updated(d, db, L, n, k, S) ==
    /\ Good(d, L) /\ (Ordered(db) => Ordered(d))
    /\ Tidy(db) /\ db.fields[n[1]][n[2]].indexed_at = {} => Tidy(d)
    /\ OnlyGains(d, db, n, S \X {k})

\* The field may be in an index of each of these tables now, and in no other.
LEMMA UpdateLoopUpdated ==
    ASSUME NEW L, NEW db, Good(db, L), NEW r \in Rows, NEW i \in Slots,
           db.fields[r][i] # NoField, NEW k \in Columns, k = db.fields[r][i].key,
           NEW S \in SUBSET Tables, S \subseteq L
    PROVE  Updated(UpdateLoop(db, <<r, i>>, k, S), db, L, <<r, i>>, k, S)
<1>0. PICK n \in Nodes : n = <<r, i>> /\ n[1] = r /\ n[2] = i
  BY IsNode
<1> DEFINE D == [s \in SUBSET S |-> {d \in Databases : Updated(d, db, L, n, k, s)}]
<1>1. IsFiniteSet(S)
  BY TableAssumption, FS_Subset
<1>2. db \in D[{}]
  <2>1. OnlyGains(db, db, n, {} \X {k})
    BY DEF OnlyGains, SameRows
  <2> QED
    BY <2>1 DEF Updated, Good
<1>3. ASSUME NEW s \in SUBSET S, NEW T \in s, NEW d \in D[s \ {T}]
      PROVE  add(d, T, k, n) \in D[s]
  <2>1. Updated(d, db, L, n, k, s \ {T}) /\ T \in Tables /\ T \in L
    BY <1>3
  <2>2. /\ Good(d, L) /\ (Ordered(db) => Ordered(d))
        /\ Tidy(db) /\ db.fields[r][i].indexed_at = {} => Tidy(d)
        /\ OnlyGains(d, db, n, (s \ {T}) \X {k})
    BY <1>0, <2>1 DEF Updated
  <2>3. d.fields[r][i] # NoField /\ k = d.fields[r][i].key
    BY <2>2 DEF OnlyGains, SameRows
  <2>4. PICK e : e = add(d, T, k, n)
    OBVIOUS
  <2>5. /\ Good(e, L) /\ (Ordered(d) => Ordered(e))
        /\ Tidy(d) /\ <<T, k>> \notin d.fields[r][i].indexed_at => Tidy(e)
        /\ OnlyGains(e, d, n, {<<T, k>>})
    BY <1>0, <2>1, <2>2, <2>3, <2>4, AddKept
  <2>6. SameRows(e, db)
    BY <2>2, <2>5, SameRowsTransitive DEF OnlyGains
  <2>7. d.fields[r][i].indexed_at \subseteq db.fields[r][i].indexed_at \cup ((s \ {T}) \X {k})
    BY <1>0, <2>2 DEF OnlyGains
  <2>8. ASSUME Tidy(db), db.fields[r][i].indexed_at = {} PROVE Tidy(e)
    <3>1. <<T, k>> \notin d.fields[r][i].indexed_at
      BY <2>7, <2>8
    <3> QED
      BY <2>2, <2>5, <2>8, <3>1
  <2>9. OnlyGains(e, db, n, s \X {k})
    <3> SUFFICES ASSUME NEW q \in Rows, NEW j \in Slots
                 PROVE  IF <<q, j>> = n
                        THEN e.fields[q][j].indexed_at
                                \subseteq db.fields[q][j].indexed_at \cup (s \X {k})
                        ELSE e.fields[q][j] = db.fields[q][j]
      BY <2>6 DEF OnlyGains
    <3>1. CASE <<q, j>> = n
      <4>1. e.fields[q][j].indexed_at \subseteq d.fields[q][j].indexed_at \cup {<<T, k>>}
        BY <2>5, <3>1 DEF OnlyGains
      <4>2. d.fields[q][j].indexed_at
               \subseteq db.fields[q][j].indexed_at \cup ((s \ {T}) \X {k})
        BY <2>2, <3>1 DEF OnlyGains
      <4> QED
        BY <3>1, <4>1, <4>2
    <3>2. CASE <<q, j>> # n
      <4>1. e.fields[q][j] = d.fields[q][j] /\ d.fields[q][j] = db.fields[q][j]
        BY <2>2, <2>5, <3>2 DEF OnlyGains
      <4> QED
        BY <3>2, <4>1
    <3> QED
      BY <3>1, <3>2
  <2>10. Updated(e, db, L, n, k, s)
    BY <1>0, <2>2, <2>5, <2>8, <2>9 DEF Updated
  <2> QED
    BY <2>4, <2>5, <2>10 DEF Good
<1>4. PICK E : E = D
  OBVIOUS
<1>5. db \in E[{}] /\ \A s \in SUBSET S : \A T \in s : \A d \in E[s \ {T}] :
                         add(d, T, k, n) \in E[s]
  BY <1>2, <1>3, <1>4
<1>6. Updating!SetFold(n, k, 0, db, S) \in E[S]
  <2>1. Updating!IsFiniteSet(S)
    BY <1>1 DEF IsFiniteSet, Updating!IsFiniteSet
  <2> QED
    BY <1>5, <2>1, Updating!SetFoldRule
<1>7. UpdateLoop(db, n, k, S) \in D[S]
  BY <1>4, <1>6, UpdateIsFold
<1> QED
  BY <1>0, <1>7

\* MapImplementation::updateKey, for a map whose tables are there.
LEMMA UpdateKeyKept ==
    ASSUME NEW L, NEW db, Good(db, L), NEW r \in Rows, NEW i \in Slots,
           db.fields[r][i] # NoField, db.table_list[r] \subseteq L,
           NEW d, d = updateKey(db, r, i)
    PROVE  /\ Good(d, L) /\ (Ordered(db) => Ordered(d))
           /\ Tidy(db) /\ db.fields[r][i].indexed_at = {} => Tidy(d)
           /\ SameRows(d, db) /\ OnlyMap(d, db, r) /\ PointersFrom(d, db)
<1>0. PICK n \in Nodes : n = <<r, i>> /\ n[1] = r /\ n[2] = i
  BY IsNode
<1>1. db \in Databases
  BY DEF Good
<1>2. PICK S \in SUBSET Tables : S = db.table_list[r]
  BY <1>1 DEF Databases
<1>3. PICK k : k = db.fields[r][i].key
  OBVIOUS
<1>4. CASE k \in Columns
  <2>1. d = UpdateLoop(db, n, k, S)
    <3>1. updateKey(db, r, i) =
             IF db.fields[r][i].key \in Columns
             THEN UpdateLoop(db, <<r, i>>, db.fields[r][i].key, db.table_list[r]) ELSE db
      BY DEF updateKey, UpdateLoop
    <3>2. d = UpdateLoop(db, <<r, i>>, k, S)
      BY <1>2, <1>3, <1>4, <3>1
    <3> QED
      BY <1>0, <3>2
  <2>2. Updated(UpdateLoop(db, n, k, S), db, L, n, k, S)
    BY <1>0, <1>2, <1>3, <1>4, UpdateLoopUpdated
  <2>3. /\ Good(d, L) /\ (Ordered(db) => Ordered(d))
        /\ Tidy(db) /\ db.fields[r][i].indexed_at = {} => Tidy(d)
        /\ OnlyGains(d, db, n, S \X {k})
    BY <1>0, <2>1, <2>2 DEF Updated
  <2>4. SameRows(d, db)
    BY <2>3 DEF OnlyGains
  <2>5. OnlyMap(d, db, r)
    <3>1. \A q \in Rows, j \in Slots : q # r => d.fields[q][j] = db.fields[q][j]
      BY <1>0, <2>3 DEF OnlyGains
    <3> QED
      BY <2>4, <3>1 DEF OnlyMap, SameRows
  <2>6. ASSUME NEW q \in Rows, NEW j \in UsedSlots(d, q), NEW x \in d.fields[q][j].indexed_at
        PROVE  \/ j \in UsedSlots(db, q) /\ x \in db.fields[q][j].indexed_at
               \/ x[1] \in db.table_list[q]
    <3>1. j \in UsedSlots(db, q) /\ j \in Slots
      BY <2>4 DEF SameRows, UsedSlots
    <3>2. CASE <<q, j>> = n
      <4>1. q = r
        BY <1>0, <3>2
      <4>2. x \in db.fields[q][j].indexed_at \cup (S \X {k})
        BY <2>3, <2>6, <3>1, <3>2 DEF OnlyGains
      <4> QED
        BY <1>2, <3>1, <4>1, <4>2
    <3>3. CASE <<q, j>> # n
      BY <2>3, <2>6, <3>1, <3>3 DEF OnlyGains
    <3> QED
      BY <3>2, <3>3
  <2> QED
    BY <2>3, <2>4, <2>5, <2>6 DEF PointersFrom
<1>5. CASE k \notin Columns
  <2>1. d = db
    BY <1>3, <1>5 DEF updateKey
  <2> QED
    BY <2>1 DEF SameRows, OnlyMap, PointersFrom
<1> QED
  BY <1>4, <1>5

\* MapImplementation::insert of a key the map has not.
LEMMA InsertFieldKept ==
    ASSUME NEW L, NEW db, Good(db, L), NEW r \in Rows, UsedSlots(db, r) # Slots,
           NEW k \in Keys, NEW v \in Values \cup {NoKeyValue}, db.table_list[r] \subseteq L,
           NEW d, d = InsertField(db, r, k, v)
    PROVE  /\ Good(d, L) /\ OnlyMap(d, db, r) /\ PointersFrom(d, db)
           /\ k \notin KeysOf(db, r)
                 => (Tidy(db) => Tidy(d)) /\ (Ordered(db) => Ordered(d))
<1>1. PICK e : e = NewField(db, r, k, v)
  OBVIOUS
<1>2. /\ Good(e, L) /\ (Tidy(db) => Tidy(e))
      /\ Ordered(db) /\ (kind = "map" => k \notin KeysOf(db, r)) => Ordered(e)
      /\ OnlyMap(e, db, r)
      /\ \E i \in Slots :
            /\ db.fields[r][i] = NoField
            /\ \A j \in Slots : e.fields[r][j] = IF j = i THEN NewFieldOf(k, v)
                                                 ELSE db.fields[r][j]
  BY <1>1, NewFieldKept
<1>3. PICK i \in Slots : /\ db.fields[r][i] = NoField
                         /\ \A j \in Slots : e.fields[r][j] = IF j = i THEN NewFieldOf(k, v)
                                                              ELSE db.fields[r][j]
  BY <1>2
<1>4. PICK l : l = SlotOf(e, r, k)
  OBVIOUS
<1>5. l \in UsedSlots(e, r) /\ e.fields[r][l].key = k
  <2>1. NewFieldOf(k, v) \in Field
    BY DEF NewFieldOf, Field
  <2>2. i \in UsedSlots(e, r) /\ e.fields[r][i].key = k
    BY <1>3, <2>1, TableAssumption DEF UsedSlots, NewFieldOf
  <2> QED
    BY <1>4, <2>2 DEF SlotOf
<1>6. l \in Slots /\ e.fields[r][l] # NoField
  BY <1>5 DEF UsedSlots
<1>7. k \notin KeysOf(db, r) => e.fields[r][l].indexed_at = {}
  <2>1. l # i => k \in KeysOf(db, r)
    BY <1>3, <1>5, <1>6 DEF KeysOf, UsedSlots
  <2>2. l = i => e.fields[r][l].indexed_at = {}
    BY <1>3 DEF NewFieldOf
  <2> QED
    BY <2>1, <2>2
<1>8. d = updateKey(e, r, l)
  BY <1>1, <1>4 DEF InsertField
<1>9. e.table_list[r] \subseteq L
  BY <1>2 DEF OnlyMap
<1>10. /\ Good(d, L) /\ (Ordered(e) => Ordered(d))
       /\ Tidy(e) /\ e.fields[r][l].indexed_at = {} => Tidy(d)
       /\ OnlyMap(d, e, r) /\ PointersFrom(d, e)
  BY <1>2, <1>6, <1>8, <1>9, UpdateKeyKept
<1>11. PointersFrom(e, db)
  <2>1. \A j \in UsedSlots(e, r) :
           \/ e.fields[r][j].indexed_at = {}
           \/ j \in UsedSlots(db, r) /\ e.fields[r][j] = db.fields[r][j]
    BY <1>3 DEF UsedSlots, NewFieldOf
  <2> QED
    BY <1>2, <2>1, PointersFromMap
<1>12. e.table_list = db.table_list
  BY <1>2 DEF OnlyMap
<1>13. PointersFrom(d, db)
  BY <1>10, <1>11, <1>12 DEF PointersFrom
<1> QED
  BY <1>2, <1>7, <1>10, <1>13, OnlyMapTransitive

-----------------------------------------------------------------------------
(* FieldRef::setValue, FieldRef::setKey, and rename *)

\* Next to next in order is in order.
LEMMA AdjacentAscending ==
    ASSUME NEW S, NEW s \in Seq(S), NEW f, NEW c, NEW C,
           \A j \in 1 .. Len(s) : f[s[j]] \in Nat,
           \A j \in 2 .. Len(s) : /\ f[s[j - 1]] <= f[s[j]]
                                  /\ c \in C => f[s[j - 1]] # f[s[j]]
    PROVE  Ascending(s, f, c, C)
<1>0. PICK n \in Nat : n = Len(s)
  OBVIOUS
<1> SUFFICES ASSUME NEW j \in 1..n
             PROVE  \A k \in 1..n : j < k => /\ f[s[j]] <= f[s[k]]
                                             /\ c \in C => f[s[j]] # f[s[k]]
  BY <1>0 DEF Ascending
<1> DEFINE Fine(k) == f[s[j]] <= f[s[k]] /\ (c \in C => f[s[j]] # f[s[k]])
           Bad == {k \in 1..n : j < k /\ ~Fine(k)}
<1>1. Bad = {}
  <2> SUFFICES ASSUME Bad # {} PROVE FALSE
    OBVIOUS
  <2>1. Bad \subseteq Nat
    OBVIOUS
  <2>2. PICK k \in Bad : \A l \in Bad : k <= l
    <3> HIDE DEF Bad
    <3> QED
      BY <2>1, LeastNumber
  <2>3. k \in 2..n /\ k - 1 \in 1..n /\ j <= k - 1 /\ k - 1 < k
    OBVIOUS
  <2>4. f[s[k - 1]] <= f[s[k]] /\ (c \in C => f[s[k - 1]] # f[s[k]])
    BY <1>0, <2>3
  <2>5. k - 1 \notin Bad
    BY <2>2, <2>3
  <2>6. j = k - 1 \/ Fine(k - 1)
    BY <2>3, <2>5
  <2>7. f[s[j]] \in Nat /\ f[s[k]] \in Nat /\ f[s[k - 1]] \in Nat
    BY <1>0, <2>3
  <2>8. Fine(k)
    BY <2>4, <2>6, <2>7
  <2> QED
    BY <2>8
<1> QED
  BY <1>1

\* Field i of map r is f now; its other fields are what they were.
SlotIs(d, db, r, i, f) ==
    \A j \in Slots : d.fields[r][j] = IF j = i THEN f ELSE db.fields[r][j]

\* Writing into a field where it stands.
LEMMA WrittenKept ==
    ASSUME NEW L, NEW db, Good(db, L), NEW r \in Rows, NEW i \in Slots,
           db.fields[r][i] # NoField, NEW f \in Field,
           f.indexed_at = {} \/ (/\ f.indexed_at = db.fields[r][i].indexed_at
                                 /\ f.key = db.fields[r][i].key),
           NEW d, d = [db EXCEPT !.fields[r][i] = f]
    PROVE  /\ Good(d, L) /\ OnlyMap(d, db, r) /\ d.index = db.index
           /\ d.order = db.order
           /\ SlotIs(d, db, r, i, f)
           /\ Tidy(db) /\ db.fields[r][i].indexed_at = {} => Tidy(d)
           /\ Ordered(db) /\ Ascending(d.order[r], KeysIn(d, r), kind, {"map"})
                 => Ordered(d)
<1>1. db \in Databases /\ OrdersExact(db) /\ f # NoField
  BY TableAssumption DEF Good
<1>2. PICK s \in Seq(Slots) : s = db.order[r]
  BY <1>1 DEF Databases
<1>3. FieldPut(d, db, r, i, f, s)
  BY <1>1, <1>2 DEF FieldPut, Databases
<1>4. d \in Databases /\ FieldIs(d, db, r, i, f, s)
  BY <1>1, <1>3, FieldChanged
<1>5. IsInjective(s) /\ ToSet(s) = UsedSlots(db, r) \cup {i}
  BY <1>1, <1>2 DEF OrdersExact, UsedSlots
<1>6. Good(d, L)
  BY <1>1, <1>4, <1>5, FieldGood
<1>7. d.order[r] = s /\ d.order = db.order
  BY <1>1, <1>2, <1>3 DEF FieldPut, Databases
<1>8. ASSUME Tidy(db), db.fields[r][i].indexed_at = {} PROVE Tidy(d)
  <2>1. PICK n \in Nodes : n = <<r, i>> /\ n[1] = r /\ n[2] = i
    BY IsNode
  <2>2. \A T \in Tables, c \in Columns : n \notin ToSet(db.index[T][c])
    BY <1>8, <2>1 DEF Tidy, Known
  <2> QED
    BY <1>1, <1>4, <1>8, <2>1, <2>2, FieldTidy
<1>9. ASSUME Ordered(db), Ascending(d.order[r], KeysIn(d, r), kind, {"map"})
      PROVE  Ordered(d)
  BY <1>1, <1>4, <1>7, <1>9, FieldOrdered
<1> QED
  BY <1>4, <1>6, <1>7, <1>8, <1>9 DEF FieldIs, OnlyMap, SlotIs

\* Field::setKey of a field that is in no index: its place is as before.
LEMMA SetKeyKept ==
    ASSUME NEW L, NEW db, Good(db, L), NEW r \in Rows, NEW i \in Slots,
           db.fields[r][i] # NoField, db.fields[r][i].indexed_at = {}, NEW key \in Keys,
           NEW d, d = setKey(db, r, i, key)
    PROVE  /\ Good(d, L) /\ OnlyMap(d, db, r) /\ PointersFrom(d, db)
           /\ (Tidy(db) => Tidy(d))
           /\ kind \in {"map", "multimap"} /\ Ordered(db) /\ InKeyOrder(d, r) => Ordered(d)
<1>1. db \in Databases
  BY DEF Good
<1>2. db.fields[r][i] \in Field
  BY <1>1, IsField
<1>3. PICK f \in Field : f = [db.fields[r][i] EXCEPT !.key = key]
  BY <1>2 DEF Field
<1>4. f.indexed_at = {}
  BY <1>2, <1>3 DEF Field
<1>5. d = [db EXCEPT !.fields[r][i] = f]
  BY <1>1, <1>3 DEF setKey, Databases
<1>6. /\ Good(d, L) /\ OnlyMap(d, db, r)
      /\ Tidy(db) /\ db.fields[r][i].indexed_at = {} => Tidy(d)
      /\ Ordered(db) /\ Ascending(d.order[r], KeysIn(d, r), kind, {"map"})
            => Ordered(d)
  BY <1>4, <1>5, WrittenKept
<1>7. SlotIs(d, db, r, i, f)
  BY <1>4, <1>5, WrittenKept
<1>8. PointersFrom(d, db)
  <2>1. \A j \in UsedSlots(d, r) :
           \/ d.fields[r][j].indexed_at = {}
           \/ j \in UsedSlots(db, r) /\ d.fields[r][j] = db.fields[r][j]
    BY <1>4, <1>7 DEF UsedSlots, SlotIs
  <2> QED
    BY <1>6, <2>1, PointersFromMap
<1>9. ASSUME kind \in {"map", "multimap"}, InKeyOrder(d, r)
      PROVE  Ascending(d.order[r], KeysIn(d, r), kind, {"map"})
  <2>1. PICK s \in Seq(Slots) : s = d.order[r]
    BY <1>6 DEF Good, Databases
  <2>2. PICK g : g = KeysIn(d, r)
    OBVIOUS
  <2>3. \A j \in 1 .. Len(s) : s[j] \in Slots /\ d.fields[r][s[j]] # NoField
    <3>1. \A j \in 1 .. Len(s) : s[j] \in ToSet(s)
      BY DEF ToSet
    <3>2. ToSet(s) = UsedSlots(d, r)
      BY <1>6, <2>1 DEF Good, OrdersExact
    <3> QED
      BY <3>1, <3>2 DEF UsedSlots
  <2>4. \A j \in 1 .. Len(s) : g[s[j]] = d.fields[r][s[j]].key /\ g[s[j]] \in Nat
    <3>1. d \in Databases /\ Keys \subseteq Nat
      BY <1>6, TableAssumption DEF Good
    <3>2. \A j \in 1 .. Len(s) : d.fields[r][s[j]].key \in Keys
      BY <2>3, <3>1, IsField
    <3> QED
      BY <2>2, <2>3, <3>1, <3>2 DEF KeysIn
  <2>5. ASSUME NEW j \in 2 .. Len(s)
        PROVE  g[s[j - 1]] <= g[s[j]] /\ (kind \in {"map"} => g[s[j - 1]] # g[s[j]])
    <3>1. j \in 1 .. Len(s) /\ j - 1 \in 1 .. Len(s)
      OBVIOUS
    <3>2. LET k == d.fields[r][s[j - 1]].key
              l == d.fields[r][s[j]].key
          IN  k < l \/ (kind = "multimap" /\ k = l)
      BY <1>9, <2>1 DEF InKeyOrder
    <3>3. g[s[j - 1]] < g[s[j]] \/ (kind = "multimap" /\ g[s[j - 1]] = g[s[j]])
      BY <2>4, <3>1, <3>2
    <3> QED
      BY <2>4, <3>1, <3>3
  <2>6. Ascending(s, g, kind, {"map"})
    BY <2>4, <2>5, AdjacentAscending
  <2> QED
    BY <2>1, <2>2, <2>6
<1> QED
  BY <1>6, <1>8, <1>9

\* MapImplementation::rename: the field goes to its new place.
LEMMA RenamedKept ==
    ASSUME NEW L, NEW db, Good(db, L), NEW r \in Rows, NEW i \in Slots,
           db.fields[r][i] # NoField, db.fields[r][i].indexed_at = {}, NEW key \in Keys,
           NEW d, d = Renamed(db, r, i, key)
    PROVE  /\ Good(d, L) /\ OnlyMap(d, db, r) /\ PointersFrom(d, db)
           /\ (Tidy(db) => Tidy(d))
           /\ Ordered(db) /\ FreshKey(db, r, i, key) => Ordered(d)
<1>1. db \in Databases
  BY DEF Good
<1>2. db.fields[r][i] \in Field
  BY <1>1, IsField
<1>3. PICK f \in Field : f = [db.fields[r][i] EXCEPT !.key = key]
  BY <1>2 DEF Field
<1>4. f.indexed_at = {} /\ f.key = key
  BY <1>2, <1>3 DEF Field
<1>5. setKey(db, r, i, key) = [db EXCEPT !.fields[r][i] = f]
  BY <1>1, <1>3 DEF setKey, Databases
<1>6. Placed(d, db, r, i, f)
  BY <1>5 DEF Renamed, Placed
<1>7. /\ Good(d, L) /\ OnlyMap(d, db, r) /\ (Tidy(db) => Tidy(d))
      /\ Ordered(db) /\ FreshKey(db, r, i, f.key) => Ordered(d)
      /\ \A j \in Slots : d.fields[r][j] = IF j = i THEN f ELSE db.fields[r][j]
  BY <1>4, <1>6, PlacedKept
<1>8. PointersFrom(d, db)
  <2>1. \A j \in UsedSlots(d, r) :
           \/ d.fields[r][j].indexed_at = {}
           \/ j \in UsedSlots(db, r) /\ d.fields[r][j] = db.fields[r][j]
    BY <1>4, <1>7 DEF UsedSlots
  <2> QED
    BY <1>7, <2>1, PointersFromMap
<1> QED
  BY <1>4, <1>7, <1>8

\* A map has its keys once each.
LEMMA OwnKeyIsFresh ==
    ASSUME NEW L, NEW db, Good(db, L), NEW r \in Rows, NEW i \in UsedSlots(db, r),
           Ordered(db)
    PROVE  FreshKey(db, r, i, db.fields[r][i].key)
<1> SUFFICES ASSUME kind = "map", NEW j \in UsedSlots(db, r), j # i
             PROVE  db.fields[r][j].key # db.fields[r][i].key
  BY DEF FreshKey
<1>1. PICK s \in Seq(Slots) : s = db.order[r]
  BY DEF Good, Databases
<1>2. ToSet(s) = UsedSlots(db, r) /\ i \in Slots /\ j \in Slots
  BY <1>1 DEF Good, OrdersExact, UsedSlots
<1>3. PICK a, b \in 1 .. Len(s) : s[a] = i /\ s[b] = j
  <2>1. \A x \in ToSet(s) : \E a \in 1 .. Len(s) : s[a] = x
    BY DEF ToSet
  <2> QED
    BY <1>2, <2>1
<1>4. PICK g : g = KeysIn(db, r)
  OBVIOUS
<1>5. Ascending(s, g, kind, {"map"})
  BY <1>1, <1>4 DEF Ordered
<1>6. a < b \/ b < a
  BY <1>3
<1>7. g[i] # g[j]
  BY <1>3, <1>5, <1>6 DEF Ascending
<1> QED
  BY <1>2, <1>4, <1>7 DEF KeysIn

-----------------------------------------------------------------------------
(* A copy of a map, field by field *)

\* A sequence without repetitions is not longer than its set.
LEMMA InjectiveLength ==
    ASSUME NEW S, IsFiniteSet(S), NEW s \in Seq(S), IsInjective(s)
    PROVE  Len(s) \in Nat /\ Cardinality(S) \in Nat /\ Len(s) <= Cardinality(S)
<1>1. PICK n \in Nat : n = Len(s) /\ DOMAIN s = 1..n /\ s \in [1..n -> S]
  OBVIOUS
<1>2. IsFiniteSet(1..n) /\ Cardinality(1..n) = n
  <2>1. IsFiniteSet(1..n) /\ Cardinality(1..n) = IF 1 > n THEN 0 ELSE n - 1 + 1
    BY FS_Interval
  <2> QED
    BY <2>1
<1>3. Cardinality(S) \in Nat
  BY FS_CardinalityType
<1>4. ~(Cardinality(S) < n)
  <2> SUFFICES ASSUME Cardinality(S) < n PROVE FALSE
    OBVIOUS
  <2>1. \E x, y \in 1..n : x # y /\ s[x] = s[y]
    BY <1>1, <1>2, FS_PigeonHole
  <2> QED
    BY <1>1, <2>1 DEF IsInjective
<1> QED
  BY <1>1, <1>3, <1>4

Copying == INSTANCE Folding WITH
    Op <- LAMBDA src, r, copy, i, d :
              NewField(d, copy, src.fields[r][i].key, src.fields[r][i].value)

\* The copy constructor's loop, as a fold to which the rules apply.
LEMMA CopiedIsFold ==
    ASSUME NEW db, NEW r, NEW copy
    PROVE  Copied(db, r, copy) = Copying!SeqFold(db, r, copy, db, db.order[r])
  BY DEF Copied, FoldLeft, MapThenFoldSet, Copying!SeqFold, Copying!Greatest, Max

\* The keys of the first k fields of map r.
FirstKeys(db, r, k) == {db.fields[r][db.order[r][j]].key : j \in 1..k}

\* d is db with copies of the first k fields of map r in a map that had none.
CopyOf(d, db, L, r, copy, k) ==
    /\ Good(d, L) /\ (Tidy(db) => Tidy(d)) /\ (Ordered(db) => Ordered(d))
    /\ OnlyMap(d, db, copy)
    /\ IsFiniteSet(UsedSlots(d, copy)) /\ Cardinality(UsedSlots(d, copy)) = k
    /\ KeysOf(d, copy) = FirstKeys(db, r, k)
    /\ \A j \in UsedSlots(d, copy) : d.fields[copy][j].indexed_at = {}

\* One field more is copied.
LEMMA CopyOneMore ==
    ASSUME NEW L, NEW db, Good(db, L), NEW r \in Rows, NEW copy \in Rows, copy # r,
           NEW k \in 1 .. Len(db.order[r]), NEW i, i = db.order[r][k],
           NEW d, CopyOf(d, db, L, r, copy, k - 1),
           NEW e, e = NewField(d, copy, db.fields[r][i].key, db.fields[r][i].value)
    PROVE  CopyOf(e, db, L, r, copy, k)
<1>1. /\ Good(d, L) /\ (Tidy(db) => Tidy(d)) /\ (Ordered(db) => Ordered(d))
      /\ OnlyMap(d, db, copy)
      /\ IsFiniteSet(UsedSlots(d, copy)) /\ Cardinality(UsedSlots(d, copy)) = k - 1
      /\ KeysOf(d, copy) = FirstKeys(db, r, k - 1)
      /\ \A j \in UsedSlots(d, copy) : d.fields[copy][j].indexed_at = {}
  BY DEF CopyOf
<1>2. PICK s \in Seq(Slots) : s = db.order[r]
  BY DEF Good, Databases
<1>3. k \in 1 .. Len(s) /\ i = s[k]
  BY <1>2
<1>4. IsInjective(s) /\ ToSet(s) = UsedSlots(db, r)
  BY <1>2 DEF Good, OrdersExact
<1>5. \A j \in 1 .. Len(s) : s[j] \in Slots /\ db.fields[r][s[j]] # NoField
  <2>1. \A j \in 1 .. Len(s) : s[j] \in ToSet(s)
    BY DEF ToSet
  <2> QED
    BY <1>4, <2>1 DEF UsedSlots
<1>6. PICK key \in Keys, v \in Values \cup {NoKeyValue} :
          key = db.fields[r][i].key /\ v = db.fields[r][i].value
  <2>1. i \in Slots /\ db.fields[r][i] # NoField /\ db \in Databases
    BY <1>3, <1>5 DEF Good
  <2> QED
    BY <2>1, IsField
<1>7. UsedSlots(d, copy) # Slots
  <2>1. Len(s) \in Nat /\ Cardinality(Slots) \in Nat /\ Len(s) <= Cardinality(Slots)
    BY <1>4, InjectiveLength, TableAssumption
  <2>2. k - 1 < Cardinality(Slots)
    BY <1>3, <2>1
  <2> QED
    BY <1>1, <2>1, <2>2
<1>8. e = NewField(d, copy, key, v)
  BY <1>6
<1>9. /\ Good(e, L) /\ (Tidy(d) => Tidy(e))
      /\ Ordered(d) /\ (kind = "map" => key \notin KeysOf(d, copy)) => Ordered(e)
      /\ OnlyMap(e, d, copy)
      /\ \E l \in Slots :
            /\ d.fields[copy][l] = NoField
            /\ \A j \in Slots : e.fields[copy][j] = IF j = l THEN NewFieldOf(key, v)
                                                    ELSE d.fields[copy][j]
  BY <1>1, <1>7, <1>8, NewFieldKept
<1>10. PICK l \in Slots :
          /\ d.fields[copy][l] = NoField
          /\ \A j \in Slots : e.fields[copy][j] = IF j = l THEN NewFieldOf(key, v)
                                                  ELSE d.fields[copy][j]
  BY <1>9
<1>11. /\ NewFieldOf(key, v) # NoField /\ NewFieldOf(key, v).key = key
       /\ NewFieldOf(key, v).indexed_at = {}
  <2>1. NewFieldOf(key, v) \in Field
    BY DEF NewFieldOf, Field
  <2> QED
    BY <2>1, TableAssumption DEF NewFieldOf
<1>12. UsedSlots(e, copy) = UsedSlots(d, copy) \cup {l} /\ l \notin UsedSlots(d, copy)
  BY <1>10, <1>11 DEF UsedSlots
<1>13. IsFiniteSet(UsedSlots(e, copy)) /\ Cardinality(UsedSlots(e, copy)) = k
  <2>1. IsFiniteSet(UsedSlots(d, copy) \cup {l})
        /\ Cardinality(UsedSlots(d, copy) \cup {l}) = (k - 1) + 1
    BY <1>1, <1>12, FS_AddElement
  <2>2. (k - 1) + 1 = k
    BY <1>3
  <2> QED
    BY <1>12, <2>1, <2>2
<1>14. KeysOf(e, copy) = FirstKeys(db, r, k)
  <2>1. KeysOf(e, copy) = KeysOf(d, copy) \cup {key}
    <3>1. e.fields[copy][l].key = key
      BY <1>10, <1>11
    <3>2. \A j \in UsedSlots(d, copy) : e.fields[copy][j] = d.fields[copy][j]
      BY <1>10, <1>12 DEF UsedSlots
    <3>3. KeysOf(e, copy) = {e.fields[copy][j].key : j \in UsedSlots(d, copy)}
                            \cup {e.fields[copy][l].key}
      BY <1>12 DEF KeysOf
    <3>4. {e.fields[copy][j].key : j \in UsedSlots(d, copy)} = KeysOf(d, copy)
      BY <3>2 DEF KeysOf
    <3> QED
      BY <3>1, <3>3, <3>4
  <2>2. 1..k = (1 .. (k - 1)) \cup {k}
    BY <1>3
  <2>3. FirstKeys(db, r, k) = FirstKeys(db, r, k - 1) \cup {key}
    BY <1>6, <2>2 DEF FirstKeys
  <2> QED
    BY <1>1, <2>1, <2>3
<1>15. \A j \in UsedSlots(e, copy) : e.fields[copy][j].indexed_at = {}
  BY <1>1, <1>10, <1>11, <1>12 DEF UsedSlots
<1>16. ASSUME Ordered(db), kind = "map" PROVE key \notin KeysOf(d, copy)
  <2>1. PICK g : g = KeysIn(db, r)
    OBVIOUS
  <2>2. Ascending(s, g, kind, {"map"})
    BY <1>2, <1>16, <2>1 DEF Ordered
  <2>3. ASSUME NEW j \in 1 .. (k - 1) PROVE db.fields[r][s[j]].key # key
    <3>1. j \in 1 .. Len(s) /\ j < k
      BY <1>3, <2>3
    <3>2. g[s[j]] # g[s[k]]
      BY <1>3, <1>16, <2>2, <3>1 DEF Ascending
    <3> QED
      BY <1>3, <1>5, <1>6, <2>1, <3>1, <3>2 DEF KeysIn
  <2> QED
    BY <1>1, <1>2, <2>3 DEF FirstKeys
<1>17. OnlyMap(e, db, copy)
  BY <1>1, <1>9, OnlyMapTransitive
<1> QED
  BY <1>1, <1>9, <1>13, <1>14, <1>15, <1>16, <1>17 DEF CopyOf

\* The copy has a field for each, and none in an index.
LEMMA CopiedKept ==
    ASSUME NEW L, NEW db, Good(db, L), NEW r \in Rows, NEW copy \in Rows, copy # r,
           db.order[copy] = <<>>
    PROVE  CopyOf(Copied(db, r, copy), db, L, r, copy, Len(db.order[r]))
<1>1. PICK s \in Seq(Slots) : s = db.order[r]
  BY DEF Good, Databases
<1>2. PICK n \in Nat : n = Len(s)
  OBVIOUS
<1> DEFINE D == [k \in 0..n |-> {d \in Databases : CopyOf(d, db, L, r, copy, k)}]
<1>3. db \in D[0]
  <2>1. UsedSlots(db, copy) = {}
    <3>1. ToSet(<<>>) = {}
      BY DEF ToSet
    <3> QED
      BY <3>1 DEF Good, OrdersExact
  <2>2. CopyOf(db, db, L, r, copy, 0)
    BY <2>1, FS_EmptySet DEF CopyOf, OnlyMap, KeysOf, FirstKeys
  <2> QED
    BY <2>2 DEF Good
<1>4. ASSUME NEW k \in 1..n, NEW d \in D[k - 1]
      PROVE  NewField(d, copy, db.fields[r][s[k]].key, db.fields[r][s[k]].value) \in D[k]
  <2>1. k \in 1 .. Len(db.order[r]) /\ s[k] = db.order[r][k] /\ k - 1 \in 0..n /\ k \in 0..n
    BY <1>1, <1>2
  <2>2. CopyOf(d, db, L, r, copy, k - 1)
    BY <1>4, <2>1
  <2>3. PICK e : e = NewField(d, copy, db.fields[r][s[k]].key, db.fields[r][s[k]].value)
    OBVIOUS
  <2>4. CopyOf(e, db, L, r, copy, k)
    BY <2>1, <2>2, <2>3, CopyOneMore
  <2> QED
    BY <2>1, <2>3, <2>4 DEF CopyOf, Good
<1>5. PICK E : E = D
  OBVIOUS
<1>6. db \in E[0] /\ \A k \in 1 .. Len(s) : \A d \in E[k - 1] :
         NewField(d, copy, db.fields[r][s[k]].key, db.fields[r][s[k]].value) \in E[k]
  BY <1>2, <1>3, <1>4, <1>5
<1>7. Copying!SeqFold(db, r, copy, db, s) \in E[Len(s)]
  BY <1>6, Copying!SeqFoldRule
<1>8. Copied(db, r, copy) \in D[n]
  BY <1>1, <1>2, <1>5, <1>7, CopiedIsFold
<1> QED
  BY <1>1, <1>2, <1>8
==============================================================================
