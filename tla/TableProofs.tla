----------------------------- MODULE TableProofs -----------------------------
(***************************************************************************)
(* Theorems about Table, for any tables, maps, columns, keys and values:   *)
(* what fields know of their places is true, rows that are accepted are    *)
(* indexed, and clients that keep to Careful find each index exact and in  *)
(* order and meet nothing undefined.  First the operators on tables, in    *)
(* the manner of TableLemmas; then the invariant, with a lemma for each    *)
(* action of Next; then the theorems.                                      *)
(***************************************************************************)
EXTENDS TableLemmas

-----------------------------------------------------------------------------
(* TableImplementation::insert: the fields of a row go into the indexes *)

FilingStates == [db : Databases, filed : Seq(Slots), failed : BOOLEAN]

\* No field of map r knows of a place in table T.
NotIn(db, T, r) ==
    \A j \in UsedSlots(db, r) : <<T, db.fields[r][j].key>> \notin db.fields[r][j].indexed_at

\* x is what filing the first k fields of map r in the indexes of T makes of db.
FiledUpTo(x, db, L, T, r, k) ==
    /\ x \in FilingStates
    /\ Good(x.db, L) /\ SameRows(x.db, db)
    /\ Tidy(db) /\ NotIn(db, T, r) => Tidy(x.db)
    /\ \A q \in Rows, j \in Slots : q # r => x.db.fields[q][j] = db.fields[q][j]
    /\ \A j \in UsedSlots(db, r) :
          x.db.fields[r][j].indexed_at
             \subseteq db.fields[r][j].indexed_at \cup {<<T, db.fields[r][j].key>>}
    /\ \A l \in 1 .. Len(db.order[r]) :
          LET j == db.order[r][l]
          IN  /\ l > k => x.db.fields[r][j] = db.fields[r][j]
              /\ l <= k /\ ~x.failed /\ db.fields[r][j].key \in Columns
                    => <<T, db.fields[r][j].key>> \in x.db.fields[r][j].indexed_at
    /\ \A j \in ToSet(x.filed) : j \in UsedSlots(db, r) /\ db.fields[r][j].key \in Columns

\* What one step does, which files field i or leaves it.
FileStep(y, x, T, r, i, c) ==
    \/ y = x /\ (x.failed \/ c \notin Columns)
    \/ y = [db |-> x.db, filed |-> x.filed, failed |-> TRUE] /\ c \in Columns
    \/ /\ c \in Columns /\ CanAdd(x.db, T, c, <<r, i>>) /\ ~x.failed
       /\ y = [db |-> Insert(x.db, T, c, <<r, i>>), filed |-> Append(x.filed, i),
               failed |-> FALSE]

\* The three ways a step of the loop can go.
LEMMA FileFieldEffect ==
    ASSUME NEW x \in FilingStates, NEW T \in Tables,
           NEW r \in Rows, NEW i \in Slots,
           NEW c, c = x.db.fields[r][i].key, NEW y, y = FileField(x, T, r, i)
    PROVE  FileStep(y, x, T, r, i, c)
<1>1. CASE x.failed \/ c \notin Columns
  BY <1>1 DEF FileField, FileStep
<1>2. CASE ~x.failed /\ c \in Columns /\ ~CanAdd(x.db, T, c, <<r, i>>)
  <2>1. y = [x EXCEPT !.failed = TRUE]
    BY <1>2 DEF FileField
  <2>2. y = [db |-> x.db, filed |-> x.filed, failed |-> TRUE]
    BY <2>1 DEF FilingStates
  <2> QED
    BY <1>2, <2>2 DEF FileStep
<1>3. CASE ~x.failed /\ c \in Columns /\ CanAdd(x.db, T, c, <<r, i>>)
  <2>1. y = [x EXCEPT !.db = Insert(@, T, c, <<r, i>>), !.filed = Append(@, i)]
    BY <1>3 DEF FileField
  <2>2. y = [db |-> Insert(x.db, T, c, <<r, i>>), filed |-> Append(x.filed, i),
             failed |-> FALSE]
    BY <1>3, <2>1 DEF FilingStates
  <2> QED
    BY <1>3, <2>2 DEF FileStep
<1> QED
  BY <1>1, <1>2, <1>3

\* One field more is filed, or the loop has failed.
LEMMA FileOneMore ==
    ASSUME NEW L, NEW db, Good(db, L), NEW T \in Tables, T \in L, NEW r \in Rows,
           NEW k \in 1 .. Len(db.order[r]), NEW i, i = db.order[r][k],
           NEW x, FiledUpTo(x, db, L, T, r, k - 1), NEW y, y = FileField(x, T, r, i)
    PROVE  FiledUpTo(y, db, L, T, r, k)
<1>1. /\ x \in FilingStates
      /\ Good(x.db, L) /\ SameRows(x.db, db)
      /\ Tidy(db) /\ NotIn(db, T, r) => Tidy(x.db)
      /\ \A q \in Rows, j \in Slots : q # r => x.db.fields[q][j] = db.fields[q][j]
      /\ \A j \in UsedSlots(db, r) :
            x.db.fields[r][j].indexed_at
               \subseteq db.fields[r][j].indexed_at \cup {<<T, db.fields[r][j].key>>}
      /\ \A j \in ToSet(x.filed) : j \in UsedSlots(db, r) /\ db.fields[r][j].key \in Columns
  BY DEF FiledUpTo
<1>2. \A l \in 1 .. Len(db.order[r]) :
          LET j == db.order[r][l]
          IN  /\ l > k - 1 => x.db.fields[r][j] = db.fields[r][j]
              /\ l <= k - 1 /\ ~x.failed /\ db.fields[r][j].key \in Columns
                    => <<T, db.fields[r][j].key>> \in x.db.fields[r][j].indexed_at
  BY DEF FiledUpTo
<1>3. PICK s \in Seq(Slots) : s = db.order[r]
  BY DEF Good, Databases
<1>4. IsInjective(s) /\ ToSet(s) = UsedSlots(db, r) /\ k \in 1 .. Len(s) /\ i = s[k]
  BY <1>3 DEF Good, OrdersExact
<1>5. \A l \in 1 .. Len(s) : s[l] \in UsedSlots(db, r)
  BY <1>4 DEF ToSet
<1>6. i \in UsedSlots(db, r) /\ i \in Slots /\ db.fields[r][i] # NoField
  BY <1>4, <1>5 DEF UsedSlots
<1>7. PICK c : c = db.fields[r][i].key /\ c = x.db.fields[r][i].key
  BY <1>1, <1>6 DEF SameRows
<1>8. x.db.fields[r][i] # NoField /\ x.db.fields[r][i] = db.fields[r][i]
  <2>1. k > k - 1
    BY <1>4
  <2> QED
    BY <1>2, <1>3, <1>4, <1>6, <2>1
<1>9. ASSUME NEW l \in 1 .. Len(s), l # k PROVE s[l] # i
  BY <1>4, <1>9 DEF IsInjective
<1>a. FileStep(y, x, T, r, i, c)
  BY <1>1, <1>6, <1>7, FileFieldEffect
<1>b. CASE /\ y \in FilingStates /\ y.db = x.db /\ y.filed = x.filed
           /\ y.failed \/ (y.failed = x.failed /\ c \notin Columns)
  <2>1. ASSUME NEW l \in 1 .. Len(s)
        PROVE  /\ l > k => y.db.fields[r][s[l]] = db.fields[r][s[l]]
               /\ l <= k /\ ~y.failed /\ db.fields[r][s[l]].key \in Columns
                     => <<T, db.fields[r][s[l]].key>> \in y.db.fields[r][s[l]].indexed_at
    <3>1. l > k => l > k - 1
      BY <1>4
    <3>2. l <= k => l <= k - 1 \/ l = k
      BY <1>4
    <3>3. l = k => s[l] = i
      BY <1>4
    <3>4. /\ l > k - 1 => x.db.fields[r][s[l]] = db.fields[r][s[l]]
          /\ l <= k - 1 /\ ~x.failed /\ db.fields[r][s[l]].key \in Columns
                => <<T, db.fields[r][s[l]].key>> \in x.db.fields[r][s[l]].indexed_at
      BY <1>2, <1>3
    <3> QED
      BY <1>7, <1>b, <3>1, <3>2, <3>3, <3>4
  <2> QED
    BY <1>1, <1>3, <1>b, <2>1 DEF FiledUpTo
<1>c. CASE /\ c \in Columns /\ CanAdd(x.db, T, c, <<r, i>>) /\ ~x.failed
           /\ y = [db |-> Insert(x.db, T, c, <<r, i>>), filed |-> Append(x.filed, i),
                   failed |-> FALSE]
  <2>1. PICK e : e = Insert(x.db, T, c, <<r, i>>)
    OBVIOUS
  <2>2. Good(e, L) /\ Gained(e, x.db, T, c, <<r, i>>)
    BY <1>1, <1>6, <1>7, <1>8, <1>c, <2>1, InsertGood
  <2>3. ASSUME Tidy(db), NotIn(db, T, r) PROVE Tidy(e)
    <3>1. <<T, c>> \notin x.db.fields[r][i].indexed_at
      BY <1>6, <1>7, <1>8, <2>3 DEF NotIn
    <3>2. Tidy(x.db)
      BY <1>1, <2>3
    <3> QED
      BY <1>1, <1>6, <1>8, <1>c, <2>1, <3>1, <3>2, InsertTidy
  <2>4. SameRows(e, x.db) /\ SameRows(e, db)
    BY <1>1, <2>2, SameRowsTransitive DEF Gained
  <2>5. PICK n \in Nodes : n = <<r, i>> /\ n[1] = r /\ n[2] = i
    BY <1>6, IsNode
  <2>6. PICK at : at = db.fields[r][i].indexed_at \cup {<<T, c>>}
    OBVIOUS
  <2>7. PointersAre(e, x.db, n, at)
    BY <1>8, <2>2, <2>5, <2>6 DEF Gained
  <2>8. \A q \in Rows, j \in Slots : <<q, j>> # n => e.fields[q][j] = x.db.fields[q][j]
    BY <2>7 DEF PointersAre
  <2>9. e.fields[r][i].indexed_at = at
    <3>1. db.fields[r][i] \in Field
      BY <1>6, IsField DEF Good
    <3>2. e.fields[r][i] = [db.fields[r][i] EXCEPT !.indexed_at = at]
      BY <1>6, <1>8, <2>5, <2>7 DEF PointersAre
    <3> QED
      BY <3>1, <3>2 DEF Field
  <2>10. \A q \in Rows, j \in Slots : q # r => e.fields[q][j] = db.fields[q][j]
    BY <1>1, <2>5, <2>8
  <2>11. ASSUME NEW j \in UsedSlots(db, r)
         PROVE  e.fields[r][j].indexed_at
                   \subseteq db.fields[r][j].indexed_at \cup {<<T, db.fields[r][j].key>>}
    <3>1. CASE j = i
      BY <1>7, <2>6, <2>9, <3>1
    <3>2. CASE j # i
      <4>1. j \in Slots /\ <<r, j>> # n
        BY <2>5, <3>2 DEF UsedSlots
      <4> QED
        BY <1>1, <2>8, <4>1
    <3> QED
      BY <3>1, <3>2
  <2>12. ASSUME NEW l \in 1 .. Len(s)
         PROVE  /\ l > k => e.fields[r][s[l]] = db.fields[r][s[l]]
                /\ l <= k /\ db.fields[r][s[l]].key \in Columns
                      => <<T, db.fields[r][s[l]].key>> \in e.fields[r][s[l]].indexed_at
    <3>1. CASE l = k
      <4>1. s[l] = i /\ ~(l > k)
        BY <1>4, <3>1
      <4>2. <<T, c>> \in e.fields[r][i].indexed_at
        BY <2>6, <2>9
      <4> QED
        BY <1>7, <4>1, <4>2
    <3>2. CASE l # k
      <4>1. s[l] # i /\ s[l] \in Slots
        BY <1>5, <1>9, <3>2 DEF UsedSlots
      <4>2. e.fields[r][s[l]] = x.db.fields[r][s[l]]
        BY <2>5, <2>8, <4>1
      <4>3. /\ l > k => l > k - 1
            /\ l <= k => l <= k - 1
        BY <1>4, <3>2
      <4>4. /\ l > k - 1 => x.db.fields[r][s[l]] = db.fields[r][s[l]]
            /\ l <= k - 1 /\ ~x.failed /\ db.fields[r][s[l]].key \in Columns
                  => <<T, db.fields[r][s[l]].key>> \in x.db.fields[r][s[l]].indexed_at
        BY <1>2, <1>3
      <4> QED
        BY <1>c, <4>2, <4>3, <4>4
    <3> QED
      BY <3>1, <3>2
  <2>13. PICK t \in Seq(Slots) : t = x.filed
    BY <1>1 DEF FilingStates
  <2>14. Append(t, i) \in Seq(Slots) /\ ToSet(Append(t, i)) \subseteq ToSet(t) \cup {i}
    BY <1>6 DEF ToSet
  <2>15. /\ y.db = e /\ y.filed = Append(t, i) /\ ~y.failed /\ y \in FilingStates
    BY <1>c, <2>1, <2>2, <2>13, <2>14 DEF FilingStates, Good
  <2>16. \A j \in ToSet(y.filed) : j \in UsedSlots(db, r) /\ db.fields[r][j].key \in Columns
    BY <1>1, <1>6, <1>7, <1>c, <2>13, <2>14, <2>15
  <2> QED
    BY <1>3, <2>2, <2>3, <2>4, <2>10, <2>11, <2>12, <2>15, <2>16 DEF FiledUpTo
<1>d. CASE y = x /\ (x.failed \/ c \notin Columns)
  BY <1>1, <1>b, <1>d
<1>e. CASE y = [db |-> x.db, filed |-> x.filed, failed |-> TRUE] /\ c \in Columns
  <2>1. x.db \in Databases /\ x.filed \in Seq(Slots)
    BY <1>1 DEF FilingStates
  <2>2. /\ y \in FilingStates /\ y.db = x.db /\ y.filed = x.filed /\ y.failed
    BY <1>e, <2>1 DEF FilingStates
  <2> QED
    BY <1>b, <2>2
<1> QED
  BY <1>a, <1>c, <1>d, <1>e DEF FileStep

Filing == INSTANCE Folding WITH Op <- LAMBDA T, r, c, i, x : FileField(x, T, r, i)

FilingStart(db) == [db |-> db, filed |-> <<>>, failed |-> FALSE]

\* The loop over the fields of a row, as a fold to which the rules apply.
LEMMA FileFieldsIsFold ==
    ASSUME NEW db, NEW T, NEW r
    PROVE  FileFields(db, T, r) = Filing!SeqFold(T, r, 0, FilingStart(db), db.order[r])
  BY DEF FileFields, FilingStart, FoldLeft, MapThenFoldSet, Filing!SeqFold,
         Filing!Greatest, Max

\* All fields that have a column are filed, or the loop has failed.
LEMMA FileFieldsFiled ==
    ASSUME NEW L, NEW db, Good(db, L), NEW T \in Tables, T \in L, NEW r \in Rows
    PROVE  FiledUpTo(FileFields(db, T, r), db, L, T, r, Len(db.order[r]))
<1>1. PICK s \in Seq(Slots) : s = db.order[r]
  BY DEF Good, Databases
<1>2. PICK n \in Nat : n = Len(s)
  OBVIOUS
<1>3. PICK x0 \in FilingStates : x0 = FilingStart(db) /\ x0.db = db /\ x0.filed = <<>>
  <2>1. db \in Databases /\ <<>> \in Seq(Slots) /\ FALSE \in BOOLEAN
    BY DEF Good
  <2>2. PICK x : x = FilingStart(db)
    OBVIOUS
  <2>3. x \in FilingStates /\ x.db = db /\ x.filed = <<>>
    BY <2>1, <2>2 DEF FilingStates, FilingStart
  <2> QED
    BY <2>2, <2>3
<1> DEFINE D == [k \in 0..n |-> {x \in FilingStates : FiledUpTo(x, db, L, T, r, k)}]
<1>4. x0 \in D[0]
  <2>1. SameRows(db, db)
    BY DEF SameRows
  <2>2. ToSet(x0.filed) = {}
    BY <1>3 DEF ToSet
  <2>3. \A l \in 1 .. Len(s) : ~(l <= 0)
    OBVIOUS
  <2>4. FiledUpTo(x0, db, L, T, r, 0)
    BY <1>1, <1>3, <2>1, <2>2, <2>3 DEF FiledUpTo
  <2> QED
    BY <2>4
<1>5. ASSUME NEW k \in 1..n, NEW x \in D[k - 1]
      PROVE  FileField(x, T, r, s[k]) \in D[k]
  <2>1. k \in 1 .. Len(db.order[r]) /\ s[k] = db.order[r][k] /\ k - 1 \in 0..n /\ k \in 0..n
    BY <1>1, <1>2
  <2>2. FiledUpTo(x, db, L, T, r, k - 1)
    BY <1>5, <2>1
  <2>3. PICK y : y = FileField(x, T, r, s[k])
    OBVIOUS
  <2>4. FiledUpTo(y, db, L, T, r, k)
    BY <2>1, <2>2, <2>3, FileOneMore
  <2>5. y \in FilingStates
    BY <2>4 DEF FiledUpTo
  <2> QED
    BY <2>1, <2>3, <2>4, <2>5
<1>6. PICK E : E = D
  OBVIOUS
<1>7. x0 \in E[0] /\ \A k \in 1 .. Len(s) : \A x \in E[k - 1] :
         FileField(x, T, r, s[k]) \in E[k]
  BY <1>2, <1>4, <1>5, <1>6
<1>8. Filing!SeqFold(T, r, 0, x0, s) \in E[Len(s)]
  BY <1>7, Filing!SeqFoldRule
<1>9. FileFields(db, T, r) \in D[n]
  BY <1>1, <1>2, <1>3, <1>6, <1>8, FileFieldsIsFold
<1> QED
  BY <1>1, <1>2, <1>9

-----------------------------------------------------------------------------
(* The fields of a row come out of indexes of one table again *)

\* d is db but that fields of map r know of fewer places in table T.
LessOf(d, db, L, T, r) ==
    /\ Kept(d, db, L) /\ SameRows(d, db)
    /\ \A q \in Rows, j \in Slots : q # r => d.fields[q][j] = db.fields[q][j]
    /\ \A j \in UsedSlots(db, r) :
          /\ d.fields[r][j].indexed_at \subseteq db.fields[r][j].indexed_at
          /\ \A x \in db.fields[r][j].indexed_at \ d.fields[r][j].indexed_at : x[1] = T

\* Nothing is taken back yet.
LEMMA LessOfItself ==
    ASSUME NEW L, NEW db, Good(db, L), NEW T, NEW r
    PROVE  LessOf(db, db, L, T, r)
  BY DEF LessOf, Kept, SameRows

\* Something is taken back after something else.
LEMMA LessOfTransitive ==
    ASSUME NEW L, NEW d, NEW e, NEW f, NEW T, NEW r \in Rows,
           LessOf(d, e, L, T, r), LessOf(e, f, L, T, r)
    PROVE  LessOf(d, f, L, T, r)
<1>1. Kept(d, f, L) /\ SameRows(d, f)
  BY KeptTransitive, SameRowsTransitive DEF LessOf
<1>2. UsedSlots(e, r) = UsedSlots(f, r)
  BY DEF LessOf, SameRows, UsedSlots
<1> QED
  BY <1>1, <1>2 DEF LessOf

\* One place is taken back.
LEMMA RemoveLess ==
    ASSUME NEW L, NEW db, Good(db, L), NEW T \in Tables, NEW c \in Columns,
           NEW r \in Rows, NEW i \in Slots, db.fields[r][i] # NoField,
           NEW d, d = remove(db, T, c, <<r, i>>)
    PROVE  /\ LessOf(d, db, L, T, r)
           /\ <<T, c>> \notin d.fields[r][i].indexed_at
<1>1. /\ Kept(d, db, L) /\ SameRows(d, db)
      /\ PointersAre(d, db, <<r, i>>, db.fields[r][i].indexed_at \ {<<T, c>>})
  BY RemoveKept
<1>2. ASSUME NEW q \in Rows, NEW j \in Slots, <<q, j>> # <<r, i>>
      PROVE  d.fields[q][j] = db.fields[q][j]
  BY <1>1, <1>2 DEF PointersAre
<1>3. db.fields[r][i] \in Field
  BY IsField DEF Good
<1>4. d.fields[r][i].indexed_at = db.fields[r][i].indexed_at \ {<<T, c>>}
  BY <1>1, <1>3 DEF PointersAre, Field
<1>5. ASSUME NEW j \in UsedSlots(db, r)
      PROVE  /\ d.fields[r][j].indexed_at \subseteq db.fields[r][j].indexed_at
             /\ \A x \in db.fields[r][j].indexed_at \ d.fields[r][j].indexed_at : x[1] = T
  <2>1. CASE j = i
    BY <1>4, <2>1
  <2>2. CASE j # i
    BY <1>2, <2>2 DEF UsedSlots
  <2> QED
    BY <2>1, <2>2
<1> QED
  BY <1>1, <1>2, <1>4, <1>5 DEF LessOf

RollingBack == INSTANCE Folding WITH Op <- LAMBDA T, r, c, i, d : TakeBack(d, T, r, i)

\* The roll-back as a fold to which the rules apply.
LEMMA RollBackIsFold ==
    ASSUME NEW db, NEW T, NEW r, NEW s
    PROVE  RollBack(db, T, r, s) = RollingBack!SeqFold(T, r, 0, db, Reverse(s))
  BY DEF RollBack, FoldLeft, MapThenFoldSet, RollingBack!SeqFold,
         RollingBack!Greatest, Max

\* One step of the roll-back.
LEMMA TakeBackLess ==
    ASSUME NEW L, NEW db, Good(db, L), NEW T \in Tables, NEW r \in Rows,
           NEW i \in UsedSlots(db, r), db.fields[r][i].key \in Columns,
           NEW d, d = TakeBack(db, T, r, i)
    PROVE  LessOf(d, db, L, T, r)
<1>1. i \in Slots /\ db.fields[r][i] # NoField
  BY DEF UsedSlots
<1>2. CASE i = Head(db.order[r])
  <2>1. d = db
    BY <1>2 DEF TakeBack
  <2> QED
    BY <2>1, LessOfItself
<1>3. CASE i # Head(db.order[r])
  <2>1. PICK c \in Columns : c = db.fields[r][i].key
    OBVIOUS
  <2>2. d = remove(db, T, c, <<r, i>>)
    BY <1>3, <2>1 DEF TakeBack
  <2> QED
    BY <1>1, <2>2, RemoveLess
<1> QED
  BY <1>2, <1>3

\* Some fields of a row, in any order.
LEMMA RollBackLess ==
    ASSUME NEW L, NEW db, Good(db, L), NEW T \in Tables, NEW r \in Rows,
           NEW s \in Seq(Slots),
           \A i \in ToSet(s) : i \in UsedSlots(db, r) /\ db.fields[r][i].key \in Columns
    PROVE  LessOf(RollBack(db, T, r, s), db, L, T, r)
<1>1. PICK t \in Seq(Slots) : t = Reverse(s) /\ \A k \in 1 .. Len(t) : t[k] \in ToSet(s)
  <2>1. PICK t : t = Reverse(s)
    OBVIOUS
  <2>2. t = [k \in 1 .. Len(s) |-> s[(Len(s) - k) + 1]] /\ Len(s) \in Nat
    BY <2>1 DEF Reverse
  <2>3. \A k \in 1 .. Len(s) : (Len(s) - k) + 1 \in 1 .. Len(s)
    BY <2>2
  <2>4. t \in Seq(Slots) /\ Len(t) = Len(s)
    BY <2>2, <2>3
  <2>5. \A k \in 1 .. Len(s) : s[(Len(s) - k) + 1] \in ToSet(s)
    BY <2>3 DEF ToSet
  <2> QED
    BY <2>1, <2>2, <2>4, <2>5
<1>2. PICK n \in Nat : n = Len(t)
  OBVIOUS
<1> DEFINE D == [k \in 0..n |-> {d \in Databases : LessOf(d, db, L, T, r)}]
<1>3. db \in D[0]
  BY LessOfItself DEF Good
<1>4. ASSUME NEW k \in 1..n, NEW d \in D[k - 1]
      PROVE  TakeBack(d, T, r, t[k]) \in D[k]
  <2>1. k - 1 \in 0..n /\ k \in 0..n
    BY <1>2
  <2>2. LessOf(d, db, L, T, r)
    BY <1>4, <2>1
  <2>3. PICK i : i = t[k] /\ i \in UsedSlots(db, r) /\ db.fields[r][i].key \in Columns
    BY <1>1, <1>2
  <2>4. i \in UsedSlots(d, r) /\ d.fields[r][i].key \in Columns
    BY <2>2, <2>3 DEF LessOf, SameRows, UsedSlots
  <2>5. PICK e : e = TakeBack(d, T, r, i)
    OBVIOUS
  <2>6. Good(d, L)
    BY <2>2 DEF LessOf, Kept
  <2>7. LessOf(e, d, L, T, r)
    BY <2>4, <2>5, <2>6, TakeBackLess
  <2>8. LessOf(e, db, L, T, r)
    BY <2>2, <2>7, LessOfTransitive
  <2> QED
    BY <2>1, <2>3, <2>5, <2>8 DEF LessOf, Kept, Good
<1>5. PICK E : E = D
  OBVIOUS
<1>6. db \in E[0] /\ \A k \in 1 .. Len(t) : \A d \in E[k - 1] :
         TakeBack(d, T, r, t[k]) \in E[k]
  BY <1>2, <1>3, <1>4, <1>5
<1>7. RollingBack!SeqFold(T, r, 0, db, t) \in E[Len(t)]
  BY <1>6, RollingBack!SeqFoldRule
<1> QED
  BY <1>1, <1>2, <1>5, <1>7, RollBackIsFold

-----------------------------------------------------------------------------
(* TableImplementation::insert *)

\* What it makes of db: a row more, in its indexes, or none.
RowIn(d, db, T, r) ==
    /\ r \notin db.rows[T] /\ d.rows = [db.rows EXCEPT ![T] = @ \cup {r}]
    /\ d.table_list = [db.table_list EXCEPT ![r] = @ \cup {T}]
    /\ \A j \in UsedSlots(d, r) :
          d.fields[r][j].key \in Columns
             => <<T, d.fields[r][j].key>> \in d.fields[r][j].indexed_at

\* db in which r remembers T.
Remembering(db, T, r) == [db EXCEPT !.table_list[r] = @ \cup {T}]

\* Only what the map remembers has changed.
LEMMA Remembered ==
    ASSUME NEW L, NEW db, Good(db, L), NEW T \in Tables, NEW r \in Rows,
           NEW d, d = Remembering(db, T, r)
    PROVE  /\ Kept(d, db, L) /\ d.rows = db.rows /\ d.held = db.held
           /\ d.index = db.index /\ d.fields = db.fields /\ d.order = db.order
           /\ d.table_list = [db.table_list EXCEPT ![r] = @ \cup {T}]
<1>1. db \in Databases
  BY DEF Good
<1>2. /\ d.rows = db.rows /\ d.held = db.held
      /\ d.index = db.index /\ d.fields = db.fields /\ d.order = db.order
      /\ d.table_list = [db.table_list EXCEPT ![r] = @ \cup {T}]
      /\ d \in Databases
  BY <1>1 DEF Remembering, Databases
<1>3. Kept(d, db, L)
  BY <1>2, BooksKept
<1> QED
  BY <1>2, <1>3

\* TableImplementation::insert: all fields filed, or the row rejected.
LEMMA InsertRowKept ==
    ASSUME NEW L, NEW db, Good(db, L), NEW T \in Tables, T \in L, NEW r \in Rows,
           NEW d, d = InsertRow(db, T, r)
    PROVE  /\ Good(d, L) /\ (Ordered(db) => Ordered(d))
           /\ Tidy(db) /\ NotIn(db, T, r) => Tidy(d)
           /\ d.held = db.held /\ d.order = db.order
           /\ \A q \in Rows, j \in Slots : q # r => d.fields[q][j] = db.fields[q][j]
           /\ \A j \in UsedSlots(db, r) :
                 d.fields[r][j].indexed_at
                    \subseteq db.fields[r][j].indexed_at \cup {<<T, db.fields[r][j].key>>}
           /\ \A q \in Rows : q # r => d.table_list[q] = db.table_list[q]
           /\ d.rows = db.rows \/ RowIn(d, db, T, r)
<1>1. PICK e : e = Remembering(db, T, r)
  OBVIOUS
<1>2. /\ Kept(e, db, L) /\ e.rows = db.rows /\ e.held = db.held
      /\ e.index = db.index /\ e.fields = db.fields /\ e.order = db.order
      /\ e.table_list = [db.table_list EXCEPT ![r] = @ \cup {T}]
  BY <1>1, Remembered
<1>3. Good(e, L) /\ (Tidy(db) => Tidy(e)) /\ (Ordered(db) => Ordered(e))
  BY <1>2 DEF Kept
<1>4. UsedSlots(e, r) = UsedSlots(db, r)
  BY <1>2 DEF UsedSlots
<1>5. NotIn(db, T, r) => NotIn(e, T, r)
  BY <1>2, <1>4 DEF NotIn
<1>6. PICK x : x = FileFields(e, T, r)
  OBVIOUS
<1>7. FiledUpTo(x, e, L, T, r, Len(e.order[r]))
  BY <1>3, <1>6, FileFieldsFiled
<1>8. /\ x \in FilingStates
      /\ Good(x.db, L) /\ SameRows(x.db, e)
      /\ Tidy(e) /\ NotIn(e, T, r) => Tidy(x.db)
      /\ \A q \in Rows, j \in Slots : q # r => x.db.fields[q][j] = e.fields[q][j]
      /\ \A j \in UsedSlots(e, r) :
            x.db.fields[r][j].indexed_at
               \subseteq e.fields[r][j].indexed_at \cup {<<T, e.fields[r][j].key>>}
      /\ \A j \in ToSet(x.filed) : j \in UsedSlots(e, r) /\ e.fields[r][j].key \in Columns
  BY <1>7 DEF FiledUpTo
<1>9. Ordered(e) => Ordered(x.db)
  BY <1>3, <1>8, OrderedKept DEF Good
<1>a. db \in Databases /\ e \in Databases /\ x.db \in Databases /\ OrdersExact(e)
  BY <1>3, <1>8 DEF Good
<1>b. \A q \in Rows : q # r => e.table_list[q] = db.table_list[q]
  BY <1>2, <1>a DEF Databases
<1>c. CASE ~Accepts(db, T, r)
  <2>1. d = db
    BY <1>c DEF InsertRow
  <2> QED
    BY <2>1
<1>d. CASE Accepts(db, T, r) /\ x.failed
  <2>1. d = RollBack(x.db, T, r, x.filed)
    BY <1>1, <1>6, <1>d DEF InsertRow, Remembering
  <2>2. PICK s \in Seq(Slots) : s = x.filed
    BY <1>8 DEF FilingStates
  <2>3. \A i \in ToSet(s) : i \in UsedSlots(x.db, r) /\ x.db.fields[r][i].key \in Columns
    BY <1>8, <2>2 DEF SameRows, UsedSlots
  <2>4. PICK y : y = x.db
    OBVIOUS
  <2>5. LessOf(d, y, L, T, r)
    BY <1>8, <2>1, <2>2, <2>3, <2>4, RollBackLess
  <2>6. Good(d, L) /\ (Tidy(x.db) => Tidy(d)) /\ (Ordered(x.db) => Ordered(d))
        /\ SameRows(d, x.db)
    BY <2>4, <2>5 DEF LessOf, Kept
  <2>7. d.held = db.held /\ d.order = db.order /\ d.rows = db.rows
        /\ d.table_list = e.table_list
    BY <1>2, <1>8, <2>6 DEF SameRows
  <2>8. \A q \in Rows, j \in Slots : q # r => d.fields[q][j] = db.fields[q][j]
    BY <1>2, <1>8, <2>4, <2>5 DEF LessOf
  <2>9. UsedSlots(x.db, r) = UsedSlots(db, r)
    BY <1>2, <1>8 DEF SameRows, UsedSlots
  <2>10. \A j \in UsedSlots(db, r) : d.fields[r][j].indexed_at \subseteq y.fields[r][j].indexed_at
    BY <2>4, <2>5, <2>9 DEF LessOf
  <2>11. \A j \in UsedSlots(db, r) :
            d.fields[r][j].indexed_at
               \subseteq db.fields[r][j].indexed_at \cup {<<T, db.fields[r][j].key>>}
    BY <1>2, <1>4, <1>8, <2>4, <2>10
  <2> QED
    BY <1>3, <1>5, <1>8, <1>9, <1>b, <2>6, <2>7, <2>8, <2>11
<1>e. CASE Accepts(db, T, r) /\ ~x.failed
  <2>1. PICK y : y = x.db
    OBVIOUS
  <2>2. d = [y EXCEPT !.rows[T] = @ \cup {r}]
    BY <1>1, <1>6, <1>e, <2>1 DEF InsertRow, Remembering
  <2>3. y \in Databases /\ Good(y, L) /\ SameRows(y, e)
    BY <1>8, <1>a, <2>1
  <2>4. /\ d \in Databases /\ d.index = y.index /\ d.fields = y.fields
        /\ d.order = y.order /\ d.held = y.held /\ d.table_list = y.table_list
        /\ d.rows = [y.rows EXCEPT ![T] = @ \cup {r}]
    <3>1. PICK w \in [Tables -> SUBSET Rows] : w = [y.rows EXCEPT ![T] = @ \cup {r}]
      BY <2>3 DEF Databases
    <3>2. d = [y EXCEPT !.rows = w]
      BY <2>2, <3>1
    <3> QED
      BY <2>3, <3>1, <3>2 DEF Databases
  <2>5. Kept(d, y, L)
    BY <2>3, <2>4, BooksKept
  <2>6. Good(d, L) /\ (Tidy(x.db) => Tidy(d)) /\ (Ordered(x.db) => Ordered(d))
    BY <2>1, <2>5 DEF Kept
  <2>7. d.held = db.held /\ d.order = db.order /\ d.table_list = e.table_list
        /\ y.rows = db.rows
    BY <1>2, <2>3, <2>4 DEF SameRows
  <2>8. r \notin db.rows[T]
    BY <1>e DEF Accepts
  <2>9. PICK s \in Seq(Slots) : s = e.order[r] /\ ToSet(s) = UsedSlots(e, r)
    BY <1>a DEF OrdersExact, Databases
  <2>10. \A l \in 1 .. Len(s) :
            e.fields[r][s[l]].key \in Columns
               => <<T, e.fields[r][s[l]].key>> \in y.fields[r][s[l]].indexed_at
    <3>1. \A l \in 1 .. Len(s) : l <= Len(s)
      OBVIOUS
    <3>2. \A l \in 1 .. Len(s) :
             LET j == s[l]
             IN  l <= Len(s) /\ ~x.failed /\ e.fields[r][j].key \in Columns
                    => <<T, e.fields[r][j].key>> \in x.db.fields[r][j].indexed_at
      BY <1>7, <2>9 DEF FiledUpTo
    <3> QED
      BY <1>e, <2>1, <3>1, <3>2
  <2>11. ASSUME NEW j \in UsedSlots(d, r), d.fields[r][j].key \in Columns
         PROVE  <<T, d.fields[r][j].key>> \in d.fields[r][j].indexed_at
    <3>1. j \in UsedSlots(e, r) /\ d.fields[r][j].key = e.fields[r][j].key
      BY <2>3, <2>4, <2>11 DEF SameRows, UsedSlots
    <3>2. PICK l \in 1 .. Len(s) : s[l] = j
      BY <2>9, <3>1 DEF ToSet
    <3> QED
      BY <2>4, <2>10, <2>11, <3>1, <3>2
  <2>12. RowIn(d, db, T, r)
    BY <1>2, <2>4, <2>7, <2>8, <2>11 DEF RowIn
  <2>13. \A j \in UsedSlots(db, r) :
            d.fields[r][j].indexed_at
               \subseteq db.fields[r][j].indexed_at \cup {<<T, db.fields[r][j].key>>}
    BY <1>2, <1>4, <1>8, <2>1, <2>4
  <2> QED
    BY <1>2, <1>3, <1>5, <1>8, <1>9, <1>b, <2>1, <2>4, <2>6, <2>7, <2>12, <2>13
<1> QED
  BY <1>c, <1>d, <1>e

-----------------------------------------------------------------------------
(* TableImplementation::remove *)

Unfiling == INSTANCE Folding WITH Op <- LAMBDA T, r, c, i, d : Unfile(d, T, r, i)

UnfileLoop(db, T, r, s) ==
    LET step(d, i) == Unfile(d, T, r, i) IN FoldLeft(step, db, s)

\* The loop of remove over the fields, as a fold to which the rules apply.
LEMMA UnfileIsFold ==
    ASSUME NEW db, NEW T, NEW r, NEW s
    PROVE  UnfileLoop(db, T, r, s) = Unfiling!SeqFold(T, r, 0, db, s)
  BY DEF UnfileLoop, FoldLeft, MapThenFoldSet, Unfiling!SeqFold, Unfiling!Greatest, Max

\* The first k fields of map r are in no index of T any more.
UnfiledUpTo(d, db, L, T, r, k) ==
    /\ LessOf(d, db, L, T, r)
    /\ \A l \in 1 .. Len(db.order[r]) :
          LET j == db.order[r][l]
          IN  l <= k /\ db.fields[r][j].key \in Columns
                 => <<T, db.fields[r][j].key>> \notin d.fields[r][j].indexed_at

\* One field more is taken out.
LEMMA UnfileOneMore ==
    ASSUME NEW L, NEW db, Good(db, L), NEW T \in Tables, NEW r \in Rows,
           NEW k \in 1 .. Len(db.order[r]), NEW i, i = db.order[r][k],
           NEW d, UnfiledUpTo(d, db, L, T, r, k - 1), NEW e, e = Unfile(d, T, r, i)
    PROVE  UnfiledUpTo(e, db, L, T, r, k)
<1>1. LessOf(d, db, L, T, r) /\ Good(d, L) /\ SameRows(d, db)
  BY DEF UnfiledUpTo, LessOf, Kept
<1>2. PICK s \in Seq(Slots) : s = db.order[r] /\ ToSet(s) = UsedSlots(db, r)
  BY DEF Good, Databases, OrdersExact
<1>3. \A l \in 1 .. Len(s) : s[l] \in UsedSlots(db, r)
  BY <1>2 DEF ToSet
<1>4. i \in UsedSlots(db, r) /\ i \in Slots /\ d.fields[r][i] # NoField
      /\ d.fields[r][i].key = db.fields[r][i].key
  BY <1>1, <1>2, <1>3 DEF UsedSlots, SameRows
<1>5. \A l \in 1 .. Len(s) :
         LET j == s[l]
         IN  l <= k - 1 /\ db.fields[r][j].key \in Columns
                => <<T, db.fields[r][j].key>> \notin d.fields[r][j].indexed_at
  BY <1>2 DEF UnfiledUpTo
<1>6. ASSUME LessOf(e, d, L, T, r),
             db.fields[r][i].key \in Columns
                => <<T, db.fields[r][i].key>> \notin e.fields[r][i].indexed_at
      PROVE  UnfiledUpTo(e, db, L, T, r, k)
  <2>1. LessOf(e, db, L, T, r)
    BY <1>1, <1>6, LessOfTransitive
  <2>2. ASSUME NEW l \in 1 .. Len(s), l <= k, db.fields[r][s[l]].key \in Columns
        PROVE  <<T, db.fields[r][s[l]].key>> \notin e.fields[r][s[l]].indexed_at
    <3>1. s[l] \in UsedSlots(d, r)
      BY <1>1, <1>3 DEF SameRows, UsedSlots
    <3>2. e.fields[r][s[l]].indexed_at \subseteq d.fields[r][s[l]].indexed_at
      BY <1>6, <3>1 DEF LessOf
    <3>3. CASE l = k
      BY <1>2, <1>6, <2>2, <3>3
    <3>4. CASE l # k
      <4>1. l <= k - 1
        BY <2>2, <3>4
      <4>2. <<T, db.fields[r][s[l]].key>> \notin d.fields[r][s[l]].indexed_at
        BY <1>5, <2>2, <4>1
      <4> QED
        BY <3>2, <4>2
    <3> QED
      BY <3>3, <3>4
  <2> QED
    BY <1>2, <2>1, <2>2 DEF UnfiledUpTo
<1>7. CASE db.fields[r][i].key \in Columns
  <2>1. PICK c \in Columns : c = d.fields[r][i].key
    BY <1>4, <1>7
  <2>2. e = remove(d, T, c, <<r, i>>)
    BY <1>7, <2>1 DEF Unfile
  <2>3. LessOf(e, d, L, T, r) /\ <<T, c>> \notin e.fields[r][i].indexed_at
    BY <1>1, <1>4, <2>2, RemoveLess
  <2> QED
    BY <1>4, <1>6, <2>1, <2>3
<1>8. CASE db.fields[r][i].key \notin Columns
  <2>1. e = d
    BY <1>4, <1>8 DEF Unfile
  <2> QED
    BY <1>1, <1>6, <1>8, <2>1, LessOfItself
<1> QED
  BY <1>7, <1>8

\* None of the fields is in the table's indexes any more.
LEMMA UnfileLoopDone ==
    ASSUME NEW L, NEW db, Good(db, L), NEW T \in Tables, NEW r \in Rows
    PROVE  UnfiledUpTo(UnfileLoop(db, T, r, db.order[r]), db, L, T, r, Len(db.order[r]))
<1>1. PICK s \in Seq(Slots) : s = db.order[r]
  BY DEF Good, Databases
<1>2. PICK n \in Nat : n = Len(s)
  OBVIOUS
<1> DEFINE D == [k \in 0..n |-> {d \in Databases : UnfiledUpTo(d, db, L, T, r, k)}]
<1>3. db \in D[0]
  <2>1. \A l \in 1 .. Len(s) : ~(l <= 0)
    OBVIOUS
  <2>2. UnfiledUpTo(db, db, L, T, r, 0)
    BY <1>1, <2>1, LessOfItself DEF UnfiledUpTo
  <2> QED
    BY <2>2 DEF Good
<1>4. ASSUME NEW k \in 1..n, NEW d \in D[k - 1]
      PROVE  Unfile(d, T, r, s[k]) \in D[k]
  <2>1. k \in 1 .. Len(db.order[r]) /\ s[k] = db.order[r][k] /\ k - 1 \in 0..n /\ k \in 0..n
    BY <1>1, <1>2
  <2>2. UnfiledUpTo(d, db, L, T, r, k - 1)
    BY <1>4, <2>1
  <2>3. PICK e : e = Unfile(d, T, r, s[k])
    OBVIOUS
  <2>4. UnfiledUpTo(e, db, L, T, r, k)
    BY <2>1, <2>2, <2>3, UnfileOneMore
  <2>5. e \in Databases
    BY <2>4 DEF UnfiledUpTo, LessOf, Kept, Good
  <2> QED
    BY <2>1, <2>3, <2>4, <2>5
<1>5. PICK E : E = D
  OBVIOUS
<1>6. db \in E[0] /\ \A k \in 1 .. Len(s) : \A d \in E[k - 1] :
         Unfile(d, T, r, s[k]) \in E[k]
  BY <1>2, <1>3, <1>4, <1>5
<1>7. Unfiling!SeqFold(T, r, 0, db, s) \in E[Len(s)]
  BY <1>6, Unfiling!SeqFoldRule
<1>8. UnfileLoop(db, T, r, s) \in D[n]
  BY <1>2, <1>5, <1>7, UnfileIsFold
<1> QED
  BY <1>1, <1>2, <1>8

\* Map r knows of no place in T.
KnowsNot(db, T, r) ==
    \A j \in UsedSlots(db, r) : \A x \in db.fields[r][j].indexed_at : x[1] # T

\* The table and the row know nothing of each other any more.
LEMMA RemoveRowKept ==
    ASSUME NEW L, NEW db, Good(db, L), NEW T \in Tables, NEW r \in Rows,
           NEW d, d = RemoveRow(db, T, r)
    PROVE  /\ Kept(d, db, L) /\ KnowsNot(d, T, r)
           /\ d.held = db.held /\ d.rows = [db.rows EXCEPT ![T] = @ \ {r}]
           /\ d.table_list = [db.table_list EXCEPT ![r] = @ \ {T}]
           /\ \A q \in Rows, j \in Slots : q # r => d.fields[q][j] = db.fields[q][j]
           /\ \A q \in Rows : UsedSlots(d, q) = UsedSlots(db, q)
           /\ \A j \in UsedSlots(db, r) :
                 d.fields[r][j].indexed_at \subseteq db.fields[r][j].indexed_at
<1>1. db \in Databases
  BY DEF Good
<1>2. PICK e : e = [db EXCEPT !.table_list[r] = @ \ {T}]
  OBVIOUS
<1>3. PICK w \in [Rows -> SUBSET Tables] : w = [db.table_list EXCEPT ![r] = @ \ {T}]
  BY <1>1 DEF Databases
<1>4. /\ e \in Databases /\ e.rows = db.rows /\ e.held = db.held
      /\ e.index = db.index /\ e.fields = db.fields /\ e.order = db.order
      /\ e.table_list = w
  <2>1. e = [db EXCEPT !.table_list = w]
    BY <1>2, <1>3
  <2> QED
    BY <1>1, <1>3, <2>1 DEF Databases
<1>5. Kept(e, db, L) /\ Good(e, L)
  BY <1>4, BooksKept DEF Kept
<1>6. PICK y : y = UnfileLoop(e, T, r, e.order[r])
  OBVIOUS
<1>7. UnfiledUpTo(y, e, L, T, r, Len(e.order[r]))
  BY <1>5, <1>6, UnfileLoopDone
<1>8. LessOf(y, e, L, T, r) /\ Kept(y, e, L) /\ SameRows(y, e) /\ Good(y, L)
      /\ y \in Databases /\ OrdersExact(e) /\ PointersTrue(y, L)
  BY <1>5, <1>7 DEF UnfiledUpTo, LessOf, Kept, Good
<1>9. d = [y EXCEPT !.rows[T] = @ \ {r}]
  BY <1>2, <1>6 DEF RemoveRow, UnfileLoop
<1>10. PICK v \in [Tables -> SUBSET Rows] : v = [y.rows EXCEPT ![T] = @ \ {r}]
  BY <1>8 DEF Databases
<1>11. /\ d \in Databases /\ d.index = y.index /\ d.fields = y.fields
       /\ d.order = y.order /\ d.held = y.held /\ d.table_list = y.table_list
       /\ d.rows = v
  <2>1. d = [y EXCEPT !.rows = v]
    BY <1>9, <1>10
  <2> QED
    BY <1>8, <1>10, <2>1 DEF Databases
<1>12. Kept(d, y, L)
  BY <1>8, <1>11, BooksKept
<1>13. Kept(d, db, L)
  BY <1>5, <1>8, <1>12, KeptTransitive
<1>14. KnowsNot(d, T, r)
  <2> SUFFICES ASSUME NEW j \in UsedSlots(d, r), NEW x \in d.fields[r][j].indexed_at,
                      x[1] = T
               PROVE  FALSE
    BY DEF KnowsNot
  <2>1. PICK s \in Seq(Slots) : s = e.order[r] /\ ToSet(s) = UsedSlots(e, r)
    BY <1>4, <1>8 DEF Databases, OrdersExact
  <2>2. j \in UsedSlots(y, r) /\ j \in UsedSlots(e, r) /\ j \in Slots
        /\ y.fields[r][j] # NoField
    BY <1>8, <1>11 DEF SameRows, UsedSlots
  <2>3. PICK l \in 1 .. Len(s) : s[l] = j
    BY <2>1, <2>2 DEF ToSet
  <2>4. x \in y.fields[r][j].indexed_at /\ y.fields[r][j].indexed_at \in SUBSET Places
    BY <1>8, <1>11, <2>2, IsField
  <2>5. x[2] = y.fields[r][j].key
    BY <1>8, <2>2, <2>4 DEF PointersTrue
  <2>6. PICK c \in Columns : c = x[2] /\ x = <<T, c>>
    BY <2>4 DEF Places
  <2>7. c = e.fields[r][j].key
    BY <1>8, <2>2, <2>5, <2>6 DEF SameRows, UsedSlots
  <2>8. l <= Len(s)
    OBVIOUS
  <2>9. <<T, c>> \notin y.fields[r][j].indexed_at
    BY <1>7, <2>1, <2>3, <2>6, <2>7, <2>8 DEF UnfiledUpTo
  <2> QED
    BY <2>4, <2>6, <2>9
<1>15. \A q \in Rows : UsedSlots(d, q) = UsedSlots(db, q)
  BY <1>4, <1>8, <1>11 DEF SameRows, UsedSlots
<1>16. \A q \in Rows, j \in Slots : q # r => d.fields[q][j] = db.fields[q][j]
  BY <1>4, <1>8, <1>11 DEF LessOf
<1>17. \A j \in UsedSlots(db, r) :
          d.fields[r][j].indexed_at \subseteq db.fields[r][j].indexed_at
  <2>1. UsedSlots(db, r) = UsedSlots(e, r)
    BY <1>4 DEF UsedSlots
  <2> QED
    BY <1>4, <1>8, <1>11, <2>1 DEF LessOf
<1>18. d.held = db.held /\ d.rows = v /\ d.table_list = w /\ y.rows = db.rows
  BY <1>4, <1>8, <1>11 DEF SameRows
<1> QED
  BY <1>3, <1>10, <1>13, <1>14, <1>15, <1>16, <1>17, <1>18

-----------------------------------------------------------------------------
(* Index::clear, and the tables that are cleared *)

\* d is db but that there is less in indexes, and what fields know is less.
Shrunk(d, db, L) ==
    /\ Kept(d, db, L) /\ SameRows(d, db)
    /\ \A r \in Rows : \A j \in UsedSlots(db, r) :
          d.fields[r][j].indexed_at \subseteq db.fields[r][j].indexed_at
    /\ Fewer(d, db)

\* Less of less is less.
LEMMA ShrunkTransitive ==
    ASSUME NEW L, NEW d, NEW e, NEW f, Shrunk(d, e, L), Shrunk(e, f, L)
    PROVE  Shrunk(d, f, L)
<1>1. Kept(d, f, L) /\ SameRows(d, f)
  BY KeptTransitive, SameRowsTransitive DEF Shrunk
<1>2. \A r \in Rows : UsedSlots(e, r) = UsedSlots(f, r)
  BY DEF Shrunk, SameRows, UsedSlots
<1>3. \A r \in Rows : \A j \in UsedSlots(f, r) :
         d.fields[r][j].indexed_at \subseteq f.fields[r][j].indexed_at
  BY <1>2 DEF Shrunk
<1>4. Fewer(d, f)
  BY DEF Shrunk, Fewer
<1> QED
  BY <1>1, <1>3, <1>4 DEF Shrunk

\* Nothing is taken out yet.
LEMMA ShrunkItself ==
    ASSUME NEW L, NEW db, Good(db, L)
    PROVE  Shrunk(db, db, L)
  BY DEF Shrunk, Kept, SameRows, Fewer

\* One place is taken out of an index.
LEMMA RemoveShrinks ==
    ASSUME NEW L, NEW db, Good(db, L), NEW T \in Tables, NEW c \in Columns,
           NEW r \in Rows, NEW i \in Slots, db.fields[r][i] # NoField,
           NEW d, d = remove(db, T, c, <<r, i>>)
    PROVE  Shrunk(d, db, L) /\ <<T, c>> \notin d.fields[r][i].indexed_at
<1>1. Kept(d, db, L) /\ SameRows(d, db) /\ Fewer(d, db)
  BY RemoveKept
<1>2. LessOf(d, db, L, T, r) /\ <<T, c>> \notin d.fields[r][i].indexed_at
  BY RemoveLess
<1>3. ASSUME NEW q \in Rows, NEW j \in UsedSlots(db, q)
      PROVE  d.fields[q][j].indexed_at \subseteq db.fields[q][j].indexed_at
  <2>1. CASE q = r
    BY <1>2, <2>1 DEF LessOf
  <2>2. CASE q # r
    BY <1>2, <2>2 DEF LessOf, UsedSlots
  <2> QED
    BY <2>1, <2>2
<1> QED
  BY <1>1, <1>2, <1>3 DEF Shrunk

Clearing == INSTANCE Folding WITH Op <- LAMBDA T, c, b, n, d : remove(d, T, c, n)

\* The loop of Index::clear, as a fold to which the rules apply.
LEMMA ClearIsFold ==
    ASSUME NEW db, NEW T, NEW c
    PROVE  clear(db, T, c) = Clearing!SeqFold(T, c, 0, db, db.index[T][c])
  BY DEF clear, FoldLeft, MapThenFoldSet, Clearing!SeqFold, Clearing!Greatest, Max

\* The indexes of T have only fields that are there.
Whole(db, T) ==
    \A c \in Columns : \A n \in ToSet(db.index[T][c]) : db.fields[n[1]][n[2]] # NoField

\* What is less has no field that is gone.
LEMMA ShrunkWhole ==
    ASSUME NEW L, NEW d, NEW db, Good(db, L), Shrunk(d, db, L), NEW T \in Tables,
           Whole(db, T)
    PROVE  Whole(d, T)
<1>1. ASSUME NEW c \in Columns, NEW n \in ToSet(d.index[T][c])
      PROVE  d.fields[n[1]][n[2]] # NoField
  <2>1. n \in ToSet(db.index[T][c])
    BY <1>1 DEF Shrunk, Fewer
  <2>2. n \in Nodes
    BY <2>1, InIndex DEF Good
  <2>3. n[1] \in Rows /\ n[2] \in Slots /\ db.fields[n[1]][n[2]] # NoField
    BY <1>1, <2>1, <2>2 DEF Whole, Nodes
  <2> QED
    BY <2>3 DEF Shrunk, SameRows
<1> QED
  BY <1>1 DEF Whole

\* No field knows of a place in column c of T.
NoneIn(db, T, c) ==
    \A r \in Rows : \A j \in UsedSlots(db, r) : <<T, c>> \notin db.fields[r][j].indexed_at

\* A column that is cleared stays so while others are.
LEMMA ShrunkNoneIn ==
    ASSUME NEW L, NEW d, NEW db, Shrunk(d, db, L), NEW T, NEW c, NoneIn(db, T, c)
    PROVE  NoneIn(d, T, c)
<1>1. \A r \in Rows : UsedSlots(d, r) = UsedSlots(db, r)
  BY DEF Shrunk, SameRows, UsedSlots
<1> QED
  BY <1>1 DEF Shrunk, NoneIn

\* The first k fields of the index are out of it.
ClearedUpTo(d, db, L, T, c, k) ==
    /\ Shrunk(d, db, L)
    /\ \A l \in 1 .. Len(db.index[T][c]) :
          LET n == db.index[T][c][l]
          IN  l <= k => <<T, c>> \notin d.fields[n[1]][n[2]].indexed_at

\* One field more is out of the index.
LEMMA ClearOneMore ==
    ASSUME NEW L, NEW db, Good(db, L), NEW T \in Tables, NEW c \in Columns, Whole(db, T),
           NEW k \in 1 .. Len(db.index[T][c]), NEW m, m = db.index[T][c][k],
           NEW d, ClearedUpTo(d, db, L, T, c, k - 1), NEW e, e = remove(d, T, c, m)
    PROVE  ClearedUpTo(e, db, L, T, c, k)
<1>1. Shrunk(d, db, L) /\ Good(d, L) /\ SameRows(d, db)
  BY DEF ClearedUpTo, Shrunk, Kept
<1>2. PICK s \in Seq(Nodes) : s = db.index[T][c]
  BY InIndex DEF Good
<1>3. \A l \in 1 .. Len(s) : s[l] \in Nodes /\ db.fields[s[l][1]][s[l][2]] # NoField
  BY <1>2 DEF Whole, ToSet
<1>a. m = s[k] /\ k \in 1 .. Len(s)
  BY <1>2
<1>b. m \in Nodes
  BY <1>3, <1>a
<1>4. PICK r \in Rows, i \in Slots : m = <<r, i>> /\ m[1] = r /\ m[2] = i
  BY <1>b DEF Nodes
<1>5. d.fields[r][i] # NoField
  <2>1. PICK l \in 1 .. Len(s) : s[l] = m
    BY <1>2
  <2>2. db.fields[m[1]][m[2]] # NoField
    BY <1>3, <2>1
  <2>3. db.fields[r][i] # NoField
    BY <1>4, <2>2
  <2> QED
    BY <1>1, <2>3 DEF SameRows
<1>6. Shrunk(e, d, L) /\ <<T, c>> \notin e.fields[r][i].indexed_at
  BY <1>1, <1>4, <1>5, RemoveShrinks
<1>7. Shrunk(e, db, L)
  BY <1>1, <1>6, ShrunkTransitive
<1>8. ASSUME NEW l \in 1 .. Len(s), l <= k
      PROVE  <<T, c>> \notin e.fields[s[l][1]][s[l][2]].indexed_at
  <2>1. CASE l = k
    BY <1>2, <1>4, <1>6, <2>1
  <2>2. CASE l # k
    <3>1. l <= k - 1
      BY <1>8, <2>2
    <3>2. <<T, c>> \notin d.fields[s[l][1]][s[l][2]].indexed_at
      BY <1>2, <3>1 DEF ClearedUpTo
    <3>3. PICK q \in Rows, j \in Slots : s[l][1] = q /\ s[l][2] = j
      BY <1>3 DEF Nodes
    <3>4. j \in UsedSlots(d, q)
      BY <1>1, <1>3, <3>3 DEF UsedSlots, SameRows
    <3>5. e.fields[q][j].indexed_at \subseteq d.fields[q][j].indexed_at
      BY <1>6, <3>4 DEF Shrunk
    <3> QED
      BY <3>2, <3>3, <3>5
  <2> QED
    BY <2>1, <2>2
<1> QED
  BY <1>2, <1>7, <1>8 DEF ClearedUpTo

\* Index::clear leaves no field that thinks it is in the index.
LEMMA ClearKept ==
    ASSUME NEW L, NEW db, Good(db, L), NEW T \in Tables, NEW c \in Columns, Whole(db, T)
    PROVE  Shrunk(clear(db, T, c), db, L) /\ NoneIn(clear(db, T, c), T, c)
<1>1. PICK s \in Seq(Nodes) : s = db.index[T][c]
  BY InIndex DEF Good
<1>2. PICK n \in Nat : n = Len(s)
  OBVIOUS
<1> DEFINE D == [k \in 0..n |-> {d \in Databases : ClearedUpTo(d, db, L, T, c, k)}]
<1>3. db \in D[0]
  <2>1. \A l \in 1 .. Len(s) : ~(l <= 0)
    OBVIOUS
  <2>2. ClearedUpTo(db, db, L, T, c, 0)
    BY <1>1, <2>1, ShrunkItself DEF ClearedUpTo
  <2> QED
    BY <2>2 DEF Good
<1>4. ASSUME NEW k \in 1..n, NEW d \in D[k - 1]
      PROVE  remove(d, T, c, s[k]) \in D[k]
  <2>1. k \in 1 .. Len(db.index[T][c]) /\ s[k] = db.index[T][c][k]
        /\ k - 1 \in 0..n /\ k \in 0..n
    BY <1>1, <1>2
  <2>2. ClearedUpTo(d, db, L, T, c, k - 1)
    BY <1>4, <2>1
  <2>3. PICK e : e = remove(d, T, c, s[k])
    OBVIOUS
  <2>4. ClearedUpTo(e, db, L, T, c, k)
    BY <2>1, <2>2, <2>3, ClearOneMore
  <2>5. e \in Databases
    BY <2>4 DEF ClearedUpTo, Shrunk, Kept, Good
  <2> QED
    BY <2>1, <2>3, <2>4, <2>5
<1>5. PICK E : E = D
  OBVIOUS
<1>6. db \in E[0] /\ \A k \in 1 .. Len(s) : \A d \in E[k - 1] :
         remove(d, T, c, s[k]) \in E[k]
  BY <1>2, <1>3, <1>4, <1>5
<1>7. Clearing!SeqFold(T, c, 0, db, s) \in E[Len(s)]
  BY <1>6, Clearing!SeqFoldRule
<1>8. PICK d : d = clear(db, T, c)
  OBVIOUS
<1>9. d \in D[n]
  BY <1>1, <1>2, <1>5, <1>7, <1>8, ClearIsFold
<1>10. ClearedUpTo(d, db, L, T, c, n) /\ n \in 0..n
  BY <1>2, <1>9
<1>11. Shrunk(d, db, L) /\ PointersTrue(db, L) /\ SameRows(d, db)
  BY <1>10 DEF ClearedUpTo, Shrunk, Good
<1>12. ASSUME NEW r \in Rows, NEW j \in UsedSlots(d, r), <<T, c>> \in d.fields[r][j].indexed_at
       PROVE  FALSE
  <2>1. j \in UsedSlots(db, r) /\ j \in Slots /\ db.fields[r][j] # NoField
    BY <1>11, <1>12 DEF SameRows, UsedSlots
  <2>2. <<T, c>> \in db.fields[r][j].indexed_at
    BY <1>11, <1>12, <2>1 DEF Shrunk
  <2>3. PICK x \in Places : x = <<T, c>> /\ x[1] = T /\ x[2] = c
    <3>1. <<T, c>> \in Places /\ <<T, c>>[1] = T /\ <<T, c>>[2] = c
      BY DEF Places
    <3> QED
      BY <3>1
  <2>4. <<r, j>> \in ToSet(s)
    BY <1>1, <1>11, <2>1, <2>2, <2>3 DEF PointersTrue
  <2>5. PICK l \in 1 .. Len(s) : s[l] = <<r, j>> /\ l <= n
    BY <1>2, <2>4 DEF ToSet
  <2>6. PICK m \in Nodes : m = s[l] /\ m[1] = r /\ m[2] = j
    BY <2>1, <2>5, IsNode
  <2>7. <<T, c>> \notin d.fields[m[1]][m[2]].indexed_at
    BY <1>1, <1>10, <2>5, <2>6 DEF ClearedUpTo
  <2> QED
    BY <1>12, <2>6, <2>7
<1> QED
  BY <1>8, <1>11, <1>12 DEF NoneIn

ClearingAll == INSTANCE Folding WITH Op <- LAMBDA T, a, b, c, d : clear(d, T, c)

ClearLoop(db, T, S) ==
    LET step(c, d) == clear(d, T, c) IN FoldSet(step, db, S)

\* The loop over the columns, as a fold to which the rules apply.
LEMMA ClearLoopIsFold ==
    ASSUME NEW db, NEW T, NEW S
    PROVE  ClearLoop(db, T, S) = ClearingAll!SetFold(T, 0, 0, db, S)
  BY DEF ClearLoop, FoldSet, MapThenFoldSet, ClearingAll!SetFold, ClearingAll!Any

\* No field thinks it is in any index of the table.
LEMMA ClearLoopKept ==
    ASSUME NEW L, NEW db, Good(db, L), NEW T \in Tables, Whole(db, T)
    PROVE  /\ Shrunk(ClearLoop(db, T, Columns), db, L)
           /\ \A c \in Columns : NoneIn(ClearLoop(db, T, Columns), T, c)
<1>1. PICK S \in SUBSET Columns : S = Columns
  OBVIOUS
<1> DEFINE D == [s \in SUBSET S |-> {d \in Databases : /\ Shrunk(d, db, L)
                                                      /\ \A c \in s : NoneIn(d, T, c)}]
<1>2. db \in D[{}]
  BY ShrunkItself DEF Good
<1>3. ASSUME NEW s \in SUBSET S, NEW c \in s, NEW d \in D[s \ {c}]
      PROVE  clear(d, T, c) \in D[s]
  <2>1. s \ {c} \in SUBSET S /\ c \in Columns
    OBVIOUS
  <2>2. Shrunk(d, db, L) /\ \A b \in s \ {c} : NoneIn(d, T, b)
    BY <1>3, <2>1
  <2>3. Good(d, L) /\ Whole(d, T)
    BY <2>2, ShrunkWhole DEF Shrunk, Kept
  <2>4. PICK e : e = clear(d, T, c)
    OBVIOUS
  <2>5. Shrunk(e, d, L) /\ NoneIn(e, T, c)
    BY <2>1, <2>3, <2>4, ClearKept
  <2>6. Shrunk(e, db, L)
    BY <2>2, <2>5, ShrunkTransitive
  <2>7. ASSUME NEW b \in s PROVE NoneIn(e, T, b)
    <3>1. CASE b = c
      BY <2>5, <3>1
    <3>2. CASE b # c
      BY <2>2, <2>5, <3>2, ShrunkNoneIn
    <3> QED
      BY <3>1, <3>2
  <2>8. e \in Databases
    BY <2>6 DEF Shrunk, Kept, Good
  <2> QED
    BY <2>4, <2>6, <2>7, <2>8
<1>4. PICK E : E = D
  OBVIOUS
<1>5. db \in E[{}] /\ \A s \in SUBSET S : \A c \in s : \A d \in E[s \ {c}] :
         clear(d, T, c) \in E[s]
  BY <1>2, <1>3, <1>4
<1>6. IsFiniteSet(S) /\ ClearingAll!IsFiniteSet(S)
  <2>1. IsFiniteSet(S)
    BY TableAssumption, FS_Subset
  <2> QED
    BY <2>1 DEF IsFiniteSet, ClearingAll!IsFiniteSet
<1>7. ClearingAll!SetFold(T, 0, 0, db, S) \in E[S]
  BY <1>5, <1>6, ClearingAll!SetFoldRule
<1>8. ClearLoop(db, T, S) \in D[S]
  BY <1>4, <1>7, ClearLoopIsFold
<1> QED
  BY <1>1, <1>8

\* d is db without the rows of T; no field knows of a place in it any more.
Cleared(d, db, L, T) ==
    /\ Kept(d, db, L) /\ Good(d, L \ {T})
    /\ \A r \in Rows : KnowsNot(d, T, r)
    /\ d.held = db.held /\ d.rows = [db.rows EXCEPT ![T] = {}]
    /\ d.table_list = db.table_list
    /\ \A r \in Rows : /\ UsedSlots(d, r) = UsedSlots(db, r)
                       /\ \A j \in UsedSlots(db, r) :
                             d.fields[r][j].indexed_at \subseteq db.fields[r][j].indexed_at

\* The rows are gone from the table, and nothing refers to it.
LEMMA ClearedTableKept ==
    ASSUME NEW L, NEW db, db = Database, Good(db, L), NEW T \in Tables, Whole(db, T),
           NEW d, d = ClearedTable(T)
    PROVE  Cleared(d, db, L, T)
<1>1. PICK e : e = ClearLoop(db, T, Columns)
  OBVIOUS
<1>2. Shrunk(e, db, L) /\ \A c \in Columns : NoneIn(e, T, c)
  BY <1>1, ClearLoopKept
<1>3. e \in Databases /\ Good(e, L) /\ SameRows(e, db)
  BY <1>2 DEF Shrunk, Kept, Good
<1>4. d = [e EXCEPT !.rows[T] = {}]
  BY <1>1 DEF ClearedTable, ClearLoop
<1>5. PICK w \in [Tables -> SUBSET Rows] : w = [e.rows EXCEPT ![T] = {}]
  BY <1>3 DEF Databases
<1>6. d = [e EXCEPT !.rows = w]
  BY <1>4, <1>5
<1>7. /\ d \in Databases /\ d.index = e.index /\ d.fields = e.fields
      /\ d.order = e.order /\ d.held = e.held /\ d.table_list = e.table_list
      /\ d.rows = w
  BY <1>3, <1>5, <1>6 DEF Databases
<1>8. Kept(d, e, L)
  BY <1>3, <1>7, BooksKept
<1>9. Kept(d, db, L) /\ Good(d, L)
  BY <1>2, <1>8, KeptTransitive DEF Shrunk, Kept
<1>10. \A r \in Rows : UsedSlots(d, r) = UsedSlots(db, r) /\ UsedSlots(d, r) = UsedSlots(e, r)
  BY <1>3, <1>7 DEF SameRows, UsedSlots
<1>11. ASSUME NEW r \in Rows, NEW j \in UsedSlots(d, r), NEW x \in d.fields[r][j].indexed_at
       PROVE  x[1] # T
  <2>1. j \in Slots /\ d.fields[r][j] # NoField
    BY DEF UsedSlots
  <2>2. x \in Places
    BY <1>7, <2>1, IsField
  <2>3. PICK U \in Tables, c \in Columns : x = <<U, c>> /\ x[1] = U
    BY <2>2 DEF Places
  <2>4. <<T, c>> \notin d.fields[r][j].indexed_at
    BY <1>2, <1>7, <1>10 DEF NoneIn
  <2> QED
    BY <2>3, <2>4
<1>12. Good(d, L \ {T})
  <2>1. ASSUME NEW r \in Rows, NEW j \in Slots, d.fields[r][j] # NoField,
               NEW x \in d.fields[r][j].indexed_at
        PROVE  /\ x[1] \in L \ {T} /\ x[2] = d.fields[r][j].key
               /\ <<r, j>> \in ToSet(d.index[x[1]][x[2]])
    <3>1. j \in UsedSlots(d, r)
      BY <2>1 DEF UsedSlots
    <3>2. x[1] # T
      BY <1>11, <2>1, <3>1
    <3> QED
      BY <1>9, <2>1, <3>2 DEF Good, PointersTrue
  <2>2. PointersTrue(d, L \ {T})
    BY <2>1 DEF PointersTrue
  <2> QED
    BY <1>9, <2>2 DEF Good
<1>13. ASSUME NEW r \in Rows, NEW j \in UsedSlots(db, r)
       PROVE  d.fields[r][j].indexed_at \subseteq db.fields[r][j].indexed_at
  BY <1>2, <1>7 DEF Shrunk
<1>14. d.held = db.held /\ d.table_list = db.table_list /\ e.rows = db.rows
  BY <1>3, <1>7 DEF SameRows
<1> QED
  BY <1>5, <1>7, <1>9, <1>10, <1>11, <1>12, <1>13, <1>14 DEF KnowsNot, Cleared

-----------------------------------------------------------------------------
(* Rows and their tables, as long as clients are careful *)

\* A map knows the tables it is a row of, one at most; the tables that have rows
\* exist; and a field is in indexes of a table of its map.  Of the maps in M.
MembersOf(db, L, M) ==
    /\ \A r \in M : db.table_list[r] = {T \in Tables : r \in db.rows[T]}
    /\ \A r \in M, T, U \in Tables : r \in db.rows[T] /\ r \in db.rows[U] => T = U
    /\ \A T \in Tables : db.rows[T] # {} => T \in L
    /\ \A r \in M : \A j \in UsedSlots(db, r) :
          \A x \in db.fields[r][j].indexed_at : r \in db.rows[x[1]]

Members(db, L) == MembersOf(db, L, Rows)
MembersAlive(db, L) == MembersOf(db, L, Alive(db))

\* A table keeps its rows alive.
LEMMA AliveRows ==
    ASSUME NEW db \in Databases
    PROVE  /\ Alive(db) \subseteq Rows
           /\ \A T \in Tables : db.rows[T] \subseteq Alive(db)
  BY DEF Alive, Databases

\* Maps that are destroyed were members of no table.
LEMMA ReleasedMembers ==
    ASSUME NEW L, NEW db, Good(db, L), MembersAlive(db, L), NEW d, d = Released(db)
    PROVE  Members(d, L)
<1>1. /\ Kept(d, db, L) /\ d.rows = db.rows /\ d.held = db.held
      /\ Alive(d) = Alive(db) /\ AllFreed(d)
      /\ \A r \in Alive(db) \cap Rows :
            /\ d.order[r] = db.order[r] /\ d.table_list[r] = db.table_list[r]
            /\ \A j \in Slots : d.fields[r][j] = db.fields[r][j]
  BY ReleasedKept
<1>2. db \in Databases /\ Alive(db) \subseteq Rows
      /\ \A T \in Tables : db.rows[T] \subseteq Alive(db)
  BY AliveRows DEF Good
<1>3. OrdersExact(d)
  BY <1>1 DEF Kept, Good
<1>4. ASSUME NEW r \in Rows, r \notin Alive(db)
      PROVE  d.table_list[r] = {} /\ UsedSlots(d, r) = {} /\ \A T \in Tables : r \notin d.rows[T]
  <2>1. d.order[r] = <<>> /\ d.table_list[r] = {}
    BY <1>1, <1>4 DEF AllFreed
  <2>2. ToSet(<<>>) = {}
    BY DEF ToSet
  <2> QED
    BY <1>1, <1>2, <1>3, <1>4, <2>1, <2>2 DEF OrdersExact
<1>5. ASSUME NEW r \in Rows, r \in Alive(db)
      PROVE  /\ d.table_list[r] = db.table_list[r] /\ UsedSlots(d, r) = UsedSlots(db, r)
             /\ \A j \in UsedSlots(db, r) : d.fields[r][j] = db.fields[r][j]
  BY <1>1, <1>5 DEF UsedSlots
<1>6. ASSUME NEW r \in Rows PROVE d.table_list[r] = {T \in Tables : r \in d.rows[T]}
  <2>1. CASE r \in Alive(db)
    BY <1>1, <1>5, <2>1 DEF MembersAlive, MembersOf
  <2>2. CASE r \notin Alive(db)
    BY <1>4, <2>2
  <2> QED
    BY <2>1, <2>2
<1>7. \A r \in Rows, T, U \in Tables : r \in d.rows[T] /\ r \in d.rows[U] => T = U
  BY <1>1, <1>4 DEF MembersAlive, MembersOf
<1>8. \A T \in Tables : d.rows[T] # {} => T \in L
  BY <1>1 DEF MembersAlive, MembersOf
<1>9. ASSUME NEW r \in Rows, NEW j \in UsedSlots(d, r), NEW x \in d.fields[r][j].indexed_at
      PROVE  r \in d.rows[x[1]]
  <2>1. r \in Alive(db)
    BY <1>4, <1>9
  <2>2. j \in UsedSlots(db, r) /\ x \in db.fields[r][j].indexed_at
    BY <1>5, <1>9, <2>1
  <2> QED
    BY <1>1, <2>1, <2>2 DEF MembersAlive, MembersOf
<1> QED
  BY <1>6, <1>7, <1>8, <1>9 DEF Members, MembersOf

\* What leaves the tables of the maps as they are.
LEMMA MembersStay ==
    ASSUME NEW L, NEW db \in Databases, Members(db, L), NEW d \in Databases,
           d.rows = db.rows, d.table_list = db.table_list, PointersFrom(d, db)
    PROVE  MembersAlive(d, L)
<1>1. Alive(d) \subseteq Rows
  BY AliveRows
<1>2. ASSUME NEW r \in Rows, NEW j \in UsedSlots(d, r), NEW x \in d.fields[r][j].indexed_at
      PROVE  r \in d.rows[x[1]]
  <2>1. CASE j \in UsedSlots(db, r) /\ x \in db.fields[r][j].indexed_at
    BY <2>1 DEF Members, MembersOf
  <2>2. CASE x[1] \in db.table_list[r]
    BY <2>2 DEF Members, MembersOf
  <2> QED
    BY <1>2, <2>1, <2>2 DEF PointersFrom
<1>3. \A r \in Rows : d.table_list[r] = {T \in Tables : r \in d.rows[T]}
  BY DEF Members, MembersOf
<1>4. \A r \in Rows, T, U \in Tables : r \in d.rows[T] /\ r \in d.rows[U] => T = U
  BY DEF Members, MembersOf
<1>5. \A T \in Tables : d.rows[T] # {} => T \in L
  BY DEF Members, MembersOf
<1> QED
  BY <1>1, <1>2, <1>3, <1>4, <1>5 DEF MembersAlive, MembersOf

-----------------------------------------------------------------------------
(* The invariant *)

\* The rows that tables have in db and not now are filed by all their columns.
Files(db) ==
    \A T \in Tables : \A r \in db.rows[T] \ rows[T] : \A i \in Slots :
        db.fields[r][i] # NoField /\ db.fields[r][i].key \in Columns
            => <<T, db.fields[r][i].key>> \in db.fields[r][i].indexed_at

\* What is true of a database, and how an operation may leave it before the maps
\* that nobody has any more are destroyed.
Fit(db, L) ==
    /\ Good(db, L) /\ AllFreed(db) /\ Sound(db)
    /\ Careful => Tidy(db) /\ Ordered(db) /\ Members(db, L)

Fitting(db, L) ==
    /\ Good(db, L) /\ Files(db)
    /\ Careful => Tidy(db) /\ Ordered(db) /\ MembersAlive(db, L)

\* Indexes that are in order have no value missing.
LEMMA TidySound ==
    ASSUME NEW db \in Databases, Tidy(db)
    PROVE  Sound(db)
<1> SUFFICES ASSUME NEW T \in Tables, NEW c \in Columns
             PROVE  ~Broken(db, T, c) /\ InValueOrder(db, T, c)
  BY DEF Sound
<1>1. PICK s \in Seq(Nodes) : s = db.index[T][c]
  BY InIndex
<1>2. \A j \in 1 .. Len(s) : s[j] \in ToSet(s) /\ s[j] \in Nodes /\ j \in DOMAIN s
  BY DEF ToSet
<1>3. \A n \in ToSet(s) : db.fields[n[1]][n[2]] # NoField /\ ValueAt(db, n) \in Values
  BY <1>1 DEF Tidy, Known, Sorted
<1>4. PICK f : f = ValuesOf(db)
  OBVIOUS
<1>5. \A j \in 1 .. Len(s) : f[s[j]] = ValueAt(db, s[j])
  BY <1>2, <1>4 DEF ValuesOf
<1>6. Ascending(s, f, c, UniqueColumns)
  BY <1>1, <1>4 DEF Tidy, Sorted
<1>7. ~Broken(db, T, c)
  <2>1. \A j \in DOMAIN s : s[j] \in ToSet(s)
    BY DEF ToSet
  <2>2. \A j \in DOMAIN s : LET n == s[j]
                           IN  ~(db.fields[n[1]][n[2]] = NoField \/ ValueAt(db, n) \notin Values)
    BY <1>3, <2>1
  <2> QED
    BY <1>1, <2>2 DEF Broken
<1>8. ASSUME NEW j \in 2 .. Len(s)
      PROVE  /\ ValueAt(db, s[j - 1]) <= ValueAt(db, s[j])
             /\ c \in UniqueColumns => ValueAt(db, s[j - 1]) # ValueAt(db, s[j])
  <2>1. j \in 1 .. Len(s) /\ j - 1 \in 1 .. Len(s) /\ j - 1 < j
    OBVIOUS
  <2>2. f[s[j - 1]] <= f[s[j]] /\ (c \in UniqueColumns => f[s[j - 1]] # f[s[j]])
    BY <1>6, <2>1 DEF Ascending
  <2> QED
    BY <1>5, <2>1, <2>2
<1>9. InValueOrder(db, T, c)
  BY <1>1, <1>8 DEF InValueOrder
<1> QED
  BY <1>7, <1>9

\* After the maps nobody has are destroyed, all is as it should be.
LEMMA ReleasedFit ==
    ASSUME NEW L, NEW db, Fitting(db, L), NEW d, d = Released(db)
    PROVE  /\ Good(d, L) /\ AllFreed(d)
           /\ Careful => Tidy(d) /\ Ordered(d) /\ Members(d, L) /\ Sound(d)
<1>1. Kept(d, db, L) /\ AllFreed(d) /\ Good(d, L)
  BY ReleasedKept DEF Fitting, Kept
<1>2. d \in Databases
  BY <1>1 DEF Good
<1>3. Careful => Tidy(d) /\ Ordered(d)
  BY <1>1 DEF Fitting, Kept
<1>4. Careful => Members(d, L)
  BY ReleasedMembers DEF Fitting
<1>5. Careful => Sound(d)
  BY <1>2, <1>3, TidySound
<1> QED
  BY <1>1, <1>3, <1>4, <1>5

Inv ==
    /\ TypeOK
    /\ Careful => ~corrupted
    /\ ~corrupted => Fit(Database, live)

\* A step keeps the invariant, and files the rows that tables accept.
Accepted ==
    \A T \in Tables : \A r \in rows'[T] \ rows[T] :
        \A i \in Slots :
            fields'[r][i] # NoField /\ fields'[r][i].key \in Columns
                => <<T, fields'[r][i].key>> \in fields'[r][i].indexed_at

Step == Inv' /\ Accepted

\* An operation need only show what holds before maps are destroyed.
LEMMA BecomeFit ==
    ASSUME NEW L \in SUBSET Tables, NEW db, Fitting(db, L), Become(db), live' = L,
           kind \in Kinds, kind' = kind
    PROVE  Step
<1>1. PICK d : d = Released(db)
  OBVIOUS
<1>2. /\ Good(d, L) /\ AllFreed(d)
      /\ Careful => Tidy(d) /\ Ordered(d) /\ Members(d, L) /\ Sound(d)
  BY <1>1, ReleasedFit
<1>3. d \in Databases
  BY <1>2 DEF Good
<1>4. /\ rows' = d.rows /\ index' = d.index /\ fields' = d.fields /\ order' = d.order
      /\ table_list' = d.table_list /\ held' = d.held /\ corrupted' = ~Sound(d)
  BY <1>1 DEF Become
<1>5. Database' = d
  BY <1>3, <1>4 DEF Database, Databases
<1>6. TypeOK'
  BY <1>3, <1>4 DEF TypeOK, Databases
<1>7. (Careful => ~corrupted)'
  BY <1>2, <1>4
<1>8. ASSUME ~corrupted' PROVE Fit(Database, live)'
  <2>1. Sound(d)
    BY <1>4, <1>8
  <2>2. /\ Good(Database', live') /\ AllFreed(Database') /\ Sound(Database')
        /\ Careful => Tidy(Database') /\ Members(Database', live')
    BY <1>2, <1>5, <2>1
  <2>3. ASSUME Careful PROVE Ordered(Database)'
    <3>1. Ordered(d)
      BY <1>2, <2>3
    <3> QED
      BY <1>5, <3>1 DEF Ordered
  <2> QED
    BY <2>2, <2>3 DEF Fit
<1>9. ASSUME NEW T \in Tables, NEW r \in rows'[T] \ rows[T], NEW i \in Slots,
             fields'[r][i] # NoField, fields'[r][i].key \in Columns
      PROVE  <<T, fields'[r][i].key>> \in fields'[r][i].indexed_at
  <2>1. /\ d.rows = db.rows
        /\ \A q \in Alive(db) \cap Rows :
              /\ d.order[q] = db.order[q] /\ d.table_list[q] = db.table_list[q]
              /\ \A j \in Slots : d.fields[q][j] = db.fields[q][j]
    BY <1>1, ReleasedKept DEF Fitting
  <2>2. r \in db.rows[T] \ rows[T]
    BY <1>4, <1>9, <2>1
  <2>3. r \in Alive(db) \cap Rows
    BY <2>2, AliveRows DEF Fitting, Good
  <2>4. fields'[r][i] = db.fields[r][i]
    BY <1>4, <2>1, <2>3
  <2> QED
    BY <1>9, <2>2, <2>4 DEF Fitting, Files
<1> QED
  BY <1>6, <1>7, <1>8, <1>9 DEF Inv, Step, Accepted

\* What Inv says of a step that is to come.
LEMMA Today ==
    ASSUME Inv, ~corrupted, NEW db, db = Database
    PROVE  /\ Fit(db, live) /\ Good(db, live) /\ db \in Databases
           /\ live \in SUBSET Tables /\ kind \in Kinds /\ kind \in {"map", "multimap"}
           /\ db.rows = rows /\ db.index = index /\ db.fields = fields
           /\ db.order = order /\ db.table_list = table_list /\ db.held = held
           /\ Careful => Tidy(db) /\ Ordered(db) /\ Members(db, live)
<1>1. Fit(db, live)
  BY DEF Inv
<1>2. live \in SUBSET Tables /\ kind \in Kinds
  BY DEF Inv, TypeOK
<1> QED
  BY <1>1, <1>2, TableAssumption DEF Fit, Good, Database

\* Nothing is claimed after an undefined step, which careful clients never make.
LEMMA CorruptFits ==
    ASSUME Inv, Corrupt, ~Careful, kind' = kind, live' \in SUBSET Tables
    PROVE  Step
  BY DEF Inv, Corrupt, TypeOK, Step, Accepted

\* A step that leaves the tables and their rows alone.
LEMMA StayFit ==
    ASSUME NEW L, NEW db, Fit(db, L), db.rows = rows, NEW d, Good(d, L),
           Careful => (Tidy(db) => Tidy(d)) /\ (Ordered(db) => Ordered(d)),
           d.rows = db.rows, d.table_list = db.table_list, PointersFrom(d, db)
    PROVE  Fitting(d, L)
<1>1. db \in Databases /\ d \in Databases
  BY DEF Fit, Good
<1>2. Careful => MembersAlive(d, L)
  BY <1>1, MembersStay DEF Fit
<1> QED
  BY <1>2 DEF Fit, Fitting, Files

\* A variable for a map comes or goes.
HeldPut(d, db, h) == d = [db EXCEPT !.held = h]

\* A variable for a map comes or goes.
LEMMA HeldFit ==
    ASSUME NEW L, NEW db, Fit(db, L), db.rows = rows, NEW h \in SUBSET Rows, NEW d, HeldPut(d, db, h)
    PROVE  Fitting(d, L)
<1>1. Good(db, L) /\ db \in Databases
  BY DEF Fit, Good
<1>2. /\ d \in Databases /\ d.index = db.index /\ d.fields = db.fields
      /\ d.order = db.order /\ d.rows = db.rows /\ d.table_list = db.table_list
  BY <1>1 DEF HeldPut, Databases
<1>3. Kept(d, db, L)
  BY <1>1, <1>2, BooksKept
<1>4. PointersFrom(d, db)
  BY <1>2 DEF PointersFrom, UsedSlots
<1> QED
  BY <1>2, <1>3, <1>4, StayFit DEF Kept

\* Map::Map
LEMMA NewMapFit ==
    ASSUME Inv, ~corrupted, kind' = kind, NEW r \in Rows, NewMap(r)
    PROVE  Step
<1>1. PICK db : db = Database
  OBVIOUS
<1>2. Fit(db, live) /\ db.rows = rows /\ live \in SUBSET Tables /\ kind \in Kinds /\ db \in Databases
  BY <1>1, Today
<1>3. PICK h \in SUBSET Rows : h = db.held \cup {r}
  BY <1>2 DEF Databases
<1>4. PICK d : HeldPut(d, db, h)
  BY DEF HeldPut
<1>5. Become(d) /\ live' = live
  BY <1>1, <1>3, <1>4 DEF NewMap, HeldPut
<1>6. Fitting(d, live)
  BY <1>2, <1>4, HeldFit
<1> QED
  BY <1>2, <1>5, <1>6, BecomeFit

\* The last variable of a map goes, and the map with it, unless a table has it.
LEMMA DropMapFit ==
    ASSUME Inv, ~corrupted, kind' = kind, NEW r \in Rows, DropMap(r)
    PROVE  Step
<1>1. PICK db : db = Database
  OBVIOUS
<1>2. Fit(db, live) /\ db.rows = rows /\ live \in SUBSET Tables /\ kind \in Kinds /\ db \in Databases
  BY <1>1, Today
<1>3. PICK h \in SUBSET Rows : h = db.held \ {r}
  BY <1>2 DEF Databases
<1>4. PICK d : HeldPut(d, db, h)
  BY DEF HeldPut
<1>5. Become(d) /\ live' = live
  BY <1>1, <1>3, <1>4 DEF DropMap, HeldPut
<1>6. Fitting(d, live)
  BY <1>2, <1>4, HeldFit
<1> QED
  BY <1>2, <1>5, <1>6, BecomeFit

\* Some fields of a map go.
LEMMA WithoutFit ==
    ASSUME NEW L, NEW db, Fit(db, L), db.rows = rows, NEW r \in Rows, NEW S,
           NEW d, Without(d, db, L, r, S)
    PROVE  Fitting(d, L)
<1>1. Kept(d, db, L) /\ OnlyMap(d, db, r)
      /\ \A j \in Slots : d.fields[r][j] = IF j \in S THEN NoField ELSE db.fields[r][j]
  BY DEF Without
<1>2. \A j \in UsedSlots(d, r) : j \in UsedSlots(db, r) /\ d.fields[r][j] = db.fields[r][j]
  BY <1>1 DEF UsedSlots
<1>3. PointersFrom(d, db)
  BY <1>1, <1>2, PointersFromMap
<1> QED
  BY <1>1, <1>3, StayFit DEF Kept, OnlyMap

\* Fields of a map are removed.
LEMMA RemoveFieldsFit ==
    ASSUME Inv, ~corrupted, kind' = kind, NEW r \in Rows,
           NEW S \in SUBSET UsedSlots(Database, r),
           Become(RemoveFields(Database, r, S)), live' = live
    PROVE  Step
<1>1. PICK db : db = Database
  OBVIOUS
<1>2. Fit(db, live) /\ db.rows = rows /\ live \in SUBSET Tables /\ kind \in Kinds /\ Good(db, live)
  BY <1>1, Today
<1>3. PICK d : d = RemoveFields(db, r, S)
  OBVIOUS
<1>4. Without(d, db, live, r, S)
  BY <1>1, <1>2, <1>3, RemoveFieldsKept
<1>5. Fitting(d, live)
  BY <1>2, <1>4, WithoutFit
<1> QED
  BY <1>1, <1>2, <1>3, <1>5, BecomeFit

\* One field of a map is removed.
LEMMA RemoveFieldFit ==
    ASSUME Inv, ~corrupted, kind' = kind, NEW r \in Rows, NEW i \in Slots,
           fields[r][i] # NoField,
           Become(RemoveField(Database, r, i)), live' = live
    PROVE  Step
<1>1. PICK db : db = Database
  OBVIOUS
<1>2. Fit(db, live) /\ db.rows = rows /\ live \in SUBSET Tables /\ kind \in Kinds /\ Good(db, live)
      /\ db.fields = fields
  BY <1>1, Today
<1>3. PICK d : d = RemoveField(db, r, i)
  OBVIOUS
<1>4. /\ Kept(d, db, live) /\ OnlyMap(d, db, r)
      /\ \A j \in Slots : d.fields[r][j] = IF j = i THEN NoField ELSE db.fields[r][j]
  BY <1>2, <1>3, RemoveFieldKept
<1>5. PICK S : S = {i}
  OBVIOUS
<1>6. Without(d, db, live, r, S)
  BY <1>4, <1>5 DEF Without
<1>7. Fitting(d, live)
  BY <1>2, <1>6, WithoutFit
<1> QED
  BY <1>1, <1>2, <1>3, <1>7, BecomeFit

\* The field of a map that has a key.
LEMMA SlotOfKey ==
    ASSUME NEW db, NEW r, NEW k \in KeysOf(db, r), NEW i, i = SlotOf(db, r, k)
    PROVE  /\ i \in UsedSlots(db, r) /\ db.fields[r][i].key = k
           /\ i \in Slots /\ db.fields[r][i] # NoField
  BY DEF SlotOf, KeysOf, UsedSlots

\* MapImplementation::remove
LEMMA MapRemoveFit ==
    ASSUME Inv, ~corrupted, kind' = kind, NEW r \in Rows, NEW k \in Keys, MapRemove(r, k)
    PROVE  Step
<1>1. PICK j : j = SlotOf(Database, r, k)
  OBVIOUS
<1>2. j \in Slots /\ Database.fields[r][j] # NoField
  BY <1>1, SlotOfKey DEF MapRemove
<1>3. fields[r][j] # NoField
  BY <1>2 DEF Database
<1> QED
  BY <1>1, <1>2, <1>3, RemoveFieldFit DEF MapRemove

\* MultiMapImplementation::remove
LEMMA MultiMapRemoveFit ==
    ASSUME Inv, ~corrupted, kind' = kind, NEW r \in Rows, NEW i \in Slots,
           MultiMapRemove(r, i)
    PROVE  Step
  BY RemoveFieldFit DEF MultiMapRemove

\* MultiMapImplementation::removeAll
LEMMA RemoveAllFit ==
    ASSUME Inv, ~corrupted, kind' = kind, NEW r \in Rows, NEW k \in Keys, removeAll(r, k)
    PROVE  Step
<1>1. PICK S \in SUBSET UsedSlots(Database, r) :
         S = {j \in UsedSlots(Database, r) : fields[r][j].key = k}
  OBVIOUS
<1> QED
  BY <1>1, RemoveFieldsFit DEF removeAll

\* MapImplementation::clear
LEMMA MapClearFit ==
    ASSUME Inv, ~corrupted, kind' = kind, NEW r \in Rows, MapClear(r)
    PROVE  Step
  BY RemoveFieldsFit DEF MapClear

\* A new field that no index gets to see.
LEMMA NewFieldFit ==
    ASSUME Inv, ~corrupted, kind' = kind, NEW r \in Rows,
           UsedSlots(Database, r) # Slots,
           NEW k \in Keys, NEW v \in Values \cup {NoKeyValue},
           kind = "map" => k \notin KeysOf(Database, r),
           Become(NewField(Database, r, k, v)), live' = live
    PROVE  Step
<1>1. PICK db : db = Database
  OBVIOUS
<1>2. Fit(db, live) /\ db.rows = rows /\ live \in SUBSET Tables /\ kind \in Kinds /\ Good(db, live)
  BY <1>1, Today
<1>3. PICK d : d = NewField(db, r, k, v)
  OBVIOUS
<1>4. /\ Good(d, live) /\ (Tidy(db) => Tidy(d))
      /\ Ordered(db) /\ (kind = "map" => k \notin KeysOf(db, r)) => Ordered(d)
      /\ OnlyMap(d, db, r)
      /\ \E i \in Slots :
            /\ db.fields[r][i] = NoField
            /\ \A j \in Slots : d.fields[r][j] = IF j = i THEN NewFieldOf(k, v)
                                                 ELSE db.fields[r][j]
  BY <1>1, <1>2, <1>3, NewFieldKept
<1>5. PICK i \in Slots : \A j \in Slots : d.fields[r][j] = IF j = i THEN NewFieldOf(k, v)
                                                           ELSE db.fields[r][j]
  BY <1>4
<1>6. \A j \in UsedSlots(d, r) :
         \/ d.fields[r][j].indexed_at = {}
         \/ j \in UsedSlots(db, r) /\ d.fields[r][j] = db.fields[r][j]
  BY <1>5 DEF UsedSlots, NewFieldOf
<1>7. PointersFrom(d, db)
  BY <1>4, <1>6, PointersFromMap
<1>8. d.rows = db.rows /\ d.table_list = db.table_list
  BY <1>4 DEF OnlyMap
<1>9. Fitting(d, live)
  BY <1>1, <1>2, <1>4, <1>7, <1>8, StayFit
<1> QED
  BY <1>1, <1>2, <1>3, <1>9, BecomeFit

\* A careful client has no map that remembers a table that is gone.
LEMMA StaleNever ==
    ASSUME Inv, ~corrupted, NEW r \in Rows, StaleTable(r)
    PROVE  ~Careful
<1> SUFFICES ASSUME Careful PROVE FALSE
  OBVIOUS
<1>1. PICK db : db = Database
  OBVIOUS
<1>2. Members(db, live) /\ db.table_list = table_list
  BY <1>1, Today
<1> QED
  BY <1>2 DEF StaleTable, Members, MembersOf

\* Map::insert
LEMMA MapInsertFit ==
    ASSUME Inv, ~corrupted, kind' = kind, NEW r \in Rows, NEW k \in Keys,
           NEW v \in Values \cup {NoKeyValue}, MapInsert(r, k, v)
    PROVE  Step
<1>1. PICK db : db = Database
  OBVIOUS
<1>2. Fit(db, live) /\ db.rows = rows /\ live \in SUBSET Tables /\ kind \in Kinds /\ Good(db, live)
      /\ db.table_list = table_list /\ db \in Databases
  BY <1>1, Today
<1>3. CASE ~StaleTable(r) /\ Become(InsertField(Database, r, k, v))
  <2>1. PICK d : d = InsertField(db, r, k, v)
    OBVIOUS
  <2>2. db.table_list[r] \subseteq live
    BY <1>2, <1>3 DEF StaleTable
  <2>3. UsedSlots(db, r) # Slots /\ k \notin KeysOf(db, r) /\ live' = live
    BY <1>1 DEF MapInsert
  <2>4. /\ Good(d, live) /\ OnlyMap(d, db, r) /\ PointersFrom(d, db)
        /\ (Tidy(db) => Tidy(d)) /\ (Ordered(db) => Ordered(d))
    BY <1>2, <2>1, <2>2, <2>3, InsertFieldKept
  <2>5. d.rows = db.rows /\ d.table_list = db.table_list
    BY <2>4 DEF OnlyMap
  <2>6. Fitting(d, live)
    BY <1>2, <2>4, <2>5, StayFit
  <2> QED
    BY <1>1, <1>2, <1>3, <2>1, <2>3, <2>6, BecomeFit
<1>4. CASE StaleTable(r) /\ Corrupt
  <2>1. live' \in SUBSET Tables
    BY <1>2 DEF MapInsert
  <2> QED
    BY <1>4, <2>1, StaleNever, CorruptFits
<1> QED
  BY <1>3, <1>4 DEF MapInsert

\* MultiMapImplementation::insert
LEMMA MultiMapInsertFit ==
    ASSUME Inv, ~corrupted, kind' = kind, NEW r \in Rows, NEW k \in Keys,
           NEW v \in Values \cup {NoKeyValue}, MultiMapInsert(r, k, v)
    PROVE  Step
<1>1. CASE ~StaleTable(r) /\ Become(NewField(Database, r, k, v))
  BY <1>1, NewFieldFit DEF MultiMapInsert
<1>2. CASE StaleTable(r) /\ Corrupt
  <2>1. live' \in SUBSET Tables
    BY DEF MultiMapInsert, Inv, TypeOK
  <2> QED
    BY <1>2, <2>1, StaleNever, CorruptFits
<1> QED
  BY <1>1, <1>2 DEF MultiMapInsert

\* The value a field gets that operator[] makes.
LEMMA LeastValue ==
    Min(Values) \in Values
<1>1. \E n \in Values : \A m \in Values : n <= m
  BY LeastNumber, TableAssumption
<1> QED
  BY <1>1 DEF Min

\* Map::operator[]
LEMMA GetOrInsertFit ==
    ASSUME Inv, ~corrupted, kind' = kind, NEW r \in Rows, NEW k \in Keys,
           getOrInsertFieldRef(r, k)
    PROVE  Step
<1>1. PICK v \in Values \cup {NoKeyValue} : v = Min(Values)
  BY LeastValue
<1> QED
  BY <1>1, NewFieldFit DEF getOrInsertFieldRef

\* A field that no index has gets a new key.
LEMMA RenamedFit ==
    ASSUME Inv, ~corrupted, kind' = kind, NEW r \in Rows, NEW i \in Slots,
           fields[r][i] # NoField, ~setKeyFails(r, i), NEW key \in Keys,
           Ordered(Database) => FreshKey(Database, r, i, key),
           Become(Renamed(Database, r, i, key)), live' = live
    PROVE  Step
<1>1. PICK db : db = Database
  OBVIOUS
<1>2. Fit(db, live) /\ db.rows = rows /\ live \in SUBSET Tables /\ kind \in Kinds /\ Good(db, live)
      /\ db.fields = fields
  BY <1>1, Today
<1>3. PICK d : d = Renamed(db, r, i, key)
  OBVIOUS
<1>4. db.fields[r][i].indexed_at = {} /\ db.fields[r][i] # NoField
  BY <1>2 DEF setKeyFails, IsIndexed
<1>5. /\ Good(d, live) /\ OnlyMap(d, db, r) /\ PointersFrom(d, db)
      /\ (Tidy(db) => Tidy(d))
      /\ Ordered(db) /\ FreshKey(db, r, i, key) => Ordered(d)
  BY <1>2, <1>3, <1>4, RenamedKept
<1>6. d.rows = db.rows /\ d.table_list = db.table_list
  BY <1>5 DEF OnlyMap
<1>7. Fitting(d, live)
  BY <1>1, <1>2, <1>5, <1>6, StayFit
<1> QED
  BY <1>1, <1>2, <1>3, <1>7, BecomeFit

\* MapImplementation::rename
LEMMA MapRenameFit ==
    ASSUME Inv, ~corrupted, kind' = kind, NEW r \in Rows, NEW k \in Keys,
           NEW new_key \in Keys, MapRename(r, k, new_key)
    PROVE  Step
<1>1. PICK i : i = SlotOf(Database, r, k)
  OBVIOUS
<1>2. PICK key \in Keys : key = IF new_key \in KeysOf(Database, r) THEN k ELSE new_key
  OBVIOUS
<1>3. /\ live' = live
      /\ \/ /\ k \in KeysOf(Database, r)
            /\ ~setKeyFails(r, i) /\ Become(Renamed(Database, r, i, key))
         \/ ~Careful /\ Corrupt
  BY <1>1, <1>2 DEF MapRename
<1>4. CASE ~Careful /\ Corrupt
  <2>1. live' \in SUBSET Tables
    BY <1>3 DEF Inv, TypeOK
  <2> QED
    BY <1>4, <2>1, CorruptFits
<1>5. CASE /\ k \in KeysOf(Database, r)
           /\ ~setKeyFails(r, i) /\ Become(Renamed(Database, r, i, key))
  <2>1. PICK db : db = Database
    OBVIOUS
  <2>2. /\ i \in UsedSlots(db, r) /\ db.fields[r][i].key = k
        /\ i \in Slots /\ db.fields[r][i] # NoField
    BY <1>1, <1>5, <2>1, SlotOfKey
  <2>3. Good(db, live) /\ db.fields = fields
    BY <2>1, Today
  <2>4. ASSUME Ordered(db) PROVE FreshKey(db, r, i, key)
    <3>1. CASE new_key \in KeysOf(db, r)
      <4>1. key = db.fields[r][i].key
        BY <1>2, <2>1, <2>2, <3>1
      <4> QED
        BY <2>2, <2>3, <2>4, <4>1, OwnKeyIsFresh
    <3>2. CASE new_key \notin KeysOf(db, r)
      BY <1>2, <2>1, <3>2 DEF FreshKey, KeysOf
    <3> QED
      BY <3>1, <3>2
  <2>5. Ordered(Database) => FreshKey(Database, r, i, key)
    BY <2>1, <2>4
  <2>6. fields[r][i] # NoField
    BY <2>2, <2>3
  <2> QED
    BY <1>3, <1>5, <2>2, <2>5, <2>6, RenamedFit
<1> QED
  BY <1>3, <1>4, <1>5

\* MultiMapImplementation::rename
LEMMA MultiMapRenameFit ==
    ASSUME Inv, ~corrupted, kind' = kind, NEW r \in Rows, NEW i \in Slots,
           NEW new_key \in Keys, MultiMapRename(r, i, new_key)
    PROVE  Step
<1>1. CASE ~setKeyFails(r, i) /\ Become(Renamed(Database, r, i, new_key))
  <2>1. FreshKey(Database, r, i, new_key)
    BY DEF MultiMapRename, FreshKey
  <2> QED
    BY <1>1, <2>1, RenamedFit DEF MultiMapRename
<1>2. CASE setKeyFails(r, i) /\ ~Careful /\ Corrupt
  <2>1. live' \in SUBSET Tables
    BY DEF MultiMapRename, Inv, TypeOK
  <2> QED
    BY <1>2, <2>1, CorruptFits
<1> QED
  BY <1>1, <1>2 DEF MultiMapRename

\* Field::setKey through a FieldRef
LEMMA SetKeyFit ==
    ASSUME Inv, ~corrupted, kind' = kind, NEW r \in Rows, NEW i \in Slots,
           NEW key \in Keys, SetKey(r, i, key)
    PROVE  Step
<1>1. PICK db : db = Database
  OBVIOUS
<1>2. Fit(db, live) /\ db.rows = rows /\ live \in SUBSET Tables /\ kind \in Kinds /\ Good(db, live)
      /\ db.fields = fields /\ kind \in {"map", "multimap"}
  BY <1>1, Today
<1>3. PICK d : d = setKey(db, r, i, key)
  OBVIOUS
<1>4. /\ live' = live /\ fields[r][i] # NoField
      /\ \/ ~setKeyFails(r, i) /\ InKeyOrder(d, r) /\ Become(d)
         \/ /\ ~setKeyFails(r, i) /\ ~Careful /\ fields' = d.fields /\ corrupted' = TRUE
            /\ UNCHANGED <<rows, index, order, table_list, held>>
         \/ ~Careful /\ Corrupt
  BY <1>1, <1>3 DEF SetKey
<1>5. ASSUME ~setKeyFails(r, i)
      PROVE  /\ Good(d, live) /\ OnlyMap(d, db, r) /\ PointersFrom(d, db)
             /\ (Tidy(db) => Tidy(d))
             /\ kind \in {"map", "multimap"} /\ Ordered(db) /\ InKeyOrder(d, r) => Ordered(d)
  <2>1. db.fields[r][i].indexed_at = {} /\ db.fields[r][i] # NoField
    BY <1>2, <1>4, <1>5 DEF setKeyFails, IsIndexed
  <2> QED
    BY <1>2, <1>3, <2>1, SetKeyKept
<1>6. CASE ~setKeyFails(r, i) /\ InKeyOrder(d, r) /\ Become(d)
  <2>1. d.rows = db.rows /\ d.table_list = db.table_list
    BY <1>5, <1>6 DEF OnlyMap
  <2>2. Fitting(d, live)
    BY <1>2, <1>5, <1>6, <2>1, StayFit
  <2> QED
    BY <1>2, <1>4, <1>6, <2>2, BecomeFit
<1>7. CASE /\ ~setKeyFails(r, i) /\ ~Careful /\ fields' = d.fields /\ corrupted' = TRUE
           /\ UNCHANGED <<rows, index, order, table_list, held>>
  <2>1. d \in Databases
    BY <1>5, <1>7 DEF Good
  <2>2. d.fields \in [Rows -> [Slots -> Field \cup {NoField}]]
    BY <2>1 DEF Databases
  <2>3. TypeOK'
    BY <1>4, <1>7, <2>2 DEF TypeOK, Inv
  <2> QED
    BY <1>7, <2>3 DEF Inv, Step, Accepted
<1>8. CASE ~Careful /\ Corrupt
  <2>1. live' \in SUBSET Tables
    BY <1>2, <1>4
  <2> QED
    BY <1>8, <2>1, CorruptFits
<1> QED
  BY <1>4, <1>6, <1>7, <1>8

\* Field::setValue through a FieldRef
LEMMA SetValueFit ==
    ASSUME Inv, ~corrupted, kind' = kind, NEW r \in Rows, NEW i \in Slots,
           NEW v \in Values \cup {NoKeyValue}, SetValue(r, i, v)
    PROVE  Step
<1>1. PICK db : db = Database
  OBVIOUS
<1>2. Fit(db, live) /\ db.rows = rows /\ live \in SUBSET Tables /\ kind \in Kinds /\ Good(db, live)
      /\ db.fields = fields /\ db \in Databases
  BY <1>1, Today
<1>3. PICK d : d = [db EXCEPT !.fields[r][i].value = v]
  OBVIOUS
<1>4. /\ live' = live /\ db.fields[r][i] # NoField /\ Become(d)
      /\ Careful => db.fields[r][i].indexed_at = {}
  BY <1>1, <1>2, <1>3 DEF SetValue
<1>5. db.fields[r][i] \in Field
  BY <1>2, <1>4, IsField
<1>6. PICK f \in Field : f = [db.fields[r][i] EXCEPT !.value = v]
  BY <1>5 DEF Field
<1>7. f.indexed_at = db.fields[r][i].indexed_at /\ f.key = db.fields[r][i].key
  BY <1>5, <1>6 DEF Field
<1>8. d = [db EXCEPT !.fields[r][i] = f]
  BY <1>2, <1>3, <1>6 DEF Databases
<1>9. /\ Good(d, live) /\ OnlyMap(d, db, r) /\ d.index = db.index
      /\ d.order = db.order
      /\ SlotIs(d, db, r, i, f)
      /\ Tidy(db) /\ db.fields[r][i].indexed_at = {} => Tidy(d)
      /\ Ordered(db) /\ Ascending(d.order[r], KeysIn(d, r), kind, {"map"})
            => Ordered(d)
  BY <1>2, <1>4, <1>7, <1>8, WrittenKept
<1>10. KeysIn(d, r) = KeysIn(db, r)
  BY <1>7, <1>9 DEF KeysIn, SlotIs
<1>11. Ordered(db) => Ordered(d)
  BY <1>9, <1>10 DEF Ordered
<1>12. PointersFrom(d, db)
  <2>1. ASSUME NEW j \in UsedSlots(d, r)
        PROVE  j \in UsedSlots(db, r)
               /\ d.fields[r][j].indexed_at = db.fields[r][j].indexed_at
    BY <1>4, <1>7, <1>9 DEF SlotIs, UsedSlots
  <2>2. ASSUME NEW q \in Rows, q # r, NEW j \in UsedSlots(d, q)
        PROVE  j \in UsedSlots(db, q) /\ d.fields[q][j] = db.fields[q][j]
    BY <1>9, <2>2 DEF OnlyMap, UsedSlots
  <2> QED
    BY <2>1, <2>2 DEF PointersFrom
<1>13. d.rows = db.rows /\ d.table_list = db.table_list
  BY <1>9 DEF OnlyMap
<1>14. Fitting(d, live)
  BY <1>2, <1>4, <1>9, <1>11, <1>12, <1>13, StayFit
<1> QED
  BY <1>2, <1>4, <1>14, BecomeFit

\* TableImplementation::TableImplementation
LEMMA NewTableFit ==
    ASSUME Inv, ~corrupted, kind' = kind, NEW T \in Tables, NewTable(T)
    PROVE  Step
<1>1. PICK db : db = Database
  OBVIOUS
<1>2. PICK L \in SUBSET Tables : L = live \cup {T}
  BY DEF Inv, TypeOK
<1>3. Fit(db, live) /\ Good(db, live)
  BY <1>1, Today
<1>4. live' = L /\ Database' = db
  BY <1>1, <1>2 DEF NewTable, Database
<1>5. Good(db, L)
  <2>1. PointersTrue(db, L)
    BY <1>2, <1>3 DEF Good, PointersTrue
  <2> QED
    BY <1>3, <2>1 DEF Good
<1>6. Members(db, live) => Members(db, L)
  BY <1>2 DEF Members, MembersOf
<1>7. /\ Good(Database', live') /\ AllFreed(Database') /\ Sound(Database')
      /\ Careful => Tidy(Database') /\ Members(Database', live')
  BY <1>3, <1>4, <1>5, <1>6 DEF Fit
<1>8. ASSUME Careful PROVE Ordered(Database)'
  <2>1. Ordered(db)
    BY <1>3, <1>8 DEF Fit
  <2> QED
    BY <1>4, <2>1 DEF Ordered
<1>9. Fit(Database, live)'
  BY <1>7, <1>8 DEF Fit
<1>10. TypeOK'
  BY <1>2, <1>4 DEF Inv, TypeOK, NewTable
<1>11. corrupted' = corrupted /\ rows' = rows
  BY DEF NewTable
<1> QED
  BY <1>9, <1>10, <1>11 DEF Inv, Step, Accepted

\* TableImplementation::getRow
LEMMA GetRowFit ==
    ASSUME Inv, ~corrupted, kind' = kind, NEW T \in Tables, NEW c \in Columns,
           NEW v \in Values, getRow(T, c, v)
    PROVE  Step
<1>1. PICK db : db = Database
  OBVIOUS
<1>2. /\ Fit(db, live) /\ db.rows = rows /\ live \in SUBSET Tables /\ kind \in Kinds /\ db \in Databases
      /\ db.index = index
  BY <1>1, Today
<1>3. PICK s \in Seq(Nodes) : s = index[T][c]
  BY <1>2, InIndex
<1>4. PICK j : j = SelectInSeq(s, LAMBDA n : ValueAt(Database, n) = v)
  OBVIOUS
<1>5. /\ HasValue(Database, T, c, v) /\ live' = live
      /\ Become([Database EXCEPT !.held = @ \cup {s[j][1]}])
  BY <1>3, <1>4 DEF getRow
<1>6. j \in 1 .. Len(s)
  <2>1. \E l \in 1 .. Len(s) : ValueAt(Database, s[l]) = v
    BY <1>1, <1>2, <1>3, <1>5 DEF HasValue
  <2>2. PICK I : I = {i \in 1 .. Len(s) : ValueAt(Database, s[i]) = v}
    OBVIOUS
  <2>3. I # {} /\ I \subseteq Nat /\ I \subseteq 1 .. Len(s)
    BY <2>1, <2>2
  <2>4. j = Min(I)
    BY <1>4, <2>2, <2>3 DEF SelectInSeq
  <2>5. \E i \in I : \A m \in I : i <= m
    BY <2>3, LeastNumber
  <2> QED
    BY <2>3, <2>4, <2>5 DEF Min
<1>7. s[j] \in Nodes
  BY <1>6
<1>8. s[j][1] \in Rows
  BY <1>7 DEF Nodes
<1>9. PICK h \in SUBSET Rows : h = db.held \cup {s[j][1]}
  BY <1>2, <1>8 DEF Databases
<1>10. PICK d : HeldPut(d, db, h)
  BY DEF HeldPut
<1>11. Become(d)
  BY <1>1, <1>5, <1>9, <1>10 DEF HeldPut
<1>12. Fitting(d, live)
  BY <1>2, <1>10, HeldFit
<1> QED
  BY <1>2, <1>5, <1>11, <1>12, BecomeFit

\* TableImplementation::remove
LEMMA TableRemoveFit ==
    ASSUME Inv, ~corrupted, kind' = kind, NEW T \in Tables, NEW r \in Rows,
           TableRemove(T, r)
    PROVE  Step
<1>1. PICK db : db = Database
  OBVIOUS
<1>2. /\ Fit(db, live) /\ db.rows = rows /\ live \in SUBSET Tables /\ kind \in Kinds /\ db \in Databases
      /\ Good(db, live)
  BY <1>1, Today
<1>3. PICK d : d = RemoveRow(db, T, r)
  OBVIOUS
<1>4. /\ Kept(d, db, live) /\ KnowsNot(d, T, r)
      /\ d.held = db.held /\ d.rows = [db.rows EXCEPT ![T] = @ \ {r}]
      /\ d.table_list = [db.table_list EXCEPT ![r] = @ \ {T}]
      /\ \A q \in Rows, j \in Slots : q # r => d.fields[q][j] = db.fields[q][j]
      /\ \A q \in Rows : UsedSlots(d, q) = UsedSlots(db, q)
      /\ \A j \in UsedSlots(db, r) :
            d.fields[r][j].indexed_at \subseteq db.fields[r][j].indexed_at
  BY <1>2, <1>3, RemoveRowKept
<1>5. /\ \A U \in Tables : d.rows[U] = IF U = T THEN db.rows[U] \ {r} ELSE db.rows[U]
      /\ \A q \in Rows : d.table_list[q] = IF q = r THEN db.table_list[q] \ {T}
                                           ELSE db.table_list[q]
  BY <1>2, <1>4 DEF Databases
<1>6. d \in Databases /\ Good(d, live)
  BY <1>4 DEF Kept, Good
<1>7. ASSUME Members(db, live) PROVE MembersAlive(d, live)
  <2>1. ASSUME NEW q \in Rows PROVE d.table_list[q] = {U \in Tables : q \in d.rows[U]}
    <3>1. db.table_list[q] = {U \in Tables : q \in db.rows[U]}
      BY <1>7 DEF Members, MembersOf
    <3> QED
      BY <1>5, <3>1
  <2>2. ASSUME NEW q \in Rows, NEW U \in Tables, NEW V \in Tables,
               q \in d.rows[U], q \in d.rows[V]
        PROVE  U = V
    <3>1. q \in db.rows[U] /\ q \in db.rows[V]
      BY <1>5, <2>2
    <3> QED
      BY <1>7, <3>1 DEF Members, MembersOf
  <2>3. \A U \in Tables : d.rows[U] # {} => U \in live
    BY <1>5, <1>7 DEF Members, MembersOf
  <2>4. ASSUME NEW q \in Rows, NEW j \in UsedSlots(d, q), NEW x \in d.fields[q][j].indexed_at
        PROVE  q \in d.rows[x[1]]
    <3>1. j \in UsedSlots(db, q) /\ j \in Slots /\ d.fields[q][j] # NoField
      BY <1>4 DEF UsedSlots
    <3>2. x \in db.fields[q][j].indexed_at
      BY <1>4, <2>4, <3>1
    <3>3. q \in db.rows[x[1]]
      BY <1>7, <3>1, <3>2 DEF Members, MembersOf
    <3>4. x[1] \in Tables
      BY <1>2, <1>6, <2>4, <3>1 DEF Good, PointersTrue
    <3>5. q = r => x[1] # T
      BY <1>4, <2>4 DEF KnowsNot
    <3> QED
      BY <1>5, <3>3, <3>4, <3>5
  <2>5. Alive(d) \subseteq Rows
    BY <1>6, AliveRows
  <2> QED
    BY <2>1, <2>2, <2>3, <2>4, <2>5 DEF MembersAlive, MembersOf
<1>8. Fitting(d, live)
  <2>1. Files(d)
    BY <1>2, <1>5 DEF Files
  <2> QED
    BY <1>2, <1>4, <1>6, <1>7, <2>1 DEF Fitting, Fit, Kept
<1>9. Become(d) /\ live' = live
  BY <1>1, <1>3 DEF TableRemove
<1> QED
  BY <1>2, <1>8, <1>9, BecomeFit

\* What TableImplementation::insert leaves, when tables had the rows of db.
LEMMA RowsFiled ==
    ASSUME NEW db \in Databases, db.rows = rows, NEW T \in Tables, NEW r \in Rows,
           NEW d, d.rows = db.rows \/ RowIn(d, db, T, r)
    PROVE  Files(d)
<1>1. CASE d.rows = db.rows
  BY <1>1 DEF Files
<1>2. CASE RowIn(d, db, T, r)
  <2>1. \A U \in Tables : d.rows[U] = IF U = T THEN rows[U] \cup {r} ELSE rows[U]
    BY <1>2 DEF RowIn, Databases
  <2>2. \A U \in Tables : \A q \in d.rows[U] \ rows[U] : U = T /\ q = r
    BY <2>1
  <2> QED
    BY <1>2, <2>2 DEF Files, RowIn, UsedSlots
<1> QED
  BY <1>1, <1>2

\* Table::insert of a row the client keeps
LEMMA InsertSharedFit ==
    ASSUME Inv, ~corrupted, kind' = kind, NEW T \in Tables, NEW r \in Rows,
           InsertShared(T, r)
    PROVE  Step
<1>1. PICK db : db = Database
  OBVIOUS
<1>2. live \in SUBSET Tables /\ kind \in Kinds /\ Good(db, live) /\ db.rows = rows
      /\ db \in Databases
  BY <1>1, Today
<1>3. PICK d : d = InsertRow(db, T, r)
  OBVIOUS
<1>4. ~Careful /\ T \in live /\ Become(d) /\ live' = live
  BY <1>1, <1>3 DEF InsertShared
<1>5. Good(d, live) /\ (d.rows = db.rows \/ RowIn(d, db, T, r))
  BY <1>2, <1>3, <1>4, InsertRowKept
<1>6. Files(d)
  BY <1>2, <1>5, RowsFiled
<1>7. Fitting(d, live)
  BY <1>4, <1>5, <1>6 DEF Fitting
<1> QED
  BY <1>2, <1>4, <1>7, BecomeFit

\* Table::insert of a copy, which is dropped when the table rejects it
LEMMA InsertCopyFit ==
    ASSUME Inv, ~corrupted, kind' = kind, NEW T \in Tables, NEW r \in Rows,
           NEW copy \in Rows, InsertCopy(T, r, copy)
    PROVE  Step
<1>1. PICK db : db = Database
  OBVIOUS
<1>2. /\ Fit(db, live) /\ db.rows = rows /\ live \in SUBSET Tables /\ kind \in Kinds /\ db \in Databases
      /\ Good(db, live) /\ db.held = held /\ AllFreed(db)
  BY <1>1, Today DEF Fit
<1>3. PICK e : e = Copied(db, r, copy)
  OBVIOUS
<1>4. PICK d : d = InsertRow(e, T, copy)
  OBVIOUS
<1>5. T \in live /\ r \in held /\ copy \notin Alive(db) /\ Become(d) /\ live' = live
  BY <1>1, <1>3, <1>4 DEF InsertCopy
<1>6. copy # r /\ db.order[copy] = <<>> /\ db.table_list[copy] = {}
      /\ \A U \in Tables : copy \notin db.rows[U]
  BY <1>2, <1>5 DEF Alive, AllFreed
<1>7. CopyOf(e, db, live, r, copy, Len(db.order[r]))
  BY <1>2, <1>3, <1>6, CopiedKept
<1>8. /\ Good(e, live) /\ (Tidy(db) => Tidy(e)) /\ (Ordered(db) => Ordered(e))
      /\ OnlyMap(e, db, copy)
      /\ \A j \in UsedSlots(e, copy) : e.fields[copy][j].indexed_at = {}
  BY <1>7 DEF CopyOf
<1>9. NotIn(e, T, copy)
  BY <1>8 DEF NotIn
<1>10. /\ Good(d, live) /\ (Ordered(e) => Ordered(d))
       /\ Tidy(e) /\ NotIn(e, T, copy) => Tidy(d)
       /\ d.held = e.held /\ d.order = e.order
       /\ \A q \in Rows, j \in Slots : q # copy => d.fields[q][j] = e.fields[q][j]
       /\ \A j \in UsedSlots(e, copy) :
             d.fields[copy][j].indexed_at
                \subseteq e.fields[copy][j].indexed_at \cup {<<T, e.fields[copy][j].key>>}
       /\ \A q \in Rows : q # copy => d.table_list[q] = e.table_list[q]
       /\ d.rows = e.rows \/ RowIn(d, e, T, copy)
  BY <1>4, <1>5, <1>8, InsertRowKept
<1>11. d \in Databases /\ e \in Databases /\ OrdersExact(d) /\ OrdersExact(e)
  BY <1>8, <1>10 DEF Good
<1>12. e.rows = db.rows /\ e.table_list = db.table_list /\ d.held = db.held
  BY <1>8, <1>10 DEF OnlyMap
<1>13. ASSUME NEW q \in Rows, q # copy
       PROVE  /\ UsedSlots(d, q) = UsedSlots(db, q) /\ d.table_list[q] = db.table_list[q]
              /\ \A j \in UsedSlots(db, q) : d.fields[q][j] = db.fields[q][j]
  <2>1. \A j \in Slots : d.fields[q][j] = db.fields[q][j]
    BY <1>8, <1>10, <1>13 DEF OnlyMap
  <2> QED
    BY <1>10, <1>12, <1>13, <2>1 DEF UsedSlots
<1>14. UsedSlots(d, copy) = UsedSlots(e, copy)
  BY <1>10, <1>11 DEF OrdersExact
<1>15. ASSUME NEW j \in UsedSlots(d, copy), NEW x \in d.fields[copy][j].indexed_at
       PROVE  x[1] = T
  <2>1. x \in {<<T, e.fields[copy][j].key>>}
    BY <1>8, <1>10, <1>14, <1>15
  <2> QED
    BY <2>1
<1>16. Alive(d) \subseteq Rows
  BY <1>11, AliveRows
<1>17. ASSUME Members(db, live), d.rows = e.rows PROVE MembersAlive(d, live)
  <2>1. d.rows = db.rows
    BY <1>12, <1>17
  <2>2. ASSUME NEW q \in Alive(d) PROVE q \in Rows /\ q # copy
    BY <1>5, <1>12, <1>16, <2>1, <2>2 DEF Alive
  <2>3. \A q \in Alive(d) : d.table_list[q] = {U \in Tables : q \in d.rows[U]}
    BY <1>13, <1>17, <2>1, <2>2 DEF Members, MembersOf
  <2>4. \A q \in Alive(d), U, V \in Tables : q \in d.rows[U] /\ q \in d.rows[V] => U = V
    BY <1>17, <2>1, <2>2 DEF Members, MembersOf
  <2>5. \A U \in Tables : d.rows[U] # {} => U \in live
    BY <1>17, <2>1 DEF Members, MembersOf
  <2>6. \A q \in Alive(d) : \A j \in UsedSlots(d, q) :
           \A x \in d.fields[q][j].indexed_at : q \in d.rows[x[1]]
    BY <1>13, <1>17, <2>1, <2>2 DEF Members, MembersOf
  <2> QED
    BY <2>3, <2>4, <2>5, <2>6 DEF MembersAlive, MembersOf
<1>18. ASSUME Members(db, live), RowIn(d, e, T, copy) PROVE MembersAlive(d, live)
  <2>1. /\ \A U \in Tables : d.rows[U] = IF U = T THEN db.rows[U] \cup {copy} ELSE db.rows[U]
        /\ d.table_list[copy] = {T}
    <3>1. db.rows \in [Tables -> SUBSET Rows] /\ db.table_list \in [Rows -> SUBSET Tables]
      BY <1>2 DEF Databases
    <3>2. /\ d.rows = [db.rows EXCEPT ![T] = @ \cup {copy}]
          /\ d.table_list = [db.table_list EXCEPT ![copy] = @ \cup {T}]
      BY <1>12, <1>18 DEF RowIn
    <3>3. \A U \in Tables : d.rows[U] = IF U = T THEN db.rows[U] \cup {copy} ELSE db.rows[U]
      BY <3>1, <3>2
    <3>4. d.table_list[copy] = db.table_list[copy] \cup {T}
      BY <3>1, <3>2
    <3>5. d.table_list[copy] = {T}
      BY <1>6, <3>4
    <3> QED
      BY <3>3, <3>5
  <2>2. ASSUME NEW q \in Rows PROVE d.table_list[q] = {U \in Tables : q \in d.rows[U]}
    <3>1. CASE q = copy
      <4>1. \A U \in Tables : copy \in d.rows[U] <=> U = T
        BY <1>6, <2>1
      <4> QED
        BY <2>1, <3>1, <4>1
    <3>2. CASE q # copy
      <4>1. db.table_list[q] = {U \in Tables : q \in db.rows[U]}
        BY <1>18 DEF Members, MembersOf
      <4>2. d.table_list[q] = db.table_list[q]
        BY <1>13, <3>2
      <4>3. \A U \in Tables : q \in d.rows[U] <=> q \in db.rows[U]
        BY <2>1, <3>2
      <4> QED
        BY <4>1, <4>2, <4>3
    <3> QED
      BY <3>1, <3>2
  <2>3. ASSUME NEW q \in Rows, NEW U \in Tables, NEW V \in Tables,
               q \in d.rows[U], q \in d.rows[V]
        PROVE  U = V
    <3>1. CASE q = copy
      BY <1>6, <2>1, <2>3, <3>1
    <3>2. CASE q # copy
      <4>1. q \in db.rows[U] /\ q \in db.rows[V]
        BY <2>1, <2>3, <3>2
      <4> QED
        BY <1>18, <4>1 DEF Members, MembersOf
    <3> QED
      BY <3>1, <3>2
  <2>4. \A U \in Tables : d.rows[U] # {} => U \in live
    BY <1>5, <1>18, <2>1 DEF Members, MembersOf
  <2>5. ASSUME NEW q \in Rows, NEW j \in UsedSlots(d, q), NEW x \in d.fields[q][j].indexed_at
        PROVE  q \in d.rows[x[1]]
    <3>1. CASE q = copy
      BY <1>15, <2>1, <2>5, <3>1
    <3>2. CASE q # copy
      <4>1. j \in UsedSlots(db, q) /\ x \in db.fields[q][j].indexed_at
        BY <1>13, <2>5, <3>2
      <4>2. q \in db.rows[x[1]]
        BY <1>18, <4>1 DEF Members, MembersOf
      <4>3. x[1] \in Tables
        BY <1>2, <4>1 DEF Good, PointersTrue, UsedSlots
      <4> QED
        BY <2>1, <4>2, <4>3
    <3> QED
      BY <3>1, <3>2
  <2> QED
    BY <1>16, <2>2, <2>3, <2>4, <2>5 DEF MembersAlive, MembersOf
<1>19. Fitting(d, live)
  <2>1. Files(d)
    BY <1>2, <1>10, <1>11, <1>12, RowsFiled
  <2> QED
    BY <1>2, <1>8, <1>9, <1>10, <1>17, <1>18, <2>1 DEF Fitting, Fit
<1> QED
  BY <1>2, <1>5, <1>19, BecomeFit

\* An index whose order is sound has only fields that are there.
LEMMA SoundWhole ==
    ASSUME NEW db \in Databases, Sound(db), NEW T \in Tables
    PROVE  Whole(db, T)
<1>1. ASSUME NEW c \in Columns, NEW n \in ToSet(db.index[T][c])
      PROVE  db.fields[n[1]][n[2]] # NoField
  <2>1. PICK j \in DOMAIN db.index[T][c] : db.index[T][c][j] = n
    BY <1>1 DEF ToSet
  <2>2. ~Broken(db, T, c)
    BY DEF Sound
  <2> QED
    BY <2>1, <2>2 DEF Broken
<1> QED
  BY <1>1 DEF Whole

\* A table that is cleared, and lives on or not.
LEMMA ClearedFit ==
    ASSUME Inv, ~corrupted, kind' = kind, NEW T \in Tables,
           Careful => MayLeave(T), Become(ClearedTable(T)),
           live' \in {live, live \ {T}}
    PROVE  Step
<1>1. PICK db : db = Database
  OBVIOUS
<1>2. /\ Fit(db, live) /\ db.rows = rows /\ live \in SUBSET Tables /\ kind \in Kinds /\ db \in Databases
      /\ Good(db, live) /\ db.held = held /\ Sound(db)
  BY <1>1, Today DEF Fit
<1>3. PICK d : d = ClearedTable(T)
  OBVIOUS
<1>4. Whole(db, T)
  BY <1>2, SoundWhole
<1>a. Cleared(d, db, live, T)
  BY <1>1, <1>2, <1>3, <1>4, ClearedTableKept
<1>5. /\ Kept(d, db, live) /\ Good(d, live \ {T})
      /\ \A r \in Rows : KnowsNot(d, T, r)
      /\ d.held = db.held /\ d.rows = [db.rows EXCEPT ![T] = {}]
      /\ d.table_list = db.table_list
      /\ \A r \in Rows : /\ UsedSlots(d, r) = UsedSlots(db, r)
                         /\ \A j \in UsedSlots(db, r) :
                               d.fields[r][j].indexed_at
                                  \subseteq db.fields[r][j].indexed_at
  BY <1>a DEF Cleared
<1>6. PICK L \in SUBSET Tables : L = live' /\ live \ {T} \subseteq L
  BY <1>2
<1>7. Good(d, L)
  BY <1>5, <1>6 DEF Kept
<1>8. \A U \in Tables : d.rows[U] = IF U = T THEN {} ELSE db.rows[U]
  BY <1>2, <1>5 DEF Databases
<1>9. ASSUME Careful, Members(db, live) PROVE MembersAlive(d, L)
  <2>1. ASSUME NEW q \in Alive(d) PROVE q \in Rows /\ q \notin db.rows[T]
    <3>1. q \in Rows
      BY <1>7, <2>1, AliveRows DEF Good
    <3>2. CASE q \in db.held
      BY <1>2, <1>9, <3>1, <3>2 DEF MayLeave
    <3>3. CASE q \notin db.held
      <4>1. PICK U \in Tables : q \in d.rows[U]
        BY <1>5, <2>1, <3>3 DEF Alive
      <4>2. U # T /\ q \in db.rows[U]
        BY <1>8, <4>1
      <4> QED
        BY <1>9, <3>1, <4>2 DEF Members, MembersOf
    <3> QED
      BY <3>1, <3>2, <3>3
  <2>2. ASSUME NEW q \in Alive(d)
        PROVE  d.table_list[q] = {U \in Tables : q \in d.rows[U]}
    <3>1. db.table_list[q] = {U \in Tables : q \in db.rows[U]}
      BY <1>9, <2>1 DEF Members, MembersOf
    <3>2. \A U \in Tables : q \in d.rows[U] <=> q \in db.rows[U]
      BY <1>8, <2>1
    <3> QED
      BY <1>5, <3>1, <3>2
  <2>3. ASSUME NEW q \in Alive(d), NEW U \in Tables, NEW V \in Tables,
               q \in d.rows[U], q \in d.rows[V]
        PROVE  U = V
    <3>1. q \in db.rows[U] /\ q \in db.rows[V]
      BY <1>8, <2>3
    <3> QED
      BY <1>9, <2>1, <3>1 DEF Members, MembersOf
  <2>4. \A U \in Tables : d.rows[U] # {} => U \in L
    BY <1>6, <1>8, <1>9 DEF Members, MembersOf
  <2>5. ASSUME NEW q \in Alive(d), NEW j \in UsedSlots(d, q), NEW x \in d.fields[q][j].indexed_at
        PROVE  q \in d.rows[x[1]]
    <3>1. q \in Rows /\ j \in UsedSlots(db, q) /\ x \in db.fields[q][j].indexed_at
      BY <1>5, <2>1, <2>5
    <3>2. q \in db.rows[x[1]]
      BY <1>9, <3>1 DEF Members, MembersOf
    <3>3. x[1] \in Tables
      BY <1>2, <3>1 DEF Good, PointersTrue, UsedSlots
    <3>4. x[1] # T
      BY <1>5, <2>5, <3>1 DEF KnowsNot
    <3> QED
      BY <1>8, <3>2, <3>3, <3>4
  <2> QED
    BY <2>2, <2>3, <2>4, <2>5 DEF MembersAlive, MembersOf
<1>10. Fitting(d, L)
  <2>1. Files(d)
    BY <1>2, <1>8 DEF Files
  <2> QED
    BY <1>2, <1>5, <1>7, <1>9, <2>1 DEF Fitting, Fit, Kept
<1> QED
  BY <1>2, <1>3, <1>6, <1>10, BecomeFit

\* A careful client clears no index that has fields that are gone.
LEMMA CarefulCanClear ==
    ASSUME Inv, ~corrupted, NEW T \in Tables, Careful
    PROVE  CanClear(T)
<1>1. PICK db : db = Database
  OBVIOUS
<1>2. Tidy(db) /\ db.index = index /\ db.fields = fields
  BY <1>1, Today
<1>3. ASSUME NEW c \in Columns, NEW j \in DOMAIN index[T][c]
      PROVE  LET n == index[T][c][j]
             IN  /\ <<T, c>> \in fields[n[1]][n[2]].indexed_at
                 /\ \A l \in DOMAIN index[T][c] : index[T][c][l] = n => l = j
  <2>1. PICK s : s = index[T][c]
    OBVIOUS
  <2>2. IsInjective(s) /\ s[j] \in ToSet(s)
    BY <1>2, <1>3, <2>1 DEF Tidy, Known, ToSet
  <2>3. <<T, c>> \in fields[s[j][1]][s[j][2]].indexed_at
    BY <1>2, <2>1, <2>2 DEF Tidy, Known
  <2>4. \A l \in DOMAIN s : s[l] = s[j] => l = j
    BY <1>3, <2>1, <2>2 DEF IsInjective
  <2> QED
    BY <2>1, <2>3, <2>4
<1> QED
  BY <1>3 DEF CanClear

\* Table::clear and the destructor of a table
LEMMA ClearFit ==
    ASSUME Inv, ~corrupted, kind' = kind, NEW T \in Tables, TableClear(T) \/ DropTable(T)
    PROVE  Step
<1>1. /\ Careful => MayLeave(T)
      /\ \/ CanClear(T) /\ Become(ClearedTable(T))
         \/ ~CanClear(T) /\ Corrupt
      /\ live' \in {live, live \ {T}}
  BY DEF TableClear, DropTable
<1>2. CASE CanClear(T) /\ Become(ClearedTable(T))
  BY <1>1, <1>2, ClearedFit
<1>3. CASE ~CanClear(T) /\ Corrupt
  <2>1. live' \in SUBSET Tables
    BY <1>1 DEF Inv, TypeOK
  <2> QED
    BY <1>3, <2>1, CarefulCanClear, CorruptFits
<1> QED
  BY <1>1, <1>2, <1>3

\* The program starts without tables and maps.
LEMMA Start ==
    Init => Inv
<1> SUFFICES ASSUME Init PROVE Inv
  OBVIOUS
<1>1. PICK db : db = Database
  OBVIOUS
<1>2. /\ db.rows = [T \in Tables |-> {}]
      /\ db.index = [T \in Tables |-> [c \in Columns |-> <<>>]]
      /\ db.fields = [r \in Rows |-> [i \in Slots |-> NoField]]
      /\ db.order = [r \in Rows |-> <<>>]
      /\ db.table_list = [r \in Rows |-> {}] /\ db.held = {} /\ live = {}
      /\ kind \in Kinds /\ ~corrupted
  BY <1>1 DEF Init, Database, NoFields
<1>3. <<>> \in Seq(Nodes) /\ <<>> \in Seq(Slots) /\ ToSet(<<>>) = {} /\ DOMAIN <<>> = {}
      /\ Len(<<>>) = 0 /\ IsInjective(<<>>)
  BY DEF ToSet, IsInjective
<1>4. TypeOK
  BY <1>3 DEF Init, TypeOK, NoFields, Nodes
<1>5. db \in Databases
  BY <1>1, <1>4 DEF TypeOK, Database, Databases
<1>6. \A r \in Rows, i \in Slots : db.fields[r][i] = NoField
  BY <1>2
<1>7. \A r \in Rows : UsedSlots(db, r) = {}
  BY <1>6 DEF UsedSlots
<1>8. Good(db, live) /\ AllFreed(db)
  BY <1>2, <1>3, <1>5, <1>6, <1>7 DEF Good, PointersTrue, OrdersExact, AllFreed
<1>9. Tidy(db)
  <2>1. \A T \in Tables, c \in Columns : db.index[T][c] = <<>>
    BY <1>2
  <2> QED
    BY <1>3, <2>1 DEF Tidy, Known, Sorted, Ascending
<1>10. Ordered(db)
  BY <1>2, <1>3 DEF Ordered, Ascending
<1>11. Members(db, live)
  BY <1>2, <1>7 DEF Members, MembersOf
<1>12. Sound(db)
  BY <1>5, <1>9, TidySound
<1> QED
  BY <1>1, <1>2, <1>4, <1>8, <1>9, <1>10, <1>11, <1>12 DEF Inv, Fit

\* Every operation keeps the invariant.
LEMMA NextSteps ==
    ASSUME Inv, Next
    PROVE  Step
<1>1. ~corrupted /\ kind' = kind
  BY DEF Next
<1>2. CASE \E r \in Rows : NewMap(r) \/ MapClear(r) \/ DropMap(r)
  BY <1>1, <1>2, NewMapFit, MapClearFit, DropMapFit
<1>3. CASE \E r \in Rows, k \in Keys, v \in Values \cup {NoKeyValue} :
              MapInsert(r, k, v) \/ MultiMapInsert(r, k, v)
  BY <1>1, <1>3, MapInsertFit, MultiMapInsertFit
<1>4. CASE \E r \in Rows, k \in Keys :
              getOrInsertFieldRef(r, k) \/ MapRemove(r, k) \/ removeAll(r, k)
  BY <1>1, <1>4, GetOrInsertFit, MapRemoveFit, RemoveAllFit
<1>5. CASE \E r \in Rows, k, new_key \in Keys : MapRename(r, k, new_key)
  BY <1>1, <1>5, MapRenameFit
<1>6. CASE \E r \in Rows, i \in Slots : MultiMapRemove(r, i)
  BY <1>1, <1>6, MultiMapRemoveFit
<1>7. CASE \E r \in Rows, i \in Slots, key \in Keys : MultiMapRename(r, i, key)
  BY <1>1, <1>7, MultiMapRenameFit
<1>8. CASE \E r \in Rows, i \in Slots, v \in Values \cup {NoKeyValue} : SetValue(r, i, v)
  BY <1>1, <1>8, SetValueFit
<1>9. CASE \E r \in Rows, i \in Slots, key \in Keys : SetKey(r, i, key)
  BY <1>1, <1>9, SetKeyFit
<1>10. CASE \E T \in Tables : NewTable(T) \/ TableClear(T) \/ DropTable(T)
  BY <1>1, <1>10, NewTableFit, ClearFit
<1>11. CASE \E T \in Tables, r \in Rows : InsertShared(T, r) \/ TableRemove(T, r)
  BY <1>1, <1>11, InsertSharedFit, TableRemoveFit
<1>12. CASE \E T \in Tables, r, copy \in Rows : InsertCopy(T, r, copy)
  BY <1>1, <1>12, InsertCopyFit
<1>13. CASE \E T \in Tables, c \in Columns, v \in Values : getRow(T, c, v)
  BY <1>1, <1>13, GetRowFit
<1> QED
  BY <1>2, <1>3, <1>4, <1>5, <1>6, <1>7, <1>8, <1>9, <1>10, <1>11, <1>12, <1>13 DEF Next

\* Nothing happens.
LEMMA Stutters ==
    ASSUME Inv, UNCHANGED vars
    PROVE  Inv'
<1>1. Database' = Database /\ live' = live /\ corrupted' = corrupted /\ kind' = kind
  BY DEF vars, Database
<1>2. TypeOK'
  BY DEF Inv, TypeOK, vars
<1>3. ASSUME ~corrupted PROVE Fit(Database, live)'
  <2>1. Fit(Database, live)
    BY <1>3 DEF Inv
  <2>2. /\ Good(Database', live') /\ AllFreed(Database') /\ Sound(Database')
        /\ Careful => Tidy(Database') /\ Members(Database', live')
    BY <1>1, <2>1 DEF Fit
  <2>3. ASSUME Careful PROVE Ordered(Database)'
    <3>1. Ordered(Database)
      BY <2>1, <2>3 DEF Fit
    <3> QED
      BY <1>1, <3>1 DEF Ordered
  <2> QED
    BY <2>2, <2>3 DEF Fit
<1> QED
  BY <1>1, <1>2, <1>3 DEF Inv

\* Inv holds in every state, whatever the clients do.
THEOREM Invariance ==
    Spec => []Inv
<1>1. Init => Inv
  BY Start
<1>2. Inv /\ [Next]_vars => Inv'
  BY NextSteps, Stutters DEF Step
<1> QED
  BY <1>1, <1>2, PTL DEF Spec

\* The tables, maps and fields are what they are declared to be.
THEOREM TypeCorrect ==
    Spec => []TypeOK
<1>1. Inv => TypeOK
  BY DEF Inv
<1> QED
  BY <1>1, Invariance, PTL

\* Two ways to write the fields of an index.
LEMMA Elements ==
    ASSUME NEW T, NEW c
    PROVE  Entries(T, c) = ToSet(index[T][c])
  BY DEF Entries, ToSet

\* ~Field unlinks itself through what it knows of its places.  That is true for
\* any client: no row is destroyed into an index or a table that is gone.
THEOREM PointersValid ==
    Spec => []BackPointersValid
<1>1. ASSUME Inv PROVE BackPointersValid
  <2> SUFFICES ASSUME ~corrupted, NEW r \in Rows, NEW i \in UsedSlots(Database, r),
                      NEW x \in fields[r][i].indexed_at
               PROVE  /\ x[1] \in live /\ x[2] = fields[r][i].key
                      /\ <<r, i>> \in Entries(x[1], x[2])
    BY DEF BackPointersValid
  <2>1. PICK db : db = Database
    OBVIOUS
  <2>2. Good(db, live) /\ db.fields = fields /\ db.index = index
    BY <1>1, <2>1, Today
  <2>3. i \in Slots /\ db.fields[r][i] # NoField
    BY <2>1 DEF UsedSlots
  <2>4. /\ x[1] \in live /\ x[2] = db.fields[r][i].key
        /\ <<r, i>> \in ToSet(db.index[x[1]][x[2]])
    BY <2>2, <2>3 DEF Good, PointersTrue
  <2> QED
    BY <2>2, <2>4, Elements
<1> QED
  BY <1>1, Invariance, PTL

\* A row that TableImplementation::insert accepts is found by each of its columns
\* from then on: the loop over its fields has filed all of them, or none.
THEOREM RowsAreFiled ==
    Spec => AcceptedRowsAreIndexed
<1>1. ASSUME Inv, [Next]_vars
      PROVE  [\A T \in Tables : \A r \in rows'[T] \ rows[T] :
                 \A i \in Slots :
                     fields'[r][i] # NoField /\ fields'[r][i].key \in Columns
                         => <<T, fields'[r][i].key>> \in fields'[r][i].indexed_at]_vars
  BY <1>1, NextSteps DEF Step, Accepted
<1> QED
  BY <1>1, Invariance, PTL DEF Spec, AcceptedRowsAreIndexed

\* The contract of "Care" in Table is enough: a client that keeps it meets no
\* table or index that is gone, no iterator of a field that is gone, and no index
\* whose order has changed under it.
THEOREM CareIsEnough ==
    ASSUME Careful
    PROVE  Spec => []NeverCorrupted
<1>1. Inv => NeverCorrupted
  BY DEF Inv, NeverCorrupted
<1> QED
  BY <1>1, Invariance, PTL

\* An index points to each of its fields once, and to fields of rows of its
\* table only: nothing is left by a row that was rejected, removed or freed.
THEOREM IndexesExact ==
    ASSUME Careful
    PROVE  Spec => []IndexesHoldRows
<1>1. ASSUME Inv PROVE IndexesHoldRows
  <2> SUFFICES ASSUME NEW T \in Tables, NEW c \in Columns
               PROVE  /\ IsInjective(index[T][c])
                      /\ \A n \in ToSet(index[T][c]) :
                            /\ n[1] \in rows[T] /\ fields[n[1]][n[2]] # NoField
                            /\ <<T, c>> \in fields[n[1]][n[2]].indexed_at
    BY Elements DEF IndexesHoldRows
  <2>1. PICK db : db = Database
    OBVIOUS
  <2>2. /\ Tidy(db) /\ Members(db, live) /\ db \in Databases
        /\ db.rows = rows /\ db.index = index /\ db.fields = fields
    BY <1>1, <2>1, Today DEF Inv
  <2>3. IsInjective(index[T][c])
    BY <2>2 DEF Tidy, Known
  <2>4. ASSUME NEW n \in ToSet(index[T][c])
        PROVE  /\ n[1] \in rows[T] /\ fields[n[1]][n[2]] # NoField
               /\ <<T, c>> \in fields[n[1]][n[2]].indexed_at
    <3>1. fields[n[1]][n[2]] # NoField /\ <<T, c>> \in fields[n[1]][n[2]].indexed_at
      BY <2>2 DEF Tidy, Known
    <3>2. n \in Nodes
      BY <2>2, InIndex
    <3>3. n[1] \in Rows /\ n[2] \in UsedSlots(db, n[1])
      BY <2>2, <3>1, <3>2 DEF Nodes, UsedSlots
    <3>4. PICK x : x = <<T, c>>
      OBVIOUS
    <3>5. n[1] \in rows[x[1]]
      BY <2>2, <3>1, <3>3, <3>4 DEF Members, MembersOf
    <3> QED
      BY <3>1, <3>4, <3>5
  <2> QED
    BY <2>3, <2>4
<1> QED
  BY <1>1, Invariance, PTL

\* Every index is in the order of the values its fields have now.
THEOREM IndexesInOrder ==
    ASSUME Careful
    PROVE  Spec => []IndexesSorted
<1>1. ASSUME Inv PROVE IndexesSorted
  <2>1. Sound(Database)
    BY <1>1 DEF Inv, Fit
  <2> QED
    BY <2>1 DEF IndexesSorted, Sound
<1> QED
  BY <1>1, Invariance, PTL

\* The iterators of a map or multimap go over its fields once, by their keys.
THEOREM IterationInOrder ==
    ASSUME Careful
    PROVE  Spec => []FieldsInOrder
<1>1. ASSUME Inv, NEW r \in Rows
      PROVE  /\ ToSet(order[r]) = UsedSlots(Database, r) /\ IsInjective(order[r])
             /\ InKeyOrder(Database, r)
  <2>1. PICK db : db = Database
    OBVIOUS
  <2>2. /\ Good(db, live) /\ Ordered(db) /\ db.order = order /\ db.fields = fields
        /\ kind \in {"map", "multimap"} /\ db \in Databases
    BY <1>1, <2>1, Today DEF Inv
  <2>3. ToSet(order[r]) = UsedSlots(db, r) /\ IsInjective(order[r])
    BY <2>2 DEF Good, OrdersExact
  <2>4. PICK s \in Seq(Slots) : s = db.order[r]
    BY <2>2 DEF Databases
  <2>5. PICK g : g = KeysIn(db, r)
    OBVIOUS
  <2>6. \A j \in 1 .. Len(s) : s[j] \in ToSet(s)
    BY DEF ToSet
  <2>7. \A j \in 1 .. Len(s) : s[j] \in Slots /\ db.fields[r][s[j]] # NoField
    BY <2>2, <2>3, <2>4, <2>6 DEF UsedSlots
  <2>8. \A j \in 1 .. Len(s) : g[s[j]] = db.fields[r][s[j]].key /\ g[s[j]] \in Nat
    <3>1. \A j \in 1 .. Len(s) : db.fields[r][s[j]].key \in Keys
      BY <2>2, <2>7, IsField
    <3> QED
      BY <2>5, <2>7, <3>1, TableAssumption DEF KeysIn
  <2>9. Ascending(s, g, kind, {"map"})
    BY <2>2, <2>4, <2>5 DEF Ordered
  <2>10. ASSUME NEW j \in 2 .. Len(s)
         PROVE  LET k == db.fields[r][s[j - 1]].key
                    l == db.fields[r][s[j]].key
                IN  k < l \/ (kind = "multimap" /\ k = l)
    <3>1. j \in 1 .. Len(s) /\ j - 1 \in 1 .. Len(s) /\ j - 1 < j
      OBVIOUS
    <3>2. g[s[j - 1]] <= g[s[j]] /\ (kind \in {"map"} => g[s[j - 1]] # g[s[j]])
      BY <2>9, <3>1 DEF Ascending
    <3>3. g[s[j - 1]] < g[s[j]] \/ (kind = "multimap" /\ g[s[j - 1]] = g[s[j]])
      BY <2>2, <2>8, <3>1, <3>2
    <3> QED
      BY <2>8, <3>1, <3>3
  <2>11. InKeyOrder(db, r)
    BY <2>4, <2>10 DEF InKeyOrder
  <2> QED
    BY <2>1, <2>3, <2>11
<1>2. Inv => FieldsInOrder
  BY <1>1 DEF FieldsInOrder
<1> QED
  BY <1>2, Invariance, PTL
==============================================================================
