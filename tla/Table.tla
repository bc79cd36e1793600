------------------------------- MODULE Table -------------------------------
(***************************************************************************)
(* libbinom ram_storage_implementation: a table is a set of rows (maps or  *)
(* multimaps it shares with its clients) and one sorted index per column.  *)
(* An index is made of pointers to the fields of rows; each field keeps,   *)
(* per index it is in, the place it has there; each map keeps the tables   *)
(* it is a row of.  The module is about these pointers, and the order.     *)
(*                                                                         *)
(* An operation is one step: it holds the unique lock of the table or of   *)
(* the map it works on, and of every index it touches.                     *)
(***************************************************************************)
EXTENDS Naturals, FiniteSets, SequencesExt

CONSTANTS
    Tables,
    Kinds,            \* what rows are: "map", "multimap"
    Rows,             \* addresses of maps; one is reused when freed
    Slots,            \* addresses of the fields of a map: 1 .. the most it has
    Keys,             \* keys of fields, numbered in their order
    Columns,          \* the header of every table
    UniqueColumns,    \* those of type IndexType::unique_index
    Required,         \* the constraint of every table: the row contains these
    Values,           \* values that can be keys in their order; the least is null
    NoKeyValue,       \* a value that can not: a container
    NoField,
    MaxEntries,       \* bound: InsertShared into an index below this length
    Careful           \* do clients keep the rules of "Care" below?

\* The key and value of a field; its type is indexed when it is in an index.
Field == [key        : Keys,
          value      : Values \cup {NoKeyValue},
          indexed_at : SUBSET (Tables \X Columns)]

ASSUME TableAssumption ==
    /\ Kinds \subseteq {"map", "multimap"}
    /\ IsFiniteSet(Tables) /\ IsFiniteSet(Rows)
    /\ IsFiniteSet(Slots) /\ Slots \subseteq Nat
    /\ IsFiniteSet(Keys) /\ Keys \subseteq Nat
    /\ Columns \subseteq Keys /\ UniqueColumns \subseteq Columns
    /\ Required \subseteq Keys
    /\ Values # {} /\ Values \subseteq Nat /\ NoKeyValue \notin Values
    /\ NoField \notin Field
    /\ MaxEntries \in Nat /\ Careful \in BOOLEAN

VARIABLES
    kind,         \* what all rows of a behaviour are
    live,         \* the tables that exist
    rows,         \* rows[T]: TableImplementation::rows
    index,        \* index[T][c]: the fields in the index of column c, in order
    fields,       \* fields[r][i]: a Field of map r
    order,        \* order[r]: the fields of map r in the order of its iterators
    table_list,   \* table_list[r]: MapImplementation::table_list
    held,         \* maps that a client has a variable for
    corrupted     \* has undefined behaviour happened?  Nothing follows

vars == <<kind, live, rows, index, fields, order, table_list, held, corrupted>>

TypeOK ==
    /\ kind \in Kinds
    /\ live \in SUBSET Tables
    /\ rows \in [Tables -> SUBSET Rows]
    /\ index \in [Tables -> [Columns -> Seq(Rows \X Slots)]]
    /\ fields \in [Rows -> [Slots -> Field \cup {NoField}]]
    /\ order \in [Rows -> Seq(Slots)]
    /\ table_list \in [Rows -> SUBSET Tables]
    /\ held \in SUBSET Rows
    /\ corrupted \in BOOLEAN

NoFields == [i \in Slots |-> NoField]

Init ==
    /\ kind \in Kinds
    /\ live = {}
    /\ rows = [T \in Tables |-> {}]
    /\ index = [T \in Tables |-> [c \in Columns |-> <<>>]]
    /\ fields = [r \in Rows |-> NoFields]
    /\ order = [r \in Rows |-> <<>>]
    /\ table_list = [r \in Rows |-> {}]
    /\ held = {}
    /\ corrupted = FALSE

-----------------------------------------------------------------------------
(***************************************************************************)
(* An operation composes smaller ones, and destroys a map when its last    *)
(* link goes.  They are operators from databases to databases.             *)
(***************************************************************************)
Database == [rows |-> rows, index |-> index, fields |-> fields, order |-> order,
             table_list |-> table_list, held |-> held]

ValueAt(db, n) == db.fields[n[1]][n[2]].value

UsedSlots(db, r) == {i \in Slots : db.fields[r][i] # NoField}

KeysOf(db, r) == {db.fields[r][i].key : i \in UsedSlots(db, r)}

SlotOf(db, r, k) == CHOOSE i \in UsedSlots(db, r) : db.fields[r][i].key = k

\* std::multiset::insert: behind the elements that are not greater.
UpperBound(s, NotGreater(_)) ==
    CHOOSE p \in 0 .. Len(s) : /\ \A j \in 1..p : NotGreater(s[j])
                               /\ p < Len(s) => ~NotGreater(s[p + 1])

Filed(s, x, NotGreater(_)) == InsertAt(s, UpperBound(s, NotGreater) + 1, x)

\* The std::set of a map, and the std::multiset of a multimap, are ordered by
\* key; a new field comes behind those of its key.
InKeyOrder(db, r) ==
    \A j \in 2 .. Len(db.order[r]) :
        LET k == db.fields[r][db.order[r][j - 1]].key
            l == db.fields[r][db.order[r][j]].key
        IN k < l \/ (kind = "multimap" /\ k = l)

InPlace(db, r, i) ==
    LET not_greater(j) == db.fields[r][j].key <= db.fields[r][i].key
    IN [db EXCEPT !.order[r] = Filed(RemoveFirst(@, i), i, not_greater)]

-----------------------------------------------------------------------------
(* Index *)

HasValue(db, T, c, v) ==
    \E j \in DOMAIN db.index[T][c] : ValueAt(db, db.index[T][c][j]) = v

InValueOrder(db, T, c) ==
    \A j \in 2 .. Len(db.index[T][c]) :
        LET v == ValueAt(db, db.index[T][c][j - 1])
            w == ValueAt(db, db.index[T][c][j])
        IN v <= w /\ (c \in UniqueColumns => v # w)

\* The variants _Name are mistakes that a property must notice.
Insert_AtTheEnd(db, T, c, n) ==
    [db EXCEPT !.index[T][c] = Append(@, n),
               !.fields[n[1]][n[2]].indexed_at = @ \cup {<<T, c>>}]

Insert(db, T, c, n) ==
    LET not_greater(m) == ValueAt(db, m) <= ValueAt(db, n)
    IN [db EXCEPT !.index[T][c] = Filed(@, n, not_greater),
                  !.fields[n[1]][n[2]].indexed_at = @ \cup {<<T, c>>}]

\* Index::add fails for a value that is no key, and for one that is there.
CanAdd(db, T, c, n) ==
    /\ ValueAt(db, n) \in Values
    /\ c \in UniqueColumns => ~HasValue(db, T, c, ValueAt(db, n))

add(db, T, c, n) == IF CanAdd(db, T, c, n) THEN Insert(db, T, c, n) ELSE db

\* erase(iterator) of one entry; the field still thinks it is there.
Erase(db, T, c, n) ==
    [db EXCEPT !.index[T][c] = RemoveFirst(@, n)]

remove(db, T, c, n) ==
    IF <<T, c>> \in db.fields[n[1]][n[2]].indexed_at
    THEN [Erase(db, T, c, n) EXCEPT
              !.fields[n[1]][n[2]].indexed_at = @ \ {<<T, c>>}]
    ELSE db

clear_OnlyTheSet(db, T, c) == [db EXCEPT !.index[T][c] = <<>>]

clear(db, T, c) ==
    LET step(d, n) == remove(d, T, c, n)
    IN FoldLeft(step, db, db.index[T][c])

-----------------------------------------------------------------------------
(* Field and Map *)

\* IndexedField::unlinkFromIndexes: out of every index the field knows of.
unlinkFromIndexes(db, n) ==
    LET at == db.fields[n[1]][n[2]].indexed_at
        step(x, d) == Erase(d, x[1], x[2], n)
    IN [FoldSet(step, db, at) EXCEPT !.fields[n[1]][n[2]].indexed_at = {}]

RemoveField(db, r, i) ==
    [unlinkFromIndexes(db, <<r, i>>) EXCEPT
        !.fields[r][i] = NoField,
        !.order[r] = RemoveFirst(@, i)]

updateKey_AnyKey(db, r, i) ==
    LET step(T, d) == add(d, T, db.fields[r][i].key, <<r, i>>)
    IN FoldSet(step, db, db.table_list[r])

\* MapImplementation::updateKey for a new field: errors of add are dropped.
updateKey(db, r, i) ==
    LET k == db.fields[r][i].key
        step(T, d) == add(d, T, k, <<r, i>>)
    IN IF k \in Columns THEN FoldSet(step, db, db.table_list[r]) ELSE db

\* What the destructor of a map does for the maps that nobody has any more.
Alive(db) == db.held \cup UNION {db.rows[T] : T \in Tables}

RemoveFields(db, r, S) ==
    LET step(i, d) == RemoveField(d, r, i) IN FoldSet(step, db, S)

DestroyMap(db, r) ==
    [RemoveFields(db, r, UsedSlots(db, r)) EXCEPT !.table_list[r] = {}]

Released(db) ==
    LET step(r, d) == DestroyMap(d, r)
    IN FoldSet(step, db, {r \in Rows \ Alive(db) : db.order[r] # <<>>
                                               \/ db.table_list[r] # {}})

\* A pointer in an index to a field that is gone or has a value without order.
Broken(db, T, c) ==
    \E j \in DOMAIN db.index[T][c] :
        LET n == db.index[T][c][j]
        IN db.fields[n[1]][n[2]] = NoField \/ ValueAt(db, n) \notin Values

\* What a std::set does is undefined once its order changes under it.
Sound(db) ==
    \A T \in Tables, c \in Columns : ~Broken(db, T, c) /\ InValueOrder(db, T, c)

Become(db) ==
    LET d == Released(db)
    IN /\ rows' = d.rows
       /\ index' = d.index
       /\ fields' = d.fields
       /\ order' = d.order
       /\ table_list' = d.table_list
       /\ held' = d.held
       /\ corrupted' = ~Sound(d)

Corrupt ==
    /\ corrupted' = TRUE
    /\ UNCHANGED <<rows, index, fields, order, table_list, held>>

-----------------------------------------------------------------------------
(***************************************************************************)
(* Care: what a client has to keep to itself.  Rows are inserted by copy;  *)
(* a field in an index gets no new value and no new key; and no one keeps  *)
(* a variable for a row of a table that is cleared or destroyed.           *)
(***************************************************************************)
IsIndexed(r, i) == fields[r][i].indexed_at # {}

MayLeave(T) == held \cap rows[T] = {}

-----------------------------------------------------------------------------
(* Maps *)

\* literals::map with no fields, or Map().
NewMap(r) ==
    /\ r \notin Alive(Database)
    /\ Become([Database EXCEPT !.held = @ \cup {r}])
    /\ UNCHANGED live

\* Some table that the map remembers is gone; updateKey looks into it.
StaleTable(r) == table_list[r] \ live # {}

NewField(db, r, k, v) ==
    LET i == CHOOSE j \in Slots \ UsedSlots(db, r) :
                \A l \in Slots \ UsedSlots(db, r) : j <= l
    IN InPlace([db EXCEPT !.fields[r][i] = [key |-> k, value |-> v, indexed_at |-> {}]],
               r, i)

InsertField(db, r, k, v) ==
    LET d == NewField(db, r, k, v) IN updateKey(d, r, SlotOf(d, r, k))

MapInsert(r, k, v) ==
    /\ kind = "map"
    /\ r \in held
    /\ UsedSlots(Database, r) # Slots
    /\ k \notin KeysOf(Database, r)     \* else binom_key_unique_error
    /\ \/ ~StaleTable(r) /\ Become(InsertField(Database, r, k, v))
       \/ StaleTable(r) /\ Corrupt
    /\ UNCHANGED live

\* Map::operator[] of a key that is not there: a null, which is never indexed.
getOrInsertFieldRef(r, k) ==
    /\ kind = "map"
    /\ r \in held
    /\ UsedSlots(Database, r) # Slots
    /\ k \notin KeysOf(Database, r)
    /\ Become(NewField(Database, r, k, Min(Values)))
    /\ UNCHANGED live

MapRemove(r, k) ==
    /\ kind = "map"
    /\ r \in held
    /\ k \in KeysOf(Database, r)        \* else binom_out_of_range
    /\ Become(RemoveField(Database, r, SlotOf(Database, r, k)))
    /\ UNCHANGED live

\* clear of both: the tables of the map still have it.
MapClear(r) ==
    /\ r \in held
    /\ Become(RemoveFields(Database, r, UsedSlots(Database, r)))
    /\ UNCHANGED live

\* Field::setKey of a field in an index takes it out of every index and calls
\* updateKey of Map or MultiMap, which answers true although no index was
\* told the new key: the field has the type of an indexed one and no index to
\* read its key from.
setKeyFails(r, i) == IsIndexed(r, i)

setKey(db, r, i, key) == [db EXCEPT !.fields[r][i].key = key]

\* extract, setKey and insert.
Renamed(db, r, i, key) == InPlace(setKey(db, r, i, key), r, i)

MapRename_Overwrites(r, k, new_key) ==
    /\ kind = "map"
    /\ r \in held
    /\ k \in KeysOf(Database, r)
    /\ LET i == SlotOf(Database, r, k)
       IN ~setKeyFails(r, i) /\ Become(Renamed(Database, r, i, new_key))
    /\ UNCHANGED live

\* Map::rename; a key that is taken puts the field back under the old one.
MapRename(r, k, new_key) ==
    /\ kind = "map"
    /\ r \in held
    /\ LET there == k \in KeysOf(Database, r)
           i == SlotOf(Database, r, k)
           key == IF new_key \in KeysOf(Database, r) THEN k ELSE new_key
       IN \/ there /\ ~setKeyFails(r, i) /\ Become(Renamed(Database, r, i, key))
          \/ there /\ setKeyFails(r, i) /\ ~Careful /\ Corrupt
          \/ ~there /\ ~Careful /\ Corrupt    \* extract(end())
    /\ UNCHANGED live

\* A variable for a map goes out of scope.
DropMap(r) ==
    /\ r \in held
    /\ Become([Database EXCEPT !.held = @ \ {r}])
    /\ UNCHANGED live

\* FieldRef::setValue and FieldRef::setKey write into the field and leave the
\* containers around it as they are.
SetValue(r, i, v) ==
    /\ r \in held
    /\ fields[r][i] # NoField
    /\ fields[r][i].indexed_at # {} => v \in Values /\ ~Careful
    /\ Become([Database EXCEPT !.fields[r][i].value = v])
    /\ UNCHANGED live

SetKey(r, i, key) ==
    LET d == setKey(Database, r, i, key)
    IN /\ r \in held
       /\ fields[r][i] # NoField
       /\ \/ ~setKeyFails(r, i) /\ InKeyOrder(d, r) /\ Become(d)
          \/ /\ ~setKeyFails(r, i) /\ ~InKeyOrder(d, r) /\ ~Careful
             /\ fields' = d.fields
             /\ corrupted' = TRUE
             /\ UNCHANGED <<rows, index, order, table_list, held>>
          \/ setKeyFails(r, i) /\ ~Careful /\ Corrupt
       /\ UNCHANGED live

-----------------------------------------------------------------------------
(* Multimaps: a field is named by an iterator *)

\* The key has moved into the field when updateKey asks for its column: the
\* field goes to no index.
MultiMapInsert(r, k, v) ==
    /\ kind = "multimap"
    /\ r \in held
    /\ UsedSlots(Database, r) # Slots
    /\ \/ ~StaleTable(r) /\ Become(NewField(Database, r, k, v))
       \/ StaleTable(r) /\ Corrupt
    /\ UNCHANGED live

MultiMapRemove(r, i) ==
    /\ kind = "multimap"
    /\ r \in held
    /\ fields[r][i] # NoField
    /\ Become(RemoveField(Database, r, i))
    /\ UNCHANGED live

removeAll(r, k) ==
    /\ kind = "multimap"
    /\ r \in held
    /\ Become(RemoveFields(Database, r, {i \in UsedSlots(Database, r) :
                                            fields[r][i].key = k}))
    /\ UNCHANGED live

MultiMapRename(r, i, new_key) ==
    /\ kind = "multimap"
    /\ r \in held
    /\ fields[r][i] # NoField
    /\ \/ ~setKeyFails(r, i) /\ Become(Renamed(Database, r, i, new_key))
       \/ setKeyFails(r, i) /\ ~Careful /\ Corrupt
    /\ UNCHANGED live

-----------------------------------------------------------------------------
(* Tables *)

NewTable(T) ==
    /\ T \notin live
    /\ live' = live \cup {T}
    /\ UNCHANGED <<rows, index, fields, order, table_list, held, corrupted>>

\* The loop of TableImplementation::insert, over the fields of the map in
\* their order, up to the one that fails.  A key without a column is skipped.
FileField(x, T, r, i) ==
    LET c == x.db.fields[r][i].key
    IN IF x.failed \/ c \notin Columns THEN x
       ELSE IF ~CanAdd(x.db, T, c, <<r, i>>) THEN [x EXCEPT !.failed = TRUE]
       ELSE [x EXCEPT !.db = Insert(@, T, c, <<r, i>>), !.filed = Append(@, i)]

FileFields(db, T, r) ==
    LET step(x, i) == FileField(x, T, r, i)
    IN FoldLeft(step, [db |-> db, filed |-> <<>>, failed |-> FALSE], db.order[r])

RollBack_OnlyTheSets(db, T, r, filed) ==
    LET step(d, i) == Erase(d, T, d.fields[r][i].key, <<r, i>>)
    IN FoldLeft(step, db, Reverse(filed))

\* The roll-back takes back what was filed, but for the first field of the map.
TakeBack(db, T, r, i) ==
    IF i = Head(db.order[r]) THEN db
    ELSE remove(db, T, db.fields[r][i].key, <<r, i>>)

RollBack(db, T, r, filed) ==
    LET step(d, i) == TakeBack(d, T, r, i) IN FoldLeft(step, db, Reverse(filed))

Accepts(db, T, r) ==
    /\ r \notin db.rows[T]                     \* else binom_key_unique_error
    /\ Required \subseteq KeysOf(db, r)        \* test(row, query)

InsertRow_KeepsGoing(db, T, r) ==
    LET step(d, i) == IF d.fields[r][i].key \in Columns
                      THEN add(d, T, d.fields[r][i].key, <<r, i>>) ELSE d
    IN IF ~Accepts(db, T, r) THEN db
       ELSE [FoldLeft(step, [db EXCEPT !.table_list[r] = @ \cup {T}], db.order[r])
                EXCEPT !.rows[T] = @ \cup {r}]

\* TableImplementation::insert.
InsertRow(db, T, r) ==
    LET x == FileFields([db EXCEPT !.table_list[r] = @ \cup {T}], T, r)
    IN IF ~Accepts(db, T, r) THEN db
       ELSE IF x.failed THEN RollBack(x.db, T, r, x.filed)
       ELSE [x.db EXCEPT !.rows[T] = @ \cup {r}]

\* table.insert(row.move()): the table shares the row with the client.
InsertShared(T, r) ==
    /\ ~Careful
    /\ T \in live /\ r \in held
    /\ \A c \in Columns : Len(index[T][c]) < MaxEntries
    /\ Become(InsertRow(Database, T, r))
    /\ UNCHANGED live

\* A deep copy of a map: its fields one by one, local and in no table.
Copied(db, r, copy) ==
    LET step(d, i) == NewField(d, copy, db.fields[r][i].key, db.fields[r][i].value)
    IN FoldLeft(step, db, db.order[r])

\* table.insert(row): a copy that is rejected dies with the argument.
InsertCopy(T, r, copy) ==
    /\ T \in live /\ r \in held
    /\ copy \notin Alive(Database)
    /\ Become(InsertRow(Copied(Database, r, copy), T, copy))
    /\ UNCHANGED live

RemoveRow_LeavesIndexes(db, T, r) ==
    [db EXCEPT !.table_list[r] = @ \ {T}, !.rows[T] = @ \ {r}]

Unfile(db, T, r, i) ==
    IF db.fields[r][i].key \in Columns
    THEN remove(db, T, db.fields[r][i].key, <<r, i>>) ELSE db

RemoveRow_RowRemembers(db, T, r) ==
    LET step(d, i) == Unfile(d, T, r, i)
    IN [FoldLeft(step, db, db.order[r]) EXCEPT !.rows[T] = @ \ {r}]

\* TableImplementation::remove(row).
RemoveRow(db, T, r) ==
    LET step(d, i) == Unfile(d, T, r, i)
        d0 == [db EXCEPT !.table_list[r] = @ \ {T}]
    IN [FoldLeft(step, d0, d0.order[r]) EXCEPT !.rows[T] = @ \ {r}]

\* remove(row), and remove(column, value) and remove(query) of rows they find.
TableRemove(T, r) ==
    /\ T \in live
    /\ r \in rows[T]
    /\ Become(RemoveRow(Database, T, r))
    /\ UNCHANGED live

\* The client gets a variable for the first row with this value.
getRow(T, c, v) ==
    /\ T \in live
    /\ HasValue(Database, T, c, v)
    /\ LET j == SelectInSeq(index[T][c], LAMBDA n : ValueAt(Database, n) = v)
       IN Become([Database EXCEPT !.held = @ \cup {index[T][c][j][1]}])
    /\ UNCHANGED live

\* Index::clear goes round for ever at a field that does not know the index.
CanClear(T) ==
    \A c \in Columns : \A j \in DOMAIN index[T][c] :
        LET n == index[T][c][j]
        IN /\ <<T, c>> \in fields[n[1]][n[2]].indexed_at
           /\ \A l \in DOMAIN index[T][c] : index[T][c][l] = n => l = j

\* The rows are not told: table_list keeps T.
ClearedTable(T) ==
    LET step(c, d) == clear(d, T, c)
    IN [FoldSet(step, Database, Columns) EXCEPT !.rows[T] = {}]

TableClear(T) ==
    /\ T \in live
    /\ Careful => MayLeave(T)
    /\ \/ CanClear(T) /\ Become(ClearedTable(T))
       \/ ~CanClear(T) /\ Corrupt
    /\ UNCHANGED live

DropTable(T) ==
    /\ T \in live
    /\ Careful => MayLeave(T)
    /\ \/ CanClear(T) /\ Become(ClearedTable(T))
       \/ ~CanClear(T) /\ Corrupt
    /\ live' = live \ {T}

Next ==
    /\ ~corrupted /\ UNCHANGED kind
    /\ \/ \E r \in Rows : NewMap(r) \/ MapClear(r) \/ DropMap(r)
       \/ \E r \in Rows, k \in Keys, v \in Values \cup {NoKeyValue} :
             MapInsert(r, k, v) \/ MultiMapInsert(r, k, v)
       \/ \E r \in Rows, k \in Keys :
             getOrInsertFieldRef(r, k) \/ MapRemove(r, k) \/ removeAll(r, k)
       \/ \E r \in Rows, k, new_key \in Keys : MapRename(r, k, new_key)
       \/ \E r \in Rows, i \in Slots : MultiMapRemove(r, i)
       \/ \E r \in Rows, i \in Slots, key \in Keys : MultiMapRename(r, i, key)
       \/ \E r \in Rows, i \in Slots, v \in Values \cup {NoKeyValue} : SetValue(r, i, v)
       \/ \E r \in Rows, i \in Slots, key \in Keys : SetKey(r, i, key)
       \/ \E T \in Tables : NewTable(T) \/ TableClear(T) \/ DropTable(T)
       \/ \E T \in Tables, r \in Rows : InsertShared(T, r) \/ TableRemove(T, r)
       \/ \E T \in Tables, r, copy \in Rows : InsertCopy(T, r, copy)
       \/ \E T \in Tables, c \in Columns, v \in Values : getRow(T, c, v)

Spec == Init /\ [][Next]_vars

-----------------------------------------------------------------------------
(* Correctness *)

Entries(T, c) == {index[T][c][j] : j \in DOMAIN index[T][c]}

\* What a field knows of its place in an index is true, whatever the client
\* does: the index is still there and has the field.  ~Field unlinks itself
\* through these pointers from wherever the last variable of a row is dropped.
BackPointersValid ==
    ~corrupted =>
        \A r \in Rows : \A i \in UsedSlots(Database, r) :
            \A x \in fields[r][i].indexed_at :
                /\ x[1] \in live
                /\ x[2] = fields[r][i].key
                /\ <<r, i>> \in Entries(x[1], x[2])

\* The other way round: the fields an index points to know of it, once each,
\* and belong to a row of the table, so that a search returns rows of the table
\* and nothing is left behind by a row that was rejected, removed or freed.
IndexesHoldRows ==
    \A T \in Tables, c \in Columns :
        /\ IsInjective(index[T][c])
        /\ \A n \in Entries(T, c) :
              /\ n[1] \in rows[T] /\ fields[n[1]][n[2]] # NoField
              /\ <<T, c>> \in fields[n[1]][n[2]].indexed_at

\* Every index is in the order of the values its fields have now; a value is in
\* a unique index once.
IndexesSorted ==
    \A T \in Tables, c \in Columns :
        ~Broken(Database, T, c) => InValueOrder(Database, T, c)

\* The iterators of a map or multimap go over each of its fields once, in the
\* order of the keys, of which a map has each once, renamed fields and fields
\* put back included.
FieldsInOrder ==
    \A r \in Rows :
        /\ ToSet(order[r]) = UsedSlots(Database, r) /\ IsInjective(order[r])
        /\ InKeyOrder(Database, r)

\* With careful clients nothing undefined happens, and no operation meets a
\* table or an index that is gone.
NeverCorrupted == ~corrupted

\* The step in which a table accepts a row files every field of an indexed
\* column of it.
AcceptedRowsAreIndexed ==
    [][\A T \in Tables : \A r \in rows'[T] \ rows[T] :
          \A i \in Slots :
              fields'[r][i] # NoField /\ fields'[r][i].key \in Columns
                  => <<T, fields'[r][i].key>> \in fields'[r][i].indexed_at]_vars
=============================================================================
