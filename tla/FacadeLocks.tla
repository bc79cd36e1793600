----------------------------- MODULE FacadeLocks -----------------------------
(***************************************************************************)
(* What the methods of the variable classes do with locks.  A method is a  *)
(* script: lock objects opened and closed around uses of shared data, each *)
(* a step other threads can come between.  What is done to the data is     *)
(* left out; only who reads and who writes which object is kept, for that  *)
(* is what a lock decides about.                                           *)
(***************************************************************************)
EXTENDS TransactionLock

CONSTANTS theTable, theRow,   \* two variables of one class, or a table and its row
          theColumn,          \* an index of the table, which is no variable
          theField            \* what a field of the row keeps: its value and
                              \* its places in indexes; it has no mutex

ASSUME ObjectsAssumption ==
    /\ {theTable, theRow, theColumn} \subseteq Mutexes
    /\ Cardinality({theTable, theRow, theColumn}) = 3
    /\ theField \notin Mutexes

VARIABLES
    class,     \* the class of the two variables
    careful,   \* do clients open a transaction around what needs one?
    script,    \* script[t]: the method t is in
    pc         \* pc[t]: the step it is at

facadeVars == <<txVars, class, careful, script, pc>>

Variables == {theTable, theRow}

\* What threads share: the data behind a mutex, and the field.
AllData == Mutexes \cup {theField}

\* Two variables, or a container and a variable handed to it or found in it.
Pairs == {p \in Variables \X Variables : p[1] # p[2]}

-----------------------------------------------------------------------------
(* The shapes of methods *)

Use(reads, writes) == <<[op |-> "use", reads |-> reads, writes |-> writes]>>
Read(x)  == Use({x}, {})
Write(x) == Use({}, {x})

Locked(x, lock_type, body) ==
    <<[op |-> "lock", mtx |-> x, lock_type |-> lock_type]>> \o body
        \o <<[op |-> "unlock"]>>

\* The copy of a Link and what move() does with it: x is locked for a moment.
linked(x) == Locked(x, "shared_locked", <<>>)

Reading(x) == Locked(x, "shared_locked", Read(x))

\* Faulty: the lock of a getter in a method that changes its object.
Changing_Shared(x) == Locked(x, "shared_locked", Write(x))

Changing(x) == Locked(x, "unique_locked", Write(x))

ReadingAlone(x) == Locked(x, "unique_locked", Read(x))

\* Link::cloneResource: *container gives its lock back before the copy is
\* made.  begin and end of an Array do as much.
cloneResource(x) == linked(x) \o Read(x)

\* operator=(const Variable&): the same with **other.
assign(x, y) == Locked(x, "unique_locked", linked(y) \o Use({y}, {x}))

\* What every class inherits from Variable or defines alike.
VariableMethods ==
    {Reading(x) : x \in Variables} \cup {cloneResource(x) : x \in Variables}
    \cup {assign(p[1], p[2]) : p \in Pairs}

-----------------------------------------------------------------------------
(* Number: the operators of ArithmeticTypeBase.  The operand is asked for   *)
(* its type and for its value, under a lock each.                           *)

operand(y) == Reading(y) \o Reading(y)

compare(x, y) == Locked(x, "shared_locked", Read(x) \o operand(y))

\* operator=: the value is written under the shared lock.
assignNumber(x, y) == Locked(x, "shared_locked", operand(y) \o Write(x))

\* operator+= and its like: the shared lock is upgraded for the change.
compound(x, y) == Locked(x, "shared_locked", operand(y) \o Changing(x))

\* operator+ and its like
binary(x, y) == Locked(x, "unique_locked", Read(x) \o operand(y))

NumberMethods ==
    {compare(p[1], p[2]) : p \in Pairs} \cup {binary(p[1], p[2]) : p \in Pairs}
    \cup {assignNumber(p[1], p[2]) : p \in Pairs}
    \cup {compound(p[1], p[2]) : p \in Pairs}
    \cup {Changing(x) : x \in Variables}

-----------------------------------------------------------------------------
(* The containers: getters, modifiers, begin and end *)

Modifiers == {Changing(x) : x \in Variables}

\* pushBack(y.move()) and its like: y is linked to for the call and again for
\* the answer, both under the lock of the array.
push(x, y) == Locked(x, "unique_locked", linked(y) \o Write(x) \o linked(y))

\* An array that grows copies its elements, of which y is one.
grow(x, y) == Locked(x, "unique_locked", cloneResource(y) \o Write(x))

\* operator[] of an Array links to the element.
element(x, y) == Locked(x, "shared_locked", Read(x) \o linked(y))

ArrayMethods ==
    Modifiers \cup {push(p[1], p[2]) : p \in Pairs}
    \cup {grow(p[1], p[2]) : p \in Pairs} \cup {element(p[1], p[2]) : p \in Pairs}

\* A List takes y over as it is, and answers with a copy of it.
append(x, y) == Locked(x, "unique_locked", Write(x) \o cloneResource(y))

ListMethods == Modifiers \cup {append(p[1], p[2]) : p \in Pairs}

BitArrayMethods == Modifiers \cup {ReadingAlone(x) : x \in Variables}

\* begin and end have given their locks back when the elements are read.
isPrintable(x) == Reading(x) \o Reading(x) \o Reading(x) \o Read(x)

BufferArrayMethods == Modifiers \cup {isPrintable(x) : x \in Variables}

\* insert(key, y.move())
put(x, y) == Locked(x, "unique_locked", linked(y) \o Write(x))

\* getVariable answers with a copy of the value.
getVariable(x, y) == Locked(x, "shared_locked", Read(x) \o cloneResource(y))

\* operator[] inserts a missing key under the shared lock.
MapIndexing(x) == Locked(x, "shared_locked", Use({x}, {x}))

MultiMapMethods ==
    Modifiers \cup {ReadingAlone(x) : x \in Variables}
    \cup {put(p[1], p[2]) : p \in Pairs}

MapMethods ==
    MultiMapMethods \cup {MapIndexing(x) : x \in Variables}
    \cup {getVariable(p[1], p[2]) : p \in Pairs}

\* merge and moveMerge: getData has given the lock of the other table back
\* when its rows are walked over.
merge(x, y) == Locked(x, "unique_locked", linked(y) \o Use({x, y}, {x}))

\* operator+: the sum starts as a copy of x and y is merged into it.
plus(x, y) == cloneResource(x) \o cloneResource(y)

TableMethods ==
    Modifiers \cup {ReadingAlone(x) : x \in Variables}
    \cup {merge(p[1], p[2]) : p \in Pairs} \cup {plus(p[1], p[2]) : p \in Pairs}

-----------------------------------------------------------------------------
(* A table, a row of it and an index.  Which columns a table has changes    *)
(* only when another table is assigned to it, and is not among the data.    *)
(* A row is a Map or a MultiMap, which differ in how it is tested.          *)

\* Index::add, remove and clear: a field is filed or taken out.
InColumn(reads) ==
    Locked(theColumn, "unique_locked", Use(reads, {theColumn, theField}))

\* test: getVariable of a Map, under its lock.
testMap == Locked(theRow, "shared_locked", Use({theRow, theField}, {}))

\* test: getRange of a MultiMap, whose lock is gone when the range is read.
testMultiMap ==
    Locked(theRow, "unique_locked", Read(theRow)) \o Use({theRow, theField}, {})

\* A Variable that is made a Map is copied.
copyRow == linked(theRow) \o Use({theRow, theField}, {})

\* rows.contains, the constraints, then addTable and the indexes under the
\* lock of the row; last is the filing of the row, or the roll-back.
insertRow(check, last) ==
    Locked(theTable, "unique_locked",
           linked(theRow) \o check
           \o Locked(theRow, "unique_locked",
                     Write(theRow) \o InColumn({theRow}) \o last))

\* TableImplementation::remove(T row), under the lock of the table.
dropRow ==
    linked(theRow)
    \o Locked(theRow, "unique_locked",
              Write(theRow) \o InColumn({theRow}) \o Write(theTable))

removeRow == Locked(theTable, "unique_locked", dropRow)

\* filterByConjunctionBlock: rows are found in the index without its lock.
lookup == Use({theTable, theColumn, theField}, {})

removeValue == Locked(theTable, "unique_locked", lookup \o dropRow)

removeWhere(test) ==
    Locked(theTable, "unique_locked", lookup \o test \o dropRow)

rowInsert ==
    Locked(theRow, "unique_locked", Write(theRow) \o InColumn({theRow}))

\* The callback is the client's; here it inserts a field.
changeWhere(test) ==
    Locked(theTable, "unique_locked", lookup \o test \o rowInsert)

\* The fields leave the index without the locks of their rows.
clearTable ==
    Locked(theTable, "unique_locked", InColumn({}) \o Write(theTable))

\* field_it->move() promotes the WeakLink of the row under its shared lock.
getRow ==
    Locked(theTable, "shared_locked",
           Locked(theColumn, "shared_locked",
                  Use({theColumn, theField}, {}) \o linked(theRow)))

\* What find does with a row depends on its class too.
findRows(test, found) ==
    Locked(theTable, "shared_locked", lookup \o test \o found)

\* The row is inserted into the table found, and its field into its indexes.
findAndMove(test) ==
    Locked(theTable, "shared_locked",
           lookup \o test
           \o Locked(theRow, "unique_locked",
                     Use({theRow}, {theRow, theField})))

TableCalls(test, found) ==
    {insertRow(check, last) : check \in {<<>>, test},
                              last \in {Write(theTable), InColumn({})}}
    \cup {removeRow, removeValue, removeWhere(test), changeWhere(test),
          clearTable, getRow, findRows(test, found), findAndMove(test)}

readRow == Locked(theRow, "shared_locked", Use({theRow, theField}, {}))

\* The destructor of the field leaves the index.
rowRemove == Locked(theRow, "unique_locked", Write(theRow) \o InColumn({}))

\* Field::setKey: out of the index, then back under the owner's lock.
rowRename ==
    Locked(theRow, "unique_locked",
           Write(theRow) \o InColumn({})
           \o Locked(theRow, "unique_locked", InColumn({theRow}))
           \o Write(theRow))

RowChanges == {rowInsert, rowRemove, rowRename}

RowCalls == RowChanges \cup {readRow, copyRow}

-----------------------------------------------------------------------------
MethodsOf ==
    [ Number      |-> VariableMethods \cup NumberMethods,
      Array       |-> VariableMethods \cup ArrayMethods,
      List        |-> VariableMethods \cup ListMethods,
      BitArray    |-> VariableMethods \cup BitArrayMethods,
      BufferArray |-> VariableMethods \cup BufferArrayMethods,
      Map         |-> VariableMethods \cup MapMethods,
      MultiMap    |-> VariableMethods \cup MultiMapMethods,
      Table       |-> VariableMethods \cup TableMethods,
      MapRow      |-> TableCalls(testMap, copyRow) \cup RowCalls
                          \cup {MapIndexing(theRow)},
      MultiMapRow |-> TableCalls(testMultiMap, linked(theRow)) \cup RowCalls ]

Depth(t) == Cardinality({s \in Slots : locks[t][s] # NoLock})

Busy(t) == script[t] # <<>>

Done(t) == pc[t] > Len(script[t])

Ready(t) == Busy(t) /\ ~Done(t) /\ call[t] = Running /\ ClientRuns(t)

\* The variables a method locks or uses.
Touches(s) ==
    UNION {CASE s[i].op = "lock" -> {s[i].mtx} \cap Variables
             [] s[i].op = "use"  -> (s[i].reads \cup s[i].writes) \cap Variables
             [] OTHER -> {} : i \in DOMAIN s}

ExposedRows(test, found) ==
    ({findRows(test, found), findAndMove(test), removeWhere(test), changeWhere(test)}
        \X {theRow, theColumn, theField})
    \cup ({removeValue, clearTable} \X {theColumn, theField})
    \cup ({insertRow(test, last) : last \in {Write(theTable), InColumn({})}}
              \X {theRow, theField})
    \cup ({copyRow} \X {theRow, theField})

ExposedCopies ==
    {<<cloneResource(x), x>> : x \in Variables}
    \cup {<<assign(p[1], p[2]), p[2]>> : p \in Pairs}

ExposedOperands ==
    {<<assignNumber(p[1], p[2]), p[1]>> : p \in Pairs}
    \cup UNION {{compare(p[1], p[2]), binary(p[1], p[2]), assignNumber(p[1], p[2]),
                 compound(p[1], p[2])} \X {p[2]} : p \in Pairs}

\* The uses of an object that the locks of a method do not cover: there is no
\* lock, only a shared one for a write, or two scopes with a gap between them.
ExposedOf ==
    [ Number      |-> ExposedCopies \cup ExposedOperands,
      Array       |-> ExposedCopies \cup {<<grow(p[1], p[2]), p[2]>> : p \in Pairs},
      List        |-> ExposedCopies \cup {<<append(p[1], p[2]), p[2]>> : p \in Pairs},
      BitArray    |-> ExposedCopies,
      BufferArray |-> ExposedCopies \cup {<<isPrintable(x), x>> : x \in Variables},
      Map         |-> ExposedCopies \cup {<<MapIndexing(x), x>> : x \in Variables}
                          \cup {<<getVariable(p[1], p[2]), p[2]>> : p \in Pairs},
      MultiMap    |-> ExposedCopies,
      Table       |-> ExposedCopies \cup {<<merge(p[1], p[2]), p[2]>> : p \in Pairs}
                          \cup UNION {{plus(p[1], p[2])} \X Variables : p \in Pairs},
      MapRow      |-> ExposedRows(testMap, copyRow)
                          \cup {<<MapIndexing(theRow), theRow>>},
      MultiMapRow |-> ExposedRows(testMultiMap, linked(theRow)) ]

Exposed == ExposedOf[class]

\* A method on two variables, or with an exposed use, needs a transaction.
NeedsTransaction(s) ==
    Cardinality(Touches(s)) > 1 \/ \E x \in AllData : <<s, x>> \in Exposed

FInit ==
    /\ TxInit
    /\ class \in DOMAIN MethodsOf
    /\ careful \in BOOLEAN
    /\ script = [t \in Threads |-> <<>>]
    /\ pc = [t \in Threads |-> 1]

\* Faulty: the transaction is a shared one.
Call_SharedTransaction(t, s) ==
    /\ ~Busy(t)
    /\ script' = [script EXCEPT ![t] = s]
    /\ IF careful /\ NeedsTransaction(s)
       THEN TxBegin(t, Variables, "shared_locked")
       ELSE UNCHANGED txVars
    /\ UNCHANGED <<class, careful, pc>>

\* A client calls a method, in makeTransaction's scope if it is careful.
Call(t, s) ==
    /\ ~Busy(t)
    /\ script' = [script EXCEPT ![t] = s]
    /\ IF careful /\ NeedsTransaction(s)
       THEN TxBegin(t, Variables, "unique_locked")
       ELSE UNCHANGED txVars
    /\ UNCHANGED <<class, careful, pc>>

\* The next step of the method; locks are closed last opened, first closed.
Step(t) ==
    /\ Ready(t)
    /\ LET s == script[t][pc[t]]
       IN CASE s.op = "lock" ->
                  \E d \in Slots : /\ d = Depth(t) + 1
                                  /\ Construct(t, d, s.mtx, s.lock_type)
            [] s.op = "unlock" -> \E d \in Slots : d = Depth(t) /\ Destroy(t, d)
            [] s.op = "use" -> UNCHANGED vars
    /\ pc' = [pc EXCEPT ![t] = @ + 1]
    /\ UNCHANGED <<tx, class, careful, script>>

\* The scope of the transaction ends after the method.
EndScope(t) ==
    /\ Busy(t) /\ Done(t)
    /\ TxEnd(t)
    /\ UNCHANGED <<class, careful, script, pc>>

Return(t) ==
    /\ Busy(t) /\ Done(t)
    /\ call[t] = Running /\ tx[t] = NoTx
    /\ script' = [script EXCEPT ![t] = <<>>]
    /\ pc' = [pc EXCEPT ![t] = 1]
    /\ UNCHANGED <<txVars, class, careful>>

LocksRun(t) ==
    /\ TxRuns(t) \/ TxGranted(t)
    /\ UNCHANGED <<class, careful, script, pc>>

Runs(t) == Step(t) \/ EndScope(t) \/ Return(t) \/ LocksRun(t)

FNext == \E t \in Threads : \/ \E s \in MethodsOf[class] : Call(t, s)
                            \/ Runs(t)

FSpec == FInit /\ [][FNext]_facadeVars

\* A thread inside a method goes on whenever it can.
FFairSpec == FSpec /\ \A t \in Threads : WF_facadeVars(Runs(t))

-----------------------------------------------------------------------------
(* Correctness *)

\* t writes x at this moment.
WritesNow(t, x) ==
    /\ Ready(t)
    /\ script[t][pc[t]].op = "use" /\ x \in script[t][pc[t]].writes

UsesOf(t, x) ==
    {i \in DOMAIN script[t] : /\ script[t][i].op = "use"
                              /\ x \in script[t][i].reads \cup script[t][i].writes}

\* t is between its first and its last use of x.
Within(t, x) ==
    /\ \E i \in UsesOf(t, x) : i < pc[t] \/ (i = pc[t] /\ Ready(t))
    /\ \E i \in UsesOf(t, x) : pc[t] <= i

Disturbs(t, u, x) == t # u /\ WritesNow(t, x) /\ Within(u, x)

\* Every use of an object is alone with its writers, from the first to the
\* last that a method makes of it, but for those Exposed names: no other method
\* of the model has a race or sees half of another method's change.
OnlyExposedInterfere ==
    \A t, u \in Threads, x \in AllData :
        Disturbs(t, u, x)
            => \/ careful
               \/ <<script[t], x>> \in Exposed
               \/ <<script[u], x>> \in Exposed

\* Clients that open a transaction over both variables where a method needs
\* one see no interference at all, in objects the transaction does not name
\* (the index, the field) and with methods that are called without one included.
TransactionsIsolate ==
    careful => \A t, u \in Threads, x \in AllData : ~Disturbs(t, u, x)

NoNewCalls == [][\A t \in Threads : ~Busy(t) => script'[t] = <<>>]_facadeVars

AllReturned == \A t \in Threads : ~Busy(t)

\* Two methods that lock the same two objects in opposite orders.
Opposite(r, s) ==
    \/ \E p \in Pairs :
          LET two(x, y) == {assign(x, y), binary(x, y), push(x, y), grow(x, y),
                            append(x, y), put(x, y), merge(x, y)}
          IN r \in two(p[1], p[2]) /\ s \in two(p[2], p[1])
    \/ r = getRow /\ s \in RowChanges

\* t waits for a mutex that u is inside.
WaitsFor(t, u) == call[t] # Running /\ Holds(View(u, call[t].mtx), u)

Deadlocked ==
    \E t, u \in Threads :
        /\ WaitsFor(t, u) /\ WaitsFor(u, t)
        /\ Opposite(script[t], script[u]) \/ Opposite(script[u], script[t])

\* Every method that was called returns, upgrades and nested locks included.
\* Two that lock two objects in opposite orders can wait for each other for
\* ever, unless their callers open transactions around them.
MethodsReturn ==
    <>NoNewCalls => <>[](AllReturned \/ (~careful /\ Deadlocked))
=============================================================================
