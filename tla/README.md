# A verification project for BinOM

BinOM (`libbinom/`) is a C++20 library of dynamically typed, reference-counted
data: a `Variable` is a link to a shared resource that holds a number, an
array, a list, a map, a multimap or a table.  Every resource has a mutex, and
every method of a container takes it, recursively; a table keeps indexes that
point into the rows of which it consists, and the rows point back.  This
directory models the locks, the counting of links, tables with their indexes,
the queries over them, and the sequential structures below (trees, keys,
numbers, arrays, bit arrays); checks them with TLC on small instances, and proves
theorems about the mutex, transactions, the methods of the variables, the counting
of links, tables with their indexes and maps, arrays and the ownership of keys with TLAPS.

Paths below are relative to `libbinom/`; `wrapper.cxx` is
`source/utils/shared_recursive_mutex_wrapper.cxx`.

## 1. Inventory

| part | state | operations | what is hard |
|---|---|---|---|
| recursive shared mutex, `wrapper.cxx` 7-191 | a `thread_local` map from mutexes to three counters | lock, lockShared, unlock, unlockShared, tryLock, tryLockShared, wrappers made, moved, destroyed | recursion, upgrade and downgrade let others in between; counters and mutex can drift apart |
| `SharedRecursiveLock`, `wrapper.cxx` 200-227 | which wrapper, with which lock type | construction, move, destruction | any nesting of scopes and types |
| `TransactionLock`, `wrapper.cxx` 235-310 | a stack of locked wrappers | lock all of a set; back off and retry | partial failure, livelock, deadlock |
| resource control, `source/binom_impl/resource_control.cxx` | `link_counter`, the resource a `Link` refers to | create, copy, move, drop, delete with the elements, overwrite, getLock | two threads dropping at once, deleting what another locks, cascades, cycles |
| `Variable`, `source/variables/variable.cxx` | one link | copy, assignment, changeLink, makeTransaction | assignment copies what it has not locked |
| `Field`, `Index`, `WeakLink`, `.../index_impl.cxx` | a field is local or indexed; an index is a set of pointers to fields, sorted by their values | add, remove, clear, setKey, setValue, unlink | pointers in both directions, and an order that depends on what is pointed to |
| `Map`, `MultiMap`, `.../map_impl.cxx`, `.../multi_map_impl.cxx` | fields sorted by key; the tables the map is a row of | insert, remove, rename, operator[] | a row changes under the indexes of its tables |
| `Table`, `.../table_impl.cxx` | rows, indexes, constraints | insert with roll-back, remove, getRow, find, merge, clear | a step fails after others have been done |
| the nine variable classes, `source/variables/*.cxx` | none of their own | every method locks, works, unlocks; binary ones lock two variables | uses outside of a lock, locks in opposite orders |
| condition queries, `source/binom_impl/query.cxx`, `.../table_impl.cxx` | a nested list of conditions | simplify, test a row, search by an index | groups multiplied out, ranges at the ends of an index |
| AVL trees, `source/binom_impl/avl_tree.cxx`, `multi_avl_tree.cxx` | a tree; lists of equal keys | insert, extract, search, iterate, clear | rebalancing in long sequences |
| arrays, buffer arrays, `.../array_impl.cxx`, `buffer_array_impl.cxx` | elements, count, capacity | push, insert, pop, remove, clear | capacity arithmetic, shifting elements |
| bit arrays, `.../bit_array_impl.cxx` | bits in bytes behind a header | the same, bit by bit | shifts across bytes, bits never written |
| lists, `.../list_impl.cxx` | a `std::list` | forwarded to it | nothing of its own |
| keys, `source/variables/key_value.cxx` | a type and a union, or an owned array | construct, copy, move, assign, compare | who owns the data; one order over many types |
| numbers, `include/utils/generic_arithmetic.hxx` | a type and a 64-bit union | arithmetic, comparison, casts | mixed types and signs, bits left by another type |
| types, `include/binom_impl/types.hxx` | none | codes and conversions | -- |
| file storage, serialization, printing, memory helpers, iterators | -- | -- | a wrapper of mmap without users; commented out; pure output; used by nothing but what is commented out; templates |

Interaction: a method of a facade class (`Map::insert`) locks the resource of
its link, and works on the implementation.  Elements of containers are links
again.  A table locks its row, then the index it files a field in; destroying
a field, which may happen wherever the last link to a row is dropped, locks all
of its indexes in one transaction.  The threads share nothing but resources.

## 2. Modules

| module | models | extends |
|---|---|---|
| `ReadersWriters` | what a lock promises: a thread has a mutex not at all, shared, or uniquely | |
| `SharedRecursiveMutex` | wrappers and lock objects over `std::shared_mutex` | |
| `AtomicTransactions` | what a transaction promises: all of its mutexes or none | |
| `TransactionLock` | transactions, together with the lock objects of the same threads | `SharedRecursiveMutex` |
| `FacadeLocks` | the methods of the variable classes by their locks and uses | `TransactionLock` |
| `LocksProofs` | theorems about the mutex, transactions and the methods | `FacadeLocks` |
| `ResourceControl` | links, counters, deletion, containers | |
| `ResourceControlProofs` | theorems about it | `ResourceControl` |
| `Table` | tables, their indexes, the maps or multimaps that are their rows | |
| `Folding` | what a loop over a set or a sequence returns: induction for proofs | |
| `TableLemmas` | what the operators of `Table` keep of a database | `Table`, instances of `Folding` |
| `TableProofs` | theorems about tables | `TableLemmas` |
| `AVLNodes` | the algorithms on the nodes of an AVL tree | |
| `AVLTree` | the tree of fields | `AVLNodes` |
| `MultiAVLTree` | the tree with a list of entries per key | `AVLNodes` |
| `TreesProofs` | theorems about the shape and the order of the trees | `AVLTree`, `MultiAVLTree` |
| `BalanceProofs` | theorems about balance, and that nothing is lost | `TreesProofs` |
| `ValueTypes` | type codes and the conversions between them | |
| `Numbers` | one number of any type, its arithmetic and comparisons | `ValueTypes` |
| `KeyValues` | keys: how they compare, who owns their data | `Numbers` |
| `KeySet` | the fields of a map, searched by the comparison of keys | `KeyValues` |
| `Arrays` | arrays and buffer arrays in their blocks | |
| `ValuesProofs` | theorems about arrays, who owns the data of keys, and the order of keys | `Arrays`, `KeySet` |
| `BitArrays` | bit arrays in their bytes | |
| `Queries` | simplification and evaluation of condition queries | |
| `MCStructures` | the eight sequential parts side by side | the modules of these parts |

`MC...` modules add the symmetry sets and the sets of inputs; there is one `.cfg`
per run.

### SharedRecursiveMutex

State: the `std::shared_mutex` of every resource (`owner`, `sharers`), the
`thread_local` counters (`counter_storage`), the lock objects each thread has
(`locks`), and the mutex call a thread is blocked in (`call`).  A step ends
where a mutex call may block.  The methods of the wrapper are operators from
views (one mutex, and the calling thread's counters for it) to views, one per
method and with the method's name; `Construct`, `Move` and `Destroy` are the
constructor, move constructor and destructor of `SharedRecursiveLock`;
`LockGranted`, `LockSharedGranted` and `RelockSharedGranted` are the returns of
a blocked call and the rest of the method that made it (for the downgrade: the
rest of the destructor).  `std::shared_mutex` is external: it is modelled by its
contract, and `misused` records a call outside of it.  Whether a waiting writer
holds back new readers (`WriterPriority`) is left to the platform: the theorems
hold for both, and the runs with liveness use the one that can make a recursive
reader wait for ever.

### TransactionLock

Adds `tx`: the transaction a thread is building, holding, backing out of or
ending.  `TxFirst` may block; `TxTry` calls tryLock and goes on or begins to back
off; `TxBackOff` and `TxEnd` are one round each of the two unlocking loops.  A
mutex is a number, its address, because `std::set` orders the mutexes of a
transaction by address.  Client code (`LockObjectStep`) runs before and inside a
transaction, so that tryLock meets its recursive and its upgrading case.

### FacadeLocks

A method of a variable class is a script: lock objects opened and closed (by
`Construct` and `Destroy` of `SharedRecursiveMutex`, so recursion and upgrades
are the real ones) around uses, which name the objects they read and write.
`MethodsOf` has ten cases.  In eight of them `theTable` and `theRow` are two
variables of one class, or a container and a variable handed to it; in `MapRow` and
`MultiMapRow` they are a table and a row of it, with an index `theColumn` and
`theField`, what a field of the row keeps (its value and its places in indexes),
which no mutex belongs to.  The row is behind the row's mutex; its field is
rewritten under the row's lock by some methods and under the index's by others.
Other threads can come between any two steps.

`Exposed` lists the uses that the locks of a method do not cover: a
write under a shared lock (`Number::operator=`, `Map::operator[]`), scopes
with gaps between them (the operand of every operator of a number, a row that is
tested again and again), and no lock at all (`cloneResource`, the source of an
assignment, the elements `isPrintable` reads, an array's elements when it grows,
the other table of a merge, the row that `insert` tests before it locks it, the
row and the index of a search, the index and the fields under `Table::clear`).
`OnlyExposedInterfere` fails for each entry left out; this was tried entry by entry.
`Opposite` lists the pairs of methods that lock two objects in opposite orders;
each of the pairs does deadlock.  Among them are the methods that take a variable:
`variable.move()` copies a link under the unique lock of the container, and that
copy locks the argument, so `a.pushBack(b.move())` and `b = a` can wait for each other.
Under `careful` clients open a transaction around what needs one: over both variables,
so over the table *and* the row, also for a search, although whoever calls it does
not know yet what row it finds.

The data are left out: what a use does to an object is in the other modules, as
one step.  Left out are also: a variable that is both objects of a call; rows beyond
the first, which would be used one after the other like it; the elements of elements
in a nested copy; the destruction of a resource at the end of a method (that is
`ResourceControl`'s); early returns, which open the same scopes and use less; the set
of columns of a table, which only the assignment of a table changes.  Locks of
one object that are taken and given back several times in a row with nothing between are
one.  The callback of `changeWhere` is the client's: here it inserts a field into the row.

### ResourceControl

Uses the mutex of a resource at the level of `ReadersWriters`.  A `Link` is a
variable of a thread, an element of a container, or an element of a container
that is being destroyed (`doomed`).  A resource's address is reused after it is
deleted.  `Disciplined` chooses between clients that do anything, and clients that
keep three rules no code checks: a lock lies in the scope of a variable that
keeps the resource alive; under a container's lock only its elements are copied;
no container is put into itself.  Without the first rule a thread can be the one
to delete a resource it has locked; `~Link` then calls lock() of the raw mutex
and never returns.

### Table

State: `rows` and `index` of every table; the `fields`, their `order` and the
`table_list` of every map; which maps a client has a variable for (`held`).  In a
behaviour all maps are of one `kind`, maps or multimaps.  An index is the
sequence of fields its `std::set` or `std::multiset` holds; a field is its
address (map, slot), because the code keeps pointers; `indexed_at` is the place
a field thinks it has.  Each method is an operator from databases to databases,
so that an operation can be composed of the methods it calls in their order
(`InsertRow`: `addTable`, `Index::add` per column, the roll-back), and `Become`
adds what destructors do when the last link to a map goes: `Field` leaves all of
its indexes.  An operation is one step, since it holds the unique lock of the
table or the map and of each index it works on; where the locks do not give
that, `FacadeLocks` says so.  A map names a field by its key, a multimap by an iterator,
and each has its own actions; `MultiMap::insert` asks for the column of a key that
has moved into the field, so that what is inserted into a row that is a multimap is in no
index.  Keys and values are numbers, whose order stands for
that of `KeyValue`; null is the least, and `NoKeyValue` stands for a container,
which no index takes.

`corrupted` records undefined behaviour: a set whose order changed under it, an
index that points to a field that is gone, a method of a table that is gone, a
rename of a key that is not there (`extract(end())`), `Index::clear` at a
field that does not know the index, which never returns, and `Field::setKey` of a
field that is in an index.  That one unlinks the field and asks `updateKey` of the map
whether an index took the new key; `Map::updateKey` and `MultiMap::updateKey` answer true
whatever happened (`map.cxx:246`), so a field of indexed type is left with no
index to have its key from.  Nothing follows any of these.
The order of a set changes under it when `Field::setValue` (`index_impl.cxx:662-670`) replaces
the value of an indexed field and leaves the index as it was: a search by value then
misses rows, and a unique column can hold a value twice.  So it does when `Field::setKey`
of a local field (`index_impl.cxx:613-617`) overwrites the key inside the set of the map.
`Careful` chooses between clients that do anything and clients that insert rows
by copy, give an indexed field no new value and no new key, move no key past
another inside its map, rename only what is there, and keep no variable for a row of
a table they clear or destroy.

### AVLNodes, AVLTree, MultiAVLTree

A node is named by its key, and a tree is a record of the pointers of its nodes;
a method is an operator from trees to trees that follows and writes pointers in
the order of the code.  `fault` records that a null pointer was followed.
`avl_tree.cxx` and the key nodes of `multi_avl_tree.cxx` are the same code
twice; `AVLNodes` has it once.  `Balancing` is the loop that ends every
insertion and extraction.  It decides between a single and a double rotation by
the balance of the left child of the *root* (`avl_tree.cxx:207`), not of the node
it is at.  Inserting 1, 3, 6, 2, 5, 4 follows a null pointer: `fault`.  Where the loop
goes through although the two balances call for different rotations, the tree
is `misjudged`, and may stay out of balance: nine keys are enough (finding below).
Until a tree is misjudged, `KeptBalanced` says that no null pointer is followed and every
node is balanced, and `NothingLost` that what is put can be found and taken out; in every
tree, misjudged or not, the iterators go through the nodes in order
(`IterationInOrder`) as long as no null pointer was followed.
`AVLTree` adds `kept`, the keys that were put and not taken out, and `byNode`:
whether `extract(AVLNode*)` was used, which balances nothing when it takes a leaf
and promises less.  `MultiAVLTree` adds the doubly linked lists of value
nodes and, in `listed`, the order in which the calls put them.  Its `find`
descends to the left for greater keys, too; the invariant holds it to what it
finds.

### ValueTypes, Numbers, KeyValues, KeySet

`Numbers` is a type and the 64-bit union (`number`), where reading a member
takes its low bits and writing one leaves the others; `exact` is the integer
that the calls so far give, as long as C++ promises one.  Conversions to the
common type, wrapping, division towards zero, the division the processor
refuses, and the casts are those of the code; `castTo` reads its source as a
byte whatever it is.  `KeyValues` has the comparison of two keys (which can depend
on what is behind an array, so it returns the set of its possible results) and,
as a state machine of its own, which key or resource owns which allocated array
under construction, copy, move, assignment and destruction.  One constructor is an
exception: `KeyValue(const BufferArray&)` (`key_value.cxx:72`) copies the array but takes the
type of its *elements* for its own (`toKeyType`; the constructor that moves, in line 75, has
`toKeyBufferType`).  The key is a number then, which is the address of the copy; no
sequence of calls frees it.  The model has these copies in `stray`, and `OneOwner` says that
they have no owner and every other allocated array has one.  A key that is made from a
`Variable`, as the library itself does, is not concerned.  `KeySet` is the
`std::set` of a map's fields that is searched with this comparison.  The
comparison is no order as soon as negative and unsigned numbers meet: each is lower
than the other.  Where a search ends then depends on the shape of the red-black
tree, of which the model keeps what the number of keys implies and leaves the
rest open; with a total order every shape gives the same end.  `Comparable` says
for which keys the comparison is an order.

### Arrays, BitArrays

A block of memory with a header, `count`, `capacity` and slots.  `increaseSize`
of arrays exchanges the block when the new capacity is the *same* as before
(`array_impl.cxx:88`), so an array soon writes behind its block (`outside`).
`popBack` of a buffer array takes a size in bytes for a number of elements
(`asked` turns false).  Memory of bit arrays is three-valued: a bit that nobody
wrote is `Garbage`, and the shifts and masks carry it.  Which insertions move bits
rightly is `InsertsRightly`; the others lose bits at byte borders, and loops that
leave the block or never end set `overrun`.  Behaviours end where an array is
broken, and `contents` (`expected`) is the sequence the calls describe until then.

### Queries

One query on one table: `simplifySubExpressions` is one round of the loop that
multiplies groups out, `SearchBlock` one conjunction block of a search, over the
rows or over the index with the best `Score`.  `Means` is what a query means.
`IndexRange` is what the code goes over: `find` gives the end of the index for a
value that is not in it, so that, asked for an absent value, `higher_or_equal`
is nothing and `lower` everything.  `faithful` records whether every index was asked
what it answers like the rows do (`AnswersLikeRows`), and `WellGrouped` describes the
queries that are multiplied out rightly.  Lists inside a query are not empty: what the
loop makes of an empty one, which no document says the meaning of, is not modelled.  Rows
that are multimaps, and rows without a field of the column, are among the tables.  What is done with the rows
that are found (copied, moved, removed, changed) is `Table`'s matter.

`MCStructures` puts the parts from `AVLTree` to `Queries` side by side.  They share
no state, so a behaviour is about one `subject` and the others stand still.

### How far the sequential models were compared with the program

The library was compiled, and the definitions that are mostly arithmetic were
transcribed into a script, at the true widths, and run against it on the same
inputs: 21,888 operations and comparisons on numbers of mixed types; 8,112
insertions into and removals from bit arrays; 3,000 random queries, each
simplified and then searched in three tables.  The script is not part of this
directory.  Cases in which the program's behaviour is undefined were left out.
There was no difference.  The findings below were seen on the compiled library as well.

## 3. Runs

Threads, variables, links and maps are model values, symmetric where no order is
put on them and no liveness is checked.  Mutexes of transactions, keys and values
are numbers, and not symmetric.  The state counts are distinct states.

| run | question | instance | states |
|---|---|---|---|
| `mutex` | do counters, mutex and lock objects agree, whatever the nesting; does the wrapper implement `ReadersWriters`; is everything given back? | 3 fair threads, 1 mutex that prefers writers, 2 lock objects each; deadlock is checked | 49,643 |
| `tx_mixed` | are transactions right around and inside lock objects? | 2 threads, 2 mutexes, 2 lock objects each | 250,258 |
| `tx_only` | are transactions atomic, do they never wait holding, and can they make each other fail for ever? | 3 fair threads, every subset of 2 mutexes; deadlock is checked | 10,896 |
| `facade` | do the locks of the methods isolate what they should, and does every call return? | 2 fair threads, 2 variables, an index and a field, every pair of methods of each class, with and without transactions | 235,297 |
| `links_free` | are counters exact, and is nothing used after it is freed, whatever clients do? | 2 threads, 2 resources, 5 links; cycles, locks that outlive their variable | 34,002 |
| `links_disciplined` | is the deleter alone, does nothing leak, is everything reclaimed in the end? | 2 fair threads, 2 resources, 4 links; the three rules | 93,855 |
| `table_careful` | do indexes hold the rows, sorted and complete? | 1 table, 2 maps or multimaps of 2 fields, 2 columns of which one unique, one required, 2 values; deadlock is checked | 65,614 |
| `table_shared` | do fields know their indexes, whatever clients do, where the roll-back has a middle? | 1 table, 1 map or multimap of 3 fields, 3 keys, 2 columns, shared with clients | 330,196 |
| `structures` | are the sequential parts right after any sequence of calls? | the eight parts of `MCStructures`, bounds below | 322,035 |
| `keys_unique` | finding: are the keys of a map unique, whatever they are? no | keys of two kinds, some of them negative | violated |
| `avl_balance` | finding: is every node balanced after the loop "Balancing"? no | a tree of 9 keys | violated |
| `query_groups` | finding: is a list inside a query a group wherever it stands? no | the queries of `structures` | violated |

What the properties say is in the comments of the modules.  Each was checked
against a mistake in the code it is about: the definitions named
`<definition>_<Mistake>` are these variants, and nothing else uses them.

Why the bounds are enough.  *Mutex*: modes and counters per thread interact
pairwise, and three threads give a reader, an upgrading reader and a writer at
once; two lock objects give every upgrade and downgrade; what happens with a second
mutex is in `tx_mixed` and, for the refinement, in the proof, which has no bound.
*Transactions*: a conflict needs two threads and two mutexes; a third thread gives
one that is served between the retries of the others.  *Methods*: interference is
between two threads, and so are the waits for each other that `MethodsReturn`
allows; rings of three threads that wait for each other need a third, and are not
covered.  *Links*: five links to two resources give two threads that drop, one
that copies meanwhile, a container in a container, and a cascade.  *Tables*: two
rows give a conflict in a unique column and an order in the other; address reuse
comes with every freed map; a multimap with two fields of one column and one of
the other gives a field to roll back that is not the first, and a third key one that no index has.  `MaxEntries` stops a row that is rejected and tried again from
filling the index with copies of itself.  *Trees*: seven keys give every
rotation, double rotations at and below the root, and an exchange of a node with a
successor that is and one that is not its child; four keys and four entries
give lists and trees at once.  How much depends on the size of a tree was tried apart from
the runs: every sequence of calls on 8 keys, and random ones on 12 and 16, keep the three
invariants.  *Numbers*: `Byte` to `Qword` are 2 to 5 bits, in the
order of 8 to 64: every pair of types still differs in width and sign as the
real ones do (types below `Dword` are promoted), and the operands are the
extremes and what is next to them; that widths scale was compared with the program (section
2).  *Keys*: families of keys of one class and kind and one across the classes, four
keys in a map, so that roots of two, three and more keys occur; two key objects, two
resources and four blocks give each transfer of ownership a third party.
*Arrays*: five elements of width 1, 2 and 8 cross several capacities behind a
header of 16 bytes.  *Bit arrays*: bytes of 3 bits and 8 bits of content put every
offset against every length across byte borders; the header of 2 bytes keeps a
power-of-two capacity above it.  *Queries*: about 700 lists (a group of one or two
conditions anywhere among others, groups in groups, every operator alone and with a
second condition) against tables of full rows, rows with gaps, and multimaps.

Deadlock is checked wherever the configuration does not say otherwise.  It does in
`tx_mixed`, where clients nest lock objects on two mutexes in opposite orders or
open them around transactions; in `links_free`, where a thread may delete what it
has locked; in `links_disciplined`, whose end is a state without steps; in the
runs of `Table` in which undefined behaviour ends a behaviour; in `structures` and its
three smaller runs, where a query ends and undefined behaviour stops; and in `facade`, where
methods that lock two objects in opposite orders do deadlock: `MethodsReturn` says that
nothing else does.

Fairness.  `mutex`, `tx_only`, `links_disciplined` and `facade` assume weak
fairness, per thread, of exactly this: a call that may return does, a method, a
destructor or a retry that is under way goes on, and a scope that was entered is
left.  That is what the scheduler of an operating system gives to threads whose
client code terminates; nothing is assumed about who gets a contended mutex, and no
strong fairness is used.  In exchange the properties speak of clients that at some time
enter no new scope: then whatever was begun must end.  Starvation by others who never
stop is outside of what `std::shared_mutex` promises, and so outside of what
this library can.

Several invariants speak of behaviours up to where the program leaves what it
does rightly: `fault`, `misjudged`, `byNode`, `outside`, `asked`, `regular`, `overrun`, `faithful`,
`corrupted`.  Each of these flags is a condition on calls that the code
does not check, or a defect described in section 2; each is set by the code's
own computation, and the behaviours before and beside it are where the invariants bite.

### Findings

`README.md:103` describes a map as having unique keys.  `operator<` of numbers is
the negation of `>=` (`generic_arithmetic.hxx:322`), which is false of an unsigned
and a negative number in both directions (`:268`), so each is below the other.
A map given the keys `ui8 1`, `si8 -2`, `si8 -3` and `ui8 1` has four fields:
`keys_unique`.

A list of expressions inside a query is a group (`test/table_test.hxx:52-59`).
When other conditions follow it in its conjunction block they are copied for each
alternative of the group, but keep the relation they had
(`query.cxx:127-131`): `(a OR b) AND c` becomes `a AND c AND b AND c`, which
`query_groups` finds.  The test has its group last, which works.

`avl_tree.cxx:202` calls the loop that ends insertions and extractions "Balancing".  It
looks at the balance of `root->left` to decide how to rotate `node` (`avl_tree.cxx:207`).
After the keys 1, 4, 3, 2, 8, 9, 6, 7, 5 a node is out of balance, which `avl_balance`
finds.  An extraction takes the only child of a node for a leaf, which it is in a balanced
tree: here `extract(7)` drops a child, and key 9 is in the tree no more.

## 4. Proofs

Every theorem holds for all values of the constants its module assumes: any number
of threads, mutexes, resources, links, keys, elements.  The assumptions are the
`ASSUME`s of the modules and no others, except where a theorem names one.

| module | theorem | says |
|---|---|---|
| `LocksProofs` | `TypeCorrectness` | `TypeOK` |
| | `NeverMisused` | the calls to `std::shared_mutex` keep its contract |
| | `CountersAgree` | the counters of a thread say what it has of the mutex |
| | `CountersCount` | the counters are the numbers of its lock objects |
| | `Exclusion` | a unique lock object excludes lock objects of other threads |
| | `Refinement` | the wrapper implements `ReadersWriters` |
| | `TxNeverMisused`, `TxCountersAgree` | the same for transactions, with transactions and lock objects in and around them |
| | `TxCountersCount` | the counters are the lock objects and the stack of the transaction |
| | `TxExclusion` | transactions and lock objects exclude each other |
| | `TxRefinement` | transactions implement `AtomicTransactions` |
| | `TxWaitsEmptyHanded` | a thread that waits has nothing, where clients use transactions alone (`Slots = {}`) |
| | `OnlyExposedUsesInterfere` | in each of the ten classes, nothing but the uses in `Exposed` interferes |
| | `TransactionsIsolateMethods` | with transactions where `NeedsTransaction` says, nothing does |
| | `MethodsNeverMisuse` | the methods keep the contract of the mutex and the exclusion of transactions |
| `ResourceControlProofs` | `TypesKept` | `TypeOK` |
| | `CountersKept` | a counter is the number of links |
| | `NothingDangles` | no link, lock or call refers to a deleted resource |
| | `DeletersAreAlone` | `Disciplined` clients: who takes the counter to 0 is the last that knows the resource |
| | `NothingLeaksEver` | `Disciplined` clients: what is allocated can be reached, or is being taken apart |
| `TableProofs` | `TypeCorrect` | `TypeOK`, for clients of any kind |
| | `PointersValid` | `BackPointersValid`: what a field knows of its indexes is true, for clients of any kind |
| | `RowsAreFiled` | a step in which a table accepts a row files all of its fields, for clients of any kind |
| | `CareIsEnough` | `Careful` clients: nothing undefined happens |
| | `IndexesExact` | `Careful` clients: an index holds fields of rows of its table, each once, and nothing else |
| | `IndexesInOrder` | `Careful` clients: indexes are in the order of their values, unique ones without equal ones |
| | `IterationInOrder` | `Careful` clients: maps and multimaps are in the order of their keys |
| `Folding` | `SetFoldRule`, `SeqFoldRule` | what a loop keeps at each element holds at its end |
| `TreesProofs` | `AVLTypeCorrect` | `AVLTypeOK`, for callers of any kind |
| | `AVLIteration` | `IterationInOrder`: the nodes are a search tree, and the iterators go through it in order |
| | `MultiTypeCorrect` | `MultiTypeOK` |
| | `MultiLists` | `ListsExact`: the lists of value nodes are what the calls put there, in both directions |
| | `MultiWalks` | `WalksInOrder`: the iterators walk a key's values and then the next key's |
| `BalanceProofs` | `AVLKeepsAll` | `NothingLost`: the tree holds what was put and not taken out, and the descent finds it |
| | `AVLBalanced` | `KeptBalanced`: no null pointer, every node balanced, depths are heights, `clear` destroys all |
| `ValuesProofs` | `OneOwnerAlways` | an allocated array has one owner, but for the copies of `KeyValue(const BufferArray&)`, which never have one |
| | `ArraysAlwaysHold` | `ArraysHold`: an array has the elements the calls describe, inside its block |
| | `KeysCompared` | of two `Comparable` keys the code gives one answer, that of `Before` |
| | `KeysAlwaysOrdered` | `KeysOrdered`: a map of comparable keys is sorted, without equal keys, and searched exactly |

*Mutex.*  The inductive invariant is the conjunction of four invariants that
`mutex` checks:

    Inv == TypeOK /\ NoMisuse /\ CountersMatchMutex /\ CountersMatchLocks

None of them is inductive alone.  That no contract is broken needs the counters
to match the mutex: a method decides by its counters which call to make.  That the
counters match the mutex needs them to match the lock objects, because the
destructor of the last wrapper unlocks what the counters say, and must be the last
object too.  The two counter invariants therefore also say what the counters are
while a call is blocked (`Agree` and `In`), which is where a step ends in the middle
of an upgrade or a downgrade.  The operators on views (`lock`, `unlock`, `Enter`,
`Leave`, ...) have a lemma each that says what they return; every action has a lemma
with a step per conjunct it can disturb; lemmas on cardinality (`OneMore`,
`OneLess`, `SwapElement`) carry the counts.  `Refinement` maps a step to taking or
releasing one mutex in `ReadersWriters`, or to a stutter.

*Transactions.*  `TxInv` replaces `CountersMatchLocks` by `TxCountersMatch`, which adds
the stack of the transaction to what is counted, and adds `TxOK`: which mutexes are on the
stack at each stage of an attempt.  The lemmas on views are those of the mutex.
`TxWaitsEmptyHanded` needs one invariant more, `WaitsForFirst`: a transaction waits
only while it has no other mutex.

*Methods.*  `FInv` is `TxInv` and, for each thread, that the lock objects it has are those its
script has opened up to its step (`OnStack`) and that its transaction is the one the
call asked for (`TxScope`).  Scripts nest their lock objects, which is shown for
each of the scripts by evaluating how deep each step is.  A use that is not
exposed then stands inside the lock objects of `SafeFor`: for the data of a variable, one lock object
of that variable, unique to write it; for the index and the field, those of the row and of
the index, both unique, to change them, and a shared one of the row, or of the table and of the index, to
read them once.  Any two of these that a write is among exclude each other by `TxExclusion`.
Whether a script keeps to this is decided shape by
shape (`Safe`), a class being a union of shapes.

*Links.*  The invariant of `ResourceControl` is

    RInv == TypeOK /\ CountersExact /\ NoUseAfterFree /\ LinksPlaced
            /\ LocksCompatible /\ CallsReach /\ DeletersApart

where the last four say that a link is null only while its copy is under way and that
what is being taken apart belongs to who does it, that locks are those of a
readers-writer lock, that a thread can still reach what it waits for, and that
what is being deleted has no links and one deleter.  `DeletersAreAlone` adds
`LockCovered`, the first rule of `Disciplined` as a fact about states.
`NothingLeaksEver` adds `Owned` (what has no link any more has a deleter) and
`NoCycles`: every nonempty set of containers has one that is no element of another.
Of resources that are lost one would be in no lost container, yet something refers to
it, and whatever does is not lost.

*Tables.*  For any finite sets of tables and maps, any columns, keys, values and
number of fields.  The invariant is

    Inv == /\ TypeOK
           /\ Careful => ~corrupted
           /\ ~corrupted => Fit(Database, live)
    Fit(db, L) == /\ Good(db, L) /\ AllFreed(db) /\ Sound(db)
                  /\ Careful => Tidy(db) /\ Ordered(db) /\ Members(db, L)

`Good` is what every operation keeps, whoever calls it: the types, true pointers
from fields to indexes, and orders that go over each field of a map once.
`AllFreed`: what nobody has is empty.  `Sound`: the indexes are in order, and have no
field without a value; a step that ends without it sets `corrupted`.  The rest needs `Careful`: that an index knows each field
it holds (`Known`, the converse of the pointers) and is sorted, that maps are ordered, and
`Members`, which relates `table_list` to the rows of tables.  `Members` needs that a row is
in one table at most and that its fields are in indexes of that table only;
`IndexesHoldRows` and `NeverCorrupted` follow from nothing weaker, because the code takes a
row out of an index by what its fields and its `table_list` say.  The invariant does not
hold inside an operation, after a row is taken from a table and before its map is
destroyed; `Fitting` is what holds there, and `Become` leads from it to `Fit`.
`TableLemmas` has for each operator (`Insert`, `remove`, `clear`, `updateKey`, `InsertRow`,
`RollBack`, ...) what it keeps and what it returns; `TableProofs` has a lemma per action.

Nearly every operator is a loop: a fold of the community modules over the fields of a map, the
places of a field, the entries of an index.  The library's induction theorems have an operator
as a parameter and cannot be used here.  `Folding` has the step of the loop as its
*constant* `Op`, and the invariant of the loop as a family of sets; its two rules are
proved by induction on the cardinality of what is left, once, and `TableLemmas`
instantiates it for each loop.

*Trees.*  The invariant `AVLInv` is that there are sets S[n], one for every node, of which
each is n with the sets of its two children, with all on the left before n and all on the right
behind it in the order of the keys (`Nested`), and that parents are those whose
children they are (`Linked`).  The order is a function `pos` rather than that of the keys
because `swapPosition` breaks it for a while: the exchange of two nodes renames them
in S and in `pos`, and once the node that went down is taken out, `pos` is again the
order of the keys for those that stay (`Vacated`).  A rotation changes S at two nodes and
`pos` nowhere; everything on the left is carried to the right by turning `pos` around.
The depths, and so the choice among rotations, do not matter to the order: hence no
assumption on balance is needed, and the theorem covers misjudged trees, too.
Operators of `AVLNodes` that are recursive functions are shown to exist, and to be what
they say, by induction on the size of S[n] (`Recursion`, `FromBelow`); the loop of the
iterators upwards by induction from the root (`ClimbIs`).

*Balance.*  `AVLBalanced` and `AVLKeepsAll` are about trees that were never `misjudged`
and callers that do not use `extract(AVLNode*)`; `avl_balance` shows what becomes of a
misjudged one.  The invariant `BalInv` adds to the shape that the tree holds `kept`
and that there are heights E of which every node has one more than the higher of its sides,
with sides that differ by one at most, and which the nodes store (`Settled`).  Nothing weaker is
inductive: that an extraction loses nothing rests on balance, because only then has an
only child no children (`OnlyChildIsLeaf`), which the exchange of the two would cut off; and that
a rotation restores balance rests on the stored depths.  Inside a call the invariant is `Focused`:
the loop is at a node f, all others are balanced, those not above f store their
heights, and E[f] is the height that f had before one of its sides became higher or lower
by one, which is what the nodes above f are balanced by (`OffByOne`).  `BalanceRound` is the
step of the loop, with one lemma per rotation (`RightTopped`, `RightTwice` and their mirrors).
After a rotation the loop stays on that level, at the node that is on top now, so it needs up
to two rounds per level (`Paced`); `Rounds`, which bounds the loops of the model, is twice the
number of keys for that reason.  The exchanges of an extraction rename the places, and E with
them (`SwapLeaving`).  `clear` goes to the leftmost node and one step to the right:
`ClearFromIs` says that this is a leaf, again by balance, and `Earlier` which nodes it has
destroyed when it comes to a node.

`MultiInv` says of the tree of key nodes that it holds the keys with a value, by the lemmas
just described, and of the lists (`Chained`) that what is listed is linked in both directions, each value
node once, and that a value node in no list points nowhere.  The last conjunct is
needed: `pushBack` does not write the next pointer of a node it puts behind others, nor
`pushFront` the previous one.

*Keys.*  `OwnInv` says that what has an owner is allocated, that no two own the same,
that what is allocated has an owner unless it is in `stray`, that nobody owns what is, and
that nothing was deleted twice.

*The order of keys.*  `KeyInv` says of a map whose possible keys are all
`Comparable` that it is sorted by `Precedes`.  `Precedes` is defined with quantifiers,
and `KeysCompared` shows that the comparisons of the code, which go by cases and
least indexes, return TRUE and nothing else exactly when it holds; it is irreflexive,
transitive and total on such keys.  A search is a descent through a tree of unknown shape.
`DescentEnds` says that it ends at one gap whatever the shape, when what it asks is
answered one way up to that gap and the other way behind it, by induction over the distance
of the gaps; `EndsDefined` says that the recursion of `Ends` defines a function at all.
For a sorted map such a gap exists (`Cut`), and it is where the key belongs
(`FoundExact`, `GapsExact`).  `KeysAssumption`, that keys are null, numbers and arrays of
numbers, is all that is assumed of them.

*Arrays.*  `ArraysInv` adds to `ArraysHold` that the block is what the capacity
says.  That the capacity suffices needs that `getNearestPow2`, a recursive function,
is defined and rounds up.  Both are proved by induction, stated about sets:
a set that has n whenever it has everything below n has all numbers
(`StrongInduction`, from the well-foundedness of the numbers).  Sequences are reasoned about
element by element, with the shifted index as the bound variable.

Only model-checked: liveness, which is out of the prover's reach, as is `ENABLED`;
bit arrays, the arithmetic of numbers, and queries.  `Queries` defines by recursion what a
query means, which keeps it and `MCStructures` out of the prover's reach; the
others are folds and recursive functions over data, for which the induction above would
serve.

## 5. Not modelled

- File storage (nothing calls it), serialization (commented out), printing (pure
  output), `memctrl.hxx` (used by the serialization only), iterator templates, error
  codes and type traits have no behaviour that a state machine shows.
- `List` forwards to `std::list`; its locks are in `FacadeLocks` and the
  destruction of its elements in `ResourceControl`.
- `merge`, `moveMerge` and copies of whole tables, which repeat the insertion of
  a row, and the table that `find` returns, which shares rows with the one searched.
  That `find` and `findAndMove` leave a moved-from pointer in the map of tables
  (`table_impl.cxx:55`) is the one listed hazard no property covers.
- `&=`, `|=`, `^=`, `<<=` and `>>=` of numbers cannot be instantiated; arithmetic
  on floats is that of the machine (their comparisons are in `Numbers`, for keys).
- A `WeakLink` that is promoted without a lock around it: undefined.
- Conversions of keys to variables and strings.

## 6. Plan

1. `merge`, `moveMerge` and the results of `find` and `findAndMove`, which share rows
   with the table.
2. A third thread in `facade`, for rings of methods that wait for each other.
3. The folds and recursive functions of bit arrays and numbers as theorems.
