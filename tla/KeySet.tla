------------------------------- MODULE KeySet -------------------------------
(* The fields of one map, found by key: MapImplementation (map_impl.cxx) on  *)
(* std::set with the comparators of its fields.  The set is its keys in      *)
(* iteration order.  The C++ libraries keep them in a red-black tree; of its *)
(* shape only what the numbers of keys imply is kept, and a search may ask   *)
(* any element next that a tree of that size can have there.  With a total   *)
(* order every search ends at the same place.                                *)
EXTENDS KeyValues, SequencesExt

CONSTANTS
    KeyFamilies, \* the sets of keys a map may be used with
    MaxKeys      \* bound on the keys of the map

ArrayTypes == {"bit_array"} \cup BufferArrayTypes

\* What a key can be: null, a number, or an array.
MapKeys == {NullKey} \cup [type : ValTypes, val : Int] \cup [type : ArrayTypes, val : Seq(Int)]

ASSUME KeysAssumption == \A f \in KeyFamilies : f \subseteq MapKeys

VARIABLES
    keys,    \* the keys of the map, in order of iteration
    top,     \* the index of the key at the root, or 0 when more than one can be
    family   \* the keys of this behaviour

keyVars == <<keys, top, family>>

\* The root of a tree of so many keys, the last of which was inserted at one
\* of the gaps: a second key leaves the root where it is.
Top(count, gaps) ==
    CASE count = 1 -> 1
      [] count = 2 -> IF gaps = {} THEN 0 ELSE IF 0 \in gaps THEN 2 ELSE 1
      [] count = 3 -> 2
      [] OTHER -> 0

\* What the root of the subtree of the keys between the gaps l and h can be:
\* the middle one of three.
Roots(l, h) ==
    CASE h - l = 3 -> {l + 2}
      [] h - l # 3 /\ l = 0 /\ h = Len(keys) /\ top # 0 -> {top}
      [] OTHER -> (l + 1)..h

\* Where a descent can end that goes left of the elements for which goesLeft
\* holds (an element stands for its index; the results are gaps 0..Len).
Ends(goesLeft) ==
    LET n == Len(keys)
        end[gaps \in (0..n) \X (0..n)] ==
            LET l == gaps[1]
                h == gaps[2]
            IN  IF l >= h THEN {l}
                ELSE UNION {UNION {IF left THEN end[<<l, m - 1>>] ELSE end[<<m, h>>] :
                                        left \in goesLeft[m]} : m \in Roots(l, h)}
    IN  end[<<0, n>>]

\* Where find stops: the index of an element that is not below and not above
\* the key, or 0.
Found(key) ==
    LET gaps == Ends([i \in DOMAIN keys |-> {~b : b \in Less(keys[i], key)}])
    IN  UNION {IF g < Len(keys) THEN {IF above THEN 0 ELSE g + 1 :
                                        above \in Less(key, keys[g + 1])}
               ELSE {0} : g \in gaps}

\* The gaps a new key can go to, or -1 when it is not inserted: where the
\* search ends, unless the key before that gap is not below the new one.
Gaps(key) ==
    UNION {IF g = 0 THEN {0}
           ELSE {IF below THEN g ELSE -1 : below \in Less(keys[g], key)} :
                g \in Ends([i \in DOMAIN keys |-> Less(key, keys[i])])}

KeyInit ==
    /\ family \in KeyFamilies
    /\ keys = <<>>
    /\ top = 0

insertField(key) ==
    \E g \in Gaps(key) :
        IF g = -1 THEN UNCHANGED <<keys, top>>
        ELSE /\ keys' = InsertAt(keys, g + 1, key)
             /\ top' = Top(Len(keys) + 1, {g})

\* operator[]: the field with the key, inserted when it is not found.
getOrInsertFieldRef(key) ==
    \E i \in Found(key) : IF i = 0 THEN insertField(key) ELSE UNCHANGED <<keys, top>>

removeField(key) ==
    \E i \in Found(key) :
        IF i = 0 THEN UNCHANGED <<keys, top>>
        ELSE keys' = RemoveAt(keys, i) /\ top' = Top(Len(keys) - 1, {})

KeyNext ==
    /\ \E key \in family :
            \/ Len(keys) < MaxKeys /\ (insertField(key) \/ getOrInsertFieldRef(key))
            \/ removeField(key)
    /\ UNCHANGED family

KeySpec == KeyInit /\ [][KeyNext]_keyVars

-----------------------------------------------------------------------------
\* The order that is meant: by class, numbers by value and then by type,
\* arrays lexicographically.
Before(a, b) ==
    LET ca == ClassCode(toTypeClass(a.type))
        cb == ClassCode(toTypeClass(b.type))
        numbers == toTypeClass(a.type) = "number"
        differ == {i \in 1..Min({Len(a.val), Len(b.val)}) : a.val[i] # b.val[i]}
    IN  \/ ca < cb
        \/ ca = cb /\ numbers /\ a.val < b.val
        \/ ca = cb /\ numbers /\ a.val = b.val /\ Code(a.type) < Code(b.type)
        \/ /\ ca = cb /\ ~numbers /\ a.type # "null"
           /\ IF differ # {} THEN a.val[Min(differ)] < b.val[Min(differ)]
              ELSE Len(a.val) = Len(b.val) /\ Code(a.type) < Code(b.type)

\* Keys the code orders: two numbers of one kind, or of no negative value and
\* no fraction; two arrays of elements of one kind, neither of which is the
\* beginning of the other.
Comparable(a, b) ==
    LET kind(k) == toNumberType(k.type)
        arrays == {"bit_array", "buffer_array"}
        begins(x, y) == Len(x) < Len(y) /\ x = SubSeq(y, 1, Len(x))
    IN  toTypeClass(a.type) = toTypeClass(b.type) =>
        /\ toTypeClass(a.type) = "number" =>
                \/ kind(a) = kind(b)
                \/ "float_point" \notin {kind(a), kind(b)} /\ a.val >= 0 /\ b.val >= 0
        /\ toTypeClass(a.type) \in arrays =>
                kind(a) = kind(b) /\ ~begins(a.val, b.val) /\ ~begins(b.val, a.val)

\* A map whose keys are comparable keeps them sorted and unique through any
\* sequence of insertions and removals, and every search finds the key it is
\* for, by the key itself or by the variable it was made from, and no other.
KeysOrdered ==
    (\A a, b \in family : Comparable(a, b)) =>
        /\ \A i, j \in DOMAIN keys : i < j => Before(keys[i], keys[j])
        /\ \A key \in family :
                Found(key) = {IF \E i \in DOMAIN keys : keys[i] = key
                              THEN CHOOSE i \in DOMAIN keys : keys[i] = key ELSE 0}
        /\ \A i \in DOMAIN keys :
                /\ KeyFrom(keys[i]) = IF toTypeClass(keys[i].type) = "null"
                                      THEN NullKey ELSE keys[i]
                /\ getCompareVariable(keys[i], keys[i]) = {"equal"}

\* A map holds no key twice (README.md:103: "Key-sorted associative
\* heterogeneous container with unique key"), whatever keys it is used with.
KeysUnique == \A i, j \in DOMAIN keys : keys[i] = keys[j] => i = j
=============================================================================
