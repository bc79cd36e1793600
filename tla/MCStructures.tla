---------------------------- MODULE MCStructures ----------------------------
(* The sequential parts for TLC: values and the structures that hold them.   *)
(* None of them uses another's state, so a behaviour is about one of them    *)
(* and the others stay as they are.                                          *)
EXTENDS AVLTree, MultiAVLTree, KeySet, Arrays, BitArrays, Queries

CONSTANT Subjects  \* the parts a run is about

VARIABLE subject

structures == <<avlVars, multiVars, numVars, ownVars, keyVars, arrayVars, bitVars,
                queryVars, subject>>

Only(part) == subject = part

N(type, val) == [type |-> type, val |-> val]

\* Sets of keys of each class of types and sign, and of all classes.
MCKeyFamilies ==
    { {N("boolean", 1), N("ui8", 1), N("si8", 1), N("ui16", 2), N("ui64", 0)},
      {N("si8", -1), N("si16", -1), N("si64", 3), N("si8", 0)},
      {N("f32", 1), N("f64", 1), N("f32", -3), NullKey},
      {NullKey, N("ui8", 1), N("bit_array", <<1, 0>>), N("bit_array", <<1, 1>>),
       N("ui8_array", <<1, 2>>), N("ui16_array", <<1, 1>>), N("ui8_array", <<2, 1>>)} }

\* Numbers of two kinds, some of them negative.
MCMixedFamilies == {{N("ui8", 1), N("si8", -2), N("si8", -3)}}

MCBitLists == {<<>>, <<1>>, <<0, 1, 1>>, <<1, 0, 0, 1>>}

E(column, op, value, rel) == [column |-> column, op |-> op, value |-> value, rel |-> rel]
S(sub, rel) == [op |-> "subexpression", sub |-> sub, rel |-> rel]
C(column, rel) == E(column, "contains", 0, rel)

\* Tables with a unique, a multi-indexed and an unindexed column: full rows,
\* rows with gaps, and multimaps.
MCRow(kind, id, name, tag) ==
    [kind |-> kind, fields |-> [id |-> id, name |-> name, tag |-> tag]]
MCTable(rows) ==
    [rows |-> rows,
     index |-> [id |-> "unique_index", name |-> "multi_index", tag |-> "none"]]
MCQueryTables ==
    { MCTable(<<MCRow("map", {1}, {2}, {2}), MCRow("map", {2}, {1}, {1}),
                MCRow("map", {3}, {2}, {1})>>),
      MCTable(<<MCRow("map", {1}, {1}, {}), MCRow("map", {}, {2}, {1}),
                MCRow("map", {2}, {}, {2})>>),
      MCTable(<<MCRow("multimap", {1, 3}, {1, 2}, {1, 2}),
                MCRow("multimap", {}, {2}, {2}), MCRow("map", {2}, {1}, {1})>>) }

\* Groups of one or two conditions anywhere among others, and groups in groups;
\* every operator, alone and with a second condition.
MCRels == {"AND", "OR"}
MCGroups ==
    {S(<<C("id", r1)>>, r) : r1, r \in MCRels}
    \cup {S(<<C("id", r1), C("tag", r2)>>, r) : r1, r2, r \in MCRels}
MCConditions == {C(c, r) : c \in {"name", "tag"}, r \in MCRels}
MCDeep == S(<<C("id", "AND"), S(<<C("name", "OR"), C("tag", "AND")>>, "AND")>>, "AND")
MCComparisons ==
    {E(c, op, v, r) : c \in {"id", "name", "tag"}, v \in {1, 2}, r \in MCRels,
        op \in {"equal", "not_equal", "lower", "lower_or_equal", "higher",
                "higher_or_equal"}}
    \cup {E("id", "higher_or_equal", 4, "AND"), E("name", "lower", 0, "AND")}
MCQueryLists ==
    {<<x, g>> : x \in MCConditions, g \in MCGroups}
    \cup {<<x, g, y>> : x, y \in MCConditions, g \in MCGroups}
    \cup {<<g, x, y>> : x, y \in MCConditions, g \in MCGroups}
    \cup {<<MCDeep>>, <<C("name", "OR"), MCDeep>>}
    \cup {<<x>> : x \in MCComparisons}
    \cup {<<x, y>> : x \in MCComparisons, y \in {C("id", "AND"), E("name", "equal", 2, "AND"),
                                                E("id", "higher", 1, "AND")}}

\* One initial state for the parts a behaviour is not about.
MCFirst(set) == CHOOSE e \in set : TRUE

Init ==
    /\ subject \in Subjects
    /\ MultiInit /\ OwnInit
    /\ (Only("AVLTree") \/ byNode = FALSE) /\ AVLInit
    /\ (Only("KeySet") \/ family = MCFirst(KeyFamilies)) /\ KeyInit
    /\ (Only("Numbers") \/ number = [type |-> "ui8", raw |-> 0]) /\ NumInit
    /\ (Only("Arrays") \/ vector = CreatedArray("array", LinkWidth, <<>>)) /\ ArraysInit
    /\ \/ Only("Queries")
       \/ table = MCFirst(QueryTables) /\ query = MCFirst(QueryLists)
    /\ QueryInit
    /\ (Only("BitArrays") \/ expected = <<>>) /\ BitsInit

Next ==
    /\ UNCHANGED subject
    /\ \/ Only("AVLTree") /\ AVLNext
       \/ ~Only("AVLTree") /\ UNCHANGED avlVars
    /\ \/ Only("MultiAVLTree") /\ MultiNext
       \/ ~Only("MultiAVLTree") /\ UNCHANGED multiVars
    /\ \/ Only("Numbers") /\ NumNext
       \/ ~Only("Numbers") /\ UNCHANGED numVars
    /\ \/ Only("KeyValues") /\ OwnNext
       \/ ~Only("KeyValues") /\ UNCHANGED ownVars
    /\ \/ Only("KeySet") /\ KeyNext
       \/ ~Only("KeySet") /\ UNCHANGED keyVars
    /\ \/ Only("Arrays") /\ ArraysNext
       \/ ~Only("Arrays") /\ UNCHANGED arrayVars
    /\ \/ Only("BitArrays") /\ BitsNext
       \/ ~Only("BitArrays") /\ UNCHANGED bitVars
    /\ \/ Only("Queries") /\ QueryNext
       \/ ~Only("Queries") /\ UNCHANGED queryVars

StructuresSpec == Init /\ [][Next]_structures

\* Pointers are null or name nodes, and no measured depth is below zero.
TypeOK == AVLTypeOK /\ MultiTypeOK

\* Arithmetic and comparison of numbers of mixed types follow the integers.
ArithmeticExact == Only("Numbers") => NumbersExact

\* The arrays of variables, of numbers and of bits hold what the calls put
\* there, in order.
ContentsHold ==
    /\ Only("Arrays") => ArraysHold
    /\ Only("BitArrays") => BitsHold
=============================================================================
