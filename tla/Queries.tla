------------------------------ MODULE Queries ------------------------------
(* One query on one table: the loop of ConditionQuery (query.cxx) that       *)
(* multiplies its subexpressions out, and the search of TableImplementation  *)
(* (table_impl.cxx), one conjunction block after the other, each over the    *)
(* rows or over one index.  find, findAndMove, remove and changeWhere differ *)
(* in what they do with a row that is found.                                 *)
(*                                                                           *)
(* An expression is [op, column, value, rel], or [op |-> "subexpression",    *)
(* sub, rel] with a list that is not empty; rel relates it to the next one.  A row is its kind *)
(* and the values it has for each column, of which a map has at most one.    *)
(* Values are numbers and stand for keys in their order; null is the least.  *)
(* Reading the relation of the end of a list, which the loops do, reads a    *)
(* byte of its size, which is zero: AND.                                     *)
EXTENDS Integers, SequencesExt

CONSTANTS
    QueryTables,  \* tables: a sequence of rows, and an index for some columns
    QueryLists    \* the lists of expressions that queries are made of

VARIABLES
    table,        \* the table that is searched
    query,        \* the query as the client wrote it
    expressions,  \* the query as it is simplified
    phase,        \* "simplify", "search", or "done"
    block,        \* where the current conjunction block begins
    it,           \* the expression simplification looks at
    found,        \* the rows that were found, as their numbers
    faithful,     \* every index so far was asked what it answers like the rows
    undefined     \* the end of an index has been dereferenced

queryVars == <<table, query, expressions, phase, block, it, found, faithful, undefined>>

NullValue == 0

-----------------------------------------------------------------------------
(* What an expression says of a row *)

Relates(op, a, b) ==
    CASE op = "equal" -> a = b
      [] op = "not_equal" -> a # b
      [] op = "lower" -> a < b
      [] op = "lower_or_equal" -> a <= b
      [] op = "higher" -> a > b
      [] op = "higher_or_equal" -> a >= b

\* getVariable of a map: null when there is no such field.
ValueOf(row, column) ==
    IF row.fields[column] = {} THEN NullValue
    ELSE CHOOSE v \in row.fields[column] : TRUE

\* test of an expression; of a multimap, higher_or_equal asks for higher.
test(row, e) ==
    CASE e.op = "contains" -> row.fields[e.column] # {}
      [] e.op # "contains" /\ row.kind = "map" ->
            Relates(e.op, ValueOf(row, e.column), e.value)
      [] e.op # "contains" /\ row.kind = "multimap" ->
            \E v \in row.fields[e.column] :
                Relates(IF e.op = "higher_or_equal" THEN "higher" ELSE e.op, v, e.value)

\* test of a whole query, which is how a constraint accepts a row.
testQuery(row, list) ==
    LET step(result, e) ==
            LET holds == result = "true" /\ test(row, e)
            IN  CASE result = "accepted" \/ (holds /\ e.rel = "OR") -> "accepted"
                  [] result # "accepted" /\ ~holds /\ e.rel = "AND" -> "false"
                  [] OTHER -> "true"
    IN  FoldLeft(step, "true", list) # "false"

-----------------------------------------------------------------------------
(* Simplification *)

\* Where the conjunction block of the expression at i ends.
BlockEnd(list, i) ==
    LET ends == {j \in i..Len(list) : list[j].rel = "OR"}
    IN  IF ends = {} THEN Len(list) ELSE Min(ends)

\* The blocks of a list, the last of which has no OR and may be empty.
ConjunctionBlocks(list) ==
    LET ends == SetToSortSeq({j \in DOMAIN list : list[j].rel = "OR"}, <) \o <<Len(list)>>
    IN  [k \in DOMAIN ends |->
            SubSeq(list, IF k = 1 THEN 1 ELSE ends[k - 1] + 1, ends[k])]

simplifyConjunctionBlock_KeepsRelation(before, sub, after) ==
    LET add(list, b) == list \o before \o b \o after
    IN  FoldLeft(add, <<>>, ConjunctionBlocks(sub))

\* A block with a subexpression: for each block of the subexpression, the
\* expressions before it, the block and the expressions after it.
simplifyConjunctionBlock(before, sub, after) ==
    LET joined(list) ==
            IF list = <<>> \/ after = <<>> THEN list
            ELSE [list EXCEPT ![Len(list)].rel = "AND"]
        add(list, b) == joined(list \o before \o b) \o after
    IN  FoldLeft(add, <<>>, ConjunctionBlocks(sub))

-----------------------------------------------------------------------------
(* Indexes *)

IsIndexedColumn(column) == table.index[column] # "none"

\* The fields of the index of a column: values with the rows that have them.
IndexedFields(column) ==
    UNION {table.rows[r].fields[column] \X {r} : r \in DOMAIN table.rows}

Score(e) ==
    (CASE e.op = "equal" -> 1000
       [] e.op \in {"higher", "lower"} -> 500
       [] e.op \in {"higher_or_equal", "lower_or_equal"} -> 250
       [] e.op = "not_equal" -> 125
       [] e.op = "contains" -> 10)
    + IF table.index[e.column] = "unique_index" THEN 1000 ELSE 500

\* The expression whose index is searched: the best score, then the smallest
\* index, then the first.
Preferred(list, i, j) ==
    LET fields(k) == Cardinality(IndexedFields(list[k].column))
    IN  \/ Score(list[i]) > Score(list[j])
        \/ /\ Score(list[i]) = Score(list[j])
           /\ fields(i) < fields(j) \/ (fields(i) = fields(j) /\ i <= j)

SearchIndex(list) ==
    LET indexed == {i \in DOMAIN list : IsIndexedColumn(list[i].column)}
    IN  IF indexed = {} THEN 0
        ELSE CHOOSE i \in indexed : \A j \in indexed : Preferred(list, i, j)

Present(e) == \E entry \in IndexedFields(e.column) : entry[1] = e.value
Higher(e) == \E entry \in IndexedFields(e.column) : entry[1] > e.value

\* find gives the end of the index for a value that is not in it, so ranges
\* that begin or end there are empty or everything.
IndexRange(e) ==
    LET relates(entry) == Relates(e.op, entry[1], e.value)
    IN  CASE e.op = "contains" -> IndexedFields(e.column)
          [] e.op \in {"lower", "not_equal"} /\ ~Present(e) -> IndexedFields(e.column)
          [] e.op = "higher_or_equal" /\ ~Present(e) -> {}
          [] OTHER -> {entry \in IndexedFields(e.column) : relates(entry)}

\* A range that begins at the end and stops before it; and, of two ranges,
\* a second one that is empty.
RunsPastTheEnd(e) ==
    \/ e.op = "equal" /\ ~Present(e) /\ Higher(e)
    \/ e.op = "not_equal" /\ Present(e) /\ ~Higher(e)

\* filterByConjunctionBlock: the rows it calls back.
filterByConjunctionBlock(list) ==
    LET s == SearchIndex(list)
        passes(r) == \A i \in DOMAIN list \ {s} : test(table.rows[r], list[i])
    IN  {r \in IF s = 0 THEN DOMAIN table.rows
               ELSE {entry[2] : entry \in IndexRange(list[s])} : passes(r)}

\* When an index answers like the rows: the value it is asked for is in it,
\* where the range begins or ends there, and no map without the column counts
\* as having null in it; and rows are not asked for higher_or_equal when they
\* are multimaps.
AnswersLikeRows(list) ==
    LET s == SearchIndex(list)
        maps == {row \in Range(table.rows) : row.kind = "map"}
    IN  /\ s # 0 =>
            /\ list[s].op \in {"equal", "lower", "higher_or_equal"} => Present(list[s])
            /\ list[s].op \in {"lower", "lower_or_equal", "not_equal"} =>
                    \A row \in maps : row.fields[list[s].column] # {}
        /\ \A i \in DOMAIN list \ {s} :
                list[i].op = "higher_or_equal" => Range(table.rows) = maps

-----------------------------------------------------------------------------
QueryInit ==
    /\ table \in QueryTables
    /\ query \in QueryLists
    /\ expressions = query
    /\ phase = "simplify"
    /\ block = 1 /\ it = 1
    /\ found = {}
    /\ faithful = TRUE
    /\ undefined = FALSE

\* simplifySubExpressions: one round of the loop.
simplifySubExpressions ==
    /\ phase = "simplify" /\ it <= Len(expressions)
    /\ IF expressions[it].op = "subexpression"
       THEN LET end == BlockEnd(expressions, it)
                before == SubSeq(expressions, block, it - 1)
                after == SubSeq(expressions, it + 1, end)
            IN  /\ expressions' =
                        SubSeq(expressions, 1, block - 1)
                        \o simplifyConjunctionBlock(before, expressions[it].sub, after)
                        \o SubSeq(expressions, end + 1, Len(expressions))
                /\ it' = block
                /\ UNCHANGED block
       ELSE /\ it' = it + 1
            /\ block' = IF expressions[it].rel = "OR" THEN it + 1 ELSE block
            /\ UNCHANGED expressions
    /\ UNCHANGED <<table, query, phase, found, faithful, undefined>>

Simplified ==
    /\ phase = "simplify" /\ it > Len(expressions)
    /\ phase' = "search" /\ block' = 1
    /\ UNCHANGED <<table, query, expressions, it, found, faithful, undefined>>

\* find, findAndMove, remove and changeWhere: the next block.
SearchBlock ==
    LET end == BlockEnd(expressions, block)
        list == SubSeq(expressions, block, end)
        s == SearchIndex(list)
    IN  /\ phase = "search" /\ block <= Len(expressions)
        /\ undefined' = (s # 0 /\ RunsPastTheEnd(list[s]))
        /\ faithful' = (faithful /\ AnswersLikeRows(list))
        /\ found' = IF undefined' THEN found
                    ELSE found \cup filterByConjunctionBlock(list)
        /\ block' = end + 1
        /\ UNCHANGED <<table, query, expressions, phase, it>>

Searched ==
    /\ phase = "search" /\ block > Len(expressions)
    /\ phase' = "done"
    /\ UNCHANGED <<table, query, expressions, block, it, found, faithful, undefined>>

QueryNext ==
    /\ ~undefined
    /\ \/ simplifySubExpressions
       \/ Simplified
       \/ SearchBlock
       \/ Searched

-----------------------------------------------------------------------------
\* What a query means: AND binds before OR, and a subexpression is a group.
RECURSIVE Means(_, _)
Means(row, list) ==
    LET holds(e) == CASE e.op = "subexpression" -> Means(row, e.sub)
                      [] e.op = "contains" -> row.fields[e.column] # {}
                      [] OTHER -> \E v \in IF row.kind = "map"
                                           THEN {ValueOf(row, e.column)}
                                           ELSE row.fields[e.column] :
                                        Relates(e.op, v, e.value)
    IN  \E b \in Range(ConjunctionBlocks(list)) :
            b # <<>> /\ \A i \in DOMAIN b : holds(b[i])

\* Queries that are multiplied out rightly: no list ends with an OR; and a
\* group is the last of its list, or other expressions and then an OR follow
\* in its block.
RECURSIVE WellGrouped(_)
WellGrouped(list) ==
    /\ Last(list).rel = "AND"
    /\ \A i \in DOMAIN list :
            list[i].op = "subexpression" =>
                /\ WellGrouped(list[i].sub)
                /\ \/ i = Len(list)
                   \/ /\ list[i].rel = "AND"
                      /\ \E j \in (i + 1)..Len(list) : list[j].rel = "OR"

Rows == DOMAIN table.rows

\* A well grouped query, once simplified, means to every row what it meant,
\* also where it is a constraint; and a search finds exactly the rows it holds
\* for, whichever indexes it goes over, when these answer like the rows.
SearchExact ==
    WellGrouped(query) =>
        /\ phase # "simplify" =>
                \A r \in Rows :
                    /\ Means(table.rows[r], expressions) = Means(table.rows[r], query)
                    /\ (\A row \in Range(table.rows) : row.kind = "map") =>
                            testQuery(table.rows[r], expressions) = Means(table.rows[r], query)
        /\ phase = "done" /\ faithful =>
                found = {r \in Rows : Means(table.rows[r], query)}

\* A list of expressions inside a query is a group, wherever it stands
\* (test/table_test.hxx:52-59, "Contains check", uses one as a group).
GroupsKept ==
    phase # "simplify" =>
        \A r \in Rows : Means(table.rows[r], expressions) = Means(table.rows[r], query)
=============================================================================
