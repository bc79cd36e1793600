----------------------------- MODULE KeyValues -----------------------------
(* Keys (key_value.cxx): what a key holds, how it is made from a variable,   *)
(* how two keys are compared, and which key owns which array.                *)
(*                                                                           *)
(* A key or a variable is [type, val]: val is the number (a float counted in *)
(* halves), or the sequence of the elements of an array.                     *)
EXTENDS Numbers, FiniteSetsExt

NullKey == [type |-> "null", val |-> 0]

\* KeyValue(Variable): a container gives a null key.
KeyFrom(variable) ==
    CASE toTypeClass(variable.type) \in {"number", "bit_array"} ->
            [variable EXCEPT !.type = toKeyType(@)]
      [] toTypeClass(variable.type) = "buffer_array" ->
            [variable EXCEPT !.type = toKeyBufferType(toValueType(@))]
      [] OTHER -> NullKey

CompareTypes_Ignored(a, b) == "equal"

\* Two generic values: by >, then by <, then by the codes of their types.
CompareTypes(a, b) ==
    CASE Code(a.type) > Code(b.type) -> "highter"
      [] Code(a.type) < Code(b.type) -> "lower"
      [] OTHER -> "equal"

CompareNumbers(a, b) ==
    CASE Gt(a, b) -> "highter"
      [] ~Gt(a, b) /\ Lt(a, b) -> "lower"
      [] OTHER -> CompareTypes(a, b)

Element(key, i) == [type |-> toValueType(key.type), val |-> key.val[i]]

\* Arrays, element by element.  The test for the end of this array looks at
\* the other one's end, so an array that ran out goes on with what lies behind
\* it: any result but "equal".
CompareArrays(a, b) ==
    LET common == Min({Len(a.val), Len(b.val)})
        differ == {i \in 1..common : Gt(Element(a, i), Element(b, i))
                                        \/ Lt(Element(a, i), Element(b, i))}
    IN  CASE differ # {} ->
                {IF Gt(Element(a, Min(differ)), Element(b, Min(differ)))
                 THEN "highter" ELSE "lower"}
          [] differ = {} /\ Len(a.val) > Len(b.val) -> {"highter"}
          [] differ = {} /\ Len(a.val) < Len(b.val) -> {"highter", "lower"}
          [] OTHER -> {CompareTypes(a, b)}

\* getCompare of two keys: the results it can have.
getCompare(a, b) ==
    LET ca == ClassCode(toTypeClass(a.type))
        cb == ClassCode(toTypeClass(b.type))
    IN  CASE ca > cb -> {"highter"}
          [] ca < cb -> {"lower"}
          [] ca = cb /\ toTypeClass(a.type) = "number" -> {CompareNumbers(a, b)}
          [] ca = cb /\ toTypeClass(a.type) \in {"bit_array", "buffer_array"} ->
                CompareArrays(a, b)
          [] OTHER -> {"equal"}

\* getCompare of a key and a variable: the same, on the key type of the
\* variable.
getCompareVariable(a, variable) ==
    IF ClassCode(toTypeClass(variable.type)) > ClassCode("buffer_array")
    THEN {"lower"}
    ELSE getCompare(a, [variable EXCEPT !.type = toKeyType(@)])

\* operator<: whether the result is "lower".
Less(a, b) == {r = "lower" : r \in getCompare(a, b)}

-----------------------------------------------------------------------------
(* Ownership.  Array data is allocated with new and has one owner, a key or  *)
(* a resource; a key made from a moved array variable takes the data out of  *)
(* the resource, which every link of it sees.  One constructor breaks this:  *)
(* KeyValue(const BufferArray&) copies the array but gives the key the type  *)
(* of the elements, a number, so no key or resource owns the copy.           *)

CONSTANTS
    KeyObjects,  \* places where a key can be constructed
    Resources,   \* variables that hold an array
    Blocks,      \* addresses of array data
    NoBlock      \* the null pointer

ASSUME NoBlockAssumption == NoBlock \notin Blocks

VARIABLES
    keyOf,   \* KeyObjects -> the class of the key ("null" stands for numbers
             \* too, which own nothing, and "none" for no key) and its data
    dataOf,  \* Resources -> the array data of the resource, or the null
             \* pointer once it was taken out
    live,    \* the blocks that are allocated
    stray,   \* those of them that a key of a number type points to
    deleted  \* a block was deleted that was not allocated

ownVars == <<keyOf, dataOf, live, stray, deleted>>

Dead == [class |-> "none", block |-> NoBlock]
Null == [class |-> "null", block |-> NoBlock]

OwnInit ==
    /\ keyOf = [k \in KeyObjects |-> Dead]
    /\ dataOf = [v \in Resources |-> NoBlock]
    /\ live = {}
    /\ stray = {}
    /\ deleted = FALSE

Constructed(k) == keyOf[k].class # "none"

\* ~KeyValue leaves null behind, whatever the key held.
Destroyed(k) ==
    /\ UNCHANGED stray
    /\ live' = IF keyOf[k].class = "array" THEN live \ {keyOf[k].block} ELSE live
    /\ deleted' = (deleted \/ (keyOf[k].class = "array"
                                    /\ keyOf[k].block \notin live \cup {NoBlock}))

\* A variable without data is replaced by a new array.
CreateArray(v) ==
    \E b \in Blocks \ live :
        /\ dataOf[v] = NoBlock
        /\ dataOf' = [dataOf EXCEPT ![v] = b]
        /\ live' = live \cup {b}
        /\ UNCHANGED <<keyOf, stray, deleted>>

\* KeyValue(BufferArray&&), KeyValue(BitArray&&): also of an array whose data
\* another key has taken already.
ConstructByMove(k, v) ==
    /\ ~Constructed(k)
    /\ keyOf' = [keyOf EXCEPT ![k] = [class |-> "array", block |-> dataOf[v]]]
    /\ dataOf' = [dataOf EXCEPT ![v] = NoBlock]
    /\ UNCHANGED <<live, stray, deleted>>

\* KeyValue(const BitArray&), and KeyValue(Variable) with a copied variable.
ConstructByCopy(k, v) ==
    \E b \in Blocks \ live :
        /\ ~Constructed(k) /\ dataOf[v] # NoBlock
        /\ keyOf' = [keyOf EXCEPT ![k] = [class |-> "array", block |-> b]]
        /\ live' = live \cup {b}
        /\ UNCHANGED <<dataOf, stray, deleted>>

\* KeyValue(const BufferArray&): the key gets the type of the elements, so it
\* is a number, which happens to be the address of the copy.
ConstructByBufferCopy(k, v) ==
    \E b \in Blocks \ live :
        /\ ~Constructed(k) /\ dataOf[v] # NoBlock
        /\ keyOf' = [keyOf EXCEPT ![k] = Null]
        /\ live' = live \cup {b}
        /\ stray' = stray \cup {b}
        /\ UNCHANGED <<dataOf, deleted>>

\* KeyValue(const KeyValue&).
CopyKey(k, other) ==
    /\ ~Constructed(k) /\ Constructed(other)
    /\ IF keyOf[other].class = "array"
       THEN \E b \in Blocks \ live :
                /\ keyOf[other].block # NoBlock
                /\ keyOf' = [keyOf EXCEPT ![k] = [class |-> "array", block |-> b]]
                /\ live' = live \cup {b}
       ELSE keyOf' = [keyOf EXCEPT ![k] = keyOf[other]] /\ UNCHANGED live
    /\ UNCHANGED <<dataOf, stray, deleted>>

MoveKey_KeepsSource(k, other) ==
    /\ ~Constructed(k) /\ Constructed(other)
    /\ keyOf' = [keyOf EXCEPT ![k] = keyOf[other]]
    /\ UNCHANGED <<dataOf, live, stray, deleted>>

\* KeyValue(KeyValue&&): the source becomes null.
MoveKey(k, other) ==
    /\ ~Constructed(k) /\ Constructed(other)
    /\ keyOf' = [keyOf EXCEPT ![k] = keyOf[other], ![other] = Null]
    /\ UNCHANGED <<dataOf, live, stray, deleted>>

DestroyKey(k) ==
    /\ Constructed(k)
    /\ Destroyed(k)
    /\ keyOf' = [keyOf EXCEPT ![k] = Dead]
    /\ UNCHANGED dataOf

\* operator=(KeyValue) with a moved argument: destroy, then move-construct
\* from the parameter, which took the data of the source before that.
AssignKey(k, other) ==
    /\ Constructed(k) /\ Constructed(other)
    /\ IF k = other
       THEN UNCHANGED <<keyOf, live, stray, deleted>>
       ELSE /\ Destroyed(k)
            /\ keyOf' = [keyOf EXCEPT ![k] = keyOf[other], ![other] = Null]
    /\ UNCHANGED dataOf

\* operator=(Variable) with a moved variable: the key destroys itself twice,
\* the second time as null.
AssignVariable(k, v) ==
    /\ Constructed(k)
    /\ Destroyed(k)
    /\ keyOf' = [keyOf EXCEPT ![k] = [class |-> "array", block |-> dataOf[v]]]
    /\ dataOf' = [dataOf EXCEPT ![v] = NoBlock]

OwnNext ==
    \/ \E v \in Resources : CreateArray(v)
    \/ \E k \in KeyObjects, v \in Resources :
            \/ ConstructByMove(k, v) \/ AssignVariable(k, v)
            \/ ConstructByCopy(k, v) \/ ConstructByBufferCopy(k, v)
    \/ \E k, other \in KeyObjects :
            CopyKey(k, other) \/ MoveKey(k, other) \/ AssignKey(k, other)
    \/ \E k \in KeyObjects : DestroyKey(k)

\* Whatever keys are built, copied, moved, assigned and destroyed, every
\* allocated array has exactly one owner, every array key has an allocated
\* one, and no array is deleted twice; but for the copies of
\* KeyValue(const BufferArray&), which no key or resource ever owns.
OneOwner ==
    LET owners(b) == {k \in KeyObjects : keyOf[k].block = b}
                     \cup {v \in Resources : dataOf[v] = b}
    IN  /\ ~deleted
        /\ stray \subseteq live
        /\ \A b \in live \ stray : Cardinality(owners(b)) = 1
        /\ \A b \in stray \cup (Blocks \ live) : owners(b) = {}
=============================================================================
