------------------------------- MODULE Arrays -------------------------------
(* One array of variables (array_impl.cxx) or buffer array                   *)
(* (buffer_array_impl.cxx) in its block of memory.  The two share their      *)
(* shape: a header, a capacity, elements of one width that are moved as      *)
(* bytes.  A slot of the block holds the value of an element; which resource *)
(* holds the value of a Variable, and what is never destroyed, is not        *)
(* modelled (an exchanged block copies the resources of its elements).       *)
EXTENDS Integers, Sequences, FiniteSets

CONSTANTS
    ArrayHeader,    \* size of the header: 16 bytes for both classes
    LinkWidth,      \* size of a Variable: 8 bytes
    BufferWidths,   \* sizes of the elements of a buffer array: 1, 2, 4, 8
    ArrayValues,    \* the values of elements
    NoElement,      \* what a slot holds that was never written
    MaxElements     \* bound on the number of elements

ASSUME ArraysAssumption ==
    /\ {ArrayHeader, LinkWidth, MaxElements} \cup BufferWidths \subseteq Nat \ {0}
    /\ MaxElements >= 2    \* room for the longest of Lists

VARIABLES
    vector,     \* the array: what it is, the width of an element, count,
                \* capacity, size of the block in bytes, and slots
    contents,   \* the elements the calls so far ask for
    asked,      \* every popBack so far removed what it was asked to remove
    outside     \* an element was written behind the block

arrayVars == <<vector, contents, asked, outside>>

\* The least power of two that is not below n.
getNearestPow2[n \in Nat] == IF n <= 1 THEN n ELSE 2 * getNearestPow2[(n + 1) \div 2]

CapacityFor(width, count) == getNearestPow2[ArrayHeader + width * count]

Slots == 0..(MaxElements - 1)

\* create, with the elements of a literal.
CreatedArray(kind, width, list) ==
    [kind |-> kind, width |-> width, count |-> Len(list),
     capacity |-> CapacityFor(width, Len(list)),
     block |-> CapacityFor(width, Len(list)),
     slots |-> [i \in Slots |-> IF i < Len(list) THEN list[i + 1] ELSE NoElement]]

\* The copy constructor, in a block of the given size.
CopiedArray(v, block) ==
    [v EXCEPT !.block = block,
              !.slots = [i \in Slots |-> IF i < v.count THEN @[i] ELSE NoElement]]

\* increaseSize: the block is exchanged when the capacity is the same as
\* before, and kept when it is another one.
Enlarged(v, count) ==
    LET capacity == CapacityFor(v.width, v.count + count)
        copy == CopiedArray(v, capacity)
    IN  IF capacity = v.capacity
        THEN [copy EXCEPT !.count = @ + count]
        ELSE [v EXCEPT !.count = @ + count]

\* Whether the elements of v are all inside its block.
Fits(v) == ArrayHeader + v.width * v.count <= v.block

\* memmove of n elements.
MoveSlots(v, to, from, n) ==
    [v EXCEPT !.slots = [i \in Slots |-> IF i \in to..(to + n - 1)
                                         THEN @[from + i - to] ELSE @[i]]]

SetSlots(v, at, list) ==
    [v EXCEPT !.slots = [i \in Slots |-> IF i \in at..(at + Len(list) - 1)
                                         THEN list[i - at + 1] ELSE @[i]]]

Shortened(v, count) == [v EXCEPT !.count = IF count <= @ THEN @ - count ELSE 0]

\* insert(at, count) and insertBlock: where the new elements go, and the array
\* with the elements behind that place moved on.
GapAt(v, at) == IF at >= v.count THEN v.count ELSE at
WithGap(v, at, count) ==
    LET gap == GapAt(v, at)
    IN  MoveSlots(Enlarged(v, count), gap + count, gap, v.count - gap)

WithoutRange(v, at, count) ==
    IF at >= v.count THEN v
    ELSE IF at + count >= v.count THEN Shortened(v, v.count - at)
    ELSE Shortened(MoveSlots(v, at, at + count, v.count - at - count), count)

-----------------------------------------------------------------------------
Lists == UNION {[1..n -> ArrayValues] : n \in 0..2}

ArraysInit ==
    /\ \E list \in Lists : \E kind \in {"array", "buffer"} :
        \E width \in IF kind = "array" THEN {LinkWidth} ELSE BufferWidths :
            vector = CreatedArray(kind, width, list) /\ contents = list
    /\ asked = TRUE
    /\ outside = FALSE

\* insert, pushFront (at = 0) and pushBack (at = count): one element, or a
\* list of them into an array of variables.
insertElements(at, list) ==
    LET grown == WithGap(vector, at, Len(list))
    IN  /\ vector.kind = "buffer" => Len(list) = 1
        /\ outside' = ~Fits(grown)
        /\ vector' = IF Fits(grown) THEN SetSlots(grown, GapAt(vector, at), list)
                     ELSE vector
        /\ contents' = SubSeq(contents, 1, at) \o list
                       \o SubSeq(contents, at + 1, Len(contents))
        /\ UNCHANGED asked

removeElements(at, count) ==
    /\ vector' = WithoutRange(vector, at, count)
    /\ contents' = SubSeq(contents, 1, at) \o SubSeq(contents, at + count + 1, Len(contents))
    /\ UNCHANGED <<asked, outside>>

\* popBack.  The one of a buffer array takes its size in bytes for the number
\* of its elements.
popBackElements(count) ==
    LET v == vector
    IN  /\ vector' = IF v.kind = "array" THEN Shortened(v, count)
                     ELSE WithoutRange(v, v.width * v.count - count, count)
        /\ asked' = (asked /\ (v.kind = "array" \/ v.width = 1 \/ count = 0 \/ v.count = 0))
        /\ contents' = SubSeq(contents, 1, Len(contents) - count)
        /\ UNCHANGED outside

\* clear: of an array, it pops its size in bytes, which is more than it has;
\* of a buffer, it removes as many elements as it has bytes.
clearElements ==
    /\ vector' = IF vector.kind = "array"
                 THEN Shortened(vector, LinkWidth * vector.count)
                 ELSE WithoutRange(vector, 0, vector.width * vector.count)
    /\ contents' = <<>>
    /\ UNCHANGED <<asked, outside>>

\* The variable is replaced by a copy of itself.
copyElements ==
    /\ vector' = CopiedArray(vector, IF vector.kind = "array" THEN vector.capacity
                                     ELSE ArrayHeader + vector.capacity)
    /\ UNCHANGED <<contents, asked, outside>>

\* A broken array is not followed any further.
ArraysNext ==
    /\ asked /\ ~outside
    /\ \/ \E list \in Lists, at \in 0..Len(contents) :
            Len(contents) + Len(list) <= MaxElements /\ insertElements(at, list)
       \/ \E at \in 0..Len(contents), count \in 0..2 : removeElements(at, count)
       \/ \E count \in 0..Len(contents) : popBackElements(count)
       \/ clearElements
       \/ copyElements

-----------------------------------------------------------------------------
\* Through any sequence of insertions and removals at any place, and whatever
\* block the elements are moved to or left in, an array holds exactly the
\* elements the calls describe, in order, as long as no element came to lie
\* behind the block and no buffer of wide elements was popped from the back.
ArraysHold ==
    asked /\ ~outside =>
        /\ vector.count = Len(contents)
        /\ \A i \in 1..Len(contents) : vector.slots[i - 1] = contents[i]
        /\ Fits(vector)
=============================================================================
