----------------------------- MODULE BitArrays -----------------------------
(* One bit array (bit_array_impl.cxx) in its block of memory, with the       *)
(* shifts of util_functions.hxx it moves bits with.  Memory is three-valued: *)
(* a bit nobody wrote is Garbage, and shifts, masks and unions carry it.     *)
EXTENDS Integers, Sequences, FiniteSets

CONSTANTS
    ByteBits,      \* bits of a byte: 8
    HeaderBytes,   \* sizeof(BitArrayImplementation): 16
    MaxBits,       \* bound on the size of the array
    BitLists,      \* the literals offered to a call
    BitCounts      \* the counts offered to a removal

ASSUME BitsAssumption == {ByteBits, HeaderBytes} \subseteq Nat \ {0}

VARIABLES
    bits,       \* bit_size, capacity, the size of the block after the header
                \* in bytes, and the bits in it
    expected,   \* the bits the calls so far ask for
    regular,    \* every call so far was one that bits are moved rightly for
    overrun     \* a call looped through memory or left the block

bitVars == <<bits, expected, regular, overrun>>

Garbage == 2

calculateByteSize(count) == (count + ByteBits - 1) \div ByteBits

\* The least power of two that is not below n.
NearestPow2[n \in Nat] == IF n <= 1 THEN n ELSE 2 * NearestPow2[(n + 1) \div 2]

calculateCapacity(count) == NearestPow2[HeaderBytes + calculateByteSize(count)]

\* A block of so many bytes of data that begins with mem.
Fresh(bytes, mem, used) ==
    [j \in 0..(bytes * ByteBits - 1) |-> IF j < used THEN mem[j] ELSE Garbage]

Created(list) ==
    LET capacity == calculateCapacity(Len(list))
        bytes == capacity - HeaderBytes
    IN  [size |-> Len(list), capacity |-> capacity, bytes |-> bytes,
         mem |-> Fresh(bytes, [j \in 0..(Len(list) - 1) |-> list[j + 1]], Len(list))]

Copied_WholeBytes(b, bytes) ==
    [b EXCEPT !.bytes = bytes,
              !.mem = Fresh(bytes, b.mem, b.size - (b.size % ByteBits))]

\* A copy into a block of so many bytes of data.
Copied(b, bytes) ==
    [b EXCEPT !.bytes = bytes,
              !.mem = Fresh(bytes, b.mem, calculateByteSize(b.size) * ByteBits)]

increaseSize(b, count) ==
    LET capacity == calculateCapacity(b.size + count)
    IN  IF capacity # b.capacity
        THEN [Copied(b, capacity) EXCEPT !.size = @ + count, !.capacity = capacity]
        ELSE [b EXCEPT !.size = @ + count]

reduceSize(b, count) == [b EXCEPT !.size = IF count <= @ THEN @ - count ELSE 0]

shrinkToFit(b) ==
    LET size == calculateByteSize(b.size)
    IN  IF size = b.capacity THEN b
        ELSE [Copied(b, HeaderBytes + size) EXCEPT !.capacity = HeaderBytes + size]

-----------------------------------------------------------------------------
(* Bytes: functions on 0..ByteBits - 1, the low bit first.                   *)

Places == 0..(ByteBits - 1)
ByteAt(mem, i) == [k \in Places |-> mem[i * ByteBits + k]]
Shl(byte, n) == [k \in Places |-> IF k >= n THEN byte[k - n] ELSE 0]
Shr(byte, n) == [k \in Places |-> IF k + n < ByteBits THEN byte[k + n] ELSE 0]
set0From(byte, from) == [k \in Places |-> IF k < from THEN byte[k] ELSE 0]
set0Before(byte, before) == [k \in Places |-> IF k >= before THEN byte[k] ELSE 0]
Or(x, y) == [k \in Places |-> IF 1 \in {x[k], y[k]} THEN 1
                              ELSE IF x[k] = 0 THEN y[k] ELSE x[k]]
SetByte(mem, i, byte) ==
    [j \in DOMAIN mem |-> IF j \div ByteBits = i THEN byte[j % ByteBits] ELSE mem[j]]

\* doLeftShift on the size bytes from byte first on.  It writes the bytes up
\* to the shift even when they are beyond its size, and its loop does not end
\* when there is nothing to shift or nothing to shift by.
LeftExtent(size, shift) ==
    LET touched == (shift + ByteBits - 1) \div ByteBits
    IN  IF size > touched THEN size ELSE touched

LeftLoops(size, shift) == size = 0 \/ shift = 0

doLeftShift(mem, first, size, shift) ==
    LET from == first * ByteBits
        to == from + LeftExtent(size, shift) * ByteBits
    IN  [j \in DOMAIN mem |-> IF j < from \/ j >= to THEN mem[j]
                              ELSE IF j - from < shift THEN 0 ELSE mem[j - shift]]

\* doRightShift; its limit is below zero when all the bytes are shifted out.
RightLoops(size, shift) == size - (shift \div ByteBits) - 1 < 0

doRightShift(mem, first, size, shift) ==
    LET from == first * ByteBits
        to == from + size * ByteBits
    IN  [j \in DOMAIN mem |-> IF j < from \/ j >= to THEN mem[j]
                              ELSE IF j + shift < to THEN mem[j + shift] ELSE 0]

-----------------------------------------------------------------------------
(* insertBits on the array b, which has its new size already, and removeBits *)
(* on one that has not: the bits they leave, and how far into the block they *)
(* reach.                                                                    *)

Aligned(at, count) == at % ByteBits = 0 /\ (at + count) % ByteBits = 0

InLastByte(b, at, count) ==
    LET last == calculateByteSize(b.size) - 1
    IN  at \div ByteBits = last /\ (at + count) \div ByteBits = last

Opened(b, at, count) ==
    LET start == at \div ByteBits
        end == (at + count) \div ByteBits
        s == at % ByteBits
        e == (at + count) % ByteBits
        size == calculateByteSize(b.size)
        spill == e - s
        shifted == doLeftShift(b.mem, start + 1, size - start - 1, count)
        first == ByteAt(b.mem, start)
        last == ByteAt(shifted, end)
    IN  CASE Aligned(at, count) -> doLeftShift(b.mem, 0, size - start, count)
          [] ~Aligned(at, count) /\ InLastByte(b, at, count) ->
                SetByte(b.mem, start, Or(set0From(first, s), set0Before(Shl(first, count), e)))
          [] ~InLastByte(b, at, count) /\ s >= e /\ s > 0 ->
                SetByte(shifted, end,
                        Or(set0Before(last, ByteBits + e - s), Shr(first, s - e)))
          [] ~InLastByte(b, at, count) /\ s < e ->
                SetByte(SetByte(shifted, end + 1,
                                Or(set0Before(last, spill), Shr(first, ByteBits - spill))),
                        end, Or(set0From(first, s), Shl(first, spill)))

OpensWithin(b, at, count) ==
    LET start == at \div ByteBits
        end == (at + count) \div ByteBits
        rest == calculateByteSize(b.size) - start
        more == IF at % ByteBits < (at + count) % ByteBits THEN 1 ELSE 0
    IN  CASE Aligned(at, count) -> ~LeftLoops(rest, count)
          [] ~Aligned(at, count) /\ InLastByte(b, at, count) -> TRUE
          [] OTHER -> /\ ~LeftLoops(rest - 1, count)
                      /\ start + LeftExtent(rest - 1, count) < b.bytes
                      /\ end + more < b.bytes

Closed(b, at, count) ==
    LET start == at \div ByteBits
        end == (at + count) \div ByteBits
        s == at % ByteBits
        e == (at + count) % ByteBits
        size == calculateByteSize(b.size)
        first == ByteAt(b.mem, start)
        kept == set0Before(ByteAt(b.mem, end), e)
        joined ==
            CASE s + count <= ByteBits ->
                    Or(set0Before(Shr(first, count), s),
                       Shl(ByteAt(b.mem, start + 1), ByteBits - count))
              [] s + count > ByteBits /\ s < e ->
                    Or(Shr(kept, e - s), Shl(ByteAt(b.mem, end + 1), ByteBits - (e - s)))
              [] s + count > ByteBits /\ s >= e -> Shl(kept, s - e)
    IN  IF s = 0 THEN doRightShift(b.mem, start, size - start, count)
        ELSE doRightShift(SetByte(b.mem, start, Or(set0From(first, s), joined)),
                          start + 1, size - start - 1, count)

\* The furthest byte a branch reads: the next one after the first, or after the
\* last that loses bits, or that last one.
ClosesWithin(b, at, count) ==
    LET start == at \div ByteBits
        end == (at + count) \div ByteBits
        s == at % ByteBits
        furthest == CASE s + count <= ByteBits -> start + 1
                      [] s + count > ByteBits /\ s < (at + count) % ByteBits -> end + 1
                      [] s + count > ByteBits /\ s >= (at + count) % ByteBits -> end
        rest == calculateByteSize(b.size) - start
    IN  IF s = 0 THEN ~RightLoops(rest, count)
        ELSE ~RightLoops(rest - 1, count) /\ furthest < b.bytes

\* Insertions that move every bit to its place: within the last byte; at the
\* front, of whole bytes; of bits that start behind the place where they end
\* in a byte, before the last byte; or before the end of the only byte the
\* array goes on in, when that byte has no bits the shift drags along.
InsertsRightly(b, at, count) ==
    LET start == at \div ByteBits
        end == (at + count) \div ByteBits
        s == at % ByteBits
        e == (at + count) % ByteBits
        last == calculateByteSize(b.size + count) - 1
    IN  \/ start = last /\ end = last /\ ~Aligned(at, count)
        \/ Aligned(at, count) /\ start = 0
        \/ ~Aligned(at, count) /\ s >= e /\ start < last
        \/ /\ s < e /\ b.size <= (start + 1) * ByteBits
           /\ start = end => e - s >= s

-----------------------------------------------------------------------------
BitsInit ==
    /\ \E list \in BitLists : bits = Created(list) /\ expected = list
    /\ regular = TRUE
    /\ overrun = FALSE

Written(b, at, list) ==
    [b EXCEPT !.mem = [j \in DOMAIN @ |-> IF j \in at..(at + Len(list) - 1)
                                         THEN list[j - at + 1] ELSE @[j]]]

\* Both pushBack: an iterator at the old end writes the new bits.
pushBackBits(list) ==
    /\ bits' = Written(increaseSize(bits, Len(list)), bits.size, list)
    /\ expected' = expected \o list
    /\ UNCHANGED <<regular, overrun>>

\* insert and pushFront: the gap is opened and then written.
insertBits(at, list) ==
    LET grown == increaseSize(bits, Len(list))
        within == OpensWithin(grown, at, Len(list))
    IN  /\ overrun' = ~within
        /\ regular' = (regular /\ InsertsRightly(bits, at, Len(list)))
        /\ bits' = IF within
                   THEN Written([grown EXCEPT !.mem = Opened(grown, at, Len(list))], at, list)
                   ELSE bits
        /\ expected' = SubSeq(expected, 1, at) \o list
                       \o SubSeq(expected, at + 1, Len(expected))

\* remove and popFront.
removeBits(at, count) ==
    LET toEnd == at + count >= bits.size
        within == toEnd \/ ClosesWithin(bits, at, count)
    IN  /\ overrun' = ~within
        /\ bits' = CASE at >= bits.size -> bits
                     [] at < bits.size /\ toEnd -> reduceSize(bits, bits.size - at)
                     [] ~toEnd /\ within ->
                            reduceSize([bits EXCEPT !.mem = Closed(bits, at, count)], count)
                     [] OTHER -> bits
        /\ expected' = SubSeq(expected, 1, at)
                       \o SubSeq(expected, at + count + 1, Len(expected))
        /\ UNCHANGED regular

popBackBits(count) ==
    /\ bits' = reduceSize(bits, count)
    /\ expected' = SubSeq(expected, 1, Len(expected) - count)
    /\ UNCHANGED <<regular, overrun>>

clearBits ==
    /\ bits' = shrinkToFit(reduceSize(bits, bits.size))
    /\ expected' = <<>>
    /\ UNCHANGED <<regular, overrun>>

\* The variable is replaced by a copy of itself.
copyBits ==
    /\ bits' = Copied(bits, bits.capacity - HeaderBytes)
    /\ UNCHANGED <<expected, regular, overrun>>

\* An array that has lost its bits is not followed any further.
BitsNext ==
    /\ regular /\ ~overrun
    /\ \/ \E list \in BitLists : Len(expected) + Len(list) <= MaxBits /\ pushBackBits(list)
       \/ \E list \in BitLists, at \in 0..Len(expected) :
            Len(expected) + Len(list) <= MaxBits /\ insertBits(at, list)
       \/ \E at \in 0..Len(expected), count \in BitCounts : removeBits(at, count)
       \/ \E count \in BitCounts : popBackBits(count)
       \/ clearBits
       \/ copyBits

-----------------------------------------------------------------------------
\* Through any sequence of calls whose insertions are of the kinds that are
\* moved rightly, a bit array that was not written out of bounds has exactly
\* the bits of the sequence the calls describe, whatever was in the memory it
\* grew into.
BitsHold ==
    regular /\ ~overrun =>
        /\ bits.size = Len(expected)
        /\ \A i \in 1..Len(expected) : bits.mem[i - 1] = expected[i]
=============================================================================
