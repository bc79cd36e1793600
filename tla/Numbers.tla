------------------------------ MODULE Numbers ------------------------------
(* One integer number (GenericValue, or the data of a Number under its       *)
(* lock): a type and a 64-bit union, and the arithmetic of                   *)
(* generic_arithmetic.hxx on it.  Reading a member of the union takes its    *)
(* low bits and writing one leaves the others, as on a little-endian         *)
(* machine, so what was stored before a change of type can be seen again.    *)
(*                                                                           *)
(* Not modelled here: floating point members (only their comparisons, used   *)
(* by keys, are), and &=, |=, ^=, <<= and >>=, whose bodies cannot be        *)
(* instantiated because they apply a bit operator to a float.                *)
EXTENDS ValueTypes

CONSTANT Operands  \* bit patterns offered to an operation, read in its type

VARIABLES
    number,     \* the number: its type and the union as a ui64
    exact,      \* the value arithmetic gives it, modulo 2^Qword, or Unknown
    trapped     \* a division the processor refuses has been executed

numVars == <<number, exact, trapped>>

IntegerTypes == ValTypes \ {"f32", "f64"}

Unknown == -1

\* static_cast of x to an integer type.
Wrap(type, x) ==
    LET m == 2^toBitWidth(type)
        u == x % m
    IN  CASE type = "boolean" -> IF x = 0 THEN 0 ELSE 1
          [] toNumberType(type) = "signed_integer" /\ u >= m \div 2 -> u - m
          [] OTHER -> u

\* The member of the union that belongs to type, read and written.
Member(type, raw) ==
    IF type = "boolean" THEN raw % 2^Byte ELSE Wrap(type, raw)

Store(type, raw, x) ==
    LET m == 2^toBitWidth(type) IN raw - (raw % m) + (Wrap(type, x) % m)

-----------------------------------------------------------------------------
(* Arithmetic: both sides take their common type, as in C++, the result is   *)
(* computed in it and stored in the type of the left side.  Signed overflow  *)
(* wraps around: that is what the build's compilers do with these updates.   *)

Promote(type) == IF toBitWidth(type) < Dword THEN "si32" ELSE type

Common_LeftSide(left, right) == Promote(left)

Common(left, right) ==
    LET a == Promote(left)
        b == Promote(right)
    IN  IF toBitWidth(a) > toBitWidth(b)
           \/ (toBitWidth(a) = toBitWidth(b) /\ toNumberType(a) = "unsigned_integer")
        THEN a ELSE b

\* Division as in C++: towards zero.
Abs(x) == IF x < 0 THEN -x ELSE x
Quotient(a, b) ==
    IF (a < 0) = (b < 0) THEN Abs(a) \div Abs(b) ELSE -(Abs(a) \div Abs(b))

Exactly(op, a, b) ==
    CASE op = "+=" -> a + b
      [] op = "-=" -> a - b
      [] op = "*=" -> a * b
      [] op = "/=" -> Quotient(a, b)
      [] op = "%=" -> a - b * Quotient(a, b)

\* The value of left op right, where left has type lt and right has type rt.
Result(op, lt, left, rt, right) ==
    LET c == Common(lt, rt)
    IN  Wrap(lt, Wrap(c, Exactly(op, Wrap(c, left), Wrap(c, right))))

\* The smallest signed value divided by -1 has no result of its type.
Traps(op, lt, left, rt, right) ==
    LET c == Common(lt, rt)
    IN  /\ op \in {"/=", "%="}
        /\ toNumberType(c) = "signed_integer"
        /\ Wrap(c, left) = -(2^(toBitWidth(c) - 1))
        /\ Wrap(c, right) = -1

-----------------------------------------------------------------------------
(* Comparisons of two generic values [type, val].  The value of a float is   *)
(* counted in halves; its conversion to an integer cuts the half off.        *)

AsUi64(v) ==
    (IF toNumberType(v.type) = "float_point" THEN Quotient(v.val, 2) ELSE v.val)
    % 2^Qword

Holds(relation, x, y) ==
    CASE relation = "==" -> x = y
      [] relation = ">"  -> x > y
      [] relation = ">=" -> x >= y

\* ==, > and >= of a generic value with another: the operator applies its
\* relation to numbers of one representation.
Compare(relation, a, b) ==
    LET ka == toNumberType(a.type)
        kb == toNumberType(b.type)
    IN  CASE ka = "unsigned_integer" /\ kb = "float_point" ->
                b.val >= 0 /\ Holds(relation, 2 * a.val, b.val)
          [] ka = "float_point" /\ kb = "unsigned_integer" ->
                a.val >= 0 /\ Holds(relation, AsUi64(a), b.val)
          [] ka = "signed_integer" /\ kb = "float_point" ->
                Holds(relation, 2 * a.val, b.val)
          [] ka = "float_point" /\ kb = "signed_integer" ->
                Holds(relation, a.val, 2 * AsUi64(b))
          [] ka = "unsigned_integer" /\ kb = "signed_integer" ->
                b.val >= 0 /\ Holds(relation, a.val, b.val)
          [] ka = "signed_integer" /\ kb = "unsigned_integer" ->
                a.val >= 0 /\ Holds(relation, a.val, b.val)
          [] OTHER -> Holds(relation, a.val, b.val)

Eq(a, b) == Compare("==", a, b)
Gt(a, b) == Compare(">", a, b)
Ge(a, b) == Compare(">=", a, b)
Lt(a, b) == ~Ge(a, b)
Le(a, b) == ~Gt(a, b)

\* The same with a built-in integer b on the right.  A float is compared in
\* its own representation, with > in place of == when b is unsigned; > and >=
\* of two signed integers convert both to ui64.
CompareBuiltIn(relation, a, b) ==
    CASE toNumberType(a.type) = "float_point" ->
            /\ toNumberType(b.type) = "unsigned_integer" => a.val >= 0
            /\ Holds(relation, a.val, 2 * b.val)
      [] OTHER -> Compare(relation, a, b)

EqBuiltIn(a, b) ==
    IF toNumberType(a.type) = "float_point" /\ toNumberType(b.type) = "unsigned_integer"
    THEN CompareBuiltIn(">", a, b) ELSE CompareBuiltIn("==", a, b)

OrderBuiltIn(relation, a, b) ==
    IF toNumberType(a.type) = "signed_integer" /\ toNumberType(b.type) = "signed_integer"
    THEN Holds(relation, AsUi64(a), AsUi64(b)) ELSE CompareBuiltIn(relation, a, b)

-----------------------------------------------------------------------------
Value == Member(number.type, number.raw)

\* A union that was written through the member of its type only.
NumInit ==
    /\ \E type \in IntegerTypes, x \in Operands :
            /\ number = [type |-> type, raw |-> Store(type, 0, x)]
            /\ exact = Wrap(type, x) % 2^Qword
    /\ trapped = FALSE

Put(x) == number' = [number EXCEPT !.raw = Store(number.type, @, x)]

\* operator=: the value in its own type, cast to the type of this number.
Assign(type, x) ==
    /\ Put(Wrap(type, x))
    /\ exact' = Wrap(number.type, Wrap(type, x)) % 2^Qword
    /\ UNCHANGED trapped

\* What division gives is the quotient of the values unless the common type
\* turns a negative side into a large unsigned one.
Divides(op, left, type, right) ==
    op \in {"/=", "%="} =>
        \/ toNumberType(Common(number.type, type)) = "signed_integer"
        \/ left >= 0 /\ right >= 0

\* The compound assignments.  Division by zero leaves the number alone.
Compute(op, type, x) ==
    LET right == Wrap(type, x)
        skipped == op \in {"/=", "%="} /\ right = 0
        traps == ~skipped /\ Traps(op, number.type, Value, type, right)
    IN  /\ trapped' = traps
        /\ IF skipped \/ traps
           THEN UNCHANGED <<number, exact>>
           ELSE /\ Put(Result(op, number.type, Value, type, right))
                /\ exact' = IF \/ exact = Unknown \/ number.type = "boolean"
                               \/ ~Divides(op, Value, type, right)
                            THEN Unknown
                            ELSE Exactly(op, IF op \in {"/=", "%="}
                                             THEN Wrap(number.type, exact) ELSE exact, right) % 2^Qword

\* ++ and --, on the byte when the number is a boolean.
StepBy(d) ==
    LET type == IF number.type = "boolean" THEN "ui8" ELSE number.type
    IN  /\ number' = [number EXCEPT !.raw = Store(type, @, Member(type, @) + d)]
        /\ exact' = IF exact = Unknown \/ number.type = "boolean" THEN Unknown
                    ELSE (exact + d) % 2^Qword
        /\ UNCHANGED trapped

\* castTo: whatever the number is, it is read as a ui8 (a boolean as a bool),
\* and an si8 is written through the 16-bit member.
castTo(type) ==
    LET source == number.raw % 2^Byte
        member == IF type = "si8" THEN "si16" ELSE type
    IN  /\ type # number.type
        /\ number' = [type |-> type,
                      raw |-> Store(member, number.raw, Wrap(type, source))]
        /\ exact' = IF exact # Unknown /\ Value \in 0..(2^Byte - 1)
                    THEN Wrap(type, Value) % 2^Qword ELSE Unknown
        /\ UNCHANGED trapped

\* reinterpretCastTo: the same bits under another type.
reinterpretCastTo(type) ==
    /\ number' = [number EXCEPT !.type = type]
    /\ exact' = Unknown
    /\ UNCHANGED trapped

NumNext ==
    /\ ~trapped
    /\ \/ \E type \in IntegerTypes, x \in Operands : Assign(type, x)
       \/ \E op \in {"+=", "-=", "*=", "/=", "%="}, type \in IntegerTypes,
             x \in Operands : Compute(op, type, x)
       \/ \E d \in {-1, 1} : StepBy(d)
       \/ \E type \in IntegerTypes : castTo(type)
       \/ \E type \in IntegerTypes : reinterpretCastTo(type)

-----------------------------------------------------------------------------
\* However operands of other types were mixed in, and whatever bits an earlier
\* type left in the union, the number holds the arithmetically right value
\* modulo the width of its type -- until a cast cuts its source down to a
\* byte, an unsigned common type divides a negative value, or the number is a
\* boolean that is computed with.
HoldsExactly == exact # Unknown => Value = Wrap(number.type, exact)

\* All the comparisons of the number with an operand, generic or built-in,
\* agree with the order of the integers when both are of one sign.
ComparesExactly ==
    \A type \in IntegerTypes, x \in Operands :
        LET a == [type |-> number.type, val |-> Value]
            b == [type |-> type, val |-> Wrap(type, x)]
        IN  (a.val < 0) = (b.val < 0) =>
                /\ Eq(a, b) = (a.val = b.val) /\ EqBuiltIn(a, b) = (a.val = b.val)
                /\ Gt(a, b) = (a.val > b.val) /\ Le(a, b) = (a.val <= b.val)
                /\ Ge(a, b) = (a.val >= b.val) /\ Lt(a, b) = (a.val < b.val)
                /\ OrderBuiltIn(">", a, b) = (a.val > b.val)
                /\ OrderBuiltIn(">=", a, b) = (a.val >= b.val)

\* Arithmetic and comparison of numbers of mixed types follow the integers.
NumbersExact == HoldsExactly /\ ComparesExactly
=============================================================================
