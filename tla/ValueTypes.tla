----------------------------- MODULE ValueTypes -----------------------------
(* The type codes of BinOM and the conversions between them (types.hxx).     *)
(* VarType, VarKeyType and ValType are enumerations over one set of codes,   *)
(* so a type is its name here, and each conversion is one operator over the  *)
(* names its overloads take.                                                 *)
EXTENDS Integers, Sequences

CONSTANTS Byte, Word, Dword, Qword  \* bits of the four widths: 8, 16, 32, 64

ASSUME WidthsAssumption ==
    /\ {Byte, Word, Dword, Qword} \subseteq Nat
    /\ 1 < Byte /\ Byte < Word /\ Word < Dword /\ Dword < Qword

\* The types in the order of their codes: the code of VarTypes[i] is i.
VarTypes ==
    << "null", "boolean", "ui8", "si8", "ui16", "si16", "ui32", "si32", "f32",
       "ui64", "si64", "f64", "bit_array", "ui8_array", "si8_array",
       "ui16_array", "si16_array", "ui32_array", "si32_array", "f32_array",
       "ui64_array", "si64_array", "f64_array", "array", "list", "map",
       "multimap", "table" >>

Code(type) ==
    IF type = "invalid_type" THEN 255
    ELSE CHOOSE i \in DOMAIN VarTypes : VarTypes[i] = type

TypesFrom(first, last) == {VarTypes[i] : i \in Code(first)..Code(last)}

\* ValType: the types of a number and of an element of a buffer array.
ValTypes == TypesFrom("boolean", "f64")
BufferArrayTypes == TypesFrom("ui8_array", "f64_array")

toTypeClass(type) ==
    CASE type \in ValTypes -> "number"
      [] type \in BufferArrayTypes -> "buffer_array"
      [] type \in {"null", "bit_array", "array", "list", "map", "multimap",
                   "table"} -> type
      [] OTHER -> "invalid_type"

\* VarTypeClass: the order of the classes, invalid_type last.
ClassCode(class) ==
    IF class = "invalid_type" THEN 255
    ELSE LET classes == << "null", "number", "bit_array", "buffer_array",
                           "array", "list", "map", "multimap", "table" >>
         IN  CHOOSE i \in DOMAIN classes : classes[i] = class

\* Containers are no keys.
toKeyType(type) ==
    IF Code(type) <= Code("f64_array") THEN type ELSE "invalid_type"

\* The buffer array of a number type; there is no array of booleans.
toKeyBufferType(type) ==
    IF type \in ValTypes \ {"boolean"} THEN VarTypes[Code(type) + 11]
    ELSE "invalid_type"

\* The number type of a number and of the elements of an array.
toValueType(type) ==
    CASE type \in ValTypes -> type
      [] type = "bit_array" -> "boolean"
      [] type \in BufferArrayTypes -> VarTypes[Code(type) - 11]
      [] OTHER -> "invalid_type"

toBitWidth(type) ==
    LET value == IF type \in BufferArrayTypes THEN toValueType(type) ELSE type
    IN  CASE value \in {"boolean", "ui8", "si8"} -> Byte
          [] value \in {"ui16", "si16"} -> Word
          [] value \in {"ui32", "si32", "f32"} -> Dword
          [] value \in {"ui64", "si64", "f64"} -> Qword
          [] OTHER -> 255

toNumberType(type) ==
    CASE toValueType(type) \in {"boolean", "ui8", "ui16", "ui32", "ui64"} ->
            "unsigned_integer"
      [] toValueType(type) \in {"si8", "si16", "si32", "si64"} ->
            "signed_integer"
      [] toValueType(type) \in {"f32", "f64"} -> "float_point"
      [] OTHER -> "invalid_type"
=============================================================================
