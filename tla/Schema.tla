------------------------------- MODULE Schema -------------------------------
(***************************************************************************)
(* The schema compiler (core/generate.py) as operators: the width of a     *)
(* field, the layout of structs and unions, the order in which types are   *)
(* emitted and what validation accepts; the messages are in MessageTables. *)
(*                                                                         *)
(* A schema is a record                                                    *)
(*   names     the structs, then the unions, in order of declaration       *)
(*   types     name -> [union, packed, fields]; a union's fields are its   *)
(*             variants                                                    *)
(*   enums     name -> [remap, remap_style, values]; values[i + 1] is the  *)
(*             value of index i                                            *)
(*   messages  a sequence of message records                               *)
(* Optional YAML keys are sets with at most one element. min and max are   *)
(* given in wire steps (value * scale): the fractional limits of a float   *)
(* are integers then. Scales are whole numbers. Two combinations that the  *)
(* compiler accepts, a string in a packed struct and a float in an aligned *)
(* one, are left out: the code generated for them does not compile.        *)
(***************************************************************************)
EXTENDS MessageTables, Sequences, FiniteSets, SequencesExt

CONSTANTS BYTE,      \* bits in a byte (8); an int8 has one, an int32 has four
          SPARSE     \* a dense remap table larger than this may be replaced (32)

ASSUME SchemaAssumption == BYTE \in Nat \ {0, 1} /\ SPARSE \in Nat

TruncDiv(a, b) == IF a >= 0 THEN a \div b ELSE -((-a) \div b)    \* C and Rust

IntBytes == [int8 |-> 1, uint8 |-> 1, int16 |-> 2, uint16 |-> 2,
             int32 |-> 4, uint32 |-> 4]
IsInt(f) == f.type \in DOMAIN IntBytes
IsFloat(f) == f.type = "float"
IsNumeric(f) == IsInt(f) \/ IsFloat(f)
IsSigned(f) == f.type \in {"int8", "int16", "int32"}
IsEnum(s, f) == f.type \in DOMAIN s.enums
IsNested(s, f) == f.type \in DOMAIN s.types
TypeBits(f) == IF IsInt(f) THEN BYTE * IntBytes[f.type] ELSE 4 * BYTE

-----------------------------------------------------------------------------
\* Widths

\* math.ceil(math.log2(n))
Log2Ceil(n) == CHOOSE k \in 0..n : 2^k >= n /\ (k = 0 \/ 2^(k - 1) < n)

ComputeEnumBits(enum) ==
  LET count == Len(enum.values) IN IF count <= 1 THEN 1 ELSE Log2Ceil(count)

HasRange(f) == Present(f.min) /\ Present(f.max)

\* Bits that tell the steps of a bounded field apart
NeededBits(f) ==
  LET range == Value(f.max) - Value(f.min) + 1
  IN  IF range <= 1 THEN 1 ELSE Log2Ceil(range)

ComputeFieldBits(s, f) ==
  CASE f.type = "bool"   -> 1
    [] IsEnum(s, f)      -> ComputeEnumBits(s.enums[f.type])
    [] f.type = "string" -> f.max_length * BYTE
    [] Present(f.bits)   -> Value(f.bits)
    [] OTHER             -> IF HasRange(f) THEN NeededBits(f) ELSE TypeBits(f)

\* A field of an aligned struct: whole bytes, whatever its range
AlignedBits(s, f) ==
  CASE f.type = "string"                -> f.max_length * BYTE
    [] IsEnum(s, f) \/ f.type = "bool"  -> BYTE
    [] OTHER                            -> TypeBits(f)

-----------------------------------------------------------------------------
\* Layout. Sizes and offsets are in bits for both encodings; size maps each
\* type to its total and is computed from the types it references.

Count(f) == IF Present(f.count) THEN Value(f.count) ELSE 1
FlagBits(packed, f) == IF ~f.optional THEN 0 ELSE IF packed THEN 1 ELSE BYTE

\* Bits of the discriminant of a union
TagBits(t) ==
  IF ~t.packed THEN BYTE ELSE IF Len(t.fields) > 1 THEN Log2Ceil(Len(t.fields)) ELSE 1

ElemBits(s, size, packed, f) ==
  CASE IsNested(s, f) -> size[f.type]
    [] OTHER          -> IF packed THEN ComputeFieldBits(s, f) ELSE AlignedBits(s, f)

\* Fault: the presence flag is not counted
FieldBitsNoFlag(s, size, packed, f) == ElemBits(s, size, packed, f) * Count(f)

FieldBits(s, size, packed, f) ==
  FlagBits(packed, f) + ElemBits(s, size, packed, f) * Count(f)

TotalBits(s) ==
  LET size[n \in DOMAIN s.types] ==
        LET t == s.types[n]
        IN  IF t.union
            THEN TagBits(t) + Max({ElemBits(s, size, t.packed, t.fields[i]) :
                                     i \in DOMAIN t.fields})
            ELSE MapThenSumSet(LAMBDA i : FieldBits(s, size, t.packed, t.fields[i]),
                               DOMAIN t.fields)
  IN  size

\* Where field i of a struct begins
Offset(s, size, t, i) ==
  MapThenSumSet(LAMBDA j : FieldBits(s, size, t.packed, t.fields[j]), 1..(i - 1))

\* The generated WIRE_SIZE, in bytes
WireSize(s, n) == (TotalBits(s)[n] + BYTE - 1) \div BYTE

-----------------------------------------------------------------------------
\* The value -> wire index strategy of a remap enum: a dense table, or a sorted
\* one when the dense table would be large and mostly empty

RemapStyle(enum) ==
  LET denseSize == Max(Range(enum.values)) + 1
  IN  IF Present(enum.remap_style) THEN Value(enum.remap_style)
      ELSE IF denseSize > SPARSE /\ 2 * Len(enum.values) < denseSize THEN "search" ELSE "array"

SortedValues(enum) == SetToSortSeq(Range(enum.values), <)

\* Index of a value; the tables of the generated code give the first one
IndexOfValue(enum, value) ==
  CHOOSE i \in 0..(Len(enum.values) - 1) : enum.values[i + 1] = value

-----------------------------------------------------------------------------
\* Type order: depth first over the references, a type after those it needs

References(s, n) ==
  SelectSeq([i \in DOMAIN s.types[n].fields |-> s.types[n].fields[i].type],
            LAMBDA t : t \in DOMAIN s.types)

RECURSIVE Visit(_, _, _)
\* Fault: a type is emitted before its references are visited
VisitEarly(s, st, n) ==
  IF st.cycle \/ n \in Range(st.order) THEN st
  ELSE IF n \in st.visiting THEN [st EXCEPT !.cycle = TRUE]
  ELSE FoldLeft(LAMBDA acc, t : Visit(s, acc, t),
                [st EXCEPT !.order = Append(@, n)], References(s, n))

Visit(s, st, n) ==
  IF st.cycle \/ n \in Range(st.order) THEN st
  ELSE IF n \in st.visiting THEN [st EXCEPT !.cycle = TRUE]
  ELSE LET after == FoldLeft(LAMBDA acc, t : Visit(s, acc, t),
                             [st EXCEPT !.visiting = @ \cup {n}], References(s, n))
       IN  IF after.cycle THEN after
           ELSE [after EXCEPT !.visiting = @ \ {n}, !.order = Append(@, n)]

TopoSort(s) ==
  FoldLeft(LAMBDA st, n : Visit(s, st, n),
           [order |-> <<>>, visiting |-> {}, cycle |-> FALSE], s.names)

-----------------------------------------------------------------------------
\* Validation

ValidUnion(s, t) ==
  /\ t.fields # <<>>
  /\ \A i \in DOMAIN t.fields : /\ t.fields[i].type # "string"
                                /\ ~IsNested(s, t.fields[i])

\* A nested type shares its parent's encoding
SameEncoding(s, t) ==
  \A i \in DOMAIN t.fields :
    IsNested(s, t.fields[i]) => s.types[t.fields[i].type].packed = t.packed

\* The limits fit the declared type
InTypeRange(f) ==
  IsInt(f) =>
    LET low == IF IsSigned(f) THEN -(2^(TypeBits(f) - 1)) ELSE 0
        high == IF IsSigned(f) THEN 2^(TypeBits(f) - 1) - 1 ELSE 2^TypeBits(f) - 1
    IN  /\ Present(f.min) => Value(f.min) >= low * f.scale
        /\ Present(f.max) => Value(f.max) <= high * f.scale

ValidField(s, packed, f) ==
  /\ InTypeRange(f)
  /\ Present(f.count) => Value(f.count) >= 1 /\ f.type # "string" /\ ~f.optional
  /\ f.optional => f.type # "string"
  /\ packed /\ IsNumeric(f) /\ HasRange(f) =>
       NeededBits(f) <= FieldBits(s, TotalBits(s), packed, f)

\* What process_schema and validate_schema let through
Accepted(s) ==
  /\ ~TopoSort(s).cycle
  /\ \A n \in DOMAIN s.types \ Structs(s) : ValidUnion(s, s.types[n])
  /\ \A n \in Structs(s) :
       LET t == s.types[n]
       IN  /\ SameEncoding(s, t)
           /\ \A i \in DOMAIN t.fields : ValidField(s, t.packed, t.fields[i])
  /\ ValidMessages(s)
=============================================================================
