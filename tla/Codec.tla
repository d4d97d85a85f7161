------------------------------- MODULE Codec --------------------------------
(***************************************************************************)
(* The generated encoders and decoders (core/templates/protocol.c.j2,      *)
(* protocol.rs.j2, protocol.ts.j2) as operators.                           *)
(*                                                                         *)
(* A wire image is the set of the bit positions that are 1: encoders start *)
(* from a zeroed buffer and only ever set bits. An aligned field of n      *)
(* bytes, little-endian, is n * BYTE bits least significant first.         *)
(*                                                                         *)
(* Values are what the application means, the same for every target: a     *)
(* boolean; the index of an enum's variant; an integer in wire steps       *)
(* (physical value * scale); a float in parts of a step, FINE of them to   *)
(* one; a string as a sequence of non-zero bytes; a sequence for an array  *)
(* and for the fields of a struct; a set with at most one element for an   *)
(* optional field; <<tag, value>> for a union. What a target keeps in      *)
(* memory instead (C and Rust whole units, or raw steps with raw_storage;  *)
(* C and TypeScript the value of a remap enum) is part of its conversions  *)
(* below.                                                                  *)
(*                                                                         *)
(* A float in memory need not lie on a step, and a decimal that an         *)
(* application means to be on one hardly ever does: the nearest f32 to     *)
(* -9.998, in thousandths above -10, is 1.99986. The parts stand for such  *)
(* offsets, and for the rounding of the multiplication before the          *)
(* conversion; the much smaller rounding of a decoder's own result is left *)
(* out. Both presume a step well above the spacing of f32 values, that is, *)
(* ranges of less than 2^24 steps.                                         *)
(***************************************************************************)
EXTENDS Schema

CONSTANT FINE       \* parts of a step that a float in memory can be off by

ASSUME FineAssumption == FINE \in Nat \ {0}

Targets == {"C", "RS", "TS"}
Invalid == -1       \* a decoded enum that is none of its variants

WORD == 4 * BYTE    \* uint32_t, u32, and the operands of >>> in TypeScript
ToWord(x) == x % 2^WORD

\* A two's complement pattern of the given width as a signed number
SignExtend(w, bits) == IF w >= 2^(bits - 1) THEN w - 2^bits ELSE w

\* What a C variable of the field's type holds after an assignment
StoreC(f, x) ==
  CASE IsFloat(f)  -> x
    [] IsSigned(f) -> SignExtend(x % 2^TypeBits(f), TypeBits(f))
    [] OTHER       -> x % 2^TypeBits(f)

\* pack_bits: the positions set for the low bits of a word, from offset off
PackBits(off, bits, word) ==
  {off + i : i \in {j \in 0..(bits - 1) : (word \div 2^j) % 2 = 1}}

\* Fault: bits beyond the first byte are shifted by one
UnpackBitsCarry(wire, off, bits) ==
  MapThenSumSet(LAMBDA i : 2^i, {i \in 0..(bits - 1) : off + i + i \div BYTE \in wire})

UnpackBits(wire, off, bits) ==
  MapThenSumSet(LAMBDA i : 2^i, {i \in 0..(bits - 1) : off + i \in wire})

-----------------------------------------------------------------------------
\* Enums

\* Fault: the search stops one entry early
ValueToWireShort(enum, value) ==
  LET sorted == SortedValues(enum)
      n == Len(sorted)
      Search[lo \in 0..n, hi \in 0..n] ==
        IF lo + 1 < hi
        THEN LET mid == lo + (hi - lo) \div 2
             IN  IF sorted[mid + 1] < value THEN Search[mid + 1, hi] ELSE Search[lo, mid]
        ELSE lo
      found == Search[0, n]
  IN  IF found < n /\ sorted[found + 1] = value
      THEN IndexOfValue(enum, value) ELSE 0

\* Binary search in the table sorted by value; 0 for a value that is not there
ValueToWire(enum, value) ==
  LET sorted == SortedValues(enum)
      n == Len(sorted)
      Search[lo \in 0..n, hi \in 0..n] ==
        IF lo < hi
        THEN LET mid == lo + (hi - lo) \div 2
             IN  IF sorted[mid + 1] < value THEN Search[mid + 1, hi] ELSE Search[lo, mid]
        ELSE lo
      found == Search[0, n]
  IN  IF found < n /\ sorted[found + 1] = value
      THEN IndexOfValue(enum, value) ELSE 0

\* The dense table, initialised to 0 where no variant has the value
DenseTable(enum) ==
  [v \in 0..Max(Range(enum.values)) |->
     IF v \in Range(enum.values) THEN IndexOfValue(enum, v) ELSE 0]

\* Rust keeps the index; C and TypeScript keep the value of a remap enum
MemoryEnum(t, enum, i) == IF enum.remap /\ t # "RS" THEN enum.values[i + 1] ELSE i

EncodeEnum(t, enum, packed, i) ==
  LET m == MemoryEnum(t, enum, i)
  IN  IF ~packed \/ ~enum.remap \/ t = "RS" THEN m
      ELSE IF t = "C" /\ RemapStyle(enum) = "search" THEN ValueToWire(enum, m)
      ELSE DenseTable(enum)[m]

\* The variant a decoder stores for a word: Rust replaces an unknown index by
\* the default, the first variant
DecodeEnum(t, enum, packed, w) ==
  CASE t = "RS" -> IF w < Len(enum.values) THEN w ELSE 0
    [] t # "RS" /\ (packed \/ ~enum.remap) -> IF w < Len(enum.values) THEN w ELSE Invalid
    [] t # "RS" /\ ~packed /\ enum.remap ->
         IF w \in Range(enum.values) THEN IndexOfValue(enum, w) ELSE Invalid

-----------------------------------------------------------------------------
\* Numbers

\* Steps subtracted before a packed field is written. The templates apply |int
\* to the minimum, C even to that of a float.
Bias(t, f) ==
  IF ~Present(f.min) THEN 0
  ELSE IF t = "TS" \/ f.raw_storage \/ (t = "RS" /\ IsFloat(f)) THEN Value(f.min)
  ELSE TruncDiv(Value(f.min), f.scale) * f.scale

\* The step a float is sent as: the casts of C and Rust cut the fraction off,
\* Math.round goes to the nearest step and up from the middle. (A negative
\* operand, undefined in C, only arises from a minimum that C truncated.)
StepOfFloat(t, x) ==
  IF t = "TS" THEN (2 * x + FINE) \div (2 * FINE) ELSE TruncDiv(x, FINE)

EncodeNumber(t, f, packed, v) ==
  LET memory == IF t = "C" /\ f.raw_storage THEN StoreC(f, v) ELSE v
      bias == IF packed THEN Bias(t, f) ELSE 0
  IN  ToWord(IF IsFloat(f) THEN StepOfFloat(t, v - FINE * bias) ELSE memory - bias)

DecodeC(f, bits, w) ==
  LET min == IF Present(f.min) THEN Value(f.min) ELSE 0
      units == TruncDiv(min, f.scale)
  IN  IF f.raw_storage THEN StoreC(f, SignExtend(w, WORD) + min)
      ELSE f.scale *
           IF ~IsSigned(f)          THEN StoreC(f, ToWord(w \div f.scale + units))
           ELSE IF Present(f.min)   THEN StoreC(f, TruncDiv(SignExtend(w, WORD), f.scale) + units)
           ELSE StoreC(f, TruncDiv(SignExtend(w, bits), f.scale))

\* plain: the field is neither an array element nor optional nor a variant. The
\* templates repeat the expression for plain fields without the parentheses of
\* the leaf macro, and the method call binds before the division.
DecodeRS(f, plain, w) ==
  LET min == IF Present(f.min) THEN Value(f.min) ELSE 0
      units == TruncDiv(min, f.scale)
      signed == SignExtend(w, WORD)
  IN  CASE IsFloat(f)                      -> w + min
        [] ~IsFloat(f) /\ f.raw_storage    -> IF IsSigned(f) THEN signed + min ELSE ToWord(w + min)
        [] IsSigned(f) /\ ~f.raw_storage   -> f.scale * (TruncDiv(signed, f.scale) + units)
        [] IsInt(f) /\ ~IsSigned(f) /\ ~f.raw_storage ->
             f.scale * IF plain /\ f.scale # 1 /\ min # 0
                       THEN w \div ToWord(f.scale + units)
                       ELSE ToWord(w \div f.scale + units)

\* TypeScript numbers are physical values and keep fractions of a unit
DecodeTS(f, w) == w + IF Present(f.min) THEN Value(f.min) ELSE 0

DecodeAligned(t, f, w) ==
  LET x == IF IsSigned(f) THEN SignExtend(w, TypeBits(f)) ELSE w
  IN  IF t = "TS" \/ f.raw_storage THEN x ELSE f.scale * TruncDiv(x, f.scale)

\* A decoded float lies on a step
DecodeNumber(t, f, packed, plain, bits, w) ==
  (IF IsFloat(f) THEN FINE ELSE 1) *
  CASE ~packed           -> DecodeAligned(t, f, w)
    [] packed /\ t = "C"  -> DecodeC(f, bits, w)
    [] packed /\ t = "RS" -> DecodeRS(f, plain, w)
    [] packed /\ t = "TS" -> DecodeTS(f, w)

-----------------------------------------------------------------------------
\* Structs and unions

\* Fixed length, NUL-padded
EncodeString(off, str) ==
  UNION {PackBits(off + (i - 1) * BYTE, BYTE, str[i]) : i \in DOMAIN str}

\* Up to the first NUL or the full length
DecodeString(wire, off, length) ==
  LET byte(i) == UnpackBits(wire, off + (i - 1) * BYTE, BYTE)
      n == Max({k \in 0..length : \A i \in 1..k : byte(i) # 0})
  IN  [i \in 1..n |-> byte(i)]

RECURSIVE Encode(_, _, _, _, _)
EncodeElem(t, s, packed, f, off, v) ==
  LET bits == ElemBits(s, TotalBits(s), packed, f)
  IN  CASE IsNested(s, f)     -> Encode(t, s, f.type, off, v)
        [] f.type = "string" -> EncodeString(off, v)
        [] f.type = "bool"   -> PackBits(off, bits, IF v THEN 1 ELSE 0)
        [] IsEnum(s, f)      -> PackBits(off, bits, EncodeEnum(t, s.enums[f.type], packed, v))
        [] IsNumeric(f)      -> PackBits(off, bits, EncodeNumber(t, f, packed, v))

EncodeField(t, s, packed, f, off, v) ==
  LET bits == ElemBits(s, TotalBits(s), packed, f)
  IN  CASE Present(f.count) ->
             UNION {EncodeElem(t, s, packed, f, off + (i - 1) * bits, v[i]) : i \in DOMAIN v}
        [] f.optional ->
             IF v = {} THEN {}
             ELSE {off} \cup EncodeElem(t, s, packed, f, off + FlagBits(packed, f), Value(v))
        [] OTHER -> EncodeElem(t, s, packed, f, off, v)

\* The discriminant, then the payload of the variant it names
EncodeUnion(t, s, u, base, v) ==
  PackBits(base, TagBits(u), v[1])
  \cup EncodeElem(t, s, u.packed, u.fields[v[1] + 1], base + TagBits(u), v[2])

\* The bits that encoding v as type n at bit offset base sets
Encode(t, s, n, base, v) ==
  LET type == s.types[n]
  IN  IF type.union THEN EncodeUnion(t, s, type, base, v)
      ELSE UNION {EncodeField(t, s, type.packed, type.fields[i],
                              base + Offset(s, TotalBits(s), type, i), v[i]) :
                    i \in DOMAIN type.fields}

RECURSIVE Decode(_, _, _, _, _)
DecodeElem(t, s, packed, f, plain, off, wire) ==
  LET bits == ElemBits(s, TotalBits(s), packed, f)
      w == UnpackBits(wire, off, bits)
  IN  CASE IsNested(s, f)     -> Decode(t, s, f.type, off, wire)
        [] f.type = "string" -> DecodeString(wire, off, f.max_length)
        [] f.type = "bool"   -> w # 0
        [] IsEnum(s, f)      -> DecodeEnum(t, s.enums[f.type], packed, w)
        [] IsNumeric(f)      -> DecodeNumber(t, f, packed, plain, bits, w)

DecodeField(t, s, packed, f, off, wire) ==
  LET bits == ElemBits(s, TotalBits(s), packed, f)
  IN  CASE Present(f.count) ->
             [i \in 1..Count(f) |->
                DecodeElem(t, s, packed, f, FALSE, off + (i - 1) * bits, wire)]
        [] f.optional ->
             IF UnpackBits(wire, off, FlagBits(packed, f)) = 0 THEN {}
             ELSE {DecodeElem(t, s, packed, f, FALSE, off + FlagBits(packed, f), wire)}
        [] OTHER -> DecodeElem(t, s, packed, f, TRUE, off, wire)

\* No encoder writes a tag without a variant; C would leave the payload zero,
\* Rust take the first variant and TypeScript throw.
DecodeUnion(t, s, u, base, wire) ==
  LET tag == UnpackBits(wire, base, TagBits(u))
  IN  <<tag, IF tag >= Len(u.fields) THEN Invalid
             ELSE DecodeElem(t, s, u.packed, u.fields[tag + 1], FALSE,
                             base + TagBits(u), wire)>>

\* What type n at bit offset base decodes to
Decode(t, s, n, base, wire) ==
  LET type == s.types[n]
  IN  IF type.union THEN DecodeUnion(t, s, type, base, wire)
      ELSE [i \in DOMAIN type.fields |->
              DecodeField(t, s, type.packed, type.fields[i],
                          base + Offset(s, TotalBits(s), type, i), wire)]
=============================================================================
