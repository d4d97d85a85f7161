----------------------------- MODULE Toolchain ------------------------------
(***************************************************************************)
(* From a schema to a value on the other side: the compiler accepts or     *)
(* refuses a schema; two programs generated from it, each in one of the    *)
(* three languages, exchange a reply. The host asks for a message with its *)
(* command, the device finds the message in the table of the frame kind,   *)
(* encodes the response, and the host's typed facade finds the payload     *)
(* type again from the command alone and decodes.                          *)
(***************************************************************************)
EXTENDS Codec, Relation

CONSTANT Schemas        \* the schemas given to the compiler

VARIABLES
  schema,     \* the schema
  stage,      \* "source", "refused", "built", "replied", "decoded"
  order,      \* the order in which the types are emitted
  reply,      \* the reply on the wire: [asked, served, sender, value, wire]
  result      \* what the host made of it: [message, receiver, value]

vars == <<schema, stage, order, reply, result>>

NoReply == [asked |-> 0]
NoResult == [message |-> 0]

Init ==
  /\ schema \in Schemas
  /\ stage = "source"
  /\ order = <<>>
  /\ reply = NoReply
  /\ result = NoResult

-----------------------------------------------------------------------------
\* The values an application may put into a field: those the declared limits
\* allow or, without limits, those that the field has room for

InUnits(f) == IsInt(f) /\ ~f.raw_storage

\* Floats in parts of a step, on and off the steps
NumberValues(f, bits) ==
  LET part == IF IsFloat(f) THEN FINE ELSE 1
      low == IF Present(f.min) THEN Value(f.min)
             ELSE IF IsSigned(f) THEN -(2^(bits - 1)) ELSE 0
      high == IF Present(f.max) THEN Value(f.max)
              ELSE IF IsSigned(f) THEN 2^(bits - 1) - 1 ELSE 2^bits - 1
  IN  {v \in (part * low)..(part * high) : InUnits(f) => v % f.scale = 0}

RECURSIVE Values(_, _)
ElemValues(s, packed, f) ==
  CASE IsNested(s, f)     -> Values(s, f.type)
    [] f.type = "string" -> UNION {[1..n -> {1, 2^BYTE - 1}] : n \in 0..f.max_length}
    [] f.type = "bool"   -> BOOLEAN
    [] IsEnum(s, f)      -> 0..(Len(s.enums[f.type].values) - 1)
    [] IsNumeric(f)      -> NumberValues(f, ElemBits(s, TotalBits(s), packed, f))

FieldValues(s, packed, f) ==
  CASE Present(f.count) -> [1..Count(f) -> ElemValues(s, packed, f)]
    [] f.optional       -> {{}} \cup {{v} : v \in ElemValues(s, packed, f)}
    [] OTHER            -> ElemValues(s, packed, f)

Values(s, n) ==
  LET t == s.types[n]
  IN  IF t.union
      THEN UNION {{<<i - 1, v>> : v \in ElemValues(s, t.packed, t.fields[i])} :
                    i \in DOMAIN t.fields}
      ELSE FoldLeft(LAMBDA sofar, f : {Append(x, v) : x \in sofar,
                                                      v \in FieldValues(s, t.packed, f)},
                    {<<>>}, t.fields)

-----------------------------------------------------------------------------
Build ==
  /\ stage = "source"
  /\ Accepted(schema)
  /\ stage' = "built"
  /\ order' = TopoSort(schema).order
  /\ UNCHANGED <<schema, reply, result>>

Refuse ==
  /\ stage = "source"
  /\ ~Accepted(schema)
  /\ stage' = "refused"
  /\ UNCHANGED <<schema, order, reply, result>>

Reply(asked, t) ==
  LET m == schema.messages[asked]
      served == Dispatch(schema, CommandFrame(m), m.command_id)
      type == Value(schema.messages[served].response)
  IN  /\ stage = "built" /\ RepliesWithData(schema.messages[served])
      /\ stage' = "replied"
      /\ \E v \in Values(schema, type) :
           reply' = [asked |-> asked, served |-> served, sender |-> t, value |-> v,
                     wire |-> Encode(t, schema, type, 0, v)]
      /\ UNCHANGED <<schema, order, result>>

Receive(t) ==
  LET message == DecodeData(schema, schema.messages[reply.asked].command_id)
      type == Value(schema.messages[message].response)
  IN  /\ stage = "replied"
      /\ stage' = "decoded"
      /\ result' = [message |-> message, receiver |-> t,
                    value |-> Decode(t, schema, type, 0, reply.wire)]
      /\ UNCHANGED <<schema, order, reply>>

Next ==
  \/ Build
  \/ Refuse
  \/ \E asked \in DataMessages(schema), t \in Targets : Reply(asked, t)
  \/ \E t \in Targets : Receive(t)

Spec == Init /\ [][Next]_vars

-----------------------------------------------------------------------------
\* The fields of the types reachable from n, with what decides their encoding:
\* the encoding of the struct and whether the field stands alone

Places(s) ==
  UNION {{[packed |-> s.types[n].packed, field |-> s.types[n].fields[i],
           plain |-> /\ ~s.types[n].union
                     /\ ~s.types[n].fields[i].optional
                     /\ ~Present(s.types[n].fields[i].count)] :
            i \in DOMAIN s.types[n].fields} : n \in DOMAIN s.types}

\* The fields that languages a and b are expected to send as the same bits. What
\* is left out are defects of the compiler and of the templates:
\*  - Rust writes the index of a remap enum into an aligned struct, C and
\*    TypeScript the value;
\*  - C and Rust truncate a float to a step, TypeScript rounds it;
\*  - C truncates the minimum of a float to a whole number, C and Rust that of
\*    an integer, TypeScript neither;
\*  - limits are compared with the type in units, while a raw_storage field
\*    holds steps and may overflow in C (generate.py:640).
EncodesAlike(s, p, a, b) ==
  LET f == p.field
      bits == ElemBits(s, TotalBits(s), p.packed, f)
      wholeMin == Present(f.min) => Value(f.min) % f.scale = 0
  IN  /\ IsEnum(s, f) /\ ~p.packed /\ s.enums[f.type].remap => (a = "RS") = (b = "RS")
      /\ IsFloat(f) => /\ (a = "TS") = (b = "TS")
                       /\ (a = "C") # (b = "C") => wholeMin
      /\ p.packed /\ InUnits(f) /\ (a = "TS") # (b = "TS") => wholeMin
      /\ p.packed /\ f.raw_storage /\ (a = "C") # (b = "C") =>
           \A v \in NumberValues(f, bits) : StoreC(f, v) = v

\* The combinations of field, sender a and receiver b for which the generated
\* code is expected to carry every value. Left out are
\*  - the minima and the enums that are not encoded alike, as above;
\*  - fields whose range was compared with the whole field, flag and array
\*    elements included, so that an element may be too narrow (generate.py:693);
\*  - raw_storage and aligned fields whose steps overflow the type;
\*  - signed fields without a minimum, whose sign Rust and TypeScript do not
\*    restore, nor C for a raw one;
\*  - plain unsigned fields in Rust, which divides by scale + minimum;
\*  - floats in C, which divides them as integers.
Sound(s, p, a, b) ==
  LET f == p.field
      bits == ElemBits(s, TotalBits(s), p.packed, f)
      wholeMin == Present(f.min) => Value(f.min) % f.scale = 0
  IN  /\ IsEnum(s, f) /\ ~p.packed /\ s.enums[f.type].remap => (a = "RS") = (b = "RS")
      /\ IsNumeric(f) =>
           /\ p.packed /\ HasRange(f) => NeededBits(f) <= bits
           /\ ~p.packed \/ f.raw_storage =>
                \A v \in NumberValues(f, bits) : StoreC(f, v) = v
           /\ p.packed /\ IsSigned(f) /\ ~Present(f.min) =>
                \/ b = "C" /\ (f.raw_storage => bits = TypeBits(f))
                \/ b = "RS" /\ bits = WORD
           /\ b = "RS" /\ p.packed /\ p.plain /\ InUnits(f) /\ ~IsSigned(f) =>
                f.scale = 1 \/ f.min \in {{}, {0}}
           /\ p.packed /\ InUnits(f) /\ (a = "TS") # (b = "TS") => wholeMin
           /\ IsFloat(f) => b # "C" /\ (a = "C" => wholeMin)

Everywhere(Holds(_, _, _, _), a, b) == \A p \in Places(schema) : Holds(schema, p, a, b)

-----------------------------------------------------------------------------
\* The value w that came out agrees with the value v that language t sent: they
\* are equal, but for floats, which come out on a step. C and Rust send the step
\* at or below the value, TypeScript one that is nearest to it.

AgreeFloat(t, v, w) ==
  IF t = "TS" THEN 2 * (v - w) \in (-FINE)..FINE ELSE v - w \in 0..(FINE - 1)

RECURSIVE Agree(_, _, _, _, _)
AgreeElem(t, s, f, v, w) ==
  CASE IsNested(s, f) -> Agree(t, s, f.type, v, w)
    [] IsFloat(f)     -> AgreeFloat(t, v, w)
    [] OTHER          -> v = w

AgreeField(t, s, f, v, w) ==
  CASE Present(f.count) -> \A i \in 1..Count(f) : AgreeElem(t, s, f, v[i], w[i])
    [] f.optional       -> /\ Present(v) = Present(w)
                           /\ Present(v) => AgreeElem(t, s, f, Value(v), Value(w))
    [] OTHER            -> AgreeElem(t, s, f, v, w)

Agree(t, s, n, v, w) ==
  LET type == s.types[n]
  IN  IF type.union THEN v[1] = w[1] /\ AgreeElem(t, s, type.fields[v[1] + 1], v[2], w[2])
      ELSE \A i \in DOMAIN type.fields : AgreeField(t, s, type.fields[i], v[i], w[i])

-----------------------------------------------------------------------------
\* topo_sort_types emits every type of an accepted schema once, after all types
\* it contains, and only raises for schemas whose types really contain one
\* another in a cycle.
DependencyOrder ==
  LET types == DOMAIN schema.types
      uses == [x, y \in types |-> y \in Range(References(schema, x))]
      cyclic == \E x \in types : TransitiveClosure(uses, types)[x, x]
  IN  /\ stage \in {"built", "refused"} => TopoSort(schema).cycle = cyclic
      /\ stage = "built" =>
           /\ Len(order) = Cardinality(types) /\ Range(order) = types
           /\ \A i, j \in DOMAIN order : uses[order[i], order[j]] => j < i

ReplyType == Value(schema.messages[reply.served].response)

\* No encoder of an accepted schema touches a bit outside the WIRE_SIZE bytes
\* of its buffer, whatever nesting, arrays, flags and unions it combines.
WithinBuffer ==
  stage = "replied" =>
    reply.wire \subseteq
      0..(BYTE * WireSize(schema, ReplyType) - 1)

\* Two languages produce the same bytes for the same value, all three for a
\* schema without the fields that EncodesAlike leaves out.
SameWire ==
  stage = "replied" =>
    \A t \in Targets :
      Everywhere(EncodesAlike, reply.sender, t) =>
        reply.wire = Encode(t, schema, ReplyType, 0, reply.value)

\* A reply reaches the handler and the payload type of the message that was
\* asked for, although READ and WRITE frames share command numbers and a DATA
\* frame names only the command.
RightMessage ==
  /\ stage = "replied" => reply.served = reply.asked
  /\ stage = "decoded" => result.message = reply.asked

\* Whatever language encodes and whatever language decodes, the value that
\* comes out is the value that went in, a float to within a step.
ValueSurvives ==
  stage = "decoded" /\ Everywhere(Sound, reply.sender, result.receiver) =>
    Agree(reply.sender, schema, ReplyType, reply.value, result.value)

\* The same without the exceptions: what the README says of every schema,
\* "matching encode/decode code for C, TypeScript, and Rust".
EveryValueSurvives ==
  stage = "decoded" => Agree(reply.sender, schema, ReplyType, reply.value, result.value)
=============================================================================
