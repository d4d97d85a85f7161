---------------------------- MODULE MCToolchain -----------------------------
(* Toolchain with bytes of four bits: an int8 holds -8..7, an int16         *)
(* -128..127 and a word has sixteen bits.                                   *)
EXTENDS Toolchain

F(type) ==
  [type |-> type, min |-> {}, max |-> {}, scale |-> 1, bits |-> {},
   raw_storage |-> FALSE, count |-> {}, optional |-> FALSE, max_length |-> 2]
Optional(f) == [f EXCEPT !.optional = TRUE]
Array(f) == [f EXCEPT !.count = {2}]
Bits(f, n) == [f EXCEPT !.bits = {n}]
Raw(f) == [f EXCEPT !.raw_storage = TRUE]
Scaled(f, scale) == [f EXCEPT !.scale = scale]
\* Limits in units
Limits(f, low, high) == [f EXCEPT !.min = {low * f.scale}, !.max = {high * f.scale}]

Struct(packed, fields) == [union |-> FALSE, packed |-> packed, fields |-> fields]
Union(packed, variants) == [union |-> TRUE, packed |-> packed, fields |-> variants]
Read(command, type) ==
  [command_id |-> {command}, request |-> {}, response |-> {type}, period_ms |-> {},
   command_frame |-> {}]

\* A plain enum, a dense and a sparse remap enum, none with 2^n variants
MCEnums ==
  "Mode" :> [remap |-> FALSE, remap_style |-> {}, values |-> <<0, 1, 2>>]
  @@ "Fan" :> [remap |-> TRUE, remap_style |-> {}, values |-> <<0, 9, 1, 2, 4, 12>>]
  @@ "GCode" :> [remap |-> TRUE, remap_style |-> {}, values |-> <<3, 0, 13, 5, 8>>]

Of(names, types, messages) ==
  [names |-> names, types |-> types, enums |-> MCEnums, messages |-> messages]

\* One field of each sort, behind a bit that keeps it off the byte boundary
Limited(f) ==
  IF IsSigned(f) THEN {Limits(f, -3, 2), Limits(f, 1, 2)}
  ELSE {Limits(f, 0, 5), Limits(f, 2, 6)}
Numbers ==
  LET types == {"int8", "uint8", "int16", "uint16"}
      scaled == {Scaled(F(t), k) : t \in types, k \in {1, 3}}
      limited == UNION {Limited(f) : f \in scaled}
  IN  UNION {{f, Raw(f)} : f \in limited \cup {F("int8"), Scaled(F("uint8"), 3)}}
      \cup {Bits(f, n) : f \in limited \cup {F("int8")}, n \in {2, 3}}
      \cup {[Scaled(F(t), 3) EXCEPT !.min = {-7}, !.max = {6}] : t \in {"int8", "int16"}}
      \cup {[Scaled(F("float"), 3) EXCEPT !.min = {low}, !.max = {7}] : low \in {-6, -5, 0, 2}}
Scalars == Numbers \cup {F("bool"), F("Mode"), F("Fan"), F("GCode")}
FieldSchemas ==
  LET fields(packed) ==
        LET scalars == {f \in Scalars : IsFloat(f) => packed}
        IN  scalars \cup {Optional(g) : g \in scalars} \cup {Array(g) : g \in scalars}
            \cup {f \in {F("string")} : ~packed}
  IN  {Of(<<"P">>, "P" :> Struct(packed, <<F("bool"), f>>), <<Read(0, "P")>>) :
         <<packed, f>> \in UNION {{p} \X fields(p) : p \in BOOLEAN}}

\* Nested structs, unions and arrays of structs
MCTypes(packed) ==
  "Reading" :> Struct(packed, <<Limits(Scaled(F("int16"), 2), -3, 2), F("Mode")>>)
  @@ "Zone" :> Struct(packed, <<F("bool"), Array(F("Reading")), Optional(F("Sample"))>>)
  @@ "Packet" :> Struct(packed, <<Limits(F("uint8"), 0, 2), Optional(F("Reading")), F("Sample")>>)
  @@ "Sample" :> Union(packed, <<F("bool"), Limits(F("uint8"), 1, 3), F("Mode")>>)
NestedSchemas ==
  {Of(<<"Packet", "Zone", "Reading", "Sample">>, MCTypes(packed),
      <<Read(0, "Packet"), Read(1, "Zone")>>) : packed \in BOOLEAN}
  \cup {Of(<<"P", "Q">>, "P" :> Struct(TRUE, <<F("Q")>>) @@ "Q" :> Struct(FALSE, <<F("bool")>>),
           <<Read(0, "P")>>),
        Of(<<"U">>, "U" :> Union(TRUE, <<F("string")>>), <<>>)}

\* Every way three structs can contain one another
GraphSchemas ==
  LET names == {"A", "B", "C"}
      refs == SUBSET names
  IN  {Of(<<"A", "B", "C">>,
          [n \in names |-> Struct(TRUE, SetToSeq({F(m) : m \in uses[n]}))], <<>>) :
         uses \in [names -> refs]}

\* Pairs of messages of every form
Messages ==
  [command_id : {{}, {0}, {1}}, request : {{}, {"P"}}, response : {{}, {"P"}},
   period_ms : {{}, {5}}, command_frame : {{}, {"write"}}]
MessageSchemas ==
  {Of(<<"P">>, "P" :> Struct(TRUE, <<F("bool")>>), <<m1, m2>>) :
     m1 \in Messages, m2 \in Messages}

MCSchemas == FieldSchemas \cup NestedSchemas \cup GraphSchemas \cup MessageSchemas

\* A remap enum in an aligned struct
MCAlignedEnum == {Of(<<"P">>, "P" :> Struct(FALSE, <<F("Fan")>>), <<Read(0, "P")>>)}
=============================================================================
