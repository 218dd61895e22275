------------------------------- MODULE MCIibin -------------------------------
(***************************************************************************)
(* IibinCodec with 3-bit varint groups, 8-bit "uint32_t" and 16-bit        *)
(* "uint64_t": schema m is any of the definitions, n a reader's schema, e  *)
(* an enum.                                                                *)
(***************************************************************************)
EXTENDS IibinCodec

Opt(name, tag, type) ==
    [name |-> name, tag |-> tag, type |-> type, repeated |-> FALSE, required |-> FALSE,
     packed |-> TRUE, default |-> Undef]
Rep(name, tag, type, packed) == [Opt(name, tag, type) EXCEPT !.repeated = TRUE, !.packed = packed]

a(type) == Opt("a", 1, type)
writers ==
    {<<a(type)>> : type \in Primitives}
    \cup {<<Rep("a", 1, type, TRUE)>> : type \in (Primitives \ Texts) \cup {"e"}}
    \cup {<<Rep("a", 1, type, FALSE)>> : type \in {"sint32", "fixed64", "string"}}
    \cup {<<Rep("b", 2, "int32", TRUE), a(type)>> : type \in {"int32", "double", "e", "string"}}
    \cup {<<a("n")>>, <<a("e")>>, <<a("bo")>>, <<a("m")>>, <<Opt("a", 0, "bool")>>,
          <<Opt("a", 32, "int32")>>, <<Opt("a", 256, "int32")>>, <<a("bool"), Opt("b", 257, "bool")>>,
          <<[a("int32") EXCEPT !.required = TRUE], [Opt("b", 16, "uint64") EXCEPT !.default = <<"long", 5>>]>>,
          <<[a("e") EXCEPT !.default = <<"string", "RED">>]>>,
          <<[a("e") EXCEPT !.default = <<"string", "?">>]>>}

readers == {<<a("int32")>>, <<Opt("b", 16, "uint64")>>, <<Rep("b", 2, "int32", TRUE)>>, <<>>}

schema_def(name) == CASE name = "m" -> writers [] name = "n" -> readers [] OTHER -> {}
enum_def(name) ==
    IF name = "e" THEN {<<<<"RED", -1>>, <<"BLUE", 255>>>>, <<<<"RED", -1>>, <<"BLUE", 2>>>>} ELSE {}
abbreviates == [x \in {"bo"} |-> "bool"]

Longs == {<<"long", n>> : n \in {0, 8, 127, 128, 256, 32767, -1, -129, -32768}}
Doubles == {<<"double", d>> : d \in {0, 256, 65535}} \cup {<<"long", -1>>}

(* A stand-in for the format: small numbers fit a float, and no pattern is *)
(* its number.                                                             *)
double_bits(n) == (n % 2^(Wide - Narrow)) * 2^(Wide - Narrow)
Values(type) ==
    CASE type = "bool" -> {<<"bool", TRUE>>, <<"bool", FALSE>>, <<"long", 1>>}
      [] type \in {"float", "double"} -> Doubles
      [] type \in Texts -> {<<"string", <<>>>>, <<"string", <<1, 15>>>>}
      [] type = "message" -> {<<"message", [x \in {"a"} |-> <<"long", 8>>]>>}
      [] type = "enum" -> {<<"string", "RED">>, <<"string", "?">>, <<"long", 2>>}
      [] OTHER -> Longs
Few(type) ==
    CASE type = "float" -> {<<"long", -1>>}
      [] type = "double" -> {<<"double", 257>>}
      [] type \in Texts -> {<<"string", <<9>>>>}
      [] type = "enum" -> {<<"long", -1>>}
      [] type = "bool" -> {<<"bool", TRUE>>}
      [] OTHER -> {<<"long", -1>>, <<"long", 8>>}

FieldValues(field, many) ==
    IF field.repeated
    THEN {<<"array", <<>>>>} \cup {<<"array", <<v, w>>>> : v, w \in Few(field.type)}
         \cup {<<"array", <<v>>>> : v \in Few(field.type)}
    ELSE IF many THEN Values(field.type) ELSE Few(field.type)

payload(schema) ==
    LET many == Cardinality(schema.by_tag) = 1
        names == {field.name : field \in schema.by_tag}
        values(name) == FieldValues(CHOOSE field \in schema.by_tag : field.name = name, many)
    IN  UNION {{f \in [D -> UNION {values(d) : d \in D}] : \A d \in D : f[d] \in values(d)} : D \in SUBSET names}

==============================================================================
