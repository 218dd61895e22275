----------------------------- MODULE IibinCodec -----------------------------
(***************************************************************************)
(* The IIBIN wire format: quicpro_iibin_encode and quicpro_iibin_decode    *)
(* over the compiled schemas of IibinRegistry, with a channel that may cut *)
(* the bytes short between them.                                           *)
(*                                                                         *)
(* Widths are parameters: a varint byte carries Group bits (7 in the code) *)
(* and a continuation bit, uint32_t has Narrow bits and uint64_t Wide.     *)
(* PHP values are <<"long", n>>, <<"bool", b>>, <<"double", bits>>,        *)
(* <<"string", bytes>>, <<"array", sequence>> and <<"message", [field ->   *)
(* value]>>.  A double is its bit pattern; a float keeps the high bits.    *)
(* Dangling is an array whose memory was given back.                       *)
(***************************************************************************)
EXTENDS IibinRegistry, FiniteSetsExt

CONSTANTS
    Group, Wide,
    DoubleBits(_),   \* the bit pattern of (double)n for a long n
    Payload(_)   \* PHP arrays given to encode for a schema: functions [field name -> value]

ASSUME WidthAssumption == /\ Group \in Nat \ {0} /\ Wide \in Nat /\ Narrow < Wide
                          /\ Narrow % (Group + 1) = 0 /\ Wide % (Group + 1) = 0

ByteBits == Group + 1
MaxBytes == (Wide + Group - 1) \div Group

U32(n) == n % 2^Narrow
U64(n) == n % 2^Wide
Signed(u, w) == IF u < 2^(w - 1) THEN u ELSE u - 2^w
S32(n) == Signed(U32(n), Narrow)
S64(n) == Signed(U64(n), Wide)

(* Results: bytes or EncodeFails; a record with a position.  A decoding    *)
(* that writes into released memory has no result to speak of.             *)
EncodeFails == <<-1>>
DecodeFails == [ok |-> FALSE]
DecodeCorrupts == [ok |-> FALSE, corrupt |-> TRUE]
Dangling == <<"dangling">>

------------------------------------------------------------------------------
(* Varints, fixed-width integers and zigzag (iibin_internal.h). *)

encode_varint[value \in Nat] ==
    IF value < 2^Group THEN <<value>>
    ELSE <<(value % 2^Group) + 2^Group>> \o encode_varint[value \div 2^Group]

(* Mutant: a varint that runs into the end of the buffer is complete. *)
decode_varint_Mutant(buf, ptr, end) ==
    LET stops == {i \in 0..MaxBytes - 1 : ptr + i < end /\ (buf[ptr + i] < 2^Group \/ ptr + i = end - 1)}
        last == Min(stops)
        part(i) == (buf[ptr + i] % 2^Group) * 2^(Group * i)
    IN  IF stops = {} THEN DecodeFails
        ELSE [ok |-> TRUE, value |-> U64(MapThenSumSet(part, 0..last)), ptr |-> ptr + last + 1]

(* At most MaxBytes bytes; bits beyond the word are shifted out. *)
decode_varint(buf, ptr, end) ==
    LET stops == {i \in 0..MaxBytes - 1 : ptr + i < end /\ buf[ptr + i] < 2^Group}
        last == Min(stops)
        part(i) == (buf[ptr + i] % 2^Group) * 2^(Group * i)
    IN  IF stops = {} THEN DecodeFails
        ELSE [ok |-> TRUE, value |-> U64(MapThenSumSet(part, 0..last)), ptr |-> ptr + last + 1]

encode_fixed(value, width) ==
    [i \in 1..width \div ByteBits |-> (value \div 2^(ByteBits * (i - 1))) % 2^ByteBits]

decode_fixed(buf, ptr, end, width) ==
    LET n == width \div ByteBits
        part(i) == buf[ptr + i] * 2^(ByteBits * i)
    IN  IF ptr + n > end THEN DecodeFails
        ELSE [ok |-> TRUE, value |-> MapThenSumSet(part, 0..n - 1), ptr |-> ptr + n]

(* Mutant: the sign is restored by negation only. *)
zigzag_decode_Mutant(u, width) == IF u % 2 = 0 THEN u \div 2 ELSE -(u \div 2)

(* (n << 1) ^ (n >> 31) and its inverse. *)
zigzag_encode(n, width) == IF n >= 0 THEN 2 * n ELSE -2 * n - 1
zigzag_decode(u, width) == IF u % 2 = 0 THEN u \div 2 ELSE -(u \div 2) - 1

------------------------------------------------------------------------------
(* Encoding. *)

(* zval_get_double and zval_get_long; text that is no number gives 0. *)
AsDouble(value) ==
    CASE value[1] = "double" -> value[2]
      [] value[1] = "long" -> DoubleBits(value[2])
      [] OTHER -> DoubleBits(IF value = <<"bool", TRUE>> THEN 1 ELSE 0)
AsLong(value) ==
    CASE value[1] = "bool" -> IF value[2] THEN 1 ELSE 0
      [] value[1] = "long" -> value[2]
      [] OTHER -> 0

(* The bytes of a scalar, without tag. *)
Scalar(type, value) ==
    CASE type \in {"int32", "int64", "uint32", "uint64", "bool", "enum"} -> encode_varint[U64(AsLong(value))]
      [] type = "sint32" -> encode_varint[zigzag_encode(S32(AsLong(value)), Narrow)]
      [] type = "sint64" -> encode_varint[zigzag_encode(AsLong(value), Wide)]
      [] type \in {"fixed32", "sfixed32"} -> encode_fixed(U32(AsLong(value)), Narrow)
      [] type \in {"fixed64", "sfixed64"} -> encode_fixed(U64(AsLong(value)), Wide)
      [] type = "float" -> encode_fixed(AsDouble(value) \div 2^(Wide - Narrow), Narrow)
      [] type = "double" -> encode_fixed(AsDouble(value), Wide)

(* The strict type test; an enum also takes the name of a value. *)
TypeAccepts(field, value) ==
    CASE field.type = "bool" -> value[1] = "bool"
      [] field.type \in {"float", "double"} -> value[1] \in {"double", "long"}
      [] field.type \in Texts -> value[1] = "string"
      [] field.type = "message" -> value[1] = "message"
      [] field.type = "enum" -> \/ value[1] = "long"
                                \/ value[1] = "string" /\ value[2] \in DOMAIN enums[field.ref]
      [] OTHER -> value[1] = "long"

(* An enum value as the int32_t the encoder works with. *)
EnumNumber(field, value) ==
    <<"long", IF value[1] = "string" THEN enums[field.ref][value[2]] ELSE S32(value[2])>>

Key(field, wire_type) == encode_varint[U32(field.tag * 8) + wire_type]
Delimited(bytes) == encode_varint[Len(bytes)] \o bytes

RECURSIVE encode_message_internal(_, _)

encode_single_field_value(field, value) ==
    IF ~TypeAccepts(field, value) THEN EncodeFails
    ELSE CASE field.type \in Texts -> Key(field, field.wire_type) \o Delimited(value[2])
           [] field.type = "message" ->
                LET nested == encode_message_internal(schemas[field.ref], value[2])
                IN  IF nested = EncodeFails THEN EncodeFails ELSE Key(field, field.wire_type) \o Delimited(nested)
           [] field.type = "enum" ->
                Key(field, field.wire_type) \o Scalar("enum", EnumNumber(field, value))
           [] OTHER -> Key(field, field.wire_type) \o Scalar(field.type, value)

RECURSIVE Concat(_)
Concat(parts) ==
    IF parts = <<>> THEN <<>>
    ELSE IF Head(parts) = EncodeFails \/ Concat(Tail(parts)) = EncodeFails THEN EncodeFails
    ELSE Head(parts) \o Concat(Tail(parts))

(* Items are converted, never refused. *)
encode_packed_repeated_field(field, items) ==
    Key(field, LENGTH_DELIM) \o Delimited(Concat([i \in DOMAIN items |-> Scalar(field.type, items[i])]))

encode_field_internal(field, data) ==
    IF field.name \notin DOMAIN data THEN IF field.required THEN EncodeFails ELSE <<>>
    ELSE LET value == data[field.name]
         IN  IF ~field.repeated THEN encode_single_field_value(field, value)
             ELSE IF value[1] # "array" THEN EncodeFails
             ELSE IF value[2] = <<>> THEN <<>>
             ELSE IF field.packed THEN encode_packed_repeated_field(field, value[2])
             ELSE Concat([i \in DOMAIN value[2] |-> encode_single_field_value(field, value[2][i])])

encode_message_internal(schema, data) ==
    Concat([i \in DOMAIN schema.ordered |-> encode_field_internal(schema.ordered[i], data)])

------------------------------------------------------------------------------
(* Decoding. *)

(* PHP's value of a scalar read from the wire. *)
FromWire(type, u) ==
    CASE type \in {"int32", "enum"} -> <<"long", S32(u)>>
      [] type = "sint32" -> <<"long", zigzag_decode(U32(u), Narrow)>>
      [] type = "sint64" -> <<"long", zigzag_decode(u, Wide)>>
      [] type \in {"int64", "uint32", "uint64", "fixed64", "sfixed64"} -> <<"long", S64(u)>>
      [] type = "bool" -> <<"bool", u # 0>>
      [] type = "fixed32" -> <<"long", u>>
      [] type = "sfixed32" -> <<"long", S32(u)>>
      [] type = "float" -> <<"double", u * 2^(Wide - Narrow)>>
      [] type = "double" -> <<"double", u>>

(* The bound of a length-delimited value is compared with *buf_end, the    *)
(* byte at the end of the buffer, instead of buf_end: an address always    *)
(* exceeds it.                                                             *)
ExceedsBuffer(ptr, len, end) == TRUE

(* What follows a read that succeeded; a failed one fails the decoding. *)
Then(read, next(_)) == IF read.ok THEN next(read) ELSE read

ReadRaw(buf, ptr, end, type) ==
    IF type \in Fixed32s THEN decode_fixed(buf, ptr, end, Narrow)
    ELSE IF type \in Fixed64s THEN decode_fixed(buf, ptr, end, Wide)
    ELSE decode_varint(buf, ptr, end)

decode_value_to_zval(buf, ptr, end, field, wire_type) ==
    LET converted(read) ==
            IF field.type \notin Texts \cup {"message"}
            THEN [ok |-> TRUE, value |-> FromWire(field.type, read.value), ptr |-> read.ptr]
            ELSE IF ExceedsBuffer(read.ptr, read.value, end) THEN DecodeFails
            ELSE [ok |-> TRUE, ptr |-> read.ptr + read.value,
                  value |-> <<"string", SubSeq(buf, read.ptr, read.ptr + read.value - 1)>>]
    IN  IF wire_type # field.wire_type /\ ~field.packed THEN DecodeFails
        ELSE Then(ReadRaw(buf, ptr, end, field.type), converted)

(* Mutant: 64-bit fields are skipped like 32-bit ones. *)
skip_field_Mutant(buf, ptr, end, wire_type) ==
    LET over(n) == IF n > end THEN DecodeFails ELSE [ok |-> TRUE, ptr |-> n]
        block(len) == over(len.ptr + len.value)
    IN  CASE wire_type = VARINT -> decode_varint(buf, ptr, end)
          [] wire_type \in {FIXED32, FIXED64} -> over(ptr + Narrow \div ByteBits)
          [] wire_type = LENGTH_DELIM -> Then(decode_varint(buf, ptr, end), block)
          [] OTHER -> DecodeFails

skip_field(buf, ptr, end, wire_type) ==
    LET over(n) == IF n > end THEN DecodeFails ELSE [ok |-> TRUE, ptr |-> n]
        block(len) == over(len.ptr + len.value)
    IN  CASE wire_type = VARINT -> decode_varint(buf, ptr, end)
          [] wire_type = FIXED64 -> over(ptr + Wide \div ByteBits)
          [] wire_type = FIXED32 -> over(ptr + Narrow \div ByteBits)
          [] wire_type = LENGTH_DELIM -> Then(decode_varint(buf, ptr, end), block)
          [] OTHER -> DecodeFails

(* Items of a packed block, appended to the array. *)
RECURSIVE decode_packed(_, _, _, _, _)
decode_packed(buf, ptr, end, field, items) ==
    LET rest(item) == decode_packed(buf, item.ptr, end, field, Append(items, item.value))
    IN  IF ptr >= end THEN [ok |-> TRUE, items |-> items, ptr |-> ptr]
        ELSE Then(decode_value_to_zval(buf, ptr, end, field, field.wire_type), rest)

(* One item of a repeated field that comes without a block.  The first one *)
(* makes an array, stores it and releases it, so what the message holds    *)
(* from then on is a pointer to released memory; the next item is written  *)
(* there.  Only an array that a block made is still one.                   *)
AddItem(msg, field, read) ==
    LET stored(value) == [ok |-> TRUE, ptr |-> read.ptr, msg |-> Extend(msg, field.name, value)]
    IN  IF field.name \notin DOMAIN msg THEN stored(Dangling)
        ELSE IF msg[field.name] = Dangling THEN DecodeCorrupts
        ELSE stored(<<"array", Append(msg[field.name][2], read.value)>>)

(* A field of the schema, from behind its key: the message with its value. *)
decode_field(buf, ptr, end, field, wire_type, msg) ==
    LET stored(read, value) == [ok |-> TRUE, ptr |-> read.ptr, msg |-> Extend(msg, field.name, value)]
        old == IF field.name \in DOMAIN msg THEN msg[field.name] ELSE <<"array", <<>>>>
        packed(read) == stored(read, <<"array", read.items>>)
        block(len) == IF len.ptr + len.value > end THEN DecodeFails
                      ELSE IF old = Dangling THEN IF len.value = 0 THEN stored(len, Dangling) ELSE DecodeCorrupts
                      ELSE Then(decode_packed(buf, len.ptr, len.ptr + len.value, field, old[2]), packed)
        single(read) == IF field.repeated THEN AddItem(msg, field, read) ELSE stored(read, read.value)
    IN  IF field.packed /\ wire_type = LENGTH_DELIM
        THEN Then(decode_varint(buf, ptr, end), block)
        ELSE Then(decode_value_to_zval(buf, ptr, end, field, wire_type), single)

RECURSIVE decode_message_internal(_, _, _, _, _)
decode_message_internal(buf, ptr, end, schema, msg) ==
    LET known(read) == decode_message_internal(buf, read.ptr, end, schema, read.msg)
        unknown(read) == decode_message_internal(buf, read.ptr, end, schema, msg)
        tagged(key, tag) ==
            LET hits == {field \in schema.by_tag : field.tag = tag}
            IN  IF tag = 0 THEN unknown(key)
                ELSE IF hits = {} THEN Then(skip_field(buf, key.ptr, end, key.value % 8), unknown)
                ELSE Then(decode_field(buf, key.ptr, end, CHOOSE hit \in hits : TRUE, key.value % 8, msg), known)
        keyed(key) == tagged(key, U32(key.value \div 8))
    IN  IF ptr >= end THEN [ok |-> TRUE, msg |-> msg, ptr |-> ptr]
        ELSE Then(decode_varint(buf, ptr, end), keyed)

(* A missing required field fails the decoding, any other takes its        *)
(* default.                                                                *)
populate_default_values_and_check_required(schema, msg) ==
    LET missing == {field \in schema.by_tag : field.name \notin DOMAIN msg}
        filled == {field \in missing : field.default # Undef}
        default(name) == (CHOOSE field \in filled : field.name = name).default
    IN  IF \E field \in missing : field.required THEN DecodeFails
        ELSE [ok |-> TRUE,
              msg |-> [name \in DOMAIN msg \cup {field.name : field \in filled} |->
                           IF name \in DOMAIN msg THEN msg[name] ELSE default(name)]]

Decoded(schema, buf) ==
    LET finished(read) == populate_default_values_and_check_required(schema, read.msg)
    IN  Then(decode_message_internal(buf, 1, Len(buf) + 1, schema, <<>>), finished)

------------------------------------------------------------------------------
VARIABLES
    sent,   \* the latest encode: schema, PHP data and the bytes it returned
    wire,   \* the bytes the reader has
    got     \* the latest decode: schema and what it returned

vars == <<registries_initialized, schemas, enums, born, serial, sent, wire, got>>

NotSent == [schema |-> "", data |-> <<>>, bytes |-> EncodeFails]
NotDecoded == [schema |-> "", result |-> DecodeFails]

Init == RegistryInit /\ sent = NotSent /\ wire = EncodeFails /\ got = NotDecoded

(* A schema that is not registered makes both functions return FALSE. *)
quicpro_iibin_encode(name, data) ==
    /\ sent = NotSent
    /\ get_compiled_iibin_schema_internal(name)
    /\ LET bytes == encode_message_internal(schemas[name], data)
       IN  sent' = [schema |-> name, data |-> data, bytes |-> bytes] /\ wire' = bytes
    /\ UNCHANGED <<registries_initialized, schemas, enums, born, serial, got>>

quicpro_iibin_decode(name) ==
    /\ wire # EncodeFails /\ get_compiled_iibin_schema_internal(name)
    /\ got' = [schema |-> name, result |-> Decoded(schemas[name], wire)]
    /\ UNCHANGED <<registries_initialized, schemas, enums, born, serial, sent, wire>>

(* The stream ends before the last byte. *)
CutShort(n) ==
    /\ wire = sent.bytes /\ wire # EncodeFails /\ n < Len(wire)
    /\ wire' = SubSeq(wire, 1, n) /\ got' = NotDecoded
    /\ UNCHANGED <<registries_initialized, schemas, enums, born, serial, sent>>

Define ==
    /\ sent = NotSent /\ RegistryNext
    /\ UNCHANGED <<sent, wire, got>>

Next ==
    \/ Define
    \/ \E name \in DOMAIN schemas :
          \/ \E data \in Payload(schemas[name]) : quicpro_iibin_encode(name, data)
          \/ quicpro_iibin_decode(name)
    \/ \E n \in 0..Len(wire) - 1 : CutShort(n)

Spec == Init /\ [][Next]_vars

------------------------------------------------------------------------------
(* The values a field can carry without loss.                              *)
InRange(type, value) ==
    LET n == value[2]
    IN  CASE type \in {"int32", "sint32", "sfixed32", "enum"} -> value[1] = "long" /\ n \in -2^(Narrow - 1)..2^(Narrow - 1) - 1
          [] type \in {"uint32", "fixed32"} -> value[1] = "long" /\ n \in 0..2^Narrow - 1
          [] type = "float" -> AsDouble(value) % 2^(Wide - Narrow) = 0
          [] type = "double" -> TRUE
          [] type = "bool" -> value[1] = "bool"
          [] OTHER -> value[1] = "long"

(* What decode gives for it: a number in a float or double field is read   *)
(* back as the double it was converted to.                                 *)
Returned(type, value) == IF type \in {"float", "double"} THEN <<"double", AsDouble(value)>> ELSE value

Intact == wire = sent.bytes /\ wire # EncodeFails /\ got.schema = sent.schema
Numeric(field) == field.type \notin Texts \cup {"message"} /\ field.tag \in 1..2^(Narrow - 3) - 1
(* The decoder releases the array of a repeated field that is not packed.  *)
Kept(field) == field.repeated => field.packed
Presence(field, data) == field.name \in DOMAIN data /\ data[field.name] # <<"array", <<>>>>

(* A numeric message comes back from decode(encode(m)) as it was: every    *)
(* value in its type's range is the same, with its sign and its width, in  *)
(* single fields and in packed ones, and absent fields have the schema's   *)
(* default.  Excluded are tags from 2^29 on, which the key's 32 bits cut,  *)
(* those that are 0 as uint32_t, and schemas with a repeated field that is *)
(* not packed, whose array the decoder has released when it returns.       *)
RoundTrip ==
    LET fields == schemas[got.schema].by_tag
    IN  /\ Intact /\ \A field \in fields : Numeric(field) /\ Kept(field)
        =>  /\ got.result.ok
            /\ \A field \in fields :
                 LET in == sent.data[field.name]
                     out == got.result.msg[field.name]
                 IN  IF Presence(field, sent.data)
                     THEN IF field.repeated
                          THEN /\ Len(out[2]) = Len(in[2])
                               /\ \A k \in DOMAIN in[2] : InRange(field.type, in[2][k]) => out[2][k] = Returned(field.type, in[2][k])
                          ELSE InRange(field.type, in) => out = Returned(field.type, in)
                     ELSE /\ field.name \in DOMAIN got.result.msg <=> field.default # Undef
                          /\ field.default # Undef => out = field.default

(* A reader whose schema lacks some of the writer's fields, and has the    *)
(* others unchanged, reads those exactly as the writer's own schema does.  *)
UnknownFieldsSkipped ==
    LET reader == schemas[got.schema].by_tag
        writer == schemas[sent.schema].by_tag
        full == Decoded(schemas[sent.schema], wire)
    IN  /\ wire = sent.bytes /\ wire # EncodeFails /\ got # NotDecoded
        /\ reader \subseteq writer
        /\ \A field \in writer : field.tag \in 1..2^(Narrow - 3) - 1
        /\ full.ok
        =>  /\ got.result.ok
            /\ \A field \in reader :
                 field.name \in DOMAIN full.msg => /\ field.name \in DOMAIN got.result.msg
                                                  /\ got.result.msg[field.name] = full.msg[field.name]

(* Bytes that were cut short are refused, or read as a message without its *)
(* last fields: no value that was not sent is ever read, and no array is   *)
(* half there.  Schemas with a repeated field that is not packed are       *)
(* excluded, as in RoundTrip.                                              *)
TruncationHonest ==
    LET schema == schemas[got.schema]
        full == Decoded(schema, sent.bytes)
    IN  /\ got # NotDecoded /\ got.schema = sent.schema /\ got.result.ok /\ wire # sent.bytes
        /\ \A field \in schema.by_tag : Numeric(field) /\ Kept(field)
        =>  \A name \in DOMAIN got.result.msg :
               \/ got.result.msg[name] = full.msg[name]
               \/ \E field \in schema.by_tag : field.name = name /\ got.result.msg[name] = field.default

(* README.md promises that a text field sent with encode is there after    *)
(* decode.                                                                 *)
TextRoundTrip ==
    /\ Intact
    =>  /\ got.result.ok
        /\ \A name \in DOMAIN sent.data :
             sent.data[name][1] = "string" => got.result.msg[name] = sent.data[name]

==============================================================================
