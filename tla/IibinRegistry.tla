---------------------------- MODULE IibinRegistry ----------------------------
(***************************************************************************)
(* The registries of IIBIN schemas and enums: quicpro_iibin_define_enum    *)
(* and quicpro_iibin_define_schema compile a PHP array, or refuse it and   *)
(* leave the registries as they were.                                      *)
(*                                                                         *)
(* uint32_t is Narrow bits wide.  A type text is a record of its           *)
(* "repeated_" prefix and the rest; Abbreviates gives, for a text that is  *)
(* a proper prefix of primitive type names, the first one the comparisons  *)
(* with strncmp(text, primitive, strlen(text)) find.                       *)
(***************************************************************************)
EXTENDS Integers, Sequences, FiniteSets

CONSTANTS
    SchemaName,   \* names of schemas and enums
    SchemaDef(_), \* PHP arrays given to define_schema for a name: sequences of field options
    EnumDef(_),   \* PHP arrays given to define_enum for a name: sequences of <<name, number>>
    Abbreviates,  \* [text -> primitive]
    Narrow        \* bits of uint32_t

Varints == {"int32", "uint32", "sint32", "int64", "uint64", "sint64", "bool"}
Fixed32s == {"float", "fixed32", "sfixed32"}
Fixed64s == {"double", "fixed64", "sfixed64"}
Texts == {"string", "bytes"}
Primitives == Varints \cup Fixed32s \cup Fixed64s \cup Texts

ASSUME RegistryAssumption ==
    /\ Narrow \in Nat \ {0}
    /\ "" \notin SchemaName
    /\ \A text \in DOMAIN Abbreviates : Abbreviates[text] \in Primitives

VARINT == 0
FIXED64 == 1
LENGTH_DELIM == 2
FIXED32 == 5

Undef == <<"undef">>
NoDefault == <<"refused">>
Refused == [refused |-> TRUE]

VARIABLES
    registries_initialized,
    schemas,  \* [name -> fields_by_tag, a set, and ordered_fields]
    enums,    \* [name -> [value name -> number]]
    born,     \* [name -> Nat], auxiliary: the serial number of a definition
    serial    \* auxiliary: definitions made so far

registry == <<registries_initialized, schemas, enums, born, serial>>

Extend(f, x, v) == [y \in DOMAIN f \cup {x} |-> IF y = x THEN v ELSE f[y]]

get_compiled_iibin_schema_internal(name) == registries_initialized /\ name \in DOMAIN schemas
get_compiled_iibin_enum_internal(name) == registries_initialized /\ name \in DOMAIN enums

------------------------------------------------------------------------------
(* The primitive a type text stands for, or "" for a reference. *)
parse_php_field_type_details(text) ==
    IF text \in Primitives THEN text
    ELSE IF text \in DOMAIN Abbreviates THEN Abbreviates[text] ELSE ""

(* Mutant: an unknown name is taken for a message to be defined later. *)
ResolvedType_Mutant(text) ==
    LET base == parse_php_field_type_details(text)
    IN  IF base # "" THEN base
        ELSE IF get_compiled_iibin_enum_internal(text) THEN "enum" ELSE "message"

(* Primitives win over the registries, schemas over enums. *)
ResolvedType(text) ==
    LET base == parse_php_field_type_details(text)
    IN  IF base # "" THEN base
        ELSE IF get_compiled_iibin_schema_internal(text) THEN "message"
        ELSE IF get_compiled_iibin_enum_internal(text) THEN "enum" ELSE ""

calculate_field_wire_type(type, packed) ==
    CASE packed -> LENGTH_DELIM
      [] ~packed /\ type \in Varints \cup {"enum"} -> VARINT
      [] ~packed /\ type \in Fixed64s -> FIXED64
      [] ~packed /\ type \in Fixed32s -> FIXED32
      [] OTHER -> LENGTH_DELIM

(* A default given by an enum value's name becomes its number. *)
CompiledDefault(type, text, default) ==
    IF type = "enum" /\ default[1] = "string"
    THEN IF default[2] \in DOMAIN enums[text] THEN <<"long", enums[text][default[2]]>> ELSE NoDefault
    ELSE default

parse_php_field_options(name, options) ==
    LET type == ResolvedType(options.type)
        packed == /\ options.repeated /\ type \in (Primitives \ Texts) \cup {"enum"}
                  /\ options.packed
        default == CompiledDefault(type, options.type, options.default)
    IN  IF options.tag <= 0 \/ type = "" \/ default = NoDefault THEN Refused
        ELSE [name |-> name, tag |-> options.tag % 2^Narrow, type |-> type,
              ref |-> IF type \in {"message", "enum"} THEN options.type ELSE "",
              repeated |-> options.repeated, required |-> options.required, packed |-> packed,
              default |-> default, wire_type |-> calculate_field_wire_type(type, packed)]

------------------------------------------------------------------------------
RegistryInit ==
    /\ registries_initialized = FALSE
    /\ schemas = <<>> /\ enums = <<>> /\ born = <<>> /\ serial = 0

quicpro_iibin_registries_init ==
    /\ registries_initialized' = TRUE
    /\ UNCHANGED <<schemas, enums, born, serial>>

quicpro_iibin_registries_shutdown ==
    /\ registries_initialized' = FALSE
    /\ schemas' = <<>> /\ enums' = <<>> /\ born' = <<>> /\ serial' = 0

Free(name) ==
    /\ registries_initialized
    /\ ~get_compiled_iibin_schema_internal(name) /\ ~get_compiled_iibin_enum_internal(name)

Defined(name) ==
    /\ born' = Extend(born, name, serial)
    /\ serial' = serial + 1
    /\ UNCHANGED registries_initialized

(* Numbers are cut to int32_t before they are compared. *)
EnumValid(def) ==
    \A i, j \in DOMAIN def : i # j => def[i][2] % 2^Narrow # def[j][2] % 2^Narrow

quicpro_iibin_define_enum(name, def) ==
    IF Free(name) /\ EnumValid(def)
    THEN /\ enums' = Extend(enums, name,
                [v \in {def[i][1] : i \in DOMAIN def} |->
                     LET n == (CHOOSE i \in DOMAIN def : def[i][1] = v)
                         u == def[n][2] % 2^Narrow
                     IN  IF u < 2^(Narrow - 1) THEN u ELSE u - 2^Narrow])
         /\ schemas' = schemas
         /\ Defined(name)
    ELSE UNCHANGED registry

(* qsort by tag. *)
ByTag(fields) ==
    CHOOSE s \in [1..Cardinality(fields) -> fields] :
        \A i, j \in 1..Cardinality(fields) : i < j => s[i].tag < s[j].tag

quicpro_iibin_define_schema(name, def) ==
    LET compiled == [i \in DOMAIN def |-> parse_php_field_options(def[i].name, def[i])]
        fields == {compiled[i] : i \in DOMAIN def}
        valid == /\ \A i \in DOMAIN def : compiled[i] # Refused
                 /\ \A i, j \in DOMAIN def : i # j => compiled[i].tag # compiled[j].tag
    IN  IF Free(name) /\ valid
        THEN /\ schemas' = Extend(schemas, name, [by_tag |-> fields, ordered |-> ByTag(fields)])
             /\ enums' = enums
             /\ Defined(name)
        ELSE UNCHANGED registry

RegistryNext ==
    \/ quicpro_iibin_registries_init
    \/ quicpro_iibin_registries_shutdown
    \/ \E name \in SchemaName :
          \/ \E def \in SchemaDef(name) : quicpro_iibin_define_schema(name, def)
          \/ \E def \in EnumDef(name) : quicpro_iibin_define_enum(name, def)

RegistrySpec == RegistryInit /\ [][RegistryNext]_registry

------------------------------------------------------------------------------
(* A schema or enum name means one thing only, and what a compiled field   *)
(* refers to was defined before the schema that refers to it.  So message  *)
(* types are never recursive, the encoder's and the decoder's recursion is *)
(* bounded by the number of schemas, and their "not defined" branches are  *)
(* never taken for a nested type.                                          *)
ReferencesPrecede ==
    /\ DOMAIN schemas \cap DOMAIN enums = {}
    /\ \A name \in DOMAIN schemas : \A field \in schemas[name].by_tag :
          /\ field.type = "message" => field.ref \in DOMAIN schemas /\ born[field.ref] < born[name]
          /\ field.type = "enum" => field.ref \in DOMAIN enums /\ born[field.ref] < born[name]

(* A definition that was accepted is never changed or removed before the   *)
(* module stops.                                                           *)
DefinitionsAreFinal ==
    [][registries_initialized /\ registries_initialized' =>
          /\ \A name \in DOMAIN schemas : name \in DOMAIN schemas' /\ schemas'[name] = schemas[name]
          /\ \A name \in DOMAIN enums : name \in DOMAIN enums' /\ enums'[name] = enums[name]]_registry

==============================================================================
