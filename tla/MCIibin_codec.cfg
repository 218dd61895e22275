SPECIFICATION Spec
CONSTANTS
    SchemaName = {"m", "n", "e"}
    SchemaDef <- schema_def
    EnumDef <- enum_def
    Abbreviates <- abbreviates
    Payload <- payload
    DoubleBits <- double_bits
    Group = 3
    Narrow = 8
    Wide = 16
INVARIANTS
    ReferencesPrecede
    RoundTrip
    UnknownFieldsSkipped
    TruncationHonest
CHECK_DEADLOCK FALSE
