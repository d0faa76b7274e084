---------------------------- MODULE OtlpProtobuf ----------------------------
(***************************************************************************)
(* The converter from OTLP JSON to OTLP protobuf.  What is written is a    *)
(* sequence of cells: a byte, the characters of a text, or the bits of a   *)
(* floating point number.  A conversion returns the set of its one result, *)
(* or {} after an error.                                                   *)
(***************************************************************************)
EXTENDS JsonValue

NumberBytes == Bits \div 8

Byte(b) == [byte |-> b]
Characters(s) == IF s = "" THEN << >> ELSE <<[chars |-> s]>>

SizeOf(cell) ==
    IF Is(cell, "byte") THEN 1 ELSE IF Is(cell, "chars") THEN Len(cell.chars) ELSE NumberBytes
Size(cells) == Combined(LAMBDA a, b : a + b, 0, [i \in DOMAIN cells |-> SizeOf(cells[i])])

(***************************************************************************)
(* The writer.                                                             *)
(***************************************************************************)
Unsigned(n) == n % (2 ^ Bits)

\* Seven bits a byte, the lowest first, and a bit which says that more come
\* MUTANT of AddVarint: 128 in one byte
AddVarintWide(n) ==
    LET varint[k \in 0..MaxUint] ==
            IF k > 128 THEN <<Byte((k % 128) + 128)>> \o varint[k \div 128] ELSE <<Byte(k)>>
    IN varint[n]

AddVarint(n) ==
    LET varint[k \in 0..MaxUint] ==
            IF k >= 128 THEN <<Byte((k % 128) + 128)>> \o varint[k \div 128] ELSE <<Byte(k)>>
    IN varint[n]

AddTag(field, wire) == AddVarint(field * 8 + wire)
AddVarintField(field, n) == AddTag(field, 0) \o AddVarint(Unsigned(n))
AddFixed64Field(field, n) ==
    AddTag(field, 1) \o [i \in 1..NumberBytes |-> Byte((n \div (256 ^ (i - 1))) % 256)]
AddDoubleField(field, text) == AddTag(field, 1) \o <<[bits |-> text]>>
AddBytesField(field, cells) == AddTag(field, 2) \o AddVarint(Size(cells)) \o cells
AddTextField(field, s) == AddBytesField(field, Characters(s))

(***************************************************************************)
(* The reader of the JSON.                                                 *)
(***************************************************************************)
CheckObject(v, known) == Is(v, "object") /\ Names(v) \subseteq known

\* A number, or decimal text, of the range
GetInteger(v, range) ==
    IF Is(v, "int") THEN {v.int} \cap range
    ELSE IF Is(v, "string") /\ Is(Number(v.string), "int") THEN {Number(v.string).int} \cap range
    ELSE {}

GetUint64(v) == GetInteger(v, 0..MaxUint)
GetInt64(v) == GetInteger(v, -(MaxInt + 1)..MaxInt)

\* A member which is there has to be converted, one which is not there is not written
Member(v, name, Convert(_)) == IF name \in Names(v) THEN Convert(Find(v, name)) ELSE {<< >>}

\* The results one behind the other, if there is one of each
Sequence(results) ==
    IF \E i \in DOMAIN results : results[i] = {} THEN {}
    ELSE {FlattenSeq([i \in DOMAIN results |-> CHOOSE cells \in results[i] : TRUE])}

Message(field, result) == {AddBytesField(field, cells) : cells \in result}
Repeated(v, field, Convert(_)) ==
    IF ~Is(v, "array") THEN {}
    ELSE Sequence([i \in DOMAIN v.array |-> Message(field, Convert(v.array[i]))])

TextOf(v, field) == IF Is(v, "string") THEN {AddTextField(field, v.string)} ELSE {}

ConvertAnyValue(v) ==
    IF ~CheckObject(v, {"stringValue", "intValue", "doubleValue", "boolValue"}) \/ Len(v.object) > 1 THEN {}
    ELSE Sequence(<<
        Member(v, "stringValue", LAMBDA x : TextOf(x, 1)),
        Member(v, "boolValue", LAMBDA x : IF Is(x, "bool") THEN {AddVarintField(2, IF x.bool THEN 1 ELSE 0)} ELSE {}),
        Member(v, "intValue", LAMBDA x : {AddVarintField(3, n) : n \in GetInt64(x)}),
        Member(v, "doubleValue", LAMBDA x :
            IF Is(x, "double") THEN {AddDoubleField(4, x.double)}
            ELSE IF Is(x, "int") THEN {AddDoubleField(4, ToString(x.int) \o ".0")} ELSE {})>>)

ConvertKeyValue(v) ==
    IF ~CheckObject(v, {"key", "value"}) \/ "key" \notin Names(v) THEN {}
    ELSE Sequence(<<Member(v, "key", LAMBDA x : TextOf(x, 1)),
                    Member(v, "value", LAMBDA x : Message(2, ConvertAnyValue(x)))>>)

ConvertAttributes(v, field) == Repeated(v, field, ConvertKeyValue)

\* In the order of the field numbers, whatever the order of the members is
ConvertLogRecord(v) ==
    IF ~CheckObject(v, {"timeUnixNano", "observedTimeUnixNano", "severityNumber", "severityText",
                        "body", "attributes"}) THEN {}
    ELSE Sequence(<<
        Member(v, "timeUnixNano", LAMBDA x : {AddFixed64Field(1, n) : n \in GetUint64(x)}),
        Member(v, "severityNumber", LAMBDA x :
            IF Is(x, "int") THEN {AddVarintField(2, n) : n \in GetInt64(x)} ELSE {}),
        Member(v, "severityText", LAMBDA x : TextOf(x, 3)),
        Member(v, "body", LAMBDA x : Message(5, ConvertAnyValue(x))),
        Member(v, "attributes", LAMBDA x : ConvertAttributes(x, 6)),
        Member(v, "observedTimeUnixNano", LAMBDA x : {AddFixed64Field(11, n) : n \in GetUint64(x)})>>)

ConvertScope(v) ==
    IF ~CheckObject(v, {"name", "version"}) THEN {}
    ELSE Sequence(<<Member(v, "name", LAMBDA x : TextOf(x, 1)),
                    Member(v, "version", LAMBDA x : TextOf(x, 2))>>)

ConvertScopeLogs(v) ==
    IF ~CheckObject(v, {"scope", "logRecords"}) THEN {}
    ELSE Sequence(<<Member(v, "scope", LAMBDA x : Message(1, ConvertScope(x))),
                    Member(v, "logRecords", LAMBDA x : Repeated(x, 2, ConvertLogRecord))>>)

ConvertResource(v) ==
    IF ~CheckObject(v, {"attributes"}) THEN {}
    ELSE Member(v, "attributes", LAMBDA x : ConvertAttributes(x, 1))

ConvertResourceLogs(v) ==
    IF ~CheckObject(v, {"resource", "scopeLogs"}) THEN {}
    ELSE Sequence(<<Member(v, "resource", LAMBDA x : Message(1, ConvertResource(x))),
                    Member(v, "scopeLogs", LAMBDA x : Repeated(x, 2, ConvertScopeLogs))>>)

Convert(v) ==
    IF ~CheckObject(v, {"resourceLogs"}) THEN {}
    ELSE Member(v, "resourceLogs", LAMBDA x : Repeated(x, 1, ConvertResourceLogs))
=============================================================================
