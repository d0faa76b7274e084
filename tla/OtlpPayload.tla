---------------------------- MODULE OtlpPayload ----------------------------
(***************************************************************************)
(* The JSON of a push request (ExportLogsServiceRequest) for a batch of    *)
(* records: records of the same resource and scope share a group.          *)
(***************************************************************************)
EXTENDS LogRecord

SameGroup(a, b) ==
    /\ a.scopeName = b.scopeName /\ a.scopeVersion = b.scopeVersion
    /\ SameKVs(a.resource, b.resource)

\* MUTANT of Groups: compares with the last group only
GroupsInARow(batch) ==
    Fold(LAMBDA groups, r :
        LET last == Len(groups)
        IN IF last = 0 \/ ~SameGroup(groups[last][1], r) THEN Append(groups, <<r>>)
           ELSE [groups EXCEPT ![last] = Append(@, r)],
        << >>, batch)

\* Every record joins the first group which fits, or starts a group
Groups(batch) ==
    Fold(LAMBDA groups, r :
        LET fits == {g \in DOMAIN groups : SameGroup(groups[g][1], r)}
        IN IF fits = {} THEN Append(groups, <<r>>)
           ELSE [groups EXCEPT ![Min(fits)] = Append(@, r)],
        << >>, batch)

\* 64 bit integers are decimal text in OTLP
OtlpKV(kv) ==
    LET v == kv.value
    IN Obj(<< <<"key", Str(kv.key)>>,
              <<"value", Obj(CASE Is(v, "intValue") -> << <<"intValue", Str(ToString(v.intValue))>> >>
                               [] Is(v, "doubleValue") -> << <<"doubleValue", Double(v.doubleValue)>> >>
                               [] Is(v, "boolValue") -> << <<"boolValue", Bool(v.boolValue)>> >>
                               [] OTHER -> << <<"stringValue", Str(v.stringValue)>> >>)>> >>)

Attrs(kvs) == Arr([i \in DOMAIN kvs |-> OtlpKV(kvs[i])])

OtlpResource(r) ==
    Obj(<< <<"attributes", Attrs(IF r.resource = << >> THEN GetDefaultResource ELSE r.resource)>> >>)

OtlpScope(r) == Obj(
    IF r.scopeName = "" THEN << <<"name", Str("otelfwd")>>, <<"version", Str("1.0")>> >>
    ELSE << <<"name", Str(r.scopeName)>> >>
         \o IF r.scopeVersion = "" THEN << >> ELSE << <<"version", Str(r.scopeVersion)>> >>)

OtlpLogRecord(r) == Obj(
    << <<"timeUnixNano", Str(ToString(FirstOf(r.time, r.observed)))>>,
       <<"observedTimeUnixNano", Str(ToString(FirstOf(r.observed, r.time)))>> >>
    \o (IF r.severity > 0 THEN << <<"severityNumber", Int64(r.severity)>> >> ELSE << >>)
    \o (IF r.severityText # "" THEN << <<"severityText", Str(r.severityText)>> >> ELSE << >>)
    \o << <<"body", Obj(<< <<"stringValue", Str(r.line)>> >>)>>, <<"attributes", Attrs(r.attributes)>> >>)

ResourceLogs(group) == Obj(
    << <<"resource", OtlpResource(group[1])>>,
       <<"scopeLogs", Arr(<< Obj(<< <<"scope", OtlpScope(group[1])>>,
            <<"logRecords", Arr([i \in DOMAIN group |-> OtlpLogRecord(group[i])])>> >>) >>)>> >>)

BuildOtlpPayload(batch) ==
    LET groups == Groups(batch)
    IN Obj(<< <<"resourceLogs", Arr([g \in DOMAIN groups |-> ResourceLogs(groups[g])])>> >>)
=============================================================================
