------------------------------ MODULE Receiver ------------------------------
(***************************************************************************)
(* What a receiver makes of the requests of otelfwd, by the definition of  *)
(* OTLP and not by the code which writes them, and what it should find: a  *)
(* reference for the modules which build records and requests, and the     *)
(* properties which say that Records and they agree with it.  Recursion    *)
(* over nested data is only here.                                          *)
(***************************************************************************)
EXTENDS Records, OtlpPayload, OtlpProtobuf

(***************************************************************************)
(* The reader and the writer of JSON.                                      *)
(***************************************************************************)
RECURSIVE Unescape(_)
Unescape(s) ==
    IF "\\" \notin Range(Chars(s)) THEN s
    ELSE LET pair == SubSeq(s, 1, IF Len(s) = 1 THEN 1 ELSE 2)
             escaped == {c \in DOMAIN Escapes : Escapes[c] = pair}
         IN IF escaped # {} THEN (CHOOSE c \in escaped : TRUE) \o Unescape(SubSeq(s, 3, Len(s)))
            ELSE SubSeq(s, 1, 1) \o Unescape(SubSeq(s, 2, Len(s)))

RECURSIVE ReadJson(_), WriteJson(_)
ReadJson(v) ==
    CASE Is(v, "string") -> Str(Unescape(v.string))
      [] Is(v, "number") -> Number(v.number)
      [] Is(v, "array") -> Arr([i \in DOMAIN v.array |-> ReadJson(v.array[i])])
      [] Is(v, "object") -> Obj([i \in DOMAIN v.object |->
             <<Unescape(v.object[i][1]), ReadJson(v.object[i][2])>>])
      [] OTHER -> v

WriteJson(v) ==
    CASE Is(v, "string") -> "\"" \o Escape(v.string) \o "\""
      [] Is(v, "int") -> ToString(v.int)
      [] Is(v, "double") -> v.double
      [] Is(v, "bool") -> IF v.bool THEN "true" ELSE "false"
      [] Is(v, "null") -> "null"
      [] Is(v, "array") -> "[" \o Joined([i \in DOMAIN v.array |-> WriteJson(v.array[i])]) \o "]"
      [] Is(v, "object") -> "{" \o Joined([i \in DOMAIN v.object |->
             "\"" \o Escape(v.object[i][1]) \o "\":" \o WriteJson(v.object[i][2])]) \o "}"

(***************************************************************************)
(* OTLP as protobuf: field number -> name, type, repeated.                 *)
(***************************************************************************)
One(name, type) == [name |-> name, type |-> type, many |-> FALSE]
Many(name, type) == [name |-> name, type |-> type, many |-> TRUE]

Otlp == [
    Request |-> (1 :> Many("resourceLogs", "ResourceLogs")),
    ResourceLogs |-> (1 :> One("resource", "Resource") @@ 2 :> Many("scopeLogs", "ScopeLogs")),
    Resource |-> (1 :> Many("attributes", "KeyValue")),
    ScopeLogs |-> (1 :> One("scope", "Scope") @@ 2 :> Many("logRecords", "LogRecord")),
    Scope |-> (1 :> One("name", "text") @@ 2 :> One("version", "text")),
    LogRecord |-> (1 :> One("timeUnixNano", "fixed") @@ 2 :> One("severityNumber", "int")
        @@ 3 :> One("severityText", "text") @@ 5 :> One("body", "AnyValue")
        @@ 6 :> Many("attributes", "KeyValue") @@ 11 :> One("observedTimeUnixNano", "fixed")),
    KeyValue |-> (1 :> One("key", "text") @@ 2 :> One("value", "AnyValue")),
    AnyValue |-> (1 :> One("stringValue", "text") @@ 2 :> One("boolValue", "bool")
        @@ 3 :> One("intValue", "int") @@ 4 :> One("doubleValue", "double"))]

\* How many cells a varint at the start has, 0 if there is none
RECURSIVE VarintLength(_)
VarintLength(cells) ==
    IF cells = << >> \/ ~Is(Head(cells), "byte") THEN 0
    ELSE IF Head(cells).byte < 128 THEN 1
    ELSE LET more == VarintLength(Tail(cells)) IN IF more = 0 THEN 0 ELSE more + 1

VarintAt(cells) ==
    Fold(LAMBDA n, i : n + (cells[i].byte % 128) * 128 ^ (i - 1), 0, [i \in 1..VarintLength(cells) |-> i])

Behind(cells, n) == SubSeq(cells, n + 1, Len(cells))

\* How many cells from the start have n bytes, -1 if none end there
Covering(cells, n) ==
    LET SizeOfPart(i, count) == Size(SubSeq(cells, i, i + count - 1))
        least[i \in 1..(Len(cells) + 1), count \in 0..Len(cells), bytes \in 0..n] ==
            IF bytes = 0 THEN 0
            ELSE IF count <= 1 THEN count
            ELSE LET half == count \div 2
                     size == SizeOfPart(i, half)
                 IN IF size >= bytes THEN least[i, half, bytes]
                    ELSE half + least[i + half, count - half, bytes - size]
        k == least[1, Len(cells), n]
    IN IF SizeOfPart(1, k) = n THEN k ELSE -1

\* The fields of a message with what is in them, a field 0 at its end if it is not one
RECURSIVE Fields(_)
Fields(cells) ==
    IF cells = << >> THEN << >>
    ELSE LET tag == VarintAt(cells)
             wire == tag % 8
             rest == Behind(cells, VarintLength(cells))
             header == IF wire = 2 THEN VarintLength(rest) ELSE 0
             content == Behind(rest, header)
             n == CASE wire = 0 -> VarintLength(rest)
                    [] wire = 1 -> Covering(rest, NumberBytes)
                    [] wire = 2 /\ header > 0 -> Covering(content, VarintAt(rest))
                    [] OTHER -> -1
         IN IF VarintLength(cells) = 0 \/ n < 0 \/ (wire = 0 /\ n = 0) THEN <<[field |-> 0, wire |-> wire, cells |-> cells]>>
            ELSE <<[field |-> tag \div 8, wire |-> wire, cells |-> SubSeq(content, 1, n)]>>
                 \o Fields(Behind(content, n))

Wire(type) == CASE type \in {"int", "bool"} -> 0 [] type \in {"fixed", "double"} -> 1 [] OTHER -> 2

IntOf(v) == IF Is(v, "int") THEN v.int ELSE Number(v.string).int
LittleEndian(cells) == Fold(LAMBDA n, i : n + cells[i].byte * 256 ^ (i - 1), 0, [i \in DOMAIN cells |-> i])

\* The content of a field of a type says the same as the JSON value
RECURSIVE Says(_, _, _)
Says(cells, v, type) ==
    CASE type = "text" -> cells = Characters(v.string)
      [] type = "bool" -> VarintAt(cells) = IF v.bool THEN 1 ELSE 0
      [] type = "int" -> IntOf(v) = (IF VarintAt(cells) > MaxInt THEN VarintAt(cells) - MaxUint - 1 ELSE VarintAt(cells))
      [] type = "fixed" -> LittleEndian(cells) = IntOf(v)
      [] type = "double" -> cells = <<[bits |-> IF Is(v, "int") THEN ToString(v.int) \o ".0" ELSE v.double]>>
      [] OTHER ->
            LET fields == Fields(cells)
                Of(number) == SelectSeq(fields, LAMBDA f : f.field = number)
            IN  /\ Names(v) \subseteq {f.name : f \in Range(Otlp[type])}
                /\ Len(v.object) = Cardinality(Names(v))
                /\ \A f \in Range(fields) :
                      f.field \in DOMAIN Otlp[type] /\ f.wire = Wire(Otlp[type][f.field].type)
                /\ \A number \in DOMAIN Otlp[type] :
                      LET field == Otlp[type][number]
                      IN IF field.name \notin Names(v) THEN Of(number) = << >>
                         ELSE LET values == IF field.many THEN Find(v, field.name).array
                                            ELSE <<Find(v, field.name)>>
                              IN  /\ Len(Of(number)) = Len(values)
                                  /\ \A i \in DOMAIN values : Says(Of(number)[i].cells, values[i], field.type)

(***************************************************************************)
(* OTLP as JSON: the records of a request, with the resource and the scope *)
(* they stand under.                                                       *)
(***************************************************************************)
ValueRead(v) ==
    IF Has(v, "intValue", "string") THEN [intValue |-> Number(Find(v, "intValue").string).int]
    ELSE IF Has(v, "doubleValue", "double") THEN [doubleValue |-> Find(v, "doubleValue").double]
    ELSE IF Has(v, "boolValue", "bool") THEN [boolValue |-> Find(v, "boolValue").bool]
    ELSE [stringValue |-> Find(v, "stringValue").string]
KVsRead(v) == [i \in DOMAIN v.array |->
    KV(Find(v.array[i], "key").string, ValueRead(Find(v.array[i], "value")))]
TextRead(v, name) == IF name \in Names(v) THEN Find(v, name).string ELSE ""

RecordRead(group, scopeLog, v) ==
    [time |-> Number(Find(v, "timeUnixNano").string).int,
     observed |-> Number(Find(v, "observedTimeUnixNano").string).int,
     severity |-> IF "severityNumber" \in Names(v) THEN Find(v, "severityNumber").int ELSE 0,
     severityText |-> TextRead(v, "severityText"),
     line |-> Find(Find(v, "body"), "stringValue").string,
     attributes |-> KVsRead(Find(v, "attributes")),
     resource |-> KVsRead(Find(Find(group, "resource"), "attributes")),
     scopeName |-> TextRead(Find(scopeLog, "scope"), "name"),
     scopeVersion |-> TextRead(Find(scopeLog, "scope"), "version")]

RecordsRead(request) == FlattenSeq([g \in DOMAIN Find(request, "resourceLogs").array |->
    LET group == Find(request, "resourceLogs").array[g]
    IN FlattenSeq([s \in DOMAIN Find(group, "scopeLogs").array |->
          LET scopeLog == Find(group, "scopeLogs").array[s]
              records == Find(scopeLog, "logRecords").array
          IN [i \in DOMAIN records |-> RecordRead(group, scopeLog, records[i])]])])

\* A record which does not say where it is from is the forwarder's own
ToRead(r) ==
    [time |-> FirstOf(r.time, r.observed), observed |-> FirstOf(r.observed, r.time),
     severity |-> r.severity, severityText |-> r.severityText,
     line |-> r.line, attributes |-> r.attributes,
     resource |-> IF r.resource # << >> THEN r.resource ELSE GetDefaultResource,
     scopeName |-> IF r.scopeName # "" THEN r.scopeName ELSE "otelfwd",
     scopeVersion |-> IF r.scopeName # "" THEN r.scopeVersion ELSE "1.0"]

\* The records of one origin stand together, where the first of them is, and in their order
InGroups(list) ==
    LET Origin(i) == <<list[i].scopeName, list[i].scopeVersion, list[i].resource>>
        First(i) == Min({j \in DOMAIN list : Origin(j) = Origin(i)})
        order == SetToSortSeq(DOMAIN list, LAMBDA i, j :
                     First(i) < First(j) \/ (First(i) = First(j) /\ i < j))
    IN [n \in DOMAIN order |-> list[order[n]]]
Origins(list) == {<<r.scopeName, r.scopeVersion, r.resource>> : r \in Range(list)}

(***************************************************************************)
(* The record which the calls on a mail object ask for.                    *)
(***************************************************************************)
SinceClear(list) ==
    LET clears == {i \in DOMAIN list : Is(list[i], "clear")}
    IN IF clears = {} THEN list ELSE Behind(list, Max(clears))

Ask(list, Asks(_)) == SelectSeq(list, Asks)
LastOf(seq, none) == IF seq = << >> THEN none ELSE seq[Len(seq)]
TextsFor(list, key) == Ask(list, LAMBDA c : Is(c, "set") /\ Is(c, "text") /\ ~Is(c, "number") /\ c.set = key /\ c.text # "")
AddsFor(list, key) == Ask(list, LAMBDA c : Is(c, "add") /\ c.add = key /\ c.text # "" /\ key # HeaderKey(""))
NumbersFor(list, key) == Ask(list, LAMBDA c : Is(c, "set") /\ Is(c, "number") /\ c.set = key
                              /\ c.number > 0 /\ (key = "severity_number" => c.number <= 24))
NumberFor(list, key) == LastOf(NumbersFor(list, key), [number |-> 0]).number

\* A list is a text which is a JSON list.  One header is a text, recipients are always a list
ListText(texts) == JsonText(Arr([i \in DOMAIN texts |-> Str(texts[i])]))
TextsOf(seq) == [i \in DOMAIN seq |-> seq[i].text]

Sender == "email.envelope.from.address"
SenderFor(list) == Ask(list, LAMBDA c : Is(c, "bounce") \/ (Is(c, "set") /\ c.set = Sender /\ c.text # ""))

RecipientSaid(c) == Obj(
    << <<"address", Str(c.recipient)>> >>
    \o (IF c.status # "" THEN << <<"status", Str(c.status)>> >> ELSE << >>)
    \o (IF c.code > 0 THEN << <<"code", Int64(c.code)>> >> ELSE << >>))
AttachmentSaid(c) == Obj(
    << <<"name", Str(c.attachment)>> >>
    \o (IF c.size > 0 THEN << <<"size_bytes", Int64(c.size)>> >> ELSE << >>)
    \o (IF c.sha256 # "" THEN << <<"sha256", Str(c.sha256)>> >> ELSE << >>))

\* What the calls say of a key, {} if they say nothing
Said(list, key) ==
    LET texts == TextsFor(list, key)
        adds == AddsFor(list, key)
        flags == Ask(list, LAMBDA c : Is(c, "flag") /\ c.set = key)
        recipients == Ask(list, LAMBDA c : Is(c, "recipient") /\ c.recipient # "")
        attachments == Ask(list, LAMBDA c : Is(c, "attachment") /\ c.attachment # "")
    IN CASE key = Sender ->
                IF SenderFor(list) = << >> THEN {}
                ELSE {[stringValue |-> LET c == LastOf(SenderFor(list), {}) IN IF Is(c, "bounce") THEN "" ELSE c.text]}
         [] key = "email.envelope.recipients" ->
                IF recipients = << >> THEN {}
                ELSE {[stringValue |-> JsonText(Arr([i \in DOMAIN recipients |-> RecipientSaid(recipients[i])]))]}
         [] key = "email.attachments" ->
                IF attachments = << >> THEN {}
                ELSE {[stringValue |-> JsonText(Arr([i \in DOMAIN attachments |-> AttachmentSaid(attachments[i])]))]}
         [] OTHER ->
                (IF texts = << >> THEN {} ELSE {[stringValue |-> LastOf(texts, {}).text]})
                \cup (IF adds = << >> THEN {}
                      ELSE IF key \notin RecipientKeys /\ Len(adds) = 1 THEN {[stringValue |-> adds[1].text]}
                      ELSE {[stringValue |-> ListText(TextsOf(adds))]})
                \cup (IF NumberFor(list, key) = 0 THEN {} ELSE {[intValue |-> NumberFor(list, key)]})
                \cup (IF flags = << >> THEN {} ELSE {[boolValue |-> LastOf(flags, {}).flag]})

\* The score is read as a floating point number, also if it is a whole one
ScoreFits(list, values) ==
    LET scores == Ask(list, LAMBDA c : Is(c, "set") /\ c.set = "email.spam.score")
        last == LastOf(scores, [text |-> "nan"]).text
    IN IF last \in {"nan", "inf"} THEN values = {}
       ELSE values \in {{[doubleValue |-> last]}, {[doubleValue |-> last \o ".0"]}}

MailSays(list, keys, record, now) ==
    LET mine == SinceClear(list)
        bodies == TextsFor(mine, "body")
        severities == NumbersFor(mine, "severity_number")
        observed == FirstOf(NumberFor(mine, "observed_time_unix_nano"), now)
        resources == Ask(mine, LAMBDA c : Is(c, "resource") /\ c.resource # "" /\ c.text # "")
        ResourceFor(key) == Ask(resources, LAMBDA c : c.resource = key)
    IN  /\ \A key \in keys : ValueFor(record.attributes, key) = Said(mine, key)
        /\ ScoreFits(mine, ValueFor(record.attributes, "email.spam.score"))
        /\ {kv.key : kv \in Range(record.attributes)} \subseteq keys \cup {"email.spam.score"}
        /\ IsInjective([i \in DOMAIN record.attributes |-> record.attributes[i].key])
        /\ {kv.key : kv \in Range(record.resource)} = {c.resource : c \in Range(resources)}
        /\ \A kv \in Range(record.resource) : kv.value = [stringValue |-> LastOf(ResourceFor(kv.key), {}).text]
        /\ IsInjective([i \in DOMAIN record.resource |-> record.resource[i].key])
        /\ bodies # << >> => record.line = LastOf(bodies, {}).text
        /\ record.severity = NumberFor(mine, "severity_number")
        /\ record.severityText = IF severities = << >> THEN "" ELSE LastOf(severities, {}).text
        /\ record.observed = observed
        /\ record.time = FirstOf(NumberFor(mine, "time_unix_nano"), observed)

\* Nothing in a line ends it
RECURSIVE OneLine(_)
OneLine(v) ==
    CASE Is(v, "string") -> "\n" \notin Range(Chars(v.string))
      [] Is(v, "array") -> \A i \in DOMAIN v.array : OneLine(v.array[i])
      [] Is(v, "object") -> \A i \in DOMAIN v.object :
             "\n" \notin Range(Chars(v.object[i][1])) /\ OneLine(v.object[i][2])
      [] OTHER -> TRUE
-----------------------------------------------------------------------------
(***************************************************************************)
(* What a receiver reads is what was meant.                                *)
(***************************************************************************)
\* The attributes which the calls of this instance are about
Keys ==
    (UNION {IF Is(c, "set") THEN {c.set} ELSE IF Is(c, "header") THEN {HeaderKey(c.header)}
            ELSE IF Is(c, "add") THEN {c.add} ELSE {} : c \in MailCalls}
     \ (FieldKeys \cup TimeKeys \cup {"severity_number", "email.spam.score"}))
    \cup {Sender, "email.envelope.recipients", "email.attachments"}

Records(seq) == [i \in DOMAIN seq |-> seq[i].record]
InRequest == batch # << >> /\ ready = Len(batch)
Request == BuildOtlpPayload(Records(batch))

\* The record of a mail says what the calls since the last Clear asked for: the last text of
\* a key which is not empty, every address and header in order, every key once and always
\* with the same type, in one line
\* (mail_log.cpp:699 MailLog::Build, read by otelfwd.cpp:1227 DecodeFlatRecord)
MailArrives ==
    /\ "mail" \in producers =>
          /\ OneLine(Build)
          /\ \A r \in DecodeFlatRecord(Build, Now) : MailSays(calls, Keys, r, Now)
          /\ DecodeFlatRecord(Build, Now) # {}
    /\ \A item \in Range(batch) : InRequest /\ Is(arrived[item.from], "mail") =>
          MailSays(arrived[item.from].mail, Keys, item.record, Now)

\* A request has every record of its batch once, under its own resource and scope: the groups
\* in the order of their first records, and no two groups of one origin
\* (otelfwd.cpp:984 "Groups and the records within them keep the arrival order of the records")
PayloadIsBatch == InRequest =>
    LET due == InGroups(Records(batch))
        request == Request
    IN  /\ RecordsRead(request) = [i \in DOMAIN due |-> ToRead(due[i])]
        /\ Len(Find(request, "resourceLogs").array) = Cardinality(Origins(due))

\* A request as protobuf says the same as the JSON, and a request which cannot be converted
\* completely is refused: nothing is left out
\* (otlp_protobuf.hpp:21-25 "Every member which is in the JSON is written")
RequestIsPayload ==
    /\ InRequest =>
          LET request == Request
              results == Convert(request)
          IN results # {} /\ \A cells \in results : Says(cells, request, "Request")
    /\ \A a \in {a \in Range(arrived) : Is(a, "wal")} :
          \A cells \in Convert(a.wal) : Says(cells, a.wal, "Request")

Shown(value) ==
    CASE Is(value, "intValue") -> ToString(value.intValue)
      [] Is(value, "boolValue") -> JsonText(Bool(value.boolValue))
      [] Is(value, "doubleValue") -> value.doubleValue
      [] OTHER -> value.stringValue
Members(doc, name) == IF Has(doc, name, "object")
    THEN SelectSeq(Find(doc, name).object, LAMBDA m : ~Is(m[2], "null")) ELSE << >>
Keeps(kvs, members) ==
    /\ Len(kvs) = Len(members)
    /\ \A i \in DOMAIN kvs : /\ kvs[i].key = members[i][1]
                             /\ Shown(kvs[i].value) =
                                    IF Is(members[i][2], "string") THEN members[i][2].string ELSE JsonText(members[i][2])

\* A number of nanoseconds, also as a text of digits
TimeSaid(doc, name) ==
    LET v == IF name \in Names(doc) THEN Find(doc, name) ELSE Null
        n == IF Is(v, "string") /\ IsDecimal(v.string) THEN Number(v.string) ELSE v
    IN IF Is(n, "int") /\ n.int \in 1..MaxInt THEN n.int ELSE 0

FlatSays(doc, r) ==
    /\ r.observed = FirstOf(TimeSaid(doc, "observed_time_unix_nano"), Now)
    /\ r.time = FirstOf(TimeSaid(doc, "time_unix_nano"), r.observed)
    /\ Keeps(r.attributes, Members(doc, "attributes"))
    /\ Keeps(r.resource, Members(doc, "resource"))

\* Emergency to critical are fatal in OTLP, notice and info are info
SeverityRange(level) ==
    CASE level < 3 -> 21..24 [] level = 3 -> 17..20 [] level = 4 -> 13..16 [] level < 7 -> 9..12 [] OTHER -> 5..8

SyslogSays(m, r) ==
    /\ r.line = m.text /\ r.scopeName = m.tag
    /\ r.severity \in SeverityRange(m.pri % 8)
    /\ LET said == FirstOf(m.time, Now)
       IN r.time \in (IF m.exact THEN {said} ELSE (said - DoubleStep)..(said + DoubleStep))
    /\ r.observed = Now
    /\ \A kv \in Range(r.resource) : kv.key = "service.name" => kv.value.stringValue = m.service
    /\ [i \in DOMAIN r.attributes |-> r.attributes[i].key] = m.keys

\* Flat records keep every attribute exactly, and their times, a syslog message is read as it
\* was formatted (a time which is a JSON number up to the next floating point number), a line of
\* the console has the id which it names, and every input is counted
\* (otelfwd.cpp:1227 DecodeFlatRecord, 2192 ParseSyslogMessage, 705 ExtractProcessId)
InputsAreRead ==
    /\ \A item \in Range(queue) \cup Range(batch) : LET from == arrived[item.from] r == item.record IN
          /\ Is(from, "flat") => FlatSays(Parse(from.flat), r)
          /\ Is(from, "syslog") => Is(from.syslog, "pri") /\ SyslogSays(from.syslog, r)
          /\ Is(from, "console") /\ r.attributes # << >> =>
                ValueFor(r.attributes, "process.pid") = IF from.console.pid = 0 THEN {} ELSE {[intValue |-> from.console.pid]}
    /\ LET socketInputs == SelectSeq(arrived, LAMBDA a :
               ~Is(a, "console") /\ ~Is(a, "wal") /\ (Is(a, "syslog") => Datagram(a.syslog) # ""))
           open == SelectSeq(waiting, LAMBDA n : Datagram(arrived[n].syslog) # "")
       IN unread = 0 => counts.Accepted + counts.Dropped + counts.Invalid = Len(socketInputs) - Len(open)
=============================================================================
