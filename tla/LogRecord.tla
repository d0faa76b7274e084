----------------------------- MODULE LogRecord -----------------------------
(***************************************************************************)
(* A record on its way through otelfwd, and how it is made from a line in  *)
(* the flat record format and from a line of the console of a server.  A   *)
(* decoder returns the set of its one result, or {} if the input is not    *)
(* valid.                                                                  *)
(***************************************************************************)
EXTENDS JsonValue

CONSTANTS
    Identity,           \* the configured name, namespace, instance and host of the forwarder
    PidBits,            \* the width of a process id
    PrefixMax           \* a process id is looked for in so many characters of a line

ASSUME IdentityAssumption == DOMAIN Identity = {"name", "namespace", "instance", "host"}
ASSUME PidBitsAssumption == PidBits \in Nat \ {0} /\ PrefixMax \in Nat

KV(key, value) == [key |-> key, value |-> value]
StringKV(key, s) == KV(key, [stringValue |-> s])
IntKV(key, n) == KV(key, [intValue |-> n])

\* Two attributes are the same if key, type and value are
SameKV(a, b) == a.key = b.key /\ a.value = b.value
SameKVs(a, b) == Len(a) = Len(b) /\ \A i \in DOMAIN a : SameKV(a[i], b[i])

\* What identifies the service and the instance when a record does not say it
GetDefaultResource ==
    << StringKV("service.name", Identity.name), StringKV("service.namespace", Identity.namespace),
       StringKV("service.instance.id", Identity.instance), StringKV("host.name", Identity.host),
       StringKV("os.type", "linux") >>

EmptyRecord == [
    source |-> "stdin", time |-> 0, observed |-> 0, line |-> "", severity |-> 0, severityText |-> "",
    scopeName |-> "", scopeVersion |-> "", resource |-> << >>, attributes |-> << >>]

(***************************************************************************)
(* Flat records.                                                           *)
(***************************************************************************)

\* MUTANT of AnyValue: casts a number of 64 bits
AnyValueCasts(v) ==
    CASE Is(v, "bool") -> [boolValue |-> v.bool]
      [] Is(v, "string") -> [stringValue |-> v.string]
      [] Is(v, "int") -> [intValue |-> IF v.int > MaxInt THEN v.int - MaxUint - 1 ELSE v.int]
      [] Is(v, "double") -> [doubleValue |-> v.double]
      [] OTHER -> [stringValue |-> JsonText(v)]

\* A number of more than 63 bits is kept as text, and so are lists and objects
AnyValue(v) ==
    CASE Is(v, "bool") -> [boolValue |-> v.bool]
      [] Is(v, "string") -> [stringValue |-> v.string]
      [] Is(v, "int") /\ v.int <= MaxInt -> [intValue |-> v.int]
      [] Is(v, "double") -> [doubleValue |-> v.double]
      [] OTHER -> [stringValue |-> JsonText(v)]

AddKVsFromJsonObject(v) ==
    IF ~Is(v, "object") THEN << >>
    ELSE LET members == SelectSeq(v.object, LAMBDA m : ~Is(m[2], "null"))
         IN [i \in DOMAIN members |-> KV(members[i][1], AnyValue(members[i][2]))]

\* Nanoseconds as decimal text or number, 0 if it is neither or too large.  A text is added
\* up digit by digit, and -1 stands for one which is refused
GetUnixNanoFromJson(v) ==
    LET Add(n, c) == IF n = -1 \/ ~IsDigit(c) THEN -1
                     ELSE IF n > (MaxUint - DigitOf(c)) \div 10 THEN -1
                     ELSE 10 * n + DigitOf(c)
        n == IF Is(v, "string") /\ v.string # "" THEN Fold(Add, 0, Chars(v.string))
             ELSE IF Is(v, "int") THEN v.int ELSE -1
    IN IF n \in 0..MaxInt THEN n ELSE 0

FirstOf(a, b) == IF a # 0 THEN a ELSE b

\* doc: the object which the producer wrote.  now: the time of arrival
FlatRecord(doc, now) ==
    LET TimeOf(name) == IF name \in Names(doc) THEN GetUnixNanoFromJson(Find(doc, name)) ELSE 0
        StringOf(v, name) == IF Has(v, name, "string") THEN Find(v, name).string ELSE ""
        KVsOf(name) == IF name \in Names(doc) THEN AddKVsFromJsonObject(Find(doc, name)) ELSE << >>
        observed == FirstOf(TimeOf("observed_time_unix_nano"), now)
        scope == IF Has(doc, "scope", "object") THEN Find(doc, "scope") ELSE Obj(<< >>)
    IN [source |-> "socket",
           observed |-> observed,
           time |-> FirstOf(TimeOf("time_unix_nano"), observed),
           severity |-> IF Has(doc, "severity_number", "int") /\ Find(doc, "severity_number").int \in 0..24
                        THEN Find(doc, "severity_number").int ELSE 0,
           severityText |-> StringOf(doc, "severity_text"),
           line |-> IF "body" \notin Names(doc) \/ Has(doc, "body", "null") THEN ""
                    ELSE IF Has(doc, "body", "string") THEN Find(doc, "body").string
                    ELSE JsonText(Find(doc, "body")),
           scopeName |-> StringOf(scope, "name"),
           scopeVersion |-> StringOf(scope, "version"),
           resource |-> KVsOf("resource"),
           attributes |-> KVsOf("attributes")]

DecodeFlatRecord(line, now) ==
    IF ~Is(Parse(line), "object") THEN {} ELSE {FlatRecord(Parse(line), now)}

(***************************************************************************)
(* Lines of a console: [pid:...                                            *)
(***************************************************************************)
Unknown == "unknown"

\* The digits behind the bracket, up to a colon.  More digits than a process id can have
\* overflow, which is undefined: the builds wrap
ExtractProcessId(line) ==
    LET end == (CHOOSE n \in 1..(Len(line) + 1) :
                   /\ n = Len(line) + 1 \/ (n > 1 /\ ~IsDigit(SubSeq(line, n, n)))
                   /\ \A i \in 2..(n - 1) : IsDigit(SubSeq(line, i, i)))
        wrapped == ValueOf(SubSeq(line, 2, end - 1)) % (2 ^ PidBits)
    IN IF line = "" \/ SubSeq(line, 1, 1) # "[" \/ end > Len(line) \/ end > PrefixMax
             \/ SubSeq(line, end, end) # ":"
       THEN 0
       ELSE IF wrapped >= 2 ^ (PidBits - 1) THEN wrapped - 2 ^ PidBits ELSE wrapped

\* The attributes of a line with the id and the name of its process, "" if there is no name
SetStdinAttributes(record, pid, process) ==
    [record EXCEPT !.attributes =
        (IF pid > 0 THEN <<IntKV("process.pid", pid)>> ELSE << >>)
        \o <<StringKV("domino.task", IF process = "" THEN Unknown ELSE process)>>]
=============================================================================
