----------------------------- MODULE MCRecords -----------------------------
(***************************************************************************)
(* Records on small inputs.  Integers have 16 bits instead of 64, a        *)
(* process id has 8 instead of 32, the unit of time is a hundredth of a    *)
(* second and not a nanosecond.                                            *)
(***************************************************************************)
EXTENDS Receiver

MCIdentity == [name |-> "domino", namespace |-> "notes", instance |-> "i1", host |-> "h1"]

Set(key, value) == [set |-> key, text |-> value]
Add(key, value) == [add |-> key, text |-> value]
Header(name, value) == [add |-> "header", header |-> name, text |-> value]
NumberCall(key, n) == [set |-> key, number |-> n]

MCMailCalls == {
    [clear |-> TRUE], [bounce |-> TRUE],
    Set(Sender, "a@x"), Set(Sender, ""), Set("email.event", "say \"hi\"\n"),
    Add("email.to.addresses", "b\\c"), Header("X-A", "1"), Header("x_a", "2"),
    [resource |-> "service.name", text |-> "mta"], [resource |-> "service.name", text |-> "mta2"],
    NumberCall("time_unix_nano", 32767), NumberCall(SizeKey, 130),
    [set |-> "severity_number", number |-> 17, text |-> "ERROR"], [set |-> "tls.established", flag |-> FALSE],
    Set("body", "text"), Set("email.spam.score", "5"), Set("email.spam.score", "nan"),
    [recipient |-> "f", status |-> "delivered", code |-> 250], [attachment |-> "g", size |-> 0, sha256 |-> "00"]}

\* 128 characters: its length has two bytes in protobuf
Long == Fold(LAMBDA s, i : s \o s, "0123456789abcdef", <<1, 2, 3>>)

MCFlatLines == {
    Obj(<< <<"body", Str("b")>>, <<"resource", Obj(<< <<"service.name", Str("p")>> >>)>>,
           <<"attributes", Obj(<< <<"a", Num("32767")>>, <<"b", Num("32768")>>, <<"c", Num("-32768")>>, <<"d", Null>> >>)>> >>),
    Obj(<< <<"body", Str(Long)>>, <<"time_unix_nano", Str("32767")>>, <<"observed_time_unix_nano", Num("9")>>,
           <<"attributes", Obj(<< <<"a", Num("0.5")>>, <<"b", Bool(TRUE)>>, <<"c", Num("70000")>> >>)>> >>),
    Obj(<< <<"body", Obj(<< <<"x", Str("y\\\"")>> >>)>>, <<"time_unix_nano", Str("65536")>>, <<"severity_number", Num("9")>>,
           <<"scope", Obj(<< <<"name", Str("s")>>, <<"version", Num("1")>> >>)>>,
           <<"attributes", Obj(<< <<"a", Arr(<<Num("1"), Str("t")>>)>> >>)>> >>),
    Obj(<< <<"body", Null>>, <<"time_unix_nano", Num("32768")>>, <<"severity_number", Num("25")>>,
           <<"scope", Obj(<< <<"name", Str("s")>>, <<"version", Str("2")>> >>)>>, <<"attributes", Str("a")>> >>),
    Obj(<< <<"time_unix_nano", Str("65535")>>, <<"observed_time_unix_nano", Str("1x")>>,
           <<"resource", Obj(<< <<"service.name", Str("p")>> >>)>> >>),
    Arr(<<Num("1")>>)}

Rough == "{\"time\":12.31}"
Parts(pri, host, tag, pid, said, service, time, keys) ==
    {[pri |-> pri, stamp |-> s, host |-> host, tag |-> tag, pid |-> pid, text |-> said, end |-> s,
      service |-> service, time |-> time, exact |-> said # Rough, keys |-> keys] : s \in BOOLEAN}

Access == "{\"time\":\"12.5\",\"status\":200,\"agent\":\"\"}"
MCDocuments ==
    Access :> Obj(<< <<"time", Str("12.5")>>, <<"status", Int64(200)>>, <<"agent", Str("")>> >>)
    @@ "{\"time\":7}" :> Obj(<< <<"time", Int64(7)>> >>)
    @@ Rough :> Obj(<< <<"time", Double("12.31")>> >>)

MCMessages ==
    Parts(190, "", "nginx_access", FALSE, Access, "nginx", 1250, <<"status">>)
    \cup Parts(8, "host", "nginx_error", TRUE, "a: b", "nginx", 0, << >>)
    \cup Parts(191, "", "", FALSE, "plain text", "domino", 0, << >>)
    \cup Parts(0, "", "app", TRUE, "{\"time\":7}", "app", 700, << >>)
    \cup Parts(131, "", "app", FALSE, Rough, "app", 1231, << >>)
    \cup Parts(34, "host", "_x", FALSE, "y", "domino", 0, << >>)
    \cup {[raw |-> r] : r \in {"", "<1>", "<192>a: b", "<1234>a: b", "<x>a: b", "<12", "<5>a: ", "a: b c"}}
    \cup {[raw |-> "<1>a: b", oversized |-> TRUE]}

MCConsoleLines == {
    [text |-> "[7:1] up", pid |-> 7], [text |-> "[0009:2] up", pid |-> 9],
    [text |-> "[7]", pid |-> 0]}

ASSUME LinesAreRead == IdsAreRead

MCWalRequests ==
    LET Log(members) == Obj(<< <<"resourceLogs", Arr(<<Obj(<< <<"scopeLogs", Arr(<<Obj(<<
            <<"logRecords", Arr(<<Obj(members)>>)>> >>)>>)>> >>)>>)>> >>)
    IN  {Log(<<m>>) : m \in {<<"traceId", Str("1")>>, <<"timeUnixNano", Str("65535")>>, <<"timeUnixNano", Str("65536")>>,
            <<"timeUnixNano", Int64(4)>>, <<"timeUnixNano", Int64(-4)>>, <<"severityNumber", Int64(-1)>>,
            <<"severityNumber", Str("1")>>, <<"body", Obj(<< >>)>>,
            <<"body", Obj(<< <<"stringValue", Str("")>> >>)>>,
            <<"body", Obj(<< <<"intValue", Str("-32768")>> >>)>>, <<"body", Obj(<< <<"intValue", Str("32768")>> >>)>>,
            <<"body", Obj(<< <<"doubleValue", Int64(2)>> >>)>>, <<"body", Obj(<< <<"bytesValue", Str("2")>> >>)>>,
            <<"body", Obj(<< <<"boolValue", Bool(TRUE)>>, <<"intValue", Int64(2)>> >>)>>,
            <<"attributes", Arr(<< Obj(<< <<"value", Obj(<< >>)>> >>) >>)>>,
            <<"attributes", Arr(<< Obj(<< <<"key", Str("k")>> >>) >>)>>, <<"attributes", Obj(<< >>)>>}}
        \cup {Log(<< <<"body", Obj(<< >>)>>, <<"observedTimeUnixNano", Str("300")>>, <<"timeUnixNano", Str("2")>> >>),
              Obj(<< >>), Obj(<< <<"resourceLogs", Null>> >>)}

\* Three records make a batch in which two of one origin stand around another one, and a fourth
\* finds the queue full
MCMaxInputs ==
    {"mail"} :> 1 @@ {"flat"} :> 4 @@ {"flat", "syslog"} :> 2 @@ {"console"} :> 2 @@ {"wal"} :> 2 @@ {"bytes"} :> 0
MCInstallations == DOMAIN MCMaxInputs
MCBytes == {0, 127, 128, 143, 144, 159, 160, 191, 193, 194, 223, 224, 225, 237, 239, 240, 243, 244, 245, 255}
=============================================================================
