--------------------------- MODULE SyslogMessage ---------------------------
(***************************************************************************)
(* How a datagram of the syslog input becomes a record:                    *)
(*     <PRI>Mmm dd hh:mm:ss [hostname ]tag: message                        *)
(***************************************************************************)
EXTENDS LogRecord

CONSTANTS
    Documents,          \* the messages which are JSON objects, with their values
    FracDigits,         \* nine: the unit of time is 10 ^ -FracDigits seconds
    DoubleStep,         \* the distance of two floating point numbers of seconds, in units
    MaxSeconds          \* later times are refused

ASSUME TimeAssumption ==
    FracDigits \in Nat /\ DoubleStep \in Nat \ {0} /\ MaxSeconds \in Nat /\ (MaxSeconds + 1) * 10 ^ FracDigits <= MaxInt + 1

Char(s, i) == SubSeq(s, i, i)
From(s, i) == SubSeq(s, i, Len(s))

\* The first position of one of the characters at or behind i, Len(s) + 1 if there is none
Position(s, i, chars) ==
    LET found == {j \in i..Len(s) : Char(s, j) \in chars}
    IN IF found = {} THEN Len(s) + 1 ELSE Min(found)

Letters == Range(Chars("ABCDEFGHIJKLMNOPQRSTUVWXYZabcdefghijklmnopqrstuvwxyz"))

StampLength == 16
HasStamp(msg, pos) ==
    /\ Len(msg) >= pos - 1 + StampLength
    /\ Char(msg, pos) \in Letters
    /\ Char(msg, pos + 3) = " " /\ Char(msg, pos + 9) = ":" /\ Char(msg, pos + 12) = ":"
    /\ Char(msg, pos + 15) = " "

\* Without the ends of line at its end
Stripped(s) ==
    LET last == {i \in 1..Len(s) : Char(s, i) \notin {"\n", "\r"}}
    IN IF last = {} THEN "" ELSE SubSeq(s, 1, Max(last))

IsSyslogTag(token) == Len(token) > 1 /\ Char(token, Len(token)) = ":"

\* tag[123] is tag, but [123] has no name in front of the bracket
WithoutPid(tag) ==
    LET bracket == Position(tag, 1, {"["})
    IN IF tag # "" /\ Char(tag, Len(tag)) = "]" /\ bracket \in 2..Len(tag)
       THEN SubSeq(tag, 1, bracket - 1) ELSE tag

ParseSyslogMessage(msg) ==
    LET digits == {n \in 1..3 : n + 2 <= Len(msg) /\ IsDecimal(SubSeq(msg, 2, n + 1))}
        close == Max(digits \cup {0}) + 2
        pri == ValueOf(SubSeq(msg, 2, close - 1))
        rest == Stripped(From(msg, IF HasStamp(msg, close + 1) THEN close + 1 + StampLength ELSE close + 1))
        space1 == Position(rest, 1, {" "})
        token1 == SubSeq(rest, 1, space1 - 1)
        after == From(rest, space1 + 1)
        space2 == Position(after, 1, {" "})
        token2 == SubSeq(after, 1, space2 - 1)
        Message(tag, text) == {[pri |-> pri, tag |-> WithoutPid(tag), text |-> text]}
        Tag(token) == SubSeq(token, 1, Len(token) - 1)
    IN IF Len(msg) < 4 \/ Char(msg, 1) # "<" \/ digits = {} \/ Char(msg, close) # ">" \/ pri > 191 THEN {}
       ELSE IF IsSyslogTag(token1) THEN Message(Tag(token1), after)
       ELSE IF IsSyslogTag(token2) THEN Message(Tag(token2), From(after, space2 + 1))
       ELSE Message("", rest)

\* Emergency is 0, debug is 7
GetSyslogSeverity(n) ==
    <<21, 21, 21, 17, 13, 10, 9, 5>>[n + 1]
SyslogSeverityText(n) ==
    <<"EMERG", "ALERT", "CRIT", "ERROR", "WARN", "NOTICE", "INFO", "DEBUG">>[n + 1]

\* Seconds with a fraction, as text or as number, 0 if it is not valid.  A text is exact, a
\* number which is not whole is the nearest floating point number
GetUnixNanoFromSeconds(v) ==
    LET s == IF Is(v, "string") THEN v.string ELSE IF Is(v, "double") THEN v.double
             ELSE IF Is(v, "int") /\ v.int > 0 THEN ToString(v.int) ELSE ""
        point == Position(s, 1, {"."})
        seconds == SubSeq(s, 1, point - 1)
        frac == SubSeq(s, point + 1, Min({Len(s), point + FracDigits}))
        zeros == Text([i \in 1..(FracDigits - Len(frac)) |-> "0"])
        time == ValueOf(seconds) * 10 ^ FracDigits + ValueOf(frac \o zeros)
        nearest == ((time + (DoubleStep \div 2)) \div DoubleStep) * DoubleStep
    IN IF ~IsDecimal(seconds) \/ ValueOf(seconds) > MaxSeconds \/ (\E i \in (point + 1)..Len(s) : ~IsDigit(Char(s, i)))
       THEN 0
       ELSE IF ~Is(v, "double") THEN time
       ELSE IF nearest <= MaxSeconds * 10 ^ FracDigits THEN nearest ELSE 0

\* The service is the part of the tag in front of the first underscore
GetSyslogResource(tag) ==
    LET service == SubSeq(tag, 1, Position(tag, 1, {"_"}) - 1)
    IN [i \in DOMAIN GetDefaultResource |->
          LET kv == GetDefaultResource[i]
          IN IF service # "" /\ kv.key \in {"service.name", "service.namespace"}
             THEN StringKV(kv.key, service) ELSE kv]

\* The members of a JSON object are attributes, except its time and texts which are empty
SyslogAttributes(doc) ==
    SelectSeq(AddKVsFromJsonObject(doc), LAMBDA kv : kv.key # "time" /\ kv.value # [stringValue |-> ""])

\* m: the parts of a datagram.  now: the time of arrival
SyslogRecord(m, now) ==
    [source |-> "socket", observed |-> now, line |-> m.text,
     time |-> FirstOf(IF m.text \in DOMAIN Documents /\ "time" \in Names(Documents[m.text])
                      THEN GetUnixNanoFromSeconds(Find(Documents[m.text], "time")) ELSE 0, now),
     severity |-> GetSyslogSeverity(m.pri % 8), severityText |-> SyslogSeverityText(m.pri % 8),
     scopeName |-> m.tag, scopeVersion |-> "", resource |-> GetSyslogResource(m.tag),
     attributes |-> IF m.text \in DOMAIN Documents THEN SyslogAttributes(Documents[m.text]) ELSE << >>]

DecodeSyslogMessage(datagram, now) ==
    {SyslogRecord(m, now) : m \in {x \in ParseSyslogMessage(datagram) : x.text # ""}}
=============================================================================
