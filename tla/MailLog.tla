------------------------------ MODULE MailLog ------------------------------
(***************************************************************************)
(* One object of the class MailLog, which a mail program fills by calls    *)
(* and builds records from.  Text which is empty and numbers which are not *)
(* positive are ignored: they never replace a value.                       *)
(***************************************************************************)
EXTENDS JsonValue

VARIABLES
    mail,               \* the object
    calls               \* history: the calls of the program so far

mailVars == <<mail, calls>>

RecipientKeys == {"email.to.addresses", "email.cc.addresses", "email.bcc.addresses"}
MessageKeys == {"email.from.address", "email.envelope.from.address", "email.subject",
    "email.message.id", "email.queue.id", "email.event", "email.direction"}
TlsKeys == {"email.crypto.protocol.name", "tls.protocol.name", "tls.protocol.version", "tls.cipher"}
    \cup {"tls." \o side \o "." \o what : side \in {"client", "server"},
          what \in {"subject", "issuer", "hash.sha256", "not_before", "not_after"}}
PeerKeys == {"client.address", "server.address", "network.local.address", "network.peer.address",
    "email.smtp.helo", "email.smtp.response.enhanced_status_code", "email.smtp.response.text"}
CheckKeys == {"email.spam.result", "email.spf.result", "email.dkim.result", "email.dmarc.result",
    "email.spf.domain", "email.dkim.domain", "email.dkim.selector", "email.virus.result"}
PolicyKeys == {"email.spam.engine.name", "email.virus.engine.name", "email.virus.threat.name",
    "email.classification", "email.auto_submitted", "email.action", "email.reason",
    "email.policy.name", "email.policy.id"}
TextKeys == MessageKeys \cup TlsKeys \cup PeerKeys \cup CheckKeys \cup PolicyKeys

\* In the order in which Build writes them
SizeKey == "email.size_bytes"
PortKeys == <<"client.port", "server.port", "network.local.port", "network.peer.port",
    "email.smtp.response.code">>
FlagKeys == <<"email.signed", "email.encrypted", "tls.established">>
VirusKey == "email.virus.checked"

\* Text and time fields of the record itself
FieldKeys == {"body", "severity_text"}
TimeKeys == {"time_unix_nano", "observed_time_unix_nano"}
NumberKeys == {SizeKey, "severity_number"} \cup Range(PortKeys) \cup TimeKeys

EmptyMail == [
    resource |-> << >>, attributes |-> << >>, recipients |-> << >>, attachments |-> << >>,
    text |-> [k \in FieldKeys |-> ""], number |-> [k \in NumberKeys |-> 0],
    flag |-> [k \in Range(FlagKeys) \cup {VirusKey} |-> {}],        \* {}: not set
    score |-> ""]                                                   \* "": not set

MailInit == mail = EmptyMail /\ calls = << >>

FindValues(list, key) ==
    LET found == SelectSeq(list, LAMBDA e : e.key = key)
    IN IF found = << >> THEN << >> ELSE found[1].values

\* MUTANT of Put: every value comes to the end
PutAtEnd(list, key, values) == Append(list, [key |-> key, values |-> values])

\* The values of a key which is in the list are replaced, a new key comes to the end
Put(list, key, values) ==
    IF FindValues(list, key) = << >> THEN Append(list, [key |-> key, values |-> values])
    ELSE [i \in DOMAIN list |-> IF list[i].key = key THEN [key |-> key, values |-> values] ELSE list[i]]

SetValue(list, key, v) == Put(list, key, <<v>>)
AddValue(list, key, v) == Put(list, key, Append(FindValues(list, key), v))

Lower == [c \in Range(Chars("ABCXT")) |->
    CASE c = "A" -> "a" [] c = "B" -> "b" [] c = "C" -> "c" [] c = "X" -> "x" [] c = "T" -> "t"]
LowerOrDigit(c) == c \in Range(Lower) \/ IsDigit(c)

NormalizeHeaderName(name) == Text([i \in 1..Len(name) |->
    LET c == SubSeq(name, i, i)
    IN IF c \in DOMAIN Lower THEN Lower[c] ELSE IF LowerOrDigit(c) THEN c ELSE "_"])
HeaderKey(name) == "email.header." \o NormalizeHeaderName(name)

(***************************************************************************)
(* The calls.  A call is recorded also when it is ignored.                 *)
(***************************************************************************)
Called(call, new) == mail' = new /\ calls' = Append(calls, call)

SetText(key, text) == Called([set |-> key, text |-> text],
    IF text = "" THEN mail ELSE [mail EXCEPT !.attributes = SetValue(@, key, text)])

AddAddress(key, text) == Called([add |-> key, text |-> text],
    IF text = "" THEN mail ELSE [mail EXCEPT !.attributes = AddValue(@, key, text)])

AddHeader(name, text) == Called([add |-> HeaderKey(name), text |-> text],
    IF name = "" \/ text = "" THEN mail
    ELSE [mail EXCEPT !.attributes = AddValue(@, HeaderKey(name), text)])

\* The sender of a bounce: an empty text which is a value
SetEnvelopeFromEmpty == Called([bounce |-> TRUE],
    [mail EXCEPT !.attributes = SetValue(@, "email.envelope.from.address", "")])

SetResourceAttribute(key, text) == Called([resource |-> key, text |-> text],
    IF key = "" \/ text = "" THEN mail ELSE [mail EXCEPT !.resource = SetValue(@, key, text)])

SetNumber(key, n) == Called([set |-> key, number |-> n],
    IF n <= 0 THEN mail ELSE [mail EXCEPT !.number[key] = n])

SetBody(text) == Called([set |-> "body", text |-> text],
    IF text = "" THEN mail ELSE [mail EXCEPT !.text["body"] = text])

SetSeverity(n, text) == Called([set |-> "severity_number", number |-> n, text |-> text],
    IF n <= 0 \/ n > 24 THEN mail
    ELSE [mail EXCEPT !.number["severity_number"] = n, !.text["severity_text"] = text])

SetFlag(key, b) == Called([set |-> key, flag |-> b], [mail EXCEPT !.flag[key] = {b}])

\* score: the shortest text which reads back as the number, "nan" and "inf" have none
SetSpamScore(score) == Called([set |-> "email.spam.score", text |-> score],
    [mail EXCEPT !.score = score])

Positive(n) == IF n > 0 THEN n ELSE 0

AddRecipient(address, status, code, enhanced, text) ==
    Called([recipient |-> address, status |-> status, code |-> code],
        IF address = "" THEN mail
        ELSE [mail EXCEPT !.recipients = Append(@, [address |-> address, status |-> status,
                 code |-> Positive(code), enhanced |-> enhanced, text |-> text])])

AddAttachment(name, size, sha256, contentType) ==
    Called([attachment |-> name, size |-> size, sha256 |-> sha256],
        IF name = "" THEN mail
        ELSE [mail EXCEPT !.attachments = Append(@, [name |-> name, size |-> Positive(size),
                 sha256 |-> sha256, contentType |-> contentType])])

Clear == Called([clear |-> TRUE], EmptyMail)

(***************************************************************************)
(* Build: the record as it is sent.                                        *)
(***************************************************************************)
Escaped(s) == Str(Escape(s))
TextMember(name, s) == IF s = "" THEN << >> ELSE << <<name, Escaped(s)>> >>
NumberMember(name, n) == IF n = 0 THEN << >> ELSE << <<name, Num(ToString(n))>> >>
FlagMember(name, set) == IF set = {} THEN << >> ELSE << <<name, Bool(TRUE \in set)>> >>
ArrayMember(name, seq, Item(_)) ==
    IF seq = << >> THEN << >> ELSE << <<name, Arr([i \in DOMAIN seq |-> Item(seq[i])])>> >>
Concat(seqs) == FlattenSeq(seqs)

AppendRecipient(r) == Obj(
    << <<"address", Escaped(r.address)>> >> \o TextMember("status", r.status)
    \o NumberMember("code", r.code) \o TextMember("enhanced_status_code", r.enhanced)
    \o TextMember("text", r.text))

AppendAttachment(a) == Obj(
    << <<"name", Escaped(a.name)>> >> \o NumberMember("size_bytes", a.size)
    \o TextMember("sha256", a.sha256) \o TextMember("content_type", a.contentType))

\* Every key of the resource has one value: it is only ever set
AppendResource(list) == Obj([i \in DOMAIN list |-> <<Escape(list[i].key), Escaped(list[i].values[1])>>])

IsRecipientKey(key) == key \in RecipientKeys

AttributeMember(e) ==
    <<Escape(e.key),
      IF Len(e.values) = 1 /\ ~IsRecipientKey(e.key) THEN Escaped(e.values[1])
      ELSE Arr([i \in DOMAIN e.values |-> Escaped(e.values[i])])>>

\* A whole number is written with ".0", so that it is read as a floating point number
ScoreText(score) ==
    IF \E i \in 1..Len(score) : SubSeq(score, i, i) \in {".", "e"} THEN score ELSE score \o ".0"
ScoreMember ==
    IF mail.score \in {"", "nan", "inf"} THEN << >>
    ELSE << <<"email.spam.score", Num(ScoreText(mail.score))>> >>

Attributes ==
    [i \in DOMAIN mail.attributes |-> AttributeMember(mail.attributes[i])]
    \o NumberMember(SizeKey, mail.number[SizeKey])
    \o ArrayMember("email.attachments", mail.attachments, AppendAttachment)
    \o ArrayMember("email.envelope.recipients", mail.recipients, AppendRecipient)
    \o Concat([i \in DOMAIN PortKeys |-> NumberMember(PortKeys[i], mail.number[PortKeys[i]])])
    \o Concat([i \in DOMAIN FlagKeys |-> FlagMember(FlagKeys[i], mail.flag[FlagKeys[i]])])
    \o ScoreMember \o FlagMember(VirusKey, mail.flag[VirusKey])

\* A short text of what is there, for a record without a body
BuildDefaultBody ==
    LET First(prefix, key, suffix) == LET v == FindValues(mail.attributes, key)
            IN IF v = << >> THEN << >> ELSE <<prefix \o v[1] \o suffix>>
        envelope == First("from=<", "email.envelope.from.address", ">")
        from == IF envelope # << >> THEN envelope ELSE First("from=", "email.from.address", "")
        Count(key) == Len(FindValues(mail.attributes, key))
        recipients == IF mail.recipients # << >> THEN Len(mail.recipients)
                      ELSE Count("email.to.addresses") + Count("email.cc.addresses")
                           + Count("email.bcc.addresses")
        parts == First("", "email.event", "") \o First("", "email.action", "") \o from
                 \o First("message-id=", "email.message.id", "")
                 \o IF recipients = 0 THEN << >> ELSE <<"nrcpt=" \o ToString(recipients)>>
    IN Fold(LAMBDA a, p : IF a = "" THEN p ELSE a \o " " \o p, "", parts)

Body == IF mail.text["body"] # "" THEN mail.text["body"] ELSE BuildDefaultBody

TimeMember(name) ==
    IF mail.number[name] = 0 THEN << >> ELSE << <<name, Str(ToString(mail.number[name]))>> >>
SeverityMembers ==
    IF mail.number["severity_number"] = 0 THEN << >>
    ELSE NumberMember("severity_number", mail.number["severity_number"])
         \o TextMember("severity_text", mail.text["severity_text"])

Build == Obj(
    << <<"scope", Obj(<< <<"name", Str("mail-log")>>, <<"version", Str("0.1.0")>> >>)>> >>
    \o (IF mail.resource = << >> THEN << >> ELSE << <<"resource", AppendResource(mail.resource)>> >>)
    \o TimeMember("time_unix_nano") \o TimeMember("observed_time_unix_nano") \o SeverityMembers
    \o TextMember("body", Body)
    \o (IF Attributes = << >> THEN << >> ELSE << <<"attributes", Obj(Attributes)>> >>))
=============================================================================
