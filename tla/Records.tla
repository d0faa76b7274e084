------------------------------ MODULE Records ------------------------------
(***************************************************************************)
(* The way of a record from its producer to the request which is pushed:   *)
(* what a mail program, a program which writes flat records, a sender of   *)
(* syslog messages and the console of a server mean, and which name a line *)
(* of a console gets.  An installation has some of the producers.  What a  *)
(* receiver reads is in Receiver.                                          *)
(***************************************************************************)
EXTENDS MailLog, SyslogMessage, ProcessNames, Utf8

CONSTANTS
    Installations,      \* sets of producers
    MailCalls,          \* calls a mail program makes
    FlatLines,          \* JSON values a program writes
    Messages,           \* what senders of syslog messages mean, or raw datagrams
    ConsoleLines,       \* lines of a console: a text and the process id they name
    Bytes,              \* bytes of a text which is not checked when it is read
    WalRequests,        \* requests which another version of the program left in the WAL
    QueueMax,           \* records of the socket inputs which the queue takes
    Now,                \* the time of arrival
    MaxCalls, MaxBytes, \* bounds: calls of a mail program, bytes
    MaxInputs           \* bound: the inputs of each installation

ASSUME RecordsAssumption == Bytes \subseteq 0..255 /\ Unknown \notin Tasks

VARIABLES
    producers,          \* the installation
    arrived,            \* history: what was meant, in the order of arrival
    waiting,            \* the datagrams in the socket, by their number in arrived
    listening,          \* the thread of the syslog socket runs
    unread,             \* history: how many datagrams it left in the socket
    counts,             \* the counters of the input
    queue,              \* the queue: records, and the number of their input
    batch,              \* Batch, and the number of records which are ready for the request
    ready,
    text                \* the bytes of a text

inputVars == <<arrived, waiting, listening, unread, counts, text>>
vars == <<mailVars, nameVars, inputVars, producers, queue, batch, ready>>

Init ==
    /\ MailInit /\ NamesInit
    /\ producers \in Installations
    /\ arrived = << >> /\ waiting = << >> /\ listening = TRUE /\ unread = 0
    /\ counts = [Accepted |-> 0, Dropped |-> 0, Invalid |-> 0]
    /\ queue = << >> /\ batch = << >> /\ ready = 0 /\ text = << >>

(***************************************************************************)
(* The producers.                                                          *)
(***************************************************************************)
Call(c) ==
    \/ Is(c, "clear") /\ Clear
    \/ Is(c, "bounce") /\ SetEnvelopeFromEmpty
    \/ Is(c, "resource") /\ SetResourceAttribute(c.resource, c.text)
    \/ Is(c, "recipient") /\ AddRecipient(c.recipient, c.status, c.code, "", "")
    \/ Is(c, "attachment") /\ AddAttachment(c.attachment, c.size, c.sha256, "")
    \/ Is(c, "flag") /\ SetFlag(c.set, c.flag)
    \/ Is(c, "add") /\ (IF c.add \in RecipientKeys THEN AddAddress(c.add, c.text) ELSE AddHeader(c.header, c.text))
    \/ Is(c, "number") /\ (IF c.set = "severity_number" THEN SetSeverity(c.number, c.text) ELSE SetNumber(c.set, c.number))
    \/ /\ Is(c, "set") /\ Is(c, "text") /\ ~Is(c, "number")
       /\ CASE c.set = "body" -> SetBody(c.text)
            [] c.set = "email.spam.score" -> SetSpamScore(c.text)
            [] OTHER -> SetText(c.set, c.text)

MailProgramCalls(c) ==
    /\ "mail" \in producers /\ Len(calls) < MaxCalls
    /\ Call(c)
    /\ UNCHANGED <<nameVars, inputVars, producers, queue, batch, ready>>

Arrives(from) == Len(arrived) < MaxInputs[producers] /\ arrived' = Append(arrived, from)

\* The record of an input: counted, and dropped if the queue is full
Handle(records, n) ==
    IF records = {} THEN counts' = [counts EXCEPT !.Invalid = @ + 1] /\ UNCHANGED queue
    ELSE IF Len(queue) >= QueueMax THEN counts' = [counts EXCEPT !.Dropped = @ + 1] /\ UNCHANGED queue
    ELSE /\ counts' = [counts EXCEPT !.Accepted = @ + 1]
         /\ queue' = Append(queue, [record |-> CHOOSE r \in records : TRUE, from |-> n])

IngestHandleLine(line, from) ==
    /\ Arrives(from)
    /\ Handle(DecodeFlatRecord(line, Now), Len(arrived'))
    /\ UNCHANGED <<mailVars, nameVars, waiting, listening, unread, text, producers, batch, ready>>

MailProgramSends == "mail" \in producers /\ calls # << >> /\ IngestHandleLine(Build, [mail |-> calls])

ProgramWrites(line) == "flat" \in producers /\ IngestHandleLine(line, [flat |-> line])

\* <PRI>, a time stamp, a host name or none, a tag with a process id or none
Format(m) ==
    "<" \o ToString(m.pri) \o ">" \o (IF m.stamp THEN "Jan  1 00:00:00 " ELSE "")
    \o (IF m.host = "" THEN "" ELSE m.host \o " ")
    \o (IF m.tag = "" THEN "" ELSE m.tag \o (IF m.pid THEN "[17]" ELSE "") \o ": ")
    \o m.text \o (IF m.end THEN "\n" ELSE "")

Datagram(m) == IF Is(m, "raw") THEN m.raw ELSE Format(m)

SyslogSends(m) ==
    /\ "syslog" \in producers
    /\ Arrives([syslog |-> m])
    /\ waiting' = IF listening THEN Append(waiting, Len(arrived')) ELSE waiting
    /\ unread' = IF listening THEN unread ELSE unread + 1
    /\ UNCHANGED <<mailVars, nameVars, listening, counts, text, producers, queue, batch, ready>>

\* A datagram without a byte is not counted
SyslogThread ==
    /\ listening /\ waiting # << >>
    /\ LET m == arrived[Head(waiting)].syslog
       IN IF Datagram(m) = "" THEN UNCHANGED <<counts, queue>>
          ELSE Handle(IF Is(m, "oversized") THEN {} ELSE DecodeSyslogMessage(Datagram(m), Now), Head(waiting))
    /\ waiting' = Tail(waiting)
    /\ UNCHANGED <<mailVars, nameVars, arrived, listening, unread, text, producers, batch, ready>>

\* The shutdown: what is in the socket is lost
SyslogThreadEnds ==
    /\ "syslog" \in producers /\ listening
    /\ listening' = FALSE /\ waiting' = << >> /\ unread' = unread + Len(waiting)
    /\ UNCHANGED <<mailVars, nameVars, arrived, counts, text, producers, queue, batch, ready>>

ConsoleWrites(line) ==
    /\ "console" \in producers
    /\ Arrives([console |-> line])
    /\ queue' = Append(queue, [from |-> Len(arrived'),
           record |-> [EmptyRecord EXCEPT !.time = Now, !.line = line.text]])
    /\ UNCHANGED <<mailVars, nameVars, waiting, listening, unread, counts, text, producers, batch, ready>>

WalHolds(v) ==
    /\ "wal" \in producers
    /\ Arrives([wal |-> v])
    /\ UNCHANGED <<mailVars, nameVars, waiting, listening, unread, counts, text, producers, queue, batch, ready>>

ByteArrives(b) ==
    /\ "bytes" \in producers /\ Len(text) < MaxBytes
    /\ text' = Append(text, b)
    /\ UNCHANGED <<mailVars, nameVars, arrived, waiting, listening, unread, counts, producers, queue, batch, ready>>

ServerActs ==
    /\ "console" \in producers
    /\ (\E p \in Pids, t \in Tasks : StartProcess(p, t)) \/ ReplaceFile \/ EmptyFile \/ WriteFile
    /\ UNCHANGED <<mailVars, inputVars, producers, queue, batch, ready>>

(***************************************************************************)
(* The push thread.                                                        *)
(***************************************************************************)
PopBatch ==
    /\ batch = << >> /\ queue # << >>
    /\ batch' = queue /\ queue' = << >> /\ ready' = 0
    /\ UNCHANGED <<mailVars, nameVars, inputVars, producers>>

Current == batch[ready + 1].record
CurrentPid == ExtractProcessId(Current.line)
Ready(record) == batch' = [batch EXCEPT ![ready + 1].record = record] /\ ready' = ready + 1
pushOnly == <<mailVars, inputVars, producers, queue>>

\* A record which is not from STDIN, or whose process is known, is ready at once
RecordIsReady ==
    /\ ready < Len(batch)
    /\ \/ /\ Current.source # "stdin"
          /\ Ready(Current)
          /\ UNCHANGED nameVars
       \/ /\ Current.source = "stdin"
          /\ TakeName(CurrentPid)
          /\ Ready(SetStdinAttributes(Current, CurrentPid, GetProcessNameFromMap(pidMap, CurrentPid)))
    /\ UNCHANGED pushOnly

\* The name of another process is looked for in the file
ReloadNames ==
    /\ ready < Len(batch) /\ Current.source = "stdin"
    /\ \/ GetProcessNameFromMap(pidMap, CurrentPid) = "" /\ OpenPidFile
       \/ StatPidFile
       \/ ReadPidFile
    /\ UNCHANGED <<pushOnly, batch, ready>>

PushBatch ==
    /\ batch # << >> /\ ready = Len(batch)
    /\ batch' = << >> /\ ready' = 0
    /\ UNCHANGED <<mailVars, nameVars, inputVars, producers, queue>>

Next ==
    \/ \E c \in MailCalls : MailProgramCalls(c)
    \/ MailProgramSends
    \/ \E line \in FlatLines : ProgramWrites(line)
    \/ \E m \in Messages : SyslogSends(m)
    \/ SyslogThread \/ SyslogThreadEnds
    \/ \E line \in ConsoleLines : ConsoleWrites(line)
    \/ \E v \in WalRequests : WalHolds(v)
    \/ \E b \in Bytes : ByteArrives(b)
    \/ ServerActs
    \/ PopBatch \/ RecordIsReady \/ ReloadNames \/ PushBatch

Spec == Init /\ [][Next]_vars
-----------------------------------------------------------------------------
ValueFor(kvs, key) == {kv.value : kv \in {kv \in Range(kvs) : kv.key = key}}

\* The process id which is read in a line is the one which the server wrote there
\* (otelfwd.cpp:617 ExtractProcessId)
IdsAreRead == \A line \in ConsoleLines : ExtractProcessId(line.text) = line.pid

TaskOf(r) == (CHOOSE v \in ValueFor(r.attributes, "domino.task") : TRUE).stringValue

\* A line has the name of a task which its process ever had, and it has a name if the file
\* names the process and was not changed after it was looked at, up to one case: the file was
\* replaced between the open and the stat, and counts as read until it changes again
\* (otelfwd.cpp:664 LoadPidMap, 754 GetProcessName)
ProcessesAreNamed ==
    /\ NamesAreKnown
    /\ \A i \in 1..ready : batch[i].record.source = "stdin" =>
           LET p == arrived[batch[i].from].console.pid
               task == TaskOf(batch[i].record)
           IN  /\ task # Unknown => <<p, task>> \in had
               /\ i = ready /\ task = Unknown /\ p \in Pids /\ files # << >> /\ ~missed /\ seen = Stat /\ reload = NoReload
                     => files[Len(files)][p] = ""

\* A text becomes UTF-8: its characters stay, and every other byte is replaced
\* (otelfwd.cpp:782 ToValidUtf8 "Reject overlong encodings, surrogates and code points above
\* U+10FFFF")
TextIsValid == ToValidUtf8(text) = Replaced(text)
=============================================================================
