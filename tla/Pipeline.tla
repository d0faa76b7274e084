------------------------------ MODULE Pipeline ------------------------------
(***************************************************************************)
(* The threads of otelfwd.cpp behind the inputs: the main thread, which    *)
(* reads STDIN and shuts the others down, the push thread, which takes     *)
(* batches out of the queue, and the WAL thread, which sends again what    *)
(* could not be pushed.  The WAL is the list of its records and the        *)
(* position of the next one (SimpleWAL has the details), and a request to  *)
(* the receiver ends in one of the ways which PushFailover returns.        *)
(***************************************************************************)
EXTENDS Ingest

CONSTANTS
    StdinLines,  \* the lines of STDIN, numbers larger than those of the clients
    Scenarios,   \* the clients which come, g_NoStdin, and the lines of STDIN
    BatchMax,    \* OTELFWD_MAX_BATCH_RECORDS
    WalRecords   \* the limit of the WAL, in records

ASSUME PipelineAssumption ==
    /\ Lines \subseteq Nat /\ StdinLines \subseteq Nat /\ Lines \cap StdinLines = {}
    /\ BatchMax \in Nat \ {0} /\ WalRecords \in Nat

ASSUME ScenarioAssumption == \A s \in Scenarios : s.stdin \subseteq StdinLines

VARIABLES
    noStdin,    \* g_NoStdin
    main,       \* what the main thread does
    unread,     \* the lines which are still in the pipe of STDIN
    shut,       \* log_fifo.m_bShutdown
    push,       \* what the push thread does
    batch,      \* Batch
    wal,        \* what the WAL thread does
    records,    \* the records of the WAL: batches
    position,   \* how many of them are done
    delivered,  \* history: the lines which the receiver accepted
    gone,       \* history: the lines which the receiver or the WAL refused
    early,      \* history: the push thread saw the shutdown before its first look at the queue
    impatient   \* history: the main thread did not wait for the others any longer

pipeVars == <<noStdin, main, unread, shut, push, batch, wal, records, position, delivered, gone, early, impatient>>
vars == <<ingestVars, queue, accepted, shutdownRequested, pipeVars>>

In(s) == {s[i] : i \in DOMAIN s}
Pending == position < Len(records)
InWal == UNION {In(records[i]) : i \in (position + 1)..Len(records)}

Init ==
    /\ \E s \in Scenarios :
           /\ IngestInit(s.clients)
           /\ noStdin = s.noStdin
           /\ unread = IF noStdin THEN {} ELSE s.stdin
    /\ queue = << >> /\ accepted = {} /\ shutdownRequested = FALSE
    /\ main = "input"
    /\ shut = FALSE
    /\ push = "new" /\ batch = << >>
    /\ wal = "new" /\ records = << >> /\ position = 0
    /\ delivered = {} /\ gone = {} /\ early = FALSE /\ impatient = FALSE

-----------------------------------------------------------------------------
(* The main thread *)

mainOnly == <<ingestVars, noStdin, push, batch, wal, records, position, delivered, gone, early>>

Signal ==
    /\ ~shutdownRequested /\ main # "exit"
    /\ shutdownRequested' = TRUE
    /\ \/ UNCHANGED main
       \/ main = "input" /\ ~noStdin /\ main' = "drain"  \* getline was interrupted
    /\ UNCHANGED <<mainOnly, queue, accepted, unread, shut, impatient>>

\* MUTANT of ReadStdin: drops the line when the queue is full
ReadStdinTries ==
    /\ main = "input" /\ unread # {}
    /\ LET l == CHOOSE m \in unread : \A n \in unread : m <= n
       IN  /\ queue' = IF Len(queue) < QueueMax THEN Append(queue, l) ELSE queue
           /\ accepted' = accepted \cup {l} /\ unread' = unread \ {l}
    /\ UNCHANGED <<mainOnly, main, shut, shutdownRequested, impatient>>

ReadStdin ==
    /\ main = "input" /\ unread # {}
    /\ LET l == CHOOSE m \in unread : \A n \in unread : m <= n
       IN  queue' = Append(queue, l) /\ accepted' = accepted \cup {l} /\ unread' = unread \ {l}
    /\ UNCHANGED <<mainOnly, main, shut, shutdownRequested, impatient>>

\* The end of STDIN, or without STDIN the signal
InputEnds ==
    /\ main = "input" /\ IF noStdin THEN shutdownRequested ELSE unread = {}
    /\ main' = "drain"
    /\ UNCHANGED <<mainOnly, queue, accepted, unread, shut, shutdownRequested, impatient>>

\* Waits for the WAL, but only some time, and not when the shutdown was requested
RequestShutdown ==
    /\ main = "drain"
    /\ shutdownRequested' = TRUE /\ main' = "inputs"
    /\ UNCHANGED <<mainOnly, queue, accepted, unread, shut, impatient>>

\* MUTANT of ShutQueue: does not wait for the input
ShutQueueSoon ==
    /\ main = "inputs"
    /\ shut' = TRUE /\ main' = "threads"
    /\ UNCHANGED <<mainOnly, queue, accepted, unread, shutdownRequested, impatient>>

\* "Nothing is queued after that"
ShutQueue ==
    /\ main = "inputs" /\ at = "ended"
    /\ shut' = TRUE /\ main' = "threads"
    /\ UNCHANGED <<mainOnly, queue, accepted, unread, shutdownRequested, impatient>>

PushRuns == push \notin {"new", "failed", "ended"}
WalRuns == wal \notin {"new", "ended"}

Exit ==
    /\ main = "threads"
    /\ main' = "exit"
    /\ UNCHANGED <<mainOnly, queue, accepted, unread, shut, shutdownRequested>>

ThreadsEnded == ~PushRuns /\ ~WalRuns /\ Exit /\ UNCHANGED impatient

\* Five minutes
StopsWaiting == (PushRuns \/ WalRuns) /\ Exit /\ impatient' = TRUE

MainThread ==
    Signal \/ ReadStdin \/ InputEnds \/ RequestShutdown \/ ShutQueue \/ ThreadsEnded \/ StopsWaiting

-----------------------------------------------------------------------------
(* The push thread *)

pushOnly == <<ingestVars, accepted, shutdownRequested, noStdin, main, unread, shut, wal, position, impatient>>

\* Without a handle of libcurl the thread ends at once; the inputs go on
PushStarts ==
    /\ push = "new"
    /\ push' \in {"first", "failed"}
    /\ UNCHANGED <<pushOnly, queue, batch, records, delivered, gone, early>>

PushLoop ==
    /\ push \in {"first", "again"}
    /\ push' = IF shutdownRequested THEN "ended" ELSE "pop"
    /\ early' = (shutdownRequested /\ push = "first")
    /\ UNCHANGED <<pushOnly, queue, batch, records, delivered, gone>>

\* As many as there are, up to one of the two limits
PopBatch ==
    /\ push = "pop" /\ queue # << >>
    /\ \E n \in 1..Least(BatchMax, Len(queue)) :
           /\ batch' = SubSeq(queue, 1, n)
           /\ queue' = SubSeq(queue, n + 1, Len(queue))
    /\ push' = "send"
    /\ UNCHANGED <<pushOnly, records, delivered, gone, early>>

\* MUTANT of PopEnds: waits for a record only
PopEndsSleeps ==
    /\ push = "pop" /\ queue # << >>
    /\ queue = << >>
    /\ push' = "again"
    /\ UNCHANGED <<pushOnly, queue, batch, records, delivered, gone, early>>

PopEnds ==
    /\ push = "pop" /\ queue = << >> /\ shut
    /\ push' = "again"
    /\ UNCHANGED <<pushOnly, queue, batch, records, delivered, gone, early>>

\* MUTANT of BatchDone: looks at the shutdown behind every batch
BatchDoneStops ==
    /\ push' = IF shutdownRequested THEN "again" ELSE "pop"
    /\ batch' = << >>
    /\ UNCHANGED <<pushOnly, queue, early>>

BatchDone == push' = "pop" /\ batch' = << >> /\ UNCHANGED <<pushOnly, queue, early>>

PushAccepted ==
    /\ push = "send"
    /\ delivered' = delivered \cup In(batch)
    /\ BatchDone
    /\ UNCHANGED <<records, gone>>

PushRejected ==
    /\ push = "send"
    /\ gone' = gone \cup In(batch)
    /\ BatchDone
    /\ UNCHANGED <<records, delivered>>

\* The request failed, but the receiver may have it
ToWal(stored) ==
    /\ push = "send"
    /\ delivered' \in {delivered, delivered \cup In(batch)}
    /\ IF stored THEN Len(records) < WalRecords /\ records' = Append(records, batch) /\ UNCHANGED gone
                 ELSE gone' = gone \cup In(batch) /\ UNCHANGED records
    /\ BatchDone

PushThread == PushStarts \/ PushLoop \/ PopBatch \/ PopEnds \/ PushAccepted \/ PushRejected \/ \E b \in BOOLEAN : ToWal(b)

-----------------------------------------------------------------------------
(* The WAL thread *)

walOnly == <<ingestVars, queue, accepted, shutdownRequested, noStdin, main, unread, shut, push, batch, early, impatient>>

WalStarts ==
    /\ wal = "new"
    /\ wal' = "check"
    /\ UNCHANGED <<walOnly, records, position, delivered, gone>>

WalLoop ==
    /\ wal = "check"
    /\ \/ shutdownRequested /\ wal' = "ended"
       \/ ~shutdownRequested /\ Pending /\ wal' = "replay"
    /\ UNCHANGED <<walOnly, records, position, delivered, gone>>

\* The next record is accepted, or refused for good
RecordDone ==
    /\ wal = "replay" /\ Pending
    /\ IF position + 1 = Len(records) THEN records' = << >> /\ position' = 0
                                      ELSE position' = position + 1 /\ UNCHANGED records
    /\ \/ delivered' = delivered \cup In(records[position + 1]) /\ UNCHANGED gone
       \/ gone' = gone \cup In(records[position + 1]) /\ UNCHANGED delivered
    /\ UNCHANGED <<walOnly, wal>>

RecordFails ==
    /\ wal = "replay" /\ Pending
    /\ delivered' \in {delivered, delivered \cup In(records[position + 1])}
    /\ wal' = "wait"
    /\ UNCHANGED <<walOnly, records, position, gone>>

ReplayEnds ==
    /\ wal = "replay" /\ ~Pending
    /\ wal' = "check"
    /\ UNCHANGED <<walOnly, records, position, delivered, gone>>

\* IdleDelay ends
WaitEnds ==
    /\ wal = "wait"
    /\ wal' = IF shutdownRequested THEN "ended" ELSE "check"
    /\ UNCHANGED <<walOnly, records, position, delivered, gone>>

WalThread == WalStarts \/ WalLoop \/ RecordDone \/ RecordFails \/ ReplayEnds \/ WaitEnds

-----------------------------------------------------------------------------
Inputs == IngestThread /\ UNCHANGED pipeVars

Next == main # "exit" /\ (MainThread \/ PushThread \/ WalThread \/ Inputs)

\* Every thread runs.   The main thread waits as long as it has to.
Fairness ==
    /\ WF_vars(main # "exit" /\ (ReadStdin \/ InputEnds \/ RequestShutdown \/ ShutQueue \/ ThreadsEnded))
    /\ WF_vars(main # "exit" /\ PushThread)
    /\ WF_vars(main # "exit" /\ WalThread)
    /\ WF_vars(main # "exit" /\ IngestThread /\ UNCHANGED pipeVars)

Spec == Init /\ [][Next]_vars /\ Fairness

-----------------------------------------------------------------------------
TypeOK ==
    /\ conn \in [Clients -> {"new", "open", "closed"}]
    /\ seen \in [Clients -> Nat]
    /\ \A c \in Clients : seen[c] <= Len(Stream[c]) /\ buffer[c] \in Seq(Cells) /\ Len(buffer[c]) <= LineMax
    /\ Cardinality(Open) <= MaxClients
    /\ discarding \subseteq Open /\ ready \subseteq Open /\ todo \in Seq(Seq(Cells))
    /\ at \in {"poll", "clients", "accept", "ended"}
    /\ queue \in Seq(Lines \cup StdinLines) /\ batch \in Seq(Lines \cup StdinLines) /\ Len(batch) <= BatchMax
    /\ accepted \subseteq Lines \cup StdinLines /\ handled \subseteq Lines
    /\ delivered \subseteq accepted /\ gone \subseteq accepted
    /\ unread \subseteq StdinLines
    /\ main \in {"input", "drain", "inputs", "threads", "exit"}
    /\ push \in {"new", "failed", "first", "again", "pop", "send", "ended"} /\ (batch # << >> <=> push = "send")
    /\ wal \in {"new", "check", "replay", "wait", "ended"}
    /\ records \in Seq(Seq(Lines \cup StdinLines)) /\ Len(records) <= WalRecords /\ position \in 0..Len(records)
    /\ {shutdownRequested, noStdin, shut, early, impatient} \subseteq BOOLEAN

Safe == delivered \cup gone \cup InWal

\* The program ended without the push thread, which had no handle of libcurl, came too late or
\* was too slow
Abandoned == main = "exit" /\ (push \in {"failed", "new"} \/ early \/ impatient)

\* A record which was taken is delivered, refused by the receiver or a full WAL, or still on
\* its way, and after an orderly shutdown (README: "Records received before a shutdown are
\* pushed first, and records which could not be pushed stay in the WAL for the next start") none
\* is on its way.  The push thread is not there at all if curl_easy_init fails when it starts
\* (otelfwd.cpp:1641; the inputs accept until the shutdown) or if the shutdown comes before its
\* first look, and the main thread stops waiting for a slow receiver after five minutes.
NoneLost ==
    /\ accepted \subseteq Safe \cup In(queue) \cup In(batch)
    /\ main = "exit" => accepted \subseteq Safe \/ Abandoned

\* The records of STDIN come to the receiver in their order, unless one waits in the WAL or was
\* refused (log_fifo, PushThread): no thread overtakes another with a batch.
StdinInOrder ==
    [][\A l \in (delivered' \ delivered) \cap StdinLines :
           \A m \in accepted \cap StdinLines : m < l => m \in delivered' \cup gone' \cup InWal]_vars

\* What the queue took does not stay there (log_fifo::pop_batch wakes up for every record and
\* for the shutdown), whatever the receiver does; a push thread which did not start leaves it
\* there.
QueueIsEmptied == \A l \in StdinLines : l \in accepted ~> l \in Safe \/ push = "failed" \/ Abandoned

\* A requested shutdown ends the program, without the five minutes, whatever is in the queue
\* and whatever the receiver answers; without STDIN nothing but the signal ends it.
ShutdownEnds == shutdownRequested /\ noStdin ~> main = "exit"
=============================================================================
