------------------------------- MODULE Ingest -------------------------------
(***************************************************************************)
(* A socket input of otelfwd: the clients which write lines to it, and the *)
(* thread which accepts them, splits what it receives into lines, and puts *)
(* the records into the queue.                                             *)
(*                                                                         *)
(* A client connects, writes its Stream in pieces of any size, and stops   *)
(* anywhere, all at any time: accept takes any client which was not there  *)
(* yet, and recv returns any piece of the rest, or the end.                *)
(*                                                                         *)
(* The module has no Next: Pipeline composes it with the other threads.    *)
(***************************************************************************)
EXTENDS Integers, Sequences, FiniteSets

CONSTANTS
    Clients,     \* the programs which connect
    MaxClients,  \* OTELFWD_MAX_CLIENTS_PER_INPUT
    Lines,       \* the lines they write
    Length,      \* how long each line is, in cells
    Stream,      \* what each client writes: whole lines
    LineMax,     \* OTELFWD_MAX_LINE_BYTES, in cells
    RecvMax,     \* the size of the buffer of recv, in cells
    QueueMax     \* g_SocketQueueMax

VARIABLES
    conn,        \* of each client: not there yet, open, or closed
    seen,        \* how much of the stream of each client was received
    buffer,      \* IngestClient.Buffer
    discarding,  \* the clients with bDiscarding
    ready,       \* the clients which poll reported, and which are not handled yet
    todo,        \* the lines of the buffer which IngestProcessBuffer goes through
    at,          \* what the thread does
    queue,       \* g_LogFifo
    accepted,    \* history: the lines which went into the queue
    handled,     \* history: the lines which came to IngestHandleLine
    broken,      \* history: what came there and is no whole line
    shutdownRequested

ingestVars == <<conn, seen, buffer, discarding, ready, todo, at, handled, broken>>

Text(l, k) == [line |-> l, k |-> k]
NewLine(l) == [line |-> l, k |-> 0]
Body(l) == [k \in 1..Length[l] |-> Text(l, k)]
Whole(l) == Append(Body(l), NewLine(l))
Cells == UNION {{NewLine(l)} \cup {Text(l, k) : k \in 1..Length[l]} : l \in Lines}

ASSUME IngestAssumption ==
    /\ Length \in [Lines -> Nat \ {0}]
    /\ Stream \in [Clients -> Seq(Cells)]
    /\ {MaxClients, LineMax, RecvMax, QueueMax} \subseteq Nat \ {0}

\* Where a line starts, a whole line follows
ASSUME StreamAssumption ==
    \A c \in Clients : \A b \in 0..(Len(Stream[c]) - 1) :
        b = 0 \/ Stream[c][b].k = 0 =>
            \E l \in Lines : b + Length[l] + 1 <= Len(Stream[c])
                             /\ SubSeq(Stream[c], b + 1, b + Length[l] + 1) = Whole(l)

IngestInit(come) ==
    /\ conn = [c \in Clients |-> IF c \in come THEN "new" ELSE "closed"]
    /\ seen = [c \in Clients |-> 0] /\ buffer = [c \in Clients |-> << >>] /\ discarding = {}
    /\ ready = {} /\ todo = << >> /\ at = "poll"
    /\ handled = {} /\ broken = {}

Open == {c \in Clients : conn[c] = "open"}

-----------------------------------------------------------------------------
(* The thread *)

Poll ==
    /\ at = "poll" /\ ~shutdownRequested
    /\ \E s \in SUBSET Open :
           /\ s # {} \/ \E c \in Clients : conn[c] = "new"
           /\ ready' = s
    /\ at' = "clients"
    /\ UNCHANGED <<conn, seen, buffer, discarding, todo, queue, accepted, handled, broken, shutdownRequested>>

\* What IngestProcessBuffer finds: the lines, and what is behind the last one
Ends(s) == {n \in DOMAIN s : s[n].k = 0}
LineTo(s, n) ==
    LET before == {0} \cup {m \in Ends(s) : m < n}
    IN  SubSeq(s, (CHOOSE m \in before : \A o \in before : o <= m) + 1, n - 1)
Behind(s) == LET ends == {0} \cup Ends(s) IN SubSeq(s, (CHOOSE m \in ends : \A o \in ends : o <= m) + 1, Len(s))
LinesIn(s) ==
    LET End(i) == CHOOSE n \in Ends(s) : Cardinality({m \in Ends(s) : m <= n}) = i
    IN  [i \in 1..Cardinality(Ends(s)) |-> LineTo(s, End(i))]

\* MUTANT of ProcessBuffer: the rest of a line which is too long is a line
ProcessBufferForgets(c, s) ==
    LET rest == Behind(s)
    IN  /\ todo' = LinesIn(s)
        /\ buffer' = [buffer EXCEPT ![c] = IF Len(rest) > LineMax THEN << >> ELSE rest]
        /\ UNCHANGED discarding

\* The first new line ends the discarding.  A rest which is too long starts it.
ProcessBuffer(c, s) ==
    LET rest == Behind(s)
        skip == c \in discarding
    IN  /\ todo' = IF skip /\ Ends(s) # {} THEN Tail(LinesIn(s)) ELSE LinesIn(s)
        /\ discarding' = IF (skip /\ Ends(s) = {}) \/ Len(rest) > LineMax THEN discarding \cup {c}
                         ELSE discarding \ {c}
        /\ buffer' = [buffer EXCEPT ![c] = IF c \in discarding' THEN << >> ELSE rest]

MayHandle(c) == at = "clients" /\ todo = << >> /\ c \in ready

Least(m, n) == IF m < n THEN m ELSE n

Read(c) ==
    /\ MayHandle(c)
    /\ \E n \in 1..Least(RecvMax, Len(Stream[c]) - seen[c]) :
           /\ ProcessBuffer(c, buffer[c] \o SubSeq(Stream[c], seen[c] + 1, seen[c] + n))
           /\ seen' = [seen EXCEPT ![c] = @ + n]
    /\ ready' = ready \ {c}
    /\ UNCHANGED <<conn, at, queue, accepted, handled, broken, shutdownRequested>>

Close(c) ==
    /\ conn' = [conn EXCEPT ![c] = "closed"]
    /\ buffer' = [buffer EXCEPT ![c] = << >>] /\ discarding' = discarding \ {c}

\* The end of the stream: a last line without new line is processed
ReadEnd(c) ==
    /\ MayHandle(c)
    /\ todo' = IF c \notin discarding /\ buffer[c] # << >> THEN <<buffer[c]>> ELSE << >>
    /\ Close(c)
    /\ ready' = ready \ {c}
    /\ UNCHANGED <<seen, at, queue, accepted, handled, broken, shutdownRequested>>

\* The connection is broken: what is in the buffer is lost
ReadFails(c) ==
    /\ MayHandle(c)
    /\ Close(c)
    /\ ready' = ready \ {c}
    /\ UNCHANGED <<seen, todo, at, queue, accepted, handled, broken, shutdownRequested>>

TryPush(l) ==
    IF Len(queue) < QueueMax THEN queue' = Append(queue, l) /\ accepted' = accepted \cup {l}
                             ELSE UNCHANGED <<queue, accepted>>

\* A text which is no whole line is no JSON object, and is refused
HandleLine ==
    /\ todo # << >>
    /\ \/ \E l \in Lines : todo[1] = Body(l) /\ TryPush(l) /\ handled' = handled \cup {l} /\ UNCHANGED broken
       \/ /\ \A l \in Lines : todo[1] # Body(l)
          /\ broken' = broken \cup ({todo[1]} \ {<< >>})
          /\ UNCHANGED <<queue, accepted, handled>>
    /\ todo' = Tail(todo)
    /\ UNCHANGED <<conn, seen, buffer, discarding, ready, at, shutdownRequested>>

ClientsHandled ==
    /\ at = "clients" /\ ready = {} /\ todo = << >>
    /\ at' \in {"accept", "poll"}
    /\ UNCHANGED <<conn, seen, buffer, discarding, ready, todo, queue, accepted, handled, broken, shutdownRequested>>

\* A connection above the limit is closed
Accept(c) ==
    /\ at = "accept" /\ conn[c] = "new"
    /\ conn' = [conn EXCEPT ![c] = IF Cardinality(Open) < MaxClients THEN "open" ELSE "closed"]
    /\ UNCHANGED <<seen, buffer, discarding, ready, todo, at, queue, accepted, handled, broken, shutdownRequested>>

\* Nobody waits, or there are no file descriptors
AcceptEnds ==
    /\ at = "accept"
    /\ at' = "poll"
    /\ UNCHANGED <<conn, seen, buffer, discarding, ready, todo, queue, accepted, handled, broken, shutdownRequested>>

IngestEnds ==
    /\ at = "poll" /\ shutdownRequested
    /\ at' = "ended"
    /\ conn' = [c \in Clients |-> "closed"]
    /\ buffer' = [c \in Clients |-> << >>] /\ discarding' = {}
    /\ UNCHANGED <<seen, ready, todo, queue, accepted, handled, broken, shutdownRequested>>

IngestThread ==
    \/ Poll \/ HandleLine \/ ClientsHandled \/ AcceptEnds \/ IngestEnds
    \/ \E c \in Clients : Read(c) \/ ReadEnd(c) \/ ReadFails(c) \/ Accept(c)

-----------------------------------------------------------------------------
\* Where a new line of the stream was received, every line up to it was found, whatever the
\* pieces were and however often a line before it was too long (IngestProcessBuffer).
ReadLinesAreHandled ==
    \A c \in Clients :
        \A n \in Ends(SubSeq(Stream[c], 1, seen[c])) :
            LET l == Stream[c][n].line
            IN  Length[l] <= LineMax => l \in handled \/ \E i \in DOMAIN todo : todo[i] = Body(l)

\* What is handled and is no whole line is the start of one, from a client which stopped in the
\* middle of it: the middle or the end of a line is never taken for a record.
BrokenIsLast ==
    \A text \in broken :
        /\ \A n \in DOMAIN text : text[n] = Text(text[1].line, n)
        /\ Len(text) <= LineMax
        /\ \E c \in Clients : conn[c] = "closed" /\ seen[c] > 0 /\ Stream[c][seen[c]] = text[Len(text)]

\* The inputs are cut into lines as they were written: nothing is missing, nothing is added.
LinesAreFramed == ReadLinesAreHandled /\ BrokenIsLast
=============================================================================
