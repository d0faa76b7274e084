---------------------------- MODULE DomfwdDurable ----------------------------
(***************************************************************************)
(* The sender of domfwd/domfwd_durable.hpp: the line sender with a WAL     *)
(* behind it, in the main loop of domfwd.cpp.  One thread sends a line for *)
(* each event, pumps, and flushes at the end; the forwarder comes and      *)
(* goes, and the program can crash.                                        *)
(*                                                                         *)
(* The WAL is used through Append, Peek and Ack.  It is the list of its    *)
(* records and the position of the next one, which goes back to the start  *)
(* if its commit file is lost (SimpleWAL has the details).                 *)
(***************************************************************************)
EXTENDS DomfwdSocket

CONSTANTS
    LowWater,   \* DOMFWD_DURABLE_LOW_WATER
    DrainMax,   \* DOMFWD_DURABLE_DRAIN_MAX
    WalRecords  \* the limit of the WAL, in records

ASSUME DurableAssumption == LowWater \in Nat \ {0} /\ DrainMax \in Nat \ {0} /\ WalRecords \in Nat

VARIABLES
    hasWal,     \* m_pWal
    records,    \* the records of the WAL
    position,   \* how many of them were acknowledged
    moved,      \* Moved
    next,       \* the line which Ack took out of the WAL
    last,       \* the last line which was sent
    spilled,    \* history: the lines of the queue and the WAL which the WAL took
    late        \* history: the lines which may come late: Flush wrote them behind younger ones, or
                \* their WAL could not be opened

walVars == <<hasWal, records, position>>
history == <<spilled, late>>
vars == <<socketVars, walVars, moved, next, last, history>>

NoLine == 0

Init ==
    /\ SocketInit
    /\ pc = "down" /\ then = "idle"
    /\ hasWal = FALSE /\ records = << >> /\ position = 0
    /\ moved = 0 /\ next = NoLine /\ last = 0
    /\ spilled = {} /\ late = {}

-----------------------------------------------------------------------------
(* The WAL, as the sender uses it *)

IsReplayPending == position < Len(records)
In(s) == {s[i] : i \in DOMAIN s}
Waiting == {records[i] : i \in (position + 1)..Len(records)}

WalAppend(l) ==
    /\ Len(records) < WalRecords
    /\ records' = Append(records, l)
    /\ spilled' = spilled \cup {l}
    /\ UNCHANGED <<hasWal, position>>

\* The files are removed when everything is acknowledged
WalAck ==
    /\ IF position + 1 = Len(records) THEN records' = << >> /\ position' = 0
                                      ELSE position' = position + 1 /\ UNCHANGED records
    /\ UNCHANGED hasWal

-----------------------------------------------------------------------------
(* Send.  A Pump follows. *)

CallPump(after) == pc' = "pump" /\ then' = after

\* MUTANT of FastPath: looks at the room only
FastPathOvertakes(l) == HasRoom(l) /\ state = "connected"

FastPath(l) == state = "connected" /\ ~IsReplayPending /\ HasRoom(l)

SendQueues(l) ==
    /\ IF hasWal THEN FastPath(l) ELSE HasRoom(l)
    /\ Enqueue(l)
    /\ owed' = owed \cup {l}
    /\ UNCHANGED <<walVars, history>>

SendSpills(l) ==
    /\ hasWal /\ ~FastPath(l)
    /\ WalAppend(l)
    /\ owed' = owed \cup {l}
    /\ UNCHANGED <<buffer, late>>

SendRefuses(l) ==
    /\ IF hasWal THEN ~FastPath(l) ELSE ~HasRoom(l)
    /\ UNCHANGED <<buffer, walVars, owed, history>>

Send ==
    /\ pc = "idle" /\ last + 1 \in Lines
    /\ last' = last + 1
    /\ SendQueues(last') \/ SendSpills(last') \/ SendRefuses(last')
    /\ CallPump("drain")
    /\ UNCHANGED <<state, due, sock, connections, received, moved, next>>

PumpCall ==
    /\ pc = "idle"
    /\ CallPump("drain")
    /\ UNCHANGED <<state, due, sock, buffer, connections, received, owed, walVars, moved, next, last, history>>

-----------------------------------------------------------------------------
(* Drain *)

Control == <<state, due, sock, connections, received, owed, last>>

DrainStart ==
    /\ pc = "drain"
    /\ pc' = IF hasWal /\ state = "connected" /\ IsReplayPending THEN "take" ELSE "idle"
    /\ then' = "idle"
    /\ UNCHANGED <<Control, buffer, walVars, moved, next, history>>

\* MUTANT of MayTake: a line fewer
MayTakeFewer == moved < DrainMax /\ lines + 1 < LowWater

MayTake == moved < DrainMax /\ lines < LowWater

\* The record of Peek, and Ack
Take ==
    /\ pc = "take" /\ MayTake /\ IsReplayPending
    /\ HasRoom(records[position + 1])
    /\ next' = records[position + 1]
    /\ WalAck
    /\ pc' = "put"
    /\ UNCHANGED <<Control, then, buffer, moved, history>>

\* Nothing is left, the WAL cannot be read, there is no room, or the Ack fails
TakeStops ==
    /\ pc = "take" /\ MayTake
    /\ CallPump("idle") /\ moved' = 0
    /\ UNCHANGED <<Control, buffer, walVars, next, history>>

Put ==
    /\ pc = "put"
    /\ Enqueue(next)
    /\ next' = NoLine /\ moved' = moved + 1
    /\ pc' = "take"
    /\ UNCHANGED <<Control, then, walVars, history>>

TakeEnds ==
    /\ pc = "take" /\ ~MayTake
    /\ CallPump("more")
    /\ UNCHANGED <<Control, buffer, walVars, moved, next, history>>

DrainMore ==
    /\ pc = "more"
    /\ pc' = IF lines < LowWater /\ state = "connected" /\ moved < DrainMax THEN "take" ELSE "idle"
    /\ then' = "idle" /\ moved' = IF pc' = "idle" THEN 0 ELSE moved
    /\ UNCHANGED <<Control, buffer, walVars, next, history>>

Drain == DrainStart \/ Take \/ TakeStops \/ Put \/ TakeEnds \/ DrainMore

-----------------------------------------------------------------------------
(* The start and the end of the program *)

\* Configure: the WAL of the last run is found again, or cannot be opened
Start ==
    /\ pc = "down"
    /\ pc' = "idle" /\ due' = TRUE
    /\ hasWal' \in BOOLEAN
    /\ late' = IF hasWal' THEN late ELSE late \cup (Waiting \cap owed)
    /\ UNCHANGED <<state, sock, buffer, connections, then, received, owed, records, position, moved, next, last, spilled>>

Shutdown ==
    /\ pc = "idle"
    /\ CallPump("flush")
    /\ UNCHANGED <<Control, buffer, walVars, moved, next, history>>

FlushAgain ==
    /\ pc = "flush" /\ lines > 0
    /\ CallPump("flush")
    /\ UNCHANGED <<Control, buffer, walVars, moved, next, history>>

FlushTimeout ==
    /\ pc = "flush" /\ lines > 0 /\ hasWal
    /\ pc' = "spill"
    /\ UNCHANGED <<Control, then, buffer, walVars, moved, next, history>>

Spill ==
    /\ pc = "spill" /\ HasUnsent
    /\ WalAppend(Unsent)
    /\ late' = IF \E r \in Waiting : r > Unsent THEN late \cup {Unsent} ELSE late
    /\ DropUnsent
    /\ UNCHANGED <<Control, pc, then, moved, next>>

\* Close, with what is still in memory: the sender without a WAL gave up, or Append failed
EndRun ==
    /\ CloseSocket /\ state' = "disconnected" /\ due' = TRUE
    /\ mem' = NoMemory /\ head' = 0 /\ sendPos' = 0 /\ tail' = 0 /\ lines' = 0
    /\ moved' = 0 /\ next' = NoLine
    /\ pc' = "down" /\ then' = "idle" /\ hasWal' = FALSE
    /\ spilled' = spilled \cap In(records)
    /\ UNCHANGED <<theirs, wire, part, received, last, late>>

\* MUTANT of CloseFlushed: ends when the time is over
CloseFlushedSoon ==
    /\ pc = "flush"
    /\ EndRun
    /\ UNCHANGED <<records, position, owed>>

CloseFlushed ==
    /\ \/ pc = "flush" /\ lines = 0
       \/ pc = "spill" /\ ~HasUnsent
    /\ EndRun
    /\ UNCHANGED <<records, position, owed>>

CloseLoses ==
    /\ \/ pc = "flush" /\ ~hasWal /\ lines > 0
       \/ pc = "spill" /\ HasUnsent
    /\ EndRun
    /\ owed' = owed \ Queued
    /\ UNCHANGED <<records, position>>

\* The lines of the queue are lost; the commit file of the WAL may be
Crash ==
    /\ pc # "down"
    /\ EndRun
    /\ owed' = owed \ (Queued \cup {next})
    /\ position' \in {0, position}
    /\ UNCHANGED records

Program ==
    \/ Send \/ PumpCall \/ Drain \/ Start \/ Shutdown
    \/ FlushAgain \/ FlushTimeout \/ Spill \/ CloseFlushed \/ CloseLoses

Sender ==
    /\ Pump
    /\ spilled' = spilled \cap (Queued' \cup In(records))
    /\ UNCHANGED <<walVars, moved, next, last, late>>

Forwarder ==
    /\ TimeComes \/ \E c \in Connections : Read(c) \/ ReadEnd(c) \/ Leave(c)
    /\ late' = late \cap owed'
    /\ UNCHANGED <<walVars, moved, next, last, spilled>>

Next == Program \/ Sender \/ Forwarder \/ Crash

Spec == Init /\ [][Next]_vars

-----------------------------------------------------------------------------
TypeOK ==
    /\ state \in {"disconnected", "connecting", "connected"} /\ due \in BOOLEAN
    /\ sock \in Connections \cup {NoSocket}
    /\ mem \in [0..(QueueBytes - 1) -> Cells \cup {Free}]
    /\ 0 <= head /\ head <= sendPos /\ sendPos <= tail /\ tail <= QueueBytes
    /\ lines \in 0..QueueLines
    /\ ours \subseteq Connections /\ theirs \subseteq Connections
    /\ wire \in [Connections -> Seq(Cells)] /\ part \in [Connections -> Seq(Cells)]
    /\ pc \in {"down", "idle", "pump", "send", "drain", "take", "put", "more", "flush", "spill"}
    /\ then \in {"idle", "drain", "more", "flush"}
    /\ received \subseteq Lines /\ owed \subseteq Lines
    /\ hasWal \in BOOLEAN /\ records \in Seq(Lines) /\ position \in 0..Len(records)
    /\ moved \in 0..DrainMax /\ next \in Lines \cup {NoLine} /\ last \in Lines \cup {0}
    /\ spilled \subseteq Lines /\ late \subseteq Lines

\* The cells are whole lines, one behind the other
WholeLines(s) ==
    /\ s # << >> => s[Len(s)].k = 0
    /\ \A n \in {m \in DOMAIN s : s[m].k = 0} :
           LET start == n - Length[s[n].line]
           IN  /\ start > 0 /\ SubSeq(s, start, n) = Whole(s[n].line)
               /\ start = 1 \/ s[start - 1].k = 0

\* The offsets, the count of the lines and the buffer agree, behind every partial send, every
\* move of the lines to the start of the buffer and every new connection (domfwd_socket.hpp,
\* Enqueue, CompleteSentLines and DropUnsent): from m_Head on there are m_Lines whole lines.
BufferHoldsLines ==
    /\ WholeLines(Part(head, tail))
    /\ lines = Cardinality(NewLines(head, tail))
    /\ \A i \in DOMAIN mem : mem[i] # Free <=> head <= i /\ i < tail

\* The state of the sender is sound: its members have their types, and the buffer holds lines.
BufferOK == TypeOK /\ BufferHoldsLines

\* What the forwarder reads on a connection is whole lines, also when the line which was sent
\* in part on the connection before was started again (domfwd_socket.hpp:15-16).  Flush moves a
\* line to the WAL which was sent in part: the connection is closed behind it.
StreamIsWhole ==
    state = "connected" /\ pc # "spill" /\ sock \in theirs =>
        WholeLines(part[sock] \o wire[sock] \o Part(sendPos, tail))

SentWhole == UNION {SentOn(c) : c \in Connections}

\* A crash loses only few of the lines which were safe in the WAL: the queue is kept short
\* while they are moved (domfwd_durable.hpp, Drain).
FewAreMoved == Cardinality((Queued \cup {next}) \cap spilled) <= LowWater

\* No line for which Send returned true is lost: it is on its way, waits in the queue or the
\* WAL, or was lost in one of the ways which the header of domfwd_durable.hpp names (a
\* connection which breaks, a crash, a WAL which cannot be written); and what a crash can lose of
\* the lines which were in the WAL is little.
NoneLost ==
    /\ owed \subseteq SentWhole \cup Queued \cup {next} \cup Waiting
    /\ FewAreMoved

\* The lines arrive in the order of the calls (domfwd_durable.hpp:8-9): a new line never
\* overtakes one which waits.  Only lines of an earlier run, which the forwarder has not read
\* from the connection of that run, may be read behind those of the next one.
ArriveInOrder ==
    [][\A l \in received' \ received :
           \A m \in owed \ late :
               m < l => m \in received' \/ \E c \in Connections \ ours : m \in SentOn(c)]_vars
=============================================================================
