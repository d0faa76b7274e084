---------------------------- MODULE DomfwdSocket ----------------------------
(***************************************************************************)
(* The line sender of domfwd/domfwd_socket.hpp, and the two ends of its    *)
(* connections.                                                            *)
(*                                                                         *)
(* The queue is one buffer of QueueBytes cells: the pieces of a line and   *)
(* its new line.  m_Head, m_SendPos and m_Tail are offsets into it; what   *)
(* is not between m_Head and m_Tail is Free, nobody may look at it.  Pump  *)
(* runs in steps, one for each system call, and the forwarder can read and *)
(* close between any two of them.                                          *)
(*                                                                         *)
(* The module has no Next: DomfwdDurable composes it with the WAL and the  *)
(* main loop.                                                              *)
(***************************************************************************)
EXTENDS Integers, Sequences, FiniteSets

CONSTANTS
    LastLine,     \* bound: how many lines are sent
    Length,       \* how long each line is, in cells
    QueueLines,   \* m_MaxLines
    QueueBytes,   \* m_MaxBytes, in cells
    Connections,  \* bound: the connections which somebody has an end of
    SocketBytes   \* how much a connection takes before send() would block, in cells

Lines == 1..LastLine

ASSUME SocketAssumption ==
    /\ LastLine \in Nat
    /\ Length \in [Lines -> Nat \ {0}]
    /\ QueueLines \in Nat \ {0} /\ QueueBytes \in Nat /\ SocketBytes \in Nat \ {0}
    /\ \A l \in Lines : Length[l] < QueueBytes

VARIABLES
    (* The sender *)
    state,     \* m_State
    due,       \* the time m_NextAttempt has come
    sock,      \* m_Sock: the connection, or NoSocket
    mem,       \* m_pBuffer
    head,      \* m_Head
    sendPos,   \* m_SendPos
    tail,      \* m_Tail
    lines,     \* m_Lines
    (* The connections *)
    ours,      \* the sender has not closed its end
    theirs,    \* the forwarder has not closed its end
    wire,      \* sent and not read
    part,      \* Client.Buffer: read, behind the last new line
    (* The control of the one thread *)
    pc,        \* what the thread does
    then,      \* what it does behind the Pump
    (* History *)
    received,  \* the lines which the forwarder read whole
    owed       \* the lines which were accepted, are not received, and may not be lost

NoSocket == "none"
Free == [line |-> 0, k |-> -1]

buffer == <<mem, head, sendPos, tail, lines>>
connections == <<ours, theirs, wire, part>>
socketVars == <<state, due, sock, buffer, connections, pc, then, received, owed>>

Text(l, k) == [line |-> l, k |-> k]
NewLine(l) == [line |-> l, k |-> 0]
Body(l) == [k \in 1..Length[l] |-> Text(l, k)]
Whole(l) == Append(Body(l), NewLine(l))
Cells == UNION {{NewLine(l)} \cup {Text(l, k) : k \in 1..Length[l]} : l \in Lines}

NoMemory == [i \in 0..(QueueBytes - 1) |-> Free]

\* The cells of the buffer from offset i up to offset j
Part(i, j) == [n \in 1..(j - i) |-> mem[i + n - 1]]

SocketInit ==
    /\ state = "disconnected" /\ due = TRUE /\ sock = NoSocket
    /\ mem = NoMemory /\ head = 0 /\ sendPos = 0 /\ tail = 0 /\ lines = 0
    /\ ours = {} /\ theirs = {}
    /\ wire = [c \in Connections |-> << >>] /\ part = [c \in Connections |-> << >>]
    /\ received = {} /\ owed = {}

-----------------------------------------------------------------------------
(* The queue *)

HasRoom(l) == lines < QueueLines /\ (tail - head) + Length[l] + 1 <= QueueBytes

\* The line goes behind the others, which are moved to the start of the buffer when there is no
\* room behind them
Enqueue(l) ==
    /\ LET h == IF tail + Length[l] + 1 > QueueBytes THEN 0 ELSE head
           t == h + tail - head
       IN  /\ mem' = [i \in DOMAIN mem |->
                         IF i < h \/ i >= t + Length[l] + 1 THEN Free
                         ELSE IF i < t THEN mem[i - h + head] ELSE Whole(l)[i - t + 1]]
           /\ head' = h /\ tail' = t + Length[l] + 1
           /\ sendPos' = h + sendPos - head
    /\ lines' = lines + 1

NewLines(i, j) == {n \in i..(j - 1) : mem[n].k = 0}
Lowest(s) == CHOOSE i \in s : \A j \in s : i <= j
Highest(s) == CHOOSE i \in s : \A j \in s : i >= j

\* m_Head goes to h, m_SendPos to s, and the buffer starts again at 0 when it is empty
Forward(h, s, n) ==
    /\ lines' = lines - n
    /\ mem' = [i \in DOMAIN mem |-> IF i < h THEN Free ELSE mem[i]]
    /\ IF h = tail THEN head' = 0 /\ sendPos' = 0 /\ tail' = 0
                   ELSE head' = h /\ sendPos' = s /\ UNCHANGED tail

Unsent == mem[head].line
HasUnsent == lines > 0

DropUnsent ==
    LET h == Lowest(NewLines(head, tail)) + 1
    IN  Forward(h, IF sendPos < h THEN h ELSE sendPos, 1)

\* The lines in the buffer
Queued == {mem[i].line : i \in NewLines(head, tail)}

-----------------------------------------------------------------------------
(* The connections *)

CloseSocket == sock' = NoSocket /\ ours' = ours \ {sock}

\* MUTANT of Disconnect: goes on in the middle of the line
DisconnectGoesOn ==
    /\ CloseSocket /\ state' = "disconnected" /\ due' = FALSE
    /\ UNCHANGED sendPos

\* A line which was sent in part is sent again in full
Disconnect ==
    /\ CloseSocket /\ state' = "disconnected" /\ due' = FALSE
    /\ sendPos' = head

Return == pc' = then

DisconnectAndReturn ==
    /\ Disconnect /\ Return
    /\ UNCHANGED <<mem, head, tail, lines, theirs, wire, part, then, received, owed>>

\* A connection nobody has an end of
Unused == Connections \ (ours \cup theirs \cup {c \in Connections : wire[c] # << >>})

Connected(c) ==
    /\ state' = "connected" /\ sock' = c
    /\ ours' = ours \cup {c} /\ theirs' = theirs \cup {c}
    /\ UNCHANGED <<due, buffer, wire, part, pc, then, received, owed>>

-----------------------------------------------------------------------------
(* Pump *)

PumpWaits ==
    /\ pc = "pump" /\ state = "disconnected" /\ ~due
    /\ Return
    /\ UNCHANGED <<state, due, sock, buffer, connections, then, received, owed>>

StartConnect ==
    /\ pc = "pump" /\ state = "disconnected" /\ due
    /\ \/ DisconnectAndReturn
       \/ \E c \in Unused : Connected(c)
       \/ /\ state' = "connecting"
          /\ UNCHANGED <<due, sock, buffer, connections, pc, then, received, owed>>

CheckConnect ==
    /\ pc = "pump" /\ state = "connecting"
    /\ \/ DisconnectAndReturn
       \/ \E c \in Unused : Connected(c)
       \/ /\ Return
          /\ UNCHANGED <<state, due, sock, buffer, connections, then, received, owed>>

\* The end of the connection is seen, or the look at it fails
CheckPeerClosed ==
    /\ pc = "pump" /\ state = "connected"
    /\ \/ sock \notin theirs /\ DisconnectAndReturn
       \/ /\ pc' = "send"
          /\ UNCHANGED <<state, due, sock, buffer, connections, then, received, owed>>

\* MUTANT of CompleteSentLines: counts one line, however many were sent
CompleteCountsOne(pos) ==
    LET complete == NewLines(head, pos)
        h == IF complete = {} THEN head ELSE Highest(complete) + 1
    IN  Forward(h, pos, IF complete = {} THEN 0 ELSE 1)

CompleteSentLines(pos) ==
    LET complete == NewLines(head, pos)
        h == IF complete = {} THEN head ELSE Highest(complete) + 1
    IN  Forward(h, pos, Cardinality(complete))

\* What is sent into a connection which the forwarder has closed is gone
SendSome ==
    /\ pc = "send" /\ sendPos < tail
    /\ \E n \in 1..(tail - sendPos) :
           /\ IF sock \in theirs
              THEN /\ Len(wire[sock]) + n <= SocketBytes
                   /\ wire' = [wire EXCEPT ![sock] = @ \o Part(sendPos, sendPos + n)]
                   /\ UNCHANGED owed
              ELSE /\ owed' = owed \ {mem[i].line : i \in NewLines(sendPos, sendPos + n)}
                   /\ UNCHANGED wire
           /\ CompleteSentLines(sendPos + n)
    /\ UNCHANGED <<state, due, sock, ours, theirs, part, pc, then, received>>

SendEnds ==
    /\ pc = "send" /\ (sendPos = tail \/ sock \notin theirs \/ Len(wire[sock]) = SocketBytes)
    /\ Return
    /\ UNCHANGED <<state, due, sock, buffer, connections, then, received, owed>>

SendFails == pc = "send" /\ sendPos < tail /\ sock \notin theirs /\ DisconnectAndReturn

Pump ==
    \/ PumpWaits \/ StartConnect \/ CheckConnect \/ CheckPeerClosed
    \/ SendSome \/ SendEnds \/ SendFails

TimeComes ==
    /\ ~due /\ pc # "down" /\ due' = TRUE
    /\ UNCHANGED <<state, sock, buffer, connections, pc, then, received, owed>>

-----------------------------------------------------------------------------
(* The forwarder.  A line which is not whole is no record: it is refused. *)

Handle(texts) ==
    /\ received' = received \cup {l \in Lines : Body(l) \in texts}
    /\ owed' = owed \ received'

\* recv takes everything, and every new line in it ends a line
Read(c) ==
    /\ c \in theirs /\ wire[c] # << >>
    /\ LET all == part[c] \o wire[c]
           ends == {0} \cup {i \in DOMAIN all : all[i].k = 0}
           After(i) == SubSeq(all, i + 1, IF \E j \in ends : j > i THEN Lowest({j \in ends : j > i}) - 1 ELSE Len(all))
       IN  /\ Handle({After(i) : i \in ends \ {Highest(ends)}})
           /\ part' = [part EXCEPT ![c] = After(Highest(ends))]
    /\ wire' = [wire EXCEPT ![c] = << >>]
    /\ UNCHANGED <<state, due, sock, buffer, ours, theirs, pc, then>>

\* The sender closed the connection: a last line without new line is processed
ReadEnd(c) ==
    /\ c \in theirs \ ours /\ wire[c] = << >>
    /\ Handle({part[c]}) /\ part' = [part EXCEPT ![c] = << >>]
    /\ theirs' = theirs \ {c}
    /\ UNCHANGED <<state, due, sock, buffer, ours, wire, pc, then>>

\* The lines on a connection of which the forwarder has not read the end
SentOn(c) == {wire[c][i].line : i \in {j \in DOMAIN wire[c] : wire[c][j].k = 0}}

\* The forwarder ends, or closes: what it has not read is gone
Leave(c) ==
    /\ c \in theirs
    /\ theirs' = theirs \ {c}
    /\ owed' = owed \ SentOn(c)
    /\ wire' = [wire EXCEPT ![c] = << >>] /\ part' = [part EXCEPT ![c] = << >>]
    /\ UNCHANGED <<state, due, sock, buffer, ours, pc, then, received>>
=============================================================================
