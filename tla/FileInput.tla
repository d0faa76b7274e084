----------------------------- MODULE FileInput -----------------------------
(***************************************************************************)
(* The file input of otelfwd: the file thread reads lines with a           *)
(* FileReader and puts them into the queue, the push thread takes them out *)
(* in batches, pushes them or keeps them in the WAL, and hands the         *)
(* position behind a batch which is safe over in the FileCommitSlot.  The  *)
(* file thread commits it in its next round, and main at the end.          *)
(*                                                                         *)
(* The queue keeps a batch until the push thread is done with it.          *)
(***************************************************************************)
EXTENDS FileReader

VARIABLES
    slot,        \* FileCommitSlot: pending, and the position
    retry,       \* bRetry and the position which was not committed yet
    stopping,    \* g_ShutdownRequested
    delivered    \* history: the pieces of text which were pushed, kept in the WAL, or refused for good

vars == <<fileVars, slot, retry, stopping, delivered>>

Nowhere == [gen |-> 0, end |-> 0]

Init ==
    /\ FileInit
    /\ slot = [pending |-> FALSE, at |-> Nowhere]
    /\ retry = Nowhere /\ stopping = FALSE /\ delivered = {}

-----------------------------------------------------------------------------
(* FileReader::Commit, with the position p *)

CommitIgnored(p) == p.gen # generation \/ p.end <= committed
CommitRefused(p) == p.gen = generation /\ p.end > bufferStart

Commit(p, ok) ==
    \/ /\ p = Nowhere \/ (CommitIgnored(p) /\ ~CommitRefused(p))
       /\ UNCHANGED <<committed, saved>> /\ retry' = Nowhere
    \/ /\ p # Nowhere /\ CommitRefused(p)
       /\ UNCHANGED <<committed, saved>> /\ retry' = p
    \/ /\ p # Nowhere /\ ~CommitIgnored(p) /\ ~CommitRefused(p)
       /\ SaveState(fd, p.end, head, ok)
       /\ committed' = IF ok THEN p.end ELSE committed
       /\ retry' = IF ok THEN Nowhere ELSE p

\* MUTANT of ToCommit: what was read is committed
ToCommitRead == [gen |-> generation, end |-> bufferStart]

ToCommit == IF slot.pending THEN slot.at ELSE retry
Take == slot' = [slot EXCEPT !.pending = FALSE]

\* The start of a round: CommitDeliveredFilePositions, and a look at the room in the queue
Round(ok) ==
    /\ pc = "round" /\ ~stopping
    /\ Commit(ToCommit, ok) /\ Take
    /\ pc' = IF Len(queue) < QueueMax THEN "read" ELSE "round"
    /\ UNCHANGED <<world, firstOpen, fd, generation, head, reading, rotationSeen, waited, queue,
                   fileHistory, stopping, delivered>>

EndThread ==
    /\ pc = "round" /\ stopping
    /\ pc' = "ended"
    /\ UNCHANGED <<world, saved, reader, queue, fileHistory, slot, retry, stopping, delivered>>

FileThread ==
    \/ \E ok \in BOOLEAN : Round(ok)
    \/ EndThread
    \/ ReadLine /\ UNCHANGED <<slot, retry, stopping, delivered>>

-----------------------------------------------------------------------------
(* The push thread *)

Before(p, q) == p.gen < q.gen \/ (p.gen = q.gen /\ p.end < q.end)

\* Only a position which is behind every one before it counts
Add(p) == slot' = IF Before(slot.at, p) THEN [pending |-> TRUE, at |-> p] ELSE slot

\* MUTANT of HandOver: also of a batch which was dropped
HandOverAll(n, safe) == Add([gen |-> queue[n].gen, end |-> queue[n].end])

\* The positions of a batch of n lines ascend: the last one stands for all
HandOver(n, safe) == IF safe THEN Add([gen |-> queue[n].gen, end |-> queue[n].end]) ELSE UNCHANGED slot

\* A batch is accepted, kept in the WAL, refused for good, or it has no place (the WAL is full)
PushBatch(n, safe) ==
    /\ pc # "down" /\ n \in DOMAIN queue
    /\ LET batch == UNION {In(queue[i].text) : i \in 1..n}
       IN  /\ delivered' = IF safe THEN delivered \cup batch ELSE delivered
           /\ gone' = IF safe THEN gone ELSE gone \cup batch
    /\ HandOver(n, safe)
    /\ queue' = Behind(queue, n)
    /\ UNCHANGED <<world, saved, reader, pc, written, spoiled, retry, stopping>>

-----------------------------------------------------------------------------
(* The process *)

Start ==
    /\ pc = "down"
    /\ pc' = "round"
    /\ UNCHANGED <<world, saved, reader, queue, fileHistory, slot, retry, stopping, delivered>>

\* The lines of the queue which are in a file that was rotated away: the state file belongs to
\* the next file
RotatedText ==
    UNION {In(queue[n].text) : n \in {m \in DOMAIN queue : queue[m].gen < generation}}
        \cap UNION {In(content[i]) : i \in Inodes}

\* What is in memory is gone.  What is not in the file of the path is not found again; for a
\* line which was read before the rotation, nobody says so.
Exit ==
    /\ firstOpen' = TRUE /\ fd' = NoFile /\ generation' = 0 /\ head' = NoCells
    /\ buffer' = NoCells /\ bufferStart' = 0 /\ skipping' = FALSE
    /\ rotationSeen' = FALSE /\ waited' = FALSE
    /\ committed' = 0 /\ queue' = << >> /\ pc' = "down"
    /\ slot' = [pending |-> FALSE, at |-> Nowhere] /\ retry' = Nowhere /\ stopping' = FALSE
    /\ gone' = gone \cup (written \ (RotatedText \cup (IF path = NoFile THEN {} ELSE In(content[path]))))
    /\ spoiled' = IF RotatedText # {} THEN spoiled \cup {"changed"} ELSE spoiled
    /\ UNCHANGED <<world, written, delivered>>

Crash == pc # "down" /\ Exit /\ UNCHANGED saved

RequestShutdown ==
    /\ pc # "down" /\ ~stopping
    /\ stopping' = TRUE
    /\ UNCHANGED <<world, saved, reader, pc, queue, fileHistory, slot, retry, delivered>>

\* MUTANT of LastCommit: the process ends when the threads have ended
LastCommitNone(ok) == UNCHANGED saved

\* main commits what the push thread delivered after the file thread had ended
LastCommit(ok) ==
    IF slot.pending /\ ~CommitIgnored(slot.at) /\ ~CommitRefused(slot.at)
    THEN SaveState(fd, slot.at.end, head, ok) ELSE UNCHANGED saved

Shutdown(ok) == pc = "ended" /\ LastCommit(ok) /\ Exit

\* The state file cannot be read any more
DamageState ==
    /\ pc = "down" /\ saved # NoState
    /\ saved' = NoState
    /\ UNCHANGED <<world, reader, pc, queue, fileHistory, slot, retry, stopping, delivered>>

Next ==
    /\ \/ World /\ UNCHANGED <<slot, retry, stopping, delivered>>
       \/ FileThread
       \/ \E n \in DOMAIN queue, safe \in BOOLEAN : PushBatch(n, safe)
       \/ Start \/ Crash \/ RequestShutdown \/ DamageState
       \/ \E ok \in BOOLEAN : Shutdown(ok)
    /\ UNCHANGED setting

Spec == Init /\ [][Next]_vars

-----------------------------------------------------------------------------
Positions == [gen : Nat, end : Nat]
Lines == [text : Seq(Cells), gen : Nat, end : Nat]

TypeOK ==
    /\ content \in [Inodes -> Seq(Cells)] /\ path \in Inodes \cup {NoFile} /\ writing \in Inodes \cup {NoFile}
    /\ line \in 0..MaxLines /\ part \in 0..MaxText /\ changes \in 0..MaxChanges
    /\ saved \in [inode : Inodes \cup {NoFile}, offset : Nat, head : Seq(Cells)]
    /\ firstOpen \in BOOLEAN /\ fd \in Inodes \cup {NoFile} /\ generation \in Nat
    /\ head \in Seq(Cells) /\ Len(head) <= HeadMax /\ buffer \in Seq(Cells) /\ bufferStart \in Nat
    /\ skipping \in BOOLEAN /\ rotationSeen \in BOOLEAN /\ waited \in BOOLEAN /\ committed \in Nat
    /\ pc \in {"down", "round", "read", "fill", "end", "ended"}
    /\ queue \in Seq(Lines) /\ Len(queue) <= QueueMax
    /\ written \subseteq Cells /\ gone \subseteq Cells /\ delivered \subseteq Cells
    /\ spoiled \subseteq {"passed", "mixed", "unseen", "changed"}
    /\ slot \in [pending : BOOLEAN, at : Positions] /\ retry \in Positions /\ stopping \in BOOLEAN

(* Where a piece of text is which was not delivered yet *)
Owed == {c \in written : c.k <= MaxLineLength} \ (delivered \cup gone)

Queued(c) == \E i \in DOMAIN queue : c \in In(queue[i].text)
WillChange ==
    \/ Len(content[fd]) < bufferStart + Len(buffer)
    \/ Prefix(content[fd], Len(head)) # head
Ahead(c) ==
    fd # NoFile /\ \E i \in DOMAIN content[fd] :
        content[fd][i] = c /\ (i > bufferStart + Len(buffer) \/ WillChange)
InNextFile(c) == path # NoFile /\ path # fd /\ c \in In(content[path])

\* Where a restart reads the file again
AfterRestart(c) ==
    path # NoFile /\ \E i \in DOMAIN content[path] :
        content[path][i] = c /\ i > (IF SameFile(path) THEN saved.offset ELSE 0)

InHand(c) ==
    IF Follows THEN Queued(c) \/ c \in In(buffer) \/ Ahead(c) \/ InNextFile(c)
               ELSE AfterRestart(c)

Safe == \A c \in Owed : InHand(c)

\* Delivery is at least once, and no line is lost (file_reader.hpp:15-17): every piece which
\* was written is on its way, or a restart reads it again, behind rotations, truncations,
\* crashes, restarts and failures of the state file.
NoneLost == spoiled = {} => Safe

\* The saved position is never behind a line which is not delivered (otelfwd.cpp:2048-2050): a
\* crash at any moment repeats lines, it does not skip one.
CrashSafe ==
    spoiled = {} /\ saved.inode # NoFile /\ SameFile(saved.inode) =>
        \A i \in 1..saved.offset : content[saved.inode][i] \notin Owed

\* Lines reach the receiver for the first time in the order in which they were written.
FirstDeliveriesInOrder ==
    [][spoiled' = {} => \A c \in delivered' \ delivered, d \in Owed : d.line < c.line => d \in delivered']_vars

\* A line which is returned is a part of one line, without a hole (README.md of filereader:
\* "half a line is never handed out"; a cut line and a last line without a new line are parts).
WholeLines ==
    \A n \in DOMAIN queue : \A i \in DOMAIN queue[n].text :
        queue[n].text[i] = Text(queue[n].text[1].line, queue[n].text[1].k + i - 1)

LinesAreWhole == "mixed" \notin spoiled => WholeLines

\* A batch which has no place in a full WAL does not move the position of the state file
\* (otelfwd.cpp:1655-1657): what is saved is a position in a line of which a part in front of
\* it was delivered, so that a restart reads the dropped batch again, until a later one is safe.
SavedIsDelivered ==
    spoiled = {} /\ ~StartAtEnd /\ saved.inode # NoFile /\ saved.offset > 0 /\ SameFile(saved.inode) =>
        \E i \in 1..saved.offset :
            /\ content[saved.inode][i].line = content[saved.inode][saved.offset].line
            /\ content[saved.inode][i] \in delivered

LastPositionSaved(ok) ==
    Shutdown(ok) /\ fd # NoFile /\ slot.at.gen = generation => saved'.inode = fd /\ saved'.offset >= slot.at.end

\* A restart does not repeat lines which were delivered (otelfwd.cpp:4154-4156): after a
\* shutdown with a state file which can be written every position handed over is saved.
StopSavesAll == [][retry = Nowhere => LastPositionSaved(TRUE)]_vars

\* No line is lost (file_reader.hpp:15-16), without the exception of a crash after the reader
\* went over to the next file: a crash repeats what was read and not committed.
NoneLostAfterChange == spoiled \subseteq {"changed"} => Safe
=============================================================================
