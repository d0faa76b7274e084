------------------------------ MODULE SimpleWAL ------------------------------
(***************************************************************************)
(* The write ahead log of wal/simple_wal.cpp: one object, used from any    *)
(* number of threads, and the two files it leaves on disk.                 *)
(*                                                                         *)
(* The mutex of the class makes one step of every locked region.  Append,  *)
(* Clear, Peek and Ack are one region each.  A Replay is a locked start, a *)
(* locked read per record, the call of the application's function without  *)
(* the mutex, and a locked end.                                            *)
(*                                                                         *)
(* The WAL file is a sequence of cells.  A record is two of them, its head *)
(* (the length) and its body, and an offset is a number of cells.  A       *)
(* record which was cut off is a head without its body.  Reading from an   *)
(* offset which is not the start of a whole record finds a length nobody   *)
(* wrote: the length is then any value.                                    *)
(***************************************************************************)
EXTENDS Integers, Sequences

CONSTANTS
    Threads,     \* the threads which call Replay
    MaxRecords,  \* bound: how many records the application appends
    MaxSize      \* SetMaxSize, in cells; 0 is no limit

ASSUME MaxRecordsAssumption == MaxRecords \in Nat
ASSUME MaxSizeAssumption == MaxSize \in Nat

VARIABLES
    (* The files *)
    file,           \* <path>: the cells
    commit,         \* <path>.commit: an offset; 0 is also no file and a file which is not 8 bytes
    (* The object *)
    isOpen,         \* m_fd >= 0
    pending,        \* m_PendingReplay
    commitChecked,  \* m_bCommitChecked
    replaying,      \* m_bReplaying
    peekNext,       \* the offset an Ack would save: the end of the peeked record. 0: nothing
                    \* was peeked, or m_PeekEpoch is no longer m_PositionEpoch
    (* The locals of Replay, one set for each thread *)
    pc,
    offset,         \* NewOffset
    didReplay,      \* bDidReplay
    buffer,         \* Buffer: the record handed to the application
    next,           \* NewOffset + 4 + Len
    (* The application *)
    hand,           \* the record Peek returned and which is not handled yet
    handled,        \* the application is done with the record Peek returned
    (* History *)
    appended,       \* the last record number used
    accepted,       \* Append returned true
    delivered,      \* the application accepted it: Consume returned true, or it was handled after Peek
    discarded,      \* the application gave it up with Clear
    wrongCommit,    \* the commit file holds a value this WAL did not write
    moved,          \* Clear emptied the WAL under the running Replay
    spoiled         \* what has happened after which a record can be lost (see the findings)

files == <<file, commit>>
object == <<isOpen, pending, commitChecked, replaying, peekNext>>
locals == <<pc, offset, didReplay, buffer, next>>
app == <<hand, handled>>
history == <<appended, accepted, delivered, discarded>>
marks == <<wrongCommit, moved, spoiled>>
vars == <<files, object, locals, app, history, marks>>

-----------------------------------------------------------------------------
(* Records and the file *)

NoRecord == 0
Garbage == -1      \* bytes which are no record of the application

Records == 1..MaxRecords
Cell == [rec : Records, part : {"head", "body"}]

NoCells == << >>   \* an empty file

HeadOf(r) == [rec |-> r, part |-> "head"]
BodyOf(r) == [rec |-> r, part |-> "body"]

\* A whole record starts at cell i
WholeAt(i) == i < Len(file) /\ file[i].part = "head" /\ file[i + 1] = BodyOf(file[i].rec)

\* The file ends with a record which was cut off
TornTail == Len(file) > 0 /\ file[Len(file)].part = "head"

\* Following the lengths from the start of the file up to o, is o the start of a
\* record?  A head without its body makes every answer possible.
IsRecordBoundary(o) ==
    IF \A i \in 1..o : file[i].part = "head" => WholeAt(i)
    THEN {file[o + 1].part = "head"}
    ELSE BOOLEAN

\* Mutant of GetReplayPosition: a position inside the file is taken as it is
PositionUnchecked == IF commit > Len(file) THEN {0} ELSE {commit}

\* Where a replay starts, and what it starts from if the commit file does not fit
GetReplayPosition ==
    IF commit > Len(file) THEN {0}
    ELSE IF commitChecked \/ commit \in {0, Len(file)} THEN {commit}
    ELSE {IF fits THEN commit ELSE 0 : fits \in IsRecordBoundary(commit)}

\* The records ReadRecord may return at o, with the offset behind each
RecordsAt(o) ==
    IF o >= Len(file) THEN {}
    ELSE IF WholeAt(o + 1) THEN {[rec |-> file[o + 1].rec, next |-> o + 2]}
    ELSE IF file[o + 1].part = "head" /\ o + 1 = Len(file) THEN {}
    ELSE {[rec |-> Garbage, next |-> n] : n \in (o + 1)..Len(file)}

\* The length at o does not fit into the rest of the file
DamagedAt(o) == o < Len(file) /\ ~WholeAt(o + 1)

-----------------------------------------------------------------------------
(* The private functions which write the files *)

\* Mutant of ClearInternal: the epoch is not changed, so that an old Ack still fits
ClearKeepsPeek(ok, keptPeek) ==
    IF ok THEN /\ file' = NoCells /\ commit' = 0 /\ wrongCommit' = FALSE
               /\ pending' = FALSE /\ peekNext' = peekNext
          ELSE UNCHANGED <<files, wrongCommit, pending>> /\ peekNext' = keptPeek

\* Mutant of ClearInternal: the file is not truncated
ClearKeepsFile(ok, keptPeek) ==
    /\ commit' = 0 /\ wrongCommit' = FALSE /\ UNCHANGED <<file, pending>>
    /\ peekNext' = IF ok THEN 0 ELSE keptPeek

\* The commit file goes first, then the file is truncated.  A failure of the first
\* leaves everything as it is, a failure of the second leaves the records without
\* a position; so does a crash in between.
ClearInternal(ok, keptPeek) ==
    \/ /\ ok
       /\ file' = NoCells /\ commit' = 0 /\ wrongCommit' = FALSE
       /\ pending' = FALSE /\ peekNext' = 0
    \/ /\ ~ok
       /\ UNCHANGED <<files, wrongCommit, pending>>
       /\ peekNext' = keptPeek
    \/ /\ ~ok
       /\ commit' = 0 /\ wrongCommit' = FALSE
       /\ UNCHANGED <<file, pending>>
       /\ peekNext' = keptPeek

\* The commit file is truncated and written.  If it cannot be opened nothing
\* changes, if it cannot be written it is left too short.
StoreCommit(o, ok, keptPeek) ==
    /\ UNCHANGED <<file, pending>>
    /\ \/ ok /\ commit' = o /\ wrongCommit' = FALSE /\ peekNext' = 0
       \/ ~ok /\ UNCHANGED <<commit, wrongCommit>> /\ peekNext' = keptPeek
       \/ ~ok /\ commit' = 0 /\ wrongCommit' = FALSE /\ peekNext' = 0

HasRoom(cells) == MaxSize = 0 \/ Len(file) + cells <= MaxSize

-----------------------------------------------------------------------------
(* Opening and closing *)

NoLocals ==
    /\ pc' = [t \in Threads |-> "idle"]
    /\ offset' = [t \in Threads |-> 0]
    /\ didReplay' = [t \in Threads |-> FALSE]
    /\ buffer' = [t \in Threads |-> NoRecord]
    /\ next' = [t \in Threads |-> 0]

Init ==
    /\ file = NoCells /\ commit = 0
    /\ isOpen = FALSE /\ pending = FALSE /\ commitChecked = FALSE
    /\ replaying = FALSE /\ peekNext = 0
    /\ pc = [t \in Threads |-> "idle"]
    /\ offset = [t \in Threads |-> 0]
    /\ didReplay = [t \in Threads |-> FALSE]
    /\ buffer = [t \in Threads |-> NoRecord]
    /\ next = [t \in Threads |-> 0]
    /\ hand = NoRecord /\ handled = FALSE
    /\ appended = 0 /\ accepted = {} /\ delivered = {} /\ discarded = {}
    /\ wrongCommit = FALSE /\ moved = FALSE /\ spoiled = {}

\* The object of the next process, as its constructor leaves it
NewObject ==
    /\ isOpen' = FALSE /\ pending' = FALSE /\ commitChecked' = FALSE
    /\ replaying' = FALSE /\ peekNext' = 0

\* Mutant of Open: the records of the last process are not looked for
OpenNotPending ==
    /\ ~isOpen
    /\ isOpen' = TRUE /\ pending' = FALSE
    /\ commitChecked' = FALSE /\ peekNext' = 0
    /\ UNCHANGED <<files, replaying, locals, app, history, marks>>

\* SimpleWAL::Init.  The files are left as the last process left them.
Open ==
    /\ ~isOpen
    /\ isOpen' = TRUE /\ pending' = (file # NoCells)
    /\ commitChecked' = FALSE /\ peekNext' = 0
    /\ UNCHANGED <<files, replaying, locals, app, history, marks>>

\* The destructor, after the threads are done.  An empty WAL leaves no files behind.
Close ==
    /\ isOpen /\ ~replaying
    /\ NewObject
    /\ IF file = NoCells
       THEN commit' = 0 /\ wrongCommit' = FALSE
       ELSE UNCHANGED <<commit, wrongCommit>>
    /\ hand' = NoRecord /\ handled' = FALSE
    /\ UNCHANGED <<file, locals, history, moved, spoiled>>

\* The process ends at any point.  What was written stays in the files.
Crash ==
    /\ isOpen
    /\ NewObject
    /\ NoLocals
    /\ hand' = NoRecord /\ handled' = FALSE
    /\ moved' = FALSE
    /\ UNCHANGED <<files, history, wrongCommit, spoiled>>

\* The commit file is damaged, or one of an older WAL is put beside the file while
\* nobody uses it: a value which is not the start of a record.
DamageCommit ==
    /\ ~isOpen /\ ~wrongCommit
    /\ \E o \in 1..(2 * MaxRecords) :
        /\ o # Len(file)
        /\ o < Len(file) => file[o + 1].part # "head"
        /\ commit' = o
    /\ wrongCommit' = TRUE
    /\ UNCHANGED <<file, object, locals, app, history, moved, spoiled>>

-----------------------------------------------------------------------------
(* Append and Clear *)

\* Writing cells behind a record which was cut off is not noticed
Write(cells) ==
    /\ HasRoom(2)
    /\ appended < MaxRecords
    /\ appended' = appended + 1
    /\ file' = file \o cells
    /\ spoiled' = IF TornTail THEN spoiled \cup {"torn"} ELSE spoiled

\* The record is stored and Append returns true.  A record which is refused, or
\* written in part and removed again, changes nothing.
AppendStored ==
    /\ isOpen
    /\ Write(<<HeadOf(appended + 1), BodyOf(appended + 1)>>)
    /\ pending' = TRUE
    /\ accepted' = accepted \cup {appended + 1}
    /\ UNCHANGED <<commit, isOpen, commitChecked, replaying, peekNext, locals, app,
                   delivered, discarded, wrongCommit, moved>>

\* Mutant of AppendTorn: a record which was written in part is reported as stored
AppendTornAccepted ==
    /\ isOpen
    /\ Write(<<HeadOf(appended + 1)>>)
    /\ accepted' = accepted \cup {appended + 1}
    /\ UNCHANGED <<commit, object, locals, app, delivered, discarded, wrongCommit, moved>>

\* The disk is full in the middle of the record, and the part cannot be removed
\* either.  With a Crash behind it: the process ended in the middle of an Append.
AppendTorn ==
    /\ isOpen
    /\ Write(<<HeadOf(appended + 1)>>)
    /\ UNCHANGED <<commit, object, locals, app, accepted, delivered, discarded,
                   wrongCommit, moved>>

Clear(ok) ==
    /\ isOpen
    /\ ClearInternal(ok, peekNext)
    /\ discarded' = IF ok THEN discarded \cup (accepted \ delivered) ELSE discarded
    /\ moved' = IF ok THEN replaying ELSE moved
    /\ UNCHANGED <<isOpen, commitChecked, replaying, locals, app, appended, accepted,
                   delivered, spoiled>>

-----------------------------------------------------------------------------
(* Replay *)

\* A position which this WAL did not write is used: the commit file was found wrong
\* before and left as it is ("commit"), or the value looks right ("fits")
PositionMarks(o) ==
    IF ~wrongCommit \/ o = 0 THEN spoiled
    ELSE IF commitChecked THEN spoiled \cup {"commit"}
    ELSE IF o = Len(file) \/ file[o + 1].part = "head" THEN spoiled \cup {"fits"}
    ELSE spoiled

\* The position of the running Replay belongs to the WAL before the Clear
Stale(t) == moved /\ offset[t] # 0

\* Mutant of Leave: the place is not given back
LeaveKeepsPlace(t) ==
    /\ pc' = [pc EXCEPT ![t] = "idle"]
    /\ offset' = [offset EXCEPT ![t] = 0]
    /\ didReplay' = [didReplay EXCEPT ![t] = FALSE]
    /\ buffer' = [buffer EXCEPT ![t] = NoRecord]
    /\ next' = [next EXCEPT ![t] = 0]
    /\ UNCHANGED replaying
    /\ moved' = FALSE

\* ReplayPlace::Give, and the locals are gone
Leave(t) ==
    /\ pc' = [pc EXCEPT ![t] = "idle"]
    /\ offset' = [offset EXCEPT ![t] = 0]
    /\ didReplay' = [didReplay EXCEPT ![t] = FALSE]
    /\ buffer' = [buffer EXCEPT ![t] = NoRecord]
    /\ next' = [next EXCEPT ![t] = 0]
    /\ replaying' = FALSE
    /\ moved' = FALSE

\* ReplayPlace::Take
TakePlace == ~replaying /\ replaying' = TRUE

ReplayStart(t) ==
    /\ isOpen /\ pc[t] = "idle"
    /\ TakePlace
    /\ \E o \in GetReplayPosition :
        /\ offset' = [offset EXCEPT ![t] = o]
        /\ spoiled' = PositionMarks(o)
    /\ commitChecked' = TRUE
    /\ pc' = [pc EXCEPT ![t] = "read"]
    /\ moved' = FALSE
    /\ UNCHANGED <<files, isOpen, pending, peekNext, didReplay, buffer, next, app, history,
                   wrongCommit>>

\* READ_RECORD
ReplayReadRecord(t) ==
    /\ pc[t] = "read"
    /\ \E record \in RecordsAt(offset[t]) :
        /\ buffer' = [buffer EXCEPT ![t] = record.rec]
        /\ next' = [next EXCEPT ![t] = record.next]
    /\ pc' = [pc EXCEPT ![t] = "consume"]
    /\ spoiled' = IF Stale(t) THEN spoiled \cup {"clear"} ELSE spoiled
    /\ moved' = FALSE
    /\ UNCHANGED <<files, object, offset, didReplay, app, history, wrongCommit>>

\* READ_EMPTY, and READ_DAMAGED with the rest moved to the .corrupt file
ReplayReadLast(t, ok) ==
    /\ pc[t] = "read"
    /\ offset[t] = Len(file) \/ DamagedAt(offset[t])
    /\ ClearInternal(ok, peekNext)
    /\ pc' = [pc EXCEPT ![t] = "give"]
    /\ spoiled' = IF Stale(t) /\ file # NoCells THEN spoiled \cup {"clear"} ELSE spoiled
    /\ UNCHANGED <<isOpen, commitChecked, replaying, offset, didReplay, buffer, next, app,
                   history, moved>>

\* READ_CHANGED: nothing of this Replay is saved
ReplayReadChanged(t) ==
    /\ pc[t] = "read"
    /\ offset[t] > Len(file)
    /\ pc' = [pc EXCEPT ![t] = "give"]
    /\ UNCHANGED <<files, object, offset, didReplay, buffer, next, app, history, marks>>

\* READ_STOP: the file cannot be read, or its damaged part cannot be moved
ReplayReadStop(t) ==
    /\ pc[t] = "read"
    /\ pc' = [pc EXCEPT ![t] = "end"]
    /\ UNCHANGED <<files, object, offset, didReplay, buffer, next, app, history, marks>>

\* Consume returns true
ConsumeAccepts(t) ==
    /\ pc[t] = "consume"
    /\ delivered' = delivered \cup ({buffer[t]} \cap accepted)
    /\ offset' = [offset EXCEPT ![t] = next[t]]
    /\ didReplay' = [didReplay EXCEPT ![t] = TRUE]
    /\ buffer' = [buffer EXCEPT ![t] = NoRecord]
    /\ next' = [next EXCEPT ![t] = 0]
    /\ pc' = [pc EXCEPT ![t] = "read"]
    /\ UNCHANGED <<files, object, app, appended, accepted, discarded, marks>>

\* Consume returns false
ConsumeRefuses(t) ==
    /\ pc[t] = "consume"
    /\ pc' = [pc EXCEPT ![t] = "end"]
    /\ UNCHANGED <<files, object, offset, didReplay, buffer, next, app, history, marks>>

\* Consume throws: the place is given back, the position is not saved
ConsumeThrows(t) ==
    /\ pc[t] = "consume"
    /\ Leave(t)
    /\ UNCHANGED <<files, isOpen, pending, commitChecked, peekNext, app, history,
                   wrongCommit, spoiled>>

\* The end after a Replay which stopped in between: what was accepted is saved
ReplayEnd(t, ok) ==
    /\ pc[t] = "end"
    /\ IF didReplay[t]
       THEN StoreCommit(offset[t], ok, peekNext)
       ELSE ok /\ UNCHANGED <<files, pending, peekNext, wrongCommit>>
    /\ Leave(t)
    /\ spoiled' = IF didReplay[t] /\ ok /\ Stale(t) THEN spoiled \cup {"clear"} ELSE spoiled
    /\ UNCHANGED <<isOpen, commitChecked, app, history>>

\* The end after READ_EMPTY, READ_DAMAGED and READ_CHANGED
ReplayGive(t) ==
    /\ pc[t] = "give"
    /\ Leave(t)
    /\ UNCHANGED <<files, isOpen, pending, commitChecked, peekNext, app, history,
                   wrongCommit, spoiled>>

-----------------------------------------------------------------------------
(* Peek and Ack: one consumer with a loop of its own *)

\* Nothing pending, another thread replays, or the file cannot be opened
PeekNothing ==
    /\ isOpen
    /\ peekNext' = 0
    /\ hand' = NoRecord /\ handled' = FALSE
    /\ UNCHANGED <<files, isOpen, pending, commitChecked, replaying, locals, history, marks>>

PeekPosition(o) ==
    /\ isOpen /\ ~replaying /\ pending
    /\ o \in GetReplayPosition
    /\ commitChecked' = TRUE
    /\ spoiled' = PositionMarks(o)
    /\ handled' = FALSE

PeekRecord ==
    \E o \in GetReplayPosition : \E record \in RecordsAt(o) :
        /\ PeekPosition(o)
        /\ hand' = record.rec
        /\ peekNext' = record.next
        /\ UNCHANGED <<files, isOpen, pending, replaying, locals, history, wrongCommit, moved>>

\* READ_STOP
PeekStop ==
    \E o \in GetReplayPosition :
        /\ PeekPosition(o)
        /\ hand' = NoRecord /\ peekNext' = 0
        /\ UNCHANGED <<files, isOpen, pending, replaying, locals, history, wrongCommit, moved>>

\* READ_EMPTY and READ_DAMAGED
PeekLast(ok) ==
    \E o \in GetReplayPosition :
        /\ PeekPosition(o)
        /\ o = Len(file) \/ DamagedAt(o)
        /\ ClearInternal(ok, 0)
        /\ hand' = NoRecord
        /\ UNCHANGED <<isOpen, replaying, locals, history, moved>>

\* The application is done with the record
HandleRecord ==
    /\ hand # NoRecord
    /\ delivered' = delivered \cup ({hand} \cap accepted)
    /\ hand' = NoRecord /\ handled' = TRUE
    /\ UNCHANGED <<files, object, locals, appended, accepted, discarded, marks>>

\* Whether Ack still acknowledges the record which was peeked
AckFits == peekNext # 0 /\ ~replaying /\ peekNext <= Len(file)

AckRefused ==
    /\ handled /\ ~AckFits
    /\ peekNext' = 0 /\ handled' = FALSE
    /\ UNCHANGED <<files, isOpen, pending, commitChecked, replaying, locals, hand, history, marks>>

AckSaved(ok) ==
    /\ handled /\ AckFits
    /\ IF peekNext = Len(file)
       THEN ClearInternal(ok, 0)
       ELSE StoreCommit(peekNext, ok, 0)
    /\ handled' = FALSE
    /\ UNCHANGED <<isOpen, commitChecked, replaying, locals, hand, history, moved, spoiled>>

-----------------------------------------------------------------------------

Replay(t) ==
    \/ ReplayStart(t) \/ ReplayReadRecord(t) \/ ReplayReadChanged(t) \/ ReplayReadStop(t)
    \/ ConsumeAccepts(t) \/ ConsumeRefuses(t) \/ ConsumeThrows(t)
    \/ \E ok \in BOOLEAN : ReplayReadLast(t, ok) \/ ReplayEnd(t, ok)
    \/ ReplayGive(t)

PeekAndAck ==
    \/ PeekNothing \/ PeekRecord \/ PeekStop \/ HandleRecord \/ AckRefused
    \/ \E ok \in BOOLEAN : PeekLast(ok) \/ AckSaved(ok)

Next ==
    \/ Open \/ Close \/ Crash \/ DamageCommit
    \/ AppendStored \/ AppendTorn
    \/ \E ok \in BOOLEAN : Clear(ok)
    \/ \E t \in Threads : Replay(t)
    \/ PeekAndAck

Spec == Init /\ [][Next]_vars

-----------------------------------------------------------------------------
(* Properties *)

Unfinished == accepted \ (delivered \cup discarded)

\* Record r is whole in the file, and no position which was saved is behind it
Kept(r) ==
    \E i \in 1..Len(file) :
        WholeAt(i) /\ file[i].rec = r /\ (wrongCommit \/ commit < i)

Reading(t) == pc[t] \in {"read", "consume", "end"}

\* Every variable has its type.
TypeOK ==
    /\ file \in Seq(Cell) /\ commit \in Nat
    /\ isOpen \in BOOLEAN /\ pending \in BOOLEAN /\ commitChecked \in BOOLEAN
    /\ replaying \in BOOLEAN /\ peekNext \in Nat
    /\ pc \in [Threads -> {"idle", "read", "consume", "end", "give"}]
    /\ offset \in [Threads -> Nat] /\ didReplay \in [Threads -> BOOLEAN]
    /\ buffer \in [Threads -> Records \cup {NoRecord, Garbage}]
    /\ next \in [Threads -> Nat]
    /\ hand \in Records \cup {NoRecord, Garbage} /\ handled \in BOOLEAN
    /\ appended \in 0..MaxRecords
    /\ accepted \subseteq 1..appended
    /\ delivered \subseteq accepted /\ discarded \subseteq accepted
    /\ wrongCommit \in BOOLEAN /\ moved \in BOOLEAN
    /\ spoiled \subseteq {"torn", "clear", "commit", "fits"}

\* "Delivery is at least once ... None is lost" (simple_wal.hpp:17): a record for
\* which Append returned true and which was neither delivered nor cleared is in the
\* file, whole and at or behind the saved position, after any failure, crash or
\* restart and whatever other threads do, as long as none of the events of
\* "spoiled" took place.
NoneLost == spoiled = {} => \A r \in Unfinished : Kept(r)

\* "The records are taken out in the order they were written" (simple_wal.hpp:11):
\* when a record was delivered, so was every older one which was not given up.
FirstDeliveriesInOrder ==
    spoiled = {} =>
        \A r \in delivered : \A q \in accepted : q < r => q \in delivered \cup discarded

\* "What was accepted is not delivered again" (simple_wal.hpp:15), once its position
\* is saved: a Replay never stands before the saved position, and an Ack which is
\* still good moves the position forward.
SavedNotAgain ==
    spoiled = {} /\ ~wrongCommit =>
        /\ \A t \in Threads : Reading(t) => commit <= offset[t]
        /\ AckFits => commit < peekNext

\* IsReplayPending, and with it every Peek, sees that there is a record: the flag is
\* never false while a whole record is in the file.
PendingSeen == isOpen /\ ~pending => \A i \in 1..Len(file) : ~WholeAt(i)

\* "Only one thread takes records out at a time" (simple_wal.hpp:32), and the place is
\* given back by every way out of Replay.
OneTaker ==
    /\ replaying = (\E t \in Threads : pc[t] # "idle")
    /\ \A t, u \in Threads : pc[t] # "idle" /\ pc[u] # "idle" => t = u

\* The refinement: the files hold what the abstract queue says is waiting.  A step
\* which loses a record is no step of the queue.
Stored == {file[i].rec : i \in {j \in 1..Len(file) : WholeAt(j)}} \cap Unfinished

Queue == INSTANCE DurableQueue WITH last <- appended, waiting <- Stored, givenUp <- discarded

\* The WAL implements the queue: accepted records wait in the file, and only their
\* delivery, oldest first, or a Clear takes them away.
ImplementsQueue ==
    Queue!Init /\ [][spoiled' = {} => Queue!Next]_<<appended, Stored, delivered, discarded>>

\* simple_wal.hpp:17 without the exception of a torn record: a record which was
\* appended behind one which was cut off is not lost.
NoneLostBehindTornRecord == spoiled \subseteq {"torn"} => \A r \in Unfinished : Kept(r)

\* simple_wal.cpp:699-702 without its exception: a commit position which does not fit
\* makes no record disappear.
NoneLostByWrongCommit == spoiled \subseteq {"commit"} => \A r \in Unfinished : Kept(r)

=============================================================================
