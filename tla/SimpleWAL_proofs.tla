-------------------------- MODULE SimpleWAL_proofs --------------------------
(***************************************************************************)
(* What holds of the WAL for any number of threads, any number of records  *)
(* and any size limit.                                                     *)
(***************************************************************************)
EXTENDS SimpleWALInv, SequenceTheorems, TLAPS

USE MaxRecordsAssumption, MaxSizeAssumption

-----------------------------------------------------------------------------
(* Cells and types *)

LEMMA CellTypes ==
    ASSUME NEW r \in Records
    PROVE  HeadOf(r) \in Cell /\ BodyOf(r) \in Cell /\ HeadOf(r) # BodyOf(r)
BY DEF HeadOf, BodyOf, Cell

LEMMA NoCellsType ==
    /\ NoCells \in Seq(Cell) /\ Len(NoCells) = 0
    /\ \A f \in Seq(Cell) : Len(f) = 0 => f = NoCells
BY EmptySeq DEF NoCells

LEMMA WrittenFile ==
    ASSUME file \in Seq(Cell), NEW cells \in Seq(Cell)
    PROVE  /\ file \o cells \in Seq(Cell)
           /\ Len(file \o cells) = Len(file) + Len(cells)
           /\ \A i \in 1..Len(file) : (file \o cells)[i] = file[i]
           /\ \A i \in 1..Len(cells) : (file \o cells)[Len(file) + i] = cells[i]
BY ConcatProperties, LenProperties

LEMMA RecordsAtType ==
    ASSUME file \in Seq(Cell), NEW o \in Nat, NEW record \in RecordsAt(o)
    PROVE  record.rec \in Records \cup {NoRecord, Garbage} /\ record.next \in Nat
<1>1. CASE o < Len(file) /\ WholeAt(o + 1)
  <2>1. file[o + 1] \in Cell
    BY <1>1, LenProperties
  <2>. QED
    BY <1>1, <2>1 DEF RecordsAt, Cell
<1>2. CASE o < Len(file) /\ ~WholeAt(o + 1)
  BY <1>2, LenProperties DEF RecordsAt
<1>. QED
  BY <1>1, <1>2, LenProperties DEF RecordsAt

LEMMA PositionType ==
    ASSUME commit \in Nat, NEW o \in GetReplayPosition
    PROVE  o \in Nat
BY DEF GetReplayPosition

LEMMA ClearType ==
    ASSUME TypeOK, NEW ok \in BOOLEAN, NEW kept \in Nat, ClearInternal(ok, kept)
    PROVE  /\ file' \in Seq(Cell) /\ commit' \in Nat /\ wrongCommit' \in BOOLEAN
           /\ pending' \in BOOLEAN /\ peekNext' \in Nat
<1>1. file' \in Seq(Cell)
  BY NoCellsType DEF TypeOK, ClearInternal, files
<1>2. commit' \in Nat /\ peekNext' \in Nat
  BY DEF TypeOK, ClearInternal, files
<1>3. wrongCommit' \in BOOLEAN /\ pending' \in BOOLEAN
  BY DEF TypeOK, ClearInternal
<1>. QED
  BY <1>1, <1>2, <1>3

LEMMA StoreType ==
    ASSUME TypeOK, NEW o \in Nat, NEW ok \in BOOLEAN, NEW kept \in Nat, StoreCommit(o, ok, kept)
    PROVE  /\ file' \in Seq(Cell) /\ commit' \in Nat /\ wrongCommit' \in BOOLEAN
           /\ pending' \in BOOLEAN /\ peekNext' \in Nat
<1>1. file' \in Seq(Cell)
  BY DEF TypeOK, StoreCommit
<1>2. commit' \in Nat /\ peekNext' \in Nat
  BY DEF TypeOK, StoreCommit
<1>3. wrongCommit' \in BOOLEAN /\ pending' \in BOOLEAN
  BY DEF TypeOK, StoreCommit
<1>. QED
  BY <1>1, <1>2, <1>3

LEMMA MarksType ==
    ASSUME TypeOK, NEW o
    PROVE  PositionMarks(o) \subseteq {"torn", "clear", "commit", "fits"}
BY DEF TypeOK, PositionMarks

LEMMA TypeInit == Init => TypeOK
<1>. SUFFICES ASSUME Init
              PROVE  TypeOK
  OBVIOUS
<1>1. file \in Seq(Cell) /\ commit \in Nat
  BY NoCellsType DEF Init
<1>2. /\ isOpen \in BOOLEAN /\ pending \in BOOLEAN /\ commitChecked \in BOOLEAN
      /\ replaying \in BOOLEAN /\ handled \in BOOLEAN
      /\ wrongCommit \in BOOLEAN /\ moved \in BOOLEAN
  BY DEF Init
<1>3. /\ pc \in [Threads -> {"idle", "read", "consume", "end", "give"}]
      /\ offset \in [Threads -> Nat] /\ didReplay \in [Threads -> BOOLEAN]
      /\ buffer \in [Threads -> Records \cup {NoRecord, Garbage}]
      /\ next \in [Threads -> Nat]
  BY DEF Init
<1>4. /\ peekNext \in Nat /\ hand \in Records \cup {NoRecord, Garbage}
      /\ appended \in 0..MaxRecords
      /\ accepted \subseteq 1..appended
      /\ delivered \subseteq accepted /\ discarded \subseteq accepted
      /\ spoiled \subseteq {"torn", "clear", "commit", "fits"}
  BY DEF Init
<1>. QED
  BY <1>1, <1>2, <1>3, <1>4 DEF TypeOK

LEMMA TypeNext == TypeOK /\ [Next]_vars => TypeOK'
<1>. SUFFICES ASSUME TypeOK, [Next]_vars
              PROVE  TypeOK'
  OBVIOUS
<1>. USE DEF TypeOK
<1>1. CASE Open
  BY <1>1 DEF Open, files, locals, app, history, marks
<1>2. CASE Close
  <2>1. file' \in Seq(Cell) /\ commit' \in Nat
    BY <1>2 DEF Close
  <2>2. wrongCommit' \in BOOLEAN
    BY <1>2 DEF Close
  <2>. QED
    BY <1>2, <2>1, <2>2 DEF Close, NewObject, locals, history, NoRecord
<1>3. CASE Crash
  BY <1>3 DEF Crash, NewObject, NoLocals, files, history, NoRecord
<1>4. CASE DamageCommit
  BY <1>4 DEF DamageCommit, object, locals, app, history
<1>5. CASE AppendStored
  <2>1. appended + 1 \in Records /\ appended' = appended + 1
    BY <1>5 DEF AppendStored, Write, Records
  <2>2. <<HeadOf(appended + 1), BodyOf(appended + 1)>> \in Seq(Cell)
    BY <2>1, CellTypes
  <2>3. file' \in Seq(Cell)
    BY <1>5, <2>2, WrittenFile DEF AppendStored, Write
  <2>. QED
    BY <1>5, <2>1, <2>3 DEF AppendStored, Write, locals, app, Records
<1>6. CASE AppendTorn
  <2>1. appended + 1 \in Records /\ appended' = appended + 1
    BY <1>6 DEF AppendTorn, Write, Records
  <2>2. <<HeadOf(appended + 1)>> \in Seq(Cell)
    BY <2>1, CellTypes
  <2>3. file' \in Seq(Cell)
    BY <1>6, <2>2, WrittenFile DEF AppendTorn, Write
  <2>. QED
    BY <1>6, <2>1, <2>3 DEF AppendTorn, Write, object, locals, app, Records
<1>7. ASSUME NEW ok \in BOOLEAN, Clear(ok)
      PROVE  TypeOK'
  <2>1. ClearInternal(ok, peekNext)
    BY <1>7 DEF Clear
  <2>. QED
    BY <1>7, <2>1, ClearType DEF Clear, locals, app
<1>8. ASSUME NEW t \in Threads, Replay(t)
      PROVE  TypeOK'
  <2>1. CASE ReplayStart(t)
    BY <2>1, PositionType, MarksType DEF ReplayStart, TakePlace, files, app, history
  <2>2. CASE ReplayReadRecord(t)
    <3>1. PICK record \in RecordsAt(offset[t]) :
            /\ buffer' = [buffer EXCEPT ![t] = record.rec]
            /\ next' = [next EXCEPT ![t] = record.next]
      BY <2>2 DEF ReplayReadRecord
    <3>2. record.rec \in Records \cup {NoRecord, Garbage} /\ record.next \in Nat
      BY RecordsAtType
    <3>. QED
      BY <2>2, <3>1, <3>2 DEF ReplayReadRecord, files, object, app, history
  <2>3. ASSUME NEW ok \in BOOLEAN, ReplayReadLast(t, ok)
        PROVE  TypeOK'
    <3>1. ClearInternal(ok, peekNext)
      BY <2>3 DEF ReplayReadLast
    <3>. QED
      BY <2>3, <3>1, ClearType DEF ReplayReadLast, app, history
  <2>4. CASE ReplayReadChanged(t)
    BY <2>4 DEF ReplayReadChanged, files, object, app, history, marks
  <2>5. CASE ReplayReadStop(t)
    BY <2>5 DEF ReplayReadStop, files, object, app, history, marks
  <2>6. CASE ConsumeAccepts(t)
    BY <2>6 DEF ConsumeAccepts, files, object, app, marks, NoRecord
  <2>7. CASE ConsumeRefuses(t)
    BY <2>7 DEF ConsumeRefuses, files, object, app, history, marks
  <2>8. CASE ConsumeThrows(t)
    BY <2>8 DEF ConsumeThrows, Leave, files, app, history, marks, NoRecord
  <2>9. ASSUME NEW ok \in BOOLEAN, ReplayEnd(t, ok)
        PROVE  TypeOK'
    <3>1. /\ file' \in Seq(Cell) /\ commit' \in Nat /\ wrongCommit' \in BOOLEAN
          /\ pending' \in BOOLEAN /\ peekNext' \in Nat
      <4>1. CASE didReplay[t]
        BY <2>9, <4>1, StoreType DEF ReplayEnd
      <4>2. CASE ~didReplay[t]
        BY <2>9, <4>2 DEF ReplayEnd, files
      <4>. QED
        BY <4>1, <4>2
    <3>. QED
      BY <2>9, <3>1 DEF ReplayEnd, Leave, app, history, NoRecord
  <2>10. CASE ReplayGive(t)
    BY <2>10 DEF ReplayGive, Leave, files, app, history, NoRecord
  <2>. QED
    BY <1>8, <2>1, <2>2, <2>3, <2>4, <2>5, <2>6, <2>7, <2>8, <2>9, <2>10 DEF Replay
<1>9. CASE PeekAndAck
  <2>1. CASE PeekNothing
    BY <2>1 DEF PeekNothing, files, locals, history, marks, NoRecord
  <2>2. CASE PeekRecord
    <3>0. PICK o \in GetReplayPosition : \E record \in RecordsAt(o) :
            /\ PeekPosition(o)
            /\ hand' = record.rec
            /\ peekNext' = record.next
            /\ UNCHANGED <<files, isOpen, pending, replaying, locals, history, wrongCommit, moved>>
      BY <2>2 DEF PeekRecord
    <3>1. PICK record \in RecordsAt(o) :
            /\ PeekPosition(o)
            /\ hand' = record.rec
            /\ peekNext' = record.next
            /\ UNCHANGED <<files, isOpen, pending, replaying, locals, history, wrongCommit, moved>>
      BY <3>0
    <3>2. record.rec \in Records \cup {NoRecord, Garbage} /\ record.next \in Nat
      BY PositionType, RecordsAtType
    <3>. QED
      BY <3>1, <3>2, MarksType DEF PeekPosition, files, locals, history
  <2>3. CASE PeekStop
    <3>1. PICK o : PeekPosition(o) /\ hand' = NoRecord /\ peekNext' = 0
                   /\ UNCHANGED <<files, isOpen, pending, replaying, locals, history, wrongCommit, moved>>
      BY <2>3 DEF PeekStop
    <3>. QED
      BY <3>1, MarksType DEF PeekPosition, files, locals, history, NoRecord
  <2>4. CASE HandleRecord
    BY <2>4 DEF HandleRecord, files, object, locals, marks, NoRecord
  <2>5. CASE AckRefused
    BY <2>5 DEF AckRefused, files, locals, history, marks
  <2>6. ASSUME NEW ok \in BOOLEAN, PeekLast(ok)
        PROVE  TypeOK'
    <3>1. PICK o : PeekPosition(o) /\ ClearInternal(ok, 0) /\ hand' = NoRecord
                   /\ UNCHANGED <<isOpen, replaying, locals, history, moved>>
      BY <2>6 DEF PeekLast
    <3>. QED
      BY <3>1, ClearType, MarksType DEF PeekPosition, locals, history, NoRecord
  <2>7. ASSUME NEW ok \in BOOLEAN, AckSaved(ok)
        PROVE  TypeOK'
    <3>1. /\ file' \in Seq(Cell) /\ commit' \in Nat /\ wrongCommit' \in BOOLEAN
          /\ pending' \in BOOLEAN /\ peekNext' \in Nat
      <4>1. CASE peekNext = Len(file)
        BY <2>7, <4>1, ClearType DEF AckSaved
      <4>2. CASE peekNext # Len(file)
        BY <2>7, <4>2, StoreType DEF AckSaved
      <4>. QED
        BY <4>1, <4>2
    <3>. QED
      BY <2>7, <3>1 DEF AckSaved, locals, history
  <2>. QED
    BY <1>9, <2>1, <2>2, <2>3, <2>4, <2>5, <2>6, <2>7 DEF PeekAndAck
<1>10. CASE UNCHANGED vars
  BY <1>10 DEF vars, files, object, locals, app, history, marks
<1>. QED
  BY <1>1, <1>2, <1>3, <1>4, <1>5, <1>6, <1>7, <1>8, <1>9, <1>10 DEF Next

\* Type correctness of the WAL and of the history.
THEOREM TypeCorrect == Spec => []TypeOK
<1>1. Init => TypeOK
  BY TypeInit
<1>2. TypeOK /\ [Next]_vars => TypeOK'
  BY TypeNext
<1>. QED
  BY <1>1, <1>2, PTL DEF Spec

-----------------------------------------------------------------------------
(* One thread replays at a time *)

LEMMA TakerNext == TypeOK /\ OneTaker /\ [Next]_vars => OneTaker'
<1>. SUFFICES ASSUME TypeOK, OneTaker, [Next]_vars
              PROVE  OneTaker'
  OBVIOUS
<1>. USE DEF OneTaker
<1>0. pc \in [Threads -> {"idle", "read", "consume", "end", "give"}]
  BY DEF TypeOK
<1>1. CASE Crash
  BY <1>1 DEF Crash, NewObject, NoLocals
<1>2. CASE Close
  BY <1>2 DEF Close, NewObject, locals
<1>3. ASSUME UNCHANGED <<replaying, pc>>
      PROVE  OneTaker'
  BY <1>3
<1>4. ASSUME NEW t \in Threads, Leave(t), pc[t] # "idle"
      PROVE  OneTaker'
  BY <1>0, <1>4 DEF Leave
<1>5. ASSUME NEW t \in Threads, pc[t] # "idle", UNCHANGED replaying,
             NEW q \in {"read", "consume", "end", "give"}, pc' = [pc EXCEPT ![t] = q]
      PROVE  OneTaker'
  BY <1>0, <1>5
<1>6. ASSUME NEW t \in Threads, Replay(t)
      PROVE  OneTaker'
  <2>1. CASE ReplayStart(t)
    BY <1>0, <2>1 DEF ReplayStart, TakePlace
  <2>2. CASE ReplayReadRecord(t)
    BY <1>5, <2>2 DEF ReplayReadRecord, object
  <2>3. ASSUME NEW ok \in BOOLEAN, ReplayReadLast(t, ok)
        PROVE  OneTaker'
    BY <1>5, <2>3 DEF ReplayReadLast
  <2>4. CASE ReplayReadChanged(t)
    BY <1>5, <2>4 DEF ReplayReadChanged, object
  <2>5. CASE ReplayReadStop(t)
    BY <1>5, <2>5 DEF ReplayReadStop, object
  <2>6. CASE ConsumeAccepts(t)
    BY <1>5, <2>6 DEF ConsumeAccepts, object
  <2>7. CASE ConsumeRefuses(t)
    BY <1>5, <2>7 DEF ConsumeRefuses, object
  <2>8. CASE ConsumeThrows(t)
    BY <1>4, <2>8 DEF ConsumeThrows
  <2>9. ASSUME NEW ok \in BOOLEAN, ReplayEnd(t, ok)
        PROVE  OneTaker'
    BY <1>4, <2>9 DEF ReplayEnd
  <2>10. CASE ReplayGive(t)
    BY <1>4, <2>10 DEF ReplayGive
  <2>. QED
    BY <1>6, <2>1, <2>2, <2>3, <2>4, <2>5, <2>6, <2>7, <2>8, <2>9, <2>10 DEF Replay
<1>7. CASE Open
  BY <1>3, <1>7 DEF Open, locals
<1>8. CASE DamageCommit
  BY <1>3, <1>8 DEF DamageCommit, object, locals
<1>9. CASE AppendStored
  BY <1>3, <1>9 DEF AppendStored, locals
<1>10. CASE AppendTorn
  BY <1>3, <1>10 DEF AppendTorn, object, locals
<1>11. ASSUME NEW ok \in BOOLEAN, Clear(ok)
       PROVE  OneTaker'
  BY <1>3, <1>11 DEF Clear, locals
<1>12. CASE PeekAndAck
  BY <1>3, <1>12 DEF PeekAndAck, PeekNothing, PeekRecord, PeekStop, PeekLast, HandleRecord,
                     AckRefused, AckSaved, object, locals
<1>13. CASE UNCHANGED vars
  BY <1>3, <1>13 DEF vars, object, locals
<1>. QED
  BY <1>1, <1>2, <1>6, <1>7, <1>8, <1>9, <1>10, <1>11, <1>12, <1>13 DEF Next

\* Only one thread takes records out at a time, and every way out of Replay gives
\* the place back.
THEOREM OneTakerHolds == Spec => []OneTaker
<1>1. Init => OneTaker
  BY DEF Init, OneTaker
<1>2. TypeOK /\ OneTaker /\ [Next]_vars => OneTaker'
  BY TakerNext
<1>. QED
  BY <1>1, <1>2, TypeCorrect, PTL DEF Spec

-----------------------------------------------------------------------------
(* IsReplayPending sees that there is a record *)

LEMMA PendingNext == TypeOK /\ TypeOK' /\ PendingSeen /\ [Next]_vars => PendingSeen'
<1>. SUFFICES ASSUME TypeOK, TypeOK', PendingSeen, [Next]_vars
              PROVE  PendingSeen'
  OBVIOUS
<1>1. ASSUME UNCHANGED <<file, isOpen, pending>>
      PROVE  PendingSeen'
  BY <1>1 DEF PendingSeen, WholeAt
<1>2. ASSUME UNCHANGED isOpen, NEW ok \in BOOLEAN, NEW kept, ClearInternal(ok, kept)
      PROVE  PendingSeen'
  <2>1. CASE ok
    BY <1>2, <2>1, NoCellsType DEF ClearInternal, PendingSeen
  <2>2. CASE ~ok
    BY <1>1, <1>2, <2>2 DEF ClearInternal, files
  <2>. QED
    BY <2>1, <2>2
<1>3. CASE Open
  <2>1. file' = file /\ pending' = (file # NoCells)
    BY <1>3 DEF Open, files
  <2>2. ~pending' => Len(file') = 0
    BY <2>1, NoCellsType
  <2>. QED
    BY <2>2 DEF PendingSeen
<1>4. CASE Close \/ Crash
  BY <1>4 DEF Close, Crash, NewObject, PendingSeen
<1>5. CASE DamageCommit
  BY <1>1, <1>5 DEF DamageCommit, object
<1>6. CASE AppendStored
  BY <1>6 DEF AppendStored, PendingSeen
<1>7. CASE AppendTorn
  <2>. DEFINE cells == <<HeadOf(appended + 1)>>
  <2>1. cells \in Seq(Cell) /\ Len(cells) = 1 /\ cells[1].part = "head"
    BY <1>7, CellTypes DEF AppendTorn, Write, Records, TypeOK, HeadOf
  <2>2. file' = file \o cells /\ UNCHANGED <<isOpen, pending>>
    BY <1>7 DEF AppendTorn, Write, object
  <2>. HIDE DEF cells
  <2>3. /\ Len(file') = Len(file) + 1 /\ Len(file) \in Nat
        /\ \A i \in 1..Len(file) : file'[i] = file[i]
        /\ file'[Len(file) + 1] = cells[1]
    <3>1. \A i \in 1..Len(cells) : file'[Len(file) + i] = cells[i]
      BY <2>1, <2>2, WrittenFile DEF TypeOK
    <3>2. 1 \in 1..Len(cells)
      BY <2>1
    <3>. QED
      <4>1. /\ Len(file') = Len(file) + Len(cells) /\ Len(file) \in Nat
            /\ \A i \in 1..Len(file) : file'[i] = file[i]
        <5>1. file \in Seq(Cell)
          BY DEF TypeOK
        <5>2. Len(file) \in Nat
          BY <5>1, LenProperties
        <5>3. /\ Len(file \o cells) = Len(file) + Len(cells)
              /\ \A i \in 1..Len(file) : (file \o cells)[i] = file[i]
          BY <2>1, <5>1, WrittenFile, Zenon
        <5>. QED
          BY <2>2, <5>2, <5>3, Zenon
      <4>2. file'[Len(file) + 1] = cells[1]
        BY <3>1, <3>2
      <4>. QED
        BY <2>1, <4>1, <4>2
  <2>. SUFFICES ASSUME ~pending, isOpen, NEW i \in 1..Len(file'), WholeAt(i)'
                PROVE  FALSE
    BY <2>2 DEF PendingSeen
  <2>4. i < Len(file) + 1 /\ file'[i + 1].part = "body" /\ file'[i].part = "head"
        /\ file'[i + 1] = BodyOf(file'[i].rec)
    BY <2>3 DEF WholeAt, BodyOf
  <2>5. i + 1 # Len(file) + 1
    BY <2>1, <2>3, <2>4
  <2>6. i \in 1..Len(file) /\ i + 1 \in 1..Len(file)
    BY <2>3, <2>4, <2>5
  <2>7. WholeAt(i)
    BY <2>3, <2>4, <2>6 DEF WholeAt
  <2>. QED
    BY <2>6, <2>7 DEF PendingSeen
<1>8. ASSUME NEW ok \in BOOLEAN, Clear(ok)
      PROVE  PendingSeen'
  BY <1>2, <1>8 DEF Clear
<1>9. ASSUME NEW t \in Threads, Replay(t)
      PROVE  PendingSeen'
  <2>1. CASE ReplayStart(t) \/ ConsumeThrows(t) \/ ReplayGive(t)
    BY <1>1, <2>1 DEF ReplayStart, ConsumeThrows, ReplayGive, files
  <2>2. CASE ReplayReadRecord(t) \/ ReplayReadChanged(t) \/ ReplayReadStop(t)
             \/ ConsumeAccepts(t) \/ ConsumeRefuses(t)
    BY <1>1, <2>2 DEF ReplayReadRecord, ReplayReadChanged, ReplayReadStop, ConsumeAccepts,
                      ConsumeRefuses, files, object
  <2>3. ASSUME NEW ok \in BOOLEAN, ReplayReadLast(t, ok)
        PROVE  PendingSeen'
    BY <1>2, <2>3 DEF ReplayReadLast
  <2>4. ASSUME NEW ok \in BOOLEAN, ReplayEnd(t, ok)
        PROVE  PendingSeen'
    BY <1>1, <2>4 DEF ReplayEnd, StoreCommit, files
  <2>. QED
    BY <1>9, <2>1, <2>2, <2>3, <2>4 DEF Replay
<1>10. CASE PeekAndAck
  <2>1. CASE PeekNothing \/ PeekRecord \/ PeekStop \/ HandleRecord \/ AckRefused
    BY <1>1, <2>1 DEF PeekNothing, PeekRecord, PeekStop, HandleRecord, AckRefused, files, object
  <2>2. ASSUME NEW ok \in BOOLEAN, PeekLast(ok)
        PROVE  PendingSeen'
    BY <1>2, <2>2 DEF PeekLast
  <2>3. ASSUME NEW ok \in BOOLEAN, AckSaved(ok)
        PROVE  PendingSeen'
    BY <1>1, <1>2, <2>3 DEF AckSaved, StoreCommit
  <2>. QED
    BY <1>10, <2>1, <2>2, <2>3 DEF PeekAndAck
<1>11. CASE UNCHANGED vars
  BY <1>1, <1>11 DEF vars, files, object
<1>. QED
  BY <1>3, <1>4, <1>5, <1>6, <1>7, <1>8, <1>9, <1>10, <1>11 DEF Next

\* The pending flag is never false while a whole record is in the file of an open WAL.
THEOREM PendingSeenHolds == Spec => []PendingSeen
<1>1. Init => PendingSeen
  BY DEF Init, PendingSeen
<1>2. TypeOK /\ TypeOK' /\ PendingSeen /\ [Next]_vars => PendingSeen'
  BY PendingNext
<1>. QED
  BY <1>1, <1>2, TypeCorrect, PTL DEF Spec

-----------------------------------------------------------------------------
(* Reading the file: what a position gives *)

LEMMA FileTypes ==
    ASSUME TypeOK
    PROVE  /\ Len(file) \in Nat
           /\ \A i \in 1..Len(file) : /\ file[i].rec \in Records
                                      /\ file[i].part \in {"head", "body"}
<1>1. \A i \in 1..Len(file) : file[i] \in Cell
  BY LenProperties, ElementOfSeq DEF TypeOK
<1>. QED
  BY <1>1, LenProperties DEF TypeOK, Cell

\* In a well-formed file every head but the last starts a whole record.
LEMMA HeadIsWhole ==
    ASSUME TypeOK, Framed, NEW i \in 1..Len(file), file[i].part = "head", i # Len(file)
    PROVE  WholeAt(i)
BY FileTypes DEF Framed, WholeAt

\* The start of the file is a position.
LEMMA StartPosition ==
    ASSUME TypeOK, Framed
    PROVE  Position(0)
<1>1. CASE Len(file) = 0
  BY <1>1 DEF Position
<1>2. CASE Len(file) > 0
  <2>1. 1 \in 1..Len(file)
    BY <1>2, FileTypes
  <2>2. file[1].part # "body"
    BY <2>1 DEF Framed
  <2>. QED
    BY <2>1, <2>2, FileTypes DEF Position
<1>. QED
  BY <1>1, <1>2, FileTypes

\* The position a Replay or a Peek starts from.
LEMMA StartsAtPosition ==
    ASSUME TypeOK, Framed, CommitOK, NEW o \in GetReplayPosition, PositionMarks(o) = {}
    PROVE  /\ Position(o)
           /\ ~wrongCommit => o = commit
<1>1. o \in {0, commit}
  BY DEF GetReplayPosition
<1>2. CASE ~wrongCommit
  <2>1. Position(commit)
    BY <1>2 DEF CommitOK
  <2>2. CASE commit \in {0, Len(file)} \/ commitChecked
    BY <2>1, <2>2, FileTypes DEF GetReplayPosition, Position, TypeOK
  <2>3. CASE commit \notin {0, Len(file)} /\ ~commitChecked
    <3>1. commit \in 1..Len(file) /\ commit < Len(file) /\ file[commit + 1].part = "head"
      BY <2>1, <2>3, FileTypes DEF Position, TypeOK
    <3>2. \A i \in 1..commit : file[i].part = "head" => WholeAt(i)
      BY <3>1, FileTypes, HeadIsWhole DEF TypeOK
    <3>3. IsRecordBoundary(commit) = {TRUE}
      BY <3>1, <3>2 DEF IsRecordBoundary
    <3>. QED
      BY <2>1, <2>3, <3>1, <3>3 DEF GetReplayPosition
  <2>. QED
    BY <2>1, <2>2, <2>3
<1>3. CASE wrongCommit
  <2>1. CASE o = 0
    BY <1>3, <2>1, StartPosition
  <2>2. CASE o # 0
    <3>1. o = commit /\ ~commitChecked /\ o # Len(file) /\ file[o + 1].part # "head"
      BY <1>1, <1>3, <2>2 DEF PositionMarks
    <3>2. commit \in 1..Len(file) /\ commit < Len(file)
      BY <2>2, <3>1, FileTypes DEF GetReplayPosition, TypeOK
    <3>3. \A i \in 1..commit : file[i].part = "head" => WholeAt(i)
      BY <3>2, FileTypes, HeadIsWhole DEF TypeOK
    <3>4. IsRecordBoundary(commit) = {FALSE}
      BY <3>1, <3>2, <3>3 DEF IsRecordBoundary
    <3>. QED
      BY <2>2, <3>1, <3>2, <3>4 DEF GetReplayPosition, TypeOK
  <2>. QED
    BY <2>1, <2>2
<1>. QED
  BY <1>2, <1>3

\* What is read at a position is the whole record which starts there.
LEMMA ReadsWhole ==
    ASSUME TypeOK, Framed, NEW o \in Nat, Position(o), NEW record \in RecordsAt(o)
    PROVE  WholeAt(o + 1) /\ record.rec = file[o + 1].rec /\ record.next = o + 2
<1>1. o < Len(file) /\ o + 1 \in 1..Len(file)
  BY FileTypes DEF RecordsAt
<1>2. file[o + 1].part = "head"
  BY <1>1 DEF Position
<1>3. o + 1 # Len(file)
  BY <1>1, <1>2, FileTypes DEF RecordsAt, WholeAt
<1>4. WholeAt(o + 1)
  BY <1>1, <1>2, <1>3, HeadIsWhole
<1>. QED
  BY <1>1, <1>4, FileTypes DEF RecordsAt

\* It is the oldest record which is owed, if it is owed at all.
LEMMA ReadsOldest ==
    ASSUME TypeOK, FileOK, Owed, NEW o \in Nat, Position(o), WholeAt(o + 1)
    PROVE  Oldest(file[o + 1].rec)
<1>. SUFFICES ASSUME NEW q \in Unfinished
              PROVE  file[o + 1].rec <= q
  BY FileTypes DEF Oldest, FileOK, Numbered, WholeAt
<1>1. PICK i \in 1..Len(file) : WholeAt(i) /\ file[i].rec = q
  BY DEF Owed
<1>2. i > o
  BY <1>1, FileTypes DEF Position
<1>. QED
  BY <1>1, <1>2, FileTypes DEF FileOK, Numbered, WholeAt

\* Behind it is a position again, apart from the record itself.
LEMMA NextPosition ==
    ASSUME TypeOK, Framed, NEW o \in Nat, Position(o), WholeAt(o + 1)
    PROVE  /\ o + 2 <= Len(file)
           /\ o + 2 < Len(file) => file[o + 3].part = "head"
           /\ \A i \in 1..Len(file) :
                i <= o + 2 /\ file[i].rec \in Unfinished => file[i].rec = file[o + 1].rec
<1>1. o + 2 <= Len(file) /\ o + 1 \in 1..Len(file) /\ o + 2 \in 1..Len(file)
  BY FileTypes DEF WholeAt
<1>2. file[o + 2].part = "body" /\ file[o + 2].rec = file[o + 1].rec
  BY <1>1 DEF WholeAt, BodyOf
<1>3. ASSUME o + 2 < Len(file)
      PROVE  file[o + 3].part = "head"
  <2>1. o + 3 \in 1..Len(file)
    BY <1>3, FileTypes
  <2>2. CASE file[o + 3].part = "body"
    <3>1. file[(o + 3) - 1] = HeadOf(file[o + 3].rec)
      BY <2>1, <2>2 DEF Framed
    <3>2. (o + 3) - 1 = o + 2
      OBVIOUS
    <3>3. file[o + 2].part = "head"
      BY <3>1, <3>2 DEF HeadOf
    <3>. QED
      BY <1>2, <3>3
  <2>. QED
    BY <2>1, <2>2, FileTypes
<1>4. ASSUME NEW i \in 1..Len(file), i <= o + 2, file[i].rec \in Unfinished
      PROVE  file[i].rec = file[o + 1].rec
  <2>1. i > o
    BY <1>4, FileTypes DEF Position
  <2>2. i = o + 1 \/ i = o + 2
    BY <1>4, <2>1, FileTypes
  <2>. QED
    BY <1>2, <2>2
<1>. QED
  BY <1>1, <1>3, <1>4

\* At the end of the file, or where the rest of it is damaged, nothing is owed any more.
LEMMA NothingOwedBehind ==
    ASSUME TypeOK, Framed, Owed, NEW o \in Nat, Position(o), o = Len(file) \/ DamagedAt(o)
    PROVE  Unfinished = {}
<1>. SUFFICES ASSUME NEW q \in Unfinished
              PROVE  FALSE
  OBVIOUS
<1>1. PICK i \in 1..Len(file) : WholeAt(i) /\ file[i].rec = q
  BY DEF Owed
<1>2. i > o
  BY <1>1, FileTypes DEF Position
<1>3. o < Len(file) /\ ~WholeAt(o + 1) /\ o + 1 \in 1..Len(file)
  BY <1>2, FileTypes DEF DamagedAt
<1>4. file[o + 1].part = "head"
  BY <1>3 DEF Position
<1>5. o + 1 = Len(file)
  BY <1>3, <1>4, HeadIsWhole
<1>. QED
  BY <1>1, <1>2, <1>5, FileTypes DEF WholeAt

-----------------------------------------------------------------------------
(* What the private functions and the untouched parts keep *)

\* The cells stay: every position in them stays one when less is owed.
LEMMA FileKept ==
    ASSUME TypeOK, FileOK, Owed, UNCHANGED <<file, appended, accepted>>,
           Unfinished' \subseteq Unfinished
    PROVE  FileOK' /\ Owed'
<1>1. FileOK'
  BY DEF FileOK, Framed, Numbered, TornRefused, TornTail
<1>2. Owed'
  BY DEF Owed, WholeAt
<1>. QED
  BY <1>1, <1>2

LEMMA PositionKept ==
    ASSUME UNCHANGED file, Unfinished' \subseteq Unfinished
    PROVE  \A o \in Nat : Position(o) => /\ o <= Len(file')
                                         /\ o < Len(file') => file'[o + 1].part = "head"
                                         /\ \A i \in 1..Len(file') :
                                              i <= o => file'[i].rec \notin Unfinished'
BY DEF Position

LEMMA CommitKept ==
    ASSUME TypeOK, Framed, CommitOK, UNCHANGED file, Unfinished' \subseteq Unfinished,
           UNCHANGED <<commit, wrongCommit>> \/ commit' = 0
    PROVE  CommitOK'
<1>1. CASE UNCHANGED <<commit, wrongCommit>>
  BY <1>1, PositionKept DEF CommitOK, Position, TypeOK
<1>2. CASE commit' = 0
  BY <1>2, StartPosition, PositionKept DEF CommitOK, Position
<1>. QED
  BY <1>1, <1>2

LEMMA ClearSafe ==
    ASSUME TypeOK, TypeOK', FileOK, Owed, CommitOK,
           NEW ok \in BOOLEAN, NEW kept \in Nat, ClearInternal(ok, kept),
           UNCHANGED <<appended, accepted>>,
           Unfinished' \subseteq Unfinished, ok => Unfinished' = {}
    PROVE  FileOK' /\ Owed' /\ CommitOK'
<1>1. CASE ok
  <2>1. file' = NoCells /\ Len(file') = 0 /\ commit' = 0
    BY <1>1, NoCellsType DEF ClearInternal
  <2>2. FileOK'
    BY <2>1 DEF FileOK, Framed, Numbered, TornRefused, TornTail
  <2>3. Owed'
    BY <1>1 DEF Owed
  <2>4. CommitOK'
    BY <2>1 DEF CommitOK, Position
  <2>. QED
    BY <2>2, <2>3, <2>4
<1>2. CASE ~ok
  <2>1. UNCHANGED file /\ (UNCHANGED <<commit, wrongCommit>> \/ commit' = 0)
    BY <1>2 DEF ClearInternal, files
  <2>. QED
    BY <2>1, FileKept, CommitKept DEF FileOK
<1>. QED
  BY <1>1, <1>2

LEMMA StoreSafe ==
    ASSUME TypeOK, FileOK, Owed, CommitOK,
           NEW o \in Nat, Position(o),
           NEW ok \in BOOLEAN, NEW kept \in Nat, StoreCommit(o, ok, kept),
           UNCHANGED history
    PROVE  FileOK' /\ Owed' /\ CommitOK'
<1>1. UNCHANGED file /\ Unfinished' = Unfinished /\ UNCHANGED <<appended, accepted>>
  BY DEF StoreCommit, history, Unfinished
<1>2. FileOK' /\ Owed'
  BY <1>1, FileKept
<1>3. CASE ok
  <2>1. commit' = o
    BY <1>3 DEF StoreCommit
  <2>. QED
    BY <1>1, <1>2, <2>1 DEF CommitOK, Position
<1>4. CASE ~ok
  <2>1. UNCHANGED <<commit, wrongCommit>> \/ commit' = 0
    BY <1>4 DEF StoreCommit
  <2>. QED
    BY <1>1, <1>2, <2>1, CommitKept DEF FileOK
<1>. QED
  BY <1>3, <1>4

\* A Replay which is not the one that moves.
LEMMA ReplayKept ==
    ASSUME TypeOK, NEW t \in Threads, ReplayOK(t), UNCHANGED <<file, locals, appended, moved>>,
           Unfinished' \subseteq Unfinished,
           UNCHANGED <<commit, wrongCommit>> \/ commit' = 0 \/ wrongCommit'
    PROVE  ReplayOK(t)'
<1>. offset[t] \in Nat /\ offset'[t] = offset[t] /\ pc'[t] = pc[t] /\ buffer'[t] = buffer[t]
     /\ next'[t] = next[t] /\ moved' = moved
  BY DEF TypeOK, locals
<1>1. (Reading(t) /\ ~Stale(t) => Position(offset[t]))'
  BY DEF ReplayOK, Reading, Stale, Position
<1>2. (Reading(t) /\ ~wrongCommit => commit <= offset[t])'
  BY DEF ReplayOK, Reading
<1>3. (pc[t] = "consume" => /\ Oldest(buffer[t])
                            /\ offset[t] < next[t]
                            /\ ~moved => /\ next[t] = offset[t] + 2
                                         /\ WholeAt(offset[t] + 1)
                                         /\ file[offset[t] + 1].rec = buffer[t])'
  BY DEF ReplayOK, Oldest, WholeAt
<1>. QED
  BY <1>1, <1>2, <1>3 DEF ReplayOK

\* A thread which is not taking records out.
LEMMA ReplayIdle ==
    ASSUME NEW t \in Threads, pc'[t] \notin {"read", "consume", "end"}
    PROVE  ReplayOK(t)'
BY DEF ReplayOK, Reading

\* The peeked record, while the file and what the consumer has in hand stay.
LEMMA PeekKept ==
    ASSUME TypeOK, PeekOK, UNCHANGED <<file, appended, hand, handled>>, peekNext' \in {0, peekNext},
           Unfinished' \subseteq Unfinished,
           UNCHANGED <<commit, wrongCommit>> \/ commit' = 0 \/ wrongCommit' \/ peekNext' = 0
    PROVE  PeekOK'
<1>. USE DEF TypeOK
<1>1. (handled => hand = NoRecord)' /\ (hand # NoRecord => Oldest(hand))'
  BY DEF PeekOK, Oldest
<1>2. CASE peekNext' = 0
  BY <1>1, <1>2 DEF PeekOK
<1>3. CASE peekNext' = peekNext /\ peekNext # 0
  <2>1. peekNext <= Len(file) /\ (peekNext < Len(file) => file[peekNext + 1].part = "head")
    BY <1>3 DEF PeekOK
  <2>2. \A i \in 1..Len(file) :
          i <= peekNext /\ file[i].rec \in Unfinished' => file[i].rec = hand
    BY <1>3 DEF PeekOK
  <2>3. ~wrongCommit' => commit' < peekNext
    BY <1>3 DEF PeekOK
  <2>. QED
    BY <1>1, <1>3, <2>1, <2>2, <2>3 DEF PeekOK
<1>. QED
  BY <1>2, <1>3

\* The consumer has nothing: there is nothing to acknowledge either.
LEMMA PeekNone ==
    ASSUME peekNext' = 0, hand' = NoRecord
    PROVE  PeekOK'
BY DEF PeekOK

\* The peeked record, while the files are cleared and the consumer keeps what it has.
LEMMA ClearPeek ==
    ASSUME TypeOK, PeekOK, NEW ok \in BOOLEAN, NEW kept \in {0, peekNext}, ClearInternal(ok, kept),
           UNCHANGED <<appended, hand, handled>>, Unfinished' \subseteq Unfinished
    PROVE  PeekOK'
<1>1. CASE ok
  <2>1. peekNext' = 0
    BY <1>1 DEF ClearInternal
  <2>2. (handled => hand = NoRecord)' /\ (hand # NoRecord => Oldest(hand))'
    BY DEF PeekOK, Oldest
  <2>. QED
    BY <2>1, <2>2 DEF PeekOK
<1>2. CASE ~ok
  <2>1. /\ UNCHANGED file /\ peekNext' \in {0, peekNext}
        /\ UNCHANGED <<commit, wrongCommit>> \/ commit' = 0
    BY <1>2 DEF ClearInternal, files
  <2>. QED
    BY <2>1, PeekKept
<1>. QED
  BY <1>1, <1>2

LEMMA OrderKept ==
    ASSUME InOrder, UNCHANGED <<accepted, delivered>>, discarded \subseteq discarded'
    PROVE  InOrder'
BY DEF InOrder

-----------------------------------------------------------------------------
(* Append *)

\* Cells of a new record behind a file which does not end with one that was cut off.
LEMMA AppendSafe ==
    ASSUME TypeOK, TypeOK', SafeInv, spoiled' = {},
           NEW cells \in Seq(Cell), Write(cells),
           Len(cells) \in {1, 2}, cells[1] = HeadOf(appended + 1),
           Len(cells) = 2 => cells[2] = BodyOf(appended + 1),
           accepted' = IF Len(cells) = 2 THEN accepted \cup {appended + 1} ELSE accepted,
           UNCHANGED <<commit, peekNext, locals, app, delivered, discarded, wrongCommit, moved>>
    PROVE  SafeInv'
<1>. DEFINE r == appended + 1
            n == Len(file)
<1>0. /\ FileOK /\ Framed /\ Numbered /\ TornRefused /\ Owed /\ CommitOK
      /\ (\A t \in Threads : ReplayOK(t)) /\ PeekOK /\ InOrder
  BY DEF SafeInv, FileOK
<1>1. /\ n \in Nat /\ appended \in Nat /\ appended' = r /\ r \in Nat
      /\ ~TornTail
  <2>1. n \in Nat /\ appended \in Nat /\ appended' = r
    BY FileTypes DEF Write, TypeOK
  <2>2. ~TornTail
    BY Zenon DEF Write
  <2>. QED
    BY <2>1, <2>2
<1>2. /\ Len(file') = n + Len(cells)
      /\ \A i \in 1..n : file'[i] = file[i]
      /\ file'[n + 1] = HeadOf(r)
      /\ Len(cells) = 2 => file'[n + 2] = BodyOf(r)
  <2>1. /\ Len(file') = n + Len(cells)
        /\ \A i \in 1..n : file'[i] = file[i]
        /\ \A i \in 1..Len(cells) : file'[n + i] = cells[i]
    BY WrittenFile DEF Write, TypeOK
  <2>. QED
    BY <2>1
<1>a. \/ Len(file') = n + 1 /\ Len(cells) = 1
      \/ Len(file') = n + 2 /\ Len(cells) = 2
  BY <1>1, <1>2
<1>3. \A i \in 1..n : file[i].rec \in Records /\ file[i].rec <= appended
  BY <1>0, FileTypes DEF Numbered
<1>4. Unfinished' \subseteq Unfinished \cup {r}
  BY DEF Unfinished
<1>5. Framed'
  <2>. SUFFICES ASSUME NEW i \in 1..Len(file')
                PROVE  /\ file'[i].part = "head" =>
                            i = Len(file') \/ file'[i + 1] = BodyOf(file'[i].rec)
                       /\ file'[i].part = "body" => i > 1 /\ file'[i - 1] = HeadOf(file'[i].rec)
    BY DEF Framed
  <2>1. CASE i \in 1..n
    <3>1. file'[i] = file[i]
      BY <1>2, <2>1
    <3>2. file[i].part = "head" => i + 1 \in 1..n /\ file[i + 1] = BodyOf(file[i].rec)
      <4>. SUFFICES ASSUME file[i].part = "head" PROVE i + 1 \in 1..n /\ file[i + 1] = BodyOf(file[i].rec)
        OBVIOUS
      <4>1. i = n \/ file[i + 1] = BodyOf(file[i].rec)
        BY <1>0, <1>1, <2>1 DEF Framed
      <4>2. i # n
        BY <1>1, <2>1 DEF TornTail
      <4>. QED
        BY <1>1, <2>1, <4>1, <4>2
    <3>3. file[i].part = "body" => i > 1 /\ i - 1 \in 1..n /\ file[i - 1] = HeadOf(file[i].rec)
      BY <1>0, <1>1, <2>1 DEF Framed
    <3>. QED
      BY <1>2, <3>1, <3>2, <3>3
  <2>2. CASE i = n + 1
    <3>1. file'[i].part = "head" /\ file'[i].rec = r
      BY <1>2, <2>2 DEF HeadOf
    <3>2. i = Len(file') \/ file'[i + 1] = BodyOf(r)
      <4>1. CASE Len(cells) = 1
        BY <1>1, <1>2, <2>2, <4>1
      <4>2. CASE Len(cells) = 2
        <5>1. i + 1 = n + 2
          BY <1>1, <2>2
        <5>. QED
          BY <1>2, <4>2, <5>1
      <4>. QED
        BY <4>1, <4>2
    <3>. QED
      BY <3>1, <3>2
  <2>3. CASE i = n + 2
    <3>1. Len(cells) = 2 /\ i > 1 /\ i - 1 = n + 1
      BY <1>1, <1>a, <2>3
    <3>2. file'[i].part = "body" /\ file'[i].rec = r
      BY <1>2, <2>3, <3>1 DEF BodyOf
    <3>. QED
      BY <1>2, <3>1, <3>2
  <2>. QED
    BY <1>1, <1>a, <2>1, <2>2, <2>3
<1>6. \A i \in 1..Len(file') : \/ i \in 1..n /\ file'[i].rec = file[i].rec
                               \/ i > n /\ file'[i].rec = r
  <2>1. HeadOf(r).rec = r /\ BodyOf(r).rec = r
    BY DEF HeadOf, BodyOf
  <2>2. ASSUME NEW i \in 1..Len(file')
        PROVE  i \in 1..n \/ i = n + 1 \/ (i = n + 2 /\ Len(cells) = 2)
    BY <1>1, <1>a
  <2>3. ASSUME NEW i \in 1..Len(file')
        PROVE  \/ i \in 1..n /\ file'[i].rec = file[i].rec
               \/ i > n /\ file'[i].rec = r
    <3>1. CASE i \in 1..n
      BY <1>2, <3>1
    <3>2. CASE i = n + 1
      BY <1>1, <1>2, <2>1, <3>2
    <3>3. CASE i = n + 2 /\ Len(cells) = 2
      BY <1>1, <1>2, <2>1, <3>3
    <3>. QED
      BY <2>2, <3>1, <3>2, <3>3
  <2>. QED
    BY <2>3
<1>7. Numbered'
  <2>1. \A i \in 1..Len(file') : file'[i].rec <= appended'
    BY <1>1, <1>3, <1>6 DEF Records
  <2>2. \A i, j \in 1..Len(file') : i <= j => file'[i].rec <= file'[j].rec
    <3>. SUFFICES ASSUME NEW i \in 1..Len(file'), NEW j \in 1..Len(file'), i <= j
                  PROVE  file'[i].rec <= file'[j].rec
      OBVIOUS
    <3>1. CASE j \in 1..n
      <4>1. i \in 1..n
        BY <1>1, <3>1
      <4>2. file[i].rec <= file[j].rec
        BY <1>0, <1>1, <3>1, <4>1 DEF Numbered
      <4>3. file'[i].rec = file[i].rec /\ file'[j].rec = file[j].rec
        <5>1. ~(i > n) /\ ~(j > n)
          BY <1>1, <3>1, <4>1
        <5>. QED
          BY <1>6, <5>1
      <4>. QED
        BY <4>2, <4>3
    <3>2. CASE j \notin 1..n
      <4>1. file'[j].rec = r
        BY <1>6, <3>2
      <4>2. file'[i].rec <= r /\ r \in Int
        BY <1>1, <1>3, <1>6 DEF Records
      <4>. QED
        BY <4>1, <4>2
    <3>. QED
      BY <3>1, <3>2
  <2>. QED
    BY <2>1, <2>2 DEF Numbered
<1>8. TornRefused'
  <2>1. CASE Len(cells) = 1
    <3>1. Len(file') = n + 1 /\ file'[Len(file')].rec = r
      BY <1>1, <1>2, <2>1 DEF HeadOf
    <3>2. r \notin accepted'
      BY <1>1, <2>1 DEF TypeOK
    <3>. QED
      BY <3>1, <3>2 DEF TornRefused
  <2>2. CASE Len(cells) = 2
    <3>1. Len(file') = n + 2 /\ file'[Len(file')].part = "body"
      BY <1>1, <1>2, <2>2 DEF BodyOf
    <3>. QED
      BY <3>1 DEF TornRefused, TornTail
  <2>. QED
    BY <2>1, <2>2
<1>9. Owed'
  <2>. SUFFICES ASSUME NEW q \in Unfinished'
                PROVE  \E i \in 1..Len(file') : WholeAt(i)' /\ file'[i].rec = q
    BY DEF Owed
  <2>1. CASE q \in Unfinished
    <3>1. PICK i \in 1..n : WholeAt(i) /\ file[i].rec = q
      BY <1>0, <2>1 DEF Owed
    <3>2. i \in 1..Len(file') /\ file'[i] = file[i] /\ file'[i + 1] = file[i + 1] /\ i < Len(file')
      <4>1. i \in 1..n /\ i + 1 \in 1..n /\ n \in Nat
        BY <1>1, <3>1 DEF WholeAt
      <4>2. file'[i] = file[i] /\ file'[i + 1] = file[i + 1]
        BY <1>2, <4>1
      <4>3. i < Len(file') /\ i \in 1..Len(file')
        BY <1>1, <1>a, <4>1
      <4>. QED
        BY <4>2, <4>3
    <3>. QED
      BY <3>1, <3>2 DEF WholeAt
  <2>2. CASE q \notin Unfinished
    <3>1. q = r /\ Len(cells) = 2
      BY <1>4, <2>2 DEF Unfinished
    <3>2. n + 1 \in 1..Len(file') /\ n + 1 < Len(file') /\ (n + 1) + 1 = n + 2
      BY <1>1, <1>2, <3>1
    <3>3. file'[n + 1].part = "head" /\ file'[n + 1].rec = r /\ file'[n + 2] = BodyOf(r)
      BY <1>2, <3>1 DEF HeadOf
    <3>. QED
      BY <3>1, <3>2, <3>3 DEF WholeAt
  <2>. QED
    BY <2>1, <2>2
<1>10. \A o \in Nat : Position(o) => /\ o <= Len(file')
                                     /\ o < Len(file') => file'[o + 1].part = "head"
                                     /\ \A i \in 1..Len(file') :
                                          i <= o => file'[i].rec \notin Unfinished'
  <2>. SUFFICES ASSUME NEW o \in Nat, Position(o)
                PROVE  /\ o <= Len(file')
                       /\ o < Len(file') => file'[o + 1].part = "head"
                       /\ \A i \in 1..Len(file') : i <= o => file'[i].rec \notin Unfinished'
    OBVIOUS
  <2>1. o <= n /\ o <= Len(file')
    BY <1>1, <1>2 DEF Position
  <2>2. file'[o + 1].part = "head"
    <3>1. CASE o < n
      <4>1. file[o + 1].part = "head" /\ o + 1 \in 1..n
        BY <1>1, <3>1 DEF Position
      <4>. QED
        BY <1>2, <4>1
    <3>2. CASE o = n
      BY <1>2, <3>2 DEF HeadOf
    <3>. QED
      BY <1>1, <2>1, <3>1, <3>2
  <2>3. ASSUME NEW i \in 1..Len(file'), i <= o
        PROVE  file'[i].rec \notin Unfinished'
    <3>1. i \in 1..n /\ file'[i].rec = file[i].rec /\ file[i].rec \notin Unfinished
      BY <1>1, <1>6, <2>1, <2>3 DEF Position
    <3>2. file[i].rec # r
      BY <1>1, <1>3, <3>1 DEF Records
    <3>. QED
      BY <1>4, <3>1, <3>2
  <2>. QED
    BY <2>1, <2>2, <2>3
<1>11. CommitOK'
  BY <1>0, <1>10 DEF CommitOK, Position, TypeOK
<1>12. \A x \in Int : Oldest(x) => x <= appended' /\ \A q \in Unfinished' : x <= q
  BY <1>1, <1>4 DEF Oldest
<1>13. ASSUME NEW t \in Threads
       PROVE  ReplayOK(t)'
  <2>. /\ offset[t] \in Nat /\ offset'[t] = offset[t] /\ pc'[t] = pc[t] /\ buffer'[t] = buffer[t]
       /\ next'[t] = next[t] /\ moved' = moved /\ buffer[t] \in Int
    BY DEF TypeOK, locals, Records, NoRecord, Garbage
  <2>0. ReplayOK(t)
    BY <1>0
  <2>1. (Reading(t) /\ ~Stale(t) => Position(offset[t]))'
    <3>1. CASE Reading(t) /\ ~Stale(t)
      BY <1>10, <2>0, <3>1 DEF ReplayOK, Position
    <3>2. CASE ~(Reading(t) /\ ~Stale(t))
      BY <3>2 DEF Reading, Stale
    <3>. QED
      BY <3>1, <3>2
  <2>2. (Reading(t) /\ ~wrongCommit => commit <= offset[t])'
    BY <2>0 DEF ReplayOK, Reading
  <2>3. (pc[t] = "consume" => /\ Oldest(buffer[t])
                              /\ offset[t] < next[t]
                              /\ ~moved => /\ next[t] = offset[t] + 2
                                           /\ WholeAt(offset[t] + 1)
                                           /\ file[offset[t] + 1].rec = buffer[t])'
    <3>. SUFFICES ASSUME pc[t] = "consume"
                  PROVE  (/\ Oldest(buffer[t])
                          /\ offset[t] < next[t]
                          /\ ~moved => /\ next[t] = offset[t] + 2
                                       /\ WholeAt(offset[t] + 1)
                                       /\ file[offset[t] + 1].rec = buffer[t])'
      OBVIOUS
    <3>1. Oldest(buffer[t])'
      BY <1>12, <2>0 DEF ReplayOK, Oldest
    <3>2. offset[t] < next[t]
      BY <2>0 DEF ReplayOK
    <3>3. ASSUME ~moved
          PROVE  /\ next[t] = offset[t] + 2
                 /\ (WholeAt(offset[t] + 1) /\ file[offset[t] + 1].rec = buffer[t])'
      <4>1. next[t] = offset[t] + 2 /\ WholeAt(offset[t] + 1) /\ file[offset[t] + 1].rec = buffer[t]
        BY <2>0, <3>3 DEF ReplayOK
      <4>2. offset[t] + 1 < n /\ offset[t] + 1 \in 1..n /\ (offset[t] + 1) + 1 \in 1..n
        <5>1. offset[t] \in Nat /\ n \in Nat /\ offset[t] + 1 < Len(file) /\ Len(file) = n
          BY <1>1, <4>1 DEF WholeAt
        <5>. QED
          BY <5>1
      <4>3. file'[offset[t] + 1] = file[offset[t] + 1] /\ file'[(offset[t] + 1) + 1] = file[(offset[t] + 1) + 1]
        BY <1>2, <4>2
      <4>4. offset[t] + 1 < Len(file')
        BY <1>1, <1>2, <4>2
      <4>. QED
        BY <4>1, <4>3, <4>4 DEF WholeAt
    <3>. QED
      BY <3>1, <3>2, <3>3
  <2>. QED
    BY <2>1, <2>2, <2>3 DEF ReplayOK
<1>14. PeekOK'
  <2>. hand' = hand /\ handled' = handled /\ peekNext \in Nat /\ hand \in Int
    BY DEF TypeOK, app, Records, NoRecord, Garbage
  <2>1. (handled => hand = NoRecord)' /\ (hand # NoRecord => Oldest(hand))'
    BY <1>0, <1>12 DEF PeekOK, Oldest
  <2>2. ASSUME peekNext # 0
        PROVE  /\ peekNext <= Len(file')
               /\ peekNext < Len(file') => file'[peekNext + 1].part = "head"
               /\ \A i \in 1..Len(file') :
                    i <= peekNext /\ file'[i].rec \in Unfinished' => file'[i].rec = hand
               /\ ~wrongCommit => commit < peekNext
    <3>1. /\ peekNext <= n
          /\ peekNext < n => file[peekNext + 1].part = "head"
          /\ \A i \in 1..n : i <= peekNext /\ file[i].rec \in Unfinished => file[i].rec = hand
          /\ ~wrongCommit => commit < peekNext
      BY <1>0, <2>2 DEF PeekOK
    <3>2. file'[peekNext + 1].part = "head"
      <4>1. CASE peekNext < n
        BY <1>1, <1>2, <3>1, <4>1
      <4>2. CASE peekNext = n
        BY <1>2, <4>2 DEF HeadOf
      <4>. QED
        BY <1>1, <3>1, <4>1, <4>2
    <3>3. ASSUME NEW i \in 1..Len(file'), i <= peekNext, file'[i].rec \in Unfinished'
          PROVE  file'[i].rec = hand
      <4>1. i \in 1..n /\ file'[i].rec = file[i].rec
        BY <1>1, <1>6, <3>1, <3>3
      <4>2. file[i].rec # r
        BY <1>1, <1>3, <4>1 DEF Records
      <4>. QED
        BY <1>4, <3>1, <3>3, <4>1, <4>2
    <3>. QED
      BY <1>1, <1>2, <3>1, <3>2, <3>3
  <2>. QED
    BY <2>1, <2>2 DEF PeekOK
<1>15. InOrder'
  <2>. SUFFICES ASSUME NEW x \in delivered, NEW q \in accepted', q < x
                PROVE  q \in delivered \cup discarded
    BY DEF InOrder
  <2>1. x <= appended /\ x \in Nat
    BY <1>1 DEF TypeOK
  <2>2. q \in accepted
    BY <1>1, <2>1
  <2>. QED
    BY <1>0, <2>2 DEF InOrder
<1>. QED
  BY <1>5, <1>7, <1>8, <1>9, <1>11, <1>13, <1>14, <1>15 DEF SafeInv, FileOK

-----------------------------------------------------------------------------
(* The steps of Replay *)

\* While t replays, no other thread does.
LEMMA OthersIdle ==
    ASSUME TypeOK, OneTaker, NEW t \in Threads, pc[t] # "idle" \/ ~replaying,
           NEW q, pc' = [pc EXCEPT ![t] = q], NEW u \in Threads, u # t
    PROVE  ReplayOK(u)'
<1>1. pc[u] = "idle" /\ pc'[u] = "idle"
  BY DEF OneTaker, TypeOK
<1>. QED
  BY <1>1, ReplayIdle

LEMMA ReplayStartSafe ==
    ASSUME TypeOK, OneTaker, SafeInv, spoiled' = {}, NEW t \in Threads, ReplayStart(t)
    PROVE  SafeInv'
<1>0. /\ FileOK /\ Framed /\ Owed /\ CommitOK /\ PeekOK /\ InOrder
      /\ \A u \in Threads : ReplayOK(u)
  BY DEF SafeInv, FileOK
<1>1. /\ UNCHANGED <<file, commit, appended, accepted, delivered, discarded, wrongCommit,
                     hand, handled, peekNext>>
      /\ Unfinished' = Unfinished /\ ~moved'
  BY DEF ReplayStart, files, history, app, Unfinished
<1>2. FileOK' /\ Owed' /\ CommitOK' /\ PeekOK' /\ InOrder'
  BY <1>0, <1>1, FileKept, CommitKept, PeekKept, OrderKept
<1>3. PICK o \in GetReplayPosition : offset' = [offset EXCEPT ![t] = o] /\ PositionMarks(o) = {}
  BY DEF ReplayStart
<1>4. o \in Nat /\ Position(o) /\ (~wrongCommit => o = commit)
  BY <1>0, <1>3, PositionType, StartsAtPosition DEF TypeOK
<1>5. ReplayOK(t)'
  <2>1. offset'[t] = o /\ pc'[t] = "read"
    BY <1>3 DEF ReplayStart, TypeOK
  <2>. QED
    BY <1>1, <1>4, <2>1 DEF ReplayOK, Reading, Position, TypeOK
<1>6. \A u \in Threads : u # t => ReplayOK(u)'
  BY OthersIdle DEF ReplayStart, TakePlace
<1>. QED
  BY <1>2, <1>5, <1>6 DEF SafeInv

LEMMA ReplayReadRecordSafe ==
    ASSUME TypeOK, OneTaker, SafeInv, spoiled' = {}, NEW t \in Threads, ReplayReadRecord(t)
    PROVE  SafeInv'
<1>0. /\ FileOK /\ Framed /\ Owed /\ CommitOK /\ PeekOK /\ InOrder
      /\ ReplayOK(t)
  BY DEF SafeInv, FileOK
<1>1. /\ UNCHANGED <<file, commit, appended, accepted, delivered, discarded, wrongCommit,
                     hand, handled, peekNext, offset>>
      /\ Unfinished' = Unfinished
  BY DEF ReplayReadRecord, files, object, history, app, Unfinished
<1>2. FileOK' /\ Owed' /\ CommitOK' /\ PeekOK' /\ InOrder'
  BY <1>0, <1>1, FileKept, CommitKept, PeekKept, OrderKept
<1>3. offset[t] \in Nat /\ ~Stale(t) /\ Position(offset[t])
  BY <1>0 DEF ReplayReadRecord, ReplayOK, Reading, TypeOK
<1>4. PICK record \in RecordsAt(offset[t]) :
        /\ buffer' = [buffer EXCEPT ![t] = record.rec]
        /\ next' = [next EXCEPT ![t] = record.next]
  BY DEF ReplayReadRecord
<1>5. WholeAt(offset[t] + 1) /\ record.rec = file[offset[t] + 1].rec /\ record.next = offset[t] + 2
  BY <1>0, <1>3, ReadsWhole
<1>6. Oldest(file[offset[t] + 1].rec)
  BY <1>0, <1>3, <1>5, ReadsOldest
<1>7. pc'[t] = "consume" /\ buffer'[t] = file[offset[t] + 1].rec /\ next'[t] = offset[t] + 2
  BY <1>4, <1>5 DEF ReplayReadRecord, TypeOK
<1>8. ReplayOK(t)'
  <2>1. Position(offset[t])'
    BY <1>1, <1>3 DEF Position
  <2>2. (Reading(t) /\ ~wrongCommit => commit <= offset[t])'
    BY <1>0, <1>1 DEF ReplayOK, Reading, ReplayReadRecord
  <2>3. /\ Oldest(buffer[t])' /\ offset'[t] < next'[t]
        /\ next'[t] = offset'[t] + 2
        /\ WholeAt(offset[t] + 1)' /\ file'[offset'[t] + 1].rec = buffer'[t]
    BY <1>1, <1>3, <1>5, <1>6, <1>7 DEF Oldest, WholeAt
  <2>. QED
    BY <2>1, <2>2, <2>3 DEF ReplayOK
<1>9. \A u \in Threads : u # t => ReplayOK(u)'
  BY OthersIdle DEF ReplayReadRecord
<1>. QED
  BY <1>2, <1>8, <1>9 DEF SafeInv

LEMMA ReplayReadLastSafe ==
    ASSUME TypeOK, TypeOK', OneTaker, SafeInv, spoiled' = {}, NEW t \in Threads,
           NEW ok \in BOOLEAN, ReplayReadLast(t, ok)
    PROVE  SafeInv'
<1>0. /\ FileOK /\ Framed /\ Owed /\ CommitOK /\ PeekOK /\ InOrder
      /\ ReplayOK(t)
  BY DEF SafeInv, FileOK
<1>1. /\ UNCHANGED <<appended, accepted, delivered, discarded, hand, handled>>
      /\ Unfinished' = Unfinished /\ ClearInternal(ok, peekNext) /\ peekNext \in Nat
  BY DEF ReplayReadLast, history, app, Unfinished, TypeOK
<1>2. Unfinished = {}
  <2>1. CASE Stale(t)
    <3>1. file = NoCells
      BY <2>1 DEF ReplayReadLast
    <3>. QED
      BY <1>0, <3>1, NoCellsType DEF Owed
  <2>2. CASE ~Stale(t)
    <3>1. Position(offset[t]) /\ offset[t] \in Nat
      BY <1>0, <2>2 DEF ReplayOK, Reading, ReplayReadLast, TypeOK
    <3>. QED
      BY <1>0, <3>1, NothingOwedBehind DEF ReplayReadLast
  <2>. QED
    BY <2>1, <2>2
<1>3. FileOK' /\ Owed' /\ CommitOK'
  BY <1>0, <1>1, <1>2, ClearSafe
<1>4. PeekOK'
  BY <1>0, <1>1, ClearPeek
<1>5. InOrder'
  BY <1>0, <1>1, OrderKept
<1>6. \A u \in Threads : ReplayOK(u)'
  <2>1. pc' = [pc EXCEPT ![t] = "give"] /\ pc'[t] = "give" /\ pc[t] # "idle"
    BY DEF ReplayReadLast, TypeOK
  <2>. QED
    BY <2>1, OthersIdle, ReplayIdle
<1>. QED
  BY <1>3, <1>4, <1>5, <1>6 DEF SafeInv

\* The steps of a Replay which change nothing but where it stands.
LEMMA OnlyMovesSafe ==
    ASSUME TypeOK, OneTaker, SafeInv, NEW t \in Threads, pc[t] # "idle",
           UNCHANGED <<files, object, offset, didReplay, buffer, next, app, history, marks>>,
           \/ pc' = [pc EXCEPT ![t] = "give"]
           \/ pc[t] \in {"read", "consume"} /\ pc' = [pc EXCEPT ![t] = "end"]
    PROVE  SafeInv'
<1>0. /\ FileOK /\ Framed /\ Owed /\ CommitOK /\ PeekOK /\ InOrder
      /\ ReplayOK(t)
  BY DEF SafeInv, FileOK
<1>1. /\ UNCHANGED <<file, commit, appended, accepted, delivered, discarded, wrongCommit,
                     hand, handled, peekNext, offset, moved>>
      /\ Unfinished' = Unfinished
  BY DEF files, object, history, app, marks, Unfinished
<1>2. FileOK' /\ Owed' /\ CommitOK' /\ PeekOK' /\ InOrder'
  BY <1>0, <1>1, FileKept, CommitKept, PeekKept, OrderKept
<1>3. \A u \in Threads : u # t => ReplayOK(u)'
  BY OthersIdle
<1>4. ReplayOK(t)'
  <2>1. CASE pc' = [pc EXCEPT ![t] = "give"]
    BY <2>1, ReplayIdle DEF TypeOK
  <2>2. CASE pc[t] \in {"read", "consume"} /\ pc' = [pc EXCEPT ![t] = "end"]
    <3>1. pc'[t] = "end" /\ Reading(t)
      BY <2>2 DEF TypeOK, Reading
    <3>. QED
      BY <1>0, <1>1, <3>1 DEF ReplayOK, Reading, Stale, Position
  <2>. QED
    BY <2>1, <2>2
<1>. QED
  BY <1>2, <1>3, <1>4 DEF SafeInv

\* A thread which leaves Replay, and what it leaves behind.
LEMMA LeaveSafe ==
    ASSUME TypeOK, OneTaker, NEW t \in Threads, pc[t] # "idle", Leave(t)
    PROVE  \A u \in Threads : ReplayOK(u)'
<1>1. pc' = [pc EXCEPT ![t] = "idle"] /\ pc'[t] = "idle"
  BY DEF Leave, TypeOK
<1>. QED
  BY <1>1, OthersIdle, ReplayIdle

LEMMA OnlyLeavesSafe ==
    ASSUME TypeOK, OneTaker, SafeInv, NEW t \in Threads, pc[t] # "idle", Leave(t),
           UNCHANGED <<files, peekNext, app, history, wrongCommit>>
    PROVE  SafeInv'
<1>0. /\ FileOK /\ Framed /\ Owed /\ CommitOK /\ PeekOK /\ InOrder
  BY DEF SafeInv, FileOK
<1>1. /\ UNCHANGED <<file, commit, appended, accepted, delivered, discarded, wrongCommit,
                     hand, handled, peekNext>>
      /\ Unfinished' = Unfinished
  BY DEF files, history, app, Unfinished
<1>2. FileOK' /\ Owed' /\ CommitOK' /\ PeekOK' /\ InOrder'
  BY <1>0, <1>1, FileKept, CommitKept, PeekKept, OrderKept
<1>. QED
  BY <1>2, LeaveSafe DEF SafeInv

\* A record is delivered: nothing older is owed, so the order is kept.
LEMMA DeliverSafe ==
    ASSUME TypeOK, InOrder, NEW r \in Int, Oldest(r),
           delivered' = delivered \cup ({r} \cap accepted),
           UNCHANGED <<accepted, discarded>>
    PROVE  InOrder' /\ Unfinished' = Unfinished \ {r}
<1>1. Unfinished' = Unfinished \ {r}
  BY DEF Unfinished
<1>2. InOrder'
  <2>. SUFFICES ASSUME NEW x \in delivered', NEW q \in accepted, q < x
                PROVE  q \in delivered' \cup discarded
    BY DEF InOrder
  <2>1. CASE x \in delivered
    BY <2>1 DEF InOrder
  <2>2. CASE x = r
    <3>1. q \in Int /\ ~(r <= q)
      BY <2>2 DEF TypeOK
    <3>2. q \notin Unfinished
      BY <3>1 DEF Oldest
    <3>. QED
      BY <3>2 DEF Unfinished
  <2>. QED
    BY <2>1, <2>2
<1>. QED
  BY <1>1, <1>2

LEMMA ConsumeAcceptsSafe ==
    ASSUME TypeOK, OneTaker, SafeInv, spoiled' = {}, NEW t \in Threads, ConsumeAccepts(t)
    PROVE  SafeInv'
<1>0. /\ FileOK /\ Framed /\ Owed /\ CommitOK /\ PeekOK /\ InOrder
      /\ ReplayOK(t)
  BY DEF SafeInv, FileOK
<1>1. /\ UNCHANGED <<file, commit, appended, accepted, discarded, wrongCommit,
                     hand, handled, peekNext, moved>>
      /\ pc[t] = "consume" /\ Reading(t)
  BY DEF ConsumeAccepts, files, object, app, marks, Reading
<1>2. Oldest(buffer[t]) /\ offset[t] < next[t] /\ buffer[t] \in Int
      /\ offset[t] \in Nat /\ next[t] \in Nat
  BY <1>0, <1>1 DEF ReplayOK, TypeOK, Records, NoRecord, Garbage
<1>3. InOrder' /\ Unfinished' = Unfinished \ {buffer[t]}
  BY <1>0, <1>1, <1>2, DeliverSafe DEF ConsumeAccepts
<1>4. FileOK' /\ Owed' /\ CommitOK' /\ PeekOK'
  BY <1>0, <1>1, <1>3, FileKept, CommitKept, PeekKept
<1>5. ReplayOK(t)'
  <2>1. offset'[t] = next[t] /\ pc'[t] = "read"
    BY DEF ConsumeAccepts, TypeOK
  <2>2. (~wrongCommit => commit <= offset[t])'
    BY <1>0, <1>1, <1>2, <2>1 DEF ReplayOK, TypeOK
  <2>3. ASSUME ~moved
        PROVE  Position(offset[t])'
    <3>1. /\ next[t] = offset[t] + 2 /\ Position(offset[t])
          /\ WholeAt(offset[t] + 1) /\ file[offset[t] + 1].rec = buffer[t]
      BY <1>0, <1>1, <2>3 DEF ReplayOK, Stale
    <3>2. /\ next[t] <= Len(file)
          /\ next[t] < Len(file) => file[next[t] + 1].part = "head"
          /\ \A i \in 1..Len(file) :
               i <= next[t] /\ file[i].rec \in Unfinished => file[i].rec = buffer[t]
      <4>1. next[t] + 1 = offset[t] + 3
        BY <1>2, <3>1
      <4>. QED
        BY <1>0, <1>2, <3>1, <4>1, NextPosition
    <3>. QED
      BY <1>1, <1>3, <2>1, <3>2 DEF Position
  <2>4. ~moved' => Position(offset[t])'
    BY <1>1, <2>3
  <2>5. ~Stale(t)' => ~moved'
    BY <1>2, <2>1 DEF Stale
  <2>. QED
    BY <2>1, <2>2, <2>4, <2>5 DEF ReplayOK
<1>6. \A u \in Threads : u # t => ReplayOK(u)'
  BY <1>1, OthersIdle DEF ConsumeAccepts
<1>. QED
  BY <1>3, <1>4, <1>5, <1>6 DEF SafeInv

LEMMA ReplayEndSafe ==
    ASSUME TypeOK, OneTaker, SafeInv, spoiled' = {}, NEW t \in Threads,
           NEW ok \in BOOLEAN, ReplayEnd(t, ok)
    PROVE  SafeInv'
<1>0. /\ FileOK /\ Framed /\ Owed /\ CommitOK /\ PeekOK /\ InOrder
      /\ ReplayOK(t)
  BY DEF SafeInv, FileOK
<1>1. /\ UNCHANGED <<appended, accepted, delivered, discarded, hand, handled>>
      /\ UNCHANGED history /\ Unfinished' = Unfinished /\ pc[t] = "end" /\ Leave(t)
      /\ offset[t] \in Nat /\ peekNext \in Nat
  BY DEF ReplayEnd, history, app, Unfinished, TypeOK
<1>2. \A u \in Threads : ReplayOK(u)'
  BY <1>1, LeaveSafe
<1>3. InOrder'
  BY <1>0, <1>1, OrderKept
<1>4. CASE didReplay[t] /\ ok
  <2>1. Position(offset[t]) /\ StoreCommit(offset[t], ok, peekNext)
    BY <1>0, <1>1, <1>4 DEF ReplayEnd, ReplayOK, Reading
  <2>2. FileOK' /\ Owed' /\ CommitOK'
    BY <1>0, <1>1, <2>1, StoreSafe
  <2>3. PeekOK'
    BY <1>0, <1>1, <2>1, <1>4, PeekKept DEF StoreCommit
  <2>. QED
    BY <1>2, <1>3, <2>2, <2>3 DEF SafeInv
<1>5. CASE ~(didReplay[t] /\ ok)
  <2>1. /\ UNCHANGED file /\ peekNext' \in {0, peekNext}
        /\ UNCHANGED <<commit, wrongCommit>> \/ commit' = 0
    BY <1>5 DEF ReplayEnd, StoreCommit, files
  <2>2. FileOK' /\ Owed' /\ CommitOK' /\ PeekOK'
    BY <1>0, <1>1, <2>1, FileKept, CommitKept, PeekKept
  <2>. QED
    BY <1>2, <1>3, <2>2 DEF SafeInv
<1>. QED
  BY <1>4, <1>5

-----------------------------------------------------------------------------
(* Opening, closing and clearing *)

\* Steps which touch no record and no Replay.
LEMMA QuietSafe ==
    ASSUME TypeOK, SafeInv,
           UNCHANGED <<file, locals, appended, accepted, delivered, discarded, moved>>,
           UNCHANGED <<commit, wrongCommit>> \/ commit' = 0 \/ wrongCommit',
           \/ UNCHANGED <<peekNext, hand, handled>>
           \/ peekNext' = 0 /\ UNCHANGED <<hand, handled>>
           \/ peekNext' = 0 /\ hand' = hand /\ ~handled'
           \/ peekNext' = 0 /\ hand' = NoRecord
    PROVE  SafeInv'
<1>0. /\ FileOK /\ Framed /\ Owed /\ CommitOK /\ PeekOK /\ InOrder
      /\ \A t \in Threads : ReplayOK(t)
      /\ Unfinished' = Unfinished
  BY DEF SafeInv, FileOK, Unfinished
<1>1. FileOK' /\ Owed' /\ InOrder'
  BY <1>0, FileKept, OrderKept
<1>2. CommitOK'
  <2>1. CASE wrongCommit'
    BY <2>1 DEF CommitOK
  <2>2. CASE UNCHANGED <<commit, wrongCommit>> \/ commit' = 0
    BY <1>0, <2>2, CommitKept
  <2>. QED
    BY <2>1, <2>2
<1>3. \A t \in Threads : ReplayOK(t)'
  BY <1>0, ReplayKept
<1>4. PeekOK'
  <2>1. CASE UNCHANGED <<hand, handled>> /\ peekNext' \in {0, peekNext}
    BY <1>0, <2>1, PeekKept
  <2>2. CASE peekNext' = 0 /\ hand' = hand /\ ~handled'
    BY <1>0, <2>2 DEF PeekOK, Oldest
  <2>3. CASE peekNext' = 0 /\ hand' = NoRecord
    BY <2>3, PeekNone
  <2>. QED
    BY <2>1, <2>2, <2>3
<1>. QED
  BY <1>1, <1>2, <1>3, <1>4 DEF SafeInv

LEMMA CrashSafe ==
    ASSUME TypeOK, SafeInv, Crash
    PROVE  SafeInv'
<1>0. /\ FileOK /\ Framed /\ Owed /\ CommitOK /\ InOrder
  BY DEF SafeInv, FileOK
<1>1. /\ UNCHANGED <<file, commit, wrongCommit, appended, accepted, delivered, discarded>>
      /\ Unfinished' = Unfinished /\ peekNext' = 0 /\ hand' = NoRecord
      /\ \A t \in Threads : pc'[t] = "idle"
  BY DEF Crash, NewObject, NoLocals, files, history, Unfinished
<1>2. FileOK' /\ Owed' /\ CommitOK' /\ PeekOK' /\ InOrder'
  BY <1>0, <1>1, FileKept, CommitKept, PeekNone, OrderKept
<1>3. \A t \in Threads : ReplayOK(t)'
  BY <1>1, ReplayIdle
<1>. QED
  BY <1>2, <1>3 DEF SafeInv

LEMMA ClearActionSafe ==
    ASSUME TypeOK, TypeOK', OneTaker, SafeInv, NEW ok \in BOOLEAN, Clear(ok)
    PROVE  SafeInv'
<1>0. /\ FileOK /\ Framed /\ Owed /\ CommitOK /\ PeekOK /\ InOrder
      /\ \A t \in Threads : ReplayOK(t)
  BY DEF SafeInv, FileOK
<1>1. /\ UNCHANGED <<appended, accepted, delivered, hand, handled, locals, replaying>>
      /\ ClearInternal(ok, peekNext) /\ peekNext \in Nat
  BY DEF Clear, app, TypeOK
<1>2. discarded \subseteq discarded' /\ Unfinished' \subseteq Unfinished /\ (ok => Unfinished' = {})
  BY DEF Clear, Unfinished
<1>3. FileOK' /\ Owed' /\ CommitOK'
  BY <1>0, <1>1, <1>2, ClearSafe
<1>4. PeekOK' /\ InOrder'
  BY <1>0, <1>1, <1>2, ClearPeek, OrderKept
<1>5. ASSUME NEW t \in Threads
      PROVE  ReplayOK(t)'
  <2>1. CASE ok
    <3>1. file' = NoCells /\ Len(file') = 0 /\ commit' = 0 /\ moved' = replaying
      BY <1>1, <2>1, NoCellsType DEF ClearInternal, Clear
    <3>2. /\ offset'[t] = offset[t] /\ pc'[t] = pc[t] /\ buffer'[t] = buffer[t]
          /\ next'[t] = next[t] /\ offset[t] \in Nat
      BY <1>1 DEF locals, TypeOK
    <3>3. pc[t] # "idle" => moved'
      BY <3>1 DEF OneTaker
    <3>4. (Reading(t) /\ ~Stale(t) => Position(offset[t]))'
      <4>1. CASE offset[t] = 0
        BY <3>1, <3>2, <4>1 DEF Position
      <4>2. CASE offset[t] # 0
        BY <3>2, <3>3, <4>2 DEF Reading, Stale
      <4>. QED
        BY <4>1, <4>2
    <3>5. (commit <= offset[t])'
      BY <3>1, <3>2
    <3>6. pc[t] = "consume" => Oldest(buffer[t])' /\ offset[t] < next[t] /\ moved'
      BY <1>0, <1>1, <1>2, <2>1, <3>2, <3>3 DEF ReplayOK, Oldest
    <3>. QED
      BY <3>2, <3>4, <3>5, <3>6 DEF ReplayOK
  <2>2. CASE ~ok
    <3>1. /\ UNCHANGED <<file, moved>>
          /\ UNCHANGED <<commit, wrongCommit>> \/ commit' = 0
      BY <1>1, <2>2 DEF ClearInternal, Clear, files
    <3>. QED
      BY <1>0, <1>1, <1>2, <3>1, ReplayKept
  <2>. QED
    BY <2>1, <2>2
<1>. QED
  BY <1>3, <1>4, <1>5 DEF SafeInv

-----------------------------------------------------------------------------
(* Peek and Ack *)

\* Nobody replays: there is nothing to say about a running Replay.
LEMMA NobodyReplays ==
    ASSUME OneTaker, ~replaying, UNCHANGED pc
    PROVE  \A t \in Threads : ReplayOK(t)'
BY ReplayIdle DEF OneTaker

LEMMA PeekRecordSafe ==
    ASSUME TypeOK, OneTaker, SafeInv, spoiled' = {}, PeekRecord
    PROVE  SafeInv'
<1>0. /\ FileOK /\ Framed /\ Owed /\ CommitOK /\ InOrder
  BY DEF SafeInv, FileOK
<1>1. PICK o \in GetReplayPosition : \E record \in RecordsAt(o) :
        /\ PeekPosition(o)
        /\ hand' = record.rec
        /\ peekNext' = record.next
        /\ UNCHANGED <<files, isOpen, pending, replaying, locals, history, wrongCommit, moved>>
  BY DEF PeekRecord
<1>2. PICK record \in RecordsAt(o) :
        /\ PeekPosition(o)
        /\ hand' = record.rec
        /\ peekNext' = record.next
        /\ UNCHANGED <<files, isOpen, pending, replaying, locals, history, wrongCommit, moved>>
  BY <1>1
<1>3. /\ UNCHANGED <<file, commit, wrongCommit, pc, appended, accepted, delivered, discarded>>
      /\ Unfinished' = Unfinished /\ ~replaying /\ ~handled' /\ PositionMarks(o) = {}
  BY <1>2 DEF PeekPosition, files, locals, history, Unfinished
<1>4. o \in Nat /\ Position(o) /\ (~wrongCommit => o = commit)
  BY <1>0, <1>3, PositionType, StartsAtPosition DEF TypeOK
<1>5. WholeAt(o + 1) /\ record.rec = file[o + 1].rec /\ record.next = o + 2
  BY <1>0, <1>4, ReadsWhole
<1>6. Oldest(file[o + 1].rec)
  BY <1>0, <1>4, <1>5, ReadsOldest
<1>7. FileOK' /\ Owed' /\ CommitOK' /\ InOrder'
  BY <1>0, <1>3, FileKept, CommitKept, OrderKept
<1>8. PeekOK'
  <2>1. hand' = file[o + 1].rec /\ peekNext' = o + 2
    BY <1>2, <1>5
  <2>2. Oldest(hand)'
    BY <1>3, <1>6, <2>1 DEF Oldest
  <2>3. /\ o + 2 <= Len(file)
        /\ o + 2 < Len(file) => file[(o + 2) + 1].part = "head"
        /\ \A i \in 1..Len(file) :
             i <= o + 2 /\ file[i].rec \in Unfinished => file[i].rec = file[o + 1].rec
    <3>1. (o + 2) + 1 = o + 3
      BY <1>4
    <3>. QED
      BY <1>0, <1>4, <1>5, <3>1, NextPosition
  <2>4. ~wrongCommit => commit < o + 2
    BY <1>4
  <2>. QED
    BY <1>3, <2>1, <2>2, <2>3, <2>4 DEF PeekOK
<1>9. \A t \in Threads : ReplayOK(t)'
  BY <1>3, NobodyReplays
<1>. QED
  BY <1>7, <1>8, <1>9 DEF SafeInv

LEMMA PeekLastSafe ==
    ASSUME TypeOK, TypeOK', OneTaker, SafeInv, spoiled' = {}, NEW ok \in BOOLEAN, PeekLast(ok)
    PROVE  SafeInv'
<1>0. /\ FileOK /\ Framed /\ Owed /\ CommitOK /\ InOrder
  BY DEF SafeInv, FileOK
<1>1. PICK o \in GetReplayPosition :
        /\ PeekPosition(o)
        /\ o = Len(file) \/ DamagedAt(o)
        /\ ClearInternal(ok, 0)
        /\ hand' = NoRecord
        /\ UNCHANGED <<isOpen, replaying, locals, history, moved>>
  BY DEF PeekLast
<1>2. /\ UNCHANGED <<pc, appended, accepted, delivered, discarded>>
      /\ Unfinished' = Unfinished /\ ~replaying /\ PositionMarks(o) = {} /\ peekNext' = 0
  BY <1>1 DEF PeekPosition, locals, history, Unfinished, ClearInternal
<1>3. o \in Nat /\ Position(o)
  BY <1>0, <1>2, PositionType, StartsAtPosition DEF TypeOK
<1>4. Unfinished = {}
  BY <1>0, <1>1, <1>3, NothingOwedBehind
<1>5. FileOK' /\ Owed' /\ CommitOK'
  BY <1>0, <1>1, <1>2, <1>4, ClearSafe
<1>6. PeekOK' /\ InOrder'
  BY <1>0, <1>1, <1>2, PeekNone, OrderKept
<1>. QED
  BY <1>2, <1>5, <1>6, NobodyReplays DEF SafeInv

LEMMA HandleRecordSafe ==
    ASSUME TypeOK, SafeInv, HandleRecord
    PROVE  SafeInv'
<1>0. /\ FileOK /\ Framed /\ Owed /\ CommitOK /\ PeekOK /\ InOrder
      /\ \A t \in Threads : ReplayOK(t)
  BY DEF SafeInv, FileOK
<1>1. /\ UNCHANGED <<file, commit, wrongCommit, appended, accepted, discarded, peekNext, locals, moved>>
      /\ hand # NoRecord /\ hand' = NoRecord
  BY DEF HandleRecord, files, object, marks
<1>2. hand \in Int /\ Oldest(hand)
  BY <1>0, <1>1 DEF PeekOK, TypeOK, Records, NoRecord, Garbage
<1>3. InOrder' /\ Unfinished' = Unfinished \ {hand}
  BY <1>0, <1>1, <1>2, DeliverSafe DEF HandleRecord
<1>4. FileOK' /\ Owed' /\ CommitOK'
  BY <1>0, <1>1, <1>3, FileKept, CommitKept
<1>5. PeekOK'
  <2>1. \A i \in 1..Len(file) : peekNext # 0 /\ i <= peekNext => file[i].rec \notin Unfinished'
    BY <1>0, <1>3 DEF PeekOK
  <2>. QED
    BY <1>0, <1>1, <2>1 DEF PeekOK
<1>6. \A t \in Threads : ReplayOK(t)'
  BY <1>0, <1>1, <1>3, ReplayKept
<1>. QED
  BY <1>3, <1>4, <1>5, <1>6 DEF SafeInv

\* What an Ack saves is a position: the record in front of it was handled.
LEMMA AckPosition ==
    ASSUME TypeOK, PeekOK, handled, AckFits
    PROVE  Position(peekNext)
<1>1. /\ peekNext # 0 /\ peekNext <= Len(file) /\ hand = NoRecord
  BY DEF AckFits, PeekOK
<1>2. peekNext < Len(file) => file[peekNext + 1].part = "head"
  BY <1>1 DEF PeekOK
<1>3. \A i \in 1..Len(file) : i <= peekNext => file[i].rec \notin Unfinished
  BY <1>1, FileTypes DEF PeekOK, Records, NoRecord
<1>. QED
  BY <1>1, <1>2, <1>3 DEF Position

LEMMA AckSavedSafe ==
    ASSUME TypeOK, TypeOK', OneTaker, SafeInv, NEW ok \in BOOLEAN, AckSaved(ok)
    PROVE  SafeInv'
<1>0. /\ FileOK /\ Framed /\ Owed /\ CommitOK /\ PeekOK /\ InOrder
  BY DEF SafeInv, FileOK
<1>1. /\ UNCHANGED <<pc, appended, accepted, delivered, discarded>>
      /\ UNCHANGED history /\ Unfinished' = Unfinished
      /\ ~replaying /\ handled /\ AckFits /\ hand' = hand /\ hand = NoRecord
      /\ peekNext \in Nat
  BY <1>0 DEF AckSaved, AckFits, PeekOK, locals, history, Unfinished, TypeOK
<1>2. Position(peekNext)
  BY <1>0, <1>1, AckPosition
<1>3. FileOK' /\ Owed' /\ CommitOK' /\ peekNext' = 0
  <2>1. CASE peekNext = Len(file)
    <3>1. ClearInternal(ok, 0)
      BY <2>1 DEF AckSaved
    <3>2. Unfinished = {}
      BY <1>0, <1>1, <1>2, <2>1, NothingOwedBehind
    <3>. QED
      BY <1>0, <1>1, <3>1, <3>2, ClearSafe DEF ClearInternal
  <2>2. CASE peekNext # Len(file)
    <3>1. StoreCommit(peekNext, ok, 0)
      BY <2>2 DEF AckSaved
    <3>. QED
      BY <1>0, <1>1, <1>2, <3>1, StoreSafe DEF StoreCommit
  <2>. QED
    BY <2>1, <2>2
<1>4. PeekOK' /\ InOrder'
  BY <1>0, <1>1, <1>3, PeekNone, OrderKept
<1>. QED
  BY <1>1, <1>3, <1>4, NobodyReplays DEF SafeInv

-----------------------------------------------------------------------------
(* The inductive invariant, and what follows from it *)

\* What spoiled the WAL once is not forgotten.
LEMMA SpoiledGrows == [Next]_vars => spoiled \subseteq spoiled'
<1>. SUFFICES ASSUME [Next]_vars
              PROVE  spoiled \subseteq spoiled'
  OBVIOUS
<1>. USE DEF marks
<1>1. CASE Open \/ Close \/ Crash \/ DamageCommit \/ AppendStored \/ AppendTorn
  BY <1>1 DEF Open, Close, Crash, DamageCommit, AppendStored, AppendTorn, Write
<1>2. ASSUME NEW ok \in BOOLEAN, Clear(ok)
      PROVE  spoiled \subseteq spoiled'
  BY <1>2 DEF Clear
<1>3. ASSUME NEW t \in Threads, Replay(t)
      PROVE  spoiled \subseteq spoiled'
  <2>1. CASE ReplayStart(t) \/ ReplayReadRecord(t)
    BY <2>1 DEF ReplayStart, ReplayReadRecord, PositionMarks
  <2>2. ASSUME NEW ok \in BOOLEAN, ReplayReadLast(t, ok) \/ ReplayEnd(t, ok)
        PROVE  spoiled \subseteq spoiled'
    BY <2>2 DEF ReplayReadLast, ReplayEnd
  <2>3. CASE ReplayReadChanged(t) \/ ReplayReadStop(t) \/ ConsumeAccepts(t) \/ ConsumeRefuses(t)
    BY <2>3 DEF ReplayReadChanged, ReplayReadStop, ConsumeAccepts, ConsumeRefuses
  <2>4. CASE ConsumeThrows(t) \/ ReplayGive(t)
    BY <2>4 DEF ConsumeThrows, ReplayGive
  <2>. QED
    BY <1>3, <2>1, <2>2, <2>3, <2>4 DEF Replay
<1>4. CASE PeekAndAck
  <2>1. CASE PeekNothing \/ HandleRecord \/ AckRefused
    BY <2>1 DEF PeekNothing, HandleRecord, AckRefused
  <2>2. \A o : PeekPosition(o) => spoiled \subseteq spoiled'
    BY DEF PeekPosition, PositionMarks
  <2>3. CASE PeekRecord \/ PeekStop
    BY <2>2, <2>3 DEF PeekRecord, PeekStop
  <2>4. ASSUME NEW ok \in BOOLEAN, PeekLast(ok) \/ AckSaved(ok)
        PROVE  spoiled \subseteq spoiled'
    BY <2>2, <2>4 DEF PeekLast, AckSaved
  <2>. QED
    BY <1>4, <2>1, <2>3, <2>4 DEF PeekAndAck
<1>5. CASE UNCHANGED vars
  BY <1>5 DEF vars
<1>. QED
  BY <1>1, <1>2, <1>3, <1>4, <1>5 DEF Next

LEMMA SafeInit == Init => SafeInv
<1>. SUFFICES ASSUME Init
              PROVE  SafeInv
  OBVIOUS
<1>1. file = NoCells /\ Len(file) = 0 /\ commit = 0 /\ accepted = {} /\ delivered = {}
      /\ peekNext = 0 /\ hand = NoRecord /\ Unfinished = {}
      /\ \A t \in Threads : pc[t] = "idle"
  BY NoCellsType DEF Init, Unfinished
<1>2. FileOK
  BY <1>1 DEF FileOK, Framed, Numbered, TornRefused, TornTail
<1>3. Owed /\ CommitOK
  BY <1>1 DEF Owed, CommitOK, Position
<1>4. \A t \in Threads : ReplayOK(t)
  BY <1>1 DEF ReplayOK, Reading
<1>5. PeekOK /\ InOrder
  BY <1>1 DEF PeekOK, InOrder
<1>. QED
  BY <1>2, <1>3, <1>4, <1>5 DEF SafeInv

LEMMA SafeNext ==
    ASSUME TypeOK, TypeOK', OneTaker, SafeInv, spoiled' = {}, [Next]_vars
    PROVE  SafeInv'
<1>1. CASE Open
  BY <1>1, QuietSafe DEF Open, files, app, history, marks
<1>2. CASE Close
  BY <1>2, QuietSafe DEF Close, NewObject, history
<1>3. CASE Crash
  BY <1>3, CrashSafe
<1>4. CASE DamageCommit
  BY <1>4, QuietSafe DEF DamageCommit, object, app, history
<1>5. CASE AppendStored
  <2>. DEFINE cells == <<HeadOf(appended + 1), BodyOf(appended + 1)>>
  <2>1. cells \in Seq(Cell) /\ Len(cells) = 2
    BY <1>5, CellTypes DEF AppendStored, Write, Records, TypeOK
  <2>2. cells[1] = HeadOf(appended + 1) /\ cells[2] = BodyOf(appended + 1)
    OBVIOUS
  <2>3. /\ Write(cells)
        /\ accepted' = accepted \cup {appended + 1}
        /\ UNCHANGED <<commit, peekNext, locals, app, delivered, discarded, wrongCommit, moved>>
    BY <1>5 DEF AppendStored
  <2>. HIDE DEF cells
  <2>. QED
    BY <2>1, <2>2, <2>3, AppendSafe
<1>6. CASE AppendTorn
  <2>. DEFINE cells == <<HeadOf(appended + 1)>>
  <2>1. cells \in Seq(Cell) /\ Len(cells) = 1
    BY <1>6, CellTypes DEF AppendTorn, Write, Records, TypeOK
  <2>2. cells[1] = HeadOf(appended + 1)
    OBVIOUS
  <2>3. /\ Write(cells)
        /\ accepted' = accepted
        /\ UNCHANGED <<commit, peekNext, locals, app, delivered, discarded, wrongCommit, moved>>
    BY <1>6 DEF AppendTorn, object
  <2>. HIDE DEF cells
  <2>. QED
    BY <2>1, <2>2, <2>3, AppendSafe
<1>7. ASSUME NEW ok \in BOOLEAN, Clear(ok)
      PROVE  SafeInv'
  BY <1>7, ClearActionSafe
<1>8. ASSUME NEW t \in Threads, Replay(t)
      PROVE  SafeInv'
  <2>1. CASE ReplayStart(t)
    BY <2>1, ReplayStartSafe
  <2>2. CASE ReplayReadRecord(t)
    BY <2>2, ReplayReadRecordSafe
  <2>3. ASSUME NEW ok \in BOOLEAN, ReplayReadLast(t, ok)
        PROVE  SafeInv'
    BY <2>3, ReplayReadLastSafe
  <2>4. CASE ReplayReadChanged(t)
    BY <2>4, OnlyMovesSafe DEF ReplayReadChanged
  <2>5. CASE ReplayReadStop(t)
    BY <2>5, OnlyMovesSafe DEF ReplayReadStop
  <2>6. CASE ConsumeAccepts(t)
    BY <2>6, ConsumeAcceptsSafe
  <2>7. CASE ConsumeRefuses(t)
    BY <2>7, OnlyMovesSafe DEF ConsumeRefuses
  <2>8. CASE ConsumeThrows(t)
    BY <2>8, OnlyLeavesSafe DEF ConsumeThrows
  <2>9. ASSUME NEW ok \in BOOLEAN, ReplayEnd(t, ok)
        PROVE  SafeInv'
    BY <2>9, ReplayEndSafe
  <2>10. CASE ReplayGive(t)
    BY <2>10, OnlyLeavesSafe DEF ReplayGive
  <2>. QED
    BY <1>8, <2>1, <2>2, <2>3, <2>4, <2>5, <2>6, <2>7, <2>8, <2>9, <2>10 DEF Replay
<1>9. CASE PeekAndAck
  <2>1. CASE PeekNothing
    BY <2>1, QuietSafe DEF PeekNothing, files, history, marks
  <2>2. CASE PeekRecord
    BY <2>2, PeekRecordSafe
  <2>3. CASE PeekStop
    <3>1. /\ hand' = NoRecord /\ peekNext' = 0
          /\ UNCHANGED <<files, locals, history, wrongCommit, moved>>
      BY <2>3 DEF PeekStop
    <3>. QED
      BY <3>1, QuietSafe DEF files, history
  <2>4. CASE HandleRecord
    BY <2>4, HandleRecordSafe
  <2>5. CASE AckRefused
    BY <2>5, QuietSafe DEF AckRefused, files, history, marks
  <2>6. ASSUME NEW ok \in BOOLEAN, PeekLast(ok)
        PROVE  SafeInv'
    BY <2>6, PeekLastSafe
  <2>7. ASSUME NEW ok \in BOOLEAN, AckSaved(ok)
        PROVE  SafeInv'
    BY <2>7, AckSavedSafe
  <2>. QED
    BY <1>9, <2>1, <2>2, <2>3, <2>4, <2>5, <2>6, <2>7 DEF PeekAndAck
<1>10. CASE UNCHANGED vars
  BY <1>10, QuietSafe DEF vars, files, object, app, history, marks
<1>. QED
  BY <1>1, <1>2, <1>3, <1>4, <1>5, <1>6, <1>7, <1>8, <1>9, <1>10 DEF Next

\* The inductive invariant of the WAL: types, one taker, and while nothing spoiled the
\* WAL, a well-formed file with positions which leave no owed record behind.
THEOREM IInvHolds == Spec => []IInv
<1>1. Init => IInv
  BY TypeInit, SafeInit DEF IInv, Init, OneTaker
<1>2. IInv /\ [Next]_vars => IInv'
  <2>. SUFFICES ASSUME IInv, [Next]_vars
                PROVE  IInv'
    OBVIOUS
  <2>1. TypeOK' /\ OneTaker'
    BY TypeNext, TakerNext DEF IInv
  <2>2. ASSUME spoiled' = {}
        PROVE  SafeInv'
    <3>1. spoiled = {}
      BY <2>2, SpoiledGrows
    <3>. QED
      BY <2>1, <2>2, <3>1, SafeNext DEF IInv
  <2>. QED
    BY <2>1, <2>2 DEF IInv
<1>. QED
  BY <1>1, <1>2, PTL DEF Spec

\* Every record for which Append returned true and which was neither delivered nor
\* cleared is in the file and not behind the saved position.
THEOREM NoneLostHolds == Spec => []NoneLost
<1>1. IInv => NoneLost
  <2>. SUFFICES ASSUME IInv, spoiled = {}, NEW r \in Unfinished
                PROVE  Kept(r)
    BY DEF NoneLost
  <2>0. TypeOK /\ Owed /\ CommitOK
    BY DEF IInv, SafeInv
  <2>1. PICK i \in 1..Len(file) : WholeAt(i) /\ file[i].rec = r
    BY <2>0 DEF Owed
  <2>2. wrongCommit \/ commit < i
    BY <2>0, <2>1, FileTypes DEF CommitOK, Position, TypeOK
  <2>. QED
    BY <2>1, <2>2 DEF Kept
<1>. QED
  BY <1>1, IInvHolds, PTL

\* A record is delivered only after every older one which was not given up.
THEOREM FirstDeliveriesInOrderHolds == Spec => []FirstDeliveriesInOrder
<1>1. IInv => FirstDeliveriesInOrder
  BY DEF IInv, SafeInv, InOrder, FirstDeliveriesInOrder
<1>. QED
  BY <1>1, IInvHolds, PTL

\* A saved position is never in front of a running Replay, and an Ack moves it forward.
THEOREM SavedNotAgainHolds == Spec => []SavedNotAgain
<1>1. IInv => SavedNotAgain
  BY DEF IInv, SafeInv, ReplayOK, PeekOK, AckFits, SavedNotAgain
<1>. QED
  BY <1>1, IInvHolds, PTL

-----------------------------------------------------------------------------
(* The WAL implements the queue *)

queueView == <<appended, Stored, delivered, discarded>>

\* In a WAL which is not spoiled, what the queue calls waiting is what is owed.
LEMMA StoredIsOwed ==
    ASSUME TypeOK, Owed
    PROVE  Stored = Unfinished
<1>1. \A r \in Unfinished : r \in Stored
  <2>. SUFFICES ASSUME NEW r \in Unfinished
                PROVE  r \in Stored
    OBVIOUS
  <2>1. PICK i \in 1..Len(file) : WholeAt(i) /\ file[i].rec = r
    BY DEF Owed
  <2>. QED
    BY <2>1 DEF Stored
<1>. QED
  BY <1>1 DEF Stored

\* A delivery of the oldest record, a late one of a record which was given up, or
\* one which is repeated.
LEMMA DeliveryMaps ==
    ASSUME TypeOK, Stored = Unfinished, Stored' = Unfinished', NEW r \in Int, Oldest(r),
           delivered' = delivered \cup ({r} \cap accepted),
           UNCHANGED <<appended, accepted, discarded>>
    PROVE  Queue!Next \/ UNCHANGED queueView
<1>1. Unfinished' = Unfinished \ {r}
  BY DEF Unfinished
<1>2. CASE r \in Unfinished
  <2>1. /\ r \in Stored /\ \A q \in Stored : r <= q
        /\ Stored' = Stored \ {r}
    BY <1>1, <1>2 DEF Oldest
  <2>2. delivered' = delivered \cup {r}
    BY <1>2 DEF Unfinished
  <2>3. Queue!Deliver
    BY <2>1, <2>2 DEF Queue!Deliver
  <2>. QED
    BY <2>3 DEF Queue!Next
<1>3. CASE r \in accepted /\ r \in discarded
  <2>1. delivered' = delivered \cup {r} /\ Stored' = Stored
    BY <1>1, <1>3 DEF Unfinished
  <2>2. Queue!DeliverLate
    BY <1>3, <2>1 DEF Queue!DeliverLate
  <2>. QED
    BY <2>2 DEF Queue!Next
<1>4. CASE r \notin accepted \/ r \in delivered
  <2>1. delivered' = delivered /\ Stored' = Stored
    BY <1>1, <1>4 DEF Unfinished
  <2>. QED
    BY <2>1 DEF queueView
<1>. QED
  BY <1>2, <1>3, <1>4 DEF Unfinished

LEMMA StepMaps ==
    ASSUME IInv, IInv', spoiled' = {}, [Next]_vars
    PROVE  Queue!Next \/ UNCHANGED queueView
<1>0. /\ TypeOK /\ SafeInv /\ Owed /\ PeekOK
      /\ \A t \in Threads : ReplayOK(t)
  BY SpoiledGrows DEF IInv, SafeInv
<1>a. Stored = Unfinished
  BY <1>0, StoredIsOwed
<1>b. Stored' = Unfinished'
  <2>1. TypeOK' /\ Owed'
    BY DEF IInv, SafeInv
  <2>2. \A r \in Unfinished' : r \in Stored'
    <3>. SUFFICES ASSUME NEW r \in Unfinished'
                  PROVE  r \in Stored'
      OBVIOUS
    <3>1. PICK i \in 1..Len(file') : WholeAt(i)' /\ file'[i].rec = r
      BY <2>1 DEF Owed
    <3>. QED
      BY <3>1 DEF Stored
  <2>. QED
    BY <2>2 DEF Stored
<1>c. ASSUME UNCHANGED history
      PROVE  UNCHANGED queueView
  BY <1>a, <1>b, <1>c DEF history, queueView, Unfinished
<1>1. CASE Open \/ Close \/ Crash \/ DamageCommit \/ UNCHANGED vars
  BY <1>1, <1>c DEF Open, Close, Crash, DamageCommit, vars
<1>2. CASE AppendStored
  <2>1. appended' = appended + 1 /\ accepted' = accepted \cup {appended'} /\ appended \in Nat
        /\ UNCHANGED <<delivered, discarded>>
    BY <1>0, <1>2 DEF AppendStored, Write, TypeOK
  <2>2. appended' \notin delivered \cup discarded
    BY <1>0, <2>1 DEF TypeOK
  <2>3. Stored' = Stored \cup {appended'}
    BY <1>a, <1>b, <2>1, <2>2 DEF Unfinished
  <2>4. Queue!Accept
    BY <2>1, <2>3 DEF Queue!Accept
  <2>. QED
    BY <2>4 DEF Queue!Next
<1>3. CASE AppendTorn
  <2>1. appended' = appended + 1 /\ UNCHANGED <<accepted, delivered, discarded>>
    BY <1>3 DEF AppendTorn, Write
  <2>2. Stored' = Stored
    BY <1>a, <1>b, <2>1 DEF Unfinished
  <2>3. Queue!Refuse
    BY <2>1, <2>2 DEF Queue!Refuse
  <2>. QED
    BY <2>3 DEF Queue!Next
<1>4. ASSUME NEW ok \in BOOLEAN, Clear(ok)
      PROVE  Queue!Next \/ UNCHANGED queueView
  <2>1. UNCHANGED <<appended, accepted, delivered>>
    BY <1>4 DEF Clear
  <2>2. CASE ok
    <3>1. discarded' = discarded \cup (accepted \ delivered)
      BY <1>4, <2>2 DEF Clear
    <3>2. Stored' = {} /\ discarded' = discarded \cup Stored
      BY <1>a, <1>b, <2>1, <3>1 DEF Unfinished
    <3>3. Queue!GiveUp
      BY <2>1, <3>2 DEF Queue!GiveUp
    <3>. QED
      BY <3>3 DEF Queue!Next
  <2>3. CASE ~ok
    <3>1. UNCHANGED discarded
      BY <1>4, <2>3 DEF Clear
    <3>. QED
      BY <1>c, <2>1, <3>1 DEF history
  <2>. QED
    BY <2>2, <2>3
<1>5. ASSUME NEW t \in Threads, Replay(t)
      PROVE  Queue!Next \/ UNCHANGED queueView
  <2>1. CASE ConsumeAccepts(t)
    <3>1. Oldest(buffer[t]) /\ buffer[t] \in Int
      BY <1>0, <2>1 DEF ConsumeAccepts, ReplayOK, TypeOK, Records, NoRecord, Garbage
    <3>. QED
      BY <1>0, <1>a, <1>b, <2>1, <3>1, DeliveryMaps DEF ConsumeAccepts
  <2>2. CASE ReplayStart(t) \/ ReplayReadRecord(t) \/ ReplayReadChanged(t) \/ ReplayReadStop(t)
             \/ ConsumeRefuses(t) \/ ConsumeThrows(t) \/ ReplayGive(t)
    BY <1>c, <2>2 DEF ReplayStart, ReplayReadRecord, ReplayReadChanged, ReplayReadStop,
                      ConsumeRefuses, ConsumeThrows, ReplayGive
  <2>3. ASSUME NEW ok \in BOOLEAN, ReplayReadLast(t, ok) \/ ReplayEnd(t, ok)
        PROVE  UNCHANGED queueView
    BY <1>c, <2>3 DEF ReplayReadLast, ReplayEnd
  <2>. QED
    BY <1>5, <2>1, <2>2, <2>3 DEF Replay
<1>6. CASE PeekAndAck
  <2>1. CASE HandleRecord
    <3>1. Oldest(hand) /\ hand \in Int
      BY <1>0, <2>1 DEF HandleRecord, PeekOK, TypeOK, Records, NoRecord, Garbage
    <3>. QED
      BY <1>0, <1>a, <1>b, <2>1, <3>1, DeliveryMaps DEF HandleRecord
  <2>2. CASE PeekNothing \/ PeekRecord \/ PeekStop \/ AckRefused
    BY <1>c, <2>2 DEF PeekNothing, PeekRecord, PeekStop, AckRefused
  <2>3. ASSUME NEW ok \in BOOLEAN, PeekLast(ok) \/ AckSaved(ok)
        PROVE  UNCHANGED queueView
    BY <1>c, <2>3 DEF PeekLast, AckSaved
  <2>. QED
    BY <1>6, <2>1, <2>2, <2>3 DEF PeekAndAck
<1>. QED
  BY <1>1, <1>2, <1>3, <1>4, <1>5, <1>6 DEF Next

\* The WAL implements the abstract queue as long as nothing spoiled it: only the
\* delivery of the oldest record, or Clear, takes away what was accepted.
THEOREM ImplementsQueueHolds == Spec => ImplementsQueue
<1>1. Init => Queue!Init
  <2>1. ASSUME Init
        PROVE  appended = 0 /\ delivered = {} /\ discarded = {} /\ Stored = {}
    BY <2>1 DEF Init, Stored, Unfinished
  <2>. QED
    BY <2>1 DEF Queue!Init
<1>2. IInv /\ IInv' /\ [Next]_vars => [spoiled' = {} => Queue!Next]_queueView
  BY StepMaps
<1>. QED
  BY <1>1, <1>2, IInvHolds, PTL DEF Spec, ImplementsQueue, queueView

=============================================================================
