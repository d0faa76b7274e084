----------------------------- MODULE FileReader -----------------------------
(***************************************************************************)
(* The reader of filereader/file_reader.cpp, the file it follows, and the  *)
(* program which writes the file.                                          *)
(*                                                                         *)
(* A file is a sequence of cells: pieces of the text of a line, and the    *)
(* new line behind them.  An offset is a number of cells.  A ReadLine runs *)
(* in steps, and the writer, a rotation or a truncation can come between   *)
(* any two of them: the open of the file, a return of a line of the        *)
(* buffer, the check of the file, the read behind the buffer, and what is  *)
(* done at the end of the file.                                            *)
(*                                                                         *)
(* The module has no Next: FileInput composes it with the program which    *)
(* takes the lines.  queue is where ReadLine puts the line it returns.     *)
(***************************************************************************)
EXTENDS Integers, Sequences

CONSTANTS
    Inodes,          \* the identities of files
    Settings,        \* the configurations and bounds one of which is chosen at the start
    MaxLineLength,   \* SetMaxLineLength, in cells
    HeadMax,         \* FILE_READER_HEAD_MAX, in cells
    ChunkMax,        \* FILE_READER_CHUNK, in cells
    QueueMax         \* g_SocketQueueMax

ASSUME FileAssumption ==
    /\ Settings \subseteq [maxLines : Nat, maxText : Nat, maxChanges : Nat,
                           startAtEnd : BOOLEAN, incompleteLines : BOOLEAN]
    /\ MaxLineLength \in Nat \ {0} /\ HeadMax \in Nat \ {0}
    /\ ChunkMax \in Nat \ {0} /\ QueueMax \in Nat \ {0}

VARIABLES
    setting,      \* the one of Settings; it never changes
    (* The files and their writer *)
    content,      \* what is in every file
    path,         \* the file the path leads to
    writing,      \* the file the writer has open
    line,         \* the last line it began
    part,         \* the cells of that line which it has written; 0: it is complete
    changes,      \* how often the file was moved away or emptied
    (* The state file *)
    saved,        \* NoState, or inode, offset and head
    (* The reader *)
    firstOpen,    \* m_bFirstOpen
    fd,           \* m_Fd, m_Inode
    generation,   \* m_Generation
    head,         \* m_Head
    buffer,       \* what was read and is not returned
    bufferStart,  \* m_BufferStart
    skipping,     \* m_bSkipping
    rotationSeen, \* m_bRotationSeen
    waited,       \* m_tIncompleteSince is not 0
    committed,    \* m_Committed
    (* The thread which reads *)
    pc,           \* down, round (between two calls), read, fill, end, ended
    queue,        \* the lines which were returned
    (* History *)
    written,      \* the pieces of text which were written
    gone,         \* the pieces which the writer, a restart or a setting took away, as the documentation says
    spoiled       \* what has happened after which a line can be lost (see the findings)

world == <<content, path, writing, line, part, changes>>
reading == <<buffer, bufferStart, skipping>>
reader == <<firstOpen, fd, generation, head, reading, rotationSeen, waited, committed>>
fileHistory == <<written, gone, spoiled>>
fileVars == <<setting, world, saved, reader, pc, queue, fileHistory>>

MaxLines == setting.maxLines               \* bound: how many lines are written
MaxText == setting.maxText                 \* the longest line, in cells
MaxChanges == setting.maxChanges           \* bound: how often the file is moved away or emptied
StartAtEnd == setting.startAtEnd           \* SetStartAtEnd
IncompleteLines == setting.incompleteLines \* SetIncompleteLineSeconds is not 0

NoFile == 0
NoState == [inode |-> NoFile, offset |-> 0, head |-> << >>]
NoCells == << >>

ASSUME InodesAssumption == Inodes \subseteq Nat \ {NoFile}

Text(l, k) == [line |-> l, k |-> k]
NewLine(l) == [line |-> l, k |-> 0]
IsNewLine(c) == c.k = 0
Cells == [line : 1..MaxLines, k : 0..MaxText]

Min2(a, b) == IF a < b THEN a ELSE b
Prefix(s, n) == SubSeq(s, 1, Min2(n, Len(s)))
Behind(s, n) == SubSeq(s, n + 1, Len(s))
In(s) == {s[i] : i \in DOMAIN s}
TextIn(s) == {c \in In(s) : ~IsNewLine(c)}

FileInit ==
    /\ setting \in Settings
    /\ content = [i \in Inodes |-> NoCells] /\ path = NoFile /\ writing = NoFile
    /\ line = 0 /\ part = 0 /\ changes = 0 /\ saved = NoState
    /\ firstOpen = TRUE /\ fd = NoFile /\ generation = 0 /\ head = NoCells
    /\ buffer = NoCells /\ bufferStart = 0 /\ skipping = FALSE
    /\ rotationSeen = FALSE /\ waited = FALSE /\ committed = 0
    /\ pc = "down" /\ queue = << >>
    /\ written = {} /\ gone = {} /\ spoiled = {}

-----------------------------------------------------------------------------
(* The writer, and who moves and empties its file *)

\* The reader knows the file of the path, or is on its way to it
Follows == pc # "down" /\ ~firstOpen

\* A file which was moved away gets one more call of ReadLine
TooLate == writing # path /\ (writing # fd \/ (rotationSeen /\ pc = "end"))

Put(c) ==
    /\ content' = [content EXCEPT ![writing] = Append(@, c)]
    /\ UNCHANGED <<path, writing, changes, saved, reader, pc, queue, spoiled>>

\* The line which is written: the one which is not complete, or a new one
ThisLine == IF part = 0 THEN line + 1 ELSE line

WriteText ==
    /\ writing # NoFile /\ part < MaxText /\ ThisLine <= MaxLines
    /\ line' = ThisLine /\ part' = part + 1
    /\ written' = written \cup {Text(line', part')}
    /\ gone' = IF TooLate THEN gone \cup {Text(line', part')} ELSE gone
    /\ Put(Text(line', part'))

\* Behind a text, or an empty line
WriteNewLine ==
    /\ writing # NoFile /\ ThisLine <= MaxLines
    /\ line' = ThisLine /\ part' = 0
    /\ UNCHANGED <<written, gone>>
    /\ Put(NewLine(line'))

\* The writer opens the file of the path
Reopen ==
    /\ path # NoFile /\ writing # path /\ part = 0
    /\ writing' = path
    /\ UNCHANGED <<content, path, line, part, changes, saved, reader, pc, queue, fileHistory>>

\* The fingerprint h does not cover what was read of the file up to n
Uncovered(h, n) == Len(h) < Min2(HeadMax, n)
Unprotected(i) == saved.inode = i /\ Uncovered(saved.head, saved.offset)

\* A new file; the identity of one which nobody has open can come again
CreateFile ==
    /\ path = NoFile
    /\ \E i \in Inodes \ {fd, writing} :
           /\ path' = i /\ content' = [content EXCEPT ![i] = NoCells]
           /\ spoiled' = IF Unprotected(i) THEN spoiled \cup {"unseen"} ELSE spoiled
    /\ UNCHANGED <<writing, line, part, changes, saved, reader, pc, queue, written, gone>>

Change == changes < MaxChanges /\ changes' = changes + 1

\* The file is moved away or deleted.  One which the reader has not opened yet, it never will.
MoveAway ==
    /\ path # NoFile /\ Change
    /\ path' = NoFile
    /\ gone' = IF fd # path /\ ~Follows THEN gone \cup TextIn(content[path]) ELSE gone
    /\ spoiled' = IF fd # path /\ Follows /\ TextIn(content[path]) # {} THEN spoiled \cup {"passed"} ELSE spoiled
    /\ UNCHANGED <<content, writing, line, part, saved, reader, pc, queue, written>>

\* The complete lines of the buffer, and the lines which were returned
TextRead ==
    {c \in TextIn(buffer) : \E i \in DOMAIN buffer : buffer[i] = NewLine(c.line)}
        \cup UNION {In(queue[i].text) : i \in DOMAIN queue}

\* The file is emptied: what was not read of it, and a line which is not finished, is lost
Truncate ==
    /\ path # NoFile /\ content[path] # NoCells /\ Change
    /\ content' = [content EXCEPT ![path] = NoCells]
    /\ gone' = gone \cup (TextIn(content[path]) \ TextRead)
    /\ spoiled' = spoiled \cup
           (IF fd = path /\ (pc = "fill" \/ Uncovered(head, bufferStart + Len(buffer))) THEN {"mixed"} ELSE {}) \cup
           (IF Unprotected(path) THEN {"unseen"} ELSE {})
    /\ UNCHANGED <<path, writing, line, part, saved, reader, pc, queue, written>>

World == WriteText \/ WriteNewLine \/ Reopen \/ CreateFile \/ MoveAway \/ Truncate

-----------------------------------------------------------------------------
(* The state file *)

\* SaveState of offset n of file i: a file of its own, flushed and renamed
SaveState(i, n, h, ok) ==
    saved' = IF ok THEN [inode |-> i, offset |-> n, head |-> Prefix(h, n)] ELSE saved

\* MUTANT of SameFile: the fingerprint is not looked at
SameInode(i) == saved.inode = i /\ saved.offset <= Len(content[i])

\* The state file is one of this file, and the start of the file is the one which was seen
SameFile(i) ==
    /\ saved.inode = i /\ saved.offset <= Len(content[i])
    /\ Prefix(content[i], Len(saved.head)) = saved.head

ResolveStart(i) ==
    CASE saved = NoState -> IF StartAtEnd THEN Len(content[i]) ELSE 0
      [] SameFile(i) -> saved.offset
      [] OTHER -> 0

-----------------------------------------------------------------------------
(* ReadLine *)

OpenFile(ok) ==
    /\ pc = "read" /\ fd = NoFile /\ path # NoFile
    /\ fd' = path /\ generation' = generation + 1 /\ firstOpen' = FALSE
    /\ bufferStart' = IF firstOpen THEN ResolveStart(path) ELSE 0
    /\ committed' = bufferStart'
    /\ head' = Prefix(content[path], HeadMax)
    /\ SaveState(path, bufferStart', head', ok)
    /\ gone' = IF firstOpen /\ saved = NoState /\ StartAtEnd THEN gone \cup TextIn(content[path]) ELSE gone
    /\ UNCHANGED <<world, buffer, skipping, rotationSeen, waited, pc, queue, written, spoiled>>

NothingToOpen ==
    /\ pc = "read" /\ fd = NoFile /\ path = NoFile
    /\ pc' = "round"
    /\ UNCHANGED <<world, saved, reader, queue, fileHistory>>

HasNewLine(s) == \E i \in DOMAIN s : IsNewLine(s[i])
FirstNewLine(s) == CHOOSE i \in DOMAIN s : IsNewLine(s[i]) /\ \A j \in 1..(i - 1) : ~IsNewLine(s[j])

\* The rest of a line which was too long is dropped
Rest == IF ~skipping THEN buffer
        ELSE IF HasNewLine(buffer) THEN Behind(buffer, FirstNewLine(buffer)) ELSE NoCells
StillSkipping == skipping /\ ~HasNewLine(buffer)
RestStart == bufferStart + Len(buffer) - Len(Rest)

HasLine == HasNewLine(Rest) \/ Len(Rest) > MaxLineLength

\* ReadLine returns a line which ends at end, and the thread puts it into the queue: an empty
\* one not.  Then it calls again, or ends its round.
Return(text, end) ==
    /\ queue' = IF text = NoCells THEN queue
                ELSE Append(queue, [text |-> text, gen |-> generation, end |-> end])
    /\ pc' \in IF Len(queue') < QueueMax THEN {"read", "round"} ELSE {"round"}

ExtractLine ==
    /\ pc = "read" /\ fd # NoFile /\ HasLine
    /\ LET n == IF HasNewLine(Rest) THEN FirstNewLine(Rest) ELSE MaxLineLength
           text == IF HasNewLine(Rest) THEN SubSeq(Rest, 1, n - 1) ELSE Rest
       IN  /\ buffer' = Behind(Rest, n)
           /\ bufferStart' = RestStart + n
           /\ skipping' = ~HasNewLine(Rest)
           /\ Return(Prefix(text, MaxLineLength), RestStart + n)
    /\ UNCHANGED <<world, saved, firstOpen, fd, generation, head, rotationSeen, waited, committed, fileHistory>>

\* MUTANT of Changed: a file which is long enough is taken for the same
ChangedShort == Len(content[fd]) < RestStart + Len(Rest)

\* The size and the start of the file tell that it was emptied or written again
Changed ==
    \/ Len(content[fd]) < RestStart + Len(Rest)
    \/ Prefix(content[fd], Len(head)) # head

\* ResetFile: starts again at the beginning
CheckFileChanged(ok) ==
    /\ pc = "read" /\ fd # NoFile /\ ~HasLine /\ Changed
    /\ generation' = generation + 1
    /\ buffer' = NoCells /\ bufferStart' = 0 /\ skipping' = FALSE
    /\ rotationSeen' = FALSE /\ waited' = FALSE /\ committed' = 0
    /\ head' = Prefix(content[fd], HeadMax)
    /\ SaveState(fd, 0, head', ok)
    /\ UNCHANGED <<world, firstOpen, fd, pc, queue, fileHistory>>

CheckFile ==
    /\ pc = "read" /\ fd # NoFile /\ ~HasLine /\ ~Changed
    /\ buffer' = Rest /\ bufferStart' = RestStart /\ skipping' = StillSkipping
    /\ head' = Prefix(content[fd], HeadMax)
    /\ pc' = "fill"
    /\ UNCHANGED <<world, saved, firstOpen, fd, generation, rotationSeen, waited, committed, queue, fileHistory>>

Unread == Behind(content[fd], bufferStart + Len(buffer))

FillBuffer ==
    /\ pc = "fill" /\ Unread # NoCells
    /\ buffer' = buffer \o Prefix(Unread, ChunkMax)
    /\ rotationSeen' = FALSE /\ waited' = FALSE
    /\ pc' = "read"
    /\ UNCHANGED <<world, saved, firstOpen, fd, generation, head, bufferStart, skipping, committed, queue, fileHistory>>

FillBufferEnd ==
    /\ pc = "fill" /\ Unread = NoCells
    /\ pc' = "end"
    /\ UNCHANGED <<world, saved, reader, queue, fileHistory>>

PathReplaced == path # NoFile /\ path # fd
HasPart == buffer # NoCells /\ ~skipping

\* MUTANT of SeeRotation: the file is let go at once
SeeRotationNot ==
    /\ pc = "end" /\ PathReplaced /\ ~rotationSeen
    /\ rotationSeen' = TRUE
    /\ UNCHANGED <<world, saved, firstOpen, fd, generation, head, reading, waited, committed, pc, queue, fileHistory>>

SeeRotation ==
    /\ pc = "end" /\ PathReplaced /\ ~rotationSeen
    /\ rotationSeen' = TRUE
    /\ pc' = "round"
    /\ UNCHANGED <<world, saved, firstOpen, fd, generation, head, reading, waited, committed, queue, fileHistory>>

\* A last line which did not grow, or the last one of a file which is finished
EmitRemainder ==
    /\ buffer' = NoCells /\ bufferStart' = bufferStart + Len(buffer) /\ waited' = FALSE
    /\ Return(buffer, bufferStart')
    /\ UNCHANGED <<world, saved, firstOpen, fd, generation, head, skipping, committed, fileHistory>>

ReturnLast ==
    /\ pc = "end" /\ PathReplaced /\ rotationSeen /\ HasPart
    /\ EmitRemainder /\ UNCHANGED rotationSeen

CloseFile ==
    /\ pc = "end" /\ PathReplaced /\ rotationSeen /\ ~HasPart
    /\ fd' = NoFile /\ buffer' = NoCells /\ bufferStart' = 0 /\ skipping' = FALSE
    /\ rotationSeen' = FALSE /\ waited' = FALSE /\ head' = NoCells
    /\ pc' = "read"
    /\ UNCHANGED <<world, saved, firstOpen, generation, committed, queue, fileHistory>>

WaitForMore ==
    /\ pc = "end" /\ ~PathReplaced
    /\ rotationSeen' = FALSE
    /\ waited' = (waited \/ (IncompleteLines /\ HasPart))
    /\ pc' = "round"
    /\ UNCHANGED <<world, saved, firstOpen, fd, generation, head, reading, committed, queue, fileHistory>>

ReturnIncomplete ==
    /\ pc = "end" /\ ~PathReplaced /\ waited /\ HasPart
    /\ rotationSeen' = FALSE
    /\ EmitRemainder

ReadLine ==
    \/ \E ok \in BOOLEAN : OpenFile(ok) \/ CheckFileChanged(ok)
    \/ NothingToOpen \/ ExtractLine \/ CheckFile \/ FillBuffer \/ FillBufferEnd
    \/ SeeRotation \/ ReturnLast \/ CloseFile \/ WaitForMore \/ ReturnIncomplete
=============================================================================
