-------------------------- MODULE FileInput_proofs --------------------------
(***************************************************************************)
(* The file input loses no line, skips none after a crash, keeps their     *)
(* order, and hands out no line with a hole: for any number of files, of   *)
(* lines and of pieces, any limits, and whenever the file is written,      *)
(* moved away, emptied or created again.                                   *)
(***************************************************************************)
EXTENDS FileInput, TLAPS, WellFoundedInduction

-----------------------------------------------------------------------------
(* Rows of cells: the content of a file, and parts of it *)

Cell == [line : Nat, k : Nat]

\* The pieces of a line follow each other, and the next line comes behind its new line
Chain(s, i, j) ==
    IF s[i].line = s[j].line THEN s[i].k # 0 /\ (s[j].k = 0 \/ s[j].k = s[i].k + (j - i))
    ELSE s[i].line < s[j].line /\ \E m \in i..(j - 1) : s[m] = NewLine(s[i].line)
Shape(s) == \A i, j \in DOMAIN s : i < j => Chain(s, i, j)

\* b is the part of s behind n
Part(s, n, b) == n + Len(b) <= Len(s) /\ \A i \in DOMAIN b : b[i] = s[n + i]

\* s starts with h
Starts(s, h) == Part(s, 0, h)

\* s is empty, or starts with something else than h
Other(s, h) == h # << >> /\ (s = << >> \/ s[1] # h[1])

LEMMA CellType ==
    ASSUME NEW c \in Cell
    PROVE  /\ c.line \in Nat /\ c.k \in Nat
           /\ \A l \in Nat : (c = NewLine(l)) <=> (c.line = l /\ c.k = 0)
BY DEF Cell, NewLine

LEMMA SeqEq ==
    ASSUME NEW S, NEW s \in Seq(S), NEW t \in Seq(S), Len(s) = Len(t),
           \A i \in 1..Len(s) : s[i] = t[i]
    PROVE  s = t
OBVIOUS

LEMMA PrefixIs ==
    ASSUME NEW S, NEW s \in Seq(S), NEW n \in Nat
    PROVE  /\ Prefix(s, n) \in Seq(S)
           /\ Len(Prefix(s, n)) = Min2(n, Len(s))
           /\ \A i \in 1..Len(Prefix(s, n)) : Prefix(s, n)[i] = s[i]
<1>1. Min2(n, Len(s)) \in Nat /\ Min2(n, Len(s)) <= Len(s)
    BY DEF Min2
<1> DEFINE m == Min2(n, Len(s))
<1> HIDE DEF m
<1>2. m \in Nat /\ m <= Len(s)
    BY <1>1 DEF m
<1>3. /\ SubSeq(s, 1, m) \in Seq(S) /\ Len(SubSeq(s, 1, m)) = m
      /\ \A i \in 1..m : SubSeq(s, 1, m)[i] = s[i]
    BY <1>2
<1> QED
    BY <1>3 DEF Prefix, m

LEMMA BehindIs ==
    ASSUME NEW S, NEW s \in Seq(S), NEW n \in Nat, n <= Len(s)
    PROVE  /\ Behind(s, n) \in Seq(S)
           /\ Len(Behind(s, n)) = Len(s) - n
           /\ \A i \in 1..(Len(s) - n) : Behind(s, n)[i] = s[n + i]
BY DEF Behind

LEMMA BehindNothing ==
    ASSUME NEW S, NEW s \in Seq(S), NEW n \in Nat
    PROVE  Behind(s, n) \in Seq(S) /\ (Behind(s, n) = << >> <=> n >= Len(s))
<1>1. CASE n <= Len(s)
    BY <1>1, BehindIs
<1>2. CASE n > Len(s)
    <2>1. SubSeq(s, n + 1, Len(s)) = << >>
        BY <1>2
    <2> QED
        BY <1>2, <2>1 DEF Behind
<1> QED
    BY <1>1, <1>2

LEMMA InIs ==
    ASSUME NEW S, NEW s \in Seq(S), NEW c
    PROVE  c \in In(s) <=> \E i \in 1..Len(s) : c = s[i]
BY DEF In

\* The comparison of a fingerprint with the start of a file
LEMMA StartsPrefix ==
    ASSUME NEW s \in Seq(Cell), NEW h \in Seq(Cell)
    PROVE  (Prefix(s, Len(h)) = h) <=> Starts(s, h)
<1> DEFINE p == Prefix(s, Len(h))
<1>1. /\ p \in Seq(Cell) /\ Len(p) = Min2(Len(h), Len(s))
      /\ \A i \in 1..Len(p) : p[i] = s[i]
    <2>1. Len(h) \in Nat
        OBVIOUS
    <2> DEFINE n == Len(h)
    <2>2. n \in Nat /\ p = Prefix(s, n)
        BY <2>1
    <2> HIDE DEF n
    <2>3. /\ Prefix(s, n) \in Seq(Cell) /\ Len(Prefix(s, n)) = Min2(n, Len(s))
          /\ \A i \in 1..Len(Prefix(s, n)) : Prefix(s, n)[i] = s[i]
        BY <2>2, PrefixIs, Zenon
    <2> QED
        BY <2>2, <2>3, Zenon DEF n
<1> HIDE DEF p
<1>2. ASSUME p = h PROVE Starts(s, h)
    BY <1>1, <1>2 DEF Min2, Starts, Part
<1>3. ASSUME Starts(s, h) PROVE p = h
    <2>1. Len(h) <= Len(s) /\ \A i \in 1..Len(h) : h[i] = s[i]
        BY <1>3 DEF Starts, Part
    <2>2. Len(p) = Len(h)
        BY <1>1, <2>1 DEF Min2
    <2> QED
        BY <1>1, <2>1, <2>2, SeqEq
<1> QED
    BY <1>2, <1>3 DEF p

LEMMA StartsOfPrefix ==
    ASSUME NEW s \in Seq(Cell), NEW n \in Nat
    PROVE  Starts(s, Prefix(s, n))
BY PrefixIs DEF Starts, Part, Min2

LEMMA OtherNotStarts ==
    ASSUME NEW s \in Seq(Cell), NEW h \in Seq(Cell), Other(s, h)
    PROVE  ~Starts(s, h)
BY DEF Other, Starts, Part

\* What is written behind the content of a file
LEMMA AppendIs ==
    ASSUME NEW S, NEW s \in Seq(S), NEW c \in S
    PROVE  /\ Append(s, c) \in Seq(S) /\ Len(Append(s, c)) = Len(s) + 1
           /\ \A i \in 1..Len(s) : Append(s, c)[i] = s[i]
           /\ Append(s, c)[Len(s) + 1] = c
OBVIOUS

LEMMA PartAppend ==
    ASSUME NEW s \in Seq(Cell), NEW c \in Cell, NEW n \in Nat, NEW b \in Seq(Cell), Part(s, n, b)
    PROVE  Part(Append(s, c), n, b)
BY DEF Part

LEMMA OtherAppend ==
    ASSUME NEW s \in Seq(Cell), NEW c \in Cell, NEW h \in Seq(Cell), Other(s, h), c # h[1]
    PROVE  Other(Append(s, c), h)
BY DEF Other

\* The next cell which the writer can write behind c
Successor(c, d) ==
    IF c.k = 0 THEN d.line = c.line + 1 ELSE d.line = c.line /\ d.k \in {0, c.k + 1}

LEMMA ShapeAppend ==
    ASSUME NEW s \in Seq(Cell), Shape(s), NEW c \in Cell, s # << >> => Successor(s[Len(s)], c)
    PROVE  Shape(Append(s, c))
<1> DEFINE t == Append(s, c)
<1>1. t \in Seq(Cell) /\ Len(t) = Len(s) + 1 /\ (\A i \in 1..Len(s) : t[i] = s[i]) /\ t[Len(s) + 1] = c
    OBVIOUS
<1> HIDE DEF t
<1> SUFFICES ASSUME NEW i \in 1..Len(t), NEW j \in 1..Len(t), i < j
             PROVE  Chain(t, i, j)
    BY <1>1 DEF Shape, t
<1>2. CASE j <= Len(s)
    <2>1. i \in 1..Len(s) /\ j \in 1..Len(s) /\ t[i] = s[i] /\ t[j] = s[j]
        BY <1>1, <1>2
    <2>2. \A m \in i..(j - 1) : t[m] = s[m]
        BY <1>1, <1>2, <2>1
    <2> QED
        BY <2>1, <2>2, <1>2 DEF Shape, Chain
<1>3. CASE j = Len(s) + 1
    <2> DEFINE n == Len(s)
               l == s[n]
    <2>1. n \in 1..Len(s) /\ i \in 1..n /\ t[j] = c /\ t[i] = s[i] /\ t[n] = l /\ Successor(l, c)
        BY <1>1, <1>3
    <2>2. /\ l \in Cell /\ s[i] \in Cell
          /\ l.line \in Nat /\ l.k \in Nat /\ c.line \in Nat /\ c.k \in Nat /\ s[i].line \in Nat /\ s[i].k \in Nat
        <3>1. l \in Cell /\ s[i] \in Cell
            BY <2>1
        <3> QED
            BY <3>1, CellType
    <2>3. i < n => IF s[i].line = l.line THEN s[i].k # 0 /\ (l.k = 0 \/ l.k = s[i].k + (n - i))
                   ELSE s[i].line < l.line /\ \E m \in i..(n - 1) : s[m] = NewLine(s[i].line)
        BY <2>1 DEF Shape, Chain
    <2>4. ASSUME NEW m \in i..n PROVE t[m] = s[m] /\ m \in i..(j - 1)
        BY <1>1, <1>3, <2>1
    <2> HIDE DEF n, l
    <2>5. CASE l.k = 0
        <3>1. l = NewLine(l.line) /\ c.line = l.line + 1
            BY <2>1, <2>2, <2>5, CellType DEF Successor
        <3>2. n \in i..n
            BY <2>1
        <3>3. CASE i = n
            BY <3>1, <3>2, <3>3, <2>1, <2>2, <2>4 DEF Chain
        <3>4. CASE i < n
            <4>1. s[i].line <= l.line
                BY <3>4, <2>2, <2>3
            <4>2. \E m \in i..n : s[m] = NewLine(s[i].line)
                <5>1. CASE s[i].line = l.line
                    BY <5>1, <3>1, <3>2 DEF l
                <5>2. CASE s[i].line # l.line
                    BY <5>2, <3>4, <2>1, <2>3
                <5> QED
                    BY <5>1, <5>2
            <4> QED
                <5>1. t[i] = s[i] /\ t[j] = c /\ s[i].line < c.line
                    BY <4>1, <3>1, <2>1, <2>2
                <5>2. \E m \in i..(j - 1) : t[m] = NewLine(t[i].line)
                    BY <4>2, <2>4, <5>1
                <5>3. s[i].line # c.line
                    BY <5>1, <2>2
                <5> QED
                    BY <5>1, <5>2, <5>3 DEF Chain
        <3> QED
            BY <3>3, <3>4, <2>1
    <2>6. CASE l.k # 0
        <3>1. c.line = l.line /\ c.k \in {0, l.k + 1}
            BY <2>1, <2>6 DEF Successor
        <3>2. CASE i = n
            BY <3>1, <3>2, <2>1, <2>2, <2>6, <1>3 DEF n, l, Chain
        <3>3. CASE i < n /\ s[i].line = l.line
            <4>1. s[i].k # 0 /\ l.k = s[i].k + (n - i)
                BY <3>3, <2>3, <2>6
            <4>2. j = n + 1
                BY <1>3 DEF n
            <4>3. l.k + 1 = s[i].k + (j - i)
                <5>1. n \in Int /\ i \in Int /\ s[i].k \in Int /\ l.k \in Int
                    BY <2>1, <2>2
                <5> QED
                    BY <4>1, <4>2, <5>1
            <4> QED
                BY <3>1, <3>3, <4>1, <4>3, <2>1 DEF Chain
        <3>4. CASE i < n /\ s[i].line # l.line
            <4>1. PICK m \in i..(n - 1) : s[m] = NewLine(s[i].line)
                BY <3>4, <2>3
            <4>2. m \in i..n
                BY <4>1, <2>1
            <4> QED
                BY <4>1, <4>2, <3>1, <3>4, <2>1, <2>2, <2>3, <2>4 DEF Chain
        <3> QED
            BY <3>2, <3>3, <3>4, <2>1
    <2> QED
        BY <2>5, <2>6
<1> QED
    BY <1>1, <1>2, <1>3

LEMMA ShapePart ==
    ASSUME NEW s \in Seq(Cell), Shape(s), NEW n \in Nat, NEW b \in Seq(Cell), Part(s, n, b)
    PROVE  Shape(b)
<1> SUFFICES ASSUME NEW i \in 1..Len(b), NEW j \in 1..Len(b), i < j
             PROVE  Chain(b, i, j)
    BY DEF Shape
<1>1. n + i \in 1..Len(s) /\ n + j \in 1..Len(s) /\ n + i < n + j /\ (n + j) - (n + i) = j - i
    BY DEF Part
<1>2. b[i] = s[n + i] /\ b[j] = s[n + j]
    BY DEF Part
<1>3. IF b[i].line = b[j].line THEN b[i].k # 0 /\ (b[j].k = 0 \/ b[j].k = b[i].k + (j - i))
      ELSE b[i].line < b[j].line /\ \E m \in (n + i)..(n + j - 1) : s[m] = NewLine(b[i].line)
    <2>1. s \in Seq(Cell) /\ n + i \in DOMAIN s /\ n + j \in DOMAIN s
        BY <1>1
    <2>2. Chain(s, n + i, n + j)
        BY <1>1, <2>1 DEF Shape
    <2> HIDE DEF Shape
    <2> QED
        BY <1>1, <1>2, <2>2 DEF Chain
<1>4. ASSUME NEW m \in (n + i)..(n + j - 1), s[m] = NewLine(b[i].line)
      PROVE  m - n \in i..(j - 1) /\ b[m - n] = NewLine(b[i].line)
    <2>1. m - n \in i..(j - 1) /\ m - n \in 1..Len(b) /\ n + (m - n) = m
        OBVIOUS
    <2>2. b[m - n] = s[n + (m - n)]
        BY <2>1 DEF Part
    <2> QED
        BY <1>4, <2>1, <2>2
<1> QED
    BY <1>3, <1>4 DEF Chain

LEMMA PartOfPart ==
    ASSUME NEW s \in Seq(Cell), NEW n \in Nat, NEW b \in Seq(Cell), Part(s, n, b), NEW d \in Nat, d <= Len(b)
    PROVE  Part(s, n + d, Behind(b, d))
<1> DEFINE r == Behind(b, d)
<1>1. r \in Seq(Cell) /\ Len(r) = Len(b) - d /\ \A i \in 1..Len(r) : r[i] = b[d + i]
    BY BehindIs
<1> HIDE DEF r
<1>2. (n + d) + Len(r) <= Len(s)
    BY <1>1 DEF Part
<1>3. ASSUME NEW i \in 1..Len(r) PROVE r[i] = s[(n + d) + i]
    <2>1. d + i \in 1..Len(b) /\ n + (d + i) = (n + d) + i
        BY <1>1
    <2>2. b[d + i] = s[n + (d + i)]
        BY <2>1 DEF Part
    <2> QED
        BY <1>1, <2>1, <2>2
<1>4. Part(s, n + d, r)
    <2>1. DOMAIN r = 1..Len(r)
        BY <1>1
    <2> QED
        BY <1>2, <1>3, <2>1, Zenon DEF Part
<1> QED
    BY <1>4 DEF r
-----------------------------------------------------------------------------
(* The inductive invariant *)

\* What the writer has written until now; what comes later is not old
Old(c) == c.line < line \/ (c.line = line /\ (part = 0 \/ (c.k # 0 /\ c.k <= part)))
AllOld(S) == \A c \in S : Old(c)
InQueue == UNION {In(queue[i].text) : i \in DOMAIN queue}

QueueLine == [text : Seq(Cell), gen : Nat, end : Nat]

FilesType ==
    /\ content \in [Inodes -> Seq(Cell)]
    /\ path \in Inodes \cup {NoFile} /\ writing \in Inodes \cup {NoFile}
    /\ line \in Nat /\ part \in Nat /\ written \subseteq Cell

ReaderType ==
    /\ saved \in [inode : Inodes \cup {NoFile}, offset : Nat, head : Seq(Cell)]
    /\ firstOpen \in BOOLEAN /\ fd \in Inodes \cup {NoFile} /\ generation \in Nat
    /\ head \in Seq(Cell) /\ buffer \in Seq(Cell) /\ bufferStart \in Nat
    /\ skipping \in BOOLEAN /\ rotationSeen \in BOOLEAN /\ committed \in Nat
    /\ queue \in Seq(QueueLine)
    /\ slot \in [pending : BOOLEAN, at : Positions] /\ retry \in Positions

\* The files are rows of lines, and the writer goes on at the end of its file
FilesOK ==
    /\ \A i \in Inodes : Shape(content[i])
    /\ writing # NoFile /\ content[writing] # << >> =>
           content[writing][Len(content[writing])] = [line |-> line, k |-> part]
    /\ path # NoFile /\ path # writing => content[path] = << >>
    /\ \A c \in written : c.k # 0

OldOK ==
    /\ \A i \in Inodes : AllOld(In(content[i]))
    /\ AllOld(In(head)) /\ AllOld(In(saved.head)) /\ AllOld(In(buffer)) /\ AllOld(InQueue)
    /\ AllOld(written)

\* What is there when no file is open, and where the thread looks at one
Standing ==
    /\ pc = "down" => firstOpen
    /\ firstOpen => fd = NoFile /\ generation = 0 /\ queue = << >> /\ slot.at = Nowhere
                    /\ ~slot.pending /\ retry = Nowhere
    /\ ~firstOpen => generation > 0
    /\ fd = NoFile => /\ head = << >> /\ buffer = << >> /\ bufferStart = 0
                      /\ ~skipping /\ ~rotationSeen /\ pc \notin {"fill", "end"}
                      /\ \A i \in DOMAIN queue : queue[i].gen <= generation
                      /\ slot.at.gen <= generation /\ retry.gen <= generation
    /\ rotationSeen => path # fd
    /\ pc \in {"fill", "end"} => /\ \A i \in DOMAIN buffer : buffer[i].k # 0
                                 /\ Len(buffer) <= MaxLineLength
                                 /\ skipping => buffer = << >>

\* Positions are those of the file which is read, or of one before it
Positioned(p) == p.gen < generation \/ (p.gen = generation /\ p.end <= bufferStart)
PositionsOK ==
    fd # NoFile => /\ \A i \in DOMAIN queue : Positioned(queue[i])
                   /\ Positioned(slot.at) /\ Positioned(retry)

\* The reader has a part of its file, or the file was emptied and starts with something else
Same == Starts(content[fd], head) /\ Part(content[fd], bufferStart, buffer)
Emptied == Other(content[fd], head)

SkipsSame == skipping => bufferStart > 0 /\ content[fd][bufferStart].k >= MaxLineLength
SkipsEmptied == skipping /\ buffer # << >> => buffer[1].k = 0 \/ buffer[1].k > MaxLineLength

Reading ==
    fd # NoFile /\ "mixed" \notin spoiled =>
        \/ Same /\ SkipsSame
        \/ /\ Emptied /\ SkipsEmptied /\ Shape(buffer)
           /\ pc # "fill" /\ ~(rotationSeen /\ pc = "end")

\* What is owed of the first m cells of the file is in the first n lines of the queue
Covered(m, n) ==
    \A i \in 1..m : content[fd][i] \in Owed => \E j \in 1..n : content[fd][i] \in In(queue[j].text)

QueueCovers ==
    fd # NoFile /\ spoiled = {} /\ Same =>
        /\ Covered(bufferStart, Len(queue))
        /\ \A n \in DOMAIN queue : queue[n].gen = generation => Covered(queue[n].end, n)
PositionsCovered ==
    fd # NoFile /\ spoiled = {} /\ Same =>
        /\ slot.at.gen = generation => Covered(slot.at.end, 0)
        /\ retry.gen = generation => Covered(retry.end, 0)

\* A file which was moved away is read to its end before it is closed
EndSeen ==
    fd # NoFile /\ spoiled = {} /\ Same /\ rotationSeen /\ pc = "end" =>
        \A i \in DOMAIN content[fd] : i > bufferStart + Len(buffer) => content[fd][i] \notin Owed

\* When the file was emptied, only the whole lines of the buffer are still owed
EmptiedCovers ==
    fd # NoFile /\ spoiled = {} /\ Emptied =>
        \A c \in In(buffer) : c \in Owed => Queued(c) \/ NewLine(c.line) \in In(buffer)

\* A position is the end of a line which was delivered, of which a part is at p
LineEnds(p, m) == p \in 1..m /\ content[fd][p].line = content[fd][m].line
Delivered(m) == m > 0 => \E p \in 1..m : LineEnds(p, m) /\ content[fd][p] \in delivered
LinesEnd ==
    fd # NoFile /\ spoiled = {} /\ Same =>
        /\ \A n \in DOMAIN queue : queue[n].gen = generation =>
               \E p \in 1..queue[n].end :
                   LineEnds(p, queue[n].end) /\ content[fd][p] \in In(queue[n].text)
        /\ slot.at.gen = generation => Delivered(slot.at.end)
        /\ retry.gen = generation => Delivered(retry.end)

\* Where the pieces are which are owed
Kept ==
    spoiled = {} => \A c \in Owed :
        IF firstOpen THEN path # NoFile /\ c \in In(content[path])
        ELSE Queued(c) \/ c \in In(buffer) \/ (fd # NoFile /\ c \in In(content[fd])) \/ InNextFile(c)

\* The state file is one of its file, or the file starts with something else
StateSame == saved.offset <= Len(content[saved.inode]) /\ Starts(content[saved.inode], saved.head)
StateOK ==
    saved.inode # NoFile /\ saved.offset > 0 /\ spoiled \cap {"mixed", "unseen"} = {} =>
        StateSame \/ Other(content[saved.inode], saved.head)
StateCovers ==
    saved.inode # NoFile /\ spoiled = {} /\ StateSame =>
        \A i \in 1..saved.offset : content[saved.inode][i] \notin Owed
StateDelivered ==
    saved.inode # NoFile /\ saved.offset > 0 /\ spoiled = {} /\ StateSame /\ ~StartAtEnd =>
        \E i \in 1..saved.offset :
            /\ content[saved.inode][i].line = content[saved.inode][saved.offset].line
            /\ content[saved.inode][i] \in delivered

\* The lines come in the order in which they were written
NotAfter(S, T) == \A c \in S, d \in T : c.line <= d.line
QueueOrder == "mixed" \notin spoiled =>
    \A i, j \in DOMAIN queue : i < j => NotAfter(In(queue[i].text), In(queue[j].text))
FileOrder ==
    fd # NoFile /\ "mixed" \notin spoiled =>
        /\ Same => \A i \in DOMAIN content[fd] : i > bufferStart => NotAfter(InQueue, {content[fd][i]})
        /\ Emptied => /\ NotAfter(InQueue, In(buffer))
                      /\ NotAfter(InQueue, In(content[fd])) /\ NotAfter(In(buffer), In(content[fd]))
NextOrder ==
    "mixed" \notin spoiled /\ ~firstOpen /\ path # NoFile /\ path # fd =>
        /\ NotAfter(InQueue, In(content[path])) /\ NotAfter(In(buffer), In(content[path]))
        /\ fd # NoFile => NotAfter(In(content[fd]), In(content[path]))

\* What was committed is saved, or nothing of the file was handed over yet
Uncommitted(p) == p.gen = generation => p.end > committed
CommitOK ==
    /\ ~slot.pending => retry \in {Nowhere, slot.at}
    /\ fd # NoFile =>
        /\ \/ saved.inode = fd /\ saved.offset = committed
           \/ /\ \A i \in DOMAIN queue : Uncommitted(queue[i])
              /\ Uncommitted(slot.at) /\ Uncommitted(retry)
        /\ committed <= bufferStart
        /\ ~slot.pending /\ retry = Nowhere /\ slot.at.gen = generation => slot.at.end <= committed

\* A line of the queue has no hole
QueueWhole == "mixed" \notin spoiled => WholeLines

FInv ==
    /\ FilesType /\ ReaderType /\ FilesOK /\ OldOK /\ Standing /\ PositionsOK /\ Reading
    /\ QueueCovers /\ PositionsCovered /\ EndSeen /\ EmptiedCovers /\ LinesEnd /\ Kept
    /\ StateOK /\ StateCovers /\ StateDelivered
    /\ QueueOrder /\ FileOrder /\ NextOrder /\ CommitOK /\ QueueWhole

-----------------------------------------------------------------------------
(* What follows from the invariant *)

LEMMA Limits == MaxLineLength \in Nat \ {0} /\ HeadMax \in Nat \ {0} /\ ChunkMax \in Nat \ {0}
BY FileAssumption

LEMMA NoFileIsNone == NoFile \notin Inodes
BY InodesAssumption

LEMMA FileType ==
    ASSUME FilesType, NEW i \in Inodes
    PROVE  content[i] \in Seq(Cell)
BY DEF FilesType

\* A file of the reader is a file
LEMMA OpenType ==
    ASSUME FilesType, ReaderType, fd # NoFile
    PROVE  fd \in Inodes /\ content[fd] \in Seq(Cell)
BY DEF FilesType, ReaderType

LEMMA EmptiedNotSame ==
    ASSUME FilesType, ReaderType, fd # NoFile, Emptied
    PROVE  ~Same
BY OpenType, OtherNotStarts DEF Emptied, Same, ReaderType

\* What the reader compares tells the two cases
LEMMA WillChangeIs ==
    ASSUME FilesType, ReaderType, Reading, fd # NoFile, "mixed" \notin spoiled
    PROVE  WillChange <=> ~Same
<1>1. content[fd] \in Seq(Cell) /\ head \in Seq(Cell) /\ buffer \in Seq(Cell)
    BY OpenType DEF ReaderType
<1>2. (Prefix(content[fd], Len(head)) = head) <=> Starts(content[fd], head)
    BY <1>1, StartsPrefix
<1>3. CASE Same
    <2>1. bufferStart + Len(buffer) <= Len(content[fd]) /\ Starts(content[fd], head)
        BY <1>3 DEF Same, Part
    <2>2. bufferStart + Len(buffer) \in Nat /\ Len(content[fd]) \in Nat
        BY <1>1 DEF ReaderType
    <2>3. ~(Len(content[fd]) < bufferStart + Len(buffer))
        BY <2>1, <2>2
    <2> QED
        BY <1>2, <1>3, <2>1, <2>3 DEF WillChange
<1>4. CASE ~Same
    <2>1. Emptied
        BY <1>4 DEF Reading
    <2>2. ~Starts(content[fd], head)
        BY <1>1, <2>1, OtherNotStarts DEF Emptied
    <2> QED
        BY <1>2, <1>4, <2>2 DEF WillChange
<1> QED
    BY <1>3, <1>4

LEMMA OwedIs ==
    ASSUME FilesType, FilesOK, NEW c \in Owed
    PROVE  /\ c \in Cell /\ c \in written /\ c.k > 0 /\ c.k <= MaxLineLength
           /\ c \notin delivered /\ c \notin gone
BY DEF FilesType, FilesOK, Owed, Cell

LEMMA QueueType ==
    ASSUME ReaderType, NEW i \in DOMAIN queue
    PROVE  /\ queue[i] \in QueueLine
           /\ queue[i].text \in Seq(Cell) /\ queue[i].gen \in Nat /\ queue[i].end \in Nat
<1>1. queue \in Seq(QueueLine)
    BY DEF ReaderType
<1>2. queue[i] \in QueueLine
    BY <1>1
<1> QED
    BY <1>2 DEF QueueLine

\* A row of cells which is left alone
LEMMA CoveredAgain ==
    ASSUME NEW m \in Nat, NEW n \in Nat, Covered(m, n), UNCHANGED <<queue, fd>>,
           \A i \in 1..m : content'[fd][i] = content[fd][i] /\ (content[fd][i] \in Owed' => content[fd][i] \in Owed)
    PROVE  Covered(m, n)'
BY DEF Covered

-----------------------------------------------------------------------------
(* The writer writes a cell *)

Quiet == UNCHANGED <<slot, retry, stopping, delivered, setting>>

Writes(c) ==
    /\ c \in Cell /\ c = [line |-> line', k |-> part'] /\ line' \in Nat /\ part' \in Nat
    /\ ~Old(c) /\ Old(c)' /\ \A d \in Cell : Old(d) => Old(d)' /\ d.line <= c.line
    /\ writing \in Inodes /\ content' = [content EXCEPT ![writing] = Append(@, c)]
    /\ content[writing] # << >> => Successor(content[writing][Len(content[writing])], c)
    /\ \/ written' = written /\ gone' = gone
       \/ c.k # 0 /\ written' = written \cup {c} /\ gone' = IF TooLate THEN gone \cup {c} ELSE gone
    /\ UNCHANGED <<path, writing, saved, reader, pc, queue, spoiled>>

LEMMA WritesCell ==
    ASSUME FilesType, FilesOK, WriteText \/ WriteNewLine
    PROVE  \E c : Writes(c)
<1>0. PICK c : c = [line |-> line', k |-> part']
    OBVIOUS
<1>1. CASE WriteText
    <2>1. line' = (IF part = 0 THEN line + 1 ELSE line) /\ part' = part + 1
        BY <1>1 DEF WriteText, ThisLine
    <2>2. line' \in Nat /\ part' \in Nat /\ part' # 0 /\ c \in Cell /\ c.line = line' /\ c.k = part'
        BY <1>0, <2>1 DEF FilesType, Cell
    <2>3. Text(line', part') = c
        BY <1>0 DEF Text
    <2>4. /\ content' = [content EXCEPT ![writing] = Append(@, c)] /\ writing # NoFile
          /\ UNCHANGED <<path, writing, saved, reader, pc, queue, spoiled>>
          /\ written' = written \cup {c} /\ gone' = IF TooLate THEN gone \cup {c} ELSE gone
        BY <1>1, <2>3 DEF WriteText, Put
    <2>5. writing \in Inodes
        BY <2>4 DEF FilesType
    <2>6. ~Old(c) /\ Old(c)'
        BY <2>1, <2>2 DEF Old, FilesType
    <2>7. ASSUME NEW d \in Cell, Old(d) PROVE Old(d)' /\ d.line <= c.line
        BY <2>1, <2>2, <2>7, CellType DEF Old, FilesType
    <2>8. content[writing] # << >> => Successor(content[writing][Len(content[writing])], c)
        BY <2>1, <2>2, <2>4, <2>5 DEF FilesOK, Successor, FilesType
    <2>9. Writes(c)
        BY <1>0, <2>2, <2>4, <2>5, <2>6, <2>7, <2>8 DEF Writes
    <2> QED
        BY <2>9
<1>2. CASE WriteNewLine
    <2>1. line' = (IF part = 0 THEN line + 1 ELSE line) /\ part' = 0
        BY <1>2 DEF WriteNewLine, ThisLine
    <2>2. line' \in Nat /\ part' \in Nat /\ c \in Cell /\ c.line = line' /\ c.k = 0
        BY <1>0, <2>1 DEF FilesType, Cell
    <2>3. NewLine(line') = c
        BY <1>0, <2>1 DEF NewLine
    <2>4. /\ content' = [content EXCEPT ![writing] = Append(@, c)] /\ writing # NoFile
          /\ UNCHANGED <<path, writing, saved, reader, pc, queue, spoiled>>
          /\ written' = written /\ gone' = gone
        BY <1>2, <2>3 DEF WriteNewLine, Put
    <2>5. writing \in Inodes
        BY <2>4 DEF FilesType
    <2>6. ~Old(c) /\ Old(c)'
        BY <2>1, <2>2 DEF Old, FilesType
    <2>7. ASSUME NEW d \in Cell, Old(d) PROVE Old(d)' /\ d.line <= c.line
        BY <2>1, <2>2, <2>7, CellType DEF Old, FilesType
    <2>8. content[writing] # << >> => Successor(content[writing][Len(content[writing])], c)
        BY <2>1, <2>2, <2>4, <2>5 DEF FilesOK, Successor, FilesType
    <2>9. Writes(c)
        BY <1>0, <2>2, <2>4, <2>5, <2>6, <2>7, <2>8 DEF Writes
    <2> QED
        BY <2>9
<1> QED
    BY <1>1, <1>2

\* Every file is what it was, and the cell may be behind it
LEMMA FilesGrow ==
    ASSUME FilesType, NEW c, Writes(c), NEW i \in Inodes
    PROVE  /\ content'[i] \in Seq(Cell) /\ Len(content[i]) <= Len(content'[i])
           /\ \A n \in 1..Len(content[i]) : content'[i][n] = content[i][n]
           /\ \A n \in 1..Len(content'[i]) : n > Len(content[i]) =>
                  i = writing /\ n = Len(content[i]) + 1 /\ content'[i][n] = c
           /\ content'[i] = content[i] \/ (i = writing /\ content'[i] = Append(content[i], c))
<1>1. content[i] \in Seq(Cell) /\ c \in Cell
    BY DEF FilesType, Writes
<1>2. CASE i = writing
    <2>1. content'[i] = Append(content[i], c)
        BY <1>2 DEF Writes, FilesType
    <2> QED
        BY <1>1, <1>2, <2>1, AppendIs
<1>3. CASE i # writing
    <2>1. content'[i] = content[i]
        BY <1>3 DEF Writes, FilesType
    <2> QED
        BY <1>1, <2>1
<1> QED
    BY <1>2, <1>3

LEMMA GrowKeeps ==
    ASSUME FilesType, NEW c, Writes(c), NEW i \in Inodes
    PROVE  /\ \A n \in Nat, b \in Seq(Cell) : Part(content[i], n, b) => Part(content'[i], n, b)
           /\ \A h \in Seq(Cell) : AllOld(In(h)) /\ Other(content[i], h) => Other(content'[i], h)
<1>1. content[i] \in Seq(Cell) /\ c \in Cell
    BY DEF FilesType, Writes
<1>2. content'[i] = content[i] \/ content'[i] = Append(content[i], c)
    BY FilesGrow
<1>3. ASSUME NEW h \in Seq(Cell), AllOld(In(h)), Other(content[i], h) PROVE Other(content'[i], h)
    <2>1. h[1] \in In(h)
        BY <1>3 DEF In, Other
    <2>2. c # h[1]
        BY <1>3, <2>1 DEF AllOld, Writes
    <2> QED
        BY <1>1, <1>2, <1>3, <2>2, OtherAppend
<1> QED
    BY <1>1, <1>2, <1>3, PartAppend

LEMMA WritesSame ==
    ASSUME FilesType, ReaderType, OldOK, Reading, NEW c, Writes(c), fd # NoFile, "mixed" \notin spoiled
    PROVE  (Same => Same') /\ (Emptied => Emptied') /\ (Same' => Same) /\ (Emptied' => Emptied)
<1>1. fd \in Inodes /\ content[fd] \in Seq(Cell) /\ content'[fd] \in Seq(Cell)
    BY OpenType, FilesGrow
<1>2. UNCHANGED <<fd, head, buffer, bufferStart, skipping>>
    BY DEF Writes, reader, reading
<1>3. head \in Seq(Cell) /\ buffer \in Seq(Cell) /\ bufferStart \in Nat /\ 0 \in Nat /\ AllOld(In(head))
    BY DEF ReaderType, OldOK
<1>4. Same => Same'
    BY <1>1, <1>2, <1>3, GrowKeeps DEF Same, Starts
<1>5. Emptied => Emptied'
    BY <1>1, <1>2, <1>3, GrowKeeps DEF Emptied
<1>6. ~(Same' /\ Emptied')
    BY <1>1, <1>2, <1>3, OtherNotStarts DEF Same, Emptied
<1>7. Same \/ Emptied
    BY DEF Reading
<1> QED
    BY <1>4, <1>5, <1>6, <1>7

\* Of the new cell something is owed only when it is not too late
LEMMA WritesOwed ==
    ASSUME FilesType, FilesOK, OldOK, NEW c, Writes(c), Quiet
    PROVE  \A d \in Owed' : d \in Owed \/ (d = c /\ c.k # 0 /\ ~TooLate)
BY DEF Owed, Writes, Quiet

LEMMA InCell ==
    ASSUME NEW s \in Seq(Cell)
    PROVE  In(s) \subseteq Cell
BY InIs

LEMMA InQueueCell ==
    ASSUME ReaderType
    PROVE  InQueue \subseteq Cell
BY QueueType, InCell DEF InQueue

LEMMA InFiles ==
    ASSUME FilesType, NEW c, Writes(c), NEW i \in Inodes
    PROVE  /\ In(content[i]) \subseteq In(content'[i])
           /\ \A d \in In(content'[i]) : d \in In(content[i]) \/ (d = c /\ i = writing)
           /\ i = writing => c \in In(content'[i])
<1>1. content[i] \in Seq(Cell) /\ content'[i] \in Seq(Cell) /\ c \in Cell
    BY FilesGrow, FileType DEF Writes
<1>2. CASE content'[i] = content[i]
    <2>1. i # writing
        BY <1>1, <1>2 DEF Writes, FilesType
    <2> QED
        BY <1>2, <2>1
<1>3. CASE i = writing /\ content'[i] = Append(content[i], c)
    <2> DEFINE s == content[i]
               t == Append(s, c)
    <2>1. s \in Seq(Cell) /\ c \in Cell /\ content'[i] = t
        BY <1>1, <1>3
    <2> HIDE DEF s
    <2>2. /\ t \in Seq(Cell) /\ Len(t) = Len(s) + 1 /\ t[Len(s) + 1] = c
          /\ \A n \in 1..Len(s) : t[n] = s[n]
        BY <2>1, AppendIs
    <2> HIDE DEF t
    <2>3. ASSUME NEW d PROVE d \in In(t) <=> d \in In(s) \/ d = c
        <3>1. (d \in In(t) <=> \E n \in 1..Len(t) : d = t[n]) /\ (d \in In(s) <=> \E n \in 1..Len(s) : d = s[n])
            BY <2>1, <2>2, InIs
        <3>2. Len(s) \in Nat /\ 1..Len(t) = 1..Len(s) \cup {Len(s) + 1}
            BY <2>1, <2>2
        <3> QED
            BY <2>2, <3>1, <3>2
    <2> QED
        BY <1>3, <2>1, <2>3 DEF s
<1> QED
    BY <1>2, <1>3, FilesGrow

LEMMA WritesFiles ==
    ASSUME FilesType, FilesOK, OldOK, NEW c, Writes(c)
    PROVE  FilesType' /\ FilesOK'
<1>1. FilesType'
    <2>1. content' \in [Inodes -> Seq(Cell)]
        BY FilesGrow DEF Writes, FilesType
    <2> QED
        BY <2>1 DEF FilesType, Writes
<1>2. ASSUME NEW i \in Inodes PROVE Shape(content'[i])
    <2>1. Shape(content[i]) /\ content[i] \in Seq(Cell) /\ c \in Cell
        BY FileType DEF FilesOK, Writes
    <2>2. i = writing /\ content[i] # << >> => Successor(content[i][Len(content[i])], c)
        BY DEF Writes
    <2> QED
        BY <2>1, <2>2, FilesGrow, ShapeAppend
<1>3. content'[writing][Len(content'[writing])] = [line |-> line', k |-> part']
    <2>1. writing \in Inodes /\ content[writing] \in Seq(Cell) /\ content'[writing] = Append(content[writing], c)
        BY FileType DEF Writes, FilesType
    <2> QED
        BY <2>1, AppendIs DEF Writes
<1>4. path # NoFile /\ path # writing => content'[path] = << >>
    BY NoFileIsNone DEF FilesOK, FilesType, Writes
<1>5. \A d \in written' : d.k # 0
    BY DEF FilesOK, Writes
<1> QED
    BY <1>1, <1>2, <1>3, <1>4, <1>5 DEF FilesOK, Writes

LEMMA WritesOld ==
    ASSUME FilesType, ReaderType, FilesOK, OldOK, NEW c, Writes(c), Quiet
    PROVE  /\ OldOK'
           /\ \A d \in Owed' : Old(d) => d \in Owed
<1>1. ASSUME NEW S \in SUBSET Cell, AllOld(S) PROVE \A d \in S : Old(d)'
    BY <1>1 DEF AllOld, Writes
<1>2. Old(c)' /\ ~Old(c)
    BY DEF Writes
<1>3. ASSUME NEW i \in Inodes PROVE \A d \in In(content'[i]) : Old(d)'
    <2>1. In(content[i]) \subseteq Cell /\ AllOld(In(content[i]))
        BY FileType, InCell DEF OldOK
    <2> QED
        BY <1>1, <1>2, <2>1, InFiles
<1>4. UNCHANGED <<head, saved, buffer, queue>>
    BY DEF Writes, reader, reading
<1>5. /\ \A d \in In(head) : Old(d)'
      /\ \A d \in In(saved.head) : Old(d)'
      /\ \A d \in In(buffer) : Old(d)'
      /\ \A d \in InQueue : Old(d)'
      /\ \A d \in written : Old(d)'
    <2>1. head \in Seq(Cell) /\ saved.head \in Seq(Cell) /\ buffer \in Seq(Cell) /\ written \subseteq Cell
        BY DEF ReaderType, FilesType
    <2>2. In(head) \subseteq Cell /\ In(saved.head) \subseteq Cell /\ In(buffer) \subseteq Cell /\ InQueue \subseteq Cell
        BY <2>1, InCell, InQueueCell
    <2>3. AllOld(In(head)) /\ AllOld(In(saved.head)) /\ AllOld(In(buffer)) /\ AllOld(InQueue) /\ AllOld(written)
        BY DEF OldOK
    <2> QED
        BY <1>1, <2>1, <2>2, <2>3
<1>6. \A d \in written' : Old(d)'
    BY <1>2, <1>5 DEF Writes
<1>7. OldOK'
    BY <1>3, <1>4, <1>5, <1>6 DEF OldOK, AllOld, InQueue
<1>8. \A d \in Owed' : Old(d) => d \in Owed
    BY <1>2, WritesOwed
<1> QED
    BY <1>7, <1>8

LEMMA WritesReading ==
    ASSUME FilesType, ReaderType, OldOK, Reading, NEW c, Writes(c)
    PROVE  Reading'
<1> SUFFICES ASSUME fd # NoFile, "mixed" \notin spoiled
             PROVE  \/ Same' /\ SkipsSame'
                    \/ Emptied' /\ SkipsEmptied' /\ Shape(buffer) /\ pc # "fill" /\ ~(rotationSeen /\ pc = "end")
    BY DEF Reading, Writes, reader, reading
<1>1. UNCHANGED <<fd, head, buffer, bufferStart, skipping>>
    BY DEF Writes, reader, reading
<1>2. CASE Same /\ SkipsSame
    <2>1. Same'
        BY <1>2, WritesSame
    <2>2. bufferStart \in 0..Len(content[fd])
        BY <1>2, OpenType DEF Same, Part, ReaderType
    <2>3. bufferStart > 0 => content'[fd][bufferStart] = content[fd][bufferStart]
        BY <2>2, FilesGrow, OpenType
    <2> QED
        BY <1>1, <1>2, <2>1, <2>3 DEF SkipsSame
<1>3. CASE Emptied /\ SkipsEmptied /\ Shape(buffer) /\ pc # "fill" /\ ~(rotationSeen /\ pc = "end")
    BY <1>1, <1>3, WritesSame DEF SkipsEmptied
<1> QED
    BY <1>2, <1>3 DEF Reading

\* Where the reader has a part of its file, the cells up to its position stay
LEMMA WritesPart ==
    ASSUME FilesType, ReaderType, FilesOK, OldOK, PositionsOK, Reading, NEW c, Writes(c), Quiet,
           fd # NoFile, "mixed" \notin spoiled, Same'
    PROVE  /\ Same /\ fd \in Inodes /\ bufferStart <= Len(content[fd])
           /\ \A i \in 1..Len(content[fd]) :
                  content'[fd][i] = content[fd][i] /\ (content[fd][i] \in Owed' => content[fd][i] \in Owed)
           /\ \A n \in DOMAIN queue : queue[n].gen = generation => queue[n].end <= Len(content[fd])
           /\ slot.at.gen = generation => slot.at.end <= Len(content[fd])
           /\ retry.gen = generation => retry.end <= Len(content[fd])
<1>1. Same /\ fd \in Inodes /\ content[fd] \in Seq(Cell)
    BY WritesSame, OpenType
<1>2. bufferStart \in Nat /\ bufferStart <= Len(content[fd]) /\ generation \in Nat
    BY <1>1 DEF Same, Part, ReaderType
<1>3. ASSUME NEW i \in 1..Len(content[fd])
      PROVE  content'[fd][i] = content[fd][i] /\ (content[fd][i] \in Owed' => content[fd][i] \in Owed)
    <2>1. content[fd][i] \in In(content[fd])
        BY <1>1, InIs
    <2>2. Old(content[fd][i])
        BY <1>1, <2>1 DEF OldOK, AllOld
    <2> QED
        BY <1>1, <2>2, FilesGrow, WritesOld
<1>4. ASSUME NEW p, p.gen \in Nat, p.end \in Nat, Positioned(p), p.gen = generation PROVE p.end <= Len(content[fd])
    BY <1>1, <1>2, <1>4 DEF Positioned
<1>5. /\ \A n \in DOMAIN queue : queue[n].gen \in Nat /\ queue[n].end \in Nat /\ Positioned(queue[n])
      /\ slot.at.gen \in Nat /\ slot.at.end \in Nat /\ Positioned(slot.at)
      /\ retry.gen \in Nat /\ retry.end \in Nat /\ Positioned(retry)
    BY QueueType DEF PositionsOK, ReaderType, Positions
<1> QED
    BY <1>1, <1>2, <1>3, <1>4, <1>5

LEMMA WritesCovers ==
    ASSUME FilesType, ReaderType, FilesOK, OldOK, PositionsOK, Reading, NEW c, Writes(c), Quiet
    PROVE  /\ QueueCovers => QueueCovers'
           /\ PositionsCovered => PositionsCovered'
<1>1. UNCHANGED <<fd, queue, slot, retry, generation, bufferStart, spoiled>>
    BY DEF Writes, reader, reading, Quiet
<1> SUFFICES ASSUME fd # NoFile, spoiled = {}, Same'
             PROVE  /\ QueueCovers => QueueCovers'
                    /\ PositionsCovered => PositionsCovered'
    BY <1>1 DEF QueueCovers, PositionsCovered
<1>2. /\ Same /\ bufferStart \in Nat /\ bufferStart <= Len(content[fd])
      /\ \A n \in DOMAIN queue : queue[n].gen = generation => queue[n].end <= Len(content[fd])
      /\ slot.at.gen = generation => slot.at.end <= Len(content[fd])
      /\ retry.gen = generation => retry.end <= Len(content[fd])
    BY WritesPart DEF ReaderType
<1>3. ASSUME NEW m \in Nat, NEW n \in Nat, m <= Len(content[fd]), Covered(m, n) PROVE Covered(m, n)'
    <2>1. \A i \in 1..m : content'[fd][i] = content[fd][i] /\ (content[fd][i] \in Owed' => content[fd][i] \in Owed)
        <3>1. 1..m \subseteq 1..Len(content[fd])
            BY <1>3, OpenType
        <3> QED
            BY <3>1, WritesPart
    <2> QED
        BY <1>1, <1>3, <2>1, CoveredAgain
<1>4. /\ Len(queue) \in Nat /\ \A n \in DOMAIN queue : n \in Nat /\ queue[n].end \in Nat
      /\ slot.at.end \in Nat /\ retry.end \in Nat /\ 0 \in Nat
    BY QueueType DEF ReaderType, Positions
<1>5. QueueCovers => QueueCovers'
    BY <1>1, <1>2, <1>3, <1>4 DEF QueueCovers
<1>6. PositionsCovered => PositionsCovered'
    BY <1>1, <1>2, <1>3, <1>4 DEF PositionsCovered
<1> QED
    BY <1>5, <1>6

LEMMA WritesEnds ==
    ASSUME FilesType, ReaderType, FilesOK, OldOK, Standing, PositionsOK, Reading, NEW c, Writes(c), Quiet
    PROVE  /\ EndSeen => EndSeen'
           /\ LinesEnd => LinesEnd'
<1>1. UNCHANGED <<fd, path, queue, slot, retry, generation, bufferStart, buffer, spoiled, pc, rotationSeen, delivered>>
    BY DEF Writes, reader, reading, Quiet
<1> SUFFICES ASSUME fd # NoFile, spoiled = {}, Same'
             PROVE  /\ EndSeen => EndSeen'
                    /\ LinesEnd => LinesEnd'
    BY <1>1 DEF EndSeen, LinesEnd
<1>2. /\ Same /\ fd \in Inodes /\ content[fd] \in Seq(Cell) /\ content'[fd] \in Seq(Cell)
      /\ bufferStart \in Nat /\ bufferStart <= Len(content[fd])
      /\ \A n \in DOMAIN queue : queue[n].gen = generation => queue[n].end <= Len(content[fd])
      /\ slot.at.gen = generation => slot.at.end <= Len(content[fd])
      /\ retry.gen = generation => retry.end <= Len(content[fd])
      /\ \A i \in 1..Len(content[fd]) :
             content'[fd][i] = content[fd][i] /\ (content[fd][i] \in Owed' => content[fd][i] \in Owed)
    BY WritesPart, FilesGrow, OpenType DEF ReaderType
<1>3. ASSUME EndSeen, rotationSeen, pc = "end", NEW i \in DOMAIN content'[fd], i > bufferStart + Len(buffer)
      PROVE  content'[fd][i] \notin Owed'
    <2>1. CASE i \in 1..Len(content[fd])
        BY <1>1, <1>2, <1>3, <2>1 DEF EndSeen
    <2>2. CASE i \notin 1..Len(content[fd])
        <3>1. i > Len(content[fd]) /\ i \in 1..Len(content'[fd])
            BY <1>2, <2>2
        <3>2. fd = writing /\ content'[fd][i] = c
            BY <1>2, <3>1, FilesGrow
        <3>3. TooLate
            BY <1>3, <3>2 DEF TooLate, Standing
        <3>4. c \notin Owed
            BY DEF OldOK, AllOld, Owed, Writes
        <3> QED
            BY <3>2, <3>3, <3>4, WritesOwed
    <2> QED
        BY <2>1, <2>2
<1>4. EndSeen => EndSeen'
    BY <1>1, <1>3 DEF EndSeen
<1>5. ASSUME NEW m \in Nat, m <= Len(content[fd]), NEW p \in 1..m PROVE
          /\ content'[fd][p] = content[fd][p]
          /\ LineEnds(p, m) => LineEnds(p, m)'
    <2>1. p \in 1..Len(content[fd]) /\ m \in 1..Len(content[fd])
        BY <1>2, <1>5
    <2> QED
        BY <1>1, <1>2, <2>1 DEF LineEnds
<1>6. ASSUME NEW m \in Nat, m <= Len(content[fd]), Delivered(m) PROVE Delivered(m)'
    BY <1>1, <1>5, <1>6 DEF Delivered
<1>7. /\ \A n \in DOMAIN queue : queue[n].end \in Nat
      /\ slot.at.end \in Nat /\ retry.end \in Nat
    BY QueueType DEF ReaderType, Positions
<1>8. ASSUME LinesEnd PROVE LinesEnd'
    <2>1. ASSUME NEW n \in DOMAIN queue, queue[n].gen = generation
          PROVE  \E p \in 1..queue'[n].end :
                     LineEnds(p, queue[n].end)' /\ content'[fd'][p] \in In(queue'[n].text)
        <3>1. PICK m \in Nat : m = queue[n].end /\ m <= Len(content[fd])
            BY <1>2, <1>7, <2>1
        <3>2. PICK p \in 1..m : LineEnds(p, m) /\ content[fd][p] \in In(queue[n].text)
            BY <1>2, <1>8, <2>1, <3>1 DEF LinesEnd
        <3>3. LineEnds(p, m)' /\ content'[fd][p] = content[fd][p]
            BY <1>5, <3>1, <3>2
        <3> QED
            BY <1>1, <3>1, <3>2, <3>3
    <2>2. ASSUME slot.at.gen = generation PROVE Delivered(slot.at.end)'
        <3>1. PICK m \in Nat : m = slot.at.end /\ m <= Len(content[fd]) /\ Delivered(m)
            BY <1>2, <1>7, <1>8, <2>2 DEF LinesEnd
        <3>2. Delivered(m)'
            BY <1>6, <3>1
        <3> QED
            BY <1>1, <3>1, <3>2
    <2>3. ASSUME retry.gen = generation PROVE Delivered(retry.end)'
        <3>1. PICK m \in Nat : m = retry.end /\ m <= Len(content[fd]) /\ Delivered(m)
            BY <1>2, <1>7, <1>8, <2>3 DEF LinesEnd
        <3>2. Delivered(m)'
            BY <1>6, <3>1
        <3> QED
            BY <1>1, <3>1, <3>2
    <2> QED
        BY <1>1, <2>1, <2>2, <2>3 DEF LinesEnd
<1> QED
    BY <1>4, <1>8

LEMMA WritesKept ==
    ASSUME FilesType, ReaderType, FilesOK, OldOK, Standing, Reading, NEW c, Writes(c), Quiet
    PROVE  /\ EmptiedCovers => EmptiedCovers'
           /\ Kept => Kept'
<1>1. UNCHANGED <<fd, path, writing, firstOpen, queue, head, buffer, spoiled>>
    BY DEF Writes, reader, reading
<1>2. ASSUME EmptiedCovers PROVE EmptiedCovers'
    <2> SUFFICES ASSUME fd # NoFile, spoiled = {}, Emptied', NEW d \in In(buffer), d \in Owed'
                 PROVE  Queued(d) \/ NewLine(d.line) \in In(buffer)
        BY <1>1 DEF EmptiedCovers, Queued
    <2>1. Emptied
        BY WritesSame
    <2>2. d \in Owed
        BY WritesOld DEF OldOK, AllOld
    <2> QED
        BY <1>2, <2>1, <2>2 DEF EmptiedCovers
<1>3. ASSUME Kept PROVE Kept'
    <2> SUFFICES ASSUME spoiled = {}, NEW d \in Owed'
                 PROVE  IF firstOpen THEN path # NoFile /\ d \in In(content'[path])
                        ELSE \/ Queued(d) \/ d \in In(buffer) \/ (fd # NoFile /\ d \in In(content'[fd]))
                             \/ path # NoFile /\ path # fd /\ d \in In(content'[path])
        BY <1>1 DEF Kept, Queued, InNextFile
    <2>1. /\ fd # NoFile => fd \in Inodes /\ In(content[fd]) \subseteq In(content'[fd])
          /\ path # NoFile => path \in Inodes /\ In(content[path]) \subseteq In(content'[path])
        BY InFiles DEF FilesType, ReaderType
    <2>2. CASE d \in Owed
        BY <1>3, <2>1, <2>2 DEF Kept, InNextFile
    <2>3. CASE d = c /\ ~TooLate
        <3>0. writing = path \/ writing = fd
            BY <2>3 DEF TooLate
        <3>1. writing \in Inodes /\ d \in In(content'[writing])
            <4>1. writing \in Inodes
                BY DEF Writes
            <4> QED
                BY <2>3, <4>1, InFiles
        <3>2. writing # NoFile /\ (firstOpen => fd = NoFile)
            BY <3>1, NoFileIsNone DEF Standing
        <3> QED
            BY <3>0, <3>1, <3>2
    <2> QED
        BY <2>2, <2>3, WritesOwed
<1> QED
    BY <1>2, <1>3

LEMMA WritesState ==
    ASSUME FilesType, ReaderType, FilesOK, OldOK, StateOK, NEW c, Writes(c), Quiet
    PROVE  /\ StateOK'
           /\ StateCovers => StateCovers'
           /\ StateDelivered => StateDelivered'
<1>1. UNCHANGED <<saved, spoiled, delivered, setting>>
    BY DEF Writes, Quiet
<1> DEFINE i == saved.inode
           s == content[i]
           t == content'[i]
           m == saved.offset
           h == saved.head
<1>2. m \in Nat /\ h \in Seq(Cell) /\ AllOld(In(h)) /\ i \in Inodes \cup {NoFile}
    BY DEF ReaderType, OldOK
<1> SUFFICES ASSUME i # NoFile, m > 0, spoiled \cap {"mixed", "unseen"} = {}
             PROVE  /\ StateSame' \/ Other(t, h)
                    /\ spoiled = {} /\ StateSame' /\ StateCovers => \A n \in 1..m : t[n] \notin Owed'
                    /\ spoiled = {} /\ StateSame' /\ ~StartAtEnd /\ StateDelivered =>
                           \E n \in 1..m : t[n].line = t[m].line /\ t[n] \in delivered
    BY <1>1, <1>2 DEF StateOK, StateCovers, StateDelivered, StartAtEnd
<1>3. i \in Inodes /\ s \in Seq(Cell) /\ t \in Seq(Cell)
    BY <1>2, FileType, FilesGrow
<1>4. Len(s) <= Len(t) /\ (\A n \in 1..Len(s) : t[n] = s[n])
    BY <1>3, FilesGrow
<1>5. StateSame \/ Other(s, h)
    BY DEF StateOK
<1>6. CASE StateSame
    <2>1. m <= Len(s) /\ Starts(s, h)
        BY <1>6 DEF StateSame
    <2>2. StateSame'
        <3>1. Part(t, 0, h)
            BY <1>2, <1>3, <2>1, GrowKeeps DEF Starts
        <3>2. m <= Len(t)
            BY <1>2, <1>3, <1>4, <2>1
        <3> QED
            BY <1>1, <3>1, <3>2 DEF StateSame, Starts
    <2>3. ASSUME NEW n \in 1..m PROVE t[n] = s[n] /\ (t[n] \in Owed' => s[n] \in Owed)
        <3>1. n \in 1..Len(s) /\ t[n] = s[n]
            BY <1>2, <1>3, <1>4, <2>1
        <3>2. s[n] \in In(s)
            BY <1>3, <3>1, InIs
        <3>3. Old(s[n])
            BY <1>3, <3>2 DEF OldOK, AllOld
        <3> QED
            BY <3>1, <3>3, WritesOld
    <2>4. m \in 1..m
        BY <1>2
    <2>5. spoiled = {} /\ StateCovers => \A n \in 1..m : t[n] \notin Owed'
        BY <1>6, <2>3 DEF StateCovers
    <2>6. spoiled = {} /\ ~StartAtEnd /\ StateDelivered =>
              \E n \in 1..m : t[n].line = t[m].line /\ t[n] \in delivered
        BY <1>6, <2>3, <2>4 DEF StateDelivered
    <2> QED
        BY <2>2, <2>5, <2>6
<1>7. CASE Other(s, h)
    <2>1. Other(t, h)
        BY <1>2, <1>3, <1>7, GrowKeeps
    <2>2. ~StateSame'
        BY <1>1, <1>2, <1>3, <2>1, OtherNotStarts DEF StateSame
    <2> QED
        BY <2>1, <2>2
<1> QED
    BY <1>5, <1>6, <1>7

LEMMA WritesOrder ==
    ASSUME FilesType, ReaderType, FilesOK, OldOK, Reading, NEW c, Writes(c)
    PROVE  /\ FileOrder => FileOrder'
           /\ NextOrder => NextOrder'
<1>1. UNCHANGED <<fd, path, writing, firstOpen, queue, head, buffer, bufferStart, spoiled>> /\ UNCHANGED InQueue
    BY DEF Writes, reader, reading, InQueue
<1>2. \A d \in Cell : Old(d) => d.line <= c.line
    BY DEF Writes
<1>3. /\ \A d \in InQueue : d.line <= c.line
      /\ \A d \in In(buffer) : d.line <= c.line
    <2>1. InQueue \subseteq Cell /\ In(buffer) \subseteq Cell
        BY InQueueCell, InCell DEF ReaderType
    <2> QED
        BY <1>2, <2>1 DEF OldOK, AllOld
<1>4. ASSUME NEW i \in Inodes PROVE \A d \in In(content[i]) : d.line <= c.line
    <2>1. In(content[i]) \subseteq Cell
        BY FileType, InCell
    <2> QED
        BY <1>2, <2>1 DEF OldOK, AllOld
<1>5. c.line <= c.line
    BY DEF Writes, Cell
<1>6. ASSUME FileOrder PROVE FileOrder'
    <2> SUFFICES ASSUME fd # NoFile, "mixed" \notin spoiled
                 PROVE  /\ Same' => \A i \in DOMAIN content'[fd] : i > bufferStart =>
                                        NotAfter(InQueue, {content'[fd][i]})
                        /\ Emptied' => /\ NotAfter(InQueue, In(buffer)) /\ NotAfter(InQueue, In(content'[fd]))
                                       /\ NotAfter(In(buffer), In(content'[fd]))
        BY <1>1 DEF FileOrder
    <2>1. fd \in Inodes /\ content[fd] \in Seq(Cell) /\ content'[fd] \in Seq(Cell)
        BY OpenType, FilesGrow
    <2>2. ASSUME Same', NEW i \in DOMAIN content'[fd], i > bufferStart
          PROVE  NotAfter(InQueue, {content'[fd][i]})
        <3>1. Same
            BY <2>2, WritesSame
        <3>2. CASE i <= Len(content[fd])
            <4>1. i \in 1..Len(content[fd])
                BY <2>1, <3>2
            <4>2. i \in DOMAIN content[fd] /\ content'[fd][i] = content[fd][i]
                BY <2>1, <4>1, FilesGrow
            <4> QED
                BY <1>6, <2>2, <3>1, <4>2 DEF FileOrder
        <3>3. CASE i > Len(content[fd])
            <4>1. i \in 1..Len(content'[fd])
                BY <2>1
            <4>2. content'[fd][i] = c
                BY <2>1, <3>3, <4>1, FilesGrow
            <4> QED
                BY <1>3, <4>2 DEF NotAfter
        <3> QED
            BY <2>1, <3>2, <3>3
    <2>3. ASSUME Emptied'
          PROVE  /\ NotAfter(InQueue, In(buffer)) /\ NotAfter(InQueue, In(content'[fd]))
                 /\ NotAfter(In(buffer), In(content'[fd]))
        <3>1. Emptied
            BY <2>3, WritesSame
        <3> QED
            <4>1. /\ NotAfter(InQueue, In(buffer)) /\ NotAfter(InQueue, In(content[fd]))
                  /\ NotAfter(In(buffer), In(content[fd]))
                BY <1>6, <3>1 DEF FileOrder
            <4>2. In(content'[fd]) \subseteq In(content[fd]) \cup {c}
                BY <2>1, InFiles
            <4> QED
                BY <1>3, <4>1, <4>2 DEF NotAfter
    <2> QED
        BY <2>2, <2>3
<1>7. ASSUME NextOrder PROVE NextOrder'
    <2> SUFFICES ASSUME "mixed" \notin spoiled, ~firstOpen, path # NoFile, path # fd
                 PROVE  /\ NotAfter(InQueue, In(content'[path])) /\ NotAfter(In(buffer), In(content'[path]))
                        /\ fd # NoFile => NotAfter(In(content'[fd]), In(content'[path]))
        BY <1>1 DEF NextOrder
    <2>1. path \in Inodes /\ (fd # NoFile => fd \in Inodes)
        BY DEF FilesType, ReaderType
    <2>2. NotAfter(InQueue, In(content'[path])) /\ NotAfter(In(buffer), In(content'[path]))
        BY <1>3, <1>7, <2>1, InFiles DEF NextOrder, NotAfter
    <2>3. ASSUME fd # NoFile PROVE NotAfter(In(content'[fd]), In(content'[path]))
        <3>1. CASE path = writing
            <4>1. \A d \in In(content'[fd]) : d \in In(content[fd]) /\ d.line <= c.line
                BY <1>4, <2>1, <2>3, <3>1, InFiles
            <4>2. \A e \in In(content'[path]) : e \in In(content[path]) \/ e = c
                BY <2>1, InFiles
            <4> QED
                BY <1>7, <2>3, <4>1, <4>2 DEF NextOrder, NotAfter
        <3>2. CASE path # writing
            <4>1. In(content[path]) = {}
                BY <3>2 DEF FilesOK, In
            <4> QED
                BY <2>1, <3>2, <4>1, InFiles DEF NotAfter
        <3> QED
            BY <3>1, <3>2
    <2> QED
        BY <2>2, <2>3
<1> QED
    BY <1>6, <1>7

LEMMA WritesKeeps ==
    ASSUME FInv, NEW c, Writes(c), Quiet
    PROVE  FInv'
<1>1. /\ FilesType /\ ReaderType /\ FilesOK /\ OldOK /\ Standing /\ PositionsOK /\ Reading
      /\ QueueCovers /\ PositionsCovered /\ EndSeen /\ EmptiedCovers /\ LinesEnd /\ Kept
      /\ StateOK /\ StateCovers /\ StateDelivered /\ FileOrder /\ NextOrder
    BY DEF FInv
<1>2. UNCHANGED <<path, saved, firstOpen, fd, generation, head, buffer, bufferStart, skipping, rotationSeen,
                  committed, pc, queue, slot, retry, spoiled>>
    BY DEF Writes, reader, reading, Quiet
<1>3. ReaderType' /\ Standing' /\ PositionsOK'
    BY <1>1, <1>2 DEF ReaderType, Standing, PositionsOK, Positioned
<1>4. QueueOrder' /\ CommitOK' /\ QueueWhole'
    BY <1>2 DEF FInv, QueueOrder, CommitOK, Uncommitted, QueueWhole, WholeLines
<1>5. FilesType' /\ FilesOK' /\ OldOK' /\ Reading'
    BY <1>1, WritesFiles, WritesOld, WritesReading
<1>6. QueueCovers' /\ PositionsCovered' /\ EndSeen' /\ LinesEnd'
    BY <1>1, WritesCovers, WritesEnds
<1>7. EmptiedCovers' /\ Kept' /\ StateOK' /\ StateCovers' /\ StateDelivered'
    BY <1>1, WritesKept, WritesState
<1>8. FileOrder' /\ NextOrder'
    BY <1>1, WritesOrder
<1> QED
    BY <1>3, <1>4, <1>5, <1>6, <1>7, <1>8 DEF FInv

-----------------------------------------------------------------------------
(* What a step leaves alone *)

\* Nothing of it is new: the pieces which are owed, and what the reader and the queue have
Fewer ==
    /\ Owed' \subseteq Owed /\ spoiled \subseteq spoiled' /\ delivered \subseteq delivered'
    /\ UNCHANGED <<saved, setting>>

Standstill ==
    /\ Fewer
    /\ fd # NoFile => content'[fd] = content[fd]
    /\ UNCHANGED <<firstOpen, fd, generation, head, buffer, bufferStart, skipping, committed, queue, slot, retry>>

LEMMA StateKeeps ==
    ASSUME StateOK, StateCovers, StateDelivered, Fewer,
           saved.inode # NoFile => content'[saved.inode] = content[saved.inode]
    PROVE  StateOK' /\ StateCovers' /\ StateDelivered'
<1>1. UNCHANGED <<saved, setting>>
    BY DEF Fewer
<1>2. saved.inode # NoFile => (StateSame' <=> StateSame)
    BY <1>1 DEF StateSame
<1>3. StateOK'
    BY <1>1, <1>2 DEF StateOK, Fewer
<1>4. StateCovers'
    BY <1>1, <1>2 DEF StateCovers, Fewer
<1>5. StateDelivered'
    BY <1>1, <1>2 DEF StateDelivered, StartAtEnd, Fewer
<1> QED
    BY <1>3, <1>4, <1>5

LEMMA StandsSame ==
    ASSUME Standstill, fd # NoFile
    PROVE  (Same' <=> Same) /\ (Emptied' <=> Emptied)
BY DEF Standstill, Same, Emptied

LEMMA StandsCovers ==
    ASSUME Standstill, QueueCovers, PositionsCovered, LinesEnd, EmptiedCovers
    PROVE  QueueCovers' /\ PositionsCovered' /\ LinesEnd' /\ EmptiedCovers'
<1>1. /\ UNCHANGED <<fd, generation, buffer, bufferStart, queue, slot, retry>>
      /\ Owed' \subseteq Owed /\ spoiled \subseteq spoiled' /\ delivered \subseteq delivered'
    BY DEF Standstill, Fewer
<1> SUFFICES ASSUME fd # NoFile, spoiled' = {}
             PROVE  QueueCovers' /\ PositionsCovered' /\ LinesEnd' /\ EmptiedCovers'
    BY <1>1 DEF QueueCovers, PositionsCovered, LinesEnd, EmptiedCovers
<1>2. spoiled = {} /\ content'[fd] = content[fd]
    BY <1>1 DEF Standstill
<1>3. (Same' <=> Same) /\ (Emptied' <=> Emptied)
    BY StandsSame
<1>4. \A m, n : Covered(m, n) => \A i \in 1..m :
          content'[fd'][i] \in Owed' => \E j \in 1..n : content'[fd'][i] \in In(queue'[j].text)
    BY <1>1, <1>2 DEF Covered
<1>5. \A m : Delivered(m) => (m > 0 => \E p \in 1..m : /\ p \in 1..m /\ content'[fd'][p].line = content'[fd'][m].line
                                                       /\ content'[fd'][p] \in delivered')
    BY <1>1, <1>2 DEF Delivered, LineEnds
<1>6. QueueCovers'
    BY <1>1, <1>2, <1>3, <1>4 DEF QueueCovers, Covered
<1>7. PositionsCovered'
    BY <1>1, <1>2, <1>3, <1>4 DEF PositionsCovered, Covered
<1>8. LinesEnd'
    <2>1. Same => \A n \in DOMAIN queue : queue[n].gen = generation =>
              \E p \in 1..queue[n].end : /\ p \in 1..queue[n].end
                                         /\ content[fd][p].line = content[fd][queue[n].end].line
                                         /\ content[fd][p] \in In(queue[n].text)
        BY <1>2 DEF LinesEnd, LineEnds
    <2>2. Same => /\ slot.at.gen = generation => Delivered(slot.at.end)
                  /\ retry.gen = generation => Delivered(retry.end)
        BY <1>2 DEF LinesEnd
    <2> QED
        BY <1>1, <1>2, <1>3, <1>5, <2>1, <2>2 DEF LinesEnd, LineEnds, Delivered
<1>9. EmptiedCovers'
    BY <1>1, <1>2, <1>3 DEF EmptiedCovers, Queued
<1> QED
    BY <1>6, <1>7, <1>8, <1>9

LEMMA StandsOrder ==
    ASSUME Standstill, PositionsOK, QueueOrder, FileOrder, CommitOK, QueueWhole
    PROVE  PositionsOK' /\ QueueOrder' /\ FileOrder' /\ CommitOK' /\ QueueWhole'
<1>1. /\ UNCHANGED <<fd, generation, buffer, bufferStart, saved, committed, queue, slot, retry>>
      /\ UNCHANGED InQueue /\ spoiled \subseteq spoiled'
    BY DEF Standstill, Fewer, InQueue
<1>2. fd # NoFile => content'[fd] = content[fd] /\ (Same' <=> Same) /\ (Emptied' <=> Emptied)
    BY StandsSame DEF Standstill
<1>3. PositionsOK' /\ CommitOK'
    BY <1>1 DEF PositionsOK, Positioned, CommitOK, Uncommitted
<1>4. QueueOrder' /\ QueueWhole'
    BY <1>1 DEF QueueOrder, QueueWhole, WholeLines
<1>5. FileOrder'
    BY <1>1, <1>2 DEF FileOrder
<1> QED
    BY <1>3, <1>4, <1>5

\* The thread goes on to another place of its code
LEMMA StandsReading ==
    ASSUME Standstill, Reading, EndSeen,
           fd # NoFile /\ "mixed" \notin spoiled /\ Emptied => pc' # "fill" /\ ~(rotationSeen' /\ pc' = "end"),
           fd # NoFile /\ spoiled = {} /\ Same /\ rotationSeen' /\ pc' = "end" => rotationSeen /\ pc = "end"
    PROVE  Reading' /\ EndSeen'
<1>1. /\ UNCHANGED <<fd, buffer, bufferStart, skipping>>
      /\ Owed' \subseteq Owed /\ spoiled \subseteq spoiled'
    BY DEF Standstill, Fewer
<1>2. fd # NoFile => content'[fd] = content[fd] /\ (Same' <=> Same) /\ (Emptied' <=> Emptied)
    BY StandsSame DEF Standstill
<1>3. Reading'
    BY <1>1, <1>2 DEF Reading, SkipsSame, SkipsEmptied
<1>4. EndSeen'
    BY <1>1, <1>2 DEF EndSeen
<1> QED
    BY <1>3, <1>4

-----------------------------------------------------------------------------
(* The other steps of the world: the file is opened by its writer, created, moved away, emptied *)

LEMMA ReopenKeeps ==
    ASSUME FInv, Reopen, Quiet
    PROVE  FInv'
<1>1. /\ path # NoFile /\ writing # path /\ writing' = path
      /\ UNCHANGED <<content, path, line, part, saved, pc, queue, written, gone, spoiled>>
      /\ UNCHANGED <<firstOpen, fd, generation, head, buffer, bufferStart, skipping, rotationSeen, committed>>
      /\ UNCHANGED <<slot, retry, delivered, setting>>
    BY DEF Reopen, fileHistory, reader, reading, Quiet
<1>2. Standstill
    BY <1>1 DEF Standstill, Fewer, Owed
<1>3. PositionsOK' /\ QueueOrder' /\ FileOrder' /\ CommitOK' /\ QueueWhole'
    BY <1>2, StandsOrder DEF FInv
<1>4. QueueCovers' /\ PositionsCovered' /\ LinesEnd' /\ EmptiedCovers'
    BY <1>2, StandsCovers DEF FInv
<1>5. Reading' /\ EndSeen'
    <2>1. Reading /\ EndSeen
        BY DEF FInv
    <2>2. fd # NoFile /\ "mixed" \notin spoiled /\ Emptied => pc' # "fill" /\ ~(rotationSeen' /\ pc' = "end")
        <3> SUFFICES ASSUME fd # NoFile, "mixed" \notin spoiled, Emptied
                     PROVE  pc' # "fill" /\ ~(rotationSeen' /\ pc' = "end")
            OBVIOUS
        <3>1. ~Same
            BY EmptiedNotSame DEF FInv
        <3> QED
            BY <1>1, <2>1, <3>1 DEF Reading
    <2> QED
        BY <1>1, <1>2, <2>1, <2>2, StandsReading
<1>6. StateOK' /\ StateCovers' /\ StateDelivered'
    BY <1>1, <1>2, StateKeeps DEF FInv, Standstill
<1>7. content[path] = << >>
    BY <1>1 DEF FInv, FilesOK
<1>8. FilesType' /\ FilesOK'
    BY <1>1, <1>7 DEF FInv, FilesType, FilesOK
<1>9. ReaderType' /\ Standing'
    BY <1>1 DEF FInv, ReaderType, Standing
<1>10. OldOK'
    BY <1>1 DEF FInv, OldOK, AllOld, Old, InQueue
<1>11. Kept' /\ NextOrder'
    BY <1>1 DEF FInv, Kept, Queued, InNextFile, Owed, NextOrder, InQueue
<1> QED
    BY <1>3, <1>4, <1>5, <1>6, <1>8, <1>9, <1>10, <1>11 DEF FInv

\* A file is replaced by an empty one; if the state file does not protect it, this is noticed
Empties(i) ==
    /\ i \in Inodes /\ content' = [content EXCEPT ![i] = NoCells]
    /\ Unprotected(i) => "unseen" \in spoiled'
    /\ UNCHANGED <<line, part, saved, written, pc, queue, firstOpen, fd, generation, head, buffer, bufferStart,
                   skipping, rotationSeen, committed, slot, retry, delivered, setting>>
    /\ writing' = writing /\ Fewer

LEMMA EmptiesIs ==
    ASSUME FilesType, NEW i, Empties(i), NEW j \in Inodes
    PROVE  content'[j] = (IF j = i THEN << >> ELSE content[j])
BY DEF Empties, FilesType, NoCells

LEMMA EmptiesState ==
    ASSUME FilesType, ReaderType, StateOK, StateCovers, StateDelivered, NEW i, Empties(i)
    PROVE  StateOK' /\ StateCovers' /\ StateDelivered'
<1>1. UNCHANGED <<saved, setting>> /\ Fewer
    BY DEF Empties
<1>2. /\ saved.inode \in Inodes \cup {NoFile} /\ saved.offset \in Nat /\ saved.head \in Seq(Cell)
    BY DEF ReaderType
<1>3. CASE saved.inode # i \/ saved.inode = NoFile
    <2>1. saved.inode # NoFile => content'[saved.inode] = content[saved.inode]
        BY <1>2, <1>3, EmptiesIs
    <2> QED
        BY <1>1, <2>1, StateKeeps
<1>4. CASE saved.inode = i /\ saved.inode # NoFile
    <2>1. content'[i] = << >>
        BY <1>2, <1>4, EmptiesIs
    <2>2. saved.offset > 0 => ~StateSame'
        BY <1>1, <1>2, <1>4, <2>1 DEF StateSame
    <2>3. StateOK'
        <3> SUFFICES ASSUME saved.offset > 0, "unseen" \notin spoiled'
                     PROVE  Other(content'[i], saved.head)
            BY <1>1, <1>4 DEF StateOK
        <3>1. ~(Len(saved.head) < Min2(HeadMax, saved.offset))
            BY <1>4 DEF Empties, Unprotected, Uncovered
        <3>2. Min2(HeadMax, saved.offset) > 0
            BY <1>2, Limits DEF Min2
        <3>3. saved.head # << >>
            BY <1>2, <3>1, <3>2
        <3> QED
            BY <2>1, <3>3 DEF Other
    <2>4. StateCovers' /\ StateDelivered'
        BY <1>1, <1>2, <2>2 DEF StateCovers, StateDelivered
    <2> QED
        BY <2>3, <2>4
<1> QED
    BY <1>3, <1>4

LEMMA EmptiesFiles ==
    ASSUME FilesType, ReaderType, FilesOK, OldOK, Standing, NEW i, Empties(i), path' = i,
           rotationSeen => i # fd, i = writing \/ i = path \/ path = NoFile
    PROVE  FilesType' /\ ReaderType' /\ FilesOK' /\ OldOK' /\ Standing' /\ NextOrder'
<1>1. /\ i \in Inodes
      /\ UNCHANGED <<line, part, saved, written, pc, queue, firstOpen, fd, generation, head, buffer, bufferStart,
                     skipping, rotationSeen, committed, slot, retry, writing>>
      /\ UNCHANGED InQueue
    BY DEF Empties, InQueue
<1>2. \A j \in Inodes : content'[j] = IF j = i THEN << >> ELSE content[j]
    BY EmptiesIs
<1>3. FilesType'
    <2>1. content' \in [Inodes -> Seq(Cell)]
        <3>1. content' = [content EXCEPT ![i] = << >>] /\ << >> \in Seq(Cell)
            BY DEF Empties, NoCells
        <3> QED
            BY <3>1 DEF FilesType
    <2> QED
        BY <1>1, <2>1 DEF FilesType
<1>4. ReaderType' /\ Standing'
    <2>1. ReaderType'
        BY <1>1 DEF ReaderType
    <2>2. Standing'
        BY <1>1 DEF Standing
    <2> QED
        BY <2>1, <2>2
<1>5. FilesOK'
    <2>1. Shape(<< >>)
        BY DEF Shape
    <2>2. \A j \in Inodes : Shape(content'[j])
        BY <1>2, <2>1 DEF FilesOK
    <2>3. writing # NoFile => content'[writing] = << >> \/ content'[writing] = content[writing]
        BY <1>2 DEF FilesType
    <2>4. content'[i] = << >>
        BY <1>1, <1>2
    <2> QED
        BY <1>1, <2>2, <2>3, <2>4 DEF FilesOK
<1>6. OldOK'
    <2>1. In(<< >>) = {}
        BY DEF In
    <2>2. \A j \in Inodes : In(content'[j]) \subseteq In(content[j])
        BY <1>2, <2>1
    <2> QED
        BY <1>1, <2>2 DEF OldOK, AllOld, Old
<1>7. NextOrder'
    <2>1. In(content'[i]) = {}
        BY <1>1, <1>2 DEF In
    <2> QED
        BY <2>1 DEF NextOrder, NotAfter
<1> QED
    BY <1>3, <1>4, <1>5, <1>6, <1>7

LEMMA CreateKeeps ==
    ASSUME FInv, CreateFile, Quiet
    PROVE  FInv'
<1>1. PICK i \in Inodes \ {fd, writing} :
          /\ path' = i /\ content' = [content EXCEPT ![i] = NoCells]
          /\ spoiled' = IF Unprotected(i) THEN spoiled \cup {"unseen"} ELSE spoiled
    BY DEF CreateFile
<1>2. /\ path = NoFile
      /\ UNCHANGED <<writing, line, part, saved, written, gone, pc, queue, firstOpen, fd, generation, head, buffer,
                     bufferStart, skipping, rotationSeen, committed, slot, retry, delivered, setting>>
    BY DEF CreateFile, reader, reading, Quiet
<1>3. Fewer
    BY <1>1, <1>2 DEF Fewer, Owed
<1>4. Empties(i)
    BY <1>1, <1>2, <1>3 DEF Empties
<1>5. FilesType /\ ReaderType
    BY DEF FInv
<1>6. fd # NoFile => content'[fd] = content[fd]
    BY <1>1, <1>4, <1>5, EmptiesIs DEF ReaderType
<1>7. Standstill
    BY <1>2, <1>3, <1>6 DEF Standstill
<1>8. PositionsOK' /\ QueueOrder' /\ FileOrder' /\ CommitOK' /\ QueueWhole'
    BY <1>7, StandsOrder DEF FInv
<1>9. QueueCovers' /\ PositionsCovered' /\ LinesEnd' /\ EmptiedCovers'
    BY <1>7, StandsCovers DEF FInv
<1>10. Reading' /\ EndSeen'
    <2>1. Reading /\ EndSeen
        BY DEF FInv
    <2>2. fd # NoFile /\ "mixed" \notin spoiled /\ Emptied => pc' # "fill" /\ ~(rotationSeen' /\ pc' = "end")
        <3> SUFFICES ASSUME fd # NoFile, "mixed" \notin spoiled, Emptied
                     PROVE  pc' # "fill" /\ ~(rotationSeen' /\ pc' = "end")
            OBVIOUS
        <3>1. ~Same
            BY EmptiedNotSame DEF FInv
        <3> QED
            BY <1>2, <2>1, <3>1 DEF Reading
    <2> QED
        BY <1>2, <1>7, <2>1, <2>2, StandsReading
<1>11. StateOK' /\ StateCovers' /\ StateDelivered'
    BY <1>4, EmptiesState DEF FInv
<1>12. FilesType' /\ ReaderType' /\ FilesOK' /\ OldOK' /\ Standing' /\ NextOrder'
    BY <1>1, <1>2, <1>4, EmptiesFiles DEF FInv
<1>13. Kept'
    <2> SUFFICES ASSUME spoiled = {}, NEW c \in Owed
                 PROVE  ~firstOpen /\ (Queued(c) \/ c \in In(buffer) \/ (fd # NoFile /\ c \in In(content[fd])))
        BY <1>2, <1>3, <1>6 DEF Kept, Queued, Fewer
    <2> QED
        BY <1>2 DEF FInv, Kept, InNextFile
<1> QED
    BY <1>8, <1>9, <1>10, <1>11, <1>12, <1>13 DEF FInv

LEMMA MoveAwayKeeps ==
    ASSUME FInv, MoveAway, Quiet
    PROVE  FInv'
<1>1. /\ path # NoFile /\ path' = NoFile
      /\ gone' = IF fd # path /\ ~Follows THEN gone \cup TextIn(content[path]) ELSE gone
      /\ spoiled' = IF fd # path /\ Follows /\ TextIn(content[path]) # {} THEN spoiled \cup {"passed"} ELSE spoiled
      /\ UNCHANGED <<content, writing, line, part, saved, pc, queue, written>>
      /\ UNCHANGED <<firstOpen, fd, generation, head, buffer, bufferStart, skipping, rotationSeen, committed>>
      /\ UNCHANGED <<slot, retry, delivered, setting>>
    BY DEF MoveAway, reader, reading, Quiet
<1>2. Standstill
    BY <1>1 DEF Standstill, Fewer, Owed
<1>3. PositionsOK' /\ QueueOrder' /\ FileOrder' /\ CommitOK' /\ QueueWhole'
    BY <1>2, StandsOrder DEF FInv
<1>4. QueueCovers' /\ PositionsCovered' /\ LinesEnd' /\ EmptiedCovers'
    BY <1>2, StandsCovers DEF FInv
<1>5. Reading' /\ EndSeen'
    <2>1. Reading /\ EndSeen
        BY DEF FInv
    <2>2. fd # NoFile /\ "mixed" \notin spoiled /\ Emptied => pc' # "fill" /\ ~(rotationSeen' /\ pc' = "end")
        <3> SUFFICES ASSUME fd # NoFile, "mixed" \notin spoiled, Emptied
                     PROVE  pc' # "fill" /\ ~(rotationSeen' /\ pc' = "end")
            OBVIOUS
        <3>1. ~Same
            BY EmptiedNotSame DEF FInv
        <3> QED
            BY <1>1, <2>1, <3>1 DEF Reading
    <2> QED
        BY <1>1, <1>2, <2>1, <2>2, StandsReading
<1>6. StateOK' /\ StateCovers' /\ StateDelivered'
    BY <1>1, <1>2, StateKeeps DEF FInv, Standstill
<1>7. FilesType' /\ FilesOK'
    BY <1>1 DEF FInv, FilesType, FilesOK
<1>8. ReaderType' /\ Standing' /\ NextOrder'
    <2>1. ReaderType'
        BY <1>1 DEF FInv, ReaderType
    <2>2. Standing'
        BY <1>1 DEF FInv, Standing
    <2>3. NextOrder'
        BY <1>1 DEF NextOrder
    <2> QED
        BY <2>1, <2>2, <2>3
<1>9. OldOK'
    BY <1>1 DEF FInv, OldOK, AllOld, Old, InQueue
<1>10. Kept'
    <2> SUFFICES ASSUME spoiled' = {}, NEW c \in Owed'
                 PROVE  ~firstOpen /\ (Queued(c) \/ c \in In(buffer) \/ (fd # NoFile /\ c \in In(content[fd])))
        BY <1>1 DEF Kept, Queued
    <2>1. c \in Owed /\ spoiled = {}
        BY <1>2 DEF Standstill, Fewer
    <2>2. c \in In(content[path]) => c \in TextIn(content[path])
        <3>1. c.k # 0
            BY <2>1, OwedIs DEF FInv
        <3> QED
            BY <3>1 DEF TextIn, IsNewLine
    <2>3. c \notin gone'
        BY DEF Owed
    <2>4. firstOpen => fd # path /\ ~Follows
        BY <1>1 DEF FInv, Standing, Follows
    <2>5. ~firstOpen => Follows
        BY DEF FInv, Standing, Follows
    <2>6. ~firstOpen
        <3> SUFFICES ASSUME firstOpen PROVE FALSE
            OBVIOUS
        <3>1. c \in In(content[path])
            BY <2>1 DEF FInv, Kept
        <3> QED
            BY <1>1, <2>2, <2>3, <2>4, <3>1
    <2>7. fd # path => c \notin In(content[path])
        BY <1>1, <2>2, <2>5, <2>6
    <2> QED
        BY <2>1, <2>6, <2>7 DEF FInv, Kept, InNextFile
<1> QED
    BY <1>3, <1>4, <1>5, <1>6, <1>7, <1>8, <1>9, <1>10 DEF FInv

\* Behind a piece at the limit of a line comes one beyond it, or the new line
LEMMA LongGoesOn ==
    ASSUME NEW s \in Seq(Cell), Shape(s), NEW n \in 1..Len(s), n + 1 \in 1..Len(s), s[n].k >= MaxLineLength
    PROVE  s[n + 1].k = 0 \/ s[n + 1].k > MaxLineLength
<1>1. s[n] \in Cell /\ s[n + 1] \in Cell
    OBVIOUS
<1>2. s[n].k \in Nat /\ s[n + 1].k \in Nat
    BY <1>1, CellType
<1>3. n < n + 1 /\ (n + 1) - n = 1 /\ \A m \in n..((n + 1) - 1) : m = n
    OBVIOUS
<1>4. Chain(s, n, n + 1)
    <2>1. n \in DOMAIN s /\ n + 1 \in DOMAIN s
        OBVIOUS
    <2> QED
        BY <1>3, <2>1 DEF Shape
<1>5. CASE s[n].line = s[n + 1].line
    <2>1. s[n + 1].k = 0 \/ s[n + 1].k = s[n].k + 1
        BY <1>3, <1>4, <1>5 DEF Chain
    <2> QED
        BY <1>2, <2>1, Limits
<1>6. CASE s[n].line # s[n + 1].line
    <2>1. s[n] = NewLine(s[n].line)
        BY <1>3, <1>4, <1>6 DEF Chain
    <2>2. s[n].k = 0
        BY <2>1 DEF NewLine
    <2> QED
        BY <2>2, Limits
<1> QED
    BY <1>5, <1>6

LEMMA SkipsSameIs ==
    ASSUME FilesType, ReaderType, FilesOK, fd # NoFile, Same, SkipsSame
    PROVE  SkipsEmptied
<1> SUFFICES ASSUME skipping, buffer # << >>
             PROVE  buffer[1].k = 0 \/ buffer[1].k > MaxLineLength
    BY DEF SkipsEmptied
<1>1. /\ content[fd] \in Seq(Cell) /\ Shape(content[fd])
      /\ buffer \in Seq(Cell) /\ bufferStart \in Nat /\ Part(content[fd], bufferStart, buffer)
    BY OpenType DEF ReaderType, FilesOK, Same
<1>2. bufferStart > 0 /\ content[fd][bufferStart].k >= MaxLineLength
    BY DEF SkipsSame
<1>3. bufferStart + 1 <= Len(content[fd]) /\ buffer[1] = content[fd][bufferStart + 1]
    BY <1>1 DEF Part
<1>4. bufferStart \in 1..Len(content[fd]) /\ bufferStart + 1 \in 1..Len(content[fd])
    BY <1>1, <1>2, <1>3
<1> QED
    BY <1>1, <1>2, <1>3, <1>4, LongGoesOn

\* What is read when the file is emptied: the reader has a part of it, with what it skips
LEMMA EmptiedReader ==
    ASSUME FilesType, ReaderType, FilesOK, fd # NoFile, Same, SkipsSame, head # << >>, content'[fd] = << >>,
           UNCHANGED <<fd, head, buffer, skipping>>
    PROVE  Emptied' /\ SkipsEmptied' /\ Shape(buffer)
<1>1. /\ content[fd] \in Seq(Cell) /\ Shape(content[fd])
      /\ buffer \in Seq(Cell) /\ bufferStart \in Nat /\ Part(content[fd], bufferStart, buffer)
    BY OpenType DEF ReaderType, FilesOK, Same
<1>2. Emptied'
    BY DEF Emptied, Other
<1>3. Shape(buffer)
    BY <1>1, ShapePart
<1>4. SkipsEmptied'
    BY SkipsSameIs DEF SkipsEmptied
<1> QED
    BY <1>2, <1>3, <1>4

\* A file which was emptied before anything of it was read
LEMMA NothingRead ==
    ASSUME FilesType, ReaderType, fd # NoFile, Same, head = << >>, bufferStart + Len(buffer) = 0,
           content'[fd] = << >>, UNCHANGED <<fd, head, bufferStart, buffer>>
    PROVE  Same' /\ ~Emptied' /\ bufferStart = 0
<1>1. bufferStart = 0 /\ Len(buffer) = 0 /\ buffer = << >>
    BY DEF ReaderType
<1>2. Part(<< >>, 0, << >>)
    BY DEF Part
<1> QED
    BY <1>1, <1>2 DEF Same, Starts, Emptied, Other

LEMMA EmptiedNotStarts ==
    ASSUME NEW h \in Seq(Cell), Other(<< >>, h), NEW n, NEW b
    PROVE  ~(Starts(<< >>, h) /\ Part(<< >>, n, b))
BY DEF Other, Starts, Part

LEMMA TruncateKeeps ==
    ASSUME FInv, Truncate, Quiet
    PROVE  FInv'
<1>1. /\ path # NoFile /\ content' = [content EXCEPT ![path] = NoCells]
      /\ gone' = gone \cup (TextIn(content[path]) \ TextRead)
      /\ spoiled' = spoiled \cup
             (IF fd = path /\ (pc = "fill" \/ Uncovered(head, bufferStart + Len(buffer))) THEN {"mixed"} ELSE {})
             \cup (IF Unprotected(path) THEN {"unseen"} ELSE {})
    BY DEF Truncate
<1>2. /\ UNCHANGED <<path, writing, line, part, saved, written, pc, queue, firstOpen, fd, generation, head, buffer>>
      /\ UNCHANGED <<bufferStart, skipping, rotationSeen, committed, slot, retry, delivered, setting>>
      /\ UNCHANGED InQueue
    BY DEF Truncate, reader, reading, Quiet, InQueue
<1>3. Fewer
    BY <1>1, <1>2 DEF Fewer, Owed
<1>4. FilesType /\ ReaderType /\ FilesOK /\ OldOK /\ Standing /\ path \in Inodes
    BY <1>1 DEF FInv, FilesType
<1>5. Empties(path)
    BY <1>1, <1>2, <1>3, <1>4 DEF Empties
<1>6. \A j \in Inodes : content'[j] = IF j = path THEN << >> ELSE content[j]
    BY <1>4, <1>5, EmptiesIs
<1>7. FilesType' /\ ReaderType' /\ FilesOK' /\ OldOK' /\ Standing' /\ NextOrder'
    BY <1>2, <1>4, <1>5, EmptiesFiles DEF Standing
<1>8. StateOK' /\ StateCovers' /\ StateDelivered'
    BY <1>4, <1>5, EmptiesState DEF FInv
<1>9. ASSUME NEW c \in Owed', c \in In(content[path])
      PROVE  c \in TextRead /\ c.k # 0
    <2>1. c \in Owed /\ c.k # 0
        BY <1>3, <1>4, OwedIs DEF Fewer
    <2>2. c \in TextIn(content[path])
        BY <1>9, <2>1 DEF TextIn, IsNewLine
    <2>3. c \notin gone'
        BY DEF Owed
    <2> QED
        BY <1>1, <2>1, <2>2, <2>3
<1>10. \A c \in TextRead : Queued(c) \/ c \in In(buffer)
    BY DEF TextRead, TextIn, Queued
<1>11. Kept'
    <2> SUFFICES ASSUME spoiled' = {}, NEW c \in Owed'
                 PROVE  /\ ~firstOpen
                        /\ \/ Queued(c) \/ c \in In(buffer)
                           \/ fd # NoFile /\ fd # path /\ c \in In(content[fd])
        <3>1. fd # NoFile /\ fd # path => content'[fd] = content[fd]
            BY <1>4, <1>6 DEF ReaderType
        <3> QED
            BY <1>2, <3>1 DEF Kept, Queued
    <2>1. c \in Owed /\ spoiled = {}
        BY <1>1, <1>3 DEF Fewer
    <2>2. c \in In(content[path]) => Queued(c) \/ c \in In(buffer)
        BY <1>9, <1>10
    <2>3. ~firstOpen
        <3> SUFFICES ASSUME firstOpen PROVE FALSE
            OBVIOUS
        <3>1. c \in In(content[path]) /\ queue = << >> /\ buffer = << >>
            BY <2>1 DEF FInv, Kept, Standing
        <3> QED
            BY <2>2, <3>1 DEF Queued, In
    <2> QED
        BY <2>1, <2>2, <2>3 DEF FInv, Kept, InNextFile
<1>12. CASE fd # path
    <2>1. fd # NoFile => content'[fd] = content[fd]
        BY <1>4, <1>6, <1>12 DEF ReaderType
    <2>2. Standstill
        BY <1>2, <1>3, <2>1 DEF Standstill
    <2>3. PositionsOK' /\ QueueOrder' /\ FileOrder' /\ CommitOK' /\ QueueWhole'
        BY <2>2, StandsOrder DEF FInv
    <2>4. QueueCovers' /\ PositionsCovered' /\ LinesEnd' /\ EmptiedCovers'
        BY <2>2, StandsCovers DEF FInv
    <2>5. Reading /\ EndSeen
        BY DEF FInv
    <2>6. fd # NoFile /\ "mixed" \notin spoiled /\ Emptied => pc' # "fill" /\ ~(rotationSeen' /\ pc' = "end")
        <3> SUFFICES ASSUME fd # NoFile, "mixed" \notin spoiled, Emptied
                     PROVE  pc' # "fill" /\ ~(rotationSeen' /\ pc' = "end")
            OBVIOUS
        <3>1. ~Same
            BY <1>4, EmptiedNotSame
        <3> QED
            BY <1>2, <2>5, <3>1 DEF Reading
    <2>7. Reading' /\ EndSeen'
        BY <1>2, <2>2, <2>5, <2>6, StandsReading
    <2> QED
        BY <1>7, <1>8, <1>11, <2>3, <2>4, <2>7 DEF FInv
<1>13. CASE fd = path
    <2>1. fd \in Inodes /\ content'[fd] = << >> /\ fd # NoFile
        BY <1>1, <1>4, <1>6, <1>13
    <2>2. ~rotationSeen
        BY <1>4, <1>13 DEF Standing
    <2>3. PositionsOK' /\ QueueOrder' /\ CommitOK' /\ QueueWhole'
        BY <1>2, <1>3 DEF FInv, Fewer, PositionsOK, Positioned, QueueOrder, CommitOK, Uncommitted, QueueWhole, WholeLines
    <2>4. In(content'[fd]) = {}
        BY <2>1 DEF In
    <2>5. CASE "mixed" \in spoiled'
        <3>1. spoiled' # {}
            BY <2>5
        <3> QED
            BY <1>7, <1>8, <1>11, <2>3, <2>5, <3>1
            DEF FInv, Reading, QueueCovers, PositionsCovered, EndSeen, EmptiedCovers, LinesEnd, FileOrder
    <2>6. CASE "mixed" \notin spoiled'
        <3>1. "mixed" \notin spoiled /\ pc # "fill" /\ ~Uncovered(head, bufferStart + Len(buffer))
            BY <1>1, <1>13, <2>6
        <3>2. (spoiled' = {} => spoiled = {}) /\ Owed' \subseteq Owed
            BY <1>3 DEF Fewer
        <3>3. CASE Emptied
            <4>1. Emptied' /\ SkipsEmptied' /\ Shape(buffer)
                <5>1. ~Same
                    BY <1>4, <2>1, <3>3, EmptiedNotSame
                <5>2. SkipsEmptied /\ Shape(buffer)
                    BY <2>1, <3>1, <5>1 DEF FInv, Reading
                <5>3. Emptied'
                    BY <1>2, <2>1, <3>3 DEF Emptied, Other
                <5> QED
                    BY <1>2, <5>2, <5>3 DEF SkipsEmptied
            <4>2. ~Same'
                BY <1>2, <1>4, <2>1, <4>1, EmptiedNotStarts DEF ReaderType, Same, Emptied
            <4>3. Reading'
                BY <1>2, <2>2, <3>1, <4>1 DEF Reading
            <4>4. QueueCovers' /\ PositionsCovered' /\ EndSeen' /\ LinesEnd'
                BY <4>2 DEF QueueCovers, PositionsCovered, EndSeen, LinesEnd
            <4>5. EmptiedCovers'
                BY <1>2, <2>1, <3>2, <3>3 DEF FInv, EmptiedCovers, Queued
            <4>6. FileOrder'
                BY <1>2, <2>1, <2>4, <3>1, <3>3, <4>2 DEF FInv, FileOrder, NotAfter
            <4> QED
                BY <1>7, <1>8, <1>11, <2>3, <4>3, <4>4, <4>5, <4>6 DEF FInv
        <3>4. CASE Same /\ SkipsSame /\ head # << >>
            <4>1. Emptied' /\ SkipsEmptied' /\ Shape(buffer)
                BY <1>2, <1>4, <2>1, <3>4, EmptiedReader
            <4>2. ~Same'
                BY <1>2, <1>4, <2>1, <4>1, EmptiedNotStarts DEF ReaderType, Same, Emptied
            <4>3. Reading'
                BY <1>2, <2>2, <3>1, <4>1 DEF Reading
            <4>4. QueueCovers' /\ PositionsCovered' /\ EndSeen' /\ LinesEnd'
                BY <4>2 DEF QueueCovers, PositionsCovered, EndSeen, LinesEnd
            <4>5. /\ content[fd] \in Seq(Cell) /\ buffer \in Seq(Cell) /\ bufferStart \in Nat
                  /\ Part(content[fd], bufferStart, buffer)
                BY <1>4, <2>1, <3>4, FileType DEF ReaderType, Same
            <4>6. \A c \in In(buffer) : \E i \in 1..Len(content[fd]) : i > bufferStart /\ c = content[fd][i]
                <5> SUFFICES ASSUME NEW c \in In(buffer)
                             PROVE  \E i \in 1..Len(content[fd]) : i > bufferStart /\ c = content[fd][i]
                    OBVIOUS
                <5>1. PICK i \in 1..Len(buffer) : c = buffer[i]
                    BY <4>5, InIs
                <5>2. bufferStart + i \in 1..Len(content[fd]) /\ bufferStart + i > bufferStart
                    BY <4>5 DEF Part
                <5> QED
                    BY <4>5, <5>1, <5>2 DEF Part
            <4>7. EmptiedCovers'
                <5> SUFFICES ASSUME NEW c \in In(buffer), c \in Owed'
                             PROVE  Queued(c) \/ NewLine(c.line) \in In(buffer)
                    BY <1>2 DEF EmptiedCovers, Queued
                <5>1. c \in In(content[path])
                    BY <1>13, <4>5, <4>6, InIs
                <5>2. c \in TextRead
                    BY <1>9, <5>1
                <5> QED
                    BY <5>2 DEF TextRead, Queued, In
            <4>8. FileOrder'
                <5>1. NotAfter(InQueue, In(buffer))
                    BY <2>1, <3>1, <3>4, <4>5, <4>6 DEF FInv, FileOrder, NotAfter
                <5> QED
                    BY <1>2, <2>4, <4>2, <5>1 DEF FileOrder, NotAfter
            <4> QED
                BY <1>7, <1>8, <1>11, <2>3, <4>3, <4>4, <4>7, <4>8 DEF FInv
        <3>5. CASE Same /\ SkipsSame /\ head = << >>
            <4>1. bufferStart + Len(buffer) = 0
                <5> DEFINE n == bufferStart + Len(buffer)
                <5>1. n \in Nat
                    BY <1>4 DEF ReaderType
                <5>2. ~(0 < Min2(HeadMax, n))
                    BY <3>1, <3>5 DEF Uncovered
                <5> HIDE DEF n
                <5>3. n = 0
                    BY <5>1, <5>2, Limits DEF Min2
                <5> QED
                    BY <5>3 DEF n
            <4>2. Same' /\ ~Emptied' /\ bufferStart = 0
                BY <1>2, <1>4, <2>1, <3>5, <4>1, NothingRead
            <4>3. Reading'
                BY <1>2, <3>5, <4>2 DEF Reading, SkipsSame
            <4>4. EndSeen' /\ EmptiedCovers'
                BY <1>2, <2>2, <4>2 DEF EndSeen, EmptiedCovers
            <4>5. /\ \A n \in DOMAIN queue : queue[n].gen = generation => queue[n].end = 0
                  /\ slot.at.gen = generation => slot.at.end = 0
                  /\ retry.gen = generation => retry.end = 0
                <5>1. ASSUME NEW p, p.gen \in Nat, p.end \in Nat, Positioned(p), p.gen = generation PROVE p.end = 0
                    BY <4>2, <5>1 DEF Positioned
                <5>2. /\ \A n \in DOMAIN queue : queue[n].gen \in Nat /\ queue[n].end \in Nat /\ Positioned(queue[n])
                      /\ slot.at.gen \in Nat /\ slot.at.end \in Nat /\ Positioned(slot.at)
                      /\ retry.gen \in Nat /\ retry.end \in Nat /\ Positioned(retry)
                    BY <1>4, <2>1, QueueType DEF FInv, PositionsOK, ReaderType, Positions
                <5> QED
                    BY <5>1, <5>2
            <4>6. QueueCovers' /\ PositionsCovered'
                BY <1>2, <4>2, <4>5 DEF QueueCovers, PositionsCovered, Covered
            <4>7. LinesEnd'
                <5> SUFFICES ASSUME spoiled' = {}
                             PROVE  /\ \A n \in DOMAIN queue : queue[n].gen # generation
                                    /\ slot.at.gen = generation => slot.at.end = 0
                                    /\ retry.gen = generation => retry.end = 0
                    BY <1>2 DEF LinesEnd, Delivered
                <5>1. ASSUME NEW n \in DOMAIN queue, queue[n].gen = generation PROVE FALSE
                    <6>1. \E p \in 1..queue[n].end : LineEnds(p, queue[n].end)
                        BY <2>1, <3>2, <3>5, <5>1 DEF FInv, LinesEnd
                    <6> QED
                        BY <4>5, <5>1, <6>1
                <5> QED
                    BY <4>5, <5>1
            <4>8. FileOrder'
                BY <1>2, <2>1, <4>2 DEF FileOrder
            <4> QED
                BY <1>7, <1>8, <1>11, <2>3, <4>3, <4>4, <4>6, <4>7, <4>8 DEF FInv
        <3> QED
            BY <2>1, <3>1, <3>3, <3>4, <3>5 DEF FInv, Reading
    <2> QED
        BY <2>5, <2>6
<1> QED
    BY <1>12, <1>13

LEMMA WorldKeeps ==
    ASSUME FInv, World, Quiet
    PROVE  FInv'
<1>1. CASE WriteText \/ WriteNewLine
    <2>1. PICK c : Writes(c)
        BY <1>1, WritesCell DEF FInv
    <2> QED
        BY <2>1, WritesKeeps
<1> QED
    BY <1>1, ReopenKeeps, CreateKeeps, MoveAwayKeeps, TruncateKeeps DEF World

-----------------------------------------------------------------------------
(* The reader goes on in its buffer *)

LEMMA BufferShape ==
    ASSUME FilesType, ReaderType, FilesOK, Reading, fd # NoFile, "mixed" \notin spoiled
    PROVE  Shape(buffer)
<1>1. content[fd] \in Seq(Cell) /\ Shape(content[fd]) /\ buffer \in Seq(Cell) /\ bufferStart \in Nat
    BY OpenType DEF ReaderType, FilesOK
<1>2. CASE Same
    BY <1>1, <1>2, ShapePart DEF Same
<1>3. CASE ~Same
    BY <1>3 DEF Reading
<1> QED
    BY <1>2, <1>3

LEMMA ShapeLines ==
    ASSUME NEW s \in Seq(Cell), Shape(s), NEW i \in 1..Len(s), NEW j \in 1..Len(s), i < j
    PROVE  /\ s[i].line <= s[j].line
           /\ s[i].k = 0 => s[i].line < s[j].line
<1>0. i \in 1..Len(s) /\ j \in 1..Len(s) /\ i \in DOMAIN s /\ j \in DOMAIN s /\ i < j
    OBVIOUS
<1>1. Chain(s, i, j)
    BY <1>0 DEF Shape
<1>2. s[i] \in Cell /\ s[j] \in Cell
    BY <1>0
<1>3. s[i].line \in Nat /\ s[j].line \in Nat
    BY <1>2, CellType
<1> QED
    BY <1>1, <1>3 DEF Chain

\* Up to the end of a line its pieces follow each other
LEMMA LineIs ==
    ASSUME NEW s \in Seq(Cell), Shape(s), NEW n \in 1..Len(s), \A m \in 1..(n - 1) : s[m].k # 0,
           NEW i \in 1..n, NEW j \in 1..n, i < j
    PROVE  s[i].line = s[j].line /\ (s[j].k = 0 \/ s[j].k = s[i].k + (j - i))
<1>1. i \in 1..Len(s) /\ j \in 1..Len(s)
    OBVIOUS
<1>2. Chain(s, i, j)
    BY <1>1 DEF Shape
<1>3. ASSUME NEW m \in i..(j - 1), s[m] = NewLine(s[i].line) PROVE FALSE
    <2>1. m \in 1..(n - 1)
        OBVIOUS
    <2> QED
        BY <1>3, <2>1 DEF NewLine
<1> QED
    BY <1>2, <1>3 DEF Chain

LEMMA LeastOf ==
    ASSUME NEW T, T \subseteq Nat, T # {}
    PROVE  \E x \in T : \A y \in T : x <= y
<1> DEFINE Less == {p \in Nat \X Nat : p[1] < p[2]}
<1>1. IsWellFoundedOn(Less, Nat)
    BY NatLessThanWellFounded DEF OpToRel
<1> HIDE DEF Less
<1>2. PICK x \in T : \A y \in T : ~(<<y, x>> \in Less)
    BY <1>1, WFMin
<1>3. ASSUME NEW y \in T, ~(x <= y) PROVE FALSE
    <2>1. <<y, x>> \in Less
        BY <1>3 DEF Less
    <2> QED
        BY <1>2, <2>1
<1> QED
    BY <1>3

LEMMA FirstNewLineIs ==
    ASSUME NEW s \in Seq(Cell), HasNewLine(s)
    PROVE  /\ FirstNewLine(s) \in 1..Len(s) /\ s[FirstNewLine(s)].k = 0
           /\ \A j \in 1..(FirstNewLine(s) - 1) : s[j].k # 0
<1> DEFINE T == {i \in 1..Len(s) : s[i].k = 0}
<1>1. T \subseteq Nat /\ T # {}
    BY DEF HasNewLine, IsNewLine
<1>2. PICK x \in T : \A y \in T : x <= y
    BY <1>1, LeastOf
<1>3. x \in DOMAIN s /\ IsNewLine(s[x]) /\ \A j \in 1..(x - 1) : ~IsNewLine(s[j])
    <2>1. \A j \in 1..(x - 1) : j \in 1..Len(s) /\ ~(x <= j)
        BY <1>2
    <2> QED
        BY <1>2, <2>1 DEF IsNewLine
<1> DEFINE f == FirstNewLine(s)
<1>4. f \in DOMAIN s /\ IsNewLine(s[f]) /\ \A j \in 1..(f - 1) : ~IsNewLine(s[j])
    BY <1>3 DEF FirstNewLine
<1> HIDE DEF f
<1>5. f \in 1..Len(s) /\ s[f].k = 0 /\ \A j \in 1..(f - 1) : s[j].k # 0
    BY <1>4 DEF IsNewLine
<1> QED
    BY <1>5 DEF f

\* text is what is returned of the line which ends at the n-th cell of s
Taken(s, n, text) ==
    /\ n \in 0..Len(s) /\ text \in Seq(Cell) /\ Len(text) <= n
    /\ \A i \in 1..Len(text) : text[i] = s[i]
    /\ Shape(s) => /\ \A i \in 1..n : s[i].k \in 1..MaxLineLength => i <= Len(text)
                   /\ text # << >> => s[n].line = text[1].line
                   /\ \A i \in 1..Len(text) : text[i] = Text(text[1].line, text[1].k + i - 1)

LEMMA TakenIs ==
    ASSUME NEW s \in Seq(Cell), NEW n \in 1..Len(s), \A m \in 1..(n - 1) : s[m].k # 0,
           NEW text \in Seq(Cell), \A i \in 1..Len(text) : text[i] = s[i],
           \/ Len(text) = n /\ s[n].k # 0
           \/ Len(text) = Min2(n - 1, MaxLineLength) /\ s[n].k = 0
    PROVE  Taken(s, n, text)
<1>1. Len(text) \in Nat /\ Len(text) <= n /\ \A i \in 1..Len(text) : i \in 1..n /\ s[i].k # 0
    BY Limits DEF Min2
<1> SUFFICES ASSUME Shape(s)
             PROVE  /\ \A i \in 1..n : s[i].k \in 1..MaxLineLength => i <= Len(text)
                    /\ text # << >> => s[n].line = text[1].line
                    /\ \A i \in 1..Len(text) : text[i] = Text(text[1].line, text[1].k + i - 1)
    BY <1>1 DEF Taken
<1>2. ASSUME NEW i \in 1..n, s[i].k \in 1..MaxLineLength, i > Len(text) PROVE FALSE
    <2>1. s[n].k = 0 /\ Len(text) = Min2(n - 1, MaxLineLength)
        BY <1>2
    <2>2. i # n
        BY <1>2, <2>1
    <2>3. Len(text) = MaxLineLength /\ MaxLineLength < i /\ 1 < i
        BY <1>2, <2>1, <2>2, Limits DEF Min2
    <2>4. s[i].k = s[1].k + (i - 1)
        BY <1>2, <2>3, LineIs
    <2>5. s[1].k # 0 /\ s[1].k \in Nat
        <3>1. 1 \in 1..(n - 1) /\ s[1] \in Cell
            BY <2>2, <2>3
        <3> QED
            BY <3>1, CellType
    <2> QED
        BY <1>2, <2>3, <2>4, <2>5, Limits
<1>3. ASSUME text # << >> PROVE 1 \in 1..Len(text) /\ s[n].line = text[1].line
    <2>1. 1 \in 1..Len(text) /\ text[1] = s[1]
        BY <1>3
    <2>2. 1 < n => s[1].line = s[n].line
        BY <2>1, LineIs
    <2> QED
        BY <2>1, <2>2
<1>4. ASSUME NEW i \in 1..Len(text) PROVE text[i] = Text(text[1].line, text[1].k + i - 1)
    <2>1. 1 \in 1..n /\ i \in 1..n /\ text[1] = s[1] /\ text[i] = s[i]
        BY <1>1
    <2>2. s[1] \in Cell /\ s[i] \in Cell
        BY <2>1
    <2>3. s[1].k \in Nat /\ s[i].k # 0
        BY <1>1, <2>2, CellType
    <2>4. s[i].line = s[1].line /\ s[i].k = s[1].k + (i - 1)
        <3>1. CASE i = 1
            BY <2>3, <3>1
        <3>2. CASE 1 < i
            BY <2>1, <2>3, <3>2, LineIs
        <3> QED
            BY <3>1, <3>2
    <2>5. s[1].k + (i - 1) = s[1].k + i - 1
        BY <2>3
    <2> QED
        BY <2>1, <2>2, <2>4, <2>5 DEF Text, Cell
<1> QED
    BY <1>2, <1>3, <1>4, <1>1

\* d cells leave the buffer; text is the line which is returned of them, after the first e, or nothing
Advances(e, d, text) ==
    /\ fd # NoFile /\ e \in 0..d /\ d \in 0..Len(buffer) /\ text \in Seq(Cell) /\ Len(text) <= d - e
    /\ \A i \in 1..Len(text) : text[i] = buffer[e + i]
    /\ buffer' = Behind(buffer, d) /\ bufferStart' = bufferStart + d
    /\ queue' = IF text = << >> THEN queue ELSE Append(queue, [text |-> text, gen |-> generation, end |-> bufferStart'])
    /\ skipping' \in BOOLEAN /\ rotationSeen' \in BOOLEAN /\ (rotationSeen' => rotationSeen)
    /\ "mixed" \notin spoiled =>
           /\ \A i \in 1..d : buffer[i].k \in 1..MaxLineLength => \E j \in 1..Len(text) : buffer[i] = text[j]
           /\ text # << >> => buffer[d].line = text[1].line
           /\ \A i \in 1..Len(text) : text[i] = Text(text[1].line, text[1].k + i - 1)
           /\ skipping' => IF d = 0 THEN skipping ELSE buffer[d].k >= MaxLineLength
           /\ head' = head \/ Same
           /\ pc' = "fill" => Same
    /\ head' = head \/ head' = Prefix(content[fd], HeadMax)
    /\ pc' \in {"read", "round", "fill"}
    /\ pc' = "fill" => /\ \A i \in DOMAIN buffer' : buffer'[i].k # 0
                       /\ Len(buffer') <= MaxLineLength
                       /\ skipping' => buffer' = << >>
    /\ UNCHANGED <<content, path, writing, line, part, saved, written, gone, spoiled>>
    /\ UNCHANGED <<firstOpen, fd, generation, committed, slot, retry, delivered, setting>>

\* What was in the buffer is in it, or in the line
LEMMA AdvanceParts ==
    ASSUME FilesType, ReaderType, NEW e, NEW d, NEW text, Advances(e, d, text)
    PROVE  /\ d \in Nat /\ buffer' \in Seq(Cell) /\ Len(buffer') = Len(buffer) - d
           /\ \A i \in 1..Len(buffer') : buffer'[i] = buffer[d + i] /\ d + i \in 1..Len(buffer)
           /\ bufferStart' \in Nat /\ bufferStart' = bufferStart + d
           /\ text \in Seq(Cell)
           /\ \A i \in 1..Len(text) : text[i] = buffer[e + i] /\ e + i \in 1..d /\ e + i \in 1..Len(buffer)
           /\ text # << >> => 1 \in 1..Len(text) /\ d > 0
<1>1. buffer \in Seq(Cell) /\ bufferStart \in Nat
    BY DEF ReaderType
<1>2. d \in Nat /\ d <= Len(buffer) /\ e \in Nat /\ e <= d /\ text \in Seq(Cell) /\ Len(text) <= d - e
    BY <1>1 DEF Advances
<1>3. /\ buffer' \in Seq(Cell) /\ Len(buffer') = Len(buffer) - d
      /\ \A i \in 1..Len(buffer') : buffer'[i] = buffer[d + i]
    <2>1. buffer' = Behind(buffer, d)
        BY DEF Advances
    <2>2. /\ Behind(buffer, d) \in Seq(Cell) /\ Len(Behind(buffer, d)) = Len(buffer) - d
          /\ \A i \in 1..(Len(buffer) - d) : Behind(buffer, d)[i] = buffer[d + i]
        BY <1>1, <1>2, BehindIs
    <2> QED
        BY <2>1, <2>2
<1>4. \A i \in 1..Len(buffer') : d + i \in 1..Len(buffer)
    BY <1>1, <1>2, <1>3
<1>5. \A i \in 1..Len(text) : text[i] = buffer[e + i] /\ e + i \in 1..d /\ e + i \in 1..Len(buffer)
    <2>1. \A i \in 1..Len(text) : text[i] = buffer[e + i]
        BY DEF Advances
    <2>2. \A i \in 1..Len(text) : e + i \in 1..d /\ e + i \in 1..Len(buffer)
        BY <1>1, <1>2
    <2> QED
        BY <2>1, <2>2
<1>6. bufferStart' \in Nat /\ bufferStart' = bufferStart + d
    BY <1>1, <1>2 DEF Advances
<1>7. text # << >> => 1 \in 1..Len(text) /\ d > 0
    BY <1>2
<1> QED
    BY <1>2, <1>3, <1>4, <1>5, <1>6, <1>7

\* The queue, and the line behind it
LEMMA AdvanceQueue ==
    ASSUME FilesType, ReaderType, NEW e, NEW d, NEW text, Advances(e, d, text)
    PROVE  /\ queue' \in Seq(QueueLine) /\ Len(queue) <= Len(queue')
           /\ \A n \in 1..Len(queue) : queue'[n] = queue[n]
           /\ \A n \in 1..Len(queue') : n > Len(queue) =>
                  /\ n = Len(queue') /\ text # << >>
                  /\ queue'[n].text = text /\ queue'[n].gen = generation /\ queue'[n].end = bufferStart'
           /\ text # << >> => Len(queue') \in 1..Len(queue') /\ queue'[Len(queue')].text = text
<1>1. queue \in Seq(QueueLine)
    BY DEF ReaderType
<1>2. CASE text = << >>
    <2>1. queue' = queue
        BY <1>2 DEF Advances
    <2> QED
        BY <1>1, <1>2, <2>1
<1>3. CASE text # << >>
    <2> DEFINE r == [text |-> text, gen |-> generation, end |-> bufferStart']
    <2>1. r \in QueueLine /\ r.text = text /\ r.gen = generation /\ r.end = bufferStart'
        BY AdvanceParts DEF QueueLine, ReaderType
    <2>2. queue' = Append(queue, r)
        BY <1>3 DEF Advances
    <2> HIDE DEF r
    <2>3. /\ queue' \in Seq(QueueLine) /\ Len(queue') = Len(queue) + 1
          /\ \A n \in 1..Len(queue) : queue'[n] = queue[n]
          /\ queue'[Len(queue) + 1] = r
        BY <1>1, <2>1, <2>2, AppendIs
    <2> QED
        BY <1>1, <1>3, <2>1, <2>3
<1> QED
    BY <1>2, <1>3

LEMMA AdvanceIn ==
    ASSUME FilesType, ReaderType, NEW e, NEW d, NEW text, Advances(e, d, text)
    PROVE  /\ In(buffer') \subseteq In(buffer) /\ In(text) \subseteq In(buffer)
           /\ InQueue' \subseteq InQueue \cup In(text)
           /\ \A c : Queued(c) => Queued(c)'
           /\ text # << >> => \A c \in In(text) : Queued(c)'
<1>1. buffer \in Seq(Cell) /\ queue \in Seq(QueueLine)
    BY DEF ReaderType
<1>2. In(buffer') \subseteq In(buffer) /\ In(text) \subseteq In(buffer)
    <2>1. /\ buffer' \in Seq(Cell) /\ text \in Seq(Cell)
          /\ \A i \in 1..Len(buffer') : buffer'[i] = buffer[d + i] /\ d + i \in 1..Len(buffer)
          /\ \A i \in 1..Len(text) : text[i] = buffer[e + i] /\ e + i \in 1..Len(buffer)
        BY AdvanceParts
    <2>2. \A i \in 1..Len(buffer) : buffer[i] \in In(buffer)
        BY <1>1, InIs
    <2>3. \A c \in In(buffer') : \E i \in 1..Len(buffer') : c = buffer'[i]
        BY <2>1, InIs
    <2>4. \A c \in In(text) : \E i \in 1..Len(text) : c = text[i]
        BY <2>1, InIs
    <2>5. In(buffer') \subseteq In(buffer)
        BY <2>1, <2>2, <2>3
    <2>6. In(text) \subseteq In(buffer)
        BY <2>1, <2>2, <2>4
    <2> QED
        BY <2>5, <2>6
<1>3. InQueue' \subseteq InQueue \cup In(text)
    <2> SUFFICES ASSUME NEW n \in 1..Len(queue'), NEW c \in In(queue'[n].text)
                 PROVE  c \in InQueue \/ c \in In(text)
        BY AdvanceQueue DEF InQueue
    <2>1. CASE n <= Len(queue)
        <3>1. n \in 1..Len(queue)
            BY <1>1, <2>1
        <3>2. n \in DOMAIN queue /\ queue'[n] = queue[n]
            BY <1>1, <3>1, AdvanceQueue
        <3> QED
            BY <3>2 DEF InQueue
    <2>2. CASE n > Len(queue)
        BY <2>2, AdvanceQueue
    <2> QED
        BY <1>1, <2>1, <2>2
<1>4. ASSUME NEW c, Queued(c) PROVE Queued(c)'
    <2>1. PICK n \in 1..Len(queue) : c \in In(queue[n].text)
        BY <1>1, <1>4 DEF Queued
    <2>2. n \in 1..Len(queue') /\ queue'[n] = queue[n]
        BY <1>1, <2>1, AdvanceQueue
    <2>3. n \in DOMAIN queue'
        BY <2>2, AdvanceQueue
    <2> QED
        BY <2>1, <2>2, <2>3 DEF Queued
<1>5. ASSUME text # << >>, NEW c \in In(text) PROVE Queued(c)'
    <2>1. Len(queue') \in DOMAIN queue' /\ queue'[Len(queue')].text = text
        BY <1>5, AdvanceQueue
    <2> QED
        BY <1>5, <2>1 DEF Queued
<1> QED
    BY <1>2, <1>3, <1>4, <1>5

LEMMA AdvanceFewer ==
    ASSUME NEW e, NEW d, NEW text, Advances(e, d, text)
    PROVE  Fewer /\ Owed' = Owed
BY DEF Advances, Fewer, Owed

LEMMA AdvanceHead ==
    ASSUME FilesType, ReaderType, OldOK, NEW e, NEW d, NEW text, Advances(e, d, text)
    PROVE  head' \in Seq(Cell) /\ AllOld(In(head')) /\ (head' # head => Starts(content[fd], head'))
<1>1. CASE head' = head
    BY <1>1 DEF ReaderType, OldOK
<1>2. CASE head' = Prefix(content[fd], HeadMax)
    <2>1. content[fd] \in Seq(Cell) /\ fd \in Inodes /\ HeadMax \in Nat
        BY OpenType, Limits DEF Advances
    <2>2. Starts(content[fd], head') /\ head' \in Seq(Cell)
        BY <1>2, <2>1, StartsOfPrefix, PrefixIs
    <2>3. In(head') \subseteq In(content[fd])
        <3>1. \A i \in 1..Len(head') : i \in 1..Len(content[fd]) /\ head'[i] = content[fd][i]
            BY <2>1, <2>2 DEF Starts, Part
        <3> QED
            BY <2>1, <2>2, <3>1, InIs
    <2>4. AllOld(In(head'))
        BY <2>1, <2>3 DEF OldOK, AllOld
    <2> QED
        BY <2>2, <2>4
<1> QED
    BY <1>1, <1>2 DEF Advances

LEMMA AdvanceSame ==
    ASSUME FilesType, ReaderType, OldOK, Reading, NEW e, NEW d, NEW text, Advances(e, d, text), "mixed" \notin spoiled
    PROVE  (Same' <=> Same) /\ (Emptied' <=> Emptied)
<1>1. /\ fd # NoFile /\ fd \in Inodes /\ content[fd] \in Seq(Cell) /\ buffer \in Seq(Cell) /\ bufferStart \in Nat
      /\ d \in Nat /\ d <= Len(buffer)
    BY OpenType DEF Advances, ReaderType
<1>2. UNCHANGED <<fd, content>> /\ (head' = head \/ Same) /\ head' \in Seq(Cell)
    BY AdvanceHead DEF Advances
<1>3. CASE Same
    <2>1. Part(content[fd], bufferStart', buffer')
        BY <1>1, <1>3, PartOfPart DEF Same, Advances
    <2>2. Starts(content[fd], head')
        BY <1>3, AdvanceHead DEF Same
    <2>3. Same'
        BY <1>2, <2>1, <2>2 DEF Same
    <2>4. ~Emptied' /\ ~Emptied
        <3>1. ~Other(content[fd], head')
            BY <1>1, <1>2, <2>2, OtherNotStarts
        <3> QED
            BY <1>1, <1>2, <1>3, <3>1, EmptiedNotSame DEF Emptied
    <2> QED
        BY <1>3, <2>3, <2>4
<1>4. CASE ~Same
    <2>1. Emptied /\ head' = head
        BY <1>1, <1>2, <1>4 DEF Reading
    <2>2. Emptied'
        BY <1>2, <2>1 DEF Emptied
    <2>3. ~Starts(content[fd], head')
        BY <1>1, <1>2, <2>1, OtherNotStarts DEF Emptied
    <2> QED
        BY <1>2, <1>4, <2>1, <2>2, <2>3 DEF Same
<1> QED
    BY <1>3, <1>4

LEMMA AdvanceTypes ==
    ASSUME FilesType, ReaderType, FilesOK, OldOK, Standing, PositionsOK, CommitOK, NEW e, NEW d, NEW text,
           Advances(e, d, text)
    PROVE  FilesType' /\ ReaderType' /\ FilesOK' /\ OldOK' /\ Standing' /\ PositionsOK' /\ CommitOK'
<1>1. /\ UNCHANGED <<content, path, writing, line, part, saved, written, firstOpen, fd, generation>>
      /\ UNCHANGED <<committed, slot, retry>>
      /\ fd # NoFile
    BY DEF Advances
<1>2. FilesType' /\ FilesOK'
    BY <1>1 DEF FilesType, FilesOK
<1>3. buffer' \in Seq(Cell) /\ bufferStart' \in Nat /\ bufferStart' = bufferStart + d /\ d \in Nat
    BY AdvanceParts
<1>4. ReaderType'
    <2>1. head' \in Seq(Cell) /\ queue' \in Seq(QueueLine) /\ skipping' \in BOOLEAN /\ rotationSeen' \in BOOLEAN
        BY AdvanceHead, AdvanceQueue DEF Advances
    <2> QED
        BY <1>1, <1>3, <2>1 DEF ReaderType
<1>5. OldOK'
    <2>1. /\ In(buffer') \subseteq In(buffer) /\ InQueue' \subseteq InQueue \cup In(buffer)
          /\ AllOld(In(head'))
        BY AdvanceIn, AdvanceHead
    <2> QED
        BY <1>1, <2>1 DEF OldOK, AllOld, Old
<1>6. Standing'
    <2>1. ~firstOpen /\ generation > 0 /\ pc # "down" /\ (rotationSeen' => path # fd)
        BY <1>1 DEF Standing, Advances
    <2> QED
        BY <1>1, <2>1 DEF Standing, Advances
<1>7. generation \in Nat /\ bufferStart \in Nat /\ committed \in Nat
    BY DEF ReaderType
<1>8. ASSUME NEW p, p.gen \in Nat, p.end \in Nat, Positioned(p)
      PROVE  p.gen < generation \/ (p.gen = generation /\ p.end <= bufferStart')
    BY <1>3, <1>7, <1>8 DEF Positioned
<1>9. PositionsOK'
    <2>1. /\ slot.at.gen \in Nat /\ slot.at.end \in Nat /\ Positioned(slot.at)
          /\ retry.gen \in Nat /\ retry.end \in Nat /\ Positioned(retry)
        BY <1>1 DEF PositionsOK, ReaderType, Positions
    <2>2. ASSUME NEW n \in 1..Len(queue')
          PROVE  queue'[n].gen < generation \/ (queue'[n].gen = generation /\ queue'[n].end <= bufferStart')
        <3>1. CASE n <= Len(queue)
            <4>1. n \in DOMAIN queue /\ queue'[n] = queue[n]
                <5>1. n \in 1..Len(queue)
                    BY <3>1 DEF ReaderType
                <5> QED
                    BY <5>1, AdvanceQueue DEF ReaderType
            <4>2. queue[n].gen \in Nat /\ queue[n].end \in Nat /\ Positioned(queue[n])
                BY <1>1, <4>1, QueueType DEF PositionsOK
            <4> QED
                BY <1>8, <4>1, <4>2
        <3>2. CASE n > Len(queue)
            BY <1>3, <1>7, <3>2, AdvanceQueue
        <3> QED
            BY <3>1, <3>2 DEF ReaderType
    <2>3. DOMAIN queue' = 1..Len(queue')
        BY AdvanceQueue
    <2> QED
        BY <1>1, <1>8, <2>1, <2>2, <2>3 DEF PositionsOK, Positioned
<1>10. CommitOK'
    <2>1. committed <= bufferStart'
        BY <1>1, <1>3, <1>7 DEF CommitOK
    <2>2. ASSUME \A i \in DOMAIN queue : Uncommitted(queue[i]), NEW n \in 1..Len(queue'), queue'[n].gen = generation
          PROVE  queue'[n].end > committed
        <3>1. CASE n <= Len(queue)
            <4>1. n \in 1..Len(queue)
                BY <3>1 DEF ReaderType
            <4>2. n \in DOMAIN queue /\ queue'[n] = queue[n]
                BY <4>1, AdvanceQueue DEF ReaderType
            <4> QED
                BY <2>2, <4>2 DEF Uncommitted
        <3>2. CASE n > Len(queue)
            <4>1. queue'[n].end = bufferStart' /\ d > 0
                BY <3>2, AdvanceQueue, AdvanceParts
            <4> QED
                BY <1>1, <1>3, <1>7, <4>1 DEF CommitOK
        <3> QED
            BY <3>1, <3>2 DEF ReaderType
    <2>3. DOMAIN queue' = 1..Len(queue')
        BY AdvanceQueue
    <2>4. (\A i \in DOMAIN queue : Uncommitted(queue[i])) =>
              \A i \in DOMAIN queue' : queue'[i].gen = generation => queue'[i].end > committed
        BY <2>2, <2>3
    <2> QED
        BY <1>1, <2>1, <2>4 DEF CommitOK, Uncommitted
<1> QED
    BY <1>2, <1>4, <1>5, <1>6, <1>9, <1>10

LEMMA AdvanceReading ==
    ASSUME FilesType, ReaderType, FilesOK, OldOK, Reading, NEW e, NEW d, NEW text, Advances(e, d, text)
    PROVE  Reading' /\ EndSeen'
<1>1. EndSeen'
    BY DEF EndSeen, Advances
<1> SUFFICES ASSUME "mixed" \notin spoiled PROVE Reading'
    BY <1>1 DEF Reading, Advances
<1>2. /\ fd # NoFile /\ fd' = fd /\ content' = content /\ buffer \in Seq(Cell) /\ bufferStart \in Nat
      /\ content[fd] \in Seq(Cell)
      /\ d \in Nat /\ bufferStart' = bufferStart + d /\ d <= Len(buffer)
      /\ skipping' => IF d = 0 THEN skipping ELSE buffer[d].k >= MaxLineLength
    BY OpenType, AdvanceParts DEF Advances, ReaderType
<1>3. (Same' <=> Same) /\ (Emptied' <=> Emptied)
    BY AdvanceSame
<1>4. d > 0 => d \in 1..Len(buffer)
    BY <1>2
<1>5. CASE Same
    <2>1. SkipsSame
        BY <1>2, <1>5, EmptiedNotSame DEF Reading
    <2>2. d > 0 => content[fd][bufferStart + d] = buffer[d]
        BY <1>2, <1>4, <1>5 DEF Same, Part
    <2>3. SkipsSame'
        <3> SUFFICES ASSUME skipping'
                     PROVE  bufferStart' > 0 /\ content[fd][bufferStart'].k >= MaxLineLength
            BY <1>2 DEF SkipsSame
        <3>1. CASE d = 0
            BY <1>2, <2>1, <3>1 DEF SkipsSame
        <3>2. CASE d > 0
            BY <1>2, <2>2, <3>2
        <3> QED
            BY <1>2, <3>1, <3>2
    <2> QED
        BY <1>3, <1>5, <2>3 DEF Reading
<1>6. CASE ~Same
    <2>1. Emptied /\ SkipsEmptied /\ Shape(buffer) /\ pc # "fill"
        BY <1>2, <1>6 DEF Reading
    <2>2. pc' # "fill" /\ pc' # "end"
        BY <1>6 DEF Advances
    <2>3. Shape(buffer')
        <3>1. Part(buffer, d, buffer')
            <4>1. d + Len(buffer') <= Len(buffer)
                BY <1>2, AdvanceParts
            <4>2. buffer' \in Seq(Cell) /\ \A i \in 1..Len(buffer') : buffer'[i] = buffer[d + i]
                BY AdvanceParts
            <4>3. \A i \in DOMAIN buffer' : buffer'[i] = buffer[d + i]
                BY <4>2
            <4> QED
                BY <4>1, <4>3 DEF Part
        <3> QED
            BY <1>2, <2>1, <3>1, AdvanceParts, ShapePart
    <2>4. SkipsEmptied'
        <3> SUFFICES ASSUME skipping', buffer' # << >>
                     PROVE  buffer'[1].k = 0 \/ buffer'[1].k > MaxLineLength
            BY DEF SkipsEmptied
        <3>1. 1 \in 1..Len(buffer')
            BY AdvanceParts
        <3>2. buffer'[1] = buffer[d + 1] /\ d + 1 \in 1..Len(buffer)
            BY <3>1, AdvanceParts
        <3>3. CASE d = 0
            <4>1. buffer # << >> /\ buffer'[1] = buffer[1] /\ skipping
                BY <1>2, <3>2, <3>3
            <4> QED
                BY <2>1, <4>1 DEF SkipsEmptied
        <3>4. CASE d > 0
            <4>1. d \in 1..Len(buffer) /\ d < d + 1 /\ buffer[d].k >= MaxLineLength
                BY <1>2, <1>4, <3>4
            <4> QED
                BY <1>2, <2>1, <3>2, <4>1, LongGoesOn
        <3> QED
            BY <1>2, <3>3, <3>4
    <2> QED
        BY <1>3, <2>1, <2>2, <2>3, <2>4 DEF Reading
<1> QED
    BY <1>5, <1>6

\* What is owed of the cells which leave the buffer is in the line
LEMMA AdvanceOwed ==
    ASSUME FilesType, ReaderType, FilesOK, NEW e, NEW d, NEW text, Advances(e, d, text), "mixed" \notin spoiled,
           NEW i \in 1..d, buffer[i] \in Owed
    PROVE  text # << >> /\ buffer[i] \in In(text)
<1>1. buffer[i].k \in Nat /\ buffer[i].k > 0 /\ buffer[i].k <= MaxLineLength
    BY OwedIs DEF Cell
<1>2. buffer[i].k \in 1..MaxLineLength
    BY <1>1, Limits
<1>3. PICK j \in 1..Len(text) : buffer[i] = text[j]
    BY <1>2 DEF Advances
<1>4. text \in Seq(Cell)
    BY DEF Advances
<1> QED
    BY <1>3, <1>4, InIs

LEMMA AdvanceCovers ==
    ASSUME FilesType, ReaderType, FilesOK, OldOK, Reading, QueueCovers, PositionsCovered, NEW e, NEW d, NEW text,
           Advances(e, d, text)
    PROVE  QueueCovers' /\ PositionsCovered'
<1>1. /\ fd # NoFile /\ UNCHANGED <<fd, content, generation, slot, retry, spoiled>> /\ Owed' = Owed
    BY AdvanceFewer DEF Advances
<1> SUFFICES ASSUME spoiled = {}, Same'
             PROVE  QueueCovers' /\ PositionsCovered'
    BY <1>1 DEF QueueCovers, PositionsCovered
<1>2. Same
    BY AdvanceSame
<1>3. PositionsCovered'
    BY <1>1, <1>2 DEF PositionsCovered, Covered
<1>4. /\ queue \in Seq(QueueLine) /\ queue' \in Seq(QueueLine) /\ Len(queue) \in Nat /\ Len(queue') \in Nat
      /\ Len(queue) <= Len(queue')
      /\ \A n \in 1..Len(queue) : n \in 1..Len(queue') /\ queue'[n] = queue[n]
    BY AdvanceQueue DEF ReaderType
<1>5. ASSUME NEW m, NEW n, n \in 0..Len(queue), Covered(m, n)
      PROVE  \A i \in 1..m : content[fd][i] \in Owed => \E j \in 1..n : content[fd][i] \in In(queue'[j].text)
    BY <1>4, <1>5 DEF Covered
<1>6. \A i \in 1..bufferStart' : content[fd][i] \in Owed =>
          \E j \in 1..Len(queue') : content[fd][i] \in In(queue'[j].text)
    <2> SUFFICES ASSUME NEW i \in 1..bufferStart', content[fd][i] \in Owed
                 PROVE  \E j \in 1..Len(queue') : content[fd][i] \in In(queue'[j].text)
        OBVIOUS
    <2>1. bufferStart \in Nat /\ d \in Nat /\ bufferStart' = bufferStart + d /\ d <= Len(buffer)
        BY AdvanceParts DEF ReaderType, Advances
    <2>2. CASE i <= bufferStart
        <3>1. Covered(bufferStart, Len(queue))
            BY <1>1, <1>2 DEF QueueCovers
        <3>2. i \in 1..bufferStart
            BY <2>1, <2>2
        <3>3. \E j \in 1..Len(queue) : content[fd][i] \in In(queue'[j].text)
            BY <1>4, <1>5, <3>1, <3>2
        <3> QED
            BY <1>4, <3>3
    <2>3. CASE i > bufferStart
        <3> DEFINE j == i - bufferStart
        <3>1. j \in 1..d /\ bufferStart + j = i /\ j \in 1..Len(buffer)
            BY <2>1, <2>3 DEF ReaderType
        <3>2. content[fd][i] = buffer[j]
            <4>1. Part(content[fd], bufferStart, buffer) /\ j \in DOMAIN buffer
                BY <1>2, <3>1 DEF Same, ReaderType
            <4>2. buffer[j] = content[fd][bufferStart + j]
                BY <4>1 DEF Part
            <4> QED
                BY <3>1, <4>2
        <3> HIDE DEF j
        <3>3. text # << >> /\ buffer[j] \in In(text)
            BY <3>1, <3>2, AdvanceOwed
        <3>4. Len(queue') \in 1..Len(queue') /\ queue'[Len(queue')].text = text
            BY <3>3, AdvanceQueue
        <3> QED
            BY <3>2, <3>3, <3>4
    <2> QED
        BY <2>1, <2>2, <2>3
<1>7. ASSUME NEW n \in 1..Len(queue'), queue'[n].gen = generation
      PROVE  \A i \in 1..queue'[n].end : content[fd][i] \in Owed =>
                 \E j \in 1..n : content[fd][i] \in In(queue'[j].text)
    <2>1. CASE n <= Len(queue)
        <3>1. n \in 1..Len(queue)
            BY <1>4, <2>1
        <3>2. n \in DOMAIN queue /\ queue'[n] = queue[n] /\ n \in 0..Len(queue)
            BY <1>4, <3>1
        <3>3. Covered(queue[n].end, n)
            BY <1>1, <1>2, <1>7, <3>2 DEF QueueCovers
        <3> QED
            BY <1>5, <3>2, <3>3
    <2>2. CASE n > Len(queue)
        <3>1. n = Len(queue') /\ queue'[n].end = bufferStart'
            BY <2>2, AdvanceQueue
        <3> QED
            BY <1>6, <3>1
    <2> QED
        BY <1>4, <2>1, <2>2
<1>8. DOMAIN queue' = 1..Len(queue')
    BY <1>4
<1>9. QueueCovers'
    BY <1>1, <1>6, <1>7, <1>8 DEF QueueCovers, Covered
<1> QED
    BY <1>3, <1>9

LEMMA AdvanceKept ==
    ASSUME FilesType, ReaderType, FilesOK, OldOK, Standing, Reading, EmptiedCovers, Kept, NEW e, NEW d, NEW text,
           Advances(e, d, text)
    PROVE  EmptiedCovers' /\ Kept'
<1>1. /\ fd # NoFile /\ ~firstOpen /\ UNCHANGED <<firstOpen, fd, path, content, spoiled>> /\ Owed' = Owed
    BY AdvanceFewer DEF Advances, Standing
<1> SUFFICES ASSUME spoiled = {}
             PROVE  EmptiedCovers' /\ Kept'
    BY <1>1 DEF EmptiedCovers, Kept
<1>2. /\ buffer \in Seq(Cell) /\ buffer' \in Seq(Cell) /\ d \in Nat /\ Len(buffer') = Len(buffer) - d
      /\ \A i \in 1..Len(buffer') : buffer'[i] = buffer[d + i] /\ d + i \in 1..Len(buffer)
    BY AdvanceParts DEF ReaderType
<1>3. ASSUME NEW i \in 1..Len(buffer), i > d
      PROVE  buffer[i] \in In(buffer')
    <2> DEFINE j == i - d
    <2>1. j \in 1..Len(buffer') /\ d + j = i
        BY <1>2, <1>3
    <2>2. buffer'[j] = buffer[i]
        BY <1>2, <2>1
    <2> HIDE DEF j
    <2> QED
        BY <1>2, <2>1, <2>2, InIs
<1>4. ASSUME NEW c \in In(buffer), c \in Owed
      PROVE  Queued(c)' \/ c \in In(buffer')
    <2>1. PICK i \in 1..Len(buffer) : c = buffer[i]
        BY <1>2, InIs
    <2>2. CASE i > d
        BY <1>3, <2>1, <2>2
    <2>3. CASE i <= d
        <3>1. i \in 1..d
            BY <1>2, <2>3
        <3>2. text # << >> /\ c \in In(text)
            BY <1>4, <2>1, <3>1, AdvanceOwed
        <3> QED
            BY <3>2, AdvanceIn
    <2> QED
        BY <1>2, <2>2, <2>3
<1>5. Kept'
    <2> SUFFICES ASSUME NEW c \in Owed
                 PROVE  Queued(c)' \/ c \in In(buffer') \/ c \in In(content[fd]) \/ InNextFile(c)
        BY <1>1 DEF Kept, InNextFile
    <2>1. Queued(c) \/ c \in In(buffer) \/ c \in In(content[fd]) \/ InNextFile(c)
        BY <1>1 DEF Kept
    <2> QED
        BY <1>4, <2>1, AdvanceIn
<1>6. EmptiedCovers'
    <2> SUFFICES ASSUME Emptied', NEW c \in In(buffer'), c \in Owed
                 PROVE  Queued(c)' \/ NewLine(c.line) \in In(buffer')
        BY <1>1 DEF EmptiedCovers
    <2>1. Emptied /\ Shape(buffer)
        BY <1>1, AdvanceSame, BufferShape
    <2>2. PICK i \in 1..Len(buffer') : c = buffer'[i]
        BY <1>2, InIs
    <2>3. c = buffer[d + i] /\ d + i \in 1..Len(buffer)
        BY <1>2, <2>2
    <2>4. c \in In(buffer)
        BY <1>2, <2>3, InIs
    <2>5. Queued(c) \/ NewLine(c.line) \in In(buffer)
        BY <1>1, <2>1, <2>4 DEF EmptiedCovers
    <2>6. ASSUME NewLine(c.line) \in In(buffer) PROVE NewLine(c.line) \in In(buffer')
        <3>1. PICK j \in 1..Len(buffer) : buffer[j] = NewLine(c.line)
            BY <1>2, <2>6, InIs
        <3>2. buffer[j].line = c.line /\ buffer[j].k = 0
            BY <3>1 DEF NewLine
        <3>3. ~(j < d + i)
            <4>1. c.line \in Nat
                BY OwedIs DEF Cell
            <4> QED
                BY <1>2, <2>1, <2>3, <3>2, <4>1, ShapeLines
        <3>4. j > d
            BY <1>2, <2>2, <3>3
        <3> QED
            BY <1>3, <3>1, <3>4
    <2> QED
        BY <2>5, <2>6, AdvanceIn
<1> QED
    BY <1>5, <1>6

LEMMA AdvanceEnds ==
    ASSUME FilesType, ReaderType, OldOK, Reading, LinesEnd, NEW e, NEW d, NEW text, Advances(e, d, text)
    PROVE  LinesEnd'
<1>1. fd # NoFile /\ UNCHANGED <<fd, content, generation, slot, retry, delivered, spoiled>>
    BY DEF Advances
<1> SUFFICES ASSUME spoiled = {}, Same'
             PROVE  LinesEnd'
    BY <1>1 DEF LinesEnd
<1>2. Same
    BY AdvanceSame
<1>3. /\ queue \in Seq(QueueLine) /\ queue' \in Seq(QueueLine)
      /\ \A n \in 1..Len(queue) : queue'[n] = queue[n]
    BY AdvanceQueue DEF ReaderType
<1>4. ASSUME NEW n \in 1..Len(queue'), queue'[n].gen = generation
      PROVE  \E p \in 1..queue'[n].end : /\ p \in 1..queue'[n].end
                                         /\ content[fd][p].line = content[fd][queue'[n].end].line
                                         /\ content[fd][p] \in In(queue'[n].text)
    <2>1. CASE n <= Len(queue)
        <3>1. n \in 1..Len(queue)
            BY <1>3, <2>1
        <3>2. n \in DOMAIN queue /\ queue'[n] = queue[n]
            BY <1>3, <3>1
        <3> QED
            BY <1>1, <1>2, <1>4, <3>2 DEF LinesEnd, LineEnds
    <2>2. CASE n > Len(queue)
        <3>1. text # << >> /\ queue'[n].text = text /\ queue'[n].end = bufferStart + d /\ 1 \in 1..Len(text)
            BY <2>2, AdvanceQueue, AdvanceParts
        <3>2. /\ bufferStart \in Nat /\ d \in Nat /\ d \in 1..Len(buffer) /\ text \in Seq(Cell)
              /\ text[1] = buffer[e + 1] /\ e + 1 \in 1..d /\ e + 1 \in 1..Len(buffer)
              /\ buffer[d].line = text[1].line
            <4>1. d \in 1..Len(buffer) /\ buffer[d].line = text[1].line
                BY <3>1, AdvanceParts DEF Advances
            <4> QED
                BY <3>1, <4>1, AdvanceParts DEF ReaderType
        <3>3. content[fd][bufferStart + d] = buffer[d] /\ content[fd][bufferStart + (e + 1)] = buffer[e + 1]
            <4>1. \A m \in DOMAIN buffer : content[fd][bufferStart + m] = buffer[m]
                BY <1>2 DEF Same, Part
            <4>2. DOMAIN buffer = 1..Len(buffer)
                BY DEF ReaderType
            <4> QED
                BY <3>2, <4>1, <4>2
        <3>4. text[1] \in In(text)
            BY <3>1, <3>2, InIs
        <3> DEFINE p == bufferStart + (e + 1)
        <3>5. p \in 1..(bufferStart + d)
            BY <3>2
        <3>6. content[fd][p] = text[1] /\ content[fd][bufferStart + d].line = text[1].line
            BY <3>2, <3>3
        <3> HIDE DEF p
        <3> QED
            BY <3>1, <3>4, <3>5, <3>6
    <2> QED
        BY <1>3, <2>1, <2>2
<1>5. DOMAIN queue' = 1..Len(queue')
    BY <1>3
<1>6. /\ slot.at.gen = generation => Delivered(slot.at.end)
      /\ retry.gen = generation => Delivered(retry.end)
    BY <1>1, <1>2 DEF LinesEnd
<1> QED
    BY <1>1, <1>4, <1>5, <1>6 DEF LinesEnd, LineEnds, Delivered

LEMMA AdvanceOrder ==
    ASSUME FilesType, ReaderType, FilesOK, OldOK, Standing, Reading, QueueOrder, FileOrder, NextOrder, QueueWhole,
           NEW e, NEW d, NEW text, Advances(e, d, text)
    PROVE  QueueOrder' /\ FileOrder' /\ NextOrder' /\ QueueWhole'
<1>1. fd # NoFile /\ UNCHANGED <<fd, path, firstOpen, content, spoiled>>
    BY DEF Advances
<1> SUFFICES ASSUME "mixed" \notin spoiled
             PROVE  QueueOrder' /\ FileOrder' /\ NextOrder' /\ QueueWhole'
    BY <1>1 DEF QueueOrder, FileOrder, NextOrder, QueueWhole
<1>2. /\ buffer \in Seq(Cell) /\ bufferStart \in Nat /\ d \in Nat /\ text \in Seq(Cell)
      /\ fd \in Inodes /\ content[fd] \in Seq(Cell) /\ Shape(buffer) /\ Shape(content[fd])
      /\ bufferStart' = bufferStart + d /\ buffer' \in Seq(Cell)
    BY <1>1, OpenType, BufferShape, AdvanceParts DEF ReaderType, FilesOK
<1>3. In(buffer') \subseteq In(buffer) /\ In(text) \subseteq In(buffer) /\ InQueue' \subseteq InQueue \cup In(text)
    BY AdvanceIn
<1>4. (Same' <=> Same) /\ (Emptied' <=> Emptied)
    BY AdvanceSame
<1>5. ASSUME NEW c \in In(text)
      PROVE  \E i \in 1..d : i \in 1..Len(buffer) /\ c = buffer[i]
    <2>1. PICK j \in 1..Len(text) : c = text[j]
        BY <1>2, InIs
    <2>2. c = buffer[e + j] /\ e + j \in 1..d /\ e + j \in 1..Len(buffer)
        BY <2>1, AdvanceParts
    <2> QED
        BY <2>2
<1>6. ASSUME NEW c \in In(text), NEW b \in In(buffer')
      PROVE  c.line <= b.line
    <2>1. PICK i \in 1..d : i \in 1..Len(buffer) /\ c = buffer[i]
        BY <1>5
    <2>2. PICK j \in 1..Len(buffer') : b = buffer'[j]
        BY <1>2, InIs
    <2>3. b = buffer[d + j] /\ d + j \in 1..Len(buffer)
        BY <2>2, AdvanceParts
    <2>4. i < d + j
        BY <1>2, <2>2
    <2> QED
        BY <1>2, <2>1, <2>3, <2>4, ShapeLines
<1>7. NotAfter(InQueue, In(text))
    <2> SUFFICES ASSUME NEW a \in InQueue, NEW c \in In(text)
                 PROVE  a.line <= c.line
        BY DEF NotAfter
    <2>1. PICK i \in 1..d : i \in 1..Len(buffer) /\ c = buffer[i]
        BY <1>5
    <2>2. CASE Same
        <3>1. bufferStart + i \in 1..Len(content[fd]) /\ bufferStart + i > bufferStart
              /\ content[fd][bufferStart + i] = c
            BY <1>2, <2>1, <2>2 DEF Same, Part
        <3>2. bufferStart + i \in DOMAIN content[fd]
            BY <1>2, <3>1
        <3> QED
            BY <1>1, <2>2, <3>1, <3>2 DEF FileOrder, NotAfter
    <2>3. CASE ~Same
        BY <1>1, <1>3, <2>3 DEF Reading, FileOrder, NotAfter
    <2> QED
        BY <2>2, <2>3
<1>0. Len(queue) \in Nat /\ Len(queue') \in Nat
    <2>1. queue \in Seq(QueueLine) /\ queue' \in Seq(QueueLine)
        BY AdvanceQueue DEF ReaderType
    <2> QED
        BY <2>1
<1>8. /\ DOMAIN queue' = 1..Len(queue')
      /\ \A n \in 1..Len(queue) : n \in DOMAIN queue /\ queue'[n] = queue[n]
      /\ \A n \in 1..Len(queue') : n > Len(queue) => n = Len(queue') /\ queue'[n].text = text
    <2>1. queue \in Seq(QueueLine) /\ queue' \in Seq(QueueLine)
        BY AdvanceQueue DEF ReaderType
    <2>2. /\ \A n \in 1..Len(queue) : queue'[n] = queue[n]
          /\ \A n \in 1..Len(queue') : n > Len(queue) => n = Len(queue') /\ queue'[n].text = text
        BY AdvanceQueue
    <2> QED
        BY <2>1, <2>2
<1>9. QueueOrder'
    <2> SUFFICES ASSUME NEW i \in 1..Len(queue'), NEW j \in 1..Len(queue'), i < j
                 PROVE  NotAfter(In(queue'[i].text), In(queue'[j].text))
        BY <1>8 DEF QueueOrder
    <2>0. i \in Nat /\ j \in Nat /\ i >= 1 /\ i < j /\ j <= Len(queue') /\ i <= Len(queue')
        BY <1>0
    <2>1. i \in 1..Len(queue)
        <3>1. i > Len(queue) => i = Len(queue')
            BY <1>8
        <3> QED
            BY <1>0, <2>0, <3>1
    <2>2. In(queue'[i].text) \subseteq InQueue /\ queue'[i] = queue[i] /\ i \in DOMAIN queue
        BY <1>8, <2>1 DEF InQueue
    <2>3. CASE j <= Len(queue)
        <3>1. j \in 1..Len(queue)
            BY <1>0, <2>0, <2>3
        <3>2. j \in DOMAIN queue /\ queue'[j] = queue[j]
            BY <1>8, <3>1
        <3> QED
            BY <2>2, <3>2 DEF QueueOrder
    <2>4. CASE j > Len(queue)
        <3>1. queue'[j].text = text
            BY <1>8, <2>4
        <3> QED
            BY <1>7, <2>2, <3>1 DEF NotAfter
    <2> QED
        BY <1>0, <2>0, <2>3, <2>4
<1>10. FileOrder'
    <2>1. ASSUME Same, NEW i \in DOMAIN content[fd], i > bufferStart'
          PROVE  NotAfter(InQueue', {content[fd][i]})
        <3>1. i \in 1..Len(content[fd]) /\ i > bufferStart
            BY <1>2, <2>1
        <3>2. NotAfter(InQueue, {content[fd][i]})
            BY <1>1, <2>1, <3>1 DEF FileOrder
        <3>3. ASSUME NEW c \in In(text) PROVE c.line <= content[fd][i].line
            <4>1. PICK j \in 1..d : j \in 1..Len(buffer) /\ c = buffer[j]
                BY <1>5
            <4>2. bufferStart + j \in 1..Len(content[fd]) /\ content[fd][bufferStart + j] = c
                BY <1>2, <2>1, <4>1 DEF Same, Part
            <4>3. bufferStart + j < i
                BY <1>2, <2>1, <3>1, <4>1
            <4> QED
                BY <1>2, <3>1, <4>2, <4>3, ShapeLines
        <3> QED
            BY <1>3, <3>2, <3>3 DEF NotAfter
    <2>2. ASSUME Emptied
          PROVE  /\ NotAfter(InQueue', In(buffer')) /\ NotAfter(InQueue', In(content[fd]))
                 /\ NotAfter(In(buffer'), In(content[fd]))
        <3>1. NotAfter(InQueue, In(buffer)) /\ NotAfter(InQueue, In(content[fd])) /\ NotAfter(In(buffer), In(content[fd]))
            BY <1>1, <2>2 DEF FileOrder
        <3> QED
            BY <1>3, <1>6, <3>1 DEF NotAfter
    <2> QED
        BY <1>1, <1>4, <2>1, <2>2 DEF FileOrder
<1>11. NextOrder'
    <2> SUFFICES ASSUME ~firstOpen, path # NoFile, path # fd
                 PROVE  /\ NotAfter(InQueue', In(content[path])) /\ NotAfter(In(buffer'), In(content[path]))
                        /\ NotAfter(In(content[fd]), In(content[path]))
        BY <1>1 DEF NextOrder
    <2>1. /\ NotAfter(InQueue, In(content[path])) /\ NotAfter(In(buffer), In(content[path]))
          /\ NotAfter(In(content[fd]), In(content[path]))
        BY <1>1 DEF NextOrder
    <2> QED
        BY <1>3, <2>1 DEF NotAfter
<1>12. QueueWhole'
    <2> SUFFICES ASSUME NEW n \in 1..Len(queue'), NEW i \in DOMAIN queue'[n].text
                 PROVE  queue'[n].text[i] = Text(queue'[n].text[1].line, queue'[n].text[1].k + i - 1)
        BY <1>8 DEF QueueWhole, WholeLines
    <2>0. n \in Nat /\ n >= 1
        BY <1>0
    <2>1. CASE n <= Len(queue)
        <3>1. n \in 1..Len(queue)
            BY <1>0, <2>0, <2>1
        <3>2. n \in DOMAIN queue /\ queue'[n] = queue[n]
            BY <1>8, <3>1
        <3> QED
            BY <3>2 DEF QueueWhole, WholeLines
    <2>2. CASE n > Len(queue)
        <3>1. queue'[n].text = text
            BY <1>8, <2>2
        <3>2. i \in 1..Len(text)
            BY <1>2, <3>1
        <3>3. \A m \in 1..Len(text) : text[m] = Text(text[1].line, text[1].k + m - 1)
            BY DEF Advances
        <3> QED
            BY <3>1, <3>2, <3>3
    <2> QED
        BY <1>0, <2>0, <2>1, <2>2
<1> QED
    BY <1>9, <1>10, <1>11, <1>12

LEMMA AdvanceKeeps ==
    ASSUME FInv, NEW e, NEW d, NEW text, Advances(e, d, text)
    PROVE  FInv'
<1>1. /\ FilesType /\ ReaderType /\ FilesOK /\ OldOK /\ Standing /\ PositionsOK /\ Reading
      /\ QueueCovers /\ PositionsCovered /\ EndSeen /\ EmptiedCovers /\ LinesEnd /\ Kept
      /\ StateOK /\ StateCovers /\ StateDelivered
      /\ QueueOrder /\ FileOrder /\ NextOrder /\ CommitOK /\ QueueWhole
    BY DEF FInv
<1>2. FilesType' /\ ReaderType' /\ FilesOK' /\ OldOK' /\ Standing' /\ PositionsOK' /\ CommitOK'
    BY <1>1, AdvanceTypes
<1>3. Reading' /\ EndSeen'
    BY <1>1, AdvanceReading
<1>4. QueueCovers' /\ PositionsCovered'
    BY <1>1, AdvanceCovers
<1>5. EmptiedCovers' /\ Kept'
    BY <1>1, AdvanceKept
<1>6. LinesEnd'
    BY <1>1, AdvanceEnds
<1>7. StateOK' /\ StateCovers' /\ StateDelivered'
    <2>1. content' = content
        BY DEF Advances
    <2> QED
        BY <1>1, <2>1, AdvanceFewer, StateKeeps
<1>8. QueueOrder' /\ FileOrder' /\ NextOrder' /\ QueueWhole'
    BY <1>1, AdvanceOrder
<1> QED
    BY <1>2, <1>3, <1>4, <1>5, <1>6, <1>7, <1>8 DEF FInv

LEMMA BehindBehind ==
    ASSUME NEW s \in Seq(Cell), NEW e \in Nat, e <= Len(s), NEW n \in Nat, n <= Len(s) - e
    PROVE  Behind(Behind(s, e), n) = Behind(s, e + n)
<1> DEFINE b == Behind(s, e)
           t == Behind(b, n)
           u == Behind(s, e + n)
<1>1. b \in Seq(Cell) /\ Len(b) = Len(s) - e /\ \A i \in 1..(Len(s) - e) : b[i] = s[e + i]
    BY BehindIs
<1> HIDE DEF b
<1>2. t \in Seq(Cell) /\ Len(t) = Len(b) - n /\ \A i \in 1..(Len(b) - n) : t[i] = b[n + i]
    <2>1. n <= Len(b) /\ b \in Seq(Cell)
        BY <1>1
    <2>2. /\ Behind(b, n) \in Seq(Cell) /\ Len(Behind(b, n)) = Len(b) - n
          /\ \A i \in 1..(Len(b) - n) : Behind(b, n)[i] = b[n + i]
        BY <2>1, BehindIs
    <2> QED
        BY <2>2
<1>3. u \in Seq(Cell) /\ Len(u) = Len(s) - (e + n) /\ \A i \in 1..(Len(s) - (e + n)) : u[i] = s[(e + n) + i]
    <2>1. e + n \in Nat /\ e + n <= Len(s)
        OBVIOUS
    <2> QED
        BY <2>1, BehindIs
<1> HIDE DEF t, u
<1>4. Len(t) = Len(u)
    BY <1>1, <1>2, <1>3
<1>5. ASSUME NEW i \in 1..Len(t) PROVE t[i] = u[i]
    <2>1. i \in 1..(Len(b) - n) /\ i \in 1..(Len(s) - (e + n)) /\ n + i \in 1..(Len(s) - e) /\ e + (n + i) = (e + n) + i
        BY <1>1, <1>2, <1>3
    <2> QED
        BY <1>1, <1>2, <1>3, <2>1
<1>6. t = u
    BY <1>2, <1>3, <1>4, <1>5, SeqEq
<1> QED
    BY <1>6 DEF t, u, b

LEMMA BehindPart ==
    ASSUME NEW s \in Seq(Cell), NEW e \in Nat, e <= Len(s)
    PROVE  Part(s, e, Behind(s, e))
<1>1. /\ Behind(s, e) \in Seq(Cell) /\ Len(Behind(s, e)) = Len(s) - e
      /\ \A i \in 1..(Len(s) - e) : Behind(s, e)[i] = s[e + i]
    BY BehindIs
<1> QED
    BY <1>1 DEF Part

LEMMA BehindAll ==
    ASSUME NEW s \in Seq(Cell)
    PROVE  Behind(s, 0) = s /\ Behind(s, Len(s)) = << >>
<1>1. Behind(s, 0) = s
    <2> DEFINE t == Behind(s, 0)
    <2>1. t \in Seq(Cell) /\ Len(t) = Len(s) - 0 /\ \A i \in 1..(Len(s) - 0) : t[i] = s[0 + i]
        BY BehindIs
    <2> HIDE DEF t
    <2>2. Len(t) = Len(s) /\ \A i \in 1..Len(s) : t[i] = s[i]
        BY <2>1
    <2>3. t = s
        BY <2>1, <2>2, SeqEq
    <2> QED
        BY <2>3 DEF t
<1>2. Behind(s, Len(s)) = << >>
    BY BehindNothing
<1> QED
    BY <1>1, <1>2

\* While the rest of a line is skipped, nothing of the buffer up to the next new line is owed
LEMMA SkippedIs ==
    ASSUME FilesType, ReaderType, FilesOK, Reading, fd # NoFile, "mixed" \notin spoiled, skipping,
           NEW n \in 1..Len(buffer), \A m \in 1..(n - 1) : buffer[m].k # 0, NEW i \in 1..n
    PROVE  buffer[i].k = 0 \/ buffer[i].k > MaxLineLength
<1>1. buffer \in Seq(Cell) /\ Shape(buffer)
    BY BufferShape DEF ReaderType
<1>2. buffer # << >> /\ n \in Nat /\ 1 <= n /\ n <= Len(buffer) /\ i \in Nat /\ 1 <= i /\ i <= n
    BY <1>1
<1>3. SkipsEmptied
    BY SkipsSameIs DEF Reading
<1>4. buffer[1].k = 0 \/ buffer[1].k > MaxLineLength
    BY <1>2, <1>3 DEF SkipsEmptied
<1>5. CASE i = 1
    BY <1>4, <1>5
<1>6. CASE i > 1
    <2>1. 1 \in 1..n /\ i \in 1..n /\ 1 \in 1..(n - 1) /\ 1 \in 1..Len(buffer)
        BY <1>2, <1>6
    <2>2. buffer[i].k = 0 \/ buffer[i].k = buffer[1].k + (i - 1)
        BY <1>1, <1>6, <2>1, LineIs
    <2>3. buffer[1].k # 0 /\ buffer[1] \in Cell
        BY <1>1, <2>1
    <2>4. buffer[1].k \in Nat
        BY <2>3, CellType
    <2> QED
        BY <1>2, <1>4, <1>6, <2>2, <2>3, <2>4, Limits
<1> QED
    BY <1>2, <1>5, <1>6

\* The rest of the buffer behind what is skipped
LEMMA RestIs ==
    ASSUME FilesType, ReaderType, FilesOK, Reading, fd # NoFile
    PROVE  \E e \in Nat :
               /\ e <= Len(buffer) /\ Rest = Behind(buffer, e) /\ RestStart = bufferStart + e
               /\ StillSkipping => e = Len(buffer)
               /\ "mixed" \notin spoiled =>
                      /\ \A i \in 1..e : buffer[i].k = 0 \/ buffer[i].k > MaxLineLength
                      /\ StillSkipping /\ e > 0 => buffer[e].k > MaxLineLength
<1>1. buffer \in Seq(Cell) /\ bufferStart \in Nat /\ Len(buffer) \in Nat /\ skipping \in BOOLEAN
    BY DEF ReaderType
<1>2. ASSUME NEW e \in Nat, e <= Len(buffer), Rest = Behind(buffer, e) PROVE RestStart = bufferStart + e
    <2>1. Len(Rest) = Len(buffer) - e
        BY <1>1, <1>2, BehindIs
    <2> QED
        BY <1>1, <1>2, <2>1 DEF RestStart
<1>3. CASE ~skipping
    <2>1. Rest = Behind(buffer, 0) /\ ~StillSkipping
        BY <1>1, <1>3, BehindAll DEF Rest, StillSkipping
    <2> QED
        BY <1>1, <1>2, <2>1
<1>4. CASE skipping /\ HasNewLine(buffer)
    <2>1. PICK e \in Nat : e = FirstNewLine(buffer) /\ e \in 1..Len(buffer) /\ \A j \in 1..(e - 1) : buffer[j].k # 0
        BY <1>1, <1>4, FirstNewLineIs
    <2>2. Rest = Behind(buffer, e) /\ ~StillSkipping /\ e <= Len(buffer)
        BY <1>4, <2>1 DEF Rest, StillSkipping
    <2>3. "mixed" \notin spoiled => \A i \in 1..e : buffer[i].k = 0 \/ buffer[i].k > MaxLineLength
        BY <1>4, <2>1, SkippedIs
    <2> QED
        BY <1>2, <2>2, <2>3
<1>5. CASE skipping /\ ~HasNewLine(buffer)
    <2>1. PICK e \in Nat : e = Len(buffer)
        BY <1>1
    <2>2. Rest = Behind(buffer, e)
        BY <1>1, <1>5, <2>1, BehindAll DEF Rest, NoCells
    <2>3. \A j \in 1..e : buffer[j].k # 0
        BY <1>1, <1>5, <2>1 DEF HasNewLine, IsNewLine
    <2>4. "mixed" \notin spoiled => \A i \in 1..e : buffer[i].k = 0 \/ buffer[i].k > MaxLineLength
        <3> SUFFICES ASSUME "mixed" \notin spoiled, NEW i \in 1..e
                     PROVE  buffer[i].k = 0 \/ buffer[i].k > MaxLineLength
            OBVIOUS
        <3>1. e \in 1..Len(buffer) /\ \A m \in 1..(e - 1) : buffer[m].k # 0
            BY <2>1, <2>3
        <3> QED
            BY <1>5, <3>1, SkippedIs
    <2>5. e > 0 => e \in 1..e
        OBVIOUS
    <2> QED
        BY <1>2, <2>1, <2>2, <2>3, <2>4, <2>5
<1> QED
    BY <1>1, <1>3, <1>4, <1>5

\* Taking a line behind what is skipped leaves nothing in the buffer that is owed
LEMMA TakenAdvances ==
    ASSUME FilesType, ReaderType, FilesOK, Reading, fd # NoFile, "mixed" \notin spoiled,
           NEW e \in Nat, e <= Len(buffer), \A i \in 1..e : buffer[i].k = 0 \/ buffer[i].k > MaxLineLength,
           NEW n, NEW text, Taken(Behind(buffer, e), n, text)
    PROVE  /\ \A i \in 1..(e + n) : buffer[i].k \in 1..MaxLineLength => \E j \in 1..Len(text) : buffer[i] = text[j]
           /\ text # << >> => buffer[e + n].line = text[1].line
           /\ \A i \in 1..Len(text) : text[i] = Text(text[1].line, text[1].k + i - 1)
<1> DEFINE s == Behind(buffer, e)
<1>1. buffer \in Seq(Cell) /\ Shape(buffer)
    BY BufferShape DEF ReaderType
<1>2. s \in Seq(Cell) /\ Len(s) = Len(buffer) - e /\ (\A i \in 1..(Len(buffer) - e) : s[i] = buffer[e + i]) /\ Shape(s)
    <2>1. s \in Seq(Cell) /\ Len(s) = Len(buffer) - e /\ \A i \in 1..(Len(buffer) - e) : s[i] = buffer[e + i]
        BY <1>1, BehindIs
    <2> QED
        BY <1>1, <2>1, BehindPart, ShapePart
<1> HIDE DEF s
<1>3. /\ n \in 0..Len(s) /\ text \in Seq(Cell) /\ Len(text) <= n
      /\ \A i \in 1..Len(text) : text[i] = s[i]
      /\ \A i \in 1..n : s[i].k \in 1..MaxLineLength => i <= Len(text)
      /\ text # << >> => s[n].line = text[1].line
      /\ \A i \in 1..Len(text) : text[i] = Text(text[1].line, text[1].k + i - 1)
    BY <1>2 DEF Taken, s
<1>4. n \in Nat /\ n <= Len(buffer) - e
    BY <1>1, <1>2, <1>3
<1>5. ASSUME NEW i \in 1..(e + n), buffer[i].k \in 1..MaxLineLength
      PROVE  \E j \in 1..Len(text) : buffer[i] = text[j]
    <2>1. i > e
        <3>1. i <= e => i \in 1..e
            BY <1>4
        <3>2. ~(buffer[i].k = 0 \/ buffer[i].k > MaxLineLength)
            BY <1>5, Limits
        <3> QED
            BY <1>4, <3>1, <3>2
    <2> DEFINE j == i - e
    <2>2. j \in 1..n /\ j \in 1..(Len(buffer) - e) /\ e + j = i /\ j \in Nat /\ j >= 1
        BY <1>1, <1>4, <2>1
    <2> HIDE DEF j
    <2>3. s[j] = buffer[i]
        BY <1>2, <2>2
    <2>4. j <= Len(text)
        BY <1>3, <1>5, <2>2, <2>3
    <2>5. j \in 1..Len(text)
        BY <1>3, <2>2, <2>4
    <2>6. text[j] = buffer[i]
        BY <1>3, <2>3, <2>5
    <2> QED
        BY <2>5, <2>6
<1>6. ASSUME text # << >> PROVE buffer[e + n].line = text[1].line
    <2>1. n \in 1..(Len(buffer) - e)
        BY <1>3, <1>4, <1>6
    <2> QED
        BY <1>2, <1>3, <1>6, <2>1
<1> QED
    BY <1>3, <1>5, <1>6

LEMMA ExtractTaken ==
    ASSUME NEW s \in Seq(Cell), HasNewLine(s) \/ Len(s) > MaxLineLength,
           NEW n, n = IF HasNewLine(s) THEN FirstNewLine(s) ELSE MaxLineLength,
           NEW text, text = Prefix(IF HasNewLine(s) THEN SubSeq(s, 1, n - 1) ELSE s, MaxLineLength)
    PROVE  /\ n \in 1..Len(s) /\ Taken(s, n, text)
           /\ ~HasNewLine(s) => Len(text) = n /\ n = MaxLineLength /\ s[n].k # 0
<1>1. CASE HasNewLine(s)
    <2>1. n \in 1..Len(s) /\ s[n].k = 0 /\ \A j \in 1..(n - 1) : s[j].k # 0
        BY <1>1, FirstNewLineIs
    <2> DEFINE t == SubSeq(s, 1, n - 1)
    <2>2. t \in Seq(Cell) /\ Len(t) = n - 1 /\ \A i \in 1..(n - 1) : t[i] = s[i]
        BY <2>1
    <2>3. text = Prefix(t, MaxLineLength)
        BY <1>1
    <2> HIDE DEF t
    <2>4. text \in Seq(Cell) /\ Len(text) = Min2(MaxLineLength, Len(t)) /\ \A i \in 1..Len(text) : text[i] = t[i]
        BY <2>2, <2>3, PrefixIs, Limits
    <2>5. Len(text) = Min2(n - 1, MaxLineLength) /\ Len(text) <= n - 1
        BY <2>1, <2>2, <2>4, Limits DEF Min2
    <2>6. \A i \in 1..Len(text) : text[i] = s[i]
        BY <2>1, <2>2, <2>4, <2>5
    <2> QED
        <3>1. \A m \in 1..(n - 1) : s[m].k # 0
            BY <2>1
        <3>2. Taken(s, n, text)
            <4>1. n \in 1..Len(s) /\ s[n].k = 0 /\ text \in Seq(Cell)
                BY <2>1, <2>4
            <4>2. Len(text) = Min2(n - 1, MaxLineLength)
                BY <2>5
            <4> QED
                BY <2>6, <3>1, <4>1, <4>2, TakenIs, Zenon
        <3> QED
            BY <1>1, <2>1, <3>2
<1>2. CASE ~HasNewLine(s)
    <2>1. n = MaxLineLength /\ n \in 1..Len(s) /\ text = Prefix(s, n)
        BY <1>2, Limits
    <2>2. \A j \in 1..Len(s) : s[j].k # 0
        BY <1>2 DEF HasNewLine, IsNewLine
    <2>3. text \in Seq(Cell) /\ Len(text) = Min2(n, Len(s)) /\ \A i \in 1..Len(text) : text[i] = s[i]
        BY <2>1, PrefixIs
    <2>4. Len(text) = n
        BY <2>1, <2>3 DEF Min2
    <2>5. s[n].k # 0 /\ \A j \in 1..(n - 1) : s[j].k # 0
        BY <2>1, <2>2
    <2>6. Taken(s, n, text)
        BY <2>1, <2>3, <2>4, <2>5, TakenIs
    <2> QED
        BY <1>2, <2>1, <2>4, <2>5, <2>6
<1> QED
    BY <1>1, <1>2

LEMMA ExtractAdvances ==
    ASSUME FInv, ExtractLine, Quiet
    PROVE  \E e, d, text : Advances(e, d, text)
<1>1. FilesType /\ ReaderType /\ FilesOK /\ Reading /\ fd # NoFile
    BY DEF FInv, ExtractLine
<1>2. PICK e \in Nat :
          /\ e <= Len(buffer) /\ Rest = Behind(buffer, e) /\ RestStart = bufferStart + e
          /\ "mixed" \notin spoiled => \A i \in 1..e : buffer[i].k = 0 \/ buffer[i].k > MaxLineLength
    BY <1>1, RestIs
<1>3. PICK s : s = Rest
    OBVIOUS
<1>4. /\ buffer \in Seq(Cell) /\ bufferStart \in Nat /\ s = Behind(buffer, e)
      /\ s \in Seq(Cell) /\ Len(s) = Len(buffer) - e /\ \A i \in 1..(Len(buffer) - e) : s[i] = buffer[e + i]
    <2>1. buffer \in Seq(Cell) /\ bufferStart \in Nat /\ s = Behind(buffer, e) /\ e <= Len(buffer)
        BY <1>1, <1>2, <1>3 DEF ReaderType
    <2>2. /\ Behind(buffer, e) \in Seq(Cell) /\ Len(Behind(buffer, e)) = Len(buffer) - e
          /\ \A i \in 1..(Len(buffer) - e) : Behind(buffer, e)[i] = buffer[e + i]
        BY <2>1, BehindIs
    <2> QED
        BY <2>1, <2>2
<1>5. PICK n : n = IF HasNewLine(s) THEN FirstNewLine(s) ELSE MaxLineLength
    OBVIOUS
<1>6. PICK text : text = Prefix(IF HasNewLine(s) THEN SubSeq(s, 1, n - 1) ELSE s, MaxLineLength)
    OBVIOUS
<1>7. /\ n \in 1..Len(s) /\ Taken(s, n, text)
      /\ ~HasNewLine(s) => Len(text) = n /\ n = MaxLineLength /\ s[n].k # 0
    BY <1>1, <1>3, <1>4, <1>5, <1>6, ExtractTaken DEF ExtractLine, HasLine
<1>8. /\ buffer' = Behind(s, n) /\ bufferStart' = RestStart + n /\ skipping' = ~HasNewLine(s)
      /\ Return(text, RestStart + n)
    BY <1>3, <1>5, <1>6 DEF ExtractLine
<1>9. /\ UNCHANGED <<content, path, writing, line, part, saved, written, gone, spoiled>>
      /\ UNCHANGED <<firstOpen, fd, generation, head, rotationSeen, committed, slot, retry, delivered, setting>>
    BY DEF ExtractLine, fileHistory, world, Quiet
<1>10. PICK d : d = e + n
    OBVIOUS
<1>11. n \in Nat /\ n <= Len(buffer) - e /\ d \in Nat /\ d <= Len(buffer) /\ e <= d /\ d > 0 /\ d - e = n
    BY <1>4, <1>7, <1>10
<1>12. /\ text \in Seq(Cell) /\ Len(text) <= n /\ \A i \in 1..Len(text) : text[i] = s[i] /\ i \in 1..(Len(buffer) - e)
    <2>1. text \in Seq(Cell) /\ Len(text) <= n /\ \A i \in 1..Len(text) : text[i] = s[i]
        BY <1>7 DEF Taken
    <2> QED
        BY <1>11, <2>1
<1>13. e \in 0..d /\ d \in 0..Len(buffer) /\ Len(text) <= d - e /\ \A i \in 1..Len(text) : text[i] = buffer[e + i]
    BY <1>4, <1>11, <1>12
<1>14. buffer' = Behind(buffer, d)
    BY <1>2, <1>4, <1>8, <1>10, <1>11, BehindBehind
<1>15. bufferStart' = bufferStart + d /\ bufferStart' = RestStart + n
    BY <1>2, <1>4, <1>8, <1>10, <1>11
<1>16. /\ queue' = IF text = << >> THEN queue ELSE Append(queue, [text |-> text, gen |-> generation, end |-> bufferStart'])
       /\ pc' \in {"read", "round"}
    BY <1>8, <1>15 DEF Return, NoCells
<1>17. ASSUME "mixed" \notin spoiled
       PROVE  /\ \A i \in 1..d : buffer[i].k \in 1..MaxLineLength => \E j \in 1..Len(text) : buffer[i] = text[j]
              /\ text # << >> => buffer[d].line = text[1].line
              /\ \A i \in 1..Len(text) : text[i] = Text(text[1].line, text[1].k + i - 1)
              /\ skipping' => buffer[d].k >= MaxLineLength
    <2>1. /\ \A i \in 1..(e + n) : buffer[i].k \in 1..MaxLineLength => \E j \in 1..Len(text) : buffer[i] = text[j]
          /\ text # << >> => buffer[e + n].line = text[1].line
          /\ \A i \in 1..Len(text) : text[i] = Text(text[1].line, text[1].k + i - 1)
        <3>1. /\ Taken(Behind(buffer, e), n, text) /\ e <= Len(buffer)
              /\ \A i \in 1..e : buffer[i].k = 0 \/ buffer[i].k > MaxLineLength
            BY <1>2, <1>4, <1>7, <1>17
        <3> QED
            BY <1>1, <1>17, <3>1, TakenAdvances
    <2>2. ASSUME skipping' PROVE buffer[d].k >= MaxLineLength
        <3>1. Len(text) = n /\ n = MaxLineLength
            BY <1>7, <1>8, <2>2
        <3>2. 1 \in 1..n /\ n \in 1..n
            BY <1>7, <1>11
        <3>3. text[n] = Text(text[1].line, text[1].k + n - 1) /\ text[n] = buffer[d]
            BY <1>10, <1>13, <2>1, <3>1, <3>2
        <3>4. text[1] = s[1] /\ text[1] \in Cell
            BY <1>12, <3>1, <3>2
        <3>5. text[1].k # 0 /\ text[1].k \in Nat
            <4>1. text[1].k \in Nat
                BY <3>4, CellType
            <4>2. ~HasNewLine(s)
                BY <1>8, <2>2
            <4>3. s[1].k # 0
                <5>1. 1 \in DOMAIN s
                    BY <1>4, <1>7
                <5> QED
                    BY <4>2, <5>1 DEF HasNewLine, IsNewLine
            <4> QED
                BY <3>4, <4>1, <4>3
        <3>6. buffer[d].k = text[1].k + n - 1
            BY <3>3 DEF Text
        <3> QED
            BY <1>11, <3>1, <3>5, <3>6
    <2> QED
        BY <1>10, <2>1, <2>2
<1>18. skipping' \in BOOLEAN /\ rotationSeen' \in BOOLEAN
    BY <1>1, <1>8, <1>9 DEF ReaderType
<1>19. d # 0 /\ pc' # "fill"
    BY <1>11, <1>16
<1>20. Advances(e, d, text)
    BY <1>1, <1>9, <1>12, <1>13, <1>14, <1>15, <1>16, <1>17, <1>18, <1>19 DEF Advances
<1> QED
    BY <1>20

\* What the reader looks at, before it reads on, is what it would look at without the skipped rest
LEMMA ChangedIs ==
    ASSUME FilesType, ReaderType, FilesOK, Reading, fd # NoFile, "mixed" \notin spoiled
    PROVE  Changed <=> ~Same
<1>1. PICK e \in Nat : e <= Len(buffer) /\ Rest = Behind(buffer, e) /\ RestStart = bufferStart + e
    BY RestIs
<1>2. buffer \in Seq(Cell) /\ bufferStart \in Nat /\ Len(buffer) \in Nat
    BY DEF ReaderType
<1>3. Len(Rest) = Len(buffer) - e
    BY <1>1, <1>2, BehindIs
<1>4. RestStart + Len(Rest) = bufferStart + Len(buffer)
    BY <1>1, <1>2, <1>3
<1>5. Changed <=> WillChange
    BY <1>4 DEF Changed, WillChange
<1> QED
    BY <1>5, WillChangeIs

LEMMA CheckAdvances ==
    ASSUME FInv, CheckFile, Quiet
    PROVE  \E e, d, text : Advances(e, d, text)
<1>1. FilesType /\ ReaderType /\ FilesOK /\ Reading /\ fd # NoFile /\ ~HasLine /\ ~Changed
    BY DEF FInv, CheckFile
<1>2. PICK e \in Nat :
          /\ e <= Len(buffer) /\ Rest = Behind(buffer, e) /\ RestStart = bufferStart + e
          /\ StillSkipping => e = Len(buffer)
          /\ "mixed" \notin spoiled =>
                 /\ \A i \in 1..e : buffer[i].k = 0 \/ buffer[i].k > MaxLineLength
                 /\ StillSkipping /\ e > 0 => buffer[e].k > MaxLineLength
    BY <1>1, RestIs
<1>3. PICK text : text = << >>
    OBVIOUS
<1>4. /\ buffer' = Behind(buffer, e) /\ bufferStart' = bufferStart + e /\ skipping' = StillSkipping
      /\ head' = Prefix(content[fd], HeadMax) /\ pc' = "fill" /\ queue' = queue
      /\ UNCHANGED <<content, path, writing, line, part, saved, written, gone, spoiled>>
      /\ UNCHANGED <<firstOpen, fd, generation, rotationSeen, committed, slot, retry, delivered, setting>>
    BY <1>2 DEF CheckFile, fileHistory, world, Quiet
<1>5. buffer \in Seq(Cell) /\ Len(buffer) \in Nat
    BY <1>1 DEF ReaderType
<1>6. /\ text \in Seq(Cell) /\ Len(text) = 0 /\ e \in 0..e /\ e \in 0..Len(buffer) /\ Len(text) <= e - e
      /\ \A i \in 1..Len(text) : text[i] = buffer[e + i]
    BY <1>2, <1>3, <1>5
<1>7. ASSUME "mixed" \notin spoiled
      PROVE  /\ \A i \in 1..e : buffer[i].k \in 1..MaxLineLength => \E j \in 1..Len(text) : buffer[i] = text[j]
             /\ \A i \in 1..Len(text) : text[i] = Text(text[1].line, text[1].k + i - 1)
             /\ skipping' => IF e = 0 THEN skipping ELSE buffer[e].k >= MaxLineLength
             /\ Same
    <2>1. \A i \in 1..e : buffer[i].k \notin 1..MaxLineLength
        BY <1>2, <1>7, Limits
    <2>2. \A i \in 1..Len(text) : FALSE
        BY <1>6
    <2>3. ASSUME skipping' PROVE IF e = 0 THEN skipping ELSE buffer[e].k >= MaxLineLength
        <3>1. StillSkipping /\ skipping
            BY <1>4, <2>3 DEF StillSkipping
        <3>2. CASE e = 0
            BY <3>1, <3>2
        <3>3. CASE e # 0
            <4>1. e \in 1..Len(buffer) /\ buffer[e].k > MaxLineLength
                BY <1>2, <1>5, <1>7, <3>1, <3>3
            <4>2. buffer[e] \in Cell
                BY <1>5, <4>1
            <4>3. buffer[e].k \in Nat
                BY <4>2, CellType
            <4> QED
                BY <3>3, <4>1, <4>3, Limits
        <3> QED
            BY <3>2, <3>3
    <2>4. Same
        BY <1>1, <1>7, ChangedIs
    <2> QED
        BY <2>1, <2>2, <2>3, <2>4
<1>8. /\ \A i \in DOMAIN buffer' : buffer'[i].k # 0
      /\ Len(buffer') <= MaxLineLength
      /\ skipping' => buffer' = << >>
    <2>1. ~HasNewLine(Rest) /\ ~(Len(Rest) > MaxLineLength) /\ buffer' = Rest
        BY <1>1, <1>2, <1>4 DEF HasLine
    <2>2. Len(Rest) \in Nat
        BY <1>2, <1>5, BehindIs
    <2>3. skipping' => buffer' = << >>
        BY <1>2, <1>4, <1>5, BehindAll
    <2> QED
        BY <2>1, <2>2, <2>3, Limits DEF HasNewLine, IsNewLine
<1>9. skipping' \in BOOLEAN /\ rotationSeen' \in BOOLEAN
    BY <1>1, <1>4 DEF ReaderType, StillSkipping
<1>10. Advances(e, e, text)
    BY <1>1, <1>3, <1>4, <1>6, <1>7, <1>8, <1>9 DEF Advances
<1> QED
    BY <1>10

LEMMA EmitAdvances ==
    ASSUME FInv, EmitRemainder, pc = "end", fd # NoFile, HasPart, rotationSeen' \in BOOLEAN, rotationSeen' => rotationSeen,
           Quiet
    PROVE  \E e, d, text : Advances(e, d, text)
<1>1. FilesType /\ ReaderType /\ FilesOK /\ Reading /\ Standing
    BY DEF FInv
<1>2. PICK text : text = buffer
    OBVIOUS
<1>3. PICK n : n = Len(buffer)
    OBVIOUS
<1>4. /\ buffer \in Seq(Cell) /\ bufferStart \in Nat /\ n \in Nat /\ buffer # << >> /\ ~skipping /\ n # 0
      /\ \A i \in 1..n : buffer[i].k # 0
    <2>1. buffer \in Seq(Cell) /\ bufferStart \in Nat /\ buffer # << >> /\ ~skipping
        BY <1>1 DEF ReaderType, HasPart, NoCells
    <2>2. \A i \in DOMAIN buffer : buffer[i].k # 0
        BY <1>1 DEF Standing
    <2> QED
        BY <1>3, <2>1, <2>2
<1>5. /\ buffer' = << >> /\ bufferStart' = bufferStart + n
      /\ queue' = Append(queue, [text |-> text, gen |-> generation, end |-> bufferStart'])
      /\ pc' \in {"read", "round"}
    BY <1>2, <1>3, <1>4 DEF EmitRemainder, Return, NoCells
<1>6. /\ UNCHANGED <<content, path, writing, line, part, saved, written, gone, spoiled>>
      /\ UNCHANGED <<firstOpen, fd, generation, head, skipping, committed, slot, retry, delivered, setting>>
    BY DEF EmitRemainder, fileHistory, world, Quiet
<1>7. buffer' = Behind(buffer, n) /\ Behind(buffer, 0) = buffer
    BY <1>3, <1>4, <1>5, BehindAll
<1>8. ASSUME "mixed" \notin spoiled
      PROVE  /\ \A i \in 1..n : buffer[i].k \in 1..MaxLineLength => \E j \in 1..Len(text) : buffer[i] = text[j]
             /\ text # << >> => buffer[n].line = text[1].line
             /\ \A i \in 1..Len(text) : text[i] = Text(text[1].line, text[1].k + i - 1)
    <2>1. Taken(buffer, n, text)
        BY <1>2, <1>3, <1>4, TakenIs
    <2>2. Shape(buffer)
        BY <1>1, <1>8, BufferShape
    <2> QED
        BY <1>2, <1>3, <2>1, <2>2 DEF Taken
<1>9. /\ 0 \in 0..n /\ n \in 0..Len(buffer) /\ text \in Seq(Cell) /\ Len(text) <= n - 0 /\ text # << >>
      /\ \A i \in 1..Len(text) : text[i] = buffer[0 + i]
    BY <1>2, <1>3, <1>4
<1>10. ~skipping' /\ skipping' \in BOOLEAN /\ pc' # "fill" /\ head' = head
    BY <1>1, <1>4, <1>5, <1>6 DEF ReaderType
<1>11. Advances(0, n, text)
    BY <1>5, <1>6, <1>7, <1>8, <1>9, <1>10 DEF Advances
<1> QED
    BY <1>11

LEMMA ReturnsKeep ==
    ASSUME FInv, ReturnLast \/ ReturnIncomplete, Quiet
    PROVE  FInv'
<1>1. /\ EmitRemainder /\ pc = "end" /\ HasPart /\ rotationSeen' \in BOOLEAN /\ (rotationSeen' => rotationSeen)
      /\ fd # NoFile
    <2>1. ReaderType /\ Standing
        BY DEF FInv
    <2>2. pc = "end" => fd # NoFile
        BY <2>1 DEF Standing
    <2> QED
        BY <2>1, <2>2 DEF ReturnLast, ReturnIncomplete, ReaderType
<1>2. PICK e, d, text : Advances(e, d, text)
    BY <1>1, EmitAdvances
<1> QED
    BY <1>2, AdvanceKeeps

-----------------------------------------------------------------------------
(* The steps of the reader which only go on in its code, and the read behind the buffer *)

\* The files, the state file, and what is owed stay
Inside ==
    /\ UNCHANGED <<content, path, writing, line, part, written, gone, spoiled>>
    /\ UNCHANGED <<saved, generation, head, bufferStart, skipping, committed, queue, slot, retry, delivered, setting>>

LEMMA GoesOn ==
    ASSUME FInv, Inside, UNCHANGED <<firstOpen, fd, buffer>>,
           pc' = pc \/ pc' \in {"round", "ended"},
           rotationSeen' \in BOOLEAN, rotationSeen' => fd # NoFile /\ path # fd,
           pc' = "end" /\ rotationSeen' => rotationSeen
    PROVE  FInv'
<1>1. Standstill
    BY DEF Inside, Standstill, Fewer, Owed
<1>2. PositionsOK' /\ QueueOrder' /\ FileOrder' /\ CommitOK' /\ QueueWhole'
    BY <1>1, StandsOrder DEF FInv
<1>3. QueueCovers' /\ PositionsCovered' /\ LinesEnd' /\ EmptiedCovers'
    BY <1>1, StandsCovers DEF FInv
<1>4. Reading' /\ EndSeen'
    <2>1. Reading /\ EndSeen
        BY DEF FInv
    <2>2. fd # NoFile /\ "mixed" \notin spoiled /\ Emptied => pc' # "fill" /\ ~(rotationSeen' /\ pc' = "end")
        <3> SUFFICES ASSUME fd # NoFile, "mixed" \notin spoiled, Emptied
                     PROVE  pc' # "fill" /\ ~(rotationSeen' /\ pc' = "end")
            OBVIOUS
        <3>1. ~Same
            BY EmptiedNotSame DEF FInv
        <3> QED
            BY <2>1, <3>1 DEF Reading
    <2> QED
        BY <1>1, <2>1, <2>2, StandsReading
<1>5. StateOK' /\ StateCovers' /\ StateDelivered'
    BY <1>1, StateKeeps DEF FInv, Standstill, Inside
<1>6. FilesType' /\ FilesOK'
    BY DEF FInv, Inside, FilesType, FilesOK
<1>7. ReaderType' /\ Standing'
    <2>1. ReaderType'
        BY DEF FInv, Inside, ReaderType
    <2>2. Standing'
        BY DEF FInv, Inside, Standing
    <2> QED
        BY <2>1, <2>2
<1>8. OldOK'
    BY DEF FInv, Inside, OldOK, AllOld, Old, InQueue
<1>9. Kept' /\ NextOrder'
    BY DEF FInv, Inside, Kept, Queued, InNextFile, Owed, NextOrder, InQueue
<1> QED
    BY <1>2, <1>3, <1>4, <1>5, <1>6, <1>7, <1>8, <1>9 DEF FInv

LEMMA PlacesKeep ==
    ASSUME FInv, UNCHANGED <<slot, retry, delivered, setting>>,
           NothingToOpen \/ SeeRotation \/ WaitForMore \/ EndThread \/ Start \/ RequestShutdown
    PROVE  FInv'
<1>1. ReaderType /\ Standing
    BY DEF FInv
<1>3. CASE NothingToOpen
    <2>1. Inside /\ UNCHANGED <<firstOpen, fd, buffer, rotationSeen>> /\ pc' = "round"
        BY <1>3 DEF NothingToOpen, Inside, world, reader, reading, fileHistory
    <2> QED
        BY <1>1, <2>1, GoesOn DEF ReaderType, Standing
<1>4. CASE SeeRotation
    <2>1. Inside /\ UNCHANGED <<firstOpen, fd, buffer>> /\ pc' = "round" /\ rotationSeen' = TRUE
        BY <1>4 DEF SeeRotation, Inside, world, reading, fileHistory
    <2>2. fd # NoFile /\ path # fd
        BY <1>1, <1>4 DEF SeeRotation, PathReplaced, Standing
    <2> QED
        BY <2>1, <2>2, GoesOn
<1>5. CASE WaitForMore
    <2>1. Inside /\ UNCHANGED <<firstOpen, fd, buffer>> /\ pc' = "round" /\ rotationSeen' = FALSE
        BY <1>5 DEF WaitForMore, Inside, world, reading, fileHistory
    <2> QED
        BY <2>1, GoesOn
<1>6. CASE EndThread
    <2>1. Inside /\ UNCHANGED <<firstOpen, fd, buffer, rotationSeen>> /\ pc' = "ended"
        BY <1>6 DEF EndThread, Inside, world, reader, reading, fileHistory
    <2> QED
        BY <1>1, <2>1, GoesOn DEF ReaderType, Standing
<1>7. CASE Start
    <2>1. Inside /\ UNCHANGED <<firstOpen, fd, buffer, rotationSeen>> /\ pc' = "round"
        BY <1>7 DEF Start, Inside, world, reader, reading, fileHistory
    <2> QED
        BY <1>1, <2>1, GoesOn DEF ReaderType, Standing
<1>8. CASE RequestShutdown
    <2>1. Inside /\ UNCHANGED <<firstOpen, fd, buffer, rotationSeen, pc>>
        BY <1>8 DEF RequestShutdown, Inside, world, reader, reading, fileHistory
    <2> QED
        BY <1>1, <2>1, GoesOn DEF ReaderType, Standing
<1> QED
    BY <1>3, <1>4, <1>5, <1>6, <1>7, <1>8

LEMMA ConcatIs ==
    ASSUME NEW S, NEW s \in Seq(S), NEW t \in Seq(S)
    PROVE  /\ s \o t \in Seq(S) /\ Len(s \o t) = Len(s) + Len(t)
           /\ \A i \in 1..Len(s \o t) : (s \o t)[i] = IF i <= Len(s) THEN s[i] ELSE t[i - Len(s)]
OBVIOUS

LEMMA ReadIs ==
    ASSUME FilesType, ReaderType, fd # NoFile, Unread # NoCells, buffer' = buffer \o Prefix(Unread, ChunkMax)
    PROVE  /\ buffer' \in Seq(Cell) /\ In(buffer) \subseteq In(buffer')
           /\ In(buffer') \subseteq In(buffer) \cup In(content[fd])
           /\ Part(content[fd], bufferStart, buffer) => Part(content[fd], bufferStart, buffer')
<1> DEFINE s == content[fd]
           n == bufferStart + Len(buffer)
           u == Behind(s, n)
           t == Prefix(u, ChunkMax)
<1>1. s \in Seq(Cell) /\ buffer \in Seq(Cell) /\ bufferStart \in Nat /\ n \in Nat /\ ChunkMax \in Nat
    BY OpenType, Limits DEF ReaderType
<1>2. u # << >> /\ n = bufferStart + Len(buffer)
    BY DEF Unread, NoCells
<1>5. buffer' = buffer \o t
    BY DEF Unread
<1> HIDE DEF s, n
<1>3. n < Len(s)
    <2>1. n >= Len(s) => u = << >>
        BY <1>1, BehindNothing
    <2>2. n \in Nat /\ Len(s) \in Nat
        BY <1>1
    <2> QED
        BY <1>2, <2>1, <2>2
<1>4. u \in Seq(Cell) /\ Len(u) = Len(s) - n /\ \A i \in 1..(Len(s) - n) : u[i] = s[n + i]
    <2>1. n <= Len(s)
        BY <1>1, <1>3
    <2> QED
        BY <1>1, <2>1, BehindIs
<1> HIDE DEF u
<1>6. t \in Seq(Cell) /\ Len(t) = Min2(ChunkMax, Len(u)) /\ \A i \in 1..Len(t) : t[i] = u[i]
    BY <1>1, <1>4, PrefixIs
<1>7. Len(t) <= Len(s) - n
    BY <1>1, <1>3, <1>4, <1>6 DEF Min2
<1> HIDE DEF t
<1>8. \A i \in 1..Len(t) : t[i] = s[n + i] /\ n + i \in 1..Len(s)
    <2>1. \A i \in 1..Len(t) : i \in 1..(Len(s) - n) /\ n + i \in 1..Len(s)
        BY <1>1, <1>3, <1>6, <1>7
    <2> QED
        BY <1>4, <1>6, <2>1
<1>9. /\ buffer' \in Seq(Cell) /\ Len(buffer') = Len(buffer) + Len(t)
      /\ \A i \in 1..Len(buffer') : buffer'[i] = IF i <= Len(buffer) THEN buffer[i] ELSE t[i - Len(buffer)]
    <2>1. buffer \in Seq(Cell) /\ t \in Seq(Cell)
        BY <1>1, <1>6
    <2>2. /\ buffer \o t \in Seq(Cell) /\ Len(buffer \o t) = Len(buffer) + Len(t)
          /\ \A i \in 1..Len(buffer \o t) : (buffer \o t)[i] = IF i <= Len(buffer) THEN buffer[i] ELSE t[i - Len(buffer)]
        BY <2>1, ConcatIs
    <2> QED
        BY <1>5, <2>2
<1>10. ASSUME NEW i \in 1..Len(buffer'), i > Len(buffer)
       PROVE  bufferStart + i \in 1..Len(s) /\ buffer'[i] = s[bufferStart + i]
    <2>1. i - Len(buffer) \in 1..Len(t) /\ n + (i - Len(buffer)) = bufferStart + i
        <3>1. Len(buffer) \in Nat /\ Len(t) \in Nat /\ n = bufferStart + Len(buffer) /\ i \in Nat /\ i <= Len(buffer) + Len(t)
            BY <1>1, <1>2, <1>6, <1>9
        <3> QED
            BY <1>1, <1>10, <3>1
    <2>2. ~(i <= Len(buffer))
        BY <1>1, <1>9, <1>10
    <2> QED
        BY <1>8, <1>9, <2>1, <2>2
<1>11. In(buffer) \subseteq In(buffer')
    <2> SUFFICES ASSUME NEW i \in 1..Len(buffer)
                 PROVE  buffer[i] \in In(buffer')
        BY <1>1, InIs
    <2>1. i \in 1..Len(buffer') /\ i <= Len(buffer)
        BY <1>1, <1>6, <1>9
    <2>2. buffer'[i] = buffer[i]
        BY <1>9, <2>1
    <2> QED
        BY <1>9, <2>1, <2>2, InIs
<1>12. In(buffer') \subseteq In(buffer) \cup In(s)
    <2> SUFFICES ASSUME NEW c, c \in In(buffer')
                 PROVE  c \in In(buffer) \/ c \in In(s)
        OBVIOUS
    <2>0. PICK i \in 1..Len(buffer') : c = buffer'[i]
        BY <1>9, InIs
    <2>1. CASE i <= Len(buffer)
        <3>1. i \in 1..Len(buffer) /\ buffer'[i] = buffer[i]
            BY <1>1, <1>9, <2>1
        <3> QED
            BY <1>1, <2>0, <3>1, InIs
    <2>2. CASE i > Len(buffer)
        <3>1. bufferStart + i \in 1..Len(s) /\ c = s[bufferStart + i]
            BY <1>10, <2>0, <2>2
        <3> QED
            BY <1>1, <3>1, InIs
    <2> QED
        BY <1>1, <2>1, <2>2
<1>13. ASSUME Part(s, bufferStart, buffer) PROVE Part(s, bufferStart, buffer')
    <2>1. bufferStart + Len(buffer') <= Len(s)
        <3>1. Len(buffer) \in Nat /\ Len(t) \in Nat /\ Len(s) \in Nat /\ n = bufferStart + Len(buffer)
            BY <1>1, <1>2, <1>6
        <3> QED
            BY <1>1, <1>7, <1>9, <3>1
    <2>2. ASSUME NEW i \in 1..Len(buffer') PROVE buffer'[i] = s[bufferStart + i]
        <3>1. CASE i <= Len(buffer)
            <4>1. i \in 1..Len(buffer) /\ buffer'[i] = buffer[i]
                BY <1>1, <1>9, <3>1
            <4>2. i \in DOMAIN buffer
                BY <1>1, <4>1
            <4> QED
                BY <1>13, <4>1, <4>2 DEF Part
        <3>2. CASE i > Len(buffer)
            BY <1>10, <3>2
        <3> QED
            BY <1>1, <3>1, <3>2
    <2>3. DOMAIN buffer' = 1..Len(buffer')
        BY <1>9
    <2> QED
        BY <2>1, <2>2, <2>3 DEF Part
<1> QED
    BY <1>9, <1>11, <1>12, <1>13 DEF s

LEMMA FillKeeps ==
    ASSUME FInv, FillBuffer, Quiet
    PROVE  FInv'
<1>1. /\ FilesType /\ ReaderType /\ FilesOK /\ OldOK /\ Standing /\ PositionsOK /\ Reading
      /\ QueueCovers /\ PositionsCovered /\ LinesEnd /\ Kept /\ FileOrder /\ NextOrder
    BY DEF FInv
<1>2. /\ pc = "fill" /\ Unread # NoCells /\ buffer' = buffer \o Prefix(Unread, ChunkMax)
      /\ rotationSeen' = FALSE /\ pc' = "read"
      /\ UNCHANGED <<content, path, writing, line, part, saved, written, gone, spoiled, queue>>
      /\ UNCHANGED <<firstOpen, fd, generation, head, bufferStart, skipping, committed, slot, retry, delivered, setting>>
      /\ UNCHANGED <<Owed, InQueue>>
    BY DEF FillBuffer, fileHistory, world, Quiet, Owed, InQueue
<1>3. fd # NoFile /\ ~firstOpen /\ generation > 0
    BY <1>1, <1>2 DEF Standing
<1>4. /\ buffer' \in Seq(Cell) /\ In(buffer) \subseteq In(buffer')
      /\ In(buffer') \subseteq In(buffer) \cup In(content[fd])
      /\ Part(content[fd], bufferStart, buffer) => Part(content[fd], bufferStart, buffer')
    BY <1>1, <1>2, <1>3, ReadIs
<1>5. "mixed" \notin spoiled => Same /\ SkipsSame /\ Same' /\ ~Emptied /\ ~Emptied'
    <2> SUFFICES ASSUME "mixed" \notin spoiled PROVE Same /\ SkipsSame /\ Same' /\ ~Emptied /\ ~Emptied'
        OBVIOUS
    <2>1. Same /\ SkipsSame
        BY <1>1, <1>2, <1>3 DEF Reading
    <2>2. ~Emptied
        BY <1>1, <1>3, <2>1, EmptiedNotSame
    <2> QED
        BY <1>2, <1>4, <2>1, <2>2 DEF Same, Emptied
<1>6. FilesType' /\ FilesOK'
    BY <1>1, <1>2 DEF FilesType, FilesOK
<1>7. ReaderType'
    BY <1>1, <1>2, <1>4 DEF ReaderType
<1>8. Standing'
    BY <1>2, <1>3 DEF Standing
<1>9. OldOK'
    <2>1. fd \in Inodes
        BY <1>1, <1>3, OpenType
    <2> QED
        BY <1>1, <1>2, <1>4, <2>1 DEF OldOK, AllOld, Old
<1>10. PositionsOK' /\ QueueOrder' /\ CommitOK' /\ QueueWhole'
    BY <1>2 DEF FInv, PositionsOK, Positioned, QueueOrder, CommitOK, Uncommitted, QueueWhole, WholeLines
<1>11. Reading' /\ EndSeen' /\ EmptiedCovers'
    BY <1>2, <1>5 DEF Reading, SkipsSame, EndSeen, EmptiedCovers
<1>12. QueueCovers' /\ PositionsCovered'
    BY <1>1, <1>2, <1>5 DEF QueueCovers, PositionsCovered, Covered
<1>13. LinesEnd'
    BY <1>1, <1>2, <1>3, <1>5 DEF LinesEnd, LineEnds, Delivered
<1>14. Kept'
    BY <1>1, <1>2, <1>4 DEF Kept, Queued, InNextFile
<1>15. StateOK' /\ StateCovers' /\ StateDelivered'
    BY <1>2, StateKeeps DEF FInv, Fewer
<1>16. FileOrder'
    BY <1>1, <1>2, <1>5 DEF FileOrder
<1>17. NextOrder'
    BY <1>1, <1>2, <1>3, <1>4 DEF NextOrder, NotAfter
<1> QED
    BY <1>6, <1>7, <1>8, <1>9, <1>10, <1>11, <1>12, <1>13, <1>14, <1>15, <1>16, <1>17 DEF FInv

LEMMA FillEndKeeps ==
    ASSUME FInv, FillBufferEnd, Quiet
    PROVE  FInv'
<1>1. /\ FilesType /\ ReaderType /\ FilesOK /\ Standing /\ Reading
    BY DEF FInv
<1>2. /\ pc = "fill" /\ Unread = NoCells /\ pc' = "end"
      /\ Inside /\ UNCHANGED <<firstOpen, fd, buffer, rotationSeen>>
    BY DEF FillBufferEnd, Inside, fileHistory, world, reader, reading, Quiet
<1>3. fd # NoFile
    BY <1>1, <1>2 DEF Standing
<1>4. Standstill
    BY <1>2 DEF Inside, Standstill, Fewer, Owed
<1>5. "mixed" \notin spoiled => Same /\ SkipsSame /\ Same'
    BY <1>1, <1>2, <1>3, <1>4, StandsSame DEF Reading
<1>6. Reading'
    BY <1>2, <1>5 DEF Reading, SkipsSame, Inside
<1>7. EndSeen'
    <2>1. content[fd] \in Seq(Cell) /\ bufferStart + Len(buffer) \in Nat
        BY <1>1, <1>3, OpenType DEF ReaderType
    <2>2. bufferStart + Len(buffer) >= Len(content[fd])
        BY <1>2, <2>1, BehindNothing DEF Unread, NoCells
    <2>3. \A i \in DOMAIN content[fd] : ~(i > bufferStart + Len(buffer))
        BY <2>1, <2>2
    <2> QED
        BY <1>2, <2>3 DEF EndSeen, Inside
<1>8. PositionsOK' /\ QueueOrder' /\ FileOrder' /\ CommitOK' /\ QueueWhole'
    BY <1>4, StandsOrder DEF FInv
<1>9. QueueCovers' /\ PositionsCovered' /\ LinesEnd' /\ EmptiedCovers'
    BY <1>4, StandsCovers DEF FInv
<1>10. StateOK' /\ StateCovers' /\ StateDelivered'
    BY <1>2, <1>4, StateKeeps DEF FInv, Standstill, Inside
<1>11. FilesType' /\ FilesOK'
    BY <1>1, <1>2 DEF Inside, FilesType, FilesOK
<1>12. ReaderType'
    BY <1>1, <1>2 DEF Inside, ReaderType
<1>13. Standing'
    BY <1>1, <1>2, <1>3 DEF Inside, Standing
<1>14. OldOK'
    BY <1>2 DEF FInv, Inside, OldOK, AllOld, Old, InQueue
<1>15. Kept' /\ NextOrder'
    BY <1>2 DEF FInv, Inside, Kept, Queued, InNextFile, Owed, NextOrder, InQueue
<1> QED
    BY <1>6, <1>7, <1>8, <1>9, <1>10, <1>11, <1>12, <1>13, <1>14, <1>15 DEF FInv

LEMMA CloseKeeps ==
    ASSUME FInv, CloseFile, Quiet
    PROVE  FInv'
<1>1. /\ FilesType /\ ReaderType /\ FilesOK /\ OldOK /\ Standing /\ PositionsOK /\ Reading
      /\ QueueCovers /\ EndSeen /\ Kept /\ NextOrder
    BY DEF FInv
<1>2. /\ pc = "end" /\ path # NoFile /\ path # fd /\ rotationSeen /\ (buffer = << >> \/ skipping)
      /\ fd' = NoFile /\ buffer' = << >> /\ bufferStart' = 0 /\ skipping' = FALSE
      /\ rotationSeen' = FALSE /\ head' = << >> /\ pc' = "read"
      /\ UNCHANGED <<content, path, writing, line, part, saved, written, gone, spoiled, queue>>
      /\ UNCHANGED <<firstOpen, generation, committed, slot, retry, delivered, setting>>
      /\ UNCHANGED <<Owed, InQueue>>
    BY DEF CloseFile, PathReplaced, HasPart, NoCells, fileHistory, world, Quiet, Owed, InQueue
<1>3. fd # NoFile /\ ~firstOpen /\ generation > 0 /\ buffer = << >>
    BY <1>1, <1>2 DEF Standing
<1>4. In(<< >>) = {}
    BY DEF In
<1>5. FilesType' /\ FilesOK'
    BY <1>1, <1>2 DEF FilesType, FilesOK
<1>6. ReaderType'
    <2>1. << >> \in Seq(Cell) /\ 0 \in Nat /\ FALSE \in BOOLEAN /\ NoFile \in Inodes \cup {NoFile}
        OBVIOUS
    <2> QED
        BY <1>1, <1>2, <2>1 DEF ReaderType
<1>7. Standing'
    <2>1. ASSUME NEW q, q.gen \in Nat, Positioned(q) PROVE q.gen <= generation
        BY <1>1, <2>1 DEF Positioned, ReaderType
    <2>2. /\ \A i \in DOMAIN queue : queue[i].gen <= generation
          /\ slot.at.gen <= generation /\ retry.gen <= generation
        <3>1. /\ \A i \in DOMAIN queue : queue[i].gen \in Nat /\ Positioned(queue[i])
              /\ slot.at.gen \in Nat /\ retry.gen \in Nat /\ Positioned(slot.at) /\ Positioned(retry)
            BY <1>1, <1>3, QueueType DEF PositionsOK, ReaderType, Positions
        <3> QED
            BY <2>1, <3>1
    <2> QED
        BY <1>2, <1>3, <2>2 DEF Standing
<1>8. OldOK'
    BY <1>1, <1>2, <1>4 DEF OldOK, AllOld, Old
<1>9. QueueOrder' /\ QueueWhole' /\ CommitOK'
    BY <1>2 DEF FInv, QueueOrder, QueueWhole, WholeLines, CommitOK
<1>10. /\ PositionsOK' /\ Reading' /\ QueueCovers' /\ PositionsCovered' /\ EndSeen' /\ EmptiedCovers' /\ LinesEnd'
       /\ FileOrder'
    BY <1>2 DEF PositionsOK, Reading, QueueCovers, PositionsCovered, EndSeen, EmptiedCovers, LinesEnd, FileOrder
<1>11. StateOK' /\ StateCovers' /\ StateDelivered'
    BY <1>2, StateKeeps DEF FInv, Fewer
<1>12. NextOrder'
    BY <1>1, <1>2, <1>3, <1>4 DEF NextOrder, NotAfter
<1>13. Kept'
    <2> SUFFICES ASSUME spoiled = {}, NEW c \in Owed
                 PROVE  Queued(c) \/ c \in In(content[path])
        BY <1>2, <1>3, <1>4 DEF Kept, Queued, InNextFile
    <2>1. Queued(c) \/ c \in In(content[fd]) \/ c \in In(content[path])
        BY <1>1, <1>3, <1>4 DEF Kept, InNextFile
    <2>2. ASSUME c \in In(content[fd]) PROVE Queued(c)
        <3>1. Same
            BY <1>1, <1>2, <1>3 DEF Reading
        <3>2. content[fd] \in Seq(Cell) /\ bufferStart \in Nat /\ Len(buffer) = 0
            BY <1>1, <1>3, OpenType DEF ReaderType
        <3>3. PICK i \in 1..Len(content[fd]) : c = content[fd][i]
            BY <2>2, <3>2, InIs
        <3>4. i <= bufferStart
            BY <1>1, <1>2, <1>3, <3>1, <3>2, <3>3 DEF EndSeen
        <3>5. i \in 1..bufferStart
            BY <3>2, <3>4
        <3>6. \E j \in 1..Len(queue) : c \in In(queue[j].text)
            BY <1>1, <1>3, <3>1, <3>3, <3>5 DEF QueueCovers, Covered
        <3> QED
            BY <1>1, <3>6 DEF Queued, ReaderType
    <2> QED
        BY <2>1, <2>2
<1> QED
    BY <1>5, <1>6, <1>7, <1>8, <1>9, <1>10, <1>11, <1>12, <1>13 DEF FInv

LEMMA TakesKeep ==
    ASSUME FInv, ExtractLine \/ CheckFile, Quiet
    PROVE  FInv'
<1>1. PICK e, d, text : Advances(e, d, text)
    BY ExtractAdvances, CheckAdvances
<1> QED
    BY <1>1, AdvanceKeeps

-----------------------------------------------------------------------------
(* The reader begins with a file: it opens it, or it starts again with an emptied one *)

LEMMA GenerationsPast ==
    ASSUME FInv
    PROVE  /\ generation \in Nat
           /\ \A i \in DOMAIN queue : queue[i].gen \in Nat /\ queue[i].gen <= generation
           /\ slot.at.gen \in Nat /\ slot.at.gen <= generation
           /\ retry.gen \in Nat /\ retry.gen <= generation
<1>1. ReaderType /\ Standing /\ PositionsOK
    BY DEF FInv
<1>2. /\ generation \in Nat /\ slot.at.gen \in Nat /\ retry.gen \in Nat
      /\ \A i \in DOMAIN queue : queue[i].gen \in Nat
    BY <1>1, QueueType DEF ReaderType, Positions
<1>3. ASSUME NEW q, q.gen \in Nat, Positioned(q) PROVE q.gen <= generation
    BY <1>2, <1>3 DEF Positioned
<1>4. CASE fd = NoFile
    BY <1>1, <1>2, <1>4 DEF Standing
<1>5. CASE fd # NoFile
    BY <1>1, <1>2, <1>3, <1>5 DEF PositionsOK
<1> QED
    BY <1>2, <1>4, <1>5

Begins(i, n, ok) ==
    /\ i \in Inodes /\ n \in Nat /\ n <= Len(content[i])
    /\ fd' = i /\ generation' = generation + 1 /\ firstOpen' = FALSE
    /\ buffer' = << >> /\ bufferStart' = n /\ skipping' = FALSE /\ rotationSeen' = FALSE /\ committed' = n
    /\ head' = Prefix(content[i], HeadMax)
    /\ saved' = IF ok THEN [inode |-> i, offset |-> n, head |-> Prefix(head', n)] ELSE saved
    /\ pc' = "read" /\ gone \subseteq gone'
    /\ UNCHANGED <<content, path, writing, line, part, written, spoiled, queue, slot, retry, delivered, setting>>

LEMMA BeginsHeads ==
    ASSUME FilesType, OldOK, NEW i, NEW n, NEW ok, Begins(i, n, ok)
    PROVE  /\ content[i] \in Seq(Cell)
           /\ head' \in Seq(Cell) /\ AllOld(In(head')) /\ Starts(content[i], head')
           /\ \E h \in Seq(Cell) : h = Prefix(head', n) /\ AllOld(In(h)) /\ Starts(content[i], h)
<1> DEFINE s == content[i]
<1>1. s \in Seq(Cell) /\ n \in Nat /\ HeadMax \in Nat /\ AllOld(In(s))
    BY FileType, Limits DEF Begins, OldOK
<1>2. head' = Prefix(s, HeadMax)
    BY DEF Begins
<1> HIDE DEF s
<1>3. /\ head' \in Seq(Cell) /\ Len(head') <= Len(s) /\ \A k \in 1..Len(head') : head'[k] = s[k]
    <2>1. Prefix(s, HeadMax) \in Seq(Cell) /\ Starts(s, Prefix(s, HeadMax))
        BY <1>1, PrefixIs, StartsOfPrefix
    <2> QED
        BY <1>1, <1>2, <2>1 DEF Starts, Part
<1>4. PICK h : h = Prefix(head', n)
    OBVIOUS
<1>5. h \in Seq(Cell) /\ Len(h) <= Len(head') /\ \A k \in 1..Len(h) : h[k] = head'[k]
    <2>1. PICK t : t = head'
        OBVIOUS
    <2>2. Prefix(t, n) \in Seq(Cell) /\ Starts(t, Prefix(t, n))
        BY <1>1, <1>3, <2>1, PrefixIs, StartsOfPrefix
    <2> QED
        BY <1>3, <1>4, <2>1, <2>2 DEF Starts, Part
<1>6. ASSUME NEW t \in Seq(Cell), Len(t) <= Len(s), \A k \in 1..Len(t) : t[k] = s[k]
      PROVE  AllOld(In(t)) /\ Starts(s, t)
    <2>1. Starts(s, t)
        BY <1>1, <1>6 DEF Starts, Part
    <2>2. ASSUME NEW c \in In(t) PROVE c \in In(s)
        <3>1. PICK k \in 1..Len(t) : c = t[k]
            BY InIs
        <3>2. k \in 1..Len(s) /\ c = s[k]
            BY <1>1, <1>6, <3>1
        <3> QED
            BY <1>1, <3>2, InIs
    <2> QED
        BY <1>1, <2>1, <2>2 DEF AllOld
<1>7. AllOld(In(h)) /\ Starts(s, h)
    <2>1. Len(h) <= Len(s) /\ \A k \in 1..Len(h) : h[k] = s[k]
        BY <1>1, <1>3, <1>5
    <2> QED
        BY <1>5, <1>6, <2>1
<1>8. AllOld(In(head')) /\ Starts(s, head')
    <2>1. PICK t : t = head'
        OBVIOUS
    <2>2. AllOld(In(t)) /\ Starts(s, t)
        BY <1>3, <1>6, <2>1
    <2> QED
        BY <2>1, <2>2
<1> QED
    BY <1>1, <1>3, <1>4, <1>5, <1>7, <1>8 DEF s

LEMMA BeginsState ==
    ASSUME FInv, NEW i, NEW n, NEW ok \in BOOLEAN, Begins(i, n, ok),
           spoiled = {} => \A k \in 1..n : content[i][k] \notin Owed',
           n > 0 /\ spoiled = {} /\ ~StartAtEnd =>
               \E k \in 1..n : content[i][k].line = content[i][n].line /\ content[i][k] \in delivered
    PROVE  StateOK' /\ StateCovers' /\ StateDelivered'
<1>1. FilesType /\ ReaderType /\ OldOK /\ StateOK /\ StateCovers /\ StateDelivered
    BY DEF FInv
<1>2. /\ content' = content /\ spoiled' = spoiled /\ delivered' = delivered /\ setting' = setting
      /\ i \in Inodes /\ n \in Nat /\ n <= Len(content[i])
      /\ saved' = IF ok THEN [inode |-> i, offset |-> n, head |-> Prefix(head', n)] ELSE saved
    BY DEF Begins
<1>3. Owed' \subseteq Owed
    BY DEF Begins, Owed
<1>4. CASE ok
    <2>1. PICK h \in Seq(Cell) : h = Prefix(head', n) /\ Starts(content[i], h)
        BY <1>1, BeginsHeads
    <2>2. saved' = [inode |-> i, offset |-> n, head |-> h]
        BY <1>2, <1>4, <2>1
    <2>3. saved'.inode = i /\ saved'.offset = n /\ saved'.head = h
        BY <2>2
    <2>4. StateSame'
        BY <1>2, <2>1, <2>3 DEF StateSame
    <2> QED
        BY <1>2, <2>3, <2>4 DEF StateOK, StateCovers, StateDelivered, StartAtEnd
<1>5. CASE ~ok
    BY <1>1, <1>2, <1>3, <1>5, StateKeeps DEF Fewer
<1> QED
    BY <1>4, <1>5

LEMMA BeginsKeeps ==
    ASSUME FInv, NEW i, NEW n, NEW ok \in BOOLEAN, Begins(i, n, ok),
           spoiled = {} => \A k \in 1..n : content[i][k] \notin Owed',
           n > 0 /\ spoiled = {} /\ ~StartAtEnd =>
               \E k \in 1..n : content[i][k].line = content[i][n].line /\ content[i][k] \in delivered,
           "mixed" \notin spoiled => NotAfter(InQueue, In(content[i])),
           "mixed" \notin spoiled /\ path # NoFile /\ path # i =>
               NotAfter(InQueue, In(content[path])) /\ NotAfter(In(content[i]), In(content[path])),
           spoiled = {} => \A c \in Owed' : \/ Queued(c) \/ c \in In(content[i])
                                            \/ path # NoFile /\ path # i /\ c \in In(content[path])
    PROVE  FInv'
<1>1. /\ FilesType /\ ReaderType /\ FilesOK /\ OldOK /\ Standing /\ QueueOrder /\ QueueWhole /\ CommitOK
    BY DEF FInv
<1>2. /\ i \in Inodes /\ n \in Nat /\ n <= Len(content[i])
      /\ fd' = i /\ generation' = generation + 1 /\ firstOpen' = FALSE
      /\ buffer' = << >> /\ bufferStart' = n /\ skipping' = FALSE /\ rotationSeen' = FALSE /\ committed' = n
      /\ saved' = IF ok THEN [inode |-> i, offset |-> n, head |-> Prefix(head', n)] ELSE saved
      /\ pc' = "read"
      /\ UNCHANGED <<content, path, writing, line, part, written, spoiled, queue, slot, retry, delivered, setting>>
      /\ UNCHANGED InQueue /\ i # NoFile
    BY NoFileIsNone DEF Begins, InQueue
<1>3. PICK h \in Seq(Cell) : h = Prefix(head', n) /\ AllOld(In(h))
    BY <1>1, BeginsHeads
<1>4. content[i] \in Seq(Cell) /\ head' \in Seq(Cell) /\ AllOld(In(head')) /\ Starts(content[i], head')
    BY <1>1, BeginsHeads
<1>5. In(<< >>) = {} /\ << >> \in Seq(Cell) /\ Len(<< >>) = 0
    BY DEF In
<1>6. /\ \A m \in DOMAIN queue : queue[m].gen # generation' /\ queue[m].gen < generation'
      /\ slot.at.gen # generation' /\ retry.gen # generation'
      /\ slot.at.gen < generation' /\ retry.gen < generation'
      /\ generation' \in Nat /\ generation' > 0
    BY <1>2, GenerationsPast
<1>7. FilesType' /\ FilesOK'
    BY <1>1, <1>2 DEF FilesType, FilesOK
<1>8. saved' \in [inode : Inodes \cup {NoFile}, offset : Nat, head : Seq(Cell)] /\ AllOld(In(saved'.head))
    <2>1. CASE ok
        <3>1. saved' = [inode |-> i, offset |-> n, head |-> h]
            BY <1>2, <1>3, <2>1
        <3>2. saved'.head = h
            BY <3>1
        <3> QED
            BY <1>2, <1>3, <3>1, <3>2
    <2>2. CASE ~ok
        BY <1>1, <1>2, <2>2 DEF ReaderType, OldOK
    <2> QED
        BY <2>1, <2>2
<1>9. ReaderType'
    <2>1. firstOpen' \in BOOLEAN /\ skipping' \in BOOLEAN /\ rotationSeen' \in BOOLEAN
        BY <1>2
    <2>2. fd' \in Inodes \cup {NoFile} /\ buffer' \in Seq(Cell) /\ bufferStart' \in Nat /\ committed' \in Nat
        BY <1>2, <1>5
    <2> QED
        BY <1>1, <1>2, <1>4, <1>6, <1>8, <2>1, <2>2 DEF ReaderType
<1>10. OldOK'
    BY <1>1, <1>2, <1>4, <1>5, <1>8 DEF OldOK, AllOld, Old
<1>11. Standing'
    BY <1>2, <1>6 DEF Standing
<1>12. PositionsOK'
    BY <1>2, <1>6 DEF PositionsOK, Positioned
<1>13. Same'
    <2>1. Part(content[i], n, << >>)
        BY <1>2, <1>4, <1>5 DEF Part
    <2> QED
        BY <1>2, <1>4, <2>1 DEF Same
<1>14. Reading'
    BY <1>2, <1>13 DEF Reading, SkipsSame
<1>15. QueueCovers' /\ PositionsCovered' /\ LinesEnd'
    <2>1. spoiled = {} => Covered(bufferStart, Len(queue))'
        BY <1>2 DEF Covered
    <2> QED
        BY <1>2, <1>6, <2>1 DEF QueueCovers, PositionsCovered, LinesEnd
<1>16. EndSeen' /\ EmptiedCovers'
    BY <1>2, <1>5 DEF EndSeen, EmptiedCovers
<1>17. Kept'
    BY <1>2 DEF Kept, Queued, InNextFile
<1>18. StateOK' /\ StateCovers' /\ StateDelivered'
    BY BeginsState
<1>19. QueueOrder' /\ QueueWhole'
    BY <1>1, <1>2 DEF QueueOrder, QueueWhole, WholeLines
<1>20. FileOrder'
    <2>1. \A k \in DOMAIN content[i] : content[i][k] \in In(content[i])
        BY DEF In
    <2> QED
        BY <1>2, <1>5, <2>1 DEF FileOrder, NotAfter
<1>21. NextOrder'
    BY <1>2, <1>5 DEF NextOrder, NotAfter
<1>22. CommitOK'
    <2>1. n <= n
        BY <1>2
    <2> QED
        BY <1>1, <1>2, <1>6, <2>1 DEF CommitOK, Uncommitted
<1> QED
    BY <1>7, <1>9, <1>10, <1>11, <1>12, <1>14, <1>15, <1>16, <1>17, <1>18, <1>19, <1>20, <1>21, <1>22 DEF FInv

\* The position from which a restart reads
LEMMA StartIs ==
    ASSUME FilesType, ReaderType, path # NoFile
    PROVE  LET n == ResolveStart(path)
           IN  /\ n \in 0..Len(content[path])
               /\ n > 0 => \/ saved = NoState /\ StartAtEnd
                           \/ SameFile(path) /\ n = saved.offset
<1>1. path \in Inodes /\ content[path] \in Seq(Cell) /\ saved.offset \in Nat
    BY FileType DEF FilesType, ReaderType
<1>2. Len(content[path]) \in Nat
    BY <1>1
<1>3. CASE saved = NoState
    <2>1. saved.inode = NoFile
        BY <1>3 DEF NoState
    <2>2. ~SameFile(path)
        BY <2>1 DEF SameFile
    <2>3. ResolveStart(path) = IF StartAtEnd THEN Len(content[path]) ELSE 0
        BY <1>3, <2>2 DEF ResolveStart
    <2> QED
        BY <1>2, <1>3, <2>3
<1>4. CASE saved # NoState /\ SameFile(path)
    <2>1. ResolveStart(path) = saved.offset
        BY <1>4 DEF ResolveStart
    <2> QED
        BY <1>1, <1>2, <1>4, <2>1 DEF SameFile
<1>5. CASE saved # NoState /\ ~SameFile(path)
    <2>1. ResolveStart(path) = 0
        BY <1>5 DEF ResolveStart
    <2> QED
        BY <1>2, <2>1
<1> QED
    BY <1>3, <1>4, <1>5

LEMMA SameFileIs ==
    ASSUME FilesType, ReaderType, NEW i \in Inodes
    PROVE  SameFile(i) <=> saved.inode = i /\ StateSame
<1>1. content[i] \in Seq(Cell) /\ saved.head \in Seq(Cell)
    BY FileType DEF ReaderType
<1> QED
    BY <1>1, StartsPrefix DEF SameFile, StateSame

LEMMA OpenKeeps ==
    ASSUME FInv, NEW ok \in BOOLEAN, OpenFile(ok), Quiet
    PROVE  FInv'
<1>1. /\ FilesType /\ ReaderType /\ FilesOK /\ Standing /\ Kept /\ NextOrder /\ StateCovers /\ StateDelivered
    BY DEF FInv
<1>2. /\ pc = "read" /\ fd = NoFile /\ path # NoFile
      /\ fd' = path /\ generation' = generation + 1 /\ firstOpen' = FALSE
      /\ bufferStart' = IF firstOpen THEN ResolveStart(path) ELSE 0
      /\ committed' = bufferStart' /\ head' = Prefix(content[path], HeadMax)
      /\ saved' = IF ok THEN [inode |-> path, offset |-> bufferStart', head |-> Prefix(head', bufferStart')] ELSE saved
      /\ gone' = IF firstOpen /\ saved = NoState /\ StartAtEnd THEN gone \cup TextIn(content[path]) ELSE gone
      /\ UNCHANGED <<content, path, writing, line, part, written, spoiled, queue, slot, retry, delivered, setting>>
      /\ UNCHANGED <<buffer, skipping, rotationSeen, pc>>
    BY DEF OpenFile, SaveState, world, Quiet
<1>3. buffer = << >> /\ ~skipping /\ ~rotationSeen /\ (firstOpen => queue = << >>)
    BY <1>1, <1>2 DEF Standing
<1>4. PICK n : n = bufferStart'
    OBVIOUS
<1>5. path \in Inodes /\ content[path] \in Seq(Cell)
    BY <1>1, <1>2, FileType DEF FilesType
<1>6. /\ n \in 0..Len(content[path])
      /\ n > 0 => firstOpen /\ (\/ saved = NoState /\ StartAtEnd
                                \/ SameFile(path) /\ n = saved.offset)
    <2>1. CASE firstOpen
        BY <1>1, <1>2, <1>4, <2>1, StartIs
    <2>2. CASE ~firstOpen
        <3>1. n = 0 /\ Len(content[path]) \in Nat
            BY <1>2, <1>4, <1>5, <2>2
        <3> QED
            BY <3>1
    <2> QED
        BY <2>1, <2>2
<1>7. Begins(path, n, ok)
    <2>1. n \in Nat /\ n <= Len(content[path])
        BY <1>5, <1>6
    <2>2. skipping' = FALSE /\ rotationSeen' = FALSE
        BY <1>1, <1>2, <1>3 DEF ReaderType
    <2>3. gone \subseteq gone'
        BY <1>2
    <2> QED
        BY <1>2, <1>3, <1>4, <1>5, <2>1, <2>2, <2>3 DEF Begins
<1>8. Owed' \subseteq Owed
    BY <1>7 DEF Begins, Owed
<1>9. ASSUME spoiled = {}, NEW k \in 1..n, content[path][k] \in Owed' PROVE FALSE
    <2>1. n > 0 /\ k \in 1..Len(content[path]) /\ content[path][k] \in Owed
        BY <1>5, <1>6, <1>8, <1>9
    <2>2. CASE saved = NoState /\ StartAtEnd
        <3>1. content[path][k] \in In(content[path]) /\ content[path][k].k > 0
            BY <1>1, <1>5, <2>1, InIs, OwedIs
        <3>2. content[path][k] \in gone'
            BY <1>2, <1>6, <2>1, <2>2, <3>1 DEF TextIn, IsNewLine
        <3> QED
            BY <1>9, <3>2 DEF Owed
    <2>3. CASE SameFile(path) /\ n = saved.offset
        <3>1. saved.inode = path /\ StateSame
            BY <1>1, <1>5, <2>3, SameFileIs
        <3> QED
            BY <1>1, <1>2, <1>9, <2>1, <2>3, <3>1 DEF StateCovers
    <2> QED
        BY <1>6, <2>1, <2>2, <2>3
<1>10. ASSUME n > 0, spoiled = {}, ~StartAtEnd
       PROVE  \E k \in 1..n : content[path][k].line = content[path][n].line /\ content[path][k] \in delivered
    <2>1. SameFile(path) /\ n = saved.offset
        BY <1>6, <1>10
    <2>2. saved.inode = path /\ StateSame
        BY <1>1, <1>5, <2>1, SameFileIs
    <2> QED
        BY <1>1, <1>2, <1>10, <2>1, <2>2 DEF StateDelivered
<1>11. ASSUME "mixed" \notin spoiled PROVE NotAfter(InQueue, In(content[path]))
    <2>1. CASE firstOpen
        BY <1>3, <2>1 DEF NotAfter, InQueue
    <2>2. CASE ~firstOpen
        BY <1>1, <1>2, <1>11, <2>2 DEF NextOrder
    <2> QED
        BY <2>1, <2>2
<1>12. ASSUME spoiled = {}, NEW c \in Owed' PROVE Queued(c) \/ c \in In(content[path])
    <2>1. c \in Owed /\ In(buffer) = {}
        BY <1>3, <1>8 DEF In
    <2> QED
        BY <1>1, <1>2, <1>12, <2>1 DEF Kept, InNextFile
<1> QED
    BY <1>7, <1>9, <1>10, <1>11, <1>12, BeginsKeeps

LEMMA ChangedKeeps ==
    ASSUME FInv, NEW ok \in BOOLEAN, CheckFileChanged(ok), Quiet
    PROVE  FInv'
<1>1. /\ FilesType /\ ReaderType /\ FilesOK /\ Standing /\ Reading /\ EmptiedCovers /\ Kept /\ FileOrder /\ NextOrder
    BY DEF FInv
<1>2. /\ pc = "read" /\ fd # NoFile /\ ~HasLine /\ Changed
      /\ generation' = generation + 1
      /\ buffer' = << >> /\ bufferStart' = 0 /\ skipping' = FALSE /\ rotationSeen' = FALSE /\ committed' = 0
      /\ head' = Prefix(content[fd], HeadMax)
      /\ saved' = IF ok THEN [inode |-> fd, offset |-> 0, head |-> Prefix(head', 0)] ELSE saved
      /\ UNCHANGED <<content, path, writing, line, part, written, gone, spoiled, queue, slot, retry, delivered, setting>>
      /\ UNCHANGED <<firstOpen, fd, pc, Owed>>
    BY DEF CheckFileChanged, SaveState, NoCells, world, fileHistory, Quiet, Owed
<1>3. fd \in Inodes /\ content[fd] \in Seq(Cell) /\ buffer \in Seq(Cell) /\ ~firstOpen
    BY <1>1, <1>2, OpenType DEF Standing, ReaderType
<1>4. Begins(fd, 0, ok)
    <2>1. 0 \in Nat /\ 0 <= Len(content[fd]) /\ firstOpen' = FALSE
        BY <1>1, <1>2, <1>3 DEF ReaderType
    <2> QED
        BY <1>2, <1>3, <2>1 DEF Begins
<1>5. "mixed" \notin spoiled => Emptied
    BY <1>1, <1>2, ChangedIs DEF Reading
<1>6. "mixed" \notin spoiled => NotAfter(InQueue, In(content[fd]))
    BY <1>1, <1>2, <1>5 DEF FileOrder
<1>7. "mixed" \notin spoiled /\ path # NoFile /\ path # fd =>
          NotAfter(InQueue, In(content[path])) /\ NotAfter(In(content[fd]), In(content[path]))
    BY <1>1, <1>2, <1>3 DEF NextOrder
<1>8. ASSUME spoiled = {}, NEW c \in Owed, c \in In(buffer) PROVE Queued(c)
    <2> SUFFICES ASSUME NewLine(c.line) \in In(buffer) PROVE FALSE
        BY <1>1, <1>2, <1>5, <1>8 DEF EmptiedCovers
    <2>1. PICK e \in Nat : /\ e <= Len(buffer) /\ Rest = Behind(buffer, e)
                           /\ \A i \in 1..e : buffer[i].k = 0 \/ buffer[i].k > MaxLineLength
        BY <1>1, <1>2, <1>8, RestIs
    <2>2. PICK j \in 1..Len(buffer) : c = buffer[j]
        BY <1>3, <1>8, InIs
    <2>3. PICK m \in 1..Len(buffer) : NewLine(c.line) = buffer[m]
        BY <1>3, InIs
    <2>4. c.k > 0 /\ c.k <= MaxLineLength /\ c.k \in Nat /\ c.line \in Nat
        BY <1>1, <1>8, OwedIs, CellType
    <2>5. buffer[m].k = 0 /\ buffer[m].line = c.line
        BY <2>3 DEF NewLine
    <2>6. e < j
        <3>1. ~(j \in 1..e)
            BY <2>1, <2>2, <2>4, Limits
        <3> QED
            BY <2>1, <3>1
    <2>7. e < m
        <3> SUFFICES ASSUME m <= e PROVE FALSE
            BY <2>1
        <3>1. m < j
            BY <2>1, <2>6
        <3>2. Shape(buffer)
            BY <1>1, <1>2, <1>8, BufferShape
        <3>3. buffer[m].line < buffer[j].line
            BY <1>3, <2>5, <3>1, <3>2, ShapeLines
        <3> QED
            BY <2>2, <2>4, <2>5, <3>3
    <2>8. Rest \in Seq(Cell) /\ Len(Rest) = Len(buffer) - e /\ \A i \in 1..(Len(buffer) - e) : Rest[i] = buffer[e + i]
        BY <1>3, <2>1, BehindIs
    <2>9. m - e \in 1..(Len(buffer) - e) /\ e + (m - e) = m
        BY <1>3, <2>1, <2>7
    <2>10. Rest[m - e].k = 0 /\ m - e \in DOMAIN Rest
        BY <2>5, <2>8, <2>9
    <2> QED
        BY <1>2, <2>10 DEF HasLine, HasNewLine, IsNewLine
<1>9. ASSUME spoiled = {}, NEW c \in Owed'
      PROVE  \/ Queued(c) \/ c \in In(content[fd])
             \/ path # NoFile /\ path # fd /\ c \in In(content[path])
    <2>1. c \in Owed
        BY <1>2, <1>9
    <2> QED
        BY <1>1, <1>3, <1>8, <1>9, <2>1 DEF Kept, InNextFile
<1>10. \A k \in 1..0 : FALSE
    OBVIOUS
<1> QED
    BY <1>4, <1>6, <1>7, <1>9, <1>10, BeginsKeeps

-----------------------------------------------------------------------------
(* A position is committed *)

LEMMA PrefixStarts ==
    ASSUME NEW s \in Seq(Cell), NEW h \in Seq(Cell), NEW n \in Nat
    PROVE  /\ Starts(s, h) => Starts(s, Prefix(h, n))
           /\ Other(s, h) /\ n > 0 => Other(s, Prefix(h, n))
           /\ In(Prefix(h, n)) \subseteq In(h)
<1> DEFINE t == Prefix(h, n)
<1>1. /\ t \in Seq(Cell) /\ Len(t) = Min2(n, Len(h))
      /\ \A i \in 1..Len(t) : t[i] = h[i]
    BY PrefixIs
<1> HIDE DEF t
<1>2. Len(t) \in Nat /\ Len(t) <= Len(h) /\ (n > 0 /\ h # << >> => Len(t) > 0)
    BY <1>1 DEF Min2
<1>3. Starts(s, h) => Starts(s, t)
    BY <1>1, <1>2 DEF Starts, Part
<1>4. Other(s, h) /\ n > 0 => Other(s, t)
    <2> SUFFICES ASSUME Other(s, h), n > 0 PROVE Other(s, t)
        OBVIOUS
    <2>1. 1 \in 1..Len(t) /\ t # << >>
        BY <1>1, <1>2 DEF Other
    <2>2. t[1] = h[1]
        BY <1>1, <2>1
    <2> QED
        BY <2>1, <2>2 DEF Other
<1>5. In(t) \subseteq In(h)
    <2> SUFFICES ASSUME NEW c, c \in In(t) PROVE c \in In(h)
        OBVIOUS
    <2>1. PICK i \in 1..Len(t) : c = t[i]
        BY <1>1, InIs
    <2>2. i \in 1..Len(h) /\ c = h[i]
        BY <1>1, <1>2, <2>1
    <2> QED
        BY <2>2, InIs
<1> QED
    BY <1>3, <1>4, <1>5 DEF t

LEMMA SaveKeeps ==
    ASSUME FInv, NEW p, p \in {slot.at, retry}, p.gen = generation, p.end > committed, p.end <= bufferStart,
           saved' = [inode |-> fd, offset |-> p.end, head |-> Prefix(head, p.end)],
           content' = content, setting' = setting,
           Owed' \subseteq Owed, spoiled \subseteq spoiled', delivered \subseteq delivered'
    PROVE  /\ fd \in Inodes /\ p.end \in Nat
           /\ saved' \in [inode : Inodes \cup {NoFile}, offset : Nat, head : Seq(Cell)]
           /\ saved'.inode = fd /\ saved'.offset = p.end /\ AllOld(In(saved'.head))
           /\ StateOK' /\ StateCovers' /\ StateDelivered'
<1>1. FilesType /\ ReaderType /\ OldOK /\ Standing /\ Reading /\ PositionsCovered /\ LinesEnd
    BY DEF FInv
<1>2. /\ p.end \in Nat /\ committed \in Nat /\ bufferStart \in Nat /\ head \in Seq(Cell) /\ p.end > 0
    <2>1. committed \in Nat /\ bufferStart \in Nat /\ head \in Seq(Cell)
        BY <1>1 DEF ReaderType
    <2>2. p \in Positions
        BY <1>1 DEF ReaderType
    <2>3. p.end \in Nat
        BY <2>2 DEF Positions
    <2> QED
        BY <2>1, <2>3
<1>3. fd # NoFile
    BY <1>1, <1>2 DEF Standing
<1>4. fd \in Inodes /\ content[fd] \in Seq(Cell)
    BY <1>1, <1>3, OpenType
<1>5. PICK h : h = Prefix(head, p.end)
    OBVIOUS
<1>6. h \in Seq(Cell)
    BY <1>2, <1>5, PrefixIs
<1>7. /\ Starts(content[fd], head) => Starts(content[fd], h)
      /\ Other(content[fd], head) => Other(content[fd], h)
      /\ In(h) \subseteq In(head)
    BY <1>2, <1>4, <1>5, PrefixStarts
<1>8. saved' = [inode |-> fd, offset |-> p.end, head |-> h]
    BY <1>5
<1>9. saved'.inode = fd /\ saved'.offset = p.end /\ saved'.head = h
    BY <1>8
<1>10. saved' \in [inode : Inodes \cup {NoFile}, offset : Nat, head : Seq(Cell)]
    BY <1>2, <1>4, <1>6, <1>8
<1>11. AllOld(In(saved'.head))
    BY <1>1, <1>7, <1>9 DEF OldOK, AllOld
<1>12. StateSame' <=> p.end <= Len(content[fd]) /\ Starts(content[fd], h)
    BY <1>9 DEF StateSame
<1>13. Same => StateSame'
    <2>1. Same => bufferStart + Len(buffer) <= Len(content[fd]) /\ Starts(content[fd], head)
        BY DEF Same, Part
    <2>2. Len(buffer) \in Nat /\ Len(content[fd]) \in Nat
        BY <1>1, <1>4 DEF ReaderType
    <2>3. Same => p.end <= Len(content[fd])
        BY <1>2, <2>1, <2>2
    <2> QED
        BY <1>7, <1>12, <2>1, <2>3
<1>14. Emptied => Other(content[fd], h) /\ ~StateSame'
    <2>1. Emptied => Other(content[fd], h)
        BY <1>7 DEF Emptied
    <2> QED
        BY <1>4, <1>6, <1>12, <2>1, OtherNotStarts
<1>15. "mixed" \notin spoiled => Same \/ Emptied
    BY <1>1, <1>3 DEF Reading
<1>16. StateOK'
    BY <1>9, <1>13, <1>14, <1>15 DEF StateOK
<1>17. ASSUME spoiled' = {}, StateSame' PROVE spoiled = {} /\ Same
    BY <1>14, <1>15, <1>17
<1>18. StateCovers'
    <2> SUFFICES ASSUME spoiled' = {}, StateSame', NEW i \in 1..p.end PROVE content[fd][i] \notin Owed
        BY <1>9 DEF StateCovers
    <2>1. Covered(p.end, 0)
        BY <1>1, <1>3, <1>17 DEF PositionsCovered
    <2> QED
        BY <2>1 DEF Covered
<1>19. StateDelivered'
    <2> SUFFICES ASSUME spoiled' = {}, StateSame'
                 PROVE  \E i \in 1..p.end : /\ content[fd][i].line = content[fd][p.end].line
                                            /\ content[fd][i] \in delivered
        BY <1>9 DEF StateDelivered, StartAtEnd
    <2>1. Delivered(p.end)
        BY <1>1, <1>3, <1>17 DEF LinesEnd
    <2> QED
        BY <1>2, <2>1 DEF Delivered, LineEnds
<1> QED
    BY <1>2, <1>4, <1>9, <1>10, <1>11, <1>16, <1>18, <1>19

LEMMA RoundKeeps ==
    ASSUME FInv, NEW ok \in BOOLEAN, Round(ok), UNCHANGED setting
    PROVE  FInv'
<1>1. /\ FilesType /\ ReaderType /\ FilesOK /\ OldOK /\ Standing /\ PositionsOK /\ Reading
      /\ QueueCovers /\ PositionsCovered /\ EndSeen /\ EmptiedCovers /\ LinesEnd /\ Kept
      /\ StateOK /\ StateCovers /\ StateDelivered
      /\ QueueOrder /\ FileOrder /\ NextOrder /\ CommitOK /\ QueueWhole
    BY DEF FInv
<1> DEFINE p == ToCommit
<1>2. /\ pc = "round" /\ Commit(p, ok) /\ slot' = [slot EXCEPT !.pending = FALSE] /\ pc' \in {"read", "round"}
      /\ UNCHANGED <<content, path, writing, line, part, firstOpen, fd, generation, head, buffer, bufferStart, skipping,
                     rotationSeen, queue, written, gone, spoiled, delivered, setting>>
      /\ UNCHANGED <<Owed, InQueue>>
    BY DEF Round, Take, world, reading, fileHistory, Owed, InQueue
<1>3. /\ slot'.at = slot.at /\ slot'.pending = FALSE
      /\ slot' \in [pending : BOOLEAN, at : Positions] /\ slot.at \in Positions /\ retry \in Positions
    BY <1>1, <1>2 DEF ReaderType
<1>4. p \in {Nowhere, slot.at} /\ p \in {slot.at, retry}
    BY <1>1 DEF CommitOK, ToCommit
<1>5. Nowhere \in Positions /\ Nowhere.gen = 0
    BY DEF Nowhere, Positions
<1> HIDE DEF p
<1>6. retry' \in {Nowhere, p}
    BY <1>2 DEF Commit
<1>7. retry' \in {Nowhere, slot.at} /\ retry' \in Positions
    BY <1>3, <1>4, <1>5, <1>6
<1>8. /\ saved' \in [inode : Inodes \cup {NoFile}, offset : Nat, head : Seq(Cell)]
      /\ AllOld(In(saved'.head)) /\ StateOK' /\ StateCovers' /\ StateDelivered'
      /\ committed' \in Nat
      /\ \/ saved' = saved /\ committed' = committed
         \/ saved'.inode = fd /\ saved'.offset = committed' /\ committed' = p.end /\ p.end <= bufferStart
    <2>1. CASE saved' = saved /\ committed' = committed
        BY <1>1, <1>2, <2>1, StateKeeps DEF Fewer, ReaderType, OldOK
    <2>2. CASE ~(saved' = saved /\ committed' = committed)
        <3>1. p # Nowhere /\ ~CommitIgnored(p) /\ ~CommitRefused(p) /\ SaveState(fd, p.end, head, ok)
              /\ committed' = IF ok THEN p.end ELSE committed
            BY <1>2, <2>2 DEF Commit
        <3>2. ok
            BY <2>2, <3>1 DEF SaveState
        <3>3. saved' = [inode |-> fd, offset |-> p.end, head |-> Prefix(head, p.end)] /\ committed' = p.end
            BY <3>1, <3>2 DEF SaveState
        <3>4. p.gen = generation /\ ~(p.end <= committed) /\ ~(p.end > bufferStart)
            BY <3>1 DEF CommitIgnored, CommitRefused
        <3>5. p.end \in Nat /\ committed \in Nat /\ bufferStart \in Nat
            BY <1>1, <1>3, <1>4 DEF ReaderType, Positions
        <3>6. p.end > committed /\ p.end <= bufferStart
            BY <3>4, <3>5
        <3> QED
            BY <1>2, <1>4, <3>3, <3>4, <3>5, <3>6, SaveKeeps
    <2> QED
        BY <2>1, <2>2
<1>9. FilesType' /\ FilesOK'
    BY <1>1, <1>2 DEF FilesType, FilesOK
<1>10. ReaderType'
    BY <1>1, <1>2, <1>3, <1>7, <1>8 DEF ReaderType
<1>11. OldOK'
    BY <1>1, <1>2, <1>8 DEF OldOK, AllOld, Old
<1>12. fd # NoFile => generation > 0 /\ generation \in Nat /\ Nowhere.gen < generation
    BY <1>1, <1>5 DEF Standing, ReaderType
<1>13. Standing'
    <2>1. firstOpen => slot.at = Nowhere
        BY <1>1 DEF Standing
    <2>2. fd = NoFile => slot.at.gen <= generation /\ Nowhere.gen <= generation
        BY <1>1, <1>5 DEF Standing, ReaderType
    <2>3. fd = NoFile => slot'.at.gen <= generation' /\ retry'.gen <= generation'
        BY <1>2, <1>3, <1>7, <2>2
    <2> QED
        BY <1>1, <1>2, <1>3, <1>7, <2>1, <2>3 DEF Standing
<1>14. PositionsOK'
    BY <1>1, <1>2, <1>3, <1>7, <1>12 DEF PositionsOK, Positioned
<1>15. Reading' /\ EndSeen'
    BY <1>1, <1>2 DEF Reading, Same, Emptied, SkipsSame, SkipsEmptied, Shape, Chain, EndSeen
<1>16. QueueCovers' /\ EmptiedCovers'
    BY <1>1, <1>2 DEF QueueCovers, Covered, Same, Emptied, EmptiedCovers, Queued
<1>17. PositionsCovered'
    BY <1>1, <1>2, <1>3, <1>7, <1>12 DEF PositionsCovered, Covered, Same
<1>18. LinesEnd'
    BY <1>1, <1>2, <1>3, <1>7, <1>12 DEF LinesEnd, LineEnds, Delivered, Same
<1>19. Kept' /\ NextOrder'
    BY <1>1, <1>2 DEF Kept, Queued, InNextFile, NextOrder
<1>20. QueueOrder' /\ FileOrder' /\ QueueWhole'
    BY <1>1, <1>2 DEF QueueOrder, FileOrder, QueueWhole, WholeLines, Same, Emptied
<1>21. CommitOK'
    <2>1. ~slot'.pending => retry' \in {Nowhere, slot'.at}
        BY <1>3, <1>7
    <2> SUFFICES ASSUME fd # NoFile
                 PROVE  /\ \/ saved'.inode = fd /\ saved'.offset = committed'
                           \/ /\ \A i \in DOMAIN queue : Uncommitted(queue[i])'
                              /\ Uncommitted(slot.at)' /\ Uncommitted(retry)'
                        /\ committed' <= bufferStart
                        /\ retry' = Nowhere /\ slot.at.gen = generation => slot.at.end <= committed'
        BY <1>2, <1>3, <2>1 DEF CommitOK, Uncommitted
    <2>2. /\ committed' <= bufferStart
          /\ \/ saved'.inode = fd /\ saved'.offset = committed'
             \/ /\ \A i \in DOMAIN queue : Uncommitted(queue[i])'
                /\ Uncommitted(slot.at)' /\ Uncommitted(retry)'
        BY <1>1, <1>2, <1>3, <1>7, <1>8, <1>12 DEF CommitOK, Uncommitted
    <2>3. ASSUME retry' = Nowhere, slot.at.gen = generation PROVE slot.at.end <= committed'
        <3>1. slot.at # Nowhere
            BY <1>12, <2>3
        <3>2. CASE p = slot.at
            <4>1. \/ CommitIgnored(p) /\ UNCHANGED committed
                  \/ committed' = p.end
                BY <1>2, <2>3, <3>1, <3>2 DEF Commit
            <4>2. p.end \in Nat
                BY <1>3, <3>2 DEF Positions
            <4> QED
                BY <2>3, <3>2, <4>1, <4>2 DEF CommitIgnored
        <3>3. CASE p # slot.at
            <4>1. ~slot.pending /\ retry = Nowhere
                BY <1>1, <3>3 DEF p, ToCommit, CommitOK
            <4>2. slot.at.end <= committed
                BY <1>1, <2>3, <4>1 DEF CommitOK
            <4>3. committed' = committed
                BY <1>2, <3>3, <1>4 DEF Commit
            <4> QED
                BY <4>2, <4>3
        <3> QED
            BY <3>2, <3>3
    <2> QED
        BY <2>2, <2>3
<1> QED
    BY <1>8, <1>9, <1>10, <1>11, <1>13, <1>14, <1>15, <1>16, <1>17, <1>18, <1>19, <1>20, <1>21 DEF FInv

-----------------------------------------------------------------------------
(* The push thread is done with the first n lines of the queue *)

LEMMA PushIs ==
    ASSUME ReaderType, NEW n \in DOMAIN queue, NEW safe \in BOOLEAN, PushBatch(n, safe)
    PROVE  /\ queue \in Seq(QueueLine) /\ n \in 1..Len(queue)
           /\ queue' \in Seq(QueueLine) /\ Len(queue') = Len(queue) - n
           /\ \A i \in 1..Len(queue') : queue'[i] = queue[n + i] /\ n + i \in 1..Len(queue)
           /\ delivered \subseteq delivered'
           /\ \A c \in Owed' : c \in Owed /\ \A j \in 1..n : c \notin In(queue[j].text)
           /\ slot' \in [pending : BOOLEAN, at : Positions]
           /\ \/ slot' = slot
              \/ /\ slot'.pending = TRUE /\ slot'.at = [gen |-> queue[n].gen, end |-> queue[n].end]
                 /\ In(queue[n].text) \subseteq delivered'
<1>1. queue \in Seq(QueueLine) /\ n \in 1..Len(queue) /\ slot \in [pending : BOOLEAN, at : Positions]
    BY DEF ReaderType
<1>2. n \in Nat /\ n <= Len(queue) /\ Len(queue) \in Nat
    BY <1>1
<1>3. /\ Behind(queue, n) \in Seq(QueueLine) /\ Len(Behind(queue, n)) = Len(queue) - n
      /\ \A i \in 1..(Len(queue) - n) : Behind(queue, n)[i] = queue[n + i]
    BY <1>1, <1>2, BehindIs
<1>4. queue' = Behind(queue, n)
    BY DEF PushBatch
<1>5. \A i \in 1..(Len(queue) - n) : n + i \in 1..Len(queue)
    BY <1>2
<1>6. PICK batch : batch = UNION {In(queue[i].text) : i \in 1..n}
    OBVIOUS
<1>7. /\ delivered' = IF safe THEN delivered \cup batch ELSE delivered
      /\ gone' = IF safe THEN gone ELSE gone \cup batch
      /\ written' = written
    BY <1>6 DEF PushBatch
<1>8. ASSUME NEW c \in Owed' PROVE c \in Owed /\ \A j \in 1..n : c \notin In(queue[j].text)
    <2>1. c \in Owed /\ c \notin batch
        BY <1>7 DEF Owed
    <2> QED
        BY <1>6, <2>1
<1>9. /\ queue[n].gen \in Nat /\ queue[n].end \in Nat
    BY QueueType
<1>10. In(queue[n].text) \subseteq batch
    BY <1>1, <1>2, <1>6
<1>11. /\ slot' \in [pending : BOOLEAN, at : Positions]
       /\ \/ slot' = slot
          \/ /\ slot'.pending = TRUE /\ slot'.at = [gen |-> queue[n].gen, end |-> queue[n].end]
             /\ In(queue[n].text) \subseteq delivered'
    <2>1. PICK q : q = [gen |-> queue[n].gen, end |-> queue[n].end]
        OBVIOUS
    <2>2. q \in Positions
        BY <1>9, <2>1 DEF Positions
    <2>3. slot' = slot \/ (safe /\ slot' = [pending |-> TRUE, at |-> q])
        BY <2>1 DEF PushBatch, HandOver, Add
    <2>4. CASE slot' = slot
        BY <1>1, <2>4
    <2>5. CASE safe /\ slot' = [pending |-> TRUE, at |-> q]
        <3>1. slot'.pending = TRUE /\ slot'.at = q /\ slot' \in [pending : BOOLEAN, at : Positions]
            BY <2>2, <2>5
        <3>2. In(queue[n].text) \subseteq delivered'
            BY <1>7, <1>10, <2>5
        <3> QED
            BY <2>1, <3>1, <3>2
    <2> QED
        BY <2>3, <2>4, <2>5
<1>12. delivered \subseteq delivered'
    BY <1>7
<1> QED
    BY <1>1, <1>3, <1>4, <1>5, <1>8, <1>11, <1>12

LEMMA PushKeeps ==
    ASSUME FInv, NEW n \in DOMAIN queue, NEW safe \in BOOLEAN, PushBatch(n, safe), UNCHANGED setting
    PROVE  FInv'
<1>1. /\ FilesType /\ ReaderType /\ FilesOK /\ OldOK /\ Standing /\ PositionsOK /\ Reading
      /\ QueueCovers /\ PositionsCovered /\ EndSeen /\ EmptiedCovers /\ LinesEnd /\ Kept
      /\ StateOK /\ StateCovers /\ StateDelivered
      /\ QueueOrder /\ FileOrder /\ NextOrder /\ CommitOK /\ QueueWhole
    BY DEF FInv
<1>2. /\ UNCHANGED <<content, path, writing, line, part, saved, firstOpen, fd, generation, head, buffer, bufferStart,
                     skipping, rotationSeen, committed, pc, written, spoiled, retry, setting>>
    BY DEF PushBatch, world, reader, reading
<1>3. /\ queue \in Seq(QueueLine) /\ n \in 1..Len(queue)
      /\ queue' \in Seq(QueueLine) /\ Len(queue') = Len(queue) - n
      /\ \A i \in 1..Len(queue') : queue'[i] = queue[n + i] /\ n + i \in 1..Len(queue)
      /\ delivered \subseteq delivered'
      /\ \A c \in Owed' : c \in Owed /\ \A j \in 1..n : c \notin In(queue[j].text)
      /\ slot' \in [pending : BOOLEAN, at : Positions]
      /\ \/ slot' = slot
         \/ /\ slot'.pending = TRUE /\ slot'.at = [gen |-> queue[n].gen, end |-> queue[n].end]
            /\ In(queue[n].text) \subseteq delivered'
    BY <1>1, PushIs
<1>4. n \in Nat /\ n >= 1 /\ n <= Len(queue) /\ Len(queue) \in Nat /\ Len(queue') \in Nat
    BY <1>3
<1>5. DOMAIN queue = 1..Len(queue) /\ DOMAIN queue' = 1..Len(queue')
    BY <1>3
<1>6. Owed' \subseteq Owed
    BY <1>3
<1>7. slot'.at = slot.at \/ (slot'.at.gen = queue[n].gen /\ slot'.at.end = queue[n].end)
    BY <1>3
<1>8. ASSUME NEW i \in 1..Len(queue'), NEW j \in 1..Len(queue'), i < j
      PROVE  n + i \in DOMAIN queue /\ n + j \in DOMAIN queue /\ n + i < n + j
    BY <1>3, <1>4, <1>5, <1>8
<1>9. InQueue' \subseteq InQueue
    BY <1>3, <1>5 DEF InQueue
<1>10. ASSUME NEW m, NEW k \in n..Len(queue), Covered(m, k)
       PROVE  \A i \in 1..m : content[fd][i] \in Owed' => \E j \in 1..(k - n) : content[fd][i] \in In(queue'[j].text)
    <2> SUFFICES ASSUME NEW i \in 1..m, content[fd][i] \in Owed'
                 PROVE  \E j \in 1..(k - n) : content[fd][i] \in In(queue'[j].text)
        OBVIOUS
    <2>1. PICK j \in 1..k : content[fd][i] \in In(queue[j].text)
        BY <1>3, <1>10 DEF Covered
    <2>2. ~(j \in 1..n)
        BY <1>3, <2>1
    <2>3. j - n \in 1..(k - n) /\ j - n \in 1..Len(queue') /\ n + (j - n) = j
        BY <1>3, <1>4, <2>2
    <2>4. queue'[j - n] = queue[j]
        BY <1>3, <2>3
    <2> QED
        BY <2>1, <2>3, <2>4
<1>11. ASSUME NEW c, Queued(c), c \in Owed' PROVE Queued(c)'
    <2>1. PICK j \in 1..Len(queue) : c \in In(queue[j].text)
        BY <1>5, <1>11 DEF Queued
    <2>2. ~(j \in 1..n)
        BY <1>3, <1>11, <2>1
    <2>3. j - n \in 1..Len(queue') /\ n + (j - n) = j
        BY <1>3, <1>4, <2>2
    <2>4. queue'[j - n] = queue[j]
        BY <1>3, <2>3
    <2> QED
        BY <1>5, <2>1, <2>3, <2>4 DEF Queued
<1>12. FilesType' /\ FilesOK'
    BY <1>1, <1>2 DEF FilesType, FilesOK
<1>13. ReaderType'
    BY <1>1, <1>2, <1>3 DEF ReaderType
<1>14. OldOK'
    BY <1>1, <1>2, <1>9 DEF OldOK, AllOld, Old
<1>15. Standing'
    <2>1. ~firstOpen
        BY <1>1, <1>3, <1>4 DEF Standing
    <2>2. fd = NoFile => slot'.at.gen <= generation /\ \A i \in DOMAIN queue' : queue'[i].gen <= generation
        BY <1>1, <1>3, <1>5, <1>7 DEF Standing
    <2> QED
        BY <1>1, <1>2, <2>1, <2>2 DEF Standing
<1>16. PositionsOK'
    BY <1>1, <1>2, <1>3, <1>5, <1>7 DEF PositionsOK, Positioned
<1>17. Reading' /\ EndSeen'
    BY <1>1, <1>2, <1>6 DEF Reading, Same, Emptied, SkipsSame, SkipsEmptied, Shape, Chain, EndSeen
<1>18. QueueCovers'
    <2> SUFFICES ASSUME fd # NoFile, spoiled = {}, Same
                 PROVE  /\ Covered(bufferStart, Len(queue))'
                        /\ \A i \in DOMAIN queue' : queue'[i].gen = generation => Covered(queue[i].end, i)'
        BY <1>2 DEF QueueCovers, Same
    <2>1. Covered(bufferStart, Len(queue))'
        <3>1. Covered(bufferStart, Len(queue)) /\ Len(queue) \in n..Len(queue) /\ Len(queue) - n = Len(queue')
            BY <1>1, <1>3, <1>4 DEF QueueCovers
        <3> QED
            BY <1>2, <1>10, <3>1 DEF Covered
    <2>2. ASSUME NEW i \in 1..Len(queue'), queue'[i].gen = generation PROVE Covered(queue[i].end, i)'
        <3>1. n + i \in n..Len(queue) /\ n + i \in DOMAIN queue /\ (n + i) - n = i /\ queue'[i] = queue[n + i]
            BY <1>3, <1>4, <1>5
        <3>2. Covered(queue[n + i].end, n + i)
            BY <1>1, <2>2, <3>1 DEF QueueCovers
        <3>3. \A k \in 1..queue[n + i].end :
                  content[fd][k] \in Owed' => \E j \in 1..i : content[fd][k] \in In(queue'[j].text)
            BY <1>10, <3>1, <3>2
        <3> QED
            BY <1>2, <3>1, <3>3 DEF Covered
    <2> QED
        BY <1>5, <2>1, <2>2
<1>19. PositionsCovered'
    <2> SUFFICES ASSUME fd # NoFile, spoiled = {}, Same
                 PROVE  /\ slot'.at.gen = generation => Covered(slot.at.end, 0)'
                        /\ retry.gen = generation => Covered(retry.end, 0)'
        BY <1>2 DEF PositionsCovered, Same
    <2>1. ASSUME NEW m, Covered(m, 0) PROVE \A i \in 1..m : content[fd][i] \notin Owed'
        BY <1>6, <2>1 DEF Covered
    <2>2. retry.gen = generation => Covered(retry.end, 0)'
        BY <1>1, <1>2, <2>1 DEF PositionsCovered, Covered
    <2>3. ASSUME slot'.at = slot.at, slot.at.gen = generation PROVE Covered(slot.at.end, 0)'
        BY <1>1, <1>2, <2>1, <2>3 DEF PositionsCovered, Covered
    <2>4. ASSUME slot'.at.end = queue[n].end, queue[n].gen = generation PROVE Covered(slot.at.end, 0)'
        <3>1. Covered(queue[n].end, n) /\ n \in n..Len(queue) /\ n - n = 0
            BY <1>1, <1>4, <2>4 DEF QueueCovers
        <3>2. \A i \in 1..queue[n].end : content[fd][i] \notin Owed'
            BY <1>10, <3>1
        <3> QED
            BY <1>2, <2>4, <3>2 DEF Covered
    <2> QED
        BY <1>7, <2>2, <2>3, <2>4
<1>20. EmptiedCovers'
    BY <1>1, <1>2, <1>6, <1>11 DEF EmptiedCovers, Emptied
<1>21. LinesEnd'
    <2> SUFFICES ASSUME fd # NoFile, spoiled = {}, Same
                 PROVE  /\ \A i \in 1..Len(queue') : queue'[i].gen = generation =>
                               \E p \in 1..queue'[i].end :
                                   LineEnds(p, queue'[i].end) /\ content[fd][p] \in In(queue'[i].text)
                        /\ slot'.at.gen = generation => Delivered(slot.at.end)'
                        /\ retry.gen = generation => Delivered(retry.end)'
        BY <1>2, <1>5 DEF LinesEnd, Same, LineEnds
    <2>1. ASSUME NEW i \in 1..Len(queue'), queue'[i].gen = generation
          PROVE  \E p \in 1..queue'[i].end : LineEnds(p, queue'[i].end) /\ content[fd][p] \in In(queue'[i].text)
        BY <1>1, <1>3, <1>5, <2>1 DEF LinesEnd
    <2>2. ASSUME NEW m, Delivered(m)
          PROVE  m > 0 => \E p \in 1..m : /\ p \in 1..m /\ content[fd][p].line = content[fd][m].line
                                          /\ content[fd][p] \in delivered'
        BY <1>3, <2>2 DEF Delivered, LineEnds
    <2>3. retry.gen = generation => Delivered(retry.end)'
        BY <1>1, <1>2, <2>2 DEF LinesEnd, Delivered, LineEnds
    <2>4. ASSUME slot' = slot, slot.at.gen = generation PROVE Delivered(slot.at.end)'
        BY <1>1, <1>2, <2>2, <2>4 DEF LinesEnd, Delivered, LineEnds
    <2>5. ASSUME slot'.at.end = queue[n].end, queue[n].gen = generation, In(queue[n].text) \subseteq delivered'
          PROVE  Delivered(slot.at.end)'
        <3>1. PICK p \in 1..queue[n].end : LineEnds(p, queue[n].end) /\ content[fd][p] \in In(queue[n].text)
            BY <1>1, <2>5 DEF LinesEnd
        <3> QED
            BY <1>2, <2>5, <3>1 DEF Delivered, LineEnds
    <2> QED
        BY <1>3, <2>1, <2>3, <2>4, <2>5
<1>22. Kept'
    BY <1>1, <1>2, <1>6, <1>11 DEF Kept, InNextFile
<1>23. StateOK' /\ StateCovers' /\ StateDelivered'
    BY <1>1, <1>2, <1>3, <1>6, StateKeeps DEF Fewer
<1>24. QueueOrder' /\ QueueWhole'
    <2>1. QueueOrder'
        BY <1>1, <1>2, <1>3, <1>5, <1>8 DEF QueueOrder
    <2>2. QueueWhole'
        BY <1>1, <1>2, <1>3, <1>5 DEF QueueWhole, WholeLines
    <2> QED
        BY <2>1, <2>2
<1>25. FileOrder' /\ NextOrder'
    BY <1>1, <1>2, <1>9 DEF FileOrder, NextOrder, NotAfter, Same, Emptied
<1>26. CommitOK'
    <2>1. ~slot'.pending => slot' = slot
        BY <1>3
    <2>2. Uncommitted(queue[n]) /\ Uncommitted(slot.at) => (slot'.at.gen = generation => slot'.at.end > committed)
        BY <1>7 DEF Uncommitted
    <2> QED
        BY <1>1, <1>2, <1>3, <1>5, <2>1, <2>2 DEF CommitOK, Uncommitted
<1> QED
    BY <1>12, <1>13, <1>14, <1>15, <1>16, <1>17, <1>18, <1>19, <1>20, <1>21, <1>22, <1>23, <1>24, <1>25, <1>26 DEF FInv

-----------------------------------------------------------------------------
(* The process starts and ends *)

LEMMA NothingHeld ==
    /\ In(<< >>) = {} /\ << >> \in Seq(Cell) /\ << >> \in Seq(QueueLine) /\ DOMAIN << >> = {}
    /\ Nowhere \in Positions /\ Nowhere.gen = 0
    /\ [pending |-> FALSE, at |-> Nowhere] \in [pending : BOOLEAN, at : Positions]
    /\ NoState \in [inode : Inodes \cup {NoFile}, offset : Nat, head : Seq(Cell)]
    /\ NoState.inode = NoFile /\ NoState.head = << >>
<1>1. << >> \in Seq(Cell) /\ << >> \in Seq(QueueLine) /\ DOMAIN << >> = {}
    OBVIOUS
<1>2. In(<< >>) = {}
    BY DEF In
<1>3. Nowhere \in Positions /\ Nowhere.gen = 0
    BY DEF Nowhere, Positions
<1>4. [pending |-> FALSE, at |-> Nowhere] \in [pending : BOOLEAN, at : Positions]
    BY <1>3
<1>5. NoState.inode = NoFile /\ NoState.head = << >>
    BY DEF NoState
<1>6. NoState \in [inode : Inodes \cup {NoFile}, offset : Nat, head : Seq(Cell)]
    BY <1>1 DEF NoState
<1> QED
    BY <1>1, <1>2, <1>3, <1>4, <1>5, <1>6

\* What the process has in memory before it opened a file
NothingOpen ==
    /\ firstOpen = TRUE /\ fd = NoFile /\ generation = 0 /\ head = << >> /\ buffer = << >> /\ bufferStart = 0
    /\ skipping = FALSE /\ rotationSeen = FALSE /\ committed = 0 /\ queue = << >> /\ pc = "down"
    /\ slot = [pending |-> FALSE, at |-> Nowhere] /\ retry = Nowhere

\* What follows from that
NothingWrong ==
    /\ Standing /\ PositionsOK /\ Reading /\ QueueCovers /\ PositionsCovered /\ EndSeen /\ EmptiedCovers /\ LinesEnd
    /\ QueueOrder /\ FileOrder /\ NextOrder /\ CommitOK /\ QueueWhole
    /\ AllOld(In(head)) /\ AllOld(In(buffer)) /\ AllOld(InQueue)
    /\ firstOpen \in BOOLEAN /\ fd \in Inodes \cup {NoFile} /\ generation \in Nat
    /\ head \in Seq(Cell) /\ buffer \in Seq(Cell) /\ bufferStart \in Nat
    /\ skipping \in BOOLEAN /\ rotationSeen \in BOOLEAN /\ committed \in Nat
    /\ queue \in Seq(QueueLine)
    /\ slot \in [pending : BOOLEAN, at : Positions] /\ retry \in Positions

LEMMA NothingOpenIs == NothingOpen => NothingWrong
<1> SUFFICES ASSUME NothingOpen PROVE NothingWrong
    OBVIOUS
<1>1. Standing
    BY NothingHeld DEF NothingOpen, Standing
<1>2. PositionsOK /\ Reading /\ QueueCovers /\ PositionsCovered /\ EndSeen /\ EmptiedCovers /\ LinesEnd /\ FileOrder /\ NextOrder
    BY DEF NothingOpen, PositionsOK, Reading, QueueCovers, PositionsCovered, EndSeen, EmptiedCovers, LinesEnd, FileOrder,
           NextOrder
<1>3. QueueOrder /\ QueueWhole
    BY NothingHeld DEF NothingOpen, QueueOrder, QueueWhole, WholeLines
<1>4. CommitOK
    BY DEF NothingOpen, CommitOK
<1>5. AllOld(In(head)) /\ AllOld(In(buffer)) /\ AllOld(InQueue)
    BY NothingHeld DEF NothingOpen, AllOld, InQueue
<1>6. /\ firstOpen \in BOOLEAN /\ fd \in Inodes \cup {NoFile} /\ generation \in Nat /\ bufferStart \in Nat
      /\ skipping \in BOOLEAN /\ rotationSeen \in BOOLEAN /\ committed \in Nat
    BY DEF NothingOpen
<1>7. /\ head \in Seq(Cell) /\ buffer \in Seq(Cell) /\ queue \in Seq(QueueLine)
      /\ slot \in [pending : BOOLEAN, at : Positions] /\ retry \in Positions
    BY NothingHeld DEF NothingOpen
<1> QED
    BY <1>1, <1>2, <1>3, <1>4, <1>5, <1>6, <1>7 DEF NothingWrong

LEMMA InitIs == Init => FInv
<1> SUFFICES ASSUME Init PROVE FInv
    OBVIOUS
<1>1. NothingOpen
    BY DEF Init, FileInit, NoCells, NothingOpen
<1>2. /\ content = [i \in Inodes |-> << >>] /\ path = NoFile /\ writing = NoFile /\ line = 0 /\ part = 0
      /\ saved = NoState /\ written = {} /\ gone = {} /\ spoiled = {} /\ delivered = {}
    BY DEF Init, FileInit, NoCells
<1>3. FilesType /\ FilesOK
    <2>1. \A i \in Inodes : content[i] = << >>
        BY <1>2
    <2>2. Shape(<< >>)
        BY DEF Shape
    <2>3. FilesType
        BY <1>2, NothingHeld DEF FilesType
    <2>4. FilesOK
        BY <1>2, <2>1, <2>2 DEF FilesOK
    <2> QED
        BY <2>3, <2>4
<1>4. ReaderType
    BY <1>1, <1>2, NothingOpenIs, NothingHeld DEF ReaderType, NothingWrong
<1>5. OldOK
    <2>1. \A i \in Inodes : In(content[i]) = {}
        BY <1>2, NothingHeld
    <2>2. In(saved.head) = {}
        BY <1>2, NothingHeld
    <2> QED
        BY <1>1, <1>2, <2>1, <2>2, NothingOpenIs DEF OldOK, AllOld, NothingWrong
<1>6. Owed = {}
    BY <1>2 DEF Owed
<1>7. Kept /\ StateOK /\ StateCovers /\ StateDelivered
    BY <1>2, <1>6, NothingHeld DEF Kept, StateOK, StateCovers, StateDelivered
<1> QED
    BY <1>1, <1>3, <1>4, <1>5, <1>7, NothingOpenIs DEF FInv, NothingWrong

LEMMA NothingOpenNext == NothingOpen' => NothingWrong'
BY NothingOpenIs, PTL

LEMMA ExitKeeps ==
    ASSUME FInv, Exit, UNCHANGED setting,
           saved' \in [inode : Inodes \cup {NoFile}, offset : Nat, head : Seq(Cell)],
           AllOld(In(saved'.head)), StateOK', StateCovers', StateDelivered'
    PROVE  FInv'
<1>1. FilesType /\ FilesOK /\ OldOK
    BY DEF FInv
<1>2. /\ NothingOpen'
      /\ UNCHANGED <<content, path, writing, line, part, written, delivered>>
    BY DEF Exit, NothingOpen, NoCells, world
<1>3. FilesType' /\ FilesOK'
    BY <1>1, <1>2 DEF FilesType, FilesOK
<1>4. ReaderType'
    BY <1>2, NothingOpenNext DEF ReaderType, NothingWrong
<1>5. OldOK'
    <2>1. AllOld(In(head))' /\ AllOld(In(buffer))' /\ AllOld(InQueue)'
        BY <1>2, NothingOpenNext DEF NothingWrong
    <2> QED
        BY <1>1, <1>2, <2>1 DEF OldOK, AllOld, Old
<1>6. Kept'
    <2> SUFFICES ASSUME spoiled' = {}, NEW c \in Owed' PROVE path # NoFile /\ c \in In(content[path])
        BY <1>2 DEF Kept, NothingOpen
    <2>1. RotatedText = {}
        BY DEF Exit
    <2>2. c \in written /\ c \notin gone'
        BY <1>2 DEF Owed
    <2>3. gone' = gone \cup (written \ (IF path = NoFile THEN {} ELSE In(content[path])))
        BY <2>1 DEF Exit
    <2> QED
        BY <2>2, <2>3
<1> QED
    BY <1>2, <1>3, <1>4, <1>5, <1>6, NothingOpenNext DEF FInv, NothingWrong

LEMMA ExitFewer ==
    ASSUME Exit
    PROVE  /\ Owed' \subseteq Owed /\ spoiled \subseteq spoiled' /\ delivered \subseteq delivered' /\ content' = content
BY DEF Exit, Owed, world

LEMMA CrashKeeps ==
    ASSUME FInv, Crash, UNCHANGED setting
    PROVE  FInv'
<1>1. ReaderType /\ OldOK /\ StateOK /\ StateCovers /\ StateDelivered
    BY DEF FInv
<1>2. Exit /\ saved' = saved
    BY DEF Crash
<1>3. StateOK' /\ StateCovers' /\ StateDelivered'
    BY <1>1, <1>2, ExitFewer, StateKeeps DEF Fewer
<1>4. AllOld(In(saved'.head))
    BY <1>1, <1>2 DEF OldOK
<1> QED
    BY <1>1, <1>2, <1>3, <1>4, ExitKeeps DEF ReaderType

LEMMA ShutdownKeeps ==
    ASSUME FInv, NEW ok \in BOOLEAN, Shutdown(ok), UNCHANGED setting
    PROVE  FInv'
<1>1. ReaderType /\ OldOK /\ StateOK /\ StateCovers /\ StateDelivered
    BY DEF FInv
<1>2. Exit /\ LastCommit(ok)
    BY DEF Shutdown
<1>3. CASE saved' = saved
    <2>1. StateOK' /\ StateCovers' /\ StateDelivered'
        BY <1>1, <1>2, <1>3, ExitFewer, StateKeeps DEF Fewer
    <2>2. AllOld(In(saved'.head))
        BY <1>1, <1>3 DEF OldOK
    <2> QED
        BY <1>1, <1>2, <1>3, <2>1, <2>2, ExitKeeps DEF ReaderType
<1>4. CASE saved' # saved
    <2>1. /\ ~CommitIgnored(slot.at) /\ ~CommitRefused(slot.at)
          /\ saved' = [inode |-> fd, offset |-> slot.at.end, head |-> Prefix(head, slot.at.end)]
        BY <1>2, <1>4 DEF LastCommit, SaveState
    <2>2. slot.at.gen = generation /\ ~(slot.at.end <= committed) /\ ~(slot.at.end > bufferStart)
        BY <2>1 DEF CommitIgnored, CommitRefused
    <2>3. slot.at.end \in Nat /\ committed \in Nat /\ bufferStart \in Nat
        BY <1>1 DEF ReaderType, Positions
    <2>4. slot.at.end > committed /\ slot.at.end <= bufferStart
        BY <2>2, <2>3
    <2>5. PICK p \in {slot.at, retry} : p = slot.at
        OBVIOUS
    <2>6. /\ saved' \in [inode : Inodes \cup {NoFile}, offset : Nat, head : Seq(Cell)]
          /\ AllOld(In(saved'.head)) /\ StateOK' /\ StateCovers' /\ StateDelivered'
        BY <1>2, <2>1, <2>2, <2>4, <2>5, ExitFewer, SaveKeeps
    <2> QED
        BY <1>2, <2>6, ExitKeeps
<1> QED
    BY <1>3, <1>4

LEMMA DamageKeeps ==
    ASSUME FInv, DamageState, UNCHANGED setting
    PROVE  FInv'
<1>1. /\ FilesType /\ ReaderType /\ FilesOK /\ OldOK /\ Standing /\ Kept /\ QueueOrder /\ NextOrder /\ QueueWhole /\ CommitOK
    BY DEF FInv
<1>2. /\ pc = "down" /\ saved' = NoState /\ saved'.inode = NoFile /\ In(saved'.head) = {}
      /\ saved' \in [inode : Inodes \cup {NoFile}, offset : Nat, head : Seq(Cell)]
      /\ UNCHANGED <<content, path, writing, line, part, written, gone, spoiled>>
      /\ UNCHANGED <<firstOpen, fd, generation, head, buffer, bufferStart, skipping, rotationSeen, committed>>
      /\ UNCHANGED <<pc, queue, slot, retry, delivered, Owed, InQueue>>
    BY NothingHeld DEF DamageState, world, reader, reading, fileHistory, Owed, InQueue
<1>3. fd = NoFile
    BY <1>1, <1>2 DEF Standing
<1>4. FilesType' /\ FilesOK'
    BY <1>1, <1>2 DEF FilesType, FilesOK
<1>5. ReaderType'
    BY <1>1, <1>2 DEF ReaderType
<1>6. OldOK'
    BY <1>1, <1>2 DEF OldOK, AllOld, Old
<1>7. Standing'
    BY <1>1, <1>2 DEF Standing
<1>8. /\ PositionsOK' /\ Reading' /\ QueueCovers' /\ PositionsCovered' /\ EndSeen' /\ EmptiedCovers' /\ LinesEnd'
      /\ FileOrder'
    BY <1>2, <1>3 DEF PositionsOK, Reading, QueueCovers, PositionsCovered, EndSeen, EmptiedCovers, LinesEnd, FileOrder
<1>9. StateOK' /\ StateCovers' /\ StateDelivered'
    BY <1>2 DEF StateOK, StateCovers, StateDelivered
<1>10. Kept' /\ NextOrder'
    BY <1>1, <1>2 DEF Kept, Queued, InNextFile, NextOrder
<1>11. QueueOrder' /\ QueueWhole' /\ CommitOK'
    BY <1>1, <1>2, <1>3 DEF QueueOrder, QueueWhole, WholeLines, CommitOK
<1> QED
    BY <1>4, <1>5, <1>6, <1>7, <1>8, <1>9, <1>10, <1>11 DEF FInv

-----------------------------------------------------------------------------
(* Every step *)

LEMMA ReadLineKeeps ==
    ASSUME FInv, ReadLine, Quiet
    PROVE  FInv'
<1>1. CASE \E ok \in BOOLEAN : OpenFile(ok) \/ CheckFileChanged(ok)
    BY <1>1, OpenKeeps, ChangedKeeps
<1>2. CASE NothingToOpen \/ SeeRotation \/ WaitForMore
    BY <1>2, PlacesKeep DEF Quiet
<1>3. CASE ExtractLine \/ CheckFile
    BY <1>3, TakesKeep
<1>4. CASE FillBuffer
    BY <1>4, FillKeeps
<1>5. CASE FillBufferEnd
    BY <1>5, FillEndKeeps
<1>6. CASE ReturnLast \/ ReturnIncomplete
    BY <1>6, ReturnsKeep
<1>7. CASE CloseFile
    BY <1>7, CloseKeeps
<1> QED
    BY <1>1, <1>2, <1>3, <1>4, <1>5, <1>6, <1>7 DEF ReadLine

LEMMA NextKeeps ==
    ASSUME FInv, Next
    PROVE  FInv'
<1>1. UNCHANGED setting
    BY DEF Next
<1>2. CASE World /\ UNCHANGED <<slot, retry, stopping, delivered>>
    BY <1>1, <1>2, WorldKeeps DEF Quiet
<1>3. CASE FileThread
    <2>1. CASE \E ok \in BOOLEAN : Round(ok)
        BY <1>1, <2>1, RoundKeeps
    <2>2. CASE EndThread
        BY <1>1, <2>2, PlacesKeep DEF EndThread
    <2>3. CASE ReadLine /\ UNCHANGED <<slot, retry, stopping, delivered>>
        BY <1>1, <2>3, ReadLineKeeps DEF Quiet
    <2> QED
        BY <1>3, <2>1, <2>2, <2>3 DEF FileThread
<1>4. CASE \E n \in DOMAIN queue, safe \in BOOLEAN : PushBatch(n, safe)
    BY <1>1, <1>4, PushKeeps
<1>5. CASE Start
    BY <1>1, <1>5, PlacesKeep DEF Start
<1>6. CASE Crash
    BY <1>1, <1>6, CrashKeeps
<1>7. CASE RequestShutdown
    BY <1>1, <1>7, PlacesKeep DEF RequestShutdown
<1>8. CASE DamageState
    BY <1>1, <1>8, DamageKeeps
<1>9. CASE \E ok \in BOOLEAN : Shutdown(ok)
    BY <1>1, <1>9, ShutdownKeeps
<1> QED
    BY <1>2, <1>3, <1>4, <1>5, <1>6, <1>7, <1>8, <1>9 DEF Next

LEMMA StutterKeeps ==
    ASSUME FInv, UNCHANGED vars
    PROVE  FInv'
<1>1. ReaderType /\ Standing
    BY DEF FInv
<1>2. Inside /\ UNCHANGED <<firstOpen, fd, buffer, rotationSeen, pc>>
    BY DEF Inside, vars, fileVars, world, reader, reading, fileHistory
<1> QED
    BY <1>1, <1>2, GoesOn DEF ReaderType, Standing

\* The inductive invariant holds in every state of the file input.
THEOREM FInvHolds == Spec => []FInv
<1>1. FInv /\ [Next]_vars => FInv'
    BY NextKeeps, StutterKeeps
<1> QED
    BY <1>1, InitIs, PTL DEF Spec

-----------------------------------------------------------------------------
(* What the invariant says of the properties of FileInput *)

\* A cell of the open file is in the queue, in the buffer, or it is still to be read
LEMMA FileCell ==
    ASSUME FInv, fd # NoFile, spoiled = {}, NEW i \in DOMAIN content[fd], content[fd][i] \in Owed
    PROVE  \/ WillChange \/ Queued(content[fd][i]) \/ content[fd][i] \in In(buffer)
           \/ i > bufferStart + Len(buffer)
<1>1. FilesType /\ ReaderType /\ Reading /\ QueueCovers
    BY DEF FInv
<1>2. CASE ~Same
    BY <1>1, <1>2, WillChangeIs
<1>3. CASE Same /\ i <= bufferStart
    <2>1. content[fd] \in Seq(Cell) /\ bufferStart \in Nat
        BY <1>1, OpenType DEF ReaderType
    <2>2. i \in 1..bufferStart
        BY <1>3, <2>1
    <2>3. \E j \in 1..Len(queue) : content[fd][i] \in In(queue[j].text)
        BY <1>1, <1>3, <2>2 DEF QueueCovers, Covered
    <2> QED
        BY <1>1, <2>3 DEF Queued, ReaderType
<1>4. CASE Same /\ i > bufferStart /\ i <= bufferStart + Len(buffer)
    <2>1. content[fd] \in Seq(Cell) /\ bufferStart \in Nat /\ buffer \in Seq(Cell)
        BY <1>1, OpenType DEF ReaderType
    <2>2. i - bufferStart \in 1..Len(buffer) /\ bufferStart + (i - bufferStart) = i
        BY <1>4, <2>1
    <2>3. i - bufferStart \in DOMAIN buffer
        BY <2>1, <2>2
    <2>4. buffer[i - bufferStart] = content[fd][i]
        BY <1>4, <2>2, <2>3 DEF Same, Part
    <2> QED
        BY <2>1, <2>2, <2>4, InIs
<1>5. i \in Nat /\ bufferStart \in Nat /\ Len(buffer) \in Nat
    BY <1>1, OpenType DEF ReaderType
<1> QED
    BY <1>2, <1>3, <1>4, <1>5

LEMMA NoneLostIs ==
    ASSUME FInv
    PROVE  NoneLost
<1>1. FilesType /\ ReaderType /\ Standing /\ Kept /\ StateCovers
    BY DEF FInv
<1> SUFFICES ASSUME spoiled = {}, NEW c \in Owed
             PROVE  InHand(c)
    BY DEF NoneLost, Safe
<1>2. CASE Follows
    <2> SUFFICES Queued(c) \/ c \in In(buffer) \/ Ahead(c) \/ InNextFile(c)
        BY <1>2 DEF InHand
    <2>1. Queued(c) \/ c \in In(buffer) \/ (fd # NoFile /\ c \in In(content[fd])) \/ InNextFile(c)
        BY <1>1, <1>2 DEF Kept, Follows
    <2>2. ASSUME fd # NoFile, c \in In(content[fd]) PROVE Queued(c) \/ c \in In(buffer) \/ Ahead(c)
        <3>1. PICK i \in DOMAIN content[fd] : c = content[fd][i]
            BY <2>2 DEF In
        <3> QED
            BY <2>2, <3>1, FileCell DEF Ahead
    <2> QED
        BY <2>1, <2>2
<1>3. CASE ~Follows
    <2>1. firstOpen
        BY <1>1, <1>3 DEF Follows, Standing
    <2>2. path # NoFile /\ c \in In(content[path])
        BY <1>1, <2>1 DEF Kept
    <2>3. path \in Inodes /\ content[path] \in Seq(Cell) /\ saved.offset \in Nat
        BY <1>1, <2>2, FileType DEF FilesType, ReaderType
    <2>4. PICK i \in 1..Len(content[path]) : c = content[path][i]
        BY <2>2, <2>3, InIs
    <2>5. i > (IF SameFile(path) THEN saved.offset ELSE 0)
        <3>1. CASE SameFile(path)
            <4>1. saved.inode = path /\ StateSame
                BY <1>1, <2>3, <3>1, SameFileIs
            <4>2. ~(i \in 1..saved.offset)
                BY <1>1, <2>2, <2>4, <4>1 DEF StateCovers
            <4> QED
                BY <2>3, <2>4, <3>1, <4>2
        <3>2. CASE ~SameFile(path)
            BY <2>3, <2>4, <3>2
        <3> QED
            BY <3>1, <3>2
    <2>6. i \in DOMAIN content[path]
        BY <2>3, <2>4
    <2> QED
        BY <1>3, <2>2, <2>4, <2>5, <2>6 DEF InHand, AfterRestart
<1> QED
    BY <1>2, <1>3

LEMMA SavedIs ==
    ASSUME FInv
    PROVE  CrashSafe /\ SavedIsDelivered
<1>1. FilesType /\ ReaderType /\ StateCovers /\ StateDelivered
    BY DEF FInv
<1>2. ASSUME saved.inode # NoFile, SameFile(saved.inode) PROVE StateSame
    <2>1. saved.inode \in Inodes
        BY <1>1, <1>2 DEF ReaderType
    <2> QED
        BY <1>1, <1>2, <2>1, SameFileIs
<1>3. CrashSafe
    BY <1>1, <1>2 DEF CrashSafe, StateCovers
<1>4. SavedIsDelivered
    BY <1>1, <1>2 DEF SavedIsDelivered, StateDelivered
<1> QED
    BY <1>3, <1>4

\* What is owed and not in the queue comes after the lines of the queue
LEMMA OwedAfter ==
    ASSUME FInv, spoiled = {}, ~firstOpen, NEW d \in Owed, NEW c \in InQueue
    PROVE  Queued(d) \/ c.line <= d.line
<1>1. FilesType /\ ReaderType /\ Standing /\ Reading /\ QueueCovers /\ FileOrder /\ NextOrder /\ Kept
    BY DEF FInv
<1>2. "mixed" \notin spoiled
    OBVIOUS
<1>3. ASSUME fd # NoFile, Same, NEW i \in DOMAIN content[fd], d = content[fd][i] PROVE Queued(d) \/ c.line <= d.line
    <2>1. content[fd] \in Seq(Cell) /\ bufferStart \in Nat
        BY <1>1, <1>3, OpenType DEF ReaderType
    <2>2. CASE i > bufferStart
        BY <1>1, <1>2, <1>3, <2>2 DEF FileOrder, NotAfter
    <2>3. CASE ~(i > bufferStart)
        <3>1. i \in 1..bufferStart
            BY <2>1, <2>3
        <3>2. \E j \in 1..Len(queue) : d \in In(queue[j].text)
            BY <1>1, <1>3, <3>1 DEF QueueCovers, Covered
        <3> QED
            BY <1>1, <3>2 DEF Queued, ReaderType
    <2> QED
        BY <2>2, <2>3
<1>4. CASE d \in In(buffer)
    <2>1. fd # NoFile
        BY <1>1, <1>4, NothingHeld DEF Standing
    <2>2. CASE Same
        <3>1. content[fd] \in Seq(Cell) /\ bufferStart \in Nat /\ buffer \in Seq(Cell)
            BY <1>1, <2>1, OpenType DEF ReaderType
        <3>2. PICK i \in 1..Len(buffer) : d = buffer[i]
            BY <1>4, <3>1, InIs
        <3>3. i \in DOMAIN buffer
            BY <3>1, <3>2
        <3>4. buffer[i] = content[fd][bufferStart + i] /\ bufferStart + Len(buffer) <= Len(content[fd])
            BY <2>2, <3>3 DEF Same, Part
        <3>5. bufferStart + i \in 1..Len(content[fd])
            BY <3>1, <3>2, <3>4
        <3>6. bufferStart + i \in DOMAIN content[fd]
            BY <3>1, <3>5
        <3> QED
            BY <1>3, <2>1, <2>2, <3>2, <3>4, <3>6
    <2>3. CASE Emptied
        BY <1>1, <1>2, <1>4, <2>1, <2>3 DEF FileOrder, NotAfter
    <2> QED
        BY <1>1, <1>2, <2>1, <2>2, <2>3 DEF Reading
<1>5. CASE fd # NoFile /\ d \in In(content[fd])
    <2>1. CASE Same
        BY <1>3, <1>5, <2>1 DEF In
    <2>2. CASE Emptied
        BY <1>1, <1>2, <1>5, <2>2 DEF FileOrder, NotAfter
    <2> QED
        BY <1>1, <1>2, <1>5, <2>1, <2>2 DEF Reading
<1>6. CASE InNextFile(d)
    BY <1>1, <1>2, <1>6 DEF InNextFile, NextOrder, NotAfter
<1> QED
    BY <1>1, <1>4, <1>5, <1>6 DEF Kept

LEMMA PushInOrder ==
    ASSUME FInv, NEW n \in DOMAIN queue, NEW safe \in BOOLEAN, PushBatch(n, safe), spoiled' = {},
           NEW c \in delivered' \ delivered, NEW d \in Owed, d.line < c.line
    PROVE  d \in delivered'
<1>1. FilesType /\ ReaderType /\ FilesOK /\ Standing /\ QueueOrder
    BY DEF FInv
<1>2. PICK batch : batch = UNION {In(queue[i].text) : i \in 1..n}
    OBVIOUS
<1>3. delivered' = delivered \cup batch /\ spoiled = {}
    BY <1>2 DEF PushBatch
<1>4. PICK j \in 1..n : c \in In(queue[j].text)
    BY <1>2, <1>3
<1>5. n \in 1..Len(queue) /\ queue \in Seq(QueueLine) /\ DOMAIN queue = 1..Len(queue)
    BY <1>1 DEF ReaderType
<1>6. n \in Nat /\ j \in Nat /\ j <= n /\ j \in DOMAIN queue
    BY <1>4, <1>5
<1>7. ~firstOpen
    BY <1>1, <1>5 DEF Standing
<1>8. c \in InQueue
    BY <1>4, <1>6 DEF InQueue
<1>9. c.line \in Nat /\ d.line \in Nat
    BY <1>1, <1>8, InQueueCell, OwedIs, CellType
<1>10. ~(c.line <= d.line)
    BY <1>9
<1>11. PICK m \in DOMAIN queue : d \in In(queue[m].text)
    BY <1>3, <1>7, <1>8, <1>10, OwedAfter DEF Queued
<1>12. ~(j < m)
    BY <1>1, <1>3, <1>4, <1>6, <1>10, <1>11 DEF QueueOrder, NotAfter
<1>13. m \in 1..n
    BY <1>5, <1>6, <1>11, <1>12
<1> QED
    BY <1>2, <1>3, <1>11, <1>13

LEMMA InOrderStep ==
    ASSUME FInv, [Next]_vars, spoiled' = {}, NEW c \in delivered' \ delivered, NEW d \in Owed, d.line < c.line
    PROVE  d \in delivered'
<1>1. CASE \E n \in DOMAIN queue, safe \in BOOLEAN : PushBatch(n, safe)
    BY <1>1, PushInOrder
<1>2. CASE ~\E n \in DOMAIN queue, safe \in BOOLEAN : PushBatch(n, safe)
    <2>1. CASE UNCHANGED vars
        BY <2>1 DEF vars
    <2>2. CASE Next
        <3>1. CASE FileThread
            BY <3>1 DEF FileThread, Round, EndThread
        <3>2. CASE Start \/ RequestShutdown \/ DamageState
            BY <3>2 DEF Start, RequestShutdown, DamageState
        <3>3. CASE Crash \/ \E ok \in BOOLEAN : Shutdown(ok)
            BY <3>3 DEF Crash, Shutdown, Exit
        <3> QED
            BY <1>2, <2>2, <3>1, <3>2, <3>3 DEF Next
    <2> QED
        BY <2>1, <2>2
<1> QED
    BY <1>1, <1>2

LEMMA StopStep ==
    ASSUME FInv, retry = Nowhere
    PROVE  LastPositionSaved(TRUE)
<1> SUFFICES ASSUME Shutdown(TRUE), fd # NoFile, slot.at.gen = generation
             PROVE  saved'.inode = fd /\ saved'.offset >= slot.at.end
    BY DEF LastPositionSaved
<1>1. ReaderType /\ PositionsOK /\ CommitOK
    BY DEF FInv
<1>2. slot.at.end \in Nat /\ committed \in Nat /\ bufferStart \in Nat /\ generation \in Nat
    BY <1>1 DEF ReaderType, Positions
<1>3. ~CommitRefused(slot.at)
    <2>1. ~(generation < generation)
        BY <1>2
    <2>2. slot.at.end <= bufferStart
        BY <1>1, <2>1 DEF PositionsOK, Positioned
    <2> QED
        BY <1>2, <2>2 DEF CommitRefused
<1>4. CASE slot.pending /\ ~CommitIgnored(slot.at)
    <2>1. saved' = [inode |-> fd, offset |-> slot.at.end, head |-> Prefix(head, slot.at.end)]
        BY <1>3, <1>4 DEF Shutdown, LastCommit, SaveState
    <2>2. saved'.inode = fd /\ saved'.offset = slot.at.end
        BY <2>1
    <2> QED
        BY <1>2, <2>2
<1>5. CASE ~slot.pending \/ CommitIgnored(slot.at)
    <2>1. saved' = saved
        BY <1>5 DEF Shutdown, LastCommit
    <2>2. slot.at.end <= committed
        BY <1>1, <1>5 DEF CommitIgnored, CommitOK
    <2>3. ~(slot.at.end > committed)
        BY <1>2, <2>2
    <2>4. saved.inode = fd /\ saved.offset = committed
        BY <1>1, <2>3 DEF CommitOK, Uncommitted
    <2> QED
        BY <1>2, <2>1, <2>2, <2>4
<1> QED
    BY <1>4, <1>5

\* No line is lost (file_reader.hpp:15-17): FileThread, ReadLine and the commits keep every
\* piece in the queue, in the buffer, in front of the reader or behind the saved position.
THEOREM NoneLostHolds == Spec => []NoneLost
<1>1. FInv => NoneLost
    BY NoneLostIs
<1> QED
    BY <1>1, FInvHolds, PTL

\* The state file which SaveState wrote is never ahead of the lines which were delivered
\* (otelfwd.cpp:2048-2050), whichever position FileCommitSlot and the retry bring.
THEOREM CrashSafeHolds == Spec => []CrashSafe
<1>1. FInv => CrashSafe
    BY SavedIs
<1> QED
    BY <1>1, FInvHolds, PTL

\* What HandOverFilePositions leaves out after a dropped batch is not saved by Commit
\* (otelfwd.cpp:1655-1657): a part of the line at the saved position was delivered.
THEOREM SavedIsDeliveredHolds == Spec => []SavedIsDelivered
<1>1. FInv => SavedIsDelivered
    BY SavedIs
<1> QED
    BY <1>1, FInvHolds, PTL

\* ExtractLine and EmitRemainder hand out parts of one line without a hole, for every length
\* of a line, every limit, and whatever a read brings.
THEOREM LinesAreWholeHolds == Spec => []LinesAreWhole
<1>1. FInv => LinesAreWhole
    BY DEF FInv, QueueWhole, LinesAreWhole
<1> QED
    BY <1>1, FInvHolds, PTL

\* PushThread takes the lines in their order, and the reader reads a file to its end before
\* it goes over to the next one (file_reader.cpp, ReadLine): lines arrive in the order in
\* which they were written.
THEOREM FirstDeliveriesInOrderHolds == Spec => FirstDeliveriesInOrder
<1>1. FInv /\ [Next]_vars =>
          [spoiled' = {} => \A c \in delivered' \ delivered, d \in Owed : d.line < c.line => d \in delivered']_vars
    BY InOrderStep
<1> QED
    BY <1>1, FInvHolds, PTL DEF Spec, FirstDeliveriesInOrder

\* The last commit of main (otelfwd.cpp:4154-4164) saves every position which was handed
\* over: none of them is refused or ignored but one which is saved already.
THEOREM StopSavesAllHolds == Spec => StopSavesAll
<1>1. FInv => [retry = Nowhere => LastPositionSaved(TRUE)]_vars
    BY StopStep
<1> QED
    BY <1>1, FInvHolds, PTL DEF Spec, StopSavesAll

-----------------------------------------------------------------------------
(* The types and the bounds *)

\* Every piece which is somewhere is one which may be written
Pieces ==
    /\ \A i \in Inodes : In(content[i]) \subseteq Cells
    /\ In(saved.head) \subseteq Cells /\ In(head) \subseteq Cells /\ In(buffer) \subseteq Cells
    /\ InQueue \subseteq Cells
    /\ written \subseteq Cells /\ gone \subseteq Cells /\ delivered \subseteq Cells

\* A thread which is in ReadLine has room in the queue
Sizes ==
    /\ setting \in Settings
    /\ line <= MaxLines /\ part <= MaxText /\ (part # 0 => line # 0) /\ changes \in 0..MaxChanges
    /\ Len(head) <= HeadMax /\ Len(queue) <= QueueMax
    /\ pc \in {"read", "fill", "end"} => Len(queue) < QueueMax
    /\ waited \in BOOLEAN /\ stopping \in BOOLEAN
    /\ pc \in {"down", "round", "read", "fill", "end", "ended"}
    /\ spoiled \subseteq {"passed", "mixed", "unseen", "changed"}

TInv == Pieces /\ Sizes

LEMMA CellsOf ==
    ASSUME NEW s \in Seq(Cell), In(s) \subseteq Cells
    PROVE  s \in Seq(Cells)
<1>1. \A i \in 1..Len(s) : s[i] \in Cells
    BY InIs
<1> QED
    BY <1>1

LEMMA TypeFromInv ==
    ASSUME FInv, TInv
    PROVE  TypeOK
<1>1. FilesType /\ ReaderType /\ Sizes /\ Pieces
    BY DEF FInv, TInv
<1>2. content \in [Inodes -> Seq(Cells)]
    <2>1. \A i \in Inodes : content[i] \in Seq(Cells)
        BY <1>1, FileType, CellsOf DEF Pieces
    <2> QED
        BY <1>1, <2>1 DEF FilesType
<1>3. head \in Seq(Cells) /\ buffer \in Seq(Cells) /\ saved.head \in Seq(Cells)
    BY <1>1, CellsOf DEF Pieces, ReaderType
<1>4. saved \in [inode : Inodes \cup {NoFile}, offset : Nat, head : Seq(Cells)]
    BY <1>1, <1>3 DEF ReaderType
<1>5. queue \in Seq(Lines)
    <2>1. ASSUME NEW i \in 1..Len(queue) PROVE queue[i] \in Lines
        <3>1. i \in DOMAIN queue
            BY <1>1 DEF ReaderType
        <3>2. queue[i] \in QueueLine /\ queue[i].text \in Seq(Cell) /\ In(queue[i].text) \subseteq Cells
            BY <1>1, <3>1, QueueType DEF Pieces, InQueue
        <3>3. queue[i].text \in Seq(Cells)
            BY <3>2, CellsOf
        <3> QED
            BY <3>2, <3>3 DEF QueueLine, Lines
    <2>2. queue \in Seq(QueueLine)
        BY <1>1 DEF ReaderType
    <2> QED
        BY <2>1, <2>2
<1>6. MaxLines \in Nat /\ MaxText \in Nat /\ line \in 0..MaxLines /\ part \in 0..MaxText
    <2>1. MaxLines \in Nat /\ MaxText \in Nat
        BY <1>1, FileAssumption DEF Sizes, MaxLines, MaxText
    <2> QED
        BY <1>1, <2>1 DEF Sizes, FilesType
<1>7. written \subseteq Cells /\ gone \subseteq Cells /\ delivered \subseteq Cells
    BY <1>1 DEF Pieces
<1> QED
    BY <1>1, <1>2, <1>3, <1>4, <1>5, <1>6, <1>7 DEF TypeOK, FilesType, ReaderType, Sizes

LEMMA TypesInit ==
    ASSUME Init
    PROVE  TInv
<1>1. \A i \in Inodes : In(content[i]) = {}
    BY NothingHeld DEF Init, FileInit, NoCells
<1>2. In(saved.head) = {} /\ In(head) = {} /\ In(buffer) = {} /\ InQueue = {}
    BY NothingHeld DEF Init, FileInit, NoCells, InQueue
<1>3. Pieces
    BY <1>1, <1>2 DEF Pieces, Init, FileInit
<1>4. MaxLines \in Nat /\ MaxText \in Nat /\ MaxChanges \in Nat /\ QueueMax \in Nat \ {0} /\ HeadMax \in Nat
    BY FileAssumption DEF Init, FileInit, MaxLines, MaxText, MaxChanges
<1>5. Len(<< >>) = 0
    OBVIOUS
<1>6. Sizes
    <2>1. /\ setting \in Settings /\ line = 0 /\ part = 0 /\ changes = 0 /\ head = << >> /\ queue = << >>
          /\ pc = "down" /\ waited = FALSE /\ stopping = FALSE /\ spoiled = {}
        BY DEF Init, FileInit, NoCells
    <2>2. 0 <= MaxLines /\ 0 <= MaxText /\ 0 \in 0..MaxChanges /\ 0 <= HeadMax /\ 0 <= QueueMax
        BY <1>4
    <2> QED
        BY <1>5, <2>1, <2>2 DEF Sizes
<1> QED
    BY <1>3, <1>6 DEF TInv

\* A step which brings no new piece
LEMMA NoNewPiece ==
    ASSUME TInv, UNCHANGED setting, Sizes',
           \A i \in Inodes : In(content'[i]) \subseteq Cells,
           In(saved'.head) \subseteq Cells, In(head') \subseteq Cells, In(buffer') \subseteq Cells,
           InQueue' \subseteq Cells, written' \subseteq Cells, gone' \subseteq Cells, delivered' \subseteq Cells
    PROVE  TInv'
<1>1. Cells' = Cells
    BY DEF Cells, MaxLines, MaxText
<1> QED
    BY <1>1 DEF TInv, Pieces

LEMMA TypesWrite ==
    ASSUME FInv, TInv, WriteText \/ WriteNewLine, Quiet
    PROVE  TInv'
<1>1. FilesType /\ ReaderType /\ FilesOK /\ Sizes /\ Pieces
    BY DEF FInv, TInv
<1>2. PICK c : Writes(c)
    BY <1>1, WritesCell
<1>3. MaxLines \in Nat /\ MaxText \in Nat
    BY <1>1, FileAssumption DEF Sizes, MaxLines, MaxText
<1>4. /\ line' \in Nat /\ line' >= 1 /\ line' <= MaxLines /\ part' \in Nat /\ part' <= MaxText /\ changes' = changes
    <2>1. line \in Nat /\ part \in Nat /\ (part # 0 => line # 0)
        BY <1>1 DEF FilesType, Sizes
    <2>2. CASE WriteText
        BY <1>3, <2>1, <2>2 DEF WriteText, ThisLine, Put
    <2>3. CASE WriteNewLine
        BY <1>3, <2>1, <2>3 DEF WriteNewLine, ThisLine, Put
    <2> QED
        BY <2>2, <2>3
<1>5. c \in Cells /\ Cells' = Cells
    <2>1. c = [line |-> line', k |-> part'] /\ line' \in 1..MaxLines /\ part' \in 0..MaxText
        BY <1>2, <1>3, <1>4 DEF Writes
    <2> QED
        BY <2>1 DEF Cells, MaxLines, MaxText, Quiet
<1>6. /\ UNCHANGED <<setting, saved, head, buffer, queue, delivered, InQueue, pc, waited, stopping, spoiled>>
      /\ written' \subseteq written \cup {c} /\ gone' \subseteq gone \cup {c}
    BY <1>2 DEF Writes, Quiet, reader, reading, InQueue
<1>7. \A i \in Inodes : In(content'[i]) \subseteq In(content[i]) \cup {c}
    BY <1>1, <1>2, InFiles
<1>8. /\ \A i \in Inodes : In(content'[i]) \subseteq Cells
      /\ In(saved'.head) \subseteq Cells /\ In(head') \subseteq Cells /\ In(buffer') \subseteq Cells
      /\ InQueue' \subseteq Cells /\ written' \subseteq Cells /\ gone' \subseteq Cells /\ delivered' \subseteq Cells
    BY <1>1, <1>5, <1>6, <1>7 DEF Pieces
<1>9. Sizes'
    BY <1>1, <1>4, <1>6 DEF Sizes, MaxLines, MaxText, MaxChanges
<1> QED
    BY <1>6, <1>8, <1>9, NoNewPiece

LEMMA TypesWorld ==
    ASSUME FInv, TInv, World, Quiet
    PROVE  TInv'
<1>1. FilesType /\ ReaderType /\ Sizes /\ Pieces
    BY DEF FInv, TInv
<1>2. CASE WriteText \/ WriteNewLine
    BY <1>2, TypesWrite
<1>3. CASE Reopen \/ CreateFile \/ MoveAway \/ Truncate
    <2>1. UNCHANGED <<line, part, saved, head, buffer, queue, written, delivered, InQueue, pc, waited, stopping, setting>>
        BY <1>3 DEF Reopen, CreateFile, MoveAway, Truncate, reader, reading, Quiet, fileHistory, InQueue
    <2>2. \A i \in Inodes : content'[i] = content[i] \/ content'[i] = << >>
        BY <1>1, <1>3 DEF Reopen, CreateFile, MoveAway, Truncate, FilesType, NoCells
    <2>3. path # NoFile => In(content[path]) \subseteq Cells
        BY <1>1 DEF FilesType, Pieces
    <2>4. gone' \subseteq Cells
        <3>1. gone \subseteq Cells /\ (path # NoFile => TextIn(content[path]) \subseteq Cells)
            BY <1>1, <2>3 DEF TextIn, Pieces
        <3> QED
            BY <1>3, <3>1 DEF Reopen, CreateFile, MoveAway, Truncate, fileHistory
    <2>5. changes' \in 0..MaxChanges
        <3>1. changes' = changes \/ (changes < MaxChanges /\ changes' = changes + 1)
            BY <1>3 DEF Reopen, CreateFile, MoveAway, Truncate, Change
        <3>2. changes \in 0..MaxChanges /\ MaxChanges \in Nat
            BY <1>1, FileAssumption DEF Sizes, MaxChanges
        <3> QED
            BY <3>1, <3>2
    <2>6. spoiled' \subseteq {"passed", "mixed", "unseen", "changed"}
        <3>1. spoiled \subseteq {"passed", "mixed", "unseen", "changed"}
            BY <1>1 DEF Sizes
        <3> QED
            BY <1>3, <3>1 DEF Reopen, CreateFile, MoveAway, Truncate, fileHistory
    <2>7. Sizes'
        BY <1>1, <2>1, <2>5, <2>6 DEF Sizes, MaxLines, MaxText, MaxChanges
    <2>8. \A i \in Inodes : In(content'[i]) \subseteq Cells
        BY <1>1, <2>2, NothingHeld DEF Pieces
    <2>9. /\ In(saved'.head) \subseteq Cells /\ In(head') \subseteq Cells /\ In(buffer') \subseteq Cells
          /\ InQueue' \subseteq Cells /\ written' \subseteq Cells /\ delivered' \subseteq Cells
        BY <1>1, <2>1 DEF Pieces
    <2> QED
        BY <2>1, <2>4, <2>7, <2>8, <2>9, NoNewPiece
<1> QED
    BY <1>2, <1>3 DEF World

LEMMA HeadIs ==
    ASSUME FilesType, Pieces, NEW i \in Inodes
    PROVE  /\ Prefix(content[i], HeadMax) \in Seq(Cell) /\ In(Prefix(content[i], HeadMax)) \subseteq Cells
           /\ Len(Prefix(content[i], HeadMax)) <= HeadMax
<1>1. content[i] \in Seq(Cell) /\ HeadMax \in Nat /\ In(content[i]) \subseteq Cells
    BY FileType, Limits DEF Pieces
<1> DEFINE s == content[i]
<1>2. s \in Seq(Cell) /\ HeadMax \in Nat /\ Len(s) \in Nat
    BY <1>1
<1> HIDE DEF s
<1>3. Prefix(s, HeadMax) \in Seq(Cell) /\ Len(Prefix(s, HeadMax)) <= HeadMax
    BY <1>2, PrefixIs DEF Min2
<1>4. In(Prefix(s, HeadMax)) \subseteq In(s)
    BY <1>2, PrefixStarts
<1> QED
    BY <1>1, <1>3, <1>4 DEF s

\* The reader stays in ReadLine, or it is back, and the queue is as it was
LEMMA StaysInCall ==
    ASSUME Sizes, pc \in {"read", "fill", "end"}, pc' \in {"read", "fill", "end", "round"},
           Len(head') <= HeadMax, waited' \in BOOLEAN, UNCHANGED <<setting, line, part, changes, queue, stopping, spoiled>>
    PROVE  Sizes'
BY DEF Sizes, MaxLines, MaxText, MaxChanges

LEMMA TypesBegin ==
    ASSUME FInv, TInv, NEW ok \in BOOLEAN, OpenFile(ok) \/ CheckFileChanged(ok), Quiet
    PROVE  TInv'
<1>1. FilesType /\ ReaderType /\ Sizes /\ Pieces
    BY DEF FInv, TInv
<1>2. PICK i \in Inodes : /\ i \in {path, fd}
                          /\ head' = Prefix(content[i], HeadMax)
                          /\ saved' = IF ok THEN [inode |-> i, offset |-> bufferStart', head |-> Prefix(head', bufferStart')]
                                      ELSE saved
                          /\ gone' \in {gone, gone \cup TextIn(content[i])}
    <2>1. CASE OpenFile(ok)
        <3>1. path \in Inodes
            BY <1>1, <2>1 DEF OpenFile, FilesType
        <3> QED
            BY <2>1, <3>1 DEF OpenFile, SaveState
    <2>2. CASE CheckFileChanged(ok)
        <3>1. fd \in Inodes /\ bufferStart' = 0
            BY <1>1, <2>2, OpenType DEF CheckFileChanged
        <3> QED
            BY <2>2, <3>1 DEF CheckFileChanged, SaveState, fileHistory
    <2> QED
        BY <2>1, <2>2
<1>3. /\ UNCHANGED <<content, line, part, changes, queue, InQueue, written, spoiled, delivered, setting, stopping>>
      /\ pc = "read" /\ pc' = "read" /\ buffer' \in {buffer, << >>} /\ waited' \in {waited, FALSE}
    BY DEF OpenFile, CheckFileChanged, world, fileHistory, Quiet, InQueue, NoCells
<1>4. PICK h, n : h = head' /\ n = bufferStart'
    OBVIOUS
<1>5. h \in Seq(Cell) /\ In(h) \subseteq Cells /\ Len(h) <= HeadMax
    BY <1>1, <1>2, <1>4, HeadIs
<1>6. n \in Nat
    <2>1. CASE OpenFile(ok)
        <3>1. ResolveStart(path) \in Nat
            BY <1>1, <2>1, StartIs DEF OpenFile
        <3> QED
            BY <1>4, <2>1, <3>1 DEF OpenFile
    <2>2. CASE CheckFileChanged(ok)
        BY <1>4, <2>2 DEF CheckFileChanged
    <2> QED
        BY <2>1, <2>2
<1>7. In(saved'.head) \subseteq Cells
    <2>1. CASE ok
        <3>1. saved' = [inode |-> i, offset |-> n, head |-> Prefix(h, n)]
            BY <1>2, <1>4, <2>1
        <3>2. saved'.head = Prefix(h, n)
            BY <3>1
        <3>3. In(Prefix(h, n)) \subseteq In(h)
            BY <1>5, <1>6, PrefixStarts
        <3> QED
            BY <1>5, <3>2, <3>3
    <2>2. CASE ~ok
        BY <1>1, <1>2, <2>2 DEF Pieces
    <2> QED
        BY <2>1, <2>2
<1>8. /\ In(buffer') \subseteq Cells /\ InQueue' \subseteq Cells /\ written' \subseteq Cells
      /\ delivered' \subseteq Cells /\ \A j \in Inodes : In(content'[j]) \subseteq Cells
    BY <1>1, <1>3, NothingHeld DEF Pieces
<1>9. gone' \subseteq Cells
    BY <1>1, <1>2 DEF Pieces, TextIn
<1>10. Sizes'
    BY <1>1, <1>3, <1>4, <1>5, StaysInCall DEF Sizes
<1> QED
    BY <1>3, <1>4, <1>5, <1>7, <1>8, <1>9, <1>10, NoNewPiece

LEMMA TypesAdvance ==
    ASSUME FInv, TInv, NEW e, NEW d, NEW text, Advances(e, d, text), Sizes'
    PROVE  TInv'
<1>1. FilesType /\ ReaderType /\ Sizes /\ Pieces
    BY DEF FInv, TInv
<1>2. UNCHANGED <<content, saved, written, gone, delivered, setting>> /\ fd # NoFile
    BY DEF Advances
<1>3. In(buffer') \subseteq Cells /\ InQueue' \subseteq Cells
    BY <1>1, AdvanceIn DEF Pieces
<1>4. In(head') \subseteq Cells
    <2>1. fd \in Inodes
        BY <1>1, <1>2, OpenType
    <2>2. head' = head \/ head' = Prefix(content[fd], HeadMax)
        BY DEF Advances
    <2> QED
        BY <1>1, <2>1, <2>2, HeadIs DEF Pieces
<1>5. /\ \A i \in Inodes : In(content'[i]) \subseteq Cells
      /\ In(saved'.head) \subseteq Cells /\ written' \subseteq Cells /\ gone' \subseteq Cells /\ delivered' \subseteq Cells
    BY <1>1, <1>2 DEF Pieces
<1> QED
    BY <1>2, <1>3, <1>4, <1>5, NoNewPiece

\* A line goes into the queue while there is room
LEMMA ReturnSizes ==
    ASSUME ReaderType, Sizes, pc \in {"read", "end"}, NEW text, NEW end, Return(text, end), Len(head') <= HeadMax,
           waited' \in BOOLEAN, UNCHANGED <<setting, line, part, changes, stopping, spoiled>>
    PROVE  Sizes'
<1>1. queue \in Seq(QueueLine) /\ Len(queue) < QueueMax /\ QueueMax \in Nat
    BY FileAssumption DEF ReaderType, Sizes
<1>2. Len(queue') <= QueueMax
    <2>1. PICK c : c = [text |-> text, gen |-> generation, end |-> end]
        OBVIOUS
    <2>2. queue' = queue \/ queue' = Append(queue, c)
        BY <2>1 DEF Return
    <2>3. Len(Append(queue, c)) = Len(queue) + 1
        BY <1>1
    <2>4. Len(queue) \in Nat
        BY <1>1
    <2> QED
        BY <1>1, <2>2, <2>3, <2>4
<1>3. pc' \in {"read", "round"} /\ (pc' = "read" => Len(queue') < QueueMax)
    BY DEF Return
<1> QED
    BY <1>2, <1>3 DEF Sizes, MaxLines, MaxText, MaxChanges

LEMMA TypesTake ==
    ASSUME FInv, TInv, ExtractLine \/ CheckFile \/ ReturnLast \/ ReturnIncomplete, Quiet
    PROVE  TInv'
<1>1. FilesType /\ ReaderType /\ Sizes /\ Standing /\ Pieces
    BY DEF FInv, TInv
<1>2. UNCHANGED <<setting, line, part, changes, stopping, spoiled>>
    BY DEF ExtractLine, CheckFile, ReturnLast, ReturnIncomplete, EmitRemainder, world, fileHistory, Quiet
<1>3. CASE ExtractLine
    <2>1. \E text, end : Return(text, end)
        BY <1>3 DEF ExtractLine
    <2>2. pc = "read" /\ head' = head /\ waited' = waited
        BY <1>3 DEF ExtractLine
    <2>3. Len(head') <= HeadMax /\ waited' \in BOOLEAN
        BY <1>1, <2>2 DEF Sizes
    <2>4. Sizes'
        BY <1>1, <1>2, <2>1, <2>2, <2>3, ReturnSizes
    <2> QED
        BY <1>3, <2>4, ExtractAdvances, TypesAdvance
<1>4. CASE CheckFile
    <2>1. fd \in Inodes /\ pc = "read" /\ pc' = "fill" /\ head' = Prefix(content[fd], HeadMax) /\ UNCHANGED <<queue, waited>>
        BY <1>1, <1>4, OpenType DEF CheckFile
    <2>2. Len(head') <= HeadMax /\ waited' \in BOOLEAN
        BY <1>1, <2>1, HeadIs DEF Sizes
    <2>3. Sizes'
        BY <1>1, <1>2, <2>1, <2>2, StaysInCall
    <2> QED
        BY <1>4, <2>3, CheckAdvances, TypesAdvance
<1>5. CASE ReturnLast \/ ReturnIncomplete
    <2>1. EmitRemainder /\ pc = "end" /\ HasPart /\ rotationSeen' \in BOOLEAN /\ (rotationSeen' => rotationSeen)
        BY <1>1, <1>5 DEF ReturnLast, ReturnIncomplete, ReaderType
    <2>2. fd # NoFile
        BY <1>1, <2>1 DEF Standing
    <2>3. (\E text, end : Return(text, end)) /\ waited' = FALSE /\ head' = head
        BY <2>1 DEF EmitRemainder
    <2>4. Len(head') <= HeadMax /\ waited' \in BOOLEAN
        BY <1>1, <2>3 DEF Sizes
    <2>5. Sizes'
        BY <1>1, <1>2, <2>1, <2>3, <2>4, ReturnSizes
    <2> QED
        BY <2>1, <2>2, <2>5, EmitAdvances, TypesAdvance
<1> QED
    BY <1>3, <1>4, <1>5

LEMMA TypesRead ==
    ASSUME FInv, TInv, NothingToOpen \/ FillBuffer \/ FillBufferEnd \/ SeeRotation \/ CloseFile \/ WaitForMore, Quiet
    PROVE  TInv'
<1>1. FilesType /\ ReaderType /\ Sizes /\ Standing /\ Pieces
    BY DEF FInv, TInv
<1>2. /\ UNCHANGED <<content, saved, queue, InQueue, written, gone, delivered, setting, line, part, changes, stopping, spoiled>>
      /\ pc \in {"read", "fill", "end"} /\ pc' \in {"read", "fill", "end", "round"}
      /\ head' \in {head, << >>}
    BY DEF NothingToOpen, FillBuffer, FillBufferEnd, SeeRotation, CloseFile, WaitForMore, world, fileHistory, Quiet, InQueue,
           reader, NoCells
<1>3. waited' \in BOOLEAN
    <2>1. waited \in BOOLEAN /\ IncompleteLines \in BOOLEAN
        BY <1>1, FileAssumption DEF Sizes, IncompleteLines
    <2>2. \/ waited' = waited \/ waited' = FALSE
          \/ waited' = (waited \/ (IncompleteLines /\ HasPart))
        BY DEF NothingToOpen, FillBuffer, FillBufferEnd, SeeRotation, CloseFile, WaitForMore, reader
    <2> QED
        BY <2>1, <2>2 DEF HasPart
<1>4. Len(head') <= HeadMax
    <2>1. Len(<< >>) = 0 /\ 0 <= HeadMax
        BY Limits
    <2> QED
        BY <1>1, <1>2, <2>1 DEF Sizes
<1>5. Sizes'
    BY <1>1, <1>2, <1>3, <1>4, StaysInCall
<1>6. In(buffer') \subseteq Cells
    <2>1. CASE FillBuffer
        <3>1. Unread # NoCells /\ buffer' = buffer \o Prefix(Unread, ChunkMax) /\ pc = "fill"
            BY <2>1 DEF FillBuffer
        <3>2. fd # NoFile
            BY <1>1, <3>1 DEF Standing
        <3>3. fd \in Inodes
            BY <1>1, <3>2, OpenType
        <3> QED
            BY <1>1, <3>1, <3>2, <3>3, ReadIs DEF Pieces
    <2>2. CASE ~FillBuffer
        <3>1. buffer' = buffer \/ buffer' = << >>
            BY <2>2 DEF NothingToOpen, FillBufferEnd, SeeRotation, CloseFile, WaitForMore, reader, reading, NoCells
        <3> QED
            BY <1>1, <3>1, NothingHeld DEF Pieces
    <2> QED
        BY <2>1, <2>2
<1>7. /\ \A i \in Inodes : In(content'[i]) \subseteq Cells
      /\ In(saved'.head) \subseteq Cells /\ In(head') \subseteq Cells
      /\ InQueue' \subseteq Cells /\ written' \subseteq Cells /\ gone' \subseteq Cells /\ delivered' \subseteq Cells
    BY <1>1, <1>2, NothingHeld DEF Pieces
<1> QED
    BY <1>2, <1>5, <1>6, <1>7, NoNewPiece

\* What a commit saves
LEMMA CommitPieces ==
    ASSUME ReaderType, Pieces, NEW n \in Nat, NEW ok, SaveState(fd, n, head, ok)
    PROVE  In(saved'.head) \subseteq Cells
<1>1. CASE ok
    <2>1. saved' = [inode |-> fd, offset |-> n, head |-> Prefix(head, n)]
        BY <1>1 DEF SaveState
    <2>2. saved'.head = Prefix(head, n)
        BY <2>1
    <2>3. In(Prefix(head, n)) \subseteq In(head)
        BY PrefixStarts DEF ReaderType
    <2> QED
        BY <2>2, <2>3 DEF Pieces
<1>2. CASE ~ok
    BY <1>2 DEF SaveState, Pieces
<1> QED
    BY <1>1, <1>2

LEMMA TypesRound ==
    ASSUME FInv, TInv, NEW ok \in BOOLEAN, Round(ok), UNCHANGED setting
    PROVE  TInv'
<1>1. ReaderType /\ Sizes /\ Pieces
    BY DEF FInv, TInv
<1>2. /\ UNCHANGED <<content, line, part, changes, head, buffer, queue, InQueue, written, gone, spoiled, delivered,
                     waited, stopping, setting>>
      /\ pc' = (IF Len(queue) < QueueMax THEN "read" ELSE "round")
    BY DEF Round, world, reading, fileHistory, InQueue
<1>3. In(saved'.head) \subseteq Cells
    <2>1. slot.at.end \in Nat /\ retry.end \in Nat
        BY <1>1 DEF ReaderType, Positions
    <2>2. ToCommit.end \in Nat
        BY <2>1 DEF ToCommit
    <2>3. saved' = saved \/ SaveState(fd, ToCommit.end, head, ok)
        BY DEF Round, Commit
    <2> QED
        BY <1>1, <2>2, <2>3, CommitPieces DEF Pieces
<1>4. Sizes'
    BY <1>1, <1>2 DEF Sizes, MaxLines, MaxText, MaxChanges
<1>5. /\ \A i \in Inodes : In(content'[i]) \subseteq Cells
      /\ In(head') \subseteq Cells /\ In(buffer') \subseteq Cells
      /\ InQueue' \subseteq Cells /\ written' \subseteq Cells /\ gone' \subseteq Cells /\ delivered' \subseteq Cells
    BY <1>1, <1>2 DEF Pieces
<1> QED
    BY <1>2, <1>3, <1>4, <1>5, NoNewPiece

LEMMA TypesPush ==
    ASSUME FInv, TInv, NEW n \in DOMAIN queue, NEW safe \in BOOLEAN, PushBatch(n, safe), UNCHANGED setting
    PROVE  TInv'
<1>1. ReaderType /\ Sizes /\ Pieces
    BY DEF FInv, TInv
<1>2. UNCHANGED <<content, saved, line, part, changes, head, buffer, written, spoiled, waited, stopping, pc, setting>>
    BY DEF PushBatch, world, reader, reading
<1>3. /\ queue \in Seq(QueueLine) /\ n \in 1..Len(queue)
      /\ queue' \in Seq(QueueLine) /\ Len(queue') = Len(queue) - n
      /\ \A i \in 1..Len(queue') : queue'[i] = queue[n + i] /\ n + i \in 1..Len(queue)
    BY <1>1, PushIs
<1>4. DOMAIN queue = 1..Len(queue) /\ DOMAIN queue' = 1..Len(queue')
    BY <1>3
<1>5. InQueue' \subseteq InQueue
    BY <1>3, <1>4 DEF InQueue
<1>6. PICK batch : batch = UNION {In(queue[i].text) : i \in 1..n}
    OBVIOUS
<1>7. batch \subseteq InQueue
    <2>1. \A i \in 1..n : i \in DOMAIN queue
        BY <1>3, <1>4
    <2> QED
        BY <1>6, <2>1 DEF InQueue
<1>8. gone' \in {gone, gone \cup batch} /\ delivered' \in {delivered, delivered \cup batch}
    BY <1>6 DEF PushBatch
<1>9. gone' \subseteq Cells /\ delivered' \subseteq Cells /\ InQueue' \subseteq Cells
    BY <1>1, <1>5, <1>7, <1>8 DEF Pieces
<1>10. Sizes'
    <2>1. Len(queue') <= QueueMax /\ (Len(queue) < QueueMax => Len(queue') < QueueMax)
        <3>1. Len(queue) \in Nat /\ n \in Nat /\ QueueMax \in Nat /\ Len(queue) <= QueueMax
            BY <1>1, <1>3, FileAssumption DEF Sizes
        <3> QED
            BY <1>3, <3>1
    <2> QED
        BY <1>1, <1>2, <2>1 DEF Sizes, MaxLines, MaxText, MaxChanges
<1>11. /\ \A i \in Inodes : In(content'[i]) \subseteq Cells
       /\ In(saved'.head) \subseteq Cells /\ In(head') \subseteq Cells /\ In(buffer') \subseteq Cells
       /\ written' \subseteq Cells
    BY <1>1, <1>2 DEF Pieces
<1> QED
    BY <1>2, <1>9, <1>10, <1>11, NoNewPiece

LEMMA TypesExit ==
    ASSUME FInv, TInv, Exit, UNCHANGED setting, In(saved'.head) \subseteq Cells
    PROVE  TInv'
<1>1. Sizes /\ Pieces
    BY DEF TInv
<1>2. /\ UNCHANGED <<content, line, part, changes, written, delivered, setting>>
      /\ head' = << >> /\ buffer' = << >> /\ queue' = << >> /\ pc' = "down" /\ waited' = FALSE /\ stopping' = FALSE
      /\ gone' \subseteq gone \cup written /\ spoiled' \in {spoiled, spoiled \cup {"changed"}}
    BY DEF Exit, world, NoCells
<1>3. InQueue' = {}
    BY <1>2, NothingHeld DEF InQueue
<1>4. Sizes'
    <2>1. Len(<< >>) = 0 /\ 0 <= HeadMax /\ 0 <= QueueMax
        BY Limits, FileAssumption
    <2>2. spoiled' \subseteq {"passed", "mixed", "unseen", "changed"}
        BY <1>1, <1>2 DEF Sizes
    <2> QED
        BY <1>1, <1>2, <2>1, <2>2 DEF Sizes, MaxLines, MaxText, MaxChanges
<1>5. /\ \A i \in Inodes : In(content'[i]) \subseteq Cells
      /\ In(head') \subseteq Cells /\ In(buffer') \subseteq Cells
      /\ InQueue' \subseteq Cells /\ written' \subseteq Cells /\ gone' \subseteq Cells /\ delivered' \subseteq Cells
    BY <1>1, <1>2, <1>3, NothingHeld DEF Pieces
<1> QED
    BY <1>2, <1>4, <1>5, NoNewPiece

\* Steps of the process which leave the pieces where they are
LEMMA TypesElse ==
    ASSUME FInv, TInv, EndThread \/ Start \/ RequestShutdown \/ DamageState \/ UNCHANGED vars, UNCHANGED setting
    PROVE  TInv'
<1>1. Sizes /\ Pieces
    BY DEF TInv
<1>2. /\ UNCHANGED <<content, line, part, changes, head, buffer, queue, InQueue, written, gone, spoiled, delivered, waited>>
      /\ saved' \in {saved, NoState} /\ stopping' \in {stopping, TRUE}
      /\ pc' \in {pc, "ended", "round"}
    BY DEF EndThread, Start, RequestShutdown, DamageState, vars, fileVars, world, reader, reading, fileHistory, InQueue
<1>3. Sizes'
    BY <1>1, <1>2 DEF Sizes, MaxLines, MaxText, MaxChanges
<1>4. In(saved'.head) \subseteq Cells
    BY <1>1, <1>2, NothingHeld DEF Pieces
<1>5. /\ \A i \in Inodes : In(content'[i]) \subseteq Cells
      /\ In(head') \subseteq Cells /\ In(buffer') \subseteq Cells
      /\ InQueue' \subseteq Cells /\ written' \subseteq Cells /\ gone' \subseteq Cells /\ delivered' \subseteq Cells
    BY <1>1, <1>2 DEF Pieces
<1> QED
    BY <1>3, <1>4, <1>5, NoNewPiece

LEMMA TypesNext ==
    ASSUME FInv, TInv, [Next]_vars
    PROVE  TInv'
<1>1. ReaderType /\ Pieces
    BY DEF FInv, TInv
<1>2. UNCHANGED setting
    BY DEF Next, vars, fileVars
<1>3. CASE World /\ UNCHANGED <<slot, retry, stopping, delivered>>
    BY <1>2, <1>3, TypesWorld DEF Quiet
<1>4. CASE FileThread
    <2>1. CASE ReadLine /\ UNCHANGED <<slot, retry, stopping, delivered>>
        <3>1. Quiet
            BY <1>2, <2>1 DEF Quiet
        <3> QED
            BY <2>1, <3>1, TypesBegin, TypesTake, TypesRead DEF ReadLine
    <2> QED
        BY <1>2, <1>4, <2>1, TypesRound, TypesElse DEF FileThread
<1>5. CASE \E n \in DOMAIN queue, safe \in BOOLEAN : PushBatch(n, safe)
    BY <1>2, <1>5, TypesPush
<1>6. CASE Start \/ RequestShutdown \/ DamageState \/ UNCHANGED vars
    BY <1>2, <1>6, TypesElse
<1>7. CASE Crash
    <2>1. In(saved'.head) \subseteq Cells
        BY <1>1, <1>7 DEF Crash, Pieces
    <2> QED
        BY <1>2, <1>7, <2>1, TypesExit DEF Crash
<1>8. ASSUME NEW ok \in BOOLEAN, Shutdown(ok) PROVE TInv'
    <2>1. slot.at.end \in Nat
        BY <1>1 DEF ReaderType, Positions
    <2>2. saved' = saved \/ SaveState(fd, slot.at.end, head, ok)
        BY <1>8 DEF Shutdown, LastCommit
    <2>3. In(saved'.head) \subseteq Cells
        BY <1>1, <2>1, <2>2, CommitPieces DEF Pieces
    <2> QED
        BY <1>2, <1>8, <2>3, TypesExit DEF Shutdown
<1> QED
    BY <1>3, <1>4, <1>5, <1>6, <1>7, <1>8 DEF Next

\* The files, the state file, the reader and the queue keep their types and their bounds:
\* the fingerprint is not longer than FILE_READER_HEAD_MAX, and the queue not longer than
\* g_SocketQueueMax, because the thread goes on in ReadLine only while there is room.
THEOREM TypeOKHolds == Spec => []TypeOK
<1>1. Init => TInv
    BY TypesInit
<1>2. FInv /\ TInv /\ [Next]_vars => TInv'
    BY TypesNext
<1>3. FInv /\ TInv => TypeOK
    BY TypeFromInv
<1> QED
    BY <1>1, <1>2, <1>3, FInvHolds, PTL DEF Spec

=============================================================================
