------------------------ MODULE DomfwdDurable_proofs ------------------------
(***************************************************************************)
(* The buffer of the line sender holds whole lines, the forwarder reads    *)
(* whole lines, no accepted line is lost, and the lines arrive in order:   *)
(* for any number of lines, of any length, any limits of the queue, the    *)
(* socket and the WAL, and any number of connections.                      *)
(***************************************************************************)
EXTENDS DomfwdDurable, TLAPS, FiniteSetTheorems, WellFoundedInduction

-----------------------------------------------------------------------------
(* Lines in a row of cells: m[h] up to m[t - 1], a part of the buffer or a stream *)

Ends(m, h, t) == {n \in h..(t - 1) : m[n].k = 0}

\* The new line at i ends a whole line, which begins at h or behind another one
Ended(m, h, i) ==
    LET b == i - Length[m[i].line]
    IN  /\ h <= b
        /\ \A k \in 1..Length[m[i].line] : m[b + k - 1] = Text(m[i].line, k)
        /\ b = h \/ m[b - 1].k = 0

\* Whole lines, and the beginning of one more
Begun(m, h, t) ==
    \A i \in h..(t - 1) : m[i] \in Cells /\ (m[i].k = 0 => Ended(m, h, i))

Framed(m, h, t) ==
    /\ Begun(m, h, t)
    /\ h < t => m[t - 1].k = 0

LEMMA LengthType ==
    ASSUME NEW l \in Lines
    PROVE  Length[l] \in Nat /\ Length[l] > 0 /\ Length[l] < QueueBytes /\ l \in Nat /\ l # NoLine
<1>1. Length[l] \in Nat \ {0} /\ Length[l] < QueueBytes /\ l \in 1..LastLine
    BY SocketAssumption DEF Lines
<1> QED
    BY <1>1, SocketAssumption DEF NoLine

LEMMA CellType ==
    ASSUME NEW c \in Cells
    PROVE  c.line \in Lines /\ c.k \in 0..Length[c.line] /\ c = Text(c.line, c.k) /\ c # Free
<1>1. PICK l \in Lines : c \in {NewLine(l)} \cup {Text(l, k) : k \in 1..Length[l]}
    BY DEF Cells
<1>2. Length[l] \in Nat
    BY LengthType
<1>3. PICK k \in 0..Length[l] : c = Text(l, k)
    <2>1. CASE c = NewLine(l)
        BY <2>1, <1>2 DEF NewLine, Text
    <2>2. CASE c \in {Text(l, k) : k \in 1..Length[l]}
        BY <2>2, <1>2
    <2> QED
        BY <1>1, <2>1, <2>2
<1> QED
    BY <1>2, <1>3 DEF Text, Free

LEMMA LineCells ==
    ASSUME NEW l \in Lines
    PROVE  /\ NewLine(l) \in Cells /\ NewLine(l).line = l /\ NewLine(l).k = 0
           /\ \A k \in 1..Length[l] : Text(l, k) \in Cells /\ Text(l, k).line = l /\ Text(l, k).k = k
    BY DEF Cells, NewLine, Text

LEMMA WholeIs ==
    ASSUME NEW l \in Lines
    PROVE  /\ Whole(l) \in Seq(Cells) /\ Len(Whole(l)) = Length[l] + 1
           /\ \A k \in 1..Length[l] : Whole(l)[k] = Text(l, k)
           /\ Whole(l)[Length[l] + 1] = NewLine(l)
<1>1. Body(l) \in Seq(Cells) /\ Len(Body(l)) = Length[l]
    BY LengthType, LineCells DEF Body
<1>2. \A k \in 1..Length[l] : Body(l)[k] = Text(l, k)
    BY DEF Body
<1> QED
    BY <1>1, <1>2, LengthType, LineCells DEF Whole

\* What is moved stays what it is
LEMMA Shift ==
    ASSUME NEW m, NEW h \in Int, NEW t \in Int, Begun(m, h, t),
           NEW n, NEW g \in Int, \A i \in h..(t - 1) : n[i - h + g] = m[i]
    PROVE  Begun(n, g, g + t - h)
<1> SUFFICES ASSUME NEW j \in g..(g + t - h - 1)
             PROVE  n[j] \in Cells /\ (n[j].k = 0 => Ended(n, g, j))
    BY DEF Begun
<1> DEFINE i == j - g + h
<1>1. i \in h..(t - 1) /\ i - h + g = j
    OBVIOUS
<1>2. n[j] = m[i]
    BY <1>1
<1>3. m[i] \in Cells /\ (m[i].k = 0 => Ended(m, h, i))
    BY <1>1 DEF Begun
<1>4. ASSUME m[i].k = 0 PROVE Ended(n, g, j)
    <2> DEFINE len == Length[m[i].line]
    <2>1. len \in Nat /\ len > 0
        BY <1>3, CellType, LengthType
    <2>2. /\ h <= i - len
          /\ \A k \in 1..len : m[i - len + k - 1] = Text(m[i].line, k)
          /\ i - len = h \/ m[i - len - 1].k = 0
        BY <1>3, <1>4 DEF Ended
    <2>3. ASSUME NEW k \in 1..len PROVE n[j - len + k - 1] = Text(m[i].line, k)
        <3>1. i - len + k - 1 \in h..(t - 1) /\ (i - len + k - 1) - h + g = j - len + k - 1
            BY <1>1, <2>1, <2>2
        <3> QED
            BY <3>1, <2>2
    <2>4. g <= j - len
        BY <1>1, <2>1, <2>2
    <2>5. j - len = g \/ n[j - len - 1].k = 0
        <3>1. CASE i - len = h
            BY <3>1, <1>1, <2>1
        <3>2. CASE i - len # h
            <4>1. i - len - 1 \in h..(t - 1) /\ (i - len - 1) - h + g = j - len - 1
                BY <1>1, <2>1, <2>2, <3>2
            <4> QED
                BY <4>1, <2>2, <3>2
        <3> QED
            BY <3>1, <3>2
    <2> HIDE DEF i
    <2> QED
        BY <1>2, <2>3, <2>4, <2>5 DEF Ended
<1> HIDE DEF i
<1> QED
    BY <1>2, <1>3, <1>4

\* A line behind whole lines
LEMMA Extend ==
    ASSUME NEW m, NEW h \in Int, NEW t \in Int, h <= t, Framed(m, h, t), NEW l \in Lines,
           \A k \in 1..Length[l] : m[t + k - 1] = Text(l, k),
           m[t + Length[l]] = NewLine(l)
    PROVE  Framed(m, h, t + Length[l] + 1)
<1> DEFINE len == Length[l]
<1>1. len \in Nat /\ len > 0
    BY LengthType
<1>2. NewLine(l) \in Cells /\ NewLine(l).line = l /\ NewLine(l).k = 0
    BY LineCells
<1>3. ASSUME NEW i \in h..(t + len)
      PROVE  m[i] \in Cells /\ (m[i].k = 0 => Ended(m, h, i))
    <2>1. CASE i < t
        BY <2>1 DEF Framed, Begun
    <2>2. CASE t <= i /\ i < t + len
        <3> DEFINE k == i - t + 1
        <3>1. k \in 1..len /\ t + k - 1 = i
            BY <1>1, <2>2
        <3>2. m[i] = Text(l, k)
            BY <3>1
        <3> HIDE DEF k
        <3> QED
            BY <3>1, <3>2, LineCells
    <2>3. CASE i = t + len
        <3>1. i - len = t
            BY <1>1, <2>3
        <3>2. t = h \/ m[t - 1].k = 0
            BY DEF Framed
        <3> QED
            BY <1>2, <2>3, <3>1, <3>2 DEF Ended
    <2> QED
        BY <1>1, <2>1, <2>2, <2>3
<1>4. (t + len + 1) - 1 = t + len
    BY <1>1
<1> HIDE DEF len
<1> QED
    BY <1>2, <1>3, <1>4 DEF Framed, Begun, len

\* The start of a line is no new line
LEMMA NoneWithin ==
    ASSUME NEW m, NEW h \in Int, NEW t \in Int, Begun(m, h, t), NEW i \in Ends(m, h, t),
           NEW j \in Int, i - Length[m[i].line] <= j, j < i
    PROVE  /\ m[j] = Text(m[i].line, j - (i - Length[m[i].line]) + 1)
           /\ m[j].k # 0
<1> DEFINE l == m[i].line
<1>1. i \in Int /\ m[i] \in Cells /\ Ended(m, h, i)
    BY DEF Ends, Begun
<1>2. l \in Lines /\ Length[l] \in Nat
    BY <1>1, CellType, LengthType
<1> DEFINE k == j - (i - Length[l]) + 1
<1>3. k \in 1..Length[l] /\ (i - Length[l]) + k - 1 = j
    BY <1>1, <1>2
<1>4. m[j] = Text(l, k)
    BY <1>1, <1>3 DEF Ended
<1>5. Text(l, k).k = k /\ k # 0
    BY <1>2, <1>3, LineCells
<1> QED
    BY <1>4, <1>5

\* What is behind a new line begins with a line
LEMMA Cut ==
    ASSUME NEW m, NEW h \in Int, NEW t \in Int, Begun(m, h, t), NEW g \in Int, h <= g,
           g = h \/ m[g - 1].k = 0
    PROVE  Begun(m, g, t)
<1> SUFFICES ASSUME NEW i \in g..(t - 1)
             PROVE  m[i] \in Cells /\ (m[i].k = 0 => Ended(m, g, i))
    BY DEF Begun
<1>1. i \in h..(t - 1)
    OBVIOUS
<1>2. m[i] \in Cells /\ (m[i].k = 0 => Ended(m, h, i))
    BY <1>1 DEF Begun
<1>3. ASSUME m[i].k = 0 PROVE Ended(m, g, i)
    <2> DEFINE b == i - Length[m[i].line]
    <2>1. Length[m[i].line] \in Nat
        BY <1>2, CellType, LengthType
    <2>2. g <= b
        <3> SUFFICES ASSUME b < g PROVE FALSE
            BY <2>1
        <3>1. h <= b
            BY <1>2, <1>3 DEF Ended
        <3>2. i \in Ends(m, h, t)
            BY <1>1, <1>3 DEF Ends
        <3>3. g # h /\ b <= g - 1 /\ g - 1 < i
            BY <2>1, <3>1
        <3>4. m[g - 1].k # 0
            BY <3>2, <3>3, NoneWithin
        <3> QED
            BY <3>3, <3>4
    <2>3. b = g \/ m[b - 1].k = 0
        BY <1>2, <1>3, <2>1, <2>2 DEF Ended
    <2> QED
        BY <1>2, <1>3, <2>2, <2>3 DEF Ended
<1> QED
    BY <1>2, <1>3

LEMMA EndsFinite ==
    ASSUME NEW m, NEW h \in Int, NEW t \in Int
    PROVE  IsFiniteSet(Ends(m, h, t)) /\ Cardinality(Ends(m, h, t)) \in Nat
<1>1. IsFiniteSet(h..(t - 1))
    BY FS_Interval
<1>2. Ends(m, h, t) \in SUBSET (h..(t - 1))
    BY DEF Ends
<1> QED
    BY <1>1, <1>2, FS_Subset, FS_CardinalityType

\* As many new lines as before, at the same places
SameEnds(m, h, t, n, g) ==
    /\ Cardinality(Ends(n, g, g + t - h)) = Cardinality(Ends(m, h, t))
    /\ \A j \in Ends(n, g, g + t - h) : j - g + h \in Ends(m, h, t) /\ n[j] = m[j - g + h]
    /\ \A i \in Ends(m, h, t) : i - h + g \in Ends(n, g, g + t - h) /\ n[i - h + g] = m[i]

LEMMA EndsShift ==
    ASSUME NEW m, NEW h \in Int, NEW t \in Int,
           NEW n, NEW g \in Int, \A i \in h..(t - 1) : n[i - h + g] = m[i]
    PROVE  SameEnds(m, h, t, n, g)
<1> DEFINE S == Ends(m, h, t)
           T == Ends(n, g, g + t - h)
           f == [i \in S |-> i - h + g]
<1>1. \A i \in S : i \in Int /\ i - h + g \in T /\ n[i - h + g] = m[i]
    BY DEF Ends
<1>2. \A j \in T : j \in Int /\ j - g + h \in S /\ n[j] = m[j - g + h]
    <2> SUFFICES ASSUME NEW j \in T
                 PROVE  j \in Int /\ j - g + h \in S /\ n[j] = m[j - g + h]
        OBVIOUS
    <2> DEFINE i == j - g + h
    <2>1. j \in g..(g + t - h - 1) /\ n[j].k = 0
        BY DEF Ends
    <2>2. i \in h..(t - 1) /\ i - h + g = j
        BY <2>1
    <2>3. n[j] = m[i]
        BY <2>2
    <2> QED
        BY <2>1, <2>2, <2>3 DEF Ends
<1> HIDE DEF S, T
<1>3. f \in Bijection(S, T)
    <2>1. f \in [S -> T]
        BY <1>1
    <2>2. \A a, b \in S : f[a] = f[b] => a = b
        BY <1>1
    <2>3. \A j \in T : \E i \in S : f[i] = j
        <3> SUFFICES ASSUME NEW j \in T PROVE \E i \in S : f[i] = j
            OBVIOUS
        <3>1. j - g + h \in S /\ f[j - g + h] = j
            BY <1>2
        <3> QED
            BY <3>1
    <2> QED
        BY <2>1, <2>2, <2>3 DEF Bijection, Injection, IsInjective, Surjection
<1>4. IsFiniteSet(S)
    BY EndsFinite DEF S
<1>5. ExistsBijection(S, T)
    BY <1>3 DEF ExistsBijection
<1>6. Cardinality(T) = Cardinality(S)
    BY <1>4, <1>5, FS_Bijection
<1> QED
    BY <1>1, <1>2, <1>6 DEF S, T, SameEnds

LEMMA SeqIsWhole ==
    ASSUME NEW s \in Seq(Cells), Framed(s, 1, Len(s) + 1)
    PROVE  WholeLines(s)
<1>1. s # << >> => s[Len(s)].k = 0
    <2>1. s # << >> => 1 < Len(s) + 1 /\ (Len(s) + 1) - 1 = Len(s)
        OBVIOUS
    <2> QED
        BY <2>1 DEF Framed
<1>2. ASSUME NEW n \in {m \in DOMAIN s : s[m].k = 0}
      PROVE  LET start == n - Length[s[n].line]
             IN  /\ start > 0 /\ SubSeq(s, start, n) = Whole(s[n].line)
                 /\ start = 1 \/ s[start - 1].k = 0
    <2> DEFINE l == s[n].line
               start == n - Length[l]
    <2>1. n \in 1..((Len(s) + 1) - 1) /\ s[n].k = 0
        OBVIOUS
    <2>2. s[n] \in Cells /\ Ended(s, 1, n)
        BY <2>1 DEF Framed, Begun
    <2>3. l \in Lines /\ s[n] = NewLine(l)
        BY <2>1, <2>2, CellType DEF Text, NewLine
    <2>4. Length[l] \in Nat /\ Length[l] > 0
        BY <2>3, LengthType
    <2>5. /\ 1 <= start
          /\ start = 1 \/ s[start - 1].k = 0
          /\ \A k \in 1..Length[l] : s[start + k - 1] = Text(l, k)
        BY <2>2 DEF Ended
    <2>6. 1 <= start
        BY <2>2 DEF Ended
    <2> HIDE DEF l
    <2>7. /\ SubSeq(s, start, n) \in Seq(Cells) /\ Len(SubSeq(s, start, n)) = Length[l] + 1
          /\ \A k \in 1..(Length[l] + 1) : SubSeq(s, start, n)[k] = s[start + k - 1]
        BY <2>1, <2>4, <2>6
    <2>8. /\ Whole(l) \in Seq(Cells) /\ Len(Whole(l)) = Length[l] + 1
          /\ \A k \in 1..Length[l] : Whole(l)[k] = Text(l, k)
          /\ Whole(l)[Length[l] + 1] = NewLine(l)
        BY <2>3, WholeIs
    <2>9. \A k \in 1..(Length[l] + 1) : SubSeq(s, start, n)[k] = Whole(l)[k]
        <3> SUFFICES ASSUME NEW k \in 1..(Length[l] + 1)
                     PROVE  s[start + k - 1] = Whole(l)[k]
            BY <2>7
        <3>1. CASE k \in 1..Length[l]
            BY <3>1, <2>5, <2>8
        <3>2. CASE k = Length[l] + 1
            <4>1. start + k - 1 = n
                BY <3>2, <2>1, <2>4
            <4> QED
                BY <4>1, <3>2, <2>3, <2>8
        <3> QED
            BY <3>1, <3>2, <2>4
    <2>10. SubSeq(s, start, n) = Whole(l)
        <3> HIDE DEF start
        <3> DEFINE a == SubSeq(s, start, n)
                   b == Whole(l)
        <3>1. a \in Seq(Cells) /\ b \in Seq(Cells) /\ Len(a) = Len(b) /\ \A k \in 1..Len(a) : a[k] = b[k]
            BY <2>7, <2>8, <2>9
        <3> HIDE DEF a, b
        <3>2. a = b
            BY <3>1
        <3> QED
            BY <3>2 DEF a, b
    <2>11. start > 0 /\ (start = 1 \/ s[start - 1].k = 0)
        BY <2>1, <2>4, <2>5
    <2> HIDE DEF start
    <2>12. /\ start > 0 /\ SubSeq(s, start, n) = Whole(l)
           /\ start = 1 \/ s[start - 1].k = 0
        BY <2>10, <2>11
    <2> QED
        BY ONLY <2>12 DEF l, start
<1> QED
    BY <1>1, <1>2 DEF WholeLines

-----------------------------------------------------------------------------
(* The buffer *)

\* Whole lines from head to tail and nothing else, as many as were counted, and none of them sent
Buffered ==
    /\ mem \in [0..(QueueBytes - 1) -> Cells \cup {Free}]
    /\ head \in Nat /\ sendPos \in Nat /\ tail \in Nat
    /\ head <= sendPos /\ sendPos <= tail /\ tail <= QueueBytes
    /\ Framed(mem, head, tail)
    /\ \A i \in 0..(QueueBytes - 1) : mem[i] # Free <=> head <= i /\ i < tail
    /\ lines = Cardinality(Ends(mem, head, tail))
    /\ Ends(mem, head, sendPos) = {}

\* The lines which are in the buffer more than once
Twice(m, h, t) == {l \in Lines : \E i, j \in Ends(m, h, t) : i # j /\ m[i].line = l /\ m[j].line = l}

LEMMA QueuedIs ==
    /\ Queued = {mem[i].line : i \in Ends(mem, head, tail)}
    /\ Queued' = {mem'[i].line : i \in Ends(mem', head', tail')}
BY DEF Queued, NewLines, Ends

LEMMA QueuedType ==
    ASSUME Buffered
    PROVE  Queued \subseteq Lines
<1> SUFFICES ASSUME NEW i \in Ends(mem, head, tail) PROVE mem[i].line \in Lines
    BY QueuedIs
<1>1. mem[i] \in Cells
    BY DEF Buffered, Framed, Begun, Ends
<1> QED
    BY <1>1, CellType

LEMMA EnqueueKeeps ==
    ASSUME Buffered, NEW l \in Lines, HasRoom(l), Enqueue(l)
    PROVE  /\ Buffered' /\ lines' = lines + 1
           /\ Queued' = Queued \cup {l}
           /\ Twice(mem', head', tail') \subseteq Twice(mem, head, tail) \cup (Queued \cap {l})
           /\ tail' - sendPos' = tail - sendPos + Length[l] + 1
           /\ \A k \in 1..(tail - sendPos) : mem'[sendPos' + k - 1] = mem[sendPos + k - 1]
           /\ \A k \in 1..(Length[l] + 1) : mem'[sendPos' + (tail - sendPos) + k - 1] = Whole(l)[k]
           /\ (head = sendPos => head' = sendPos')
<1> DEFINE h == IF tail + Length[l] + 1 > QueueBytes THEN 0 ELSE head
           t == h + tail - head
           len == Length[l]
<1>1. len \in Nat /\ len > 0 /\ QueueBytes \in Nat
    BY LengthType, SocketAssumption
<1>2. /\ mem \in [0..(QueueBytes - 1) -> Cells \cup {Free}]
      /\ head \in Nat /\ sendPos \in Nat /\ tail \in Nat
      /\ head <= sendPos /\ sendPos <= tail /\ tail <= QueueBytes
    BY DEF Buffered
<1>3. h \in Nat /\ t \in Nat /\ h <= t /\ t + len + 1 <= QueueBytes
    BY <1>1, <1>2 DEF HasRoom
<1>4. /\ head' = h /\ tail' = t + len + 1 /\ sendPos' = h + sendPos - head /\ lines' = lines + 1
      /\ mem' = [i \in DOMAIN mem |->
                    IF i < h \/ i >= t + len + 1 THEN Free
                    ELSE IF i < t THEN mem[i - h + head] ELSE Whole(l)[i - t + 1]]
    BY DEF Enqueue
<1>5. DOMAIN mem = 0..(QueueBytes - 1)
    BY <1>2
<1> HIDE DEF h, len
<1>6. \A i \in head..(tail - 1) : mem'[i - head + h] = mem[i]
    <2> SUFFICES ASSUME NEW i \in head..(tail - 1) PROVE mem'[i - head + h] = mem[i]
        OBVIOUS
    <2>1. i - head + h \in DOMAIN mem /\ ~(i - head + h < h \/ i - head + h >= t + len + 1) /\ i - head + h < t
        BY <1>1, <1>2, <1>3, <1>5
    <2>2. (i - head + h) - h + head = i
        BY <1>2, <1>3
    <2> QED
        BY <1>4, <2>1, <2>2
<1>7. \A k \in 1..(len + 1) : mem'[t + k - 1] = Whole(l)[k]
    <2> SUFFICES ASSUME NEW k \in 1..(len + 1) PROVE mem'[t + k - 1] = Whole(l)[k]
        OBVIOUS
    <2>1. t + k - 1 \in DOMAIN mem /\ ~(t + k - 1 < h \/ t + k - 1 >= t + len + 1) /\ ~(t + k - 1 < t)
        BY <1>1, <1>3, <1>5
    <2>2. (t + k - 1) - t + 1 = k
        BY <1>3
    <2> QED
        BY <1>4, <2>1, <2>2
<1>8. /\ \A k \in 1..len : mem'[t + k - 1] = Text(l, k)
      /\ mem'[t + len] = NewLine(l)
    <2>1. \A k \in 1..len : mem'[t + k - 1] = Text(l, k)
        BY <1>1, <1>7, WholeIs DEF len
    <2>2. len + 1 \in 1..(len + 1) /\ t + (len + 1) - 1 = t + len
        BY <1>1, <1>3
    <2>3. mem'[t + len] = Whole(l)[len + 1]
        BY <1>7, <2>2
    <2> QED
        BY <2>1, <2>3, WholeIs DEF len
<1>9. Framed(mem', h, t)
    <2>1. Begun(mem, head, tail) /\ (head < tail => mem[tail - 1].k = 0)
        BY DEF Buffered, Framed
    <2>2. head \in Int /\ tail \in Int /\ h \in Int
        BY <1>2, <1>3
    <2>3. Begun(mem', h, t)
        BY <1>6, <2>1, <2>2, Shift, Zenon
    <2>4. h < t => mem'[t - 1] = mem[tail - 1] /\ head < tail
        <3>1. h < t => tail - 1 \in head..(tail - 1) /\ (tail - 1) - head + h = t - 1 /\ head < tail
            BY <1>2, <1>3
        <3> QED
            BY <3>1, <1>6
    <2> QED
        BY <2>1, <2>3, <2>4 DEF Framed
<1>10. Framed(mem', head', tail')
    BY <1>3, <1>4, <1>8, <1>9, Extend DEF len
<1>11. /\ Cardinality(Ends(mem', h, t)) = Cardinality(Ends(mem, head, tail))
       /\ \A j \in Ends(mem', h, t) : j - h + head \in Ends(mem, head, tail) /\ mem'[j] = mem[j - h + head]
       /\ \A i \in Ends(mem, head, tail) : i - head + h \in Ends(mem', h, t) /\ mem'[i - head + h] = mem[i]
    <2>1. head \in Int /\ tail \in Int /\ h \in Int
        BY <1>2, <1>3
    <2>2. SameEnds(mem, head, tail, mem', h)
        BY <1>6, <2>1, EndsShift, Zenon
    <2> QED
        BY <2>2 DEF SameEnds
<1>12. Ends(mem', head', tail') = Ends(mem', h, t) \cup {t + len} /\ t + len \notin Ends(mem', h, t)
    <2>1. \A j \in Int : j \in Ends(mem', head', tail') <=> j \in Ends(mem', h, t) \/ j = t + len
        <3> SUFFICES ASSUME NEW j \in Int
                     PROVE  j \in Ends(mem', head', tail') <=> j \in Ends(mem', h, t) \/ j = t + len
            OBVIOUS
        <3>1. CASE j < t
            BY <3>1, <1>1, <1>3, <1>4 DEF Ends
        <3>2. CASE t <= j /\ j < t + len
            <4>1. (j - t + 1) \in 1..len /\ t + (j - t + 1) - 1 = j
                BY <3>2, <1>1, <1>3
            <4>2. mem'[j] = Text(l, j - t + 1)
                BY <4>1, <1>8
            <4>3. mem'[j].k # 0
                BY <4>1, <4>2, LineCells DEF len
            <4> QED
                BY <3>2, <4>3, <1>3 DEF Ends
        <3>3. CASE j = t + len
            <4>1. mem'[j].k = 0
                BY <3>3, <1>8, LineCells
            <4>2. j \in h..((t + len + 1) - 1)
                BY <3>3, <1>1, <1>3
            <4> QED
                BY <3>3, <4>1, <4>2, <1>4 DEF Ends
        <3>4. CASE j > t + len
            BY <3>4, <1>1, <1>3, <1>4 DEF Ends
        <3> QED
            BY <3>1, <3>2, <3>3, <3>4, <1>1, <1>3
    <2>2. Ends(mem', head', tail') \subseteq Int /\ Ends(mem', h, t) \subseteq Int /\ t + len \in Int
        BY <1>1, <1>3 DEF Ends
    <2>3. t + len \notin Ends(mem', h, t)
        BY <1>1, <1>3 DEF Ends
    <2> QED
        BY <2>1, <2>2, <2>3
<1>13. mem'[t + len].line = l
    BY <1>8, LineCells
<1>14. lines' = Cardinality(Ends(mem', head', tail'))
    <2>1. IsFiniteSet(Ends(mem', h, t)) /\ Cardinality(Ends(mem', h, t)) \in Nat
        BY <1>3, EndsFinite
    <2>2. Cardinality(Ends(mem', h, t) \cup {t + len}) = Cardinality(Ends(mem', h, t)) + 1
        BY <1>12, <2>1, FS_AddElement
    <2>3. lines = Cardinality(Ends(mem, head, tail))
        BY DEF Buffered
    <2> QED
        BY <1>4, <1>11, <1>12, <2>2, <2>3
<1>15. mem' \in [0..(QueueBytes - 1) -> Cells \cup {Free}]
    <2> SUFFICES ASSUME NEW i \in DOMAIN mem PROVE mem'[i] \in Cells \cup {Free}
        BY <1>4, <1>5
    <2>1. CASE i < h \/ i >= t + len + 1
        BY <2>1, <1>4
    <2>2. CASE ~(i < h \/ i >= t + len + 1)
        <3>1. i \in head'..(tail' - 1)
            BY <2>2, <1>1, <1>3, <1>4, <1>5
        <3> QED
            BY <3>1, <1>10 DEF Framed, Begun
    <2> QED
        BY <2>1, <2>2
<1>16. \A i \in 0..(QueueBytes - 1) : mem'[i] # Free <=> head' <= i /\ i < tail'
    <2> SUFFICES ASSUME NEW i \in 0..(QueueBytes - 1)
                 PROVE  mem'[i] # Free <=> head' <= i /\ i < tail'
        OBVIOUS
    <2>1. CASE i < h \/ i >= t + len + 1
        BY <2>1, <1>1, <1>3, <1>4, <1>5
    <2>2. CASE ~(i < h \/ i >= t + len + 1)
        <3>1. i \in head'..(tail' - 1)
            BY <2>2, <1>1, <1>3, <1>4
        <3>2. mem'[i] \in Cells
            BY <3>1, <1>10 DEF Framed, Begun
        <3> QED
            BY <3>1, <3>2, <2>2, <1>1, <1>3, <1>4, CellType
    <2> QED
        BY <2>1, <2>2
<1>17. Ends(mem', head', sendPos') = {}
    <2> SUFFICES ASSUME NEW j \in Ends(mem', head', sendPos') PROVE FALSE
        OBVIOUS
    <2>1. j \in Int /\ h <= j /\ j < h + sendPos - head /\ mem'[j].k = 0
        BY <1>2, <1>3, <1>4 DEF Ends
    <2>2. j \in Ends(mem', h, t)
        BY <2>1, <1>2, <1>3 DEF Ends
    <2>3. mem[j - h + head].k = 0
        BY <2>1, <2>2, <1>11
    <2>4. j - h + head \in Ends(mem, head, sendPos)
        BY <2>1, <2>3, <1>2, <1>3 DEF Ends
    <2> QED
        BY <2>4 DEF Buffered
<1>18. Buffered'
    <2>1. /\ head' \in Nat /\ sendPos' \in Nat /\ tail' \in Nat
          /\ head' <= sendPos' /\ sendPos' <= tail' /\ tail' <= QueueBytes
        BY <1>1, <1>2, <1>3, <1>4
    <2> QED
        BY <2>1, <1>10, <1>14, <1>15, <1>16, <1>17 DEF Buffered
<1>19. Queued' = Queued \cup {l}
    <2>1. \A x : x \in Queued' <=> \E i \in Ends(mem', h, t) \cup {t + len} : x = mem'[i].line
        BY <1>12, QueuedIs
    <2>2. \A x : (\E i \in Ends(mem', h, t) : x = mem'[i].line) <=> (\E i \in Ends(mem, head, tail) : x = mem[i].line)
        BY <1>11
    <2>3. \A x : x \in Queued <=> \E i \in Ends(mem, head, tail) : x = mem[i].line
        BY QueuedIs
    <2> QED
        BY <2>1, <2>2, <2>3, <1>13
<1>20. Twice(mem', head', tail') \subseteq Twice(mem, head, tail) \cup (Queued \cap {l})
    <2> SUFFICES ASSUME NEW x \in Lines, NEW i \in Ends(mem', h, t) \cup {t + len},
                        NEW j \in Ends(mem', h, t) \cup {t + len}, i # j,
                        mem'[i].line = x, mem'[j].line = x
                 PROVE  x \in Twice(mem, head, tail) \cup (Queued \cap {l})
        BY <1>12 DEF Twice
    <2>1. \A n \in Ends(mem', h, t) : mem'[n].line \in Queued
        BY <1>11, QueuedIs
    <2>2. CASE i = t + len
        BY <2>1, <2>2, <1>13
    <2>3. CASE j = t + len
        BY <2>1, <2>3, <1>13
    <2>4. CASE i \in Ends(mem', h, t) /\ j \in Ends(mem', h, t)
        <3>1. i - h + head # j - h + head
            <4>1. i \in Int /\ j \in Int
                BY <2>4 DEF Ends
            <4> QED
                BY <4>1, <1>2, <1>3
        <3> QED
            BY <2>4, <3>1, <1>11 DEF Twice
    <2> QED
        BY <2>2, <2>3, <2>4
<1>21. tail' - sendPos' = tail - sendPos + len + 1
    BY <1>1, <1>2, <1>3, <1>4
<1>22. \A k \in 1..(tail - sendPos) : mem'[sendPos' + k - 1] = mem[sendPos + k - 1]
    <2> SUFFICES ASSUME NEW k \in 1..(tail - sendPos) PROVE mem'[sendPos' + k - 1] = mem[sendPos + k - 1]
        OBVIOUS
    <2>1. sendPos + k - 1 \in head..(tail - 1) /\ (sendPos + k - 1) - head + h = sendPos' + k - 1
        BY <1>2, <1>3, <1>4
    <2> QED
        BY <2>1, <1>6
<1>23. \A k \in 1..(len + 1) : mem'[sendPos' + (tail - sendPos) + k - 1] = Whole(l)[k]
    <2> SUFFICES ASSUME NEW k \in 1..(len + 1) PROVE mem'[sendPos' + (tail - sendPos) + k - 1] = Whole(l)[k]
        OBVIOUS
    <2>1. sendPos' + (tail - sendPos) + k - 1 = t + k - 1
        BY <1>1, <1>2, <1>3, <1>4
    <2> QED
        BY <2>1, <1>7
<1>24. head = sendPos => head' = sendPos'
    BY <1>2, <1>3, <1>4
<1> QED
    BY <1>4, <1>18, <1>19, <1>20, <1>21, <1>22, <1>23, <1>24 DEF len

LEMMA ForwardKeeps ==
    ASSUME Buffered, NEW g \in Int, NEW s \in Int, NEW n, Forward(g, s, n),
           head <= g, g <= s, s <= tail, Ends(mem, g, s) = {},
           g = head \/ mem[g - 1].k = 0, n = Cardinality(Ends(mem, head, g))
    PROVE  /\ Buffered' /\ lines' = lines - n
           /\ Queued' = {mem[i].line : i \in Ends(mem, g, tail)}
           /\ Twice(mem', head', tail') \subseteq Twice(mem, head, tail)
           /\ tail' - sendPos' = tail - s
           /\ \A k \in 1..(tail - s) : mem'[sendPos' + k - 1] = mem[s + k - 1]
           /\ (g = s => head' = sendPos')
<1>1. /\ mem \in [0..(QueueBytes - 1) -> Cells \cup {Free}]
      /\ head \in Nat /\ sendPos \in Nat /\ tail \in Nat /\ QueueBytes \in Nat
      /\ head <= sendPos /\ sendPos <= tail /\ tail <= QueueBytes
    BY SocketAssumption DEF Buffered
<1>2. lines' = lines - n /\ mem' = [i \in DOMAIN mem |-> IF i < g THEN Free ELSE mem[i]]
    BY DEF Forward
<1>3. mem' \in [0..(QueueBytes - 1) -> Cells \cup {Free}]
    BY <1>1, <1>2
<1>4. \A i \in g..(tail - 1) : mem'[i] = mem[i]
    BY <1>1, <1>2
<1>5. \A i \in 0..(QueueBytes - 1) : mem'[i] # Free <=> g <= i /\ i < tail
    <2>1. \A i \in 0..(QueueBytes - 1) : mem[i] # Free <=> head <= i /\ i < tail
        BY DEF Buffered
    <2>2. \A i \in 0..(QueueBytes - 1) : mem'[i] = IF i < g THEN Free ELSE mem[i]
        BY <1>1, <1>2
    <2> QED
        BY <1>1, <2>1, <2>2
<1>6. Begun(mem, head, tail) /\ (head < tail => mem[tail - 1].k = 0)
    BY DEF Buffered, Framed
<1>7. Ends(mem, head, tail) = Ends(mem, head, g) \cup Ends(mem, g, tail)
    BY <1>1 DEF Ends
<1>8. Ends(mem, head, g) \cap Ends(mem, g, tail) = {}
    BY <1>1 DEF Ends
<1>9. lines' = Cardinality(Ends(mem, g, tail))
    <2>1. IsFiniteSet(Ends(mem, head, g)) /\ Cardinality(Ends(mem, head, g)) \in Nat
        BY <1>1, EndsFinite
    <2>2. IsFiniteSet(Ends(mem, g, tail)) /\ Cardinality(Ends(mem, g, tail)) \in Nat
        BY <1>1, EndsFinite
    <2>3. lines = Cardinality(Ends(mem, head, g)) + Cardinality(Ends(mem, g, tail)) - 0
        BY <1>7, <1>8, <2>1, <2>2, FS_Union, FS_EmptySet DEF Buffered
    <2> QED
        BY <1>2, <2>1, <2>2, <2>3
<1>10. CASE g = tail
    <2>1. head' = 0 /\ sendPos' = 0 /\ tail' = 0 /\ s = tail
        BY <1>1, <1>10 DEF Forward
    <2>2. /\ Ends(mem, g, tail) = {} /\ Ends(mem', head', tail') = {} /\ Ends(mem', head', sendPos') = {}
          /\ \A x : Begun(x, 0, 0)
        BY <1>1, <1>10, <2>1 DEF Ends, Begun
    <2>3. Framed(mem', head', tail')
        BY <2>1, <2>2 DEF Framed
    <2>4. \A i \in 0..(QueueBytes - 1) : mem'[i] # Free <=> head' <= i /\ i < tail'
        BY <1>1, <1>5, <1>10, <2>1
    <2>5. Buffered'
        <3>1. lines' = Cardinality(Ends(mem', head', tail'))
            BY <1>9, <2>2
        <3>2. /\ head' \in Nat /\ sendPos' \in Nat /\ tail' \in Nat
              /\ head' <= sendPos' /\ sendPos' <= tail' /\ tail' <= QueueBytes
            BY <1>1, <2>1
        <3> QED
            BY <1>3, <2>2, <2>3, <2>4, <3>1, <3>2 DEF Buffered
    <2>6. Queued' = {mem[i].line : i \in Ends(mem, g, tail)}
        BY <2>2, QueuedIs
    <2>7. Twice(mem', head', tail') \subseteq Twice(mem, head, tail)
        BY <2>2 DEF Twice
    <2>8. tail' - sendPos' = tail - s /\ 1..(tail - s) = {}
        BY <1>1, <2>1
    <2> QED
        BY <1>2, <2>1, <2>5, <2>6, <2>7, <2>8
<1>11. CASE g # tail
    <2>1. head' = g /\ sendPos' = s /\ tail' = tail
        BY <1>11 DEF Forward
    <2>2. Begun(mem, g, tail)
        BY <1>1, <1>6, Cut
    <2>3. Begun(mem', g, tail)
        <3>1. \A i \in g..(tail - 1) : mem'[i - g + g] = mem[i]
            BY <1>4
        <3>2. Begun(mem', g, g + tail - g)
            <4>1. tail \in Int
                BY <1>1
            <4> QED
                BY <2>2, <3>1, <4>1, Shift, Zenon
        <3>3. g + tail - g = tail
            BY <1>1
        <3> QED
            BY <3>2, <3>3
    <2>4. Framed(mem', head', tail')
        <3>1. g < tail => tail - 1 \in g..(tail - 1) /\ head < tail
            BY <1>1
        <3> QED
            BY <1>4, <1>6, <2>1, <2>3, <3>1 DEF Framed
    <2>5. Ends(mem', head', tail') = Ends(mem, g, tail) /\ Ends(mem', head', sendPos') = Ends(mem, g, s)
        <3>1. \A i \in g..(s - 1) : mem'[i] = mem[i]
            BY <1>1, <1>4
        <3> QED
            BY <1>4, <2>1, <3>1 DEF Ends
    <2>6. \A i \in Ends(mem, g, tail) : mem'[i] = mem[i]
        BY <1>4 DEF Ends
    <2>7. Buffered'
        <3>1. head' \in Nat /\ sendPos' \in Nat /\ tail' \in Nat /\ head' <= sendPos' /\ sendPos' <= tail' /\ tail' <= QueueBytes
            BY <1>1, <2>1
        <3> QED
            BY <3>1, <1>3, <1>5, <1>9, <2>1, <2>4, <2>5 DEF Buffered
    <2>8. Queued' = {mem[i].line : i \in Ends(mem, g, tail)}
        BY <2>5, <2>6, QueuedIs
    <2>9. Twice(mem', head', tail') \subseteq Twice(mem, head, tail)
        BY <1>7, <2>5, <2>6 DEF Twice
    <2>10. \A k \in 1..(tail - s) : mem'[sendPos' + k - 1] = mem[s + k - 1]
        <3> SUFFICES ASSUME NEW k \in 1..(tail - s) PROVE mem'[s + k - 1] = mem[s + k - 1]
            BY <2>1
        <3>1. s + k - 1 \in g..(tail - 1)
            BY <1>1
        <3> QED
            BY <3>1, <1>4
    <2> QED
        BY <1>2, <2>1, <2>7, <2>8, <2>9, <2>10
<1> QED
    BY <1>10, <1>11

LEMMA LeastNat ==
    ASSUME NEW S \in SUBSET Nat, S # {}
    PROVE  \E m \in S : \A n \in S : m <= n
<1> DEFINE Less == {pair \in Nat \X Nat : pair[1] < pair[2]}
<1>1. IsWellFoundedOn(Less, Nat)
    BY NatLessThanWellFounded DEF OpToRel
<1>2. \A a \in Nat, b \in Nat : a < b => <<a, b>> \in Less
    OBVIOUS
<1> HIDE DEF Less
<1>3. PICK m \in S : \A n \in S : ~(<<n, m>> \in Less)
    BY <1>1, WFMin
<1>4. ASSUME NEW n \in S PROVE m <= n
    <2>1. n \in Nat /\ m \in Nat
        OBVIOUS
    <2>2. ~(n < m)
        BY <1>2, <1>3, <2>1
    <2> QED
        BY <2>1, <2>2
<1> QED
    BY <1>4

\* The places which the code looks for
LEMMA FirstAndLast ==
    ASSUME NEW a \in Int, NEW b \in Int, NEW S \in SUBSET (a..b), S # {}
    PROVE  /\ Lowest(S) \in S /\ \A j \in S : Lowest(S) <= j
           /\ Highest(S) \in S /\ \A j \in S : Highest(S) >= j
<1>1. \E i \in S : \A j \in S : i <= j
    <2> DEFINE T == {i - a : i \in S}
    <2>1. T \in SUBSET Nat /\ T # {}
        <3>1. \A i \in S : i \in a..b
            OBVIOUS
        <3>2. \A i \in S : i - a \in Nat
            BY <3>1
        <3> QED
            BY <3>2
    <2>2. PICK m \in T : \A n \in T : m <= n
        <3> HIDE DEF T
        <3> QED
            BY <2>1, LeastNat
    <2>3. PICK i \in S : m = i - a
        OBVIOUS
    <2>4. ASSUME NEW j \in S PROVE i <= j
        <3>1. i - a <= j - a
            BY <2>2, <2>3
        <3> QED
            BY <3>1
    <2> QED
        BY <2>4
<1>2. \E i \in S : \A j \in S : i >= j
    <2> DEFINE T == {b - i : i \in S}
    <2>1. T \in SUBSET Nat /\ T # {}
        <3>1. \A i \in S : i \in a..b
            OBVIOUS
        <3>2. \A i \in S : b - i \in Nat
            BY <3>1
        <3> QED
            BY <3>2
    <2>2. PICK m \in T : \A n \in T : m <= n
        <3> HIDE DEF T
        <3> QED
            BY <2>1, LeastNat
    <2>3. PICK i \in S : m = b - i
        OBVIOUS
    <2>4. ASSUME NEW j \in S PROVE i >= j
        <3>1. b - i <= b - j
            BY <2>2, <2>3
        <3> QED
            BY <3>1
    <2> QED
        BY <2>4
<1> QED
    BY <1>1, <1>2 DEF Lowest, Highest

\* Behind g the first line of which not everything is sent begins
Completes(pos, g) ==
    /\ g \in Int /\ head <= g /\ g <= pos /\ (g = head \/ mem[g - 1].k = 0)
    /\ Ends(mem, g, pos) = {} /\ Ends(mem, head, pos) = Ends(mem, head, g)
    /\ Forward(g, pos, Cardinality(Ends(mem, head, g)))

LEMMA CompleteForwards ==
    ASSUME Buffered, NEW pos \in Int, sendPos <= pos, CompleteSentLines(pos)
    PROVE  \E g : Completes(pos, g)
<1> DEFINE S == Ends(mem, head, pos)
           g == IF S = {} THEN head ELSE Highest(S) + 1
<1>1. head \in Nat /\ sendPos \in Nat /\ head <= sendPos
    BY DEF Buffered
<1>2. S = NewLines(head, pos)
    BY DEF NewLines, Ends
<1>3. Forward(g, pos, Cardinality(S))
    BY <1>2 DEF CompleteSentLines
<1>4. S \in SUBSET (head..(pos - 1))
    BY DEF Ends
<1>5. S # {} => Highest(S) \in S /\ \A j \in S : Highest(S) >= j
    <2>1. head \in Int /\ pos - 1 \in Int
        BY <1>1
    <2> HIDE DEF S
    <2> QED
        BY <1>4, <2>1, FirstAndLast, Zenon
<1>6. /\ g \in Int /\ head <= g /\ g <= pos
      /\ g = head \/ mem[g - 1].k = 0
    <2>1. CASE S = {}
        BY <2>1, <1>1
    <2>2. CASE S # {}
        <3>1. Highest(S) \in head..(pos - 1) /\ mem[Highest(S)].k = 0
            BY <2>2, <1>5 DEF Ends
        <3>2. g = Highest(S) + 1 /\ g - 1 = Highest(S)
            BY <2>2, <3>1
        <3> QED
            BY <3>1, <3>2, <1>1
    <2> QED
        BY <2>1, <2>2
<1>7. \A i \in S : i < g
    BY <1>1, <1>4, <1>5
<1> HIDE DEF g
<1>8. Ends(mem, g, pos) = {}
    <2>1. Ends(mem, g, pos) \subseteq S
        BY <1>1, <1>6 DEF Ends
    <2>2. \A i \in Ends(mem, g, pos) : i \in Int /\ g <= i
        BY DEF Ends
    <2> QED
        BY <1>1, <1>4, <1>6, <1>7, <2>1, <2>2
<1>9. S = Ends(mem, head, g)
    <2>1. \A i \in S : i \in Int /\ head <= i /\ i < g /\ mem[i].k = 0
        BY <1>1, <1>7 DEF Ends
    <2>2. S \subseteq Ends(mem, head, g)
        BY <2>1, <1>1, <1>6 DEF Ends
    <2>3. Ends(mem, head, g) \subseteq S
        BY <1>1, <1>6 DEF Ends
    <2> QED
        BY <2>2, <2>3
<1>10. Completes(pos, g)
    BY <1>3, <1>6, <1>8, <1>9 DEF Completes
<1> QED
    BY <1>10

LEMMA CompleteKeeps ==
    ASSUME Buffered, NEW pos \in Int, sendPos <= pos, pos <= tail, CompleteSentLines(pos)
    PROVE  /\ Buffered' /\ lines' <= lines
           /\ Queued' \subseteq Queued
           /\ Queued \subseteq Queued' \cup {mem[i].line : i \in Ends(mem, sendPos, pos)}
           /\ Twice(mem', head', tail') \subseteq Twice(mem, head, tail)
           /\ tail' - sendPos' = tail - pos
           /\ \A k \in 1..(tail - pos) : mem'[sendPos' + k - 1] = mem[pos + k - 1]
<1> DEFINE S == Ends(mem, head, pos)
<1>1. head \in Nat /\ sendPos \in Nat /\ tail \in Nat /\ head <= sendPos /\ Ends(mem, head, sendPos) = {}
    BY DEF Buffered
<1>2. PICK g : Completes(pos, g)
    BY CompleteForwards
<1>3. /\ g \in Int /\ head <= g /\ g <= pos /\ (g = head \/ mem[g - 1].k = 0)
      /\ Ends(mem, g, pos) = {} /\ S = Ends(mem, head, g) /\ Forward(g, pos, Cardinality(S))
    BY <1>2 DEF Completes
<1>4. /\ Buffered' /\ lines' = lines - Cardinality(S)
       /\ Queued' = {mem[i].line : i \in Ends(mem, g, tail)}
       /\ Twice(mem', head', tail') \subseteq Twice(mem, head, tail)
       /\ tail' - sendPos' = tail - pos
       /\ \A k \in 1..(tail - pos) : mem'[sendPos' + k - 1] = mem[pos + k - 1]
    <2> HIDE DEF S
    <2> QED
        BY <1>3, ForwardKeeps
<1>5. lines' <= lines
    <2>1. Cardinality(S) \in Nat /\ Cardinality(Ends(mem, head, tail)) \in Nat
        BY <1>1, EndsFinite
    <2> QED
        BY <2>1, <1>4 DEF Buffered
<1>6. Queued' \subseteq Queued
    <2>1. Ends(mem, g, tail) \subseteq Ends(mem, head, tail)
        BY <1>1, <1>3 DEF Ends
    <2> QED
        BY <2>1, <1>4, QueuedIs
<1>7. Queued \subseteq Queued' \cup {mem[i].line : i \in Ends(mem, sendPos, pos)}
    <2> SUFFICES ASSUME NEW i \in Ends(mem, head, tail)
                 PROVE  i \in Ends(mem, g, tail) \/ i \in Ends(mem, sendPos, pos)
        BY <1>4, QueuedIs
    <2>1. i \in Int /\ head <= i /\ i < tail /\ mem[i].k = 0
        BY <1>1 DEF Ends
    <2>2. CASE g <= i
        BY <2>1, <2>2, <1>1, <1>3 DEF Ends
    <2>3. CASE i < sendPos
        BY <2>1, <2>3, <1>1 DEF Ends
    <2>4. CASE sendPos <= i /\ i < g
        BY <2>1, <2>4, <1>1, <1>3 DEF Ends
    <2> QED
        BY <2>1, <2>2, <2>3, <2>4, <1>1, <1>3
<1> QED
    BY <1>4, <1>5, <1>6, <1>7

\* The line to which the head of the buffer belongs is the one which ends first
LEMMA FirstIsUnsent ==
    ASSUME Buffered, lines > 0, NEW e, e = Lowest(Ends(mem, head, tail))
    PROVE  /\ e \in Ends(mem, head, tail) /\ \A j \in Ends(mem, head, tail) : e <= j
           /\ e \in Int /\ head <= e /\ e < tail /\ mem[e].k = 0 /\ mem[e] \in Cells /\ Ended(mem, head, e)
           /\ Unsent = mem[e].line
<1> DEFINE S == Ends(mem, head, tail)
<1>1. /\ head \in Nat /\ tail \in Nat /\ head <= tail
      /\ Begun(mem, head, tail)
    BY DEF Buffered, Framed
<1>2. S # {}
    BY FS_EmptySet DEF Buffered
<1>3. S \in SUBSET (head..(tail - 1))
    BY DEF Ends
<1>4. e \in S /\ \A j \in S : e <= j
    <2>1. head \in Int /\ tail - 1 \in Int
        BY <1>1
    <2>2. e = Lowest(S)
        OBVIOUS
    <2> HIDE DEF S
    <2>3. Lowest(S) \in S /\ \A j \in S : Lowest(S) <= j
        BY <1>2, <1>3, <2>1, FirstAndLast, Zenon
    <2> QED
        BY <2>2, <2>3, Zenon
<1>5. e \in Int /\ head <= e /\ e < tail /\ mem[e].k = 0 /\ mem[e] \in Cells /\ Ended(mem, head, e)
    <2>1. e \in head..(tail - 1) /\ mem[e].k = 0
        BY <1>4 DEF Ends
    <2> QED
        BY <2>1, <1>1 DEF Begun
<1>6. Unsent = mem[e].line
    <2> DEFINE l == mem[e].line
    <2>1. l \in Lines /\ Length[l] \in Nat /\ Length[l] > 0
        BY <1>5, CellType, LengthType
    <2>2. /\ head <= e - Length[l]
          /\ e - Length[l] = head \/ mem[(e - Length[l]) - 1].k = 0
          /\ \A k \in 1..Length[l] : mem[(e - Length[l]) + k - 1] = Text(l, k)
        BY <1>5 DEF Ended
    <2>3. e - Length[l] = head
        <3> SUFFICES ASSUME e - Length[l] # head PROVE FALSE
            OBVIOUS
        <3> DEFINE j == (e - Length[l]) - 1
        <3>1. mem[j].k = 0 /\ j \in head..(tail - 1) /\ j < e
            BY <2>1, <2>2, <1>1, <1>5
        <3>2. j \in S
            BY <3>1 DEF Ends
        <3> QED
            BY <3>1, <3>2, <1>1, <1>4, <1>5
    <2>4. 1 \in 1..Length[l] /\ (e - Length[l]) + 1 - 1 = head
        BY <2>1, <2>3, <1>5
    <2>5. mem[head] = Text(l, 1)
        BY <2>2, <2>4
    <2> QED
        BY <2>5 DEF Unsent, Text
<1> QED
    BY <1>4, <1>5, <1>6

LEMMA DropKeeps ==
    ASSUME Buffered, lines > 0, DropUnsent
    PROVE  /\ Buffered' /\ lines' = lines - 1
           /\ Unsent \in Queued
           /\ Queued' \subseteq Queued /\ Queued \subseteq Queued' \cup {Unsent}
           /\ Unsent \in Queued' => Unsent \in Twice(mem, head, tail)
           /\ Twice(mem', head', tail') \subseteq Twice(mem, head, tail)
           /\ head = sendPos => head' = sendPos'
<1> DEFINE S == Ends(mem, head, tail)
           e == Lowest(S)
           g == e + 1
           s == IF sendPos < g THEN g ELSE sendPos
<1>1. /\ head \in Nat /\ sendPos \in Nat /\ tail \in Nat /\ head <= sendPos /\ sendPos <= tail
      /\ Ends(mem, head, sendPos) = {} /\ Begun(mem, head, tail)
    BY DEF Buffered, Framed
<1>2. /\ e \in S /\ \A j \in S : e <= j
      /\ e \in Int /\ head <= e /\ e < tail /\ mem[e].k = 0 /\ mem[e] \in Cells
      /\ Unsent = mem[e].line
    BY FirstIsUnsent
<1>3. Forward(g, s, 1)
    <2>1. S = NewLines(head, tail)
        BY DEF NewLines, Ends
    <2> QED
        BY <2>1 DEF DropUnsent
<1>4. g \in Int /\ head <= g /\ g <= tail /\ g - 1 = e /\ mem[g - 1].k = 0
    BY <1>1, <1>2
<1>5. s \in Int /\ g <= s /\ s <= tail
    BY <1>1, <1>4
<1>6. Ends(mem, g, s) = {}
    <2>1. CASE sendPos < g
        <3>1. s = g /\ g..(g - 1) = {}
            BY <2>1, <1>4
        <3> HIDE DEF s
        <3> QED
            BY <3>1 DEF Ends
    <2>2. CASE ~(sendPos < g)
        <3>1. s = sendPos
            BY <2>2
        <3> HIDE DEF s, g
        <3> QED
            BY <3>1, <1>1, <1>4 DEF Ends
    <2> QED
        BY <2>1, <2>2
<1>7. Ends(mem, head, g) = {e}
    <2>1. e \in Ends(mem, head, g)
        BY <1>1, <1>2, <1>4 DEF Ends
    <2>2. ASSUME NEW i \in Ends(mem, head, g) PROVE i = e
        <3>1. i \in Int /\ i <= e /\ i \in S
            BY <1>1, <1>2, <1>4 DEF Ends
        <3> QED
            BY <3>1, <1>2
    <2> QED
        BY <2>1, <2>2
<1>8. Cardinality(Ends(mem, head, g)) = 1
    BY <1>7, FS_Singleton
<1> HIDE DEF e, S
<1>9. /\ Buffered' /\ lines' = lines - 1
       /\ Queued' = {mem[i].line : i \in Ends(mem, g, tail)}
       /\ Twice(mem', head', tail') \subseteq Twice(mem, head, tail)
    <2> HIDE DEF g, s
    <2> QED
        BY <1>3, <1>4, <1>5, <1>6, <1>8, ForwardKeeps
<1>10. \A i \in Ends(mem, g, tail) : i \in S /\ i # e
    BY <1>1, <1>2, <1>4 DEF Ends, S
<1>11. \A i \in S : i \in Ends(mem, g, tail) \/ i = e
    <2>1. \A i \in S : i \in Int /\ e <= i /\ i < tail /\ mem[i].k = 0
        BY <1>1, <1>2 DEF Ends, S
    <2> QED
        BY <2>1, <1>1, <1>2, <1>4 DEF Ends
<1>12. Queued = {mem[i].line : i \in S}
    BY QueuedIs DEF S
<1>13. Unsent \in Queued' => Unsent \in Twice(mem, head, tail)
    <2>1. Unsent \in Lines
        BY <1>2, CellType
    <2> QED
        BY <2>1, <1>2, <1>9, <1>10 DEF Twice, S
<1>14. head = sendPos => head' = sendPos'
    <2>1. head = sendPos => s = g
        BY <1>1, <1>2, <1>4
    <2> HIDE DEF g, s
    <2> QED
        BY <2>1, <1>3, <1>4, <1>5, <1>6, <1>8, ForwardKeeps
<1> QED
    BY <1>2, <1>9, <1>10, <1>11, <1>12, <1>13, <1>14

-----------------------------------------------------------------------------
(* The inductive invariant *)

States == {"disconnected", "connecting", "connected"}
Places == {"down", "idle", "pump", "send", "drain", "take", "put", "more", "flush", "spill"}
Returns == {"idle", "drain", "more", "flush"}

ControlType ==
    /\ state \in States /\ pc \in Places /\ then \in Returns /\ moved \in 0..DrainMax
    /\ due \in BOOLEAN /\ hasWal \in BOOLEAN

ConnectionType ==
    /\ sock \in Connections \cup {NoSocket} /\ ours \subseteq Connections /\ theirs \subseteq Connections
    /\ wire \in [Connections -> Seq(Cells)] /\ part \in [Connections -> Seq(Cells)]

LineType ==
    /\ lines <= QueueLines
    /\ received \subseteq Lines /\ owed \subseteq Lines
    /\ records \in Seq(Lines) /\ position \in 0..Len(records)
    /\ next \in Lines \cup {NoLine} /\ last \in Lines \cup {0}
    /\ spilled \subseteq Lines /\ late \subseteq Lines

\* Where the thread is, and what it may rely on there
Standing ==
    /\ state = "connected" => sock \in ours
    /\ state # "connected" => sendPos = head
    /\ pc = "send" => state = "connected"
    /\ next # NoLine <=> pc = "put"
    /\ pc = "put" => HasRoom(next) /\ moved < DrainMax /\ next \in spilled

\* What the forwarder has of a connection, and what the thread is going to send on it
Stream(c) == part[c] \o wire[c]
WholeStream == Stream(sock) \o Part(sendPos, tail)
Sending == state = "connected" /\ pc # "spill" /\ sock \in theirs

SeqBegun(s) == Begun(s, 1, Len(s) + 1)
SeqFramed(s) == Framed(s, 1, Len(s) + 1)

Streams ==
    /\ \A c \in Connections \ theirs : part[c] = << >>
    /\ \A c \in theirs : SeqBegun(Stream(c))
    /\ Sending => SeqFramed(WholeStream)

\* Which lines the WAL took, and which of them the queue holds
Moves ==
    /\ \A l \in Queued \cup spilled : l <= last
    /\ In(records) \subseteq spilled
    /\ Twice(mem, head, tail) \subseteq spilled
    /\ FewAreMoved

Kept == owed \subseteq SentWhole \cup Queued \cup {next} \cup Waiting

DInv ==
    /\ ControlType /\ ConnectionType /\ LineType
    /\ Buffered /\ Standing /\ Streams /\ Moves /\ Kept

LEMMA FewFinite ==
    ASSUME NEW S, NEW T \in SUBSET S, S \subseteq Lines, Cardinality(S) <= LowWater
    PROVE  Cardinality(T) <= LowWater
<1>1. IsFiniteSet(Lines)
    BY FS_Interval, SocketAssumption DEF Lines
<1>2. IsFiniteSet(S) /\ IsFiniteSet(T)
    BY <1>1, FS_Subset
<1>3. Cardinality(S) \in Nat /\ Cardinality(T) \in Nat /\ Cardinality(T) <= Cardinality(S)
    BY <1>2, FS_Subset, FS_CardinalityType
<1> QED
    BY <1>3, DurableAssumption

LEMMA TwiceQueued ==
    /\ Twice(mem, head, tail) \subseteq Queued
    /\ Twice(mem', head', tail') \subseteq Queued'
BY QueuedIs DEF Twice

\* The queue only shrinks, and the WAL stays
LEMMA MovesKept ==
    ASSUME LineType, LineType', Moves, Queued' \subseteq Queued,
           Twice(mem', head', tail') \subseteq Twice(mem, head, tail),
           spilled' = spilled \/ spilled' = spilled \cap (Queued' \cup In(records)),
           UNCHANGED <<records, next, last>>
    PROVE  Moves'
<1>1. \A l \in Queued' \cup spilled' : l <= last'
    BY DEF Moves
<1>2. In(records') \subseteq spilled'
    BY DEF Moves
<1>3. Twice(mem', head', tail') \subseteq spilled'
    BY TwiceQueued DEF Moves
<1>4. Cardinality((Queued' \cup {next'}) \cap spilled') <= LowWater
    <2>1. (Queued' \cup {next'}) \cap spilled' \subseteq (Queued \cup {next}) \cap spilled
        OBVIOUS
    <2>2. (Queued \cup {next}) \cap spilled \subseteq Lines
        BY DEF LineType
    <2>3. Cardinality((Queued \cup {next}) \cap spilled) <= LowWater
        BY DEF Moves, FewAreMoved
    <2> QED
        BY <2>1, <2>2, <2>3, FewFinite
<1> QED
    BY <1>1, <1>2, <1>3, <1>4 DEF Moves, FewAreMoved, In

-----------------------------------------------------------------------------
(* Steps which only move the thread, or the time *)

LEMMA ControlKeeps ==
    ASSUME DInv, ControlType', late' \subseteq Lines,
           UNCHANGED <<sock, buffer, connections, received, owed, records, position, next, last>>,
           spilled' = spilled \/ spilled' = spilled \cap (Queued' \cup In(records)),
           pc' = "put" <=> pc = "put",
           pc = "put" => moved' = moved /\ spilled' = spilled,
           state' = "connected" <=> state = "connected",
           pc' = "send" => state' = "connected",
           pc = "spill" => pc' = "spill"
    PROVE  DInv'
<1>1. ConnectionType' /\ LineType'
    BY DEF DInv, ConnectionType, LineType, connections, buffer
<1>2. Buffered'
    BY DEF DInv, Buffered, buffer
<1>3. Standing'
    BY DEF DInv, Standing, HasRoom, buffer, connections
<1>4. Streams'
    <2>1. Part(sendPos, tail)' = Part(sendPos, tail)
        BY DEF Part, buffer
    <2>2. WholeStream' = WholeStream /\ \A c \in Connections : Stream(c)' = Stream(c)
        BY <2>1 DEF WholeStream, Stream, connections
    <2>3. Sending' => Sending
        BY DEF Sending, connections
    <2> QED
        BY <2>2, <2>3 DEF DInv, Streams, connections, ConnectionType
<1>5. Queued' = Queued
    BY DEF Queued, NewLines, buffer
<1>6. Moves'
    <2>1. Twice(mem', head', tail') = Twice(mem, head, tail)
        BY DEF buffer
    <2> QED
        BY <1>1, <1>5, <2>1, MovesKept DEF DInv
<1>7. Kept'
    BY <1>5 DEF DInv, Kept, SentWhole, SentOn, Waiting, connections
<1> QED
    BY <1>1, <1>2, <1>3, <1>4, <1>6, <1>7 DEF DInv

LEMMA PartIs ==
    ASSUME Buffered, NEW i \in Int, NEW j \in Int, head <= i, i <= j, j <= tail
    PROVE  /\ Part(i, j) \in Seq(Cells) /\ Len(Part(i, j)) = j - i
           /\ \A k \in 1..(j - i) : Part(i, j)[k] = mem[i + k - 1]
<1>1. ASSUME NEW k \in 1..(j - i) PROVE mem[i + k - 1] \in Cells
    <2>1. i + k - 1 \in head..(tail - 1)
        BY DEF Buffered
    <2> QED
        BY <2>1 DEF Buffered, Framed, Begun
<1>2. j - i \in Nat
    OBVIOUS
<1> QED
    BY <1>1, <1>2 DEF Part

LEMMA SeqEq ==
    ASSUME NEW a \in Seq(Cells), NEW b \in Seq(Cells), Len(a) = Len(b),
           \A k \in 1..Len(a) : a[k] = b[k]
    PROVE  a = b
OBVIOUS

LEMMA SeqShift ==
    ASSUME NEW m, NEW h \in Int, NEW t \in Int, h <= t,
           NEW s \in Seq(Cells), Len(s) = t - h, \A k \in 1..(t - h) : s[k] = m[h + k - 1]
    PROVE  /\ Begun(m, h, t) => SeqBegun(s)
           /\ Framed(m, h, t) => SeqFramed(s)
<1>1. \A i \in h..(t - 1) : s[i - h + 1] = m[i]
    <2> SUFFICES ASSUME NEW i \in h..(t - 1) PROVE s[i - h + 1] = m[i]
        OBVIOUS
    <2>1. i - h + 1 \in 1..(t - h) /\ h + (i - h + 1) - 1 = i
        OBVIOUS
    <2> QED
        BY <2>1
<1>2. 1 + t - h = Len(s) + 1
    OBVIOUS
<1>3. ASSUME Begun(m, h, t) PROVE SeqBegun(s)
    <2>1. Begun(s, 1, 1 + t - h)
        <3>1. 1 \in Int
            OBVIOUS
        <3> QED
            BY <1>1, <1>3, <3>1, Shift, Zenon
    <2> QED
        BY <1>2, <2>1 DEF SeqBegun
<1>4. ASSUME Framed(m, h, t) PROVE SeqFramed(s)
    <2>1. SeqBegun(s)
        BY <1>3, <1>4 DEF Framed
    <2>2. 1 < Len(s) + 1 => s[(Len(s) + 1) - 1].k = 0
        <3> SUFFICES ASSUME 1 < Len(s) + 1 PROVE s[(Len(s) + 1) - 1].k = 0
            OBVIOUS
        <3>1. h < t /\ t - h \in 1..(t - h) /\ (Len(s) + 1) - 1 = t - h /\ h + (t - h) - 1 = t - 1
            OBVIOUS
        <3>2. m[t - 1].k = 0
            BY <1>4, <3>1 DEF Framed
        <3> QED
            BY <3>1, <3>2
    <2> QED
        BY <2>1, <2>2 DEF SeqFramed, SeqBegun, Framed
<1> QED
    BY <1>3, <1>4

-----------------------------------------------------------------------------
(* The connection comes and goes *)

LEMMA SenderTypes ==
    ASSUME DInv, UNCHANGED <<records, position, next, last, late, hasWal, moved>>,
           spilled' = spilled \cap (Queued' \cup In(records)),
           received' = received, owed' \subseteq owed, lines' <= QueueLines
    PROVE  LineType'
BY DEF DInv, LineType

LEMMA DisconnectKeeps ==
    ASSUME DInv, pc \in {"pump", "send"}, DisconnectAndReturn,
           UNCHANGED <<walVars, moved, next, last, late>>,
           spilled' = spilled \cap (Queued' \cup In(records))
    PROVE  DInv'
<1> USE DEF DisconnectAndReturn, Disconnect, CloseSocket
<1>1. ControlType'
    BY DEF DInv, ControlType, States, Places, Returns, Return, walVars
<1>2. ConnectionType'
    BY DEF DInv, ConnectionType
<1>3. LineType'
    <2>1. lines' <= QueueLines
        BY DEF DInv, LineType
    <2> QED
        BY <2>1, SenderTypes DEF walVars
<1>4. Ends(mem, head, head) = {} /\ head \in Nat
    BY DEF Ends, DInv, Buffered
<1>5. Buffered'
    BY <1>4 DEF DInv, Buffered
<1>6. pc' # "send" /\ pc' # "put" /\ pc # "put" /\ state' # "connected"
    BY DEF DInv, ControlType, Returns, Return
<1>7. Standing'
    BY <1>6 DEF DInv, Standing
<1>8. Streams'
    <2>1. \A c \in Connections : Stream(c)' = Stream(c)
        BY DEF Stream
    <2> QED
        BY <1>6, <2>1 DEF DInv, Streams, Sending, ConnectionType
<1>9. Queued' = Queued
    BY DEF Queued, NewLines
<1>10. Moves'
    <2>1. Twice(mem', head', tail') = Twice(mem, head, tail)
        OBVIOUS
    <2> QED
        BY <1>3, <1>9, <2>1, MovesKept DEF DInv, walVars
<1>11. Kept'
    BY <1>9 DEF DInv, Kept, SentWhole, SentOn, Waiting, walVars
<1> QED
    BY <1>1, <1>2, <1>3, <1>5, <1>7, <1>8, <1>10, <1>11 DEF DInv

LEMMA ConnectedKeeps ==
    ASSUME DInv, pc = "pump", state # "connected", NEW c \in Unused, Connected(c),
           UNCHANGED <<walVars, moved, next, last, late>>,
           spilled' = spilled \cap (Queued' \cup In(records))
    PROVE  DInv'
<1> USE DEF Connected, buffer
<1>1. ControlType'
    BY DEF DInv, ControlType, States, walVars
<1>2. c \in Connections /\ c \notin ours /\ c \notin theirs /\ wire[c] = << >>
    BY DEF Unused
<1>3. ConnectionType'
    BY <1>2 DEF DInv, ConnectionType
<1>4. LineType'
    <2>1. lines' <= QueueLines
        BY DEF DInv, LineType
    <2> QED
        BY <2>1, SenderTypes DEF walVars
<1>5. Buffered'
    BY DEF DInv, Buffered
<1>6. Standing'
    BY DEF DInv, Standing
<1>7. sendPos = head
    BY DEF DInv, Standing
<1>8. part[c] = << >>
    BY <1>2 DEF DInv, Streams
<1>9. Streams'
    <2>1. \A d \in Connections : Stream(d)' = Stream(d)
        BY DEF Stream
    <2>2. Stream(c) = << >>
        BY <1>2, <1>8 DEF Stream
    <2>3. SeqBegun(<< >>)
        BY DEF SeqBegun, Begun
    <2>4. \A d \in theirs' : SeqBegun(Stream(d)')
        BY <1>2, <2>1, <2>2, <2>3 DEF DInv, Streams, ConnectionType
    <2>5. WholeStream' = Part(head, tail)
        <3>1. Part(sendPos, tail)' = Part(head, tail)
            BY <1>7 DEF Part
        <3>2. Part(head, tail) \in Seq(Cells)
            BY PartIs DEF DInv, Buffered
        <3>3. WholeStream' = << >> \o Part(head, tail)
            BY <1>2, <2>1, <2>2, <3>1 DEF WholeStream
        <3> QED
            BY <3>2, <3>3
    <2>6. SeqFramed(Part(head, tail))
        <3>1. /\ Part(head, tail) \in Seq(Cells) /\ Len(Part(head, tail)) = tail - head
              /\ \A k \in 1..(tail - head) : Part(head, tail)[k] = mem[head + k - 1]
            BY PartIs DEF DInv, Buffered
        <3>2. Framed(mem, head, tail) /\ head \in Int /\ tail \in Int /\ head <= tail
            BY DEF DInv, Buffered
        <3> QED
            BY <3>1, <3>2, SeqShift
    <2> QED
        BY <2>4, <2>5, <2>6 DEF DInv, Streams
<1>10. Queued' = Queued
    BY DEF Queued, NewLines
<1>11. Moves'
    <2>1. Twice(mem', head', tail') = Twice(mem, head, tail)
        OBVIOUS
    <2> QED
        BY <1>4, <1>10, <2>1, MovesKept DEF DInv, walVars
<1>12. Kept'
    BY <1>10 DEF DInv, Kept, SentWhole, SentOn, Waiting, walVars
<1> QED
    BY <1>1, <1>3, <1>4, <1>5, <1>6, <1>9, <1>11, <1>12 DEF DInv

-----------------------------------------------------------------------------
(* Some bytes are sent *)

LEMMA ConcatIs ==
    ASSUME NEW a \in Seq(Cells), NEW b \in Seq(Cells)
    PROVE  /\ a \o b \in Seq(Cells) /\ Len(a \o b) = Len(a) + Len(b)
           /\ Len(a) \in Nat /\ Len(b) \in Nat /\ Len(a \o b) \in Nat
           /\ \A k \in 1..Len(a) : (a \o b)[k] = a[k]
           /\ \A k \in 1..Len(b) : (a \o b)[Len(a) + k] = b[k]
OBVIOUS

LEMMA ConcatAssoc ==
    ASSUME NEW a \in Seq(Cells), NEW b \in Seq(Cells), NEW c \in Seq(Cells)
    PROVE  a \o (b \o c) = (a \o b) \o c
OBVIOUS

LEMMA SplitPart ==
    ASSUME Buffered, NEW i \in Int, NEW j \in Int, head <= i, i <= j, j <= tail,
           NEW a \in Seq(Cells)
    PROVE  a \o Part(i, tail) = (a \o Part(i, j)) \o Part(j, tail)
<1>0. head \in Int /\ tail \in Int /\ head <= j /\ i <= tail /\ tail <= tail
    BY DEF Buffered
<1>1. /\ Part(i, j) \in Seq(Cells) /\ Len(Part(i, j)) = j - i
      /\ \A k \in 1..(j - i) : Part(i, j)[k] = mem[i + k - 1]
    BY PartIs
<1>2. /\ Part(j, tail) \in Seq(Cells) /\ Len(Part(j, tail)) = tail - j
      /\ \A k \in 1..(tail - j) : Part(j, tail)[k] = mem[j + k - 1]
    BY <1>0, PartIs
<1>3. /\ Part(i, tail) \in Seq(Cells) /\ Len(Part(i, tail)) = tail - i
      /\ \A k \in 1..(tail - i) : Part(i, tail)[k] = mem[i + k - 1]
    BY <1>0, PartIs
<1>4. Part(i, tail) = Part(i, j) \o Part(j, tail)
    <2> DEFINE p == Part(i, tail)
               q == Part(i, j) \o Part(j, tail)
    <2>1. /\ q \in Seq(Cells) /\ Len(q) = tail - i
          /\ \A k \in 1..(j - i) : q[k] = Part(i, j)[k]
          /\ \A k \in 1..(tail - j) : q[(j - i) + k] = Part(j, tail)[k]
        <3> DEFINE a1 == Part(i, j)
                   a2 == Part(j, tail)
        <3>1. a1 \in Seq(Cells) /\ a2 \in Seq(Cells) /\ Len(a1) = j - i /\ Len(a2) = tail - j
            BY <1>1, <1>2
        <3> HIDE DEF a1, a2
        <3>2. /\ a1 \o a2 \in Seq(Cells) /\ Len(a1 \o a2) = Len(a1) + Len(a2)
              /\ \A k \in 1..Len(a1) : (a1 \o a2)[k] = a1[k]
              /\ \A k \in 1..Len(a2) : (a1 \o a2)[Len(a1) + k] = a2[k]
            BY <3>1, ConcatIs
        <3>3. q = a1 \o a2
            BY DEF a1, a2
        <3>4. (j - i) + (tail - j) = tail - i
            BY <1>0
        <3> HIDE DEF q
        <3> QED
            BY <3>1, <3>2, <3>3, <3>4 DEF a1, a2
    <2> HIDE DEF q
    <2>2. ASSUME NEW k \in 1..(tail - i) PROVE p[k] = q[k]
        <3>1. CASE k <= j - i
            <4>1. k \in 1..(j - i)
                BY <3>1
            <4> QED
                BY <4>1, <2>1, <1>1, <1>3
        <3>2. CASE k > j - i
            <4> DEFINE l == k - (j - i)
            <4>1. l \in 1..(tail - j) /\ j + l - 1 = i + k - 1 /\ (j - i) + l = k
                BY <3>2, <1>0
            <4> HIDE DEF l
            <4>2. q[k] = Part(j, tail)[l]
                BY <4>1, <2>1
            <4> QED
                BY <4>1, <4>2, <1>2, <1>3
        <3> QED
            BY <3>1, <3>2, <1>0
    <2> HIDE DEF p
    <2>3. p = q
        BY <1>3, <2>1, <2>2, SeqEq DEF p
    <2> QED
        BY <2>3 DEF p, q
<1>5. a \o (Part(i, j) \o Part(j, tail)) = (a \o Part(i, j)) \o Part(j, tail)
    <2> DEFINE b == Part(i, j)
               c == Part(j, tail)
    <2>1. b \in Seq(Cells) /\ c \in Seq(Cells)
        BY <1>1, <1>2
    <2> HIDE DEF b, c
    <2>2. a \o (b \o c) = (a \o b) \o c
        BY <2>1, ConcatAssoc
    <2> QED
        BY <2>2 DEF b, c
<1> QED
    BY <1>4, <1>5, Zenon

LEMMA SeqPrefix ==
    ASSUME NEW a \in Seq(Cells), NEW b \in Seq(Cells), SeqBegun(a \o b)
    PROVE  SeqBegun(a)
<1>1. /\ a \o b \in Seq(Cells) /\ Len(a \o b) = Len(a) + Len(b) /\ Len(a) \in Nat /\ Len(b) \in Nat
      /\ \A k \in 1..Len(a) : (a \o b)[k] = a[k]
    OBVIOUS
<1>2. Begun(a \o b, 1, Len(a) + 1)
    BY <1>1 DEF SeqBegun, Begun
<1> DEFINE t == Len(a) + 1
           m == a \o b
<1>3. 1 <= t /\ t \in Int /\ 1 \in Int /\ Len(a) = t - 1
    BY <1>1
<1>4. \A k \in 1..(t - 1) : a[k] = m[1 + k - 1]
    BY <1>1
<1> HIDE DEF t, m
<1> QED
    BY <1>2, <1>3, <1>4, SeqShift, Zenon DEF t, m

LEMMA SendSomeKeeps ==
    ASSUME DInv, SendSome, UNCHANGED <<walVars, moved, next, last, late>>,
           spilled' = spilled \cap (Queued' \cup In(records))
    PROVE  DInv'
<1>1. PICK n \in 1..(tail - sendPos) :
          /\ IF sock \in theirs
             THEN wire' = [wire EXCEPT ![sock] = @ \o Part(sendPos, sendPos + n)] /\ owed' = owed
             ELSE owed' = owed \ {mem[i].line : i \in NewLines(sendPos, sendPos + n)} /\ wire' = wire
          /\ CompleteSentLines(sendPos + n)
    BY DEF SendSome
<1>2. /\ pc = "send" /\ state = "connected"
      /\ UNCHANGED <<state, due, sock, ours, theirs, part, pc, then, received>>
    BY DEF SendSome, DInv, Standing
<1> DEFINE pos == sendPos + n
<1>3. /\ head \in Nat /\ sendPos \in Nat /\ tail \in Nat /\ head <= sendPos
      /\ pos \in Int /\ sendPos <= pos /\ pos <= tail
    BY DEF DInv, Buffered
<1> HIDE DEF pos
<1>4. /\ Buffered' /\ lines' <= lines
      /\ Queued' \subseteq Queued
      /\ Queued \subseteq Queued' \cup {mem[i].line : i \in Ends(mem, sendPos, pos)}
      /\ Twice(mem', head', tail') \subseteq Twice(mem, head, tail)
      /\ tail' - sendPos' = tail - pos
      /\ \A k \in 1..(tail - pos) : mem'[sendPos' + k - 1] = mem[pos + k - 1]
    <2>1. CompleteSentLines(pos)
        BY <1>1 DEF pos
    <2> QED
        BY <1>3, <2>1, CompleteKeeps DEF DInv
<1>5. ControlType'
    BY <1>2 DEF DInv, ControlType, walVars
<1>6. /\ Part(sendPos, pos) \in Seq(Cells) /\ Len(Part(sendPos, pos)) = pos - sendPos
      /\ \A k \in 1..(pos - sendPos) : Part(sendPos, pos)[k] = mem[sendPos + k - 1]
    <2>1. Buffered /\ sendPos \in Int
        BY <1>3 DEF DInv
    <2> QED
        BY <1>3, <2>1, PartIs
<1>7. wire' \in [Connections -> Seq(Cells)] /\ part' = part
    <2>1. wire \in [Connections -> Seq(Cells)]
        BY DEF DInv, ConnectionType
    <2>2. \A c \in Connections : wire[c] \o Part(sendPos, pos) \in Seq(Cells)
        BY <1>6, <2>1, ConcatIs
    <2> QED
        BY <1>1, <1>2, <2>1, <2>2 DEF pos
<1>8. ConnectionType'
    BY <1>2, <1>7 DEF DInv, ConnectionType
<1>9. LineType'
    <2>1. lines' <= QueueLines
        <3>1. lines \in Nat /\ lines' \in Nat /\ QueueLines \in Nat
            BY <1>3, <1>4, EndsFinite, SocketAssumption DEF DInv, Buffered
        <3> QED
            BY <1>4, <3>1 DEF DInv, LineType
    <2>2. owed' \subseteq owed
        BY <1>1
    <2> QED
        BY <1>2, <2>1, <2>2, SenderTypes DEF walVars
<1>10. Standing'
    BY <1>2 DEF DInv, Standing
<1>11. sock \in Connections
    BY <1>2 DEF DInv, Standing, ConnectionType
<1>12. Part(sendPos, tail)' = Part(pos, tail)
    BY <1>4 DEF Part
<1>13. Streams'
    <2>1. \A c \in Connections \ theirs' : part'[c] = << >>
        BY <1>2 DEF DInv, Streams
    <2>2. CASE sock \notin theirs
        <3>1. \A c \in Connections : Stream(c)' = Stream(c)
            BY <2>2, <1>1, <1>2 DEF Stream
        <3> QED
            BY <2>1, <2>2, <3>1, <1>2 DEF DInv, Streams, Sending, ConnectionType
    <2>3. CASE sock \in theirs
        <3>1. /\ \A c \in Connections \ {sock} : Stream(c)' = Stream(c)
              /\ Stream(sock)' = part[sock] \o (wire[sock] \o Part(sendPos, pos))
            BY <2>3, <1>1, <1>2, <1>11 DEF DInv, ConnectionType, Stream, pos
        <3>2. part[sock] \in Seq(Cells) /\ wire[sock] \in Seq(Cells)
            BY <1>11 DEF DInv, ConnectionType
        <3>3. Stream(sock)' = Stream(sock) \o Part(sendPos, pos) /\ Stream(sock) \in Seq(Cells)
            <4>1. Stream(sock) = part[sock] \o wire[sock]
                BY DEF Stream
            <4> QED
                <5> DEFINE a == part[sock]
                           b == wire[sock]
                           c == Part(sendPos, pos)
                <5>1. a \in Seq(Cells) /\ b \in Seq(Cells) /\ c \in Seq(Cells)
                    BY <3>2, <1>6
                <5> HIDE DEF a, b, c
                <5>2. a \o (b \o c) = (a \o b) \o c /\ a \o b \in Seq(Cells)
                    <6>1. a \o b \in Seq(Cells)
                        BY <5>1, ConcatIs, Zenon
                    <6>2. a \o (b \o c) = (a \o b) \o c
                        BY <5>1, ConcatAssoc, Zenon
                    <6> QED
                        BY <6>1, <6>2
                <5> QED
                    BY <3>1, <4>1, <5>2, Zenon DEF a, b, c
        <3>4. WholeStream' = (Stream(sock) \o Part(sendPos, pos)) \o Part(pos, tail)
            BY <3>3, <1>2, <1>12 DEF WholeStream
        <3>5. WholeStream' = WholeStream
            <4>1. WholeStream = (Stream(sock) \o Part(sendPos, pos)) \o Part(pos, tail)
                <5> DEFINE a == Stream(sock)
                <5>1. a \in Seq(Cells) /\ Buffered /\ WholeStream = a \o Part(sendPos, tail)
                    BY <3>3 DEF DInv, WholeStream
                <5> HIDE DEF a
                <5>2. a \o Part(sendPos, tail) = (a \o Part(sendPos, pos)) \o Part(pos, tail)
                    <6>1. /\ sendPos \in Int /\ pos \in Int /\ head <= sendPos /\ sendPos <= pos /\ pos <= tail
                          /\ a \in Seq(Cells) /\ Buffered
                        BY <1>3, <5>1
                    <6> QED
                        BY <6>1, SplitPart, Zenon
                <5> QED
                    BY <5>1, <5>2 DEF a
            <4> QED
                BY <3>4, <4>1
        <3>6. SeqFramed(WholeStream)
            BY <2>3, <1>2 DEF DInv, Streams, Sending
        <3>7. SeqBegun(Stream(sock)')
            <4>1. SeqBegun((Stream(sock) \o Part(sendPos, pos)) \o Part(pos, tail))
                BY <3>4, <3>5, <3>6 DEF SeqFramed, SeqBegun, Framed
            <4>2. Stream(sock) \o Part(sendPos, pos) \in Seq(Cells) /\ Part(pos, tail) \in Seq(Cells)
                <5>1. tail \in Int /\ head <= pos /\ tail <= tail
                    BY <1>3
                <5>2. Part(pos, tail) \in Seq(Cells)
                    BY <1>3, <5>1, PartIs DEF DInv
                <5> QED
                    BY <3>3, <1>6, <5>2
            <4> QED
                BY <4>1, <4>2, <3>3, SeqPrefix
        <3> QED
            BY <2>1, <3>1, <3>5, <3>6, <3>7, <1>2 DEF DInv, Streams, ConnectionType
    <2> QED
        BY <2>2, <2>3
<1>14. Moves'
    BY <1>4, <1>9, MovesKept DEF DInv, walVars
<1>15. Kept'
    <2>1. Waiting' = Waiting /\ next' = next
        BY DEF Waiting, walVars
    <2>2. NewLines(sendPos, sendPos + n) = Ends(mem, sendPos, pos)
        BY DEF NewLines, Ends, pos
    <2>3. CASE sock \notin theirs
        <3>1. SentWhole' = SentWhole
            BY <2>3, <1>1 DEF SentWhole, SentOn
        <3>2. owed' = owed \ {mem[i].line : i \in Ends(mem, sendPos, pos)}
            BY <2>2, <2>3, <1>1
        <3> QED
            BY <2>1, <3>1, <3>2, <1>4 DEF DInv, Kept
    <2>4. CASE sock \in theirs
        <3> DEFINE w == wire[sock]
                   a == Part(sendPos, pos)
        <3>1. w \in Seq(Cells) /\ wire'[sock] = w \o a /\ \A c \in Connections \ {sock} : wire'[c] = wire[c]
            BY <2>4, <1>1, <1>11 DEF DInv, ConnectionType, pos
        <3> HIDE DEF w, a
        <3>2. /\ w \o a \in Seq(Cells) /\ Len(w \o a) = Len(w) + Len(a) /\ Len(w) \in Nat
              /\ \A i \in DOMAIN w : i \in DOMAIN (w \o a) /\ (w \o a)[i] = w[i]
              /\ \A i \in DOMAIN a : Len(w) + i \in DOMAIN (w \o a) /\ (w \o a)[Len(w) + i] = a[i]
            <4>1. a \in Seq(Cells)
                BY <1>6 DEF a
            <4>2. w \o a \in Seq(Cells) /\ Len(w \o a) = Len(w) + Len(a) /\ Len(w) \in Nat /\ Len(a) \in Nat
                BY <3>1, <4>1, ConcatIs
            <4>3. \A i \in 1..Len(w) : i \in 1..Len(w \o a) /\ (w \o a)[i] = w[i]
                BY <3>1, <4>1, <4>2, ConcatIs
            <4>4. \A i \in 1..Len(a) : Len(w) + i \in 1..Len(w \o a) /\ (w \o a)[Len(w) + i] = a[i]
                BY <3>1, <4>1, <4>2, ConcatIs
            <4>5. DOMAIN w = 1..Len(w) /\ DOMAIN a = 1..Len(a) /\ DOMAIN (w \o a) = 1..Len(w \o a)
                BY <3>1, <4>1, <4>2
            <4> QED
                BY <4>2, <4>3, <4>4, <4>5
        <3>3. SentOn(sock) \subseteq SentOn(sock)'
            <4>1. SentOn(sock) = {w[i].line : i \in {j \in DOMAIN w : w[j].k = 0}}
                BY DEF SentOn, w
            <4>2. SentOn(sock)' = {wire'[sock][i].line : i \in {j \in DOMAIN wire'[sock] : wire'[sock][j].k = 0}}
                BY <1>2 DEF SentOn
            <4>3. \A i \in DOMAIN w : i \in DOMAIN wire'[sock] /\ wire'[sock][i] = w[i]
                BY <3>1, <3>2
            <4> QED
                BY <4>1, <4>2, <4>3
        <3>4. ASSUME NEW i \in Ends(mem, sendPos, pos) PROVE mem[i].line \in SentOn(sock)'
            <4>1. i - sendPos + 1 \in 1..(pos - sendPos) /\ sendPos + (i - sendPos + 1) - 1 = i /\ mem[i].k = 0
                BY <1>3 DEF Ends
            <4>2. i - sendPos + 1 \in DOMAIN a /\ a[i - sendPos + 1] = mem[i]
                BY <4>1, <1>6 DEF a
            <4> DEFINE j == Len(w) + (i - sendPos + 1)
            <4>3. j \in DOMAIN wire'[sock] /\ wire'[sock][j] = mem[i]
                BY <3>1, <3>2, <4>2
            <4> HIDE DEF j
            <4> QED
                BY <4>1, <4>3, <1>2 DEF SentOn
        <3>5. SentWhole \subseteq SentWhole'
            <4>1. \A c \in Connections \ {sock} : SentOn(c)' = SentOn(c)
                BY <3>1 DEF SentOn
            <4> QED
                BY <3>3, <4>1, <1>2 DEF SentWhole
        <3>6. SentOn(sock)' \subseteq SentWhole'
            BY <1>2, <1>11 DEF SentWhole
        <3> QED
            BY <2>1, <2>4, <3>4, <3>5, <3>6, <1>1, <1>4 DEF DInv, Kept
    <2> QED
        BY <2>3, <2>4
<1> QED
    BY <1>4, <1>5, <1>8, <1>9, <1>10, <1>13, <1>14, <1>15 DEF DInv

-----------------------------------------------------------------------------
(* A line comes into the queue, or into the WAL *)

LEMMA SeqExtend ==
    ASSUME NEW s \in Seq(Cells), SeqFramed(s), NEW l \in Lines
    PROVE  SeqFramed(s \o Whole(l))
<1> DEFINE r == s \o Whole(l)
           t == Len(s) + 1
           len == Length[l]
<1>1. /\ Whole(l) \in Seq(Cells) /\ Len(Whole(l)) = len + 1 /\ len \in Nat
      /\ \A k \in 1..len : Whole(l)[k] = Text(l, k)
      /\ Whole(l)[len + 1] = NewLine(l)
    BY WholeIs, LengthType
<1>2. /\ r \in Seq(Cells) /\ Len(r) = Len(s) + (len + 1) /\ Len(s) \in Nat
      /\ \A k \in 1..Len(s) : r[k] = s[k]
      /\ \A k \in 1..(len + 1) : r[Len(s) + k] = Whole(l)[k]
    <2> DEFINE w == Whole(l)
    <2>1. w \in Seq(Cells) /\ Len(w) = len + 1
        BY <1>1
    <2> HIDE DEF w, len
    <2>2. /\ s \o w \in Seq(Cells) /\ Len(s \o w) = Len(s) + Len(w) /\ Len(s) \in Nat
          /\ \A k \in 1..Len(s) : (s \o w)[k] = s[k]
          /\ \A k \in 1..Len(w) : (s \o w)[Len(s) + k] = w[k]
        BY <2>1, ConcatIs
    <2> QED
        BY <2>1, <2>2 DEF w
<1>3. t \in Int /\ 1 \in Int /\ 1 <= t /\ t - 1 = Len(s) /\ Len(r) + 1 = t + len + 1
    <2>1. len \in Nat /\ Len(r) = Len(s) + (len + 1) /\ Len(s) \in Nat
        BY <1>1, <1>2
    <2> HIDE DEF r, len
    <2> QED
        BY <2>1
<1> HIDE DEF r
<1>4. Framed(r, 1, t)
    <2>1. \A i \in 1..(t - 1) : r[i - 1 + 1] = s[i]
        BY <1>2, <1>3
    <2>2. Begun(s, 1, t) /\ (1 < t => s[t - 1].k = 0)
        BY DEF SeqFramed, Framed
    <2>3. Begun(r, 1, 1 + t - 1)
        <3> HIDE DEF t
        <3> QED
            BY <1>3, <2>1, <2>2, Shift, Zenon
    <2>4. 1 + t - 1 = t
        BY <1>3
    <2>5. 1 < t => r[t - 1] = s[t - 1]
        BY <1>2, <1>3
    <2> QED
        BY <2>2, <2>3, <2>4, <2>5 DEF Framed
<1>5. \A k \in 1..len : r[t + k - 1] = Text(l, k)
    <2> SUFFICES ASSUME NEW k \in 1..len PROVE r[t + k - 1] = Text(l, k)
        OBVIOUS
    <2>1. t + k - 1 = Len(s) + k /\ k \in 1..(len + 1)
        <3>1. t \in Int /\ t - 1 = Len(s) /\ len \in Nat
            BY <1>1, <1>3
        <3> QED
            BY <3>1
    <2> QED
        BY <2>1, <1>1, <1>2
<1>6. r[t + len] = NewLine(l)
    <2>1. t + len = Len(s) + (len + 1) /\ len + 1 \in 1..(len + 1)
        BY <1>1, <1>2
    <2> QED
        BY <2>1, <1>1, <1>2
<1>7. Framed(r, 1, t + len + 1)
    <2> HIDE DEF t
    <2> QED
        BY <1>3, <1>4, <1>5, <1>6, Extend
<1> QED
    BY <1>3, <1>7 DEF SeqFramed, r

LEMMA StreamsEnqueue ==
    ASSUME DInv, NEW l \in Lines, HasRoom(l), Enqueue(l), pc # "spill",
           UNCHANGED <<state, sock, connections>>
    PROVE  Streams'
<1>1. /\ tail' - sendPos' = tail - sendPos + Length[l] + 1
      /\ \A k \in 1..(tail - sendPos) : mem'[sendPos' + k - 1] = mem[sendPos + k - 1]
      /\ \A k \in 1..(Length[l] + 1) : mem'[sendPos' + (tail - sendPos) + k - 1] = Whole(l)[k]
      /\ Buffered'
    BY EnqueueKeeps DEF DInv
<1> DEFINE p == Part(sendPos, tail)
           w == Whole(l)
           n == tail - sendPos
           len == Length[l] + 1
<1>2. /\ sendPos \in Int /\ tail \in Int /\ head <= sendPos /\ sendPos <= tail /\ tail <= tail
      /\ sendPos' \in Int /\ tail' \in Int
    BY <1>1 DEF DInv, Buffered
<1>3. p \in Seq(Cells) /\ Len(p) = n /\ \A k \in 1..n : p[k] = mem[sendPos + k - 1]
    BY <1>2, PartIs DEF DInv
<1>4. w \in Seq(Cells) /\ Len(w) = len /\ len \in Nat
    BY WholeIs, LengthType
<1>5. Part(sendPos, tail)' = [k \in 1..(n + len) |-> mem'[sendPos' + k - 1]]
    <2>1. tail' - sendPos' = n + len
        BY <1>1, <1>2, LengthType
    <2> QED
        BY <2>1 DEF Part
<1> HIDE DEF p, w, len
<1>6. /\ p \o w \in Seq(Cells) /\ Len(p \o w) = n + len
      /\ \A k \in 1..n : (p \o w)[k] = p[k]
      /\ \A k \in 1..len : (p \o w)[n + k] = w[k]
    <2>1. /\ p \o w \in Seq(Cells) /\ Len(p \o w) = Len(p) + Len(w)
          /\ \A k \in 1..Len(p) : (p \o w)[k] = p[k]
          /\ \A k \in 1..Len(w) : (p \o w)[Len(p) + k] = w[k]
        BY <1>3, <1>4, ConcatIs
    <2> HIDE DEF n
    <2> QED
        BY <2>1, <1>3, <1>4
<1>7. \A k \in 1..(n + len) : mem'[sendPos' + k - 1] = (p \o w)[k]
    <2> SUFFICES ASSUME NEW k \in 1..(n + len) PROVE mem'[sendPos' + k - 1] = (p \o w)[k]
        OBVIOUS
    <2>1. CASE k <= n
        <3>1. k \in 1..n
            BY <2>1, <1>2
        <3> QED
            BY <3>1, <1>1, <1>3, <1>6
    <2>2. CASE k > n
        <3> DEFINE j == k - n
        <3>1. j \in 1..len /\ n + j = k /\ sendPos' + (tail - sendPos) + j - 1 = sendPos' + k - 1
            BY <2>2, <1>2, <1>4
        <3> HIDE DEF j
        <3>2. mem'[sendPos' + k - 1] = w[j]
            BY <3>1, <1>1 DEF len, w
        <3> QED
            BY <3>1, <3>2, <1>6
    <2> QED
        <3>1. k <= n \/ k > n
            BY <1>2, <1>4
        <3> QED
            BY <3>1, <2>1, <2>2, Zenon
<1>8. Part(sendPos, tail)' = p \o w
    <2> DEFINE q == p \o w
    <2>0. q \in Seq(Cells) /\ Len(q) = n + len
        BY <1>6
    <2> HIDE DEF q, n
    <2>1. q = [k \in 1..(n + len) |-> q[k]]
        <3>1. q = [k \in 1..Len(q) |-> q[k]]
            BY <2>0
        <3> QED
            BY <2>0, <3>1
    <2>2. [k \in 1..(n + len) |-> mem'[sendPos' + k - 1]] = [k \in 1..(n + len) |-> q[k]]
        BY <1>7 DEF q
    <2> QED
        BY <1>5, <2>1, <2>2 DEF q
<1>9. \A c \in Connections : Stream(c)' = Stream(c)
    BY DEF Stream, connections
<1>10. ASSUME Sending' PROVE SeqFramed(WholeStream')
    <2>1. Sending /\ sock \in Connections
        BY <1>10 DEF Sending, connections, DInv, ConnectionType
    <2>2. SeqFramed(WholeStream)
        BY <2>1 DEF DInv, Streams
    <2> DEFINE a == Stream(sock)
    <2>3. a \in Seq(Cells)
        <3>1. part[sock] \in Seq(Cells) /\ wire[sock] \in Seq(Cells)
            BY <2>1 DEF DInv, ConnectionType
        <3> QED
            BY <3>1, ConcatIs DEF Stream
    <2>4. WholeStream = a \o p /\ WholeStream' = a \o (p \o w)
        BY <1>8, <1>9, <2>1 DEF WholeStream, p, connections
    <2> HIDE DEF a
    <2>5. a \o p \in Seq(Cells) /\ a \o (p \o w) = (a \o p) \o w
        BY <2>3, <1>3, <1>4, ConcatIs, ConcatAssoc
    <2>6. SeqFramed((a \o p) \o w)
        BY <2>2, <2>4, <2>5, SeqExtend DEF w
    <2> QED
        BY <2>4, <2>5, <2>6, Zenon
<1> QED
    BY <1>9, <1>10 DEF DInv, Streams, connections, ConnectionType

LEMMA WaitingAppend ==
    ASSUME LineType, NEW l \in Lines, WalAppend(l)
    PROVE  /\ records' \in Seq(Lines) /\ position' \in 0..Len(records')
           /\ In(records') = In(records) \cup {l}
           /\ Waiting' = Waiting \cup {l}
<1> DEFINE n == Len(records)
<1>1. records' = Append(records, l) /\ position' = position
    BY DEF WalAppend
<1>2. records \in Seq(Lines) /\ n \in Nat /\ position \in 0..n
    BY DEF LineType
<1>3. /\ records' \in Seq(Lines) /\ Len(records') = n + 1
      /\ \A i \in 1..n : records'[i] = records[i]
      /\ records'[n + 1] = l
    BY <1>1, <1>2
<1>4. DOMAIN records = 1..n /\ DOMAIN records' = 1..(n + 1)
    BY <1>2, <1>3
<1>5. 1..(n + 1) = 1..n \cup {n + 1} /\ (position + 1)..(n + 1) = (position + 1)..n \cup {n + 1}
    BY <1>2
<1>6. In(records') = In(records) \cup {l}
    BY <1>3, <1>4, <1>5 DEF In
<1>7. Waiting' = Waiting \cup {l}
    <2>1. \A i \in (position + 1)..n : records'[i] = records[i]
        BY <1>2, <1>3
    <2>2. Waiting' = {records'[i] : i \in (position + 1)..n \cup {n + 1}}
        BY <1>1, <1>3, <1>5 DEF Waiting
    <2> QED
        BY <2>1, <2>2, <1>3 DEF Waiting
<1> QED
    BY <1>1, <1>2, <1>3, <1>6, <1>7

LEMMA LinesCount ==
    ASSUME Buffered
    PROVE  lines \in Nat /\ IsFiniteSet(Queued) /\ Cardinality(Queued) <= lines
<1> DEFINE S == Ends(mem, head, tail)
           f == [i \in S |-> mem[i].line]
<1>1. IsFiniteSet(S) /\ Cardinality(S) \in Nat /\ lines = Cardinality(S)
    BY EndsFinite DEF Buffered
<1> HIDE DEF S
<1>2. f \in Surjection(S, Queued)
    <2>1. Queued = {mem[i].line : i \in S}
        BY QueuedIs DEF S
    <2> QED
        BY <2>1 DEF Surjection
<1>3. IsFiniteSet(Queued) /\ Cardinality(Queued) <= Cardinality(S)
    BY <1>1, <1>2, FS_Surjection
<1> QED
    BY <1>1, <1>3

LEMMA SendQueuesKeeps ==
    ASSUME DInv, Send, SendQueues(last')
    PROVE  DInv'
<1> DEFINE l == last'
<1>1. /\ pc = "idle" /\ l = last + 1 /\ l \in Lines /\ pc' = "pump" /\ then' = "drain"
      /\ UNCHANGED <<state, due, sock, connections, received, moved, next>>
    BY DEF Send, CallPump
<1>2. HasRoom(l) /\ Enqueue(l) /\ owed' = owed \cup {l} /\ UNCHANGED <<walVars, history>>
    BY DEF SendQueues, FastPath
<1> HIDE DEF l
<1>3. /\ Buffered' /\ lines' = lines + 1
      /\ Queued' = Queued \cup {l}
      /\ Twice(mem', head', tail') \subseteq Twice(mem, head, tail) \cup (Queued \cap {l})
      /\ head = sendPos => head' = sendPos'
    BY <1>1, <1>2, EnqueueKeeps DEF DInv
<1>4. ControlType'
    BY <1>1, <1>2 DEF DInv, ControlType, Places, Returns, walVars
<1>5. ConnectionType'
    BY <1>1 DEF DInv, ConnectionType, connections
<1>6. last \in Nat /\ l \in Nat /\ l > last /\ l <= l
    <2>1. last \in Nat
        BY LengthType DEF DInv, LineType
    <2> QED
        BY <1>1, <2>1
<1>7. LineType'
    <2>1. lines' <= QueueLines
        <3>1. lines \in Nat /\ lines < QueueLines /\ QueueLines \in Nat
            BY <1>2, LinesCount, SocketAssumption DEF DInv, HasRoom
        <3> QED
            BY <1>3, <3>1
    <2>2. last' \in Lines
        BY <1>1 DEF l
    <2> QED
        BY <1>1, <1>2, <2>1, <2>2 DEF DInv, LineType, walVars, history
<1>8. Standing'
    BY <1>1, <1>3 DEF DInv, Standing, connections
<1>9. Streams'
    <2>1. pc # "spill"
        BY <1>1
    <2> QED
        BY <1>1, <1>2, <2>1, StreamsEnqueue
<1>10. l \notin Queued \cup spilled /\ \A x \in Queued \cup spilled : x <= l
    <2>1. \A x \in Queued \cup spilled : x <= last /\ x \in Nat
        BY QueuedType, LengthType DEF DInv, Moves, LineType
    <2> QED
        BY <1>6, <2>1
<1>11. Moves'
    <2>1. \A x \in Queued' \cup spilled' : x <= last'
        <3>1. Queued' \cup spilled' \subseteq Queued \cup spilled \cup {l} /\ last' = l
            BY <1>2, <1>3 DEF history, l
        <3> QED
            BY <3>1, <1>6, <1>10
    <2>2. In(records') \subseteq spilled'
        BY <1>2 DEF DInv, Moves, walVars, history
    <2>3. Twice(mem', head', tail') \subseteq spilled'
        BY <1>2, <1>3, <1>10 DEF DInv, Moves, history
    <2>4. (Queued' \cup {next'}) \cap spilled' = (Queued \cup {next}) \cap spilled
        BY <1>1, <1>2, <1>3, <1>10 DEF history
    <2> QED
        BY <2>1, <2>2, <2>3, <2>4 DEF DInv, Moves, FewAreMoved, In
<1>12. Kept'
    <2>1. SentWhole' = SentWhole /\ Waiting' = Waiting
        BY <1>1, <1>2 DEF SentWhole, SentOn, Waiting, connections, walVars
    <2> QED
        BY <1>1, <1>2, <1>3, <2>1 DEF DInv, Kept
<1> QED
    BY <1>3, <1>4, <1>5, <1>7, <1>8, <1>9, <1>11, <1>12 DEF DInv

\* The line goes into the WAL, or nowhere
LEMMA SendOtherKeeps ==
    ASSUME DInv, Send, SendSpills(last') \/ SendRefuses(last')
    PROVE  DInv'
<1> DEFINE l == last'
<1>1. /\ pc = "idle" /\ l = last + 1 /\ l \in Lines /\ pc' = "pump" /\ then' = "drain"
      /\ UNCHANGED <<state, due, sock, connections, received, moved, next>>
    BY DEF Send, CallPump
<1>2. UNCHANGED <<buffer, hasWal, position, late>>
    BY DEF SendSpills, SendRefuses, WalAppend, walVars, history
<1>3. \/ WalAppend(l) /\ owed' = owed \cup {l} /\ spilled' = spilled \cup {l}
      \/ UNCHANGED <<owed, spilled, records>>
    BY DEF SendSpills, SendRefuses, WalAppend, walVars, history
<1> HIDE DEF l
<1>4. last \in Nat /\ l \in Nat /\ l > last /\ l <= l
    <2>1. last \in Nat
        BY LengthType DEF DInv, LineType
    <2> QED
        BY <1>1, <2>1
<1>5. /\ records' \in Seq(Lines) /\ position' \in 0..Len(records')
      /\ \/ owed' = owed \cup {l} /\ spilled' = spilled \cup {l}
            /\ In(records') = In(records) \cup {l} /\ Waiting' = Waiting \cup {l}
         \/ owed' = owed /\ spilled' = spilled /\ In(records') = In(records) /\ Waiting' = Waiting
    <2>1. CASE WalAppend(l) /\ owed' = owed \cup {l} /\ spilled' = spilled \cup {l}
        BY <2>1, <1>1, WaitingAppend DEF DInv
    <2>2. CASE UNCHANGED <<owed, spilled, records>>
        BY <2>2, <1>2 DEF DInv, LineType, Waiting
    <2> QED
        BY <1>3, <2>1, <2>2
<1>6. ControlType'
    BY <1>1, <1>2 DEF DInv, ControlType, Places, Returns
<1>7. ConnectionType'
    BY <1>1 DEF DInv, ConnectionType, connections
<1>8. LineType'
    <2>1. last' \in Lines /\ lines' = lines
        BY <1>1, <1>2 DEF l, buffer
    <2> QED
        BY <1>1, <1>2, <1>5, <2>1 DEF DInv, LineType
<1>9. Buffered'
    BY <1>2 DEF DInv, Buffered, buffer
<1>10. Standing'
    BY <1>1, <1>2 DEF DInv, Standing, connections, buffer
<1>11. Streams'
    <2>1. Part(sendPos, tail)' = Part(sendPos, tail)
        BY <1>2 DEF Part, buffer
    <2>2. WholeStream' = WholeStream /\ \A c \in Connections : Stream(c)' = Stream(c)
        BY <1>1, <2>1 DEF WholeStream, Stream, connections
    <2>3. Sending' => Sending
        BY <1>1 DEF Sending, connections
    <2> QED
        BY <1>1, <2>2, <2>3 DEF DInv, Streams, connections, ConnectionType
<1>12. Queued' = Queued /\ Twice(mem', head', tail') = Twice(mem, head, tail)
    BY <1>2 DEF Queued, NewLines, buffer
<1>13. l \notin Queued \cup {next} /\ \A x \in Queued \cup spilled : x <= l
    <2>1. \A x \in Queued \cup spilled : x <= last /\ x \in Nat
        BY QueuedType, LengthType DEF DInv, Moves, LineType
    <2>2. next = NoLine
        BY <1>1 DEF DInv, Standing
    <2> QED
        BY <1>1, <1>4, <2>1, <2>2, LengthType
<1>14. Moves'
    <2>1. \A x \in Queued' \cup spilled' : x <= last'
        <3>1. Queued' \cup spilled' \subseteq Queued \cup spilled \cup {l} /\ last' = l
            BY <1>5, <1>12 DEF l
        <3> QED
            BY <3>1, <1>4, <1>13
    <2>2. In(records') \subseteq spilled'
        BY <1>5 DEF DInv, Moves
    <2>3. Twice(mem', head', tail') \subseteq spilled'
        BY <1>5, <1>12 DEF DInv, Moves
    <2>4. (Queued' \cup {next'}) \cap spilled' = (Queued \cup {next}) \cap spilled
        BY <1>1, <1>5, <1>12, <1>13
    <2> QED
        BY <2>1, <2>2, <2>3, <2>4 DEF DInv, Moves, FewAreMoved, In
<1>15. Kept'
    <2>1. SentWhole' = SentWhole
        BY <1>1 DEF SentWhole, SentOn, connections
    <2> QED
        BY <1>1, <1>5, <1>12, <2>1 DEF DInv, Kept
<1> QED
    BY <1>6, <1>7, <1>8, <1>9, <1>10, <1>11, <1>14, <1>15 DEF DInv

-----------------------------------------------------------------------------
(* The queue is filled from the WAL *)

LEMMA TakeKeeps ==
    ASSUME DInv, Take
    PROVE  DInv'
<1> DEFINE l == records[position + 1]
<1>1. /\ pc = "take" /\ moved < DrainMax /\ lines < LowWater /\ position < Len(records)
      /\ HasRoom(l) /\ next' = l /\ pc' = "put" /\ WalAck
      /\ UNCHANGED <<state, due, sock, connections, received, owed, last, then, buffer, moved, spilled, late>>
    BY DEF Take, MayTake, IsReplayPending, Control, history
<1>2. records \in Seq(Lines) /\ position \in Nat /\ position + 1 \in 1..Len(records)
    BY <1>1 DEF DInv, LineType
<1>3. l \in Lines /\ l \in In(records)
    BY <1>2 DEF In
<1> HIDE DEF l
<1>4. /\ records' \in Seq(Lines) /\ position' \in 0..Len(records')
      /\ In(records') \subseteq In(records) /\ Waiting \subseteq Waiting' \cup {l} /\ hasWal' = hasWal
    <2>1. CASE position + 1 = Len(records)
        <3>1. records' = << >> /\ position' = 0 /\ hasWal' = hasWal
            BY <1>1, <2>1 DEF WalAck
        <3>2. (position + 1)..Len(records) = {position + 1}
            BY <1>2, <2>1
        <3>3. Waiting = {l}
            BY <3>2 DEF Waiting, l
        <3> QED
            BY <3>1, <3>3 DEF In
    <2>2. CASE position + 1 # Len(records)
        <3>1. records' = records /\ position' = position + 1 /\ hasWal' = hasWal
            BY <1>1, <2>2 DEF WalAck
        <3>2. (position + 1)..Len(records) = {position + 1} \cup (position + 1 + 1)..Len(records)
            BY <1>2
        <3>3. Waiting \subseteq Waiting' \cup {l}
            BY <3>1, <3>2 DEF Waiting, l
        <3> QED
            BY <1>2, <3>1, <3>3 DEF In
    <2> QED
        BY <2>1, <2>2
<1>5. ControlType'
    BY <1>1, <1>4 DEF DInv, ControlType, Places
<1>6. ConnectionType'
    BY <1>1 DEF DInv, ConnectionType, connections
<1>7. LineType'
    <2>1. lines' <= QueueLines
        BY <1>1 DEF DInv, LineType, buffer
    <2> QED
        BY <1>1, <1>3, <1>4, <2>1 DEF DInv, LineType
<1>8. Buffered'
    BY <1>1 DEF DInv, Buffered, buffer
<1>9. next = NoLine /\ l # NoLine /\ l \in spilled
    BY <1>1, <1>3, LengthType DEF DInv, Standing, Moves
<1>10. Standing'
    <2>1. HasRoom(next)'
        BY <1>1 DEF HasRoom, buffer
    <2> QED
        BY <1>1, <1>9, <2>1 DEF DInv, Standing, buffer, connections, HasRoom
<1>11. Streams'
    <2>1. Part(sendPos, tail)' = Part(sendPos, tail)
        BY <1>1 DEF Part, buffer
    <2>2. WholeStream' = WholeStream /\ \A c \in Connections : Stream(c)' = Stream(c)
        BY <1>1, <2>1 DEF WholeStream, Stream, connections
    <2>3. Sending' => Sending
        BY <1>1 DEF Sending, connections
    <2> QED
        BY <1>1, <2>2, <2>3 DEF DInv, Streams, connections, ConnectionType
<1>12. Queued' = Queued /\ Twice(mem', head', tail') = Twice(mem, head, tail)
    BY <1>1 DEF Queued, NewLines, buffer
<1>13. Cardinality((Queued' \cup {next'}) \cap spilled') <= LowWater
    <2>1. IsFiniteSet(Queued) /\ Cardinality(Queued) \in Nat /\ lines \in Nat /\ Cardinality(Queued) <= lines
        BY LinesCount, FS_CardinalityType DEF DInv
    <2>2. Cardinality(Queued \cup {l}) <= LowWater
        <3>1. Cardinality(Queued \cup {l}) <= Cardinality(Queued) + 1
            BY <2>1, FS_AddElement
        <3>2. Cardinality(Queued \cup {l}) \in Nat
            BY <2>1, FS_AddElement, FS_CardinalityType
        <3> QED
            BY <1>1, <2>1, <3>1, <3>2, DurableAssumption
    <2>3. Queued \cup {l} \subseteq Lines
        BY <1>3, QueuedType DEF DInv
    <2>4. (Queued' \cup {next'}) \cap spilled' \subseteq Queued \cup {l}
        BY <1>1, <1>12
    <2> QED
        BY <2>2, <2>3, <2>4, FewFinite
<1>14. Moves'
    <2>1. \A x \in Queued' \cup spilled' : x <= last'
        BY <1>1, <1>12 DEF DInv, Moves
    <2>2. In(records') \subseteq spilled'
        BY <1>1, <1>4 DEF DInv, Moves
    <2>3. Twice(mem', head', tail') \subseteq spilled'
        BY <1>1, <1>12 DEF DInv, Moves
    <2> QED
        BY <1>13, <2>1, <2>2, <2>3 DEF Moves, FewAreMoved, In
<1>15. Kept'
    <2>1. SentWhole' = SentWhole
        BY <1>1 DEF SentWhole, SentOn, connections
    <2>2. NoLine \notin owed
        BY LengthType DEF DInv, LineType
    <2> QED
        BY <1>1, <1>4, <1>9, <1>12, <2>1, <2>2 DEF DInv, Kept
<1> QED
    BY <1>5, <1>6, <1>7, <1>8, <1>10, <1>11, <1>14, <1>15 DEF DInv

LEMMA PutKeeps ==
    ASSUME DInv, Put
    PROVE  DInv'
<1> DEFINE l == next
<1>1. /\ pc = "put" /\ Enqueue(l) /\ next' = NoLine /\ moved' = moved + 1 /\ pc' = "take"
      /\ UNCHANGED <<state, due, sock, connections, received, owed, last, then, hasWal, records, position, spilled, late>>
    BY DEF Put, Control, walVars, history
<1>2. l # NoLine /\ HasRoom(l) /\ moved < DrainMax /\ l \in spilled /\ l \in Lines
    BY <1>1 DEF DInv, Standing, LineType
<1> HIDE DEF l
<1>3. /\ Buffered' /\ lines' = lines + 1
      /\ Queued' = Queued \cup {l}
      /\ Twice(mem', head', tail') \subseteq Twice(mem, head, tail) \cup (Queued \cap {l})
      /\ head = sendPos => head' = sendPos'
    BY <1>1, <1>2, EnqueueKeeps DEF DInv
<1>4. ControlType'
    <2>1. moved' \in 0..DrainMax
        BY <1>1, <1>2, DurableAssumption DEF DInv, ControlType
    <2> QED
        BY <1>1, <2>1 DEF DInv, ControlType, Places
<1>5. ConnectionType'
    BY <1>1 DEF DInv, ConnectionType, connections
<1>6. LineType'
    <2>1. lines' <= QueueLines
        <3>1. lines \in Nat /\ lines < QueueLines /\ QueueLines \in Nat
            BY <1>2, LinesCount, SocketAssumption DEF DInv, HasRoom
        <3> QED
            BY <1>3, <3>1
    <2> QED
        BY <1>1, <2>1 DEF DInv, LineType
<1>7. Standing'
    BY <1>1, <1>3 DEF DInv, Standing, connections
<1>8. Streams'
    <2>1. pc # "spill"
        BY <1>1
    <2> QED
        BY <1>1, <1>2, <2>1, StreamsEnqueue
<1>9. Moves'
    <2>1. \A x \in Queued' \cup spilled' : x <= last'
        BY <1>1, <1>2, <1>3 DEF DInv, Moves
    <2>2. In(records') \subseteq spilled'
        BY <1>1 DEF DInv, Moves
    <2>3. Twice(mem', head', tail') \subseteq spilled'
        BY <1>1, <1>2, <1>3 DEF DInv, Moves
    <2>4. (Queued' \cup {next'}) \cap spilled' = (Queued \cup {next}) \cap spilled
        <3>1. NoLine \notin spilled
            BY LengthType DEF DInv, LineType
        <3> QED
            BY <1>1, <1>3, <3>1 DEF l
    <2> QED
        BY <2>1, <2>2, <2>3, <2>4 DEF DInv, Moves, FewAreMoved, In
<1>10. Kept'
    <2>1. SentWhole' = SentWhole /\ Waiting' = Waiting
        BY <1>1 DEF SentWhole, SentOn, Waiting, connections
    <2> QED
        BY <1>1, <1>3, <2>1 DEF DInv, Kept, l
<1> QED
    BY <1>3, <1>4, <1>5, <1>6, <1>7, <1>8, <1>9, <1>10 DEF DInv

-----------------------------------------------------------------------------
(* The end of a run *)

LEMMA SpillKeeps ==
    ASSUME DInv, Spill
    PROVE  DInv'
<1> DEFINE l == Unsent
<1>1. /\ pc = "spill" /\ lines > 0 /\ WalAppend(l) /\ DropUnsent
      /\ late' \subseteq late \cup {l}
      /\ UNCHANGED <<state, due, sock, connections, received, owed, last, pc, then, moved, next>>
      /\ spilled' = spilled \cup {l} /\ hasWal' = hasWal
    BY DEF Spill, HasUnsent, Control, WalAppend
<1>2. /\ Buffered' /\ lines' = lines - 1
      /\ l \in Queued
      /\ Queued' \subseteq Queued /\ Queued \subseteq Queued' \cup {l}
      /\ l \in Queued' => l \in Twice(mem, head, tail)
      /\ Twice(mem', head', tail') \subseteq Twice(mem, head, tail)
      /\ head = sendPos => head' = sendPos'
    BY <1>1, DropKeeps DEF DInv
<1> HIDE DEF l
<1>3. l \in Lines
    BY <1>2, QueuedType DEF DInv
<1>4. /\ records' \in Seq(Lines) /\ position' \in 0..Len(records')
      /\ In(records') = In(records) \cup {l} /\ Waiting' = Waiting \cup {l}
    BY <1>1, <1>3, WaitingAppend DEF DInv
<1>5. ControlType' /\ ConnectionType'
    BY <1>1 DEF DInv, ControlType, ConnectionType, connections
<1>6. LineType'
    <2>1. lines' <= QueueLines
        <3>1. lines \in Nat /\ QueueLines \in Nat /\ lines <= QueueLines
            BY LinesCount, SocketAssumption DEF DInv, LineType
        <3> QED
            BY <1>2, <3>1
    <2> QED
        BY <1>1, <1>3, <1>4, <2>1 DEF DInv, LineType
<1>7. Standing'
    BY <1>1, <1>2 DEF DInv, Standing, connections
<1>8. Streams'
    <2>1. \A c \in Connections : Stream(c)' = Stream(c)
        BY <1>1 DEF Stream, connections
    <2> QED
        BY <1>1, <2>1 DEF DInv, Streams, Sending, connections, ConnectionType
<1>9. next = NoLine /\ l # NoLine
    BY <1>1, <1>3, LengthType DEF DInv, Standing
<1>10. Moves'
    <2>1. \A x \in Queued' \cup spilled' : x <= last'
        BY <1>1, <1>2 DEF DInv, Moves
    <2>2. In(records') \subseteq spilled'
        BY <1>1, <1>4 DEF DInv, Moves
    <2>3. Twice(mem', head', tail') \subseteq spilled'
        BY <1>1, <1>2 DEF DInv, Moves
    <2>4. (Queued' \cup {next'}) \cap spilled' \subseteq (Queued \cup {next}) \cap spilled
        BY <1>1, <1>2, <1>9 DEF DInv, Moves
    <2>5. (Queued \cup {next}) \cap spilled \subseteq Lines
        BY DEF DInv, LineType
    <2>6. Cardinality((Queued \cup {next}) \cap spilled) <= LowWater
        BY DEF DInv, Moves, FewAreMoved
    <2>7. Cardinality((Queued' \cup {next'}) \cap spilled') <= LowWater
        BY <2>4, <2>5, <2>6, FewFinite
    <2> QED
        BY <2>1, <2>2, <2>3, <2>7 DEF Moves, FewAreMoved, In
<1>11. Kept'
    <2>1. SentWhole' = SentWhole
        BY <1>1 DEF SentWhole, SentOn, connections
    <2> QED
        BY <1>1, <1>2, <1>4, <2>1 DEF DInv, Kept
<1> QED
    BY <1>2, <1>5, <1>6, <1>7, <1>8, <1>10, <1>11 DEF DInv

LEMMA EndRunKeeps ==
    ASSUME DInv, EndRun, records' = records, position' \in 0..Len(records), Waiting \subseteq Waiting',
           owed' \subseteq owed, owed' \subseteq SentWhole \cup Waiting
    PROVE  DInv'
<1>1. /\ CloseSocket /\ state' = "disconnected" /\ due' = TRUE
      /\ mem' = NoMemory /\ head' = 0 /\ sendPos' = 0 /\ tail' = 0 /\ lines' = 0
      /\ moved' = 0 /\ next' = NoLine
      /\ pc' = "down" /\ then' = "idle" /\ hasWal' = FALSE
      /\ spilled' = spilled \cap In(records)
      /\ UNCHANGED <<theirs, wire, part, received, last, late>>
    BY DEF EndRun
<1>2. ControlType'
    <2>1. moved' \in 0..DrainMax
        BY <1>1, DurableAssumption
    <2>2. state' \in States /\ pc' \in Places /\ then' \in Returns
        BY <1>1 DEF States, Places, Returns
    <2> QED
        BY <1>1, <2>1, <2>2 DEF ControlType
<1>3. ConnectionType'
    BY <1>1 DEF DInv, ConnectionType, CloseSocket
<1>4. LineType'
    BY <1>1, SocketAssumption DEF DInv, LineType
<1>5. /\ Ends(mem', 0, 0) = {} /\ Framed(mem', 0, 0)
    BY DEF Ends, Framed, Begun
<1>6. Buffered'
    <2>1. mem' \in [0..(QueueBytes - 1) -> Cells \cup {Free}] /\ \A i \in 0..(QueueBytes - 1) : mem'[i] = Free
        BY <1>1 DEF NoMemory
    <2>2. \A i \in 0..(QueueBytes - 1) : ~(head' <= i /\ i < tail')
        BY <1>1
    <2>3. lines' = Cardinality(Ends(mem', head', tail'))
        BY <1>1, <1>5, FS_EmptySet
    <2>4. /\ head' \in Nat /\ sendPos' \in Nat /\ tail' \in Nat
          /\ head' <= sendPos' /\ sendPos' <= tail' /\ tail' <= QueueBytes
        BY <1>1, SocketAssumption
    <2>5. \A i \in 0..(QueueBytes - 1) : mem'[i] # Free <=> head' <= i /\ i < tail'
        BY <2>1, <2>2
    <2> QED
        BY <1>1, <1>5, <2>1, <2>3, <2>4, <2>5 DEF Buffered
<1>7. Standing'
    BY <1>1 DEF Standing
<1>8. Streams'
    <2>1. \A c \in Connections : Stream(c)' = Stream(c)
        BY <1>1 DEF Stream
    <2> QED
        BY <1>1, <2>1 DEF DInv, Streams, Sending, ConnectionType
<1>9. Queued' = {} /\ Twice(mem', head', tail') = {}
    BY <1>1, <1>5, QueuedIs, TwiceQueued
<1>10. Moves'
    <2>1. \A x \in Queued' \cup spilled' : x <= last'
        BY <1>1, <1>9 DEF DInv, Moves
    <2>2. In(records') \subseteq spilled'
        BY <1>1 DEF DInv, Moves
    <2>3. (Queued' \cup {next'}) \cap spilled' = {}
        <3>1. NoLine \notin spilled
            BY LengthType DEF DInv, LineType
        <3> QED
            BY <1>1, <1>9, <3>1
    <2>4. Cardinality((Queued' \cup {next'}) \cap spilled') <= LowWater
        BY <2>3, FS_EmptySet, DurableAssumption
    <2> QED
        BY <1>9, <2>1, <2>2, <2>4 DEF Moves, FewAreMoved, In
<1>11. Kept'
    <2>1. SentWhole' = SentWhole
        BY <1>1 DEF SentWhole, SentOn
    <2> QED
        BY <2>1 DEF Kept
<1> QED
    BY <1>2, <1>3, <1>4, <1>6, <1>7, <1>8, <1>10, <1>11 DEF DInv

LEMMA CloseKeeps ==
    ASSUME DInv, CloseFlushed \/ CloseLoses
    PROVE  DInv'
<1>1. pc # "put" /\ EndRun /\ records' = records /\ position' = position
    BY DEF CloseFlushed, CloseLoses
<1>2. next = NoLine /\ NoLine \notin owed
    BY <1>1, LengthType DEF DInv, Standing, LineType
<1>3. Waiting' = Waiting /\ position' \in 0..Len(records)
    BY <1>1 DEF Waiting, DInv, LineType
<1>4. CASE CloseFlushed
    <2>1. owed' = owed /\ lines = 0
        BY <1>4, LinesCount DEF CloseFlushed, HasUnsent, DInv
    <2>2. Queued = {}
        <3>1. head \in Int /\ tail \in Int /\ lines = Cardinality(Ends(mem, head, tail))
            BY DEF DInv, Buffered
        <3>2. Ends(mem, head, tail) = {}
            BY <2>1, <3>1, EndsFinite, FS_EmptySet
        <3> QED
            BY <3>2, QueuedIs
    <2> QED
        BY <1>1, <1>2, <1>3, <2>1, <2>2, EndRunKeeps DEF DInv, Kept
<1>5. CASE CloseLoses
    <2>1. owed' = owed \ Queued
        BY <1>5 DEF CloseLoses
    <2> QED
        BY <1>1, <1>2, <1>3, <2>1, EndRunKeeps DEF DInv, Kept
<1> QED
    BY <1>4, <1>5

LEMMA CrashKeeps ==
    ASSUME DInv, Crash
    PROVE  DInv'
<1>1. EndRun /\ records' = records /\ position' \in {0, position} /\ owed' = owed \ (Queued \cup {next})
    BY DEF Crash
<1>2. position' \in 0..Len(records) /\ position' \in Nat /\ position \in Nat /\ position' <= position
    BY <1>1 DEF DInv, LineType
<1>3. Waiting \subseteq Waiting'
    BY <1>1, <1>2 DEF Waiting
<1> QED
    BY <1>1, <1>2, <1>3, EndRunKeeps DEF DInv, Kept

-----------------------------------------------------------------------------
(* The forwarder *)

LEMMA ForwarderTypes ==
    ASSUME DInv, late' = late \cap owed', received' \subseteq Lines, owed' \subseteq owed,
           UNCHANGED <<walVars, moved, next, last, spilled, state, due, sock, buffer, ours, pc, then>>
    PROVE  /\ ControlType' /\ LineType' /\ Buffered' /\ Standing' /\ Moves'
           /\ Queued' = Queued /\ Waiting' = Waiting /\ next' = next
           /\ Part(sendPos, tail)' = Part(sendPos, tail)
<1> USE DEF walVars, buffer
<1>1. ControlType'
    BY DEF DInv, ControlType
<1>2. LineType'
    BY DEF DInv, LineType
<1>3. Buffered'
    BY DEF DInv, Buffered
<1>4. Standing'
    BY DEF DInv, Standing, HasRoom
<1>5. Queued' = Queued /\ Waiting' = Waiting /\ Part(sendPos, tail)' = Part(sendPos, tail)
    BY DEF Queued, NewLines, Waiting, Part
<1>6. Moves'
    <2>1. Twice(mem', head', tail') = Twice(mem, head, tail)
        OBVIOUS
    <2> QED
        BY <1>2, <1>5, <2>1, MovesKept DEF DInv
<1> QED
    BY <1>1, <1>2, <1>3, <1>4, <1>5, <1>6

\* A connection of which the forwarder does not read the end, or has read it
LEMMA ForgetKeeps ==
    ASSUME DInv, NEW c \in theirs, late' = late \cap owed', received' \subseteq Lines,
           owed' \subseteq owed, owed' \cap SentOn(c) = {} \/ wire[c] = << >>,
           theirs' = theirs \ {c}, wire' = [wire EXCEPT ![c] = << >>], part' = [part EXCEPT ![c] = << >>],
           UNCHANGED <<walVars, moved, next, last, spilled, state, due, sock, buffer, ours, pc, then>>
    PROVE  DInv'
<1>1. /\ ControlType' /\ LineType' /\ Buffered' /\ Standing' /\ Moves'
      /\ Queued' = Queued /\ Waiting' = Waiting /\ next' = next
      /\ Part(sendPos, tail)' = Part(sendPos, tail)
    BY ForwarderTypes
<1>2. c \in Connections
    BY DEF DInv, ConnectionType
<1>3. ConnectionType'
    <2>1. << >> \in Seq(Cells)
        OBVIOUS
    <2> QED
        BY <2>1 DEF DInv, ConnectionType
<1>4. \A d \in Connections \ {c} : Stream(d)' = Stream(d) /\ SentOn(d)' = SentOn(d)
    BY DEF Stream, SentOn, DInv, ConnectionType
<1>5. Streams'
    <2>1. \A d \in Connections \ theirs' : part'[d] = << >>
        BY DEF DInv, Streams, ConnectionType
    <2>2. \A d \in theirs' : SeqBegun(Stream(d)')
        BY <1>4 DEF DInv, Streams, ConnectionType
    <2>3. ASSUME Sending' PROVE SeqFramed(WholeStream')
        <3>1. Sending /\ sock' = sock /\ sock \in Connections \ {c}
            BY <2>3 DEF Sending, DInv, ConnectionType
        <3>2. WholeStream' = WholeStream
            BY <1>1, <1>4, <3>1 DEF WholeStream
        <3> QED
            BY <3>1, <3>2 DEF DInv, Streams
    <2> QED
        BY <2>1, <2>2, <2>3 DEF Streams
<1>6. Kept'
    <2>1. wire[c] = << >> => SentOn(c) = {}
        BY DEF SentOn
    <2>2. owed' \cap SentOn(c) = {}
        BY <2>1
    <2> QED
        BY <1>1, <1>4, <2>2 DEF DInv, Kept, SentWhole
<1> QED
    BY <1>1, <1>3, <1>5, <1>6 DEF DInv

LEMMA LeaveKeeps ==
    ASSUME DInv, NEW c \in Connections, Leave(c), late' = late \cap owed',
           UNCHANGED <<walVars, moved, next, last, spilled>>
    PROVE  DInv'
<1>1. received' \subseteq Lines
    BY DEF DInv, LineType, Leave
<1> QED
    BY <1>1, ForgetKeeps DEF Leave

LEMMA ReadEndKeeps ==
    ASSUME DInv, NEW c \in Connections, ReadEnd(c), late' = late \cap owed',
           UNCHANGED <<walVars, moved, next, last, spilled>>
    PROVE  DInv'
<1>1. received' \subseteq Lines /\ owed' \subseteq owed
    BY DEF DInv, LineType, ReadEnd, Handle
<1>2. c \in theirs /\ wire[c] = << >> /\ wire' = [wire EXCEPT ![c] = << >>]
    BY DEF ReadEnd, DInv, ConnectionType
<1> QED
    BY <1>1, <1>2, ForgetKeeps DEF ReadEnd

\* The ends of the lines in s, and what is between one of them and the next
EndsOf(s) == {0} \cup {i \in DOMAIN s : s[i].k = 0}
Behind(s, i) ==
    SubSeq(s, i + 1, IF \E j \in EndsOf(s) : j > i THEN Lowest({j \in EndsOf(s) : j > i}) - 1 ELSE Len(s))

LEMMA EndsOfType ==
    ASSUME NEW s \in Seq(Cells)
    PROVE  /\ EndsOf(s) \in SUBSET (0..Len(s)) /\ 0 \in EndsOf(s)
           /\ Highest(EndsOf(s)) \in EndsOf(s) /\ \A j \in EndsOf(s) : Highest(EndsOf(s)) >= j
<1>1. EndsOf(s) \in SUBSET (0..Len(s)) /\ EndsOf(s) # {} /\ 0 \in EndsOf(s)
    BY DEF EndsOf
<1>2. 0 \in Int /\ Len(s) \in Int
    OBVIOUS
<1> DEFINE E == EndsOf(s)
<1> HIDE DEF E
<1>3. Highest(E) \in E /\ \A j \in E : Highest(E) >= j
    BY <1>1, <1>2, FirstAndLast, Zenon DEF E
<1> QED
    BY <1>1, <1>3 DEF E

\* A whole line is found
LEMMA LineIsRead ==
    ASSUME NEW s \in Seq(Cells), SeqBegun(s), NEW n \in DOMAIN s, s[n].k = 0
    PROVE  /\ s[n].line \in Lines
           /\ \E i \in EndsOf(s) \ {Highest(EndsOf(s))} : Body(s[n].line) = Behind(s, i)
<1> DEFINE l == s[n].line
           i == (n - Length[l]) - 1
<1>1. n \in 1..Len(s) /\ (Len(s) + 1) - 1 = Len(s)
    OBVIOUS
<1>2. s[n] \in Cells /\ Ended(s, 1, n)
    BY <1>1 DEF SeqBegun, Begun
<1>3. l \in Lines /\ Length[l] \in Nat /\ Length[l] > 0
    BY <1>2, CellType, LengthType
<1>4. /\ 1 <= n - Length[l]
      /\ n - Length[l] = 1 \/ s[(n - Length[l]) - 1].k = 0
      /\ \A k \in 1..Length[l] : s[(n - Length[l]) + k - 1] = Text(l, k)
    BY <1>2 DEF Ended
<1>5. i \in EndsOf(s) /\ n \in EndsOf(s) /\ i < n /\ i \in Nat
    <2>1. i = 0 \/ i \in 1..Len(s)
        BY <1>1, <1>3, <1>4
    <2>2. i # 0 => s[i].k = 0
        BY <1>1, <1>3, <1>4
    <2>3. i < n /\ i \in Nat
        BY <1>1, <1>3, <1>4
    <2> HIDE DEF i
    <2> QED
        BY <1>1, <2>1, <2>2, <2>3 DEF EndsOf
<1>6. i # Highest(EndsOf(s))
    BY <1>1, <1>5, EndsOfType
<1>7. Lowest({j \in EndsOf(s) : j > i}) = n
    <2> DEFINE S == {j \in EndsOf(s) : j > i}
    <2>1. S \in SUBSET (0..Len(s)) /\ n \in S
        BY <1>5, EndsOfType
    <2>2. ASSUME NEW j \in S PROVE n <= j
        <3> SUFFICES ASSUME j < n PROVE FALSE
            BY <1>1, <2>1
        <3>1. j \in Int /\ j > i /\ j # 0 /\ j \in EndsOf(s)
            BY <2>1, <1>5
        <3>2. s[j].k = 0
            BY <3>1 DEF EndsOf
        <3>3. n \in Ends(s, 1, Len(s) + 1) /\ n - Length[l] <= j
            BY <1>1, <1>3, <3>1 DEF Ends
        <3>4. s[j].k # 0
            <4>1. 1 \in Int /\ Len(s) + 1 \in Int /\ Begun(s, 1, Len(s) + 1)
                BY DEF SeqBegun
            <4> QED
                BY <3>1, <3>3, <4>1, NoneWithin
        <3> QED
            BY <3>2, <3>4
    <2>3. S # {} /\ 0 \in Int /\ Len(s) \in Int
        BY <2>1
    <2> HIDE DEF S
    <2>4. Lowest(S) \in S /\ \A j \in S : Lowest(S) <= j
        BY <2>1, <2>3, FirstAndLast
    <2>5. Lowest(S) = n
        <3>1. Lowest(S) <= n /\ n <= Lowest(S) /\ Lowest(S) \in Int /\ n \in Int
            BY <2>1, <2>2, <2>4
        <3> QED
            BY <3>1
    <2> QED
        BY <2>5 DEF S
<1> HIDE DEF l
<1>8. Behind(s, i) = SubSeq(s, i + 1, n - 1)
    BY <1>5, <1>7 DEF Behind
<1>9. SubSeq(s, i + 1, n - 1) = Body(l)
    <2> DEFINE a == SubSeq(s, i + 1, n - 1)
               b == Body(l)
    <2>1. i + 1 = n - Length[l] /\ (n - 1) - (i + 1) + 1 = Length[l]
        BY <1>1, <1>3
    <2>2. a \in Seq(Cells) /\ Len(a) = Length[l] /\ \A k \in 1..Length[l] : a[k] = s[(n - Length[l]) + k - 1]
        <3> DEFINE u == n - Length[l]
                   v == n - 1
        <3>1. u \in 1..Len(s) /\ v \in 0..Len(s) /\ u <= v /\ v - u + 1 = Length[l]
            BY <1>1, <1>3, <1>4
        <3> HIDE DEF u, v
        <3>2. /\ SubSeq(s, u, v) \in Seq(Cells) /\ Len(SubSeq(s, u, v)) = v - u + 1
              /\ \A k \in 1..(v - u + 1) : SubSeq(s, u, v)[k] = s[u + k - 1]
            BY <3>1
        <3>3. a = SubSeq(s, u, v)
            BY <2>1 DEF u, v
        <3> HIDE DEF a
        <3> QED
            BY <3>1, <3>2, <3>3 DEF u
    <2>3. b \in Seq(Cells) /\ Len(b) = Length[l] /\ \A k \in 1..Length[l] : b[k] = Text(l, k)
        BY <1>3, LineCells DEF Body
    <2> HIDE DEF a, b
    <2>4. a = b
        <3>1. Len(a) = Len(b) /\ \A k \in 1..Len(a) : a[k] = b[k]
            <4>1. Len(a) = Length[l] /\ Len(b) = Length[l]
                BY <2>2, <2>3
            <4>2. ASSUME NEW k \in 1..Length[l] PROVE a[k] = b[k]
                <5>1. s[(n - Length[l]) + k - 1] = Text(l, k)
                    BY <1>4
                <5> QED
                    BY <2>2, <2>3, <5>1
            <4> QED
                BY <4>1, <4>2
        <3>2. a \in Seq(Cells) /\ b \in Seq(Cells)
            BY <2>2, <2>3
        <3> QED
            BY <3>1, <3>2, SeqEq
    <2> QED
        BY <2>4 DEF a, b
<1> QED
    BY <1>3, <1>5, <1>6, <1>8, <1>9 DEF l

\* All lines which end on the connection are found
LEMMA SentIsRead ==
    ASSUME DInv, NEW c \in theirs, NEW l \in SentOn(c)
    PROVE  /\ l \in Lines
           /\ \E i \in EndsOf(Stream(c)) \ {Highest(EndsOf(Stream(c)))} : Body(l) = Behind(Stream(c), i)
<1> DEFINE s == Stream(c)
           a == Len(part[c])
           b == Len(wire[c])
<1>1. c \in Connections /\ part[c] \in Seq(Cells) /\ wire[c] \in Seq(Cells)
    BY DEF DInv, ConnectionType
<1>2. a \in Nat /\ b \in Nat /\ DOMAIN wire[c] = 1..b
    BY <1>1
<1>3. /\ s \in Seq(Cells) /\ Len(s) = a + b /\ SeqBegun(s)
      /\ \A k \in 1..b : s[a + k] = wire[c][k]
    BY <1>1, ConcatIs DEF Stream, DInv, Streams
<1>4. PICK i \in 1..b : wire[c][i].k = 0 /\ l = wire[c][i].line
    BY <1>2 DEF SentOn
<1> DEFINE n == a + i
<1> HIDE DEF s, a, b
<1>5. n \in DOMAIN s /\ s[n] = wire[c][i]
    <2>1. n \in 1..(a + b)
        BY <1>2
    <2> QED
        BY <1>3, <2>1
<1> HIDE DEF n
<1>6. /\ s[n].line \in Lines
      /\ \E j \in EndsOf(s) \ {Highest(EndsOf(s))} : Body(s[n].line) = Behind(s, j)
    BY <1>3, <1>4, <1>5, LineIsRead
<1> QED
    BY <1>4, <1>5, <1>6 DEF s

\* What is behind the last new line of s, at e
IsRest(s, e) ==
    /\ e \in Nat /\ e <= Len(s)
    /\ e = 0 \/ (e \in 1..Len(s) /\ s[e].k = 0)
    /\ Behind(s, e) \in Seq(Cells) /\ Len(Behind(s, e)) = Len(s) - e
    /\ \A k \in 1..(Len(s) - e) : Behind(s, e)[k] = s[e + k] /\ s[e + k].k # 0

LEMMA RestIs ==
    ASSUME NEW s \in Seq(Cells), NEW e, e = Highest(EndsOf(s))
    PROVE  IsRest(s, e)
<1>1. e \in 0..Len(s) /\ e \in EndsOf(s) /\ \A j \in EndsOf(s) : j <= e
    BY EndsOfType
<1>2. Len(s) \in Nat /\ DOMAIN s = 1..Len(s) /\ e \in Nat /\ e <= Len(s)
    BY <1>1
<1>3. e = 0 \/ (e \in 1..Len(s) /\ s[e].k = 0)
    BY <1>1, <1>2 DEF EndsOf
<1>4. Behind(s, e) = SubSeq(s, e + 1, Len(s))
    <2>1. ~\E j \in EndsOf(s) : j > e
        <3> SUFFICES ASSUME NEW j \in EndsOf(s), j > e PROVE FALSE
            OBVIOUS
        <3>1. j \in Int /\ j <= e
            BY <1>1, EndsOfType
        <3> QED
            BY <1>1, <3>1
    <2> QED
        BY <2>1 DEF Behind
<1> DEFINE r == SubSeq(s, e + 1, Len(s))
<1>5. r \in Seq(Cells) /\ Len(r) = Len(s) - e /\ \A k \in 1..(Len(s) - e) : r[k] = s[e + k]
    <2>1. e + 1 \in 1..(Len(s) + 1) /\ Len(s) - (e + 1) + 1 = Len(s) - e
        BY <1>2
    <2> DEFINE u == e + 1
               v == Len(s)
    <2>2. /\ SubSeq(s, u, v) \in Seq(Cells) /\ Len(SubSeq(s, u, v)) = IF u <= v THEN v - u + 1 ELSE 0
          /\ \A k \in 1..(v - u + 1) : SubSeq(s, u, v)[k] = s[u + k - 1]
        <3>1. u \in 1..(Len(s) + 1) /\ v = Len(s)
            BY <2>1
        <3> HIDE DEF u, v
        <3> QED
            BY <3>1
    <2>3. \A k \in 1..(Len(s) - e) : u + k - 1 = e + k
        BY <1>2
    <2>4. v - u + 1 = Len(s) - e /\ (~(u <= v) => Len(s) - e = 0)
        <3> DEFINE n == Len(s)
        <3>1. n \in Nat /\ e \in Nat /\ e <= n /\ v = n
            BY <1>2
        <3> HIDE DEF n, v
        <3> QED
            BY <3>1 DEF n
    <2>5. r = SubSeq(s, u, v)
        OBVIOUS
    <2> HIDE DEF r, u, v
    <2> QED
        BY <2>2, <2>3, <2>4, <2>5
<1> HIDE DEF r
<1>6. ASSUME NEW k \in 1..(Len(s) - e) PROVE s[e + k].k # 0
    <2>1. e + k \in 1..Len(s) /\ e < e + k
        BY <1>2
    <2>2. e + k \notin EndsOf(s)
        BY <1>1, <1>2, <2>1
    <2> QED
        BY <1>2, <2>1, <2>2 DEF EndsOf
<1> QED
    BY <1>2, <1>3, <1>4, <1>5, <1>6 DEF r, IsRest

LEMMA ReadKeeps ==
    ASSUME DInv, NEW c \in Connections, Read(c), late' = late \cap owed',
           UNCHANGED <<walVars, moved, next, last, spilled>>
    PROVE  DInv'
<1> DEFINE s == Stream(c)
           e == Highest(EndsOf(s))
<1>1. /\ c \in theirs
      /\ received' = received \cup {l \in Lines : Body(l) \in {Behind(s, i) : i \in EndsOf(s) \ {e}}}
      /\ owed' = owed \ received'
      /\ part' = [part EXCEPT ![c] = Behind(s, e)] /\ wire' = [wire EXCEPT ![c] = << >>]
      /\ UNCHANGED <<state, due, sock, buffer, ours, theirs, pc, then>>
    BY DEF Read, Handle, Behind, EndsOf, Stream
<1>2. part[c] \in Seq(Cells) /\ wire[c] \in Seq(Cells)
    BY DEF DInv, ConnectionType
<1>3. /\ s \in Seq(Cells) /\ Len(s) = Len(part[c]) + Len(wire[c]) /\ SeqBegun(s)
      /\ \A k \in 1..Len(wire[c]) : s[Len(part[c]) + k] = wire[c][k]
    BY <1>1, <1>2, ConcatIs DEF Stream, DInv, Streams
<1>4. /\ received' \subseteq Lines /\ owed' \subseteq owed
      /\ ControlType' /\ LineType' /\ Buffered' /\ Standing' /\ Moves'
      /\ Queued' = Queued /\ Waiting' = Waiting /\ next' = next
      /\ Part(sendPos, tail)' = Part(sendPos, tail)
    <2>1. received' \subseteq Lines /\ owed' \subseteq owed
        BY <1>1 DEF DInv, LineType
    <2> QED
        BY <1>1, <2>1, ForwarderTypes
<1>5. SentOn(c) \subseteq received'
    BY <1>1, SentIsRead
<1> HIDE DEF s
<1> DEFINE r == Behind(s, e)
<1>6. s \in Seq(Cells)
    BY <1>3
<1>7. /\ e \in Nat /\ e <= Len(s)
      /\ e = 0 \/ (e \in 1..Len(s) /\ s[e].k = 0)
      /\ r \in Seq(Cells) /\ Len(r) = Len(s) - e /\ \A k \in 1..(Len(s) - e) : r[k] = s[e + k]
    BY <1>6, RestIs DEF IsRest
<1>8. Len(s) \in Nat /\ DOMAIN s = 1..Len(s) /\ e \in 0..Len(s)
    BY <1>6, <1>7
<1> HIDE DEF e, r
<1>9. part'[c] = r /\ wire'[c] = << >> /\ \A d \in Connections \ {c} : part'[d] = part[d] /\ wire'[d] = wire[d]
    BY <1>1 DEF DInv, ConnectionType, r
<1>10. ConnectionType'
    <2>1. << >> \in Seq(Cells)
        OBVIOUS
    <2> QED
        BY <1>1, <1>7, <2>1 DEF DInv, ConnectionType, r
<1>11. Stream(c)' = r /\ \A d \in Connections \ {c} : Stream(d)' = Stream(d) /\ SentOn(d)' = SentOn(d)
    <2>1. r \o << >> = r
        BY <1>7
    <2> QED
        BY <1>9, <2>1 DEF Stream, SentOn
<1>12. SeqBegun(r)
    <2>1. Begun(s, 1, Len(s) + 1) /\ 1 \in Int /\ e + 1 \in Int /\ Len(s) + 1 \in Int /\ 1 <= e + 1
        <3>1. 1 \in Int /\ e + 1 \in Int /\ Len(s) + 1 \in Int /\ 1 <= e + 1
            BY <1>7, <1>8
        <3>2. Begun(s, 1, Len(s) + 1)
            BY <1>3 DEF SeqBegun
        <3> QED
            BY <3>1, <3>2
    <2>2. e + 1 = 1 \/ s[(e + 1) - 1].k = 0
        BY <1>7, <1>8
    <2>3. Begun(s, e + 1, Len(s) + 1)
        BY <2>1, <2>2, Cut
    <2> DEFINE h == e + 1
               t == Len(s) + 1
    <2>4. h \in Int /\ t \in Int /\ h <= t /\ Len(r) = t - h /\ \A k \in 1..(t - h) : r[k] = s[h + k - 1]
        <3>1. t - h = Len(s) - e
            BY <1>3, <1>7, <1>8
        <3>2. \A k \in 1..(Len(s) - e) : h + k - 1 = e + k
            BY <1>7, <1>8
        <3>3. h \in Int /\ t \in Int /\ h <= t
            BY <1>7, <1>8
        <3> QED
            BY <1>7, <3>1, <3>2, <3>3
    <2>5. Begun(s, h, t)
        BY <2>3
    <2> HIDE DEF h, t
    <2> QED
        BY <1>7, <2>4, <2>5, SeqShift
<1>13. ASSUME Sending' PROVE SeqFramed(WholeStream')
    <2>1. Sending /\ sock' = sock /\ sock \in Connections /\ SeqFramed(WholeStream)
        BY <1>1, <1>13 DEF Sending, DInv, Streams, ConnectionType
    <2>2. CASE sock # c
        <3>1. WholeStream' = WholeStream
            BY <1>4, <1>11, <2>1, <2>2 DEF WholeStream
        <3> QED
            BY <2>1, <3>1
    <2>3. CASE sock = c
        <3> DEFINE p == Part(sendPos, tail)
                   all == s \o p
                   rest == r \o p
        <3>1. WholeStream = all /\ WholeStream' = rest
            BY <1>4, <1>11, <2>1, <2>3 DEF WholeStream, s
        <3>2. p \in Seq(Cells)
            <4>1. Buffered /\ sendPos \in Int /\ tail \in Int /\ head <= sendPos /\ sendPos <= tail /\ tail <= tail
                BY DEF DInv, Buffered
            <4> QED
                BY <4>1, PartIs
        <3> HIDE DEF p
        <3>3. /\ all \in Seq(Cells) /\ Len(all) = Len(s) + Len(p) /\ Len(p) \in Nat /\ Len(s) \in Nat
              /\ \A k \in 1..Len(s) : all[k] = s[k]
              /\ \A k \in 1..Len(p) : all[Len(s) + k] = p[k]
            BY <1>3, <3>2, ConcatIs
        <3>4. /\ rest \in Seq(Cells) /\ Len(rest) = Len(r) + Len(p)
              /\ \A k \in 1..Len(r) : rest[k] = r[k]
              /\ \A k \in 1..Len(p) : rest[Len(r) + k] = p[k]
            BY <1>7, <3>2, ConcatIs
        <3> HIDE DEF all, rest
        <3> DEFINE h == e + 1
                   t == Len(all) + 1
        <3>5. /\ h \in Int /\ t \in Int /\ h <= t /\ 1 \in Int /\ 1 <= h
              /\ Len(rest) = t - h /\ t - h = (Len(s) - e) + Len(p)
            BY <1>7, <1>8, <3>3, <3>4
        <3>6. ASSUME NEW k \in 1..(t - h) PROVE rest[k] = all[h + k - 1]
            <4>0. h + k - 1 = e + k
                BY <1>7, <1>8
            <4>1. CASE k <= Len(s) - e
                <5>1. k \in 1..Len(r) /\ e + k \in 1..Len(s) /\ k \in 1..(Len(s) - e)
                    BY <4>1, <1>7, <1>8, <3>3
                <5> QED
                    BY <5>1, <4>0, <1>7, <3>3, <3>4
            <4>2. CASE k > Len(s) - e
                <5> DEFINE j == k - (Len(s) - e)
                <5>1. j \in 1..Len(p) /\ Len(r) + j = k /\ Len(s) + j = e + k
                    BY <4>2, <1>7, <1>8, <3>3, <3>5
                <5> HIDE DEF j
                <5> QED
                    BY <5>1, <4>0, <3>3, <3>4
            <4>3. k <= Len(s) - e \/ k > Len(s) - e
                BY <1>7, <1>8, <3>3
            <4> QED
                BY <4>1, <4>2, <4>3, Zenon
        <3>7. Framed(all, 1, t)
            BY <2>1, <3>1 DEF SeqFramed
        <3>8. h = 1 \/ all[h - 1].k = 0
            BY <1>7, <1>8, <3>3
        <3> HIDE DEF h, t
        <3>9. Begun(all, h, t)
            BY <3>5, <3>7, <3>8, Cut DEF Framed
        <3>10. Framed(all, h, t)
            <4>1. h < t => 1 < t
                BY <3>5
            <4> QED
                BY <3>7, <3>9, <4>1 DEF Framed
        <3>11. SeqFramed(rest)
            BY <3>4, <3>5, <3>6, <3>10, SeqShift
        <3> QED
            BY <3>1, <3>11
    <2> QED
        BY <2>2, <2>3
<1>14. Streams'
    <2>1. \A d \in Connections \ theirs' : part'[d] = << >>
        BY <1>1, <1>9 DEF DInv, Streams
    <2>2. \A d \in theirs' : SeqBegun(Stream(d)')
        BY <1>1, <1>11, <1>12 DEF DInv, Streams, ConnectionType
    <2> QED
        BY <1>13, <2>1, <2>2 DEF Streams
<1>15. Kept'
    <2>1. SentWhole \subseteq SentWhole' \cup SentOn(c)
        BY <1>11 DEF SentWhole
    <2> QED
        BY <1>1, <1>4, <1>5, <2>1 DEF DInv, Kept
<1> QED
    BY <1>4, <1>10, <1>14, <1>15 DEF DInv

-----------------------------------------------------------------------------
(* Every step *)

LEMMA DInvInit == Init => DInv
<1> SUFFICES ASSUME Init PROVE DInv
    OBVIOUS
<1> USE DEF Init, SocketInit
<1>1. ControlType
    <2>1. moved \in 0..DrainMax
        BY DurableAssumption
    <2>2. state \in States /\ pc \in Places /\ then \in Returns
        BY DEF States, Places, Returns
    <2> QED
        BY <2>1, <2>2 DEF ControlType
<1>2. ConnectionType
    <2>1. << >> \in Seq(Cells)
        OBVIOUS
    <2> QED
        BY <2>1 DEF ConnectionType
<1>3. LineType
    <2>1. records \in Seq(Lines) /\ position \in 0..Len(records) /\ lines <= QueueLines
        BY SocketAssumption
    <2> QED
        BY <2>1 DEF LineType
<1>4. Ends(mem, 0, 0) = {} /\ Framed(mem, 0, 0)
    BY DEF Ends, Framed, Begun
<1>5. Buffered
    <2>1. mem \in [0..(QueueBytes - 1) -> Cells \cup {Free}] /\ \A i \in 0..(QueueBytes - 1) : mem[i] = Free
        BY DEF NoMemory
    <2>2. \A i \in 0..(QueueBytes - 1) : ~(head <= i /\ i < tail)
        OBVIOUS
    <2>3. lines = Cardinality(Ends(mem, head, tail))
        BY <1>4, FS_EmptySet
    <2>4. tail <= QueueBytes
        BY SocketAssumption
    <2>5. \A i \in 0..(QueueBytes - 1) : mem[i] # Free <=> head <= i /\ i < tail
        BY <2>1, <2>2
    <2>6. head \in Nat /\ sendPos \in Nat /\ tail \in Nat /\ head <= sendPos /\ sendPos <= tail
        OBVIOUS
    <2> QED
        BY <1>4, <2>1, <2>3, <2>4, <2>5, <2>6 DEF Buffered
<1>6. Standing
    BY DEF Standing
<1>7. Streams
    BY DEF Streams, Sending
<1>8. Queued = {} /\ Twice(mem, head, tail) = {}
    BY <1>4, QueuedIs, TwiceQueued
<1>9. Moves
    <2>1. Cardinality((Queued \cup {next}) \cap spilled) <= LowWater
        BY FS_EmptySet, DurableAssumption
    <2> QED
        BY <1>8, <2>1 DEF Moves, FewAreMoved, In
<1>10. Kept
    BY DEF Kept
<1> QED
    BY <1>1, <1>2, <1>3, <1>5, <1>6, <1>7, <1>9, <1>10 DEF DInv

LEMMA PumpKeeps ==
    ASSUME DInv, Sender
    PROVE  DInv'
<1>1. /\ spilled' = spilled \cap (Queued' \cup In(records))
      /\ UNCHANGED <<walVars, moved, next, last, late>>
    BY DEF Sender
<1> DEFINE OnlyControl ==
        /\ UNCHANGED <<due, sock, buffer, connections, then, received, owed>>
        /\ state' \in States /\ (state' = "connected" <=> state = "connected")
        /\ pc \in {"pump", "send"} /\ pc' \in {pc, then, "send"}
        /\ pc' = "send" => state' = "connected"
<1>2. ASSUME OnlyControl PROVE DInv'
    <2>1. ControlType'
        BY <1>1, <1>2 DEF DInv, ControlType, Places, Returns, walVars
    <2>2. pc' # "put" /\ pc # "put" /\ pc # "spill"
        BY <1>2 DEF DInv, ControlType, Returns
    <2>3. late' \subseteq Lines
        BY <1>1 DEF DInv, LineType
    <2> QED
        BY <1>1, <1>2, <2>1, <2>2, <2>3, ControlKeeps DEF walVars
<1>3. state \in States /\ then \in Returns
    BY DEF DInv, ControlType
<1>4. CASE PumpWaits
    <2>1. OnlyControl
        BY <1>3, <1>4 DEF PumpWaits, Return, States, Returns
    <2> QED
        BY <1>2, <2>1
<1>5. CASE StartConnect
    <2>1. pc = "pump" /\ state = "disconnected"
        BY <1>5 DEF StartConnect
    <2>2. CASE DisconnectAndReturn
        BY <1>1, <2>1, <2>2, DisconnectKeeps
    <2>3. CASE \E c \in Unused : Connected(c)
        BY <1>1, <2>1, <2>3, ConnectedKeeps
    <2>4. CASE state' = "connecting" /\ UNCHANGED <<due, sock, buffer, connections, pc, then, received, owed>>
        <3>1. OnlyControl
            BY <2>1, <2>4 DEF States
        <3> QED
            BY <1>2, <3>1
    <2> QED
        BY <1>5, <2>2, <2>3, <2>4 DEF StartConnect
<1>6. CASE CheckConnect
    <2>1. pc = "pump" /\ state = "connecting"
        BY <1>6 DEF CheckConnect
    <2>2. CASE DisconnectAndReturn
        BY <1>1, <2>1, <2>2, DisconnectKeeps
    <2>3. CASE \E c \in Unused : Connected(c)
        BY <1>1, <2>1, <2>3, ConnectedKeeps
    <2>4. CASE Return /\ UNCHANGED <<state, due, sock, buffer, connections, then, received, owed>>
        <3>1. OnlyControl
            BY <1>3, <2>1, <2>4 DEF States, Return, Returns
        <3> QED
            BY <1>2, <3>1
    <2> QED
        BY <1>6, <2>2, <2>3, <2>4 DEF CheckConnect
<1>7. CASE CheckPeerClosed
    <2>1. pc = "pump" /\ state = "connected"
        BY <1>7 DEF CheckPeerClosed
    <2>2. CASE DisconnectAndReturn
        BY <1>1, <2>1, <2>2, DisconnectKeeps
    <2>3. CASE pc' = "send" /\ UNCHANGED <<state, due, sock, buffer, connections, then, received, owed>>
        <3>1. OnlyControl
            BY <2>1, <2>3 DEF States
        <3> QED
            BY <1>2, <3>1
    <2> QED
        BY <1>7, <2>2, <2>3 DEF CheckPeerClosed
<1>8. CASE SendSome
    BY <1>1, <1>8, SendSomeKeeps
<1>9. CASE SendEnds
    <2>1. OnlyControl
        BY <1>3, <1>9 DEF SendEnds, Return, States, Returns
    <2> QED
        BY <1>2, <2>1
<1>10. CASE SendFails
    BY <1>1, <1>10, DisconnectKeeps DEF SendFails
<1> QED
    BY <1>4, <1>5, <1>6, <1>7, <1>8, <1>9, <1>10 DEF Sender, Pump

LEMMA ProgramKeeps ==
    ASSUME DInv, Program
    PROVE  DInv'
<1> DEFINE OnlyControl ==
        /\ UNCHANGED <<state, sock, buffer, connections, received, owed, records, position, next, last, spilled>>
        /\ pc' # "put" /\ pc \notin {"put", "spill"} /\ pc' # "send"
        /\ ControlType' /\ late' \subseteq Lines
<1>1. ASSUME OnlyControl PROVE DInv'
    BY <1>1, ControlKeeps
<1>2. ControlType /\ late \subseteq Lines /\ 0 \in 0..DrainMax
    BY DurableAssumption DEF DInv, ControlType, LineType
<1> USE DEF States, Places, Returns, CallPump, Control, walVars, history
<1>3. CASE Send
    BY <1>3, SendQueuesKeeps, SendOtherKeeps DEF Send
<1>4. CASE PumpCall
    <2>1. OnlyControl
        BY <1>2, <1>4 DEF PumpCall, ControlType
    <2> QED
        BY <1>1, <2>1
<1>5. CASE DrainStart
    <2>1. OnlyControl
        BY <1>2, <1>5 DEF DrainStart, ControlType
    <2> QED
        BY <1>1, <2>1
<1>6. CASE Take
    BY <1>6, TakeKeeps
<1>7. CASE TakeStops
    <2>1. OnlyControl
        BY <1>2, <1>7 DEF TakeStops, ControlType
    <2> QED
        BY <1>1, <2>1
<1>8. CASE Put
    BY <1>8, PutKeeps
<1>9. CASE TakeEnds
    <2>1. OnlyControl
        BY <1>2, <1>9 DEF TakeEnds, ControlType
    <2> QED
        BY <1>1, <2>1
<1>10. CASE DrainMore
    <2>1. OnlyControl
        BY <1>2, <1>10 DEF DrainMore, ControlType
    <2> QED
        BY <1>1, <2>1
<1>11. CASE Start
    <2>1. late' \subseteq Lines
        BY <1>2, <1>11 DEF Start, DInv, LineType
    <2>2. OnlyControl
        BY <1>2, <1>11, <2>1 DEF Start, ControlType
    <2> QED
        BY <1>1, <2>2
<1>12. CASE Shutdown
    <2>1. OnlyControl
        BY <1>2, <1>12 DEF Shutdown, ControlType
    <2> QED
        BY <1>1, <2>1
<1>13. CASE FlushAgain
    <2>1. OnlyControl
        BY <1>2, <1>13 DEF FlushAgain, ControlType
    <2> QED
        BY <1>1, <2>1
<1>14. CASE FlushTimeout
    <2>1. OnlyControl
        BY <1>2, <1>14 DEF FlushTimeout, ControlType
    <2> QED
        BY <1>1, <2>1
<1>15. CASE Spill
    BY <1>15, SpillKeeps
<1>16. CASE CloseFlushed \/ CloseLoses
    BY <1>16, CloseKeeps
<1> QED
    BY <1>3, <1>4, <1>5, <1>6, <1>7, <1>8, <1>9, <1>10, <1>11, <1>12, <1>13, <1>14, <1>15, <1>16 DEF Program, Drain

LEMMA ForwarderKeeps ==
    ASSUME DInv, Forwarder
    PROVE  DInv'
<1>1. late' = late \cap owed' /\ UNCHANGED <<walVars, moved, next, last, spilled>>
    BY DEF Forwarder
<1>2. CASE TimeComes
    <2>1. UNCHANGED <<state, sock, buffer, connections, pc, then, received, owed>> /\ due' = TRUE
        BY <1>2 DEF TimeComes
    <2>2. ControlType' /\ late' \subseteq Lines
        BY <1>1, <2>1 DEF DInv, ControlType, LineType, walVars
    <2>3. pc' = "send" => state' = "connected"
        BY <2>1 DEF DInv, Standing
    <2> QED
        BY <1>1, <2>1, <2>2, <2>3, ControlKeeps DEF walVars
<1>3. CASE \E c \in Connections : Read(c) \/ ReadEnd(c) \/ Leave(c)
    BY <1>1, <1>3, ReadKeeps, ReadEndKeeps, LeaveKeeps
<1> QED
    BY <1>2, <1>3 DEF Forwarder

LEMMA DInvNext == DInv /\ [Next]_vars => DInv'
<1> SUFFICES ASSUME DInv, [Next]_vars PROVE DInv'
    OBVIOUS
<1>1. CASE Next
    BY <1>1, ProgramKeeps, PumpKeeps, ForwarderKeeps, CrashKeeps DEF Next
<1>2. CASE UNCHANGED vars
    <2>1. ControlType' /\ late' \subseteq Lines
        BY <1>2 DEF DInv, ControlType, LineType, vars, socketVars, walVars, history
    <2>2. pc' = "send" => state' = "connected"
        BY <1>2 DEF DInv, Standing, vars, socketVars
    <2> QED
        BY <1>2, <2>1, <2>2, ControlKeeps DEF vars, socketVars, walVars, history
<1> QED
    BY <1>1, <1>2

-----------------------------------------------------------------------------
(* What follows *)

LEMMA DInvBuffer == DInv => BufferOK
<1> SUFFICES ASSUME DInv PROVE BufferOK
    OBVIOUS
<1>1. TypeOK
    <2>1. lines \in 0..QueueLines
        BY LinesCount, SocketAssumption DEF DInv, LineType
    <2>2. mem \in [0..(QueueBytes - 1) -> Cells \cup {Free}] /\ 0 <= head /\ head <= sendPos /\ sendPos <= tail /\ tail <= QueueBytes
        BY DEF DInv, Buffered
    <2> QED
        BY <2>1, <2>2 DEF TypeOK, DInv, ControlType, ConnectionType, LineType, States, Places, Returns
<1>2. WholeLines(Part(head, tail))
    <2>1. head \in Int /\ tail \in Int /\ head <= head /\ head <= tail /\ tail <= tail /\ Framed(mem, head, tail)
        BY DEF DInv, Buffered
    <2>2. /\ Part(head, tail) \in Seq(Cells) /\ Len(Part(head, tail)) = tail - head
          /\ \A k \in 1..(tail - head) : Part(head, tail)[k] = mem[head + k - 1]
        BY <2>1, PartIs DEF DInv
    <2>3. SeqFramed(Part(head, tail))
        BY <2>1, <2>2, SeqShift
    <2> QED
        BY <2>2, <2>3, SeqIsWhole DEF SeqFramed
<1>3. lines = Cardinality(NewLines(head, tail))
    <2>1. NewLines(head, tail) = Ends(mem, head, tail)
        BY DEF NewLines, Ends
    <2> QED
        BY <2>1 DEF DInv, Buffered
<1>4. \A i \in DOMAIN mem : mem[i] # Free <=> head <= i /\ i < tail
    BY DEF DInv, Buffered
<1> QED
    BY <1>1, <1>2, <1>3, <1>4 DEF BufferOK, BufferHoldsLines

LEMMA DInvStream == DInv => StreamIsWhole
<1> SUFFICES ASSUME DInv, Sending PROVE WholeLines(WholeStream)
    BY DEF StreamIsWhole, Sending, WholeStream, Stream
<1>1. Stream(sock) \in Seq(Cells)
    <2>1. part[sock] \in Seq(Cells) /\ wire[sock] \in Seq(Cells)
        BY DEF DInv, ConnectionType, Sending
    <2> QED
        BY <2>1, ConcatIs DEF Stream
<1>2. Part(sendPos, tail) \in Seq(Cells)
    <2>1. Buffered /\ sendPos \in Int /\ tail \in Int /\ head <= sendPos /\ sendPos <= tail /\ tail <= tail
        BY DEF DInv, Buffered
    <2> QED
        BY <2>1, PartIs
<1>3. WholeStream \in Seq(Cells)
    BY <1>1, <1>2, ConcatIs DEF WholeStream
<1> QED
    BY <1>3, SeqIsWhole DEF DInv, Streams, SeqFramed

\* The invariant which the three properties follow from
THEOREM DInvHolds == Spec => []DInv
BY DInvInit, DInvNext, PTL DEF Spec

\* The offsets of the sender, the count of its lines and the buffer agree (domfwd_socket.hpp,
\* Enqueue, CompleteSentLines, DropUnsent), for lines of any length and a buffer of any size.
THEOREM BufferOKHolds == Spec => []BufferOK
BY DInvHolds, DInvBuffer, PTL

\* The forwarder reads whole lines, also when a line which was sent in part is started again
\* on the next connection (domfwd_socket.hpp:15-16), wherever a connection breaks.
THEOREM StreamIsWholeHolds == Spec => []StreamIsWhole
BY DInvHolds, DInvStream, PTL

\* No line for which Send returned true is lost, but in the ways which domfwd_durable.hpp
\* names, and a crash loses at most DOMFWD_DURABLE_LOW_WATER lines which were in the WAL.
THEOREM NoneLostHolds == Spec => []NoneLost
<1>1. DInv => NoneLost
    BY DEF DInv, Kept, Moves, NoneLost
<1> QED
    BY <1>1, DInvHolds, PTL
-----------------------------------------------------------------------------
(* The order of the lines *)

\* The lines which are kept, and may not come late
Must == owed \ late

\* The lines which were sent whole on a connection which the sender has closed
Gone == UNION {SentOn(c) : c \in Connections \ ours}

\* The lines which end in m[h] up to m[i - 1]
EndedIn(m, h, i) == {m[j].line : j \in Ends(m, h, i)}

\* The records from a up to, and without, b
From(r, a, b) == {r[j] : j \in a..(b - 1)}

\* The lines which Flush moved from the queue to the WAL, or which it finds there
Spilling == IF pc = "spill" THEN Waiting ELSE {}

\* Of the lines which must come in order, those which are older than l are in s
Follows(top, must, l, s) == l <= top /\ \A m \in must : m < l => m \in s

StreamsOrder ==
    \A c \in Connections :
        /\ \A n \in 1..Len(wire[c]) : Follows(last, Must, wire[c][n].line, Gone \cup EndedIn(wire[c], 1, n))
        /\ \A n \in 1..Len(part[c]) : part[c][n].k # 0 /\ Follows(last, Must, part[c][n].line, Gone)

BufferOrder ==
    \A i \in head..(tail - 1) :
        Follows(last, Must, mem[i].line, SentWhole \cup EndedIn(mem, head, i) \cup Spilling)

NextOrder == Follows(last, Must, next, SentWhole \cup Queued)

WaitingOrder ==
    \A i \in (position + 1)..Len(records) :
        Follows(last, Must, records[i], SentWhole \cup Queued \cup {next} \cup From(records, position + 1, i))

\* The commit file of the WAL may be lost: all records wait again
RecordsOrder ==
    \A i \in 1..Len(records) :
        Follows(last, Must \cap In(records), records[i], From(records, 1, i))

\* Where a line of the queue would come behind the records, if Flush moved it there: it is one of
\* them, or older than all, or there is one which makes it a late one
Placed(m, all, waiting, spilling) ==
    \/ m \in all
    \/ ~spilling /\ \A r \in all : m < r
    \/ spilling /\ ((\E r \in waiting : m < r) \/ \A r \in all : r < m)

QueueOrder ==
    hasWal => \A m \in (Queued \cup {next}) \ {NoLine} : Placed(m, In(records), Waiting, pc = "spill")

Rests ==
    /\ records # << >> => position < Len(records)
    /\ pc = "spill" => hasWal
    /\ pc = "down" => ~hasWal /\ head = tail
    /\ state # "connected" => ours = {}
    /\ ours \subseteq {sock}
    /\ ~hasWal /\ pc # "down" => Waiting \cap owed \subseteq late

Order ==
    /\ StreamsOrder /\ BufferOrder /\ NextOrder /\ WaitingOrder
    /\ RecordsOrder /\ QueueOrder

OInv == Order /\ Rests

\* A step lets no line be older, and only a new one must come in order from now on
Steady ==
    /\ last \in Nat /\ last' \in Nat /\ last <= last'
    /\ \A m \in Must' : m \in Nat /\ m > 0 /\ (m \in Must \/ m > last)

LEMMA FollowsKept ==
    ASSUME Steady, NEW l \in Nat, NEW s, NEW t, Follows(last, Must, l, s),
           \A m \in Must' : m \in s => m \in t
    PROVE  Follows(last', Must', l, t)
<1>1. l <= last /\ last <= last' /\ last \in Nat /\ last' \in Nat
    BY DEF Follows, Steady
<1>2. l <= last'
    BY <1>1
<1>3. ASSUME NEW m \in Must', m < l PROVE m \in t
    <2>1. m \in Nat /\ (m \in Must \/ m > last)
        BY DEF Steady
    <2>2. m \in Must
        BY <1>1, <1>3, <2>1
    <2> QED
        BY <1>3, <2>2 DEF Follows
<1> QED
    BY <1>2, <1>3 DEF Follows

LEMMA LineNat ==
    ASSUME NEW c \in Cells
    PROVE  c.line \in Nat /\ c.line > 0
<1>1. c.line \in Lines
    BY CellType
<1>2. \A l \in Lines : l \in Nat /\ l > 0
    BY SocketAssumption DEF Lines
<1> QED
    BY <1>1, <1>2

LEMMA BufferCells ==
    ASSUME Buffered, NEW i \in head..(tail - 1)
    PROVE  mem[i] \in Cells /\ mem[i].line \in Nat
<1>1. mem[i] \in Cells
    BY DEF Buffered, Framed, Begun
<1> QED
    BY <1>1, LineNat

LEMMA StreamCells ==
    ASSUME ConnectionType, NEW c \in Connections
    PROVE  /\ \A n \in 1..Len(wire[c]) : wire[c][n] \in Cells /\ wire[c][n].line \in Nat
           /\ \A n \in 1..Len(part[c]) : part[c][n] \in Cells /\ part[c][n].line \in Nat
<1>1. wire[c] \in Seq(Cells) /\ part[c] \in Seq(Cells)
    BY DEF ConnectionType
<1>2. /\ \A n \in 1..Len(wire[c]) : wire[c][n] \in Cells
      /\ \A n \in 1..Len(part[c]) : part[c][n] \in Cells
    BY <1>1
<1> QED
    BY <1>2, LineNat

LEMMA RecordType ==
    ASSUME LineType
    PROVE  /\ Len(records) \in Nat /\ position \in Nat /\ position <= Len(records)
           /\ \A i \in 1..Len(records) : records[i] \in Lines /\ records[i] \in Nat /\ records[i] > 0
           /\ In(records) = From(records, 1, Len(records) + 1)
           /\ Waiting = From(records, position + 1, Len(records) + 1)
           /\ Waiting \subseteq In(records)
<1>1. records \in Seq(Lines) /\ position \in 0..Len(records)
    BY DEF LineType
<1>2. Len(records) \in Nat /\ DOMAIN records = 1..Len(records) /\ (Len(records) + 1) - 1 = Len(records)
    BY <1>1
<1>3. \A i \in 1..Len(records) : records[i] \in Lines
    BY <1>1
<1>4. \A i \in 1..Len(records) : records[i] \in Nat /\ records[i] > 0
    BY <1>3, SocketAssumption DEF Lines
<1>5. In(records) = From(records, 1, Len(records) + 1)
    BY <1>2 DEF In, From
<1>6. Waiting = From(records, position + 1, Len(records) + 1)
    BY <1>2 DEF Waiting, From
<1>7. Waiting \subseteq In(records)
    <2>1. (position + 1)..Len(records) \subseteq DOMAIN records
        BY <1>1, <1>2
    <2> QED
        BY <2>1 DEF Waiting, In
<1> QED
    BY <1>1, <1>2, <1>3, <1>4, <1>5, <1>6, <1>7

-----------------------------------------------------------------------------
(* What stays where it is stays in order *)

LEMMA StreamsOrderKept ==
    ASSUME DInv, StreamsOrder, Steady, UNCHANGED <<wire, part>>, Gone \cap Must' \subseteq Gone'
    PROVE  StreamsOrder'
<1> SUFFICES ASSUME NEW c \in Connections
             PROVE  /\ \A n \in 1..Len(wire[c]) :
                           Follows(last', Must', wire[c][n].line, Gone' \cup EndedIn(wire[c], 1, n))
                    /\ \A n \in 1..Len(part[c]) : part[c][n].k # 0 /\ Follows(last', Must', part[c][n].line, Gone')
    BY DEF StreamsOrder
<1>1. ConnectionType
    BY DEF DInv
<1>2. ASSUME NEW n \in 1..Len(wire[c])
      PROVE  Follows(last', Must', wire[c][n].line, Gone' \cup EndedIn(wire[c], 1, n))
    <2>1. Follows(last, Must, wire[c][n].line, Gone \cup EndedIn(wire[c], 1, n)) /\ wire[c][n].line \in Nat
        BY <1>1, StreamCells DEF StreamsOrder
    <2>2. \A m \in Must' : m \in Gone \cup EndedIn(wire[c], 1, n) => m \in Gone' \cup EndedIn(wire[c], 1, n)
        OBVIOUS
    <2> QED
        BY <2>1, <2>2, FollowsKept
<1>3. ASSUME NEW n \in 1..Len(part[c])
      PROVE  part[c][n].k # 0 /\ Follows(last', Must', part[c][n].line, Gone')
    <2>1. part[c][n].k # 0 /\ Follows(last, Must, part[c][n].line, Gone) /\ part[c][n].line \in Nat
        BY <1>1, StreamCells DEF StreamsOrder
    <2>2. \A m \in Must' : m \in Gone => m \in Gone'
        OBVIOUS
    <2> QED
        BY <2>1, <2>2, FollowsKept
<1> QED
    BY <1>2, <1>3

LEMMA BufferOrderKept ==
    ASSUME DInv, BufferOrder, Steady, UNCHANGED <<mem, head, tail>>,
           (SentWhole \cup Spilling) \cap Must' \subseteq SentWhole' \cup Spilling'
    PROVE  BufferOrder'
<1> SUFFICES ASSUME NEW i \in head..(tail - 1)
             PROVE  Follows(last', Must', mem[i].line, SentWhole' \cup EndedIn(mem, head, i) \cup Spilling')
    BY DEF BufferOrder
<1>1. mem[i].line \in Nat
    BY BufferCells DEF DInv
<1>2. Follows(last, Must, mem[i].line, SentWhole \cup EndedIn(mem, head, i) \cup Spilling)
    BY DEF BufferOrder
<1>3. \A m \in Must' : m \in SentWhole \cup EndedIn(mem, head, i) \cup Spilling
                          => m \in SentWhole' \cup EndedIn(mem, head, i) \cup Spilling'
    OBVIOUS
<1> QED
    BY <1>1, <1>2, <1>3, FollowsKept

LEMMA NextOrderKept ==
    ASSUME DInv, NextOrder, Steady, next' = next \/ next' = NoLine,
           (SentWhole \cup Queued) \cap Must' \subseteq SentWhole' \cup Queued'
    PROVE  NextOrder'
<1>1. CASE next' = next
    <2>1. next \in Nat
        BY LengthType DEF DInv, LineType, NoLine
    <2>2. \A m \in Must' : m \in SentWhole \cup Queued => m \in SentWhole' \cup Queued'
        OBVIOUS
    <2> QED
        BY <1>1, <2>1, <2>2, FollowsKept DEF NextOrder
<1>2. CASE next' = NoLine
    BY <1>2 DEF NextOrder, Follows, Steady, NoLine
<1> QED
    BY <1>1, <1>2

LEMMA WaitingOrderKept ==
    ASSUME DInv, WaitingOrder, Steady, UNCHANGED <<records, position>>,
           (SentWhole \cup Queued \cup {next}) \cap Must' \subseteq SentWhole' \cup Queued' \cup {next'}
    PROVE  WaitingOrder'
<1> SUFFICES ASSUME NEW i \in (position + 1)..Len(records)
             PROVE  Follows(last', Must', records[i],
                            SentWhole' \cup Queued' \cup {next'} \cup From(records, position + 1, i))
    BY DEF WaitingOrder
<1>1. records[i] \in Nat
    BY RecordType DEF DInv
<1>2. Follows(last, Must, records[i], SentWhole \cup Queued \cup {next} \cup From(records, position + 1, i))
    BY DEF WaitingOrder
<1>3. \A m \in Must' : m \in SentWhole \cup Queued \cup {next} \cup From(records, position + 1, i)
                          => m \in SentWhole' \cup Queued' \cup {next'} \cup From(records, position + 1, i)
    OBVIOUS
<1> QED
    BY <1>1, <1>2, <1>3, FollowsKept

LEMMA RecordsOrderKept ==
    ASSUME DInv, RecordsOrder, Steady, UNCHANGED records
    PROVE  RecordsOrder'
<1> SUFFICES ASSUME NEW i \in 1..Len(records)
             PROVE  Follows(last', Must' \cap In(records), records[i], From(records, 1, i))
    BY DEF RecordsOrder, In
<1>1. records[i] \in Nat
    BY RecordType DEF DInv
<1>2. Follows(last, Must \cap In(records), records[i], From(records, 1, i))
    BY DEF RecordsOrder
<1>3. records[i] <= last'
    BY <1>1, <1>2 DEF Follows, Steady
<1>4. ASSUME NEW m \in Must' \cap In(records), m < records[i] PROVE m \in From(records, 1, i)
    <2>1. m \in Must
        BY <1>1, <1>2, <1>4 DEF Follows, Steady
    <2> QED
        BY <1>2, <1>4, <2>1 DEF Follows
<1> QED
    BY <1>3, <1>4 DEF Follows

LEMMA QueueOrderKept ==
    ASSUME DInv, QueueOrder, UNCHANGED <<records, position, hasWal>>, pc' = "spill" <=> pc = "spill",
           Queued' \cup {next'} \subseteq Queued \cup {next, NoLine} \cup In(records)
    PROVE  QueueOrder'
<1>1. Waiting' = Waiting /\ In(records)' = In(records)
    BY DEF Waiting, In
<1> SUFFICES ASSUME hasWal, NEW m \in (Queued' \cup {next'}) \ {NoLine}
             PROVE  Placed(m, In(records), Waiting, pc = "spill")
    BY <1>1 DEF QueueOrder, Placed
<1>2. CASE m \in In(records)
    BY <1>2 DEF Placed
<1>3. CASE m \in (Queued \cup {next}) \ {NoLine}
    BY <1>3 DEF QueueOrder
<1> QED
    BY <1>2, <1>3

\* Only the thread, the time or the connections have moved
LEMMA OrderKept ==
    ASSUME DInv, Order, Steady,
           UNCHANGED <<wire, part, mem, head, tail, next, records, position, hasWal>>,
           pc' = "spill" <=> pc = "spill", Gone \subseteq Gone'
    PROVE  Order'
<1>1. SentWhole' = SentWhole /\ Queued' = Queued /\ Waiting' = Waiting /\ Spilling' = Spilling
    BY DEF SentWhole, SentOn, Queued, NewLines, Waiting, Spilling
<1>2. StreamsOrder'
    BY StreamsOrderKept DEF Order
<1>3. BufferOrder'
    BY <1>1, BufferOrderKept DEF Order
<1>4. NextOrder'
    BY <1>1, NextOrderKept DEF Order
<1>5. WaitingOrder'
    BY <1>1, WaitingOrderKept DEF Order
<1>6. RecordsOrder'
    BY RecordsOrderKept DEF Order
<1>7. QueueOrder'
    BY <1>1, QueueOrderKept DEF Order
<1> QED
    BY <1>2, <1>3, <1>4, <1>5, <1>6, <1>7 DEF Order

-----------------------------------------------------------------------------
(* What a step does to the lines which must come in order *)

LEMMA MustIsOlder ==
    ASSUME DInv
    PROVE  /\ last \in Nat
           /\ \A m \in Must : m \in owed /\ m \in Nat /\ m > 0 /\ m \in SentWhole \cup Queued \cup {next} \cup Waiting
<1>1. \A l \in Lines : l \in Nat /\ l > 0
    BY SocketAssumption DEF Lines
<1>2. last \in Nat
    BY <1>1 DEF DInv, LineType
<1> QED
    BY <1>1, <1>2 DEF DInv, LineType, Must, Kept

LEMMA ShrinksSteady ==
    ASSUME DInv, owed' \subseteq owed, last' = last, owed' \cap late \subseteq late'
    PROVE  Steady
<1>1. Must' \subseteq Must
    BY DEF Must
<1> QED
    BY <1>1, MustIsOlder DEF Steady

LEMMA SendSteady ==
    ASSUME DInv, Send
    PROVE  /\ Steady /\ late' = late /\ owed' \subseteq owed \cup {last'}
           /\ last' = last + 1 /\ last' \in Lines /\ last' \in Nat /\ last' > 0 /\ last \in Nat
<1>1. last' = last + 1 /\ last' \in Lines
    BY DEF Send
<1>2. last' \in Nat /\ last' > 0
    BY <1>1, SocketAssumption DEF Lines
<1>3. late' = late /\ owed' \subseteq owed \cup {last'}
    BY DEF Send, SendQueues, SendSpills, SendRefuses, history
<1>4. Must' \subseteq Must \cup {last'}
    BY <1>3 DEF Must
<1>5. last \in Nat /\ last < last'
    BY <1>1, MustIsOlder
<1> QED
    BY <1>1, <1>2, <1>3, <1>4, <1>5, MustIsOlder DEF Steady

\* A new line comes behind all others, as far as they wait nowhere else
LEMMA NewFollows ==
    ASSUME DInv, Send, pc # "put"
    PROVE  Follows(last', Must', last', SentWhole \cup Queued \cup Waiting)
<1>1. last' \in Nat /\ last' <= last' /\ Must' \subseteq Must \cup {last'}
    BY SendSteady DEF Must
<1>2. next = NoLine
    BY DEF DInv, Standing
<1>3. ASSUME NEW m \in Must', m < last' PROVE m \in SentWhole \cup Queued \cup Waiting
    <2>1. m \in Must
        BY <1>1, <1>3
    <2> QED
        BY <1>2, <2>1, MustIsOlder DEF NoLine
<1> QED
    BY <1>1, <1>3 DEF Follows

-----------------------------------------------------------------------------
(* The thread, the time and the connections *)

LEMMA ControlOrder ==
    ASSUME DInv, OInv,
           UNCHANGED <<sock, mem, head, tail, wire, part, owed, records, position, next, last, hasWal>>,
           owed' \cap late \subseteq late',
           pc' = "down" <=> pc = "down", pc' = "spill" <=> pc = "spill",
           ours' = ours, state' = "connected" <=> state = "connected"
    PROVE  OInv'
<1>1. Steady
    BY ShrinksSteady
<1>2. Gone' = Gone
    BY DEF Gone, SentOn
<1>3. Order'
    BY <1>1, <1>2, OrderKept DEF OInv
<1>4. Rests'
    <2>1. (Waiting \cap owed)' = Waiting \cap owed
        BY DEF Waiting
    <2> QED
        BY <2>1 DEF OInv, Rests
<1> QED
    BY <1>3, <1>4 DEF OInv

LEMMA DisconnectOrder ==
    ASSUME DInv, OInv, DisconnectAndReturn, pc \in {"pump", "send"}, UNCHANGED <<walVars, moved, next, last, late>>
    PROVE  OInv'
<1> USE DEF DisconnectAndReturn, Disconnect, CloseSocket, walVars
<1>1. pc' \in {"idle", "drain", "more", "flush"}
    BY DEF Return, DInv, ControlType, Returns
<1>2. Steady
    BY ShrinksSteady
<1>3. Gone \subseteq Gone'
    <2>1. \A c \in Connections : SentOn(c)' = SentOn(c)
        BY DEF SentOn
    <2> QED
        BY <2>1 DEF Gone
<1>4. Order'
    BY <1>1, <1>2, <1>3, OrderKept DEF OInv
<1>5. Rests'
    <2>1. (Waiting \cap owed)' = Waiting \cap owed
        BY DEF Waiting
    <2> QED
        BY <1>1, <2>1 DEF OInv, Rests
<1> QED
    BY <1>4, <1>5 DEF OInv

LEMMA ConnectedOrder ==
    ASSUME DInv, OInv, pc = "pump", state # "connected", NEW c \in Unused, Connected(c),
           UNCHANGED <<walVars, moved, next, last, late>>
    PROVE  OInv'
<1> USE DEF Connected, buffer, walVars
<1>1. Steady
    BY ShrinksSteady
<1>2. Gone \subseteq Gone'
    <2>1. \A d \in Connections : SentOn(d)' = SentOn(d)
        BY DEF SentOn
    <2>2. SentOn(c) = {}
        BY DEF Unused, SentOn
    <2> QED
        BY <2>1, <2>2 DEF Gone
<1>3. Order'
    BY <1>1, <1>2, OrderKept DEF OInv
<1>4. Rests'
    <2>1. (Waiting \cap owed)' = Waiting \cap owed
        BY DEF Waiting
    <2> QED
        BY <2>1 DEF OInv, Rests
<1> QED
    BY <1>3, <1>4 DEF OInv

\* FlushTimeout: the lines of the queue go behind the records
LEMMA TimeoutOrder ==
    ASSUME DInv, OInv, FlushTimeout
    PROVE  OInv'
<1> USE DEF FlushTimeout, Control, walVars, buffer, history, connections
<1>1. Steady
    BY ShrinksSteady
<1>2. /\ SentWhole' = SentWhole /\ Queued' = Queued /\ Waiting' = Waiting /\ In(records)' = In(records)
      /\ Gone' = Gone
    BY DEF SentWhole, SentOn, Queued, NewLines, Waiting, Gone, In
<1>3. StreamsOrder'
    BY <1>1, <1>2, StreamsOrderKept DEF OInv, Order
<1>4. BufferOrder'
    <2>1. Spilling = {}
        BY DEF Spilling
    <2> QED
        BY <1>1, <1>2, <2>1, BufferOrderKept DEF OInv, Order
<1>5. NextOrder'
    BY <1>1, <1>2, NextOrderKept DEF OInv, Order
<1>6. WaitingOrder'
    BY <1>1, <1>2, WaitingOrderKept DEF OInv, Order
<1>7. RecordsOrder'
    BY <1>1, RecordsOrderKept DEF OInv, Order
<1>8. QueueOrder'
    <2> SUFFICES ASSUME NEW m \in (Queued \cup {next}) \ {NoLine}
                 PROVE  Placed(m, In(records), Waiting, TRUE)
        BY <1>2 DEF QueueOrder
    <2>1. Placed(m, In(records), Waiting, FALSE)
        BY DEF OInv, Order, QueueOrder
    <2>2. CASE m \in In(records)
        BY <2>2 DEF Placed
    <2>3. CASE \A r \in In(records) : m < r
        <3>1. CASE records = << >>
            BY <3>1 DEF In, Placed
        <3>2. CASE records # << >>
            <4>1. position + 1 \in (position + 1)..Len(records)
                BY <3>2, RecordType DEF OInv, Rests, DInv
            <4>2. records[position + 1] \in Waiting
                BY <4>1 DEF Waiting
            <4> QED
                BY <4>2, <2>3, RecordType DEF Placed, DInv
        <3> QED
            BY <3>1, <3>2
    <2> QED
        BY <2>1, <2>2, <2>3 DEF Placed
<1>9. Rests'
    BY DEF OInv, Rests
<1> QED
    BY <1>3, <1>4, <1>5, <1>6, <1>7, <1>8, <1>9 DEF OInv, Order

\* A program without its WAL lets the lines which wait there come late
LEMMA StartOrder ==
    ASSUME DInv, OInv, Start
    PROVE  OInv'
<1> USE DEF Start, buffer, connections
<1>1. Steady
    BY ShrinksSteady
<1>2. /\ SentWhole' = SentWhole /\ Queued' = Queued /\ Waiting' = Waiting /\ In(records)' = In(records)
      /\ Gone' = Gone /\ Spilling' = {} /\ Spilling = {}
    BY DEF SentWhole, SentOn, Queued, NewLines, Waiting, Gone, In, Spilling
<1>3. StreamsOrder'
    BY <1>1, <1>2, StreamsOrderKept DEF OInv, Order
<1>4. BufferOrder'
    BY <1>1, <1>2, BufferOrderKept DEF OInv, Order
<1>5. NextOrder'
    BY <1>1, <1>2, NextOrderKept DEF OInv, Order
<1>6. WaitingOrder'
    BY <1>1, <1>2, WaitingOrderKept DEF OInv, Order
<1>7. RecordsOrder'
    BY <1>1, RecordsOrderKept DEF OInv, Order
<1>8. QueueOrder'
    <2>1. head = tail /\ head \in Nat
        BY DEF OInv, Rests, DInv, Buffered
    <2>2. Queued = {}
        BY <2>1 DEF Queued, NewLines
    <2>3. next = NoLine
        BY DEF DInv, Standing
    <2> QED
        BY <1>2, <2>2, <2>3 DEF QueueOrder
<1>9. Rests'
    BY <1>2 DEF OInv, Rests
<1> QED
    BY <1>3, <1>4, <1>5, <1>6, <1>7, <1>8, <1>9 DEF OInv, Order

-----------------------------------------------------------------------------
(* A line comes into the queue, or into the WAL *)

\* What is moved with its lines
Moved(m, h, t, n, g) == \A i \in h..(t - 1) : n[i - h + g] = m[i]

LEMMA EndedMoved ==
    ASSUME NEW m, NEW h \in Int, NEW t \in Int, NEW n, NEW g \in Int, Moved(m, h, t, n, g),
           NEW i \in Int, i <= t, NEW j \in Int, i - h + g <= j
    PROVE  EndedIn(m, h, i) \subseteq EndedIn(n, g, j)
<1> SUFFICES ASSUME NEW e \in Ends(m, h, i)
             PROVE  m[e].line \in EndedIn(n, g, j)
    BY DEF EndedIn
<1>1. e \in h..(t - 1) /\ e <= i - 1 /\ m[e].k = 0
    BY DEF Ends
<1>2. n[e - h + g] = m[e]
    BY <1>1 DEF Moved
<1>3. e - h + g \in g..(j - 1)
    BY <1>1
<1>4. e - h + g \in Ends(n, g, j)
    BY <1>1, <1>2, <1>3 DEF Ends
<1> QED
    BY <1>2, <1>4 DEF EndedIn

LEMMA EnqueueMoves ==
    ASSUME Buffered, NEW l \in Lines, HasRoom(l), Enqueue(l)
    PROVE  /\ head' \in Nat /\ tail' = head' + (tail - head) + (Length[l] + 1)
           /\ Moved(mem, head, tail, mem', head')
           /\ \A k \in 1..(Length[l] + 1) : mem'[head' + (tail - head) + k - 1] = Whole(l)[k]
<1> DEFINE h == IF tail + Length[l] + 1 > QueueBytes THEN 0 ELSE head
           t == h + tail - head
           len == Length[l]
<1>1. len \in Nat /\ len > 0 /\ QueueBytes \in Nat
    BY LengthType, SocketAssumption
<1>2. /\ head \in Nat /\ sendPos \in Nat /\ tail \in Nat
      /\ head <= sendPos /\ sendPos <= tail /\ tail <= QueueBytes
    BY DEF Buffered
<1>3. h \in Nat /\ t \in Nat /\ h <= t /\ t + len + 1 <= QueueBytes
    BY <1>1, <1>2 DEF HasRoom
<1>4. /\ head' = h /\ tail' = t + len + 1
      /\ mem' = [i \in DOMAIN mem |->
                    IF i < h \/ i >= t + len + 1 THEN Free
                    ELSE IF i < t THEN mem[i - h + head] ELSE Whole(l)[i - t + 1]]
    BY DEF Enqueue
<1>5. DOMAIN mem = 0..(QueueBytes - 1)
    BY DEF Buffered
<1> HIDE DEF h, len
<1>6. Moved(mem, head, tail, mem', h)
    <2> SUFFICES ASSUME NEW i \in head..(tail - 1) PROVE mem'[i - head + h] = mem[i]
        BY DEF Moved
    <2>1. i - head + h \in DOMAIN mem /\ ~(i - head + h < h \/ i - head + h >= t + len + 1) /\ i - head + h < t
        BY <1>1, <1>2, <1>3, <1>5
    <2>2. (i - head + h) - h + head = i
        BY <1>2, <1>3
    <2> QED
        BY <1>4, <2>1, <2>2
<1>7. \A k \in 1..(len + 1) : mem'[t + k - 1] = Whole(l)[k]
    <2> SUFFICES ASSUME NEW k \in 1..(len + 1) PROVE mem'[t + k - 1] = Whole(l)[k]
        OBVIOUS
    <2>1. t + k - 1 \in DOMAIN mem /\ ~(t + k - 1 < h \/ t + k - 1 >= t + len + 1) /\ ~(t + k - 1 < t)
        BY <1>1, <1>3, <1>5
    <2>2. (t + k - 1) - t + 1 = k
        BY <1>3
    <2> QED
        BY <1>4, <2>1, <2>2
<1>8. t = h + (tail - head) /\ t + len + 1 = t + (len + 1)
    BY <1>1, <1>2, <1>3
<1> HIDE DEF t
<1>9. /\ head' \in Nat /\ tail' = head' + (tail - head) + (len + 1) /\ Moved(mem, head, tail, mem', head')
      /\ \A k \in 1..(len + 1) : mem'[head' + (tail - head) + k - 1] = Whole(l)[k]
    BY <1>3, <1>4, <1>6, <1>7, <1>8
<1> QED
    BY <1>9 DEF len

LEMMA BehindIs ==
    ASSUME NEW h \in Nat, NEW n \in Nat, NEW len \in Nat, NEW i \in Int, h <= i, i < h + n + len
    PROVE  i < h + n \/ \E k \in 1..len : h + n + k - 1 = i /\ n + h <= i
<1> SUFFICES ASSUME h + n <= i PROVE \E k \in 1..len : h + n + k - 1 = i /\ n + h <= i
    OBVIOUS
<1>1. i - (h + n) + 1 \in 1..len /\ h + n + (i - (h + n) + 1) - 1 = i /\ n + h <= i
    OBVIOUS
<1> QED
    BY <1>1

LEMMA BeforeIs ==
    ASSUME NEW h \in Int, NEW a \in Int, NEW t \in Int, NEW i \in Int, h <= i, i < h + (t - a)
    PROVE  LET j == i - h + a
           IN  j \in a..(t - 1) /\ j \in Int /\ j <= t /\ j - a + h = i /\ j - a + h <= i
OBVIOUS

LEMMA EnqueueOrder ==
    ASSUME DInv, BufferOrder, Steady, NEW l \in Lines, HasRoom(l), Enqueue(l),
           SentWhole' = SentWhole, pc # "spill",
           Follows(last', Must', l, SentWhole \cup Queued)
    PROVE  BufferOrder'
<1> SUFFICES ASSUME NEW i \in head'..(tail' - 1)
             PROVE  Follows(last', Must', mem'[i].line, SentWhole' \cup EndedIn(mem', head', i) \cup Spilling')
    BY DEF BufferOrder
<1> DEFINE n == tail - head
           len == Length[l] + 1
<1>1. /\ head' \in Nat /\ tail' = head' + n + len
      /\ Moved(mem, head, tail, mem', head')
      /\ \A k \in 1..len : mem'[head' + n + k - 1] = Whole(l)[k]
    BY EnqueueMoves DEF DInv
<1>2. head \in Nat /\ tail \in Nat /\ head <= tail /\ n \in Nat /\ len \in Nat /\ n = tail - head
    <2>1. head \in Nat /\ tail \in Nat /\ head <= tail
        BY DEF DInv, Buffered
    <2> QED
        BY <2>1, LengthType
<1>3. Spilling = {} /\ Queued = EndedIn(mem, head, tail)
    BY QueuedIs DEF Spilling, EndedIn
<1> HIDE DEF n, len
<1>4. i \in Int /\ head' <= i /\ i < head' + n + len
    BY <1>1, <1>2
<1>5. head' \in Nat /\ head' \in Int
    BY <1>1
<1>6. CASE i < head' + n
    <2> DEFINE j == i - head' + head
    <2>1. j \in head..(tail - 1) /\ j \in Int /\ j <= tail /\ j - head + head' = i /\ j - head + head' <= i
        <3>1. head \in Int /\ tail \in Int /\ head' \in Int /\ i \in Int /\ head' <= i
            BY <1>2, <1>4, <1>5
        <3>2. i < head' + (tail - head)
            BY <1>2, <1>6
        <3> QED
            BY <3>1, <3>2, BeforeIs
    <2>2. mem'[i] = mem[j]
        BY <1>1, <2>1 DEF Moved
    <2> HIDE DEF j
    <2>3. Follows(last, Must, mem[j].line, SentWhole \cup EndedIn(mem, head, j) \cup Spilling) /\ mem[j].line \in Nat
        BY <2>1, BufferCells DEF DInv, BufferOrder
    <2>4. EndedIn(mem, head, j) \subseteq EndedIn(mem', head', i)
        BY <1>1, <1>2, <1>4, <2>1, EndedMoved
    <2>5. \A m \in Must' : m \in SentWhole \cup EndedIn(mem, head, j) \cup Spilling
                              => m \in SentWhole' \cup EndedIn(mem', head', i) \cup Spilling'
        BY <1>3, <2>4
    <2>6. Follows(last', Must', mem[j].line, SentWhole' \cup EndedIn(mem', head', i) \cup Spilling')
        BY <2>3, <2>5, FollowsKept
    <2> QED
        BY <2>2, <2>6
<1>7. ASSUME NEW k \in 1..len, head' + n + k - 1 = i, tail - head + head' <= i
      PROVE  Follows(last', Must', mem'[i].line, SentWhole' \cup EndedIn(mem', head', i) \cup Spilling')
    <2>1. mem'[i] = Whole(l)[k]
        BY <1>1, <1>7
    <2>2. Whole(l)[k].line = l
        <3>1. k \in 1..Length[l] \/ k = Length[l] + 1
            BY <1>7, LengthType DEF len
        <3> QED
            BY <3>1, WholeIs, LineCells
    <2>3. EndedIn(mem, head, tail) \subseteq EndedIn(mem', head', i)
        <3>1. i \in Int
            BY <1>4
        <3>2. head \in Int /\ tail \in Int /\ tail <= tail
            BY <1>2
        <3>3. head' \in Int
            BY <1>5
        <3>4. tail - head + head' <= i
            BY <1>7
        <3> QED
            BY <1>1, <3>1, <3>2, <3>3, <3>4, EndedMoved
    <2> QED
        BY <1>3, <2>1, <2>2, <2>3 DEF Follows
<1>8. i < head' + n \/ \E k \in 1..len : head' + n + k - 1 = i /\ n + head' <= i
    <2>1. n \in Nat /\ len \in Nat
        BY <1>2
    <2>2. i \in Int /\ head' <= i /\ i < head' + n + len
        BY <1>4
    <2> QED
        BY <1>5, <2>1, <2>2, BehindIs, Zenon
<1> QED
    BY <1>2, <1>6, <1>7, <1>8

LEMMA SendQueuesOrder ==
    ASSUME DInv, OInv, Send, SendQueues(last')
    PROVE  OInv'
<1> DEFINE l == last'
<1>1. /\ pc = "idle" /\ l \in Lines /\ pc' = "pump"
      /\ UNCHANGED <<state, sock, connections, next>>
    BY DEF Send, CallPump
<1>2. /\ HasRoom(l) /\ Enqueue(l) /\ owed' = owed \cup {l} /\ UNCHANGED <<walVars, history>>
      /\ hasWal => ~IsReplayPending
    BY DEF SendQueues, FastPath
<1>3. Steady /\ last \in Nat /\ l = last + 1
    BY SendSteady
<1>4. next = NoLine /\ next' = NoLine
    BY <1>1 DEF DInv, Standing
<1>5. /\ SentWhole' = SentWhole /\ Gone' = Gone /\ Waiting' = Waiting
      /\ UNCHANGED <<wire, part, records, position>>
    BY <1>1, <1>2 DEF SentWhole, SentOn, Gone, Waiting, connections, walVars
<1>6. Queued' = Queued \cup {l}
    BY <1>1, <1>2, EnqueueKeeps DEF DInv
<1>7. l \notin Waiting
    <2>1. \A m \in Waiting : m <= last /\ m \in Nat
        BY RecordType, LengthType DEF DInv, Moves, LineType
    <2> QED
        BY <1>3, <2>1
<1>8. hasWal => records = << >>
    BY <1>2, RecordType DEF OInv, Rests, IsReplayPending, DInv
<1>9. Waiting \cap Must' = {}
    <2>1. CASE hasWal
        <3>1. Waiting = {}
            <4>1. Len(records) = 0
                BY <1>8, <2>1
            <4>2. \A i \in (position + 1)..Len(records) : FALSE
                BY <4>1, RecordType DEF DInv
            <4> QED
                BY <4>2 DEF Waiting
        <3> QED
            BY <3>1
    <2>2. CASE ~hasWal
        <3>1. Waiting \cap owed \subseteq late
            BY <1>1, <2>2 DEF OInv, Rests
        <3> QED
            BY <3>1, <1>2, <1>7 DEF Must, history
    <2> QED
        BY <2>1, <2>2
<1>10. Follows(last', Must', l, SentWhole \cup Queued)
    <2>1. Follows(last', Must', last', SentWhole \cup Queued \cup Waiting)
        BY <1>1, NewFollows
    <2> QED
        BY <1>9, <2>1 DEF Follows
<1>11. StreamsOrder'
    BY <1>3, <1>5, StreamsOrderKept DEF OInv, Order
<1>12. BufferOrder'
    BY <1>1, <1>2, <1>3, <1>5, <1>10, EnqueueOrder DEF OInv, Order
<1>13. NextOrder'
    BY <1>3, <1>4, <1>5, <1>6, NextOrderKept DEF OInv, Order
<1>14. WaitingOrder'
    BY <1>3, <1>4, <1>5, <1>6, WaitingOrderKept DEF OInv, Order
<1>15. RecordsOrder'
    BY <1>3, <1>5, RecordsOrderKept DEF OInv, Order
<1>16. QueueOrder'
    <2>1. hasWal' => In(records)' = {}
        BY <1>2, <1>8 DEF In, walVars
    <2> QED
        BY <1>1, <2>1 DEF QueueOrder, Placed
<1>17. Rests'
    BY <1>1, <1>2, <1>5, <1>7 DEF OInv, Rests, connections, walVars, history
<1> QED
    BY <1>11, <1>12, <1>13, <1>14, <1>15, <1>16, <1>17 DEF OInv, Order

LEMMA FromAppend ==
    ASSUME LineType, NEW l \in Lines, WalAppend(l)
    PROVE  /\ Len(records') = Len(records) + 1 /\ position' = position
           /\ records'[Len(records) + 1] = l
           /\ \A i \in 1..Len(records) : records'[i] = records[i]
           /\ \A a \in 1..(Len(records) + 1) : \A i \in 1..(Len(records) + 1) :
                  From(records', a, i) = From(records, a, i)
<1> DEFINE n == Len(records)
<1>1. records' = Append(records, l) /\ position' = position /\ records \in Seq(Lines) /\ n \in Nat
    BY DEF WalAppend, LineType
<1>2. Len(records') = n + 1 /\ records'[n + 1] = l /\ \A i \in 1..n : records'[i] = records[i]
    BY <1>1
<1>3. ASSUME NEW a \in 1..(n + 1), NEW i \in 1..(n + 1)
      PROVE  From(records', a, i) = From(records, a, i)
    <2>1. \A j \in a..(i - 1) : j \in 1..n
        BY <1>1
    <2> HIDE DEF n
    <2>2. \A j \in a..(i - 1) : records'[j] = records[j]
        BY <1>2, <2>1
    <2> QED
        BY <2>2 DEF From
<1> QED
    BY <1>1, <1>2, <1>3

LEMMA SendOtherOrder ==
    ASSUME DInv, OInv, Send, SendSpills(last') \/ SendRefuses(last')
    PROVE  OInv'
<1> DEFINE l == last'
           n == Len(records)
<1>1. /\ pc = "idle" /\ l \in Lines /\ pc' = "pump"
      /\ UNCHANGED <<state, sock, connections, next>>
    BY DEF Send, CallPump
<1>2. Steady /\ last \in Nat /\ l = last + 1
    BY SendSteady
<1>3. UNCHANGED <<mem, head, tail, hasWal, late>>
    BY DEF SendSpills, SendRefuses, WalAppend, walVars, history, buffer
<1>4. /\ SentWhole' = SentWhole /\ Gone' = Gone /\ Queued' = Queued
      /\ UNCHANGED <<wire, part, ours>> /\ Spilling = {}
    BY <1>1, <1>3 DEF SentWhole, SentOn, Gone, connections, Queued, NewLines, Spilling
<1>5. next = NoLine /\ next' = NoLine
    BY <1>1 DEF DInv, Standing
<1>6. CASE SendRefuses(l)
    <2>1. UNCHANGED <<owed, records, position>>
        BY <1>6 DEF SendRefuses, walVars
    <2>2. Order'
        BY <1>1, <1>2, <1>3, <1>4, <2>1, OrderKept DEF OInv
    <2>3. Rests'
        <3>1. Waiting' = Waiting
            BY <2>1 DEF Waiting
        <3> QED
            BY <1>1, <1>3, <1>4, <2>1, <3>1 DEF OInv, Rests
    <2> QED
        BY <2>2, <2>3 DEF OInv
<1>7. CASE SendSpills(l)
    <2>1. hasWal /\ WalAppend(l)
        BY <1>7 DEF SendSpills
    <2>2. /\ n \in Nat /\ Len(records') = n + 1 /\ position' = position /\ records'[n + 1] = l
          /\ \A i \in 1..n : records'[i] = records[i]
          /\ \A a \in 1..(n + 1) : \A i \in 1..(n + 1) : From(records', a, i) = From(records, a, i)
        BY <1>1, <2>1, FromAppend, RecordType DEF DInv
    <2>3. In(records') = In(records) \cup {l} /\ Waiting' = Waiting \cup {l}
        BY <1>1, <2>1, WaitingAppend DEF DInv
    <2>4. position \in Nat /\ position <= n /\ In(records) = From(records, 1, n + 1) /\ Waiting = From(records, position + 1, n + 1)
        BY RecordType DEF DInv
    <2>5. Follows(last', Must', l, SentWhole \cup Queued \cup Waiting)
        BY <1>1, NewFollows
    <2>6. StreamsOrder'
        BY <1>2, <1>4, StreamsOrderKept DEF OInv, Order
    <2>7. BufferOrder'
        BY <1>2, <1>3, <1>4, BufferOrderKept DEF OInv, Order
    <2>8. NextOrder'
        BY <1>2, <1>4, <1>5, NextOrderKept DEF OInv, Order
    <2> HIDE DEF l, n
    <2>9. WaitingOrder'
        <3> SUFFICES ASSUME NEW i \in (position + 1)..(n + 1)
                     PROVE  Follows(last', Must', records'[i],
                                    SentWhole \cup Queued \cup {NoLine} \cup From(records', position + 1, i))
            BY <1>4, <1>5, <2>2 DEF WaitingOrder
        <3>1. From(records', position + 1, i) = From(records, position + 1, i)
            BY <2>2, <2>4
        <3>2. CASE i = n + 1
            BY <2>2, <2>4, <2>5, <3>1, <3>2 DEF Follows
        <3>3. CASE i # n + 1
            <4>1. i \in (position + 1)..n /\ i \in 1..n
                BY <2>2, <2>4, <3>3
            <4>2. records'[i] = records[i] /\ records[i] \in Nat
                BY <2>2, <4>1, RecordType DEF DInv, n
            <4>3. Follows(last, Must, records[i],
                          SentWhole \cup Queued \cup {NoLine} \cup From(records, position + 1, i))
                BY <1>5, <4>1 DEF OInv, Order, WaitingOrder, n
            <4> QED
                BY <1>2, <3>1, <4>2, <4>3, FollowsKept
        <3> QED
            BY <3>2, <3>3
    <2>10. RecordsOrder'
        <3> SUFFICES ASSUME NEW i \in 1..(n + 1)
                     PROVE  Follows(last', Must' \cap In(records'), records'[i], From(records', 1, i))
            BY <2>2 DEF RecordsOrder, In
        <3>1. From(records', 1, i) = From(records, 1, i)
            BY <2>2
        <3>2. CASE i = n + 1
            <4>1. records'[i] = l /\ l <= last' /\ l \in Nat
                BY <1>2, <2>2, <3>2 DEF l
            <4> QED
                BY <2>3, <2>4, <3>1, <3>2, <4>1 DEF Follows
        <3>3. CASE i # n + 1
            <4>1. i \in 1..n
                BY <2>2, <3>3
            <4>2. records'[i] = records[i] /\ records[i] \in Nat
                BY <2>2, <4>1, RecordType DEF DInv, n
            <4>3. Follows(last, Must \cap In(records), records[i], From(records, 1, i))
                BY <4>1 DEF OInv, Order, RecordsOrder, n
            <4>4. records[i] <= last /\ records[i] <= last' /\ records[i] < l
                BY <1>2, <4>2, <4>3 DEF Follows, Steady
            <4>5. ASSUME NEW m \in Must' \cap In(records'), m < records[i] PROVE m \in From(records, 1, i)
                <5>1. m \in Nat /\ (m \in Must \/ m > last)
                    BY <1>2 DEF Steady
                <5>2. m # l /\ m \in Must
                    BY <1>2, <4>2, <4>4, <4>5, <5>1
                <5> QED
                    BY <2>3, <4>3, <4>5, <5>2 DEF Follows
            <4> QED
                BY <3>1, <4>2, <4>4, <4>5 DEF Follows
        <3> QED
            BY <3>2, <3>3
    <2>11. QueueOrder'
        <3> SUFFICES ASSUME NEW m \in Queued
                     PROVE  Placed(m, In(records) \cup {l}, Waiting \cup {l}, FALSE)
            BY <1>1, <1>4, <1>5, <2>3 DEF QueueOrder, In
        <3>1. m # NoLine /\ m \in Nat /\ m <= last
            BY QueuedType, LengthType DEF DInv, Moves
        <3>2. Placed(m, In(records), Waiting, FALSE)
            BY <1>1, <2>1, <3>1 DEF OInv, Order, QueueOrder
        <3>3. m < l
            BY <1>2, <3>1
        <3> QED
            BY <3>2, <3>3 DEF Placed
    <2>12. Rests'
        <3>1. position' < Len(records')
            BY <2>2, <2>4
        <3> QED
            BY <1>1, <1>3, <1>4, <2>1, <3>1 DEF OInv, Rests
    <2> QED
        BY <2>6, <2>7, <2>8, <2>9, <2>10, <2>11, <2>12 DEF OInv, Order
<1> QED
    BY <1>6, <1>7

-----------------------------------------------------------------------------
(* The queue is filled from the WAL *)

LEMMA TakeOrder ==
    ASSUME DInv, OInv, Take
    PROVE  OInv'
<1> DEFINE l == records[position + 1]
           n == Len(records)
<1>1. /\ pc = "take" /\ next' = l /\ pc' = "put" /\ WalAck /\ position < n
      /\ UNCHANGED <<state, sock, connections, owed, last, buffer, late>>
    BY DEF Take, IsReplayPending, Control, history
<1>2. Steady
    BY <1>1, ShrinksSteady
<1>3. /\ SentWhole' = SentWhole /\ Gone' = Gone /\ Queued' = Queued
      /\ UNCHANGED <<wire, part, ours, mem, head, tail>> /\ Spilling = {} /\ Spilling' = {} /\ Must' = Must
    BY <1>1 DEF SentWhole, SentOn, Gone, connections, Queued, NewLines, Spilling, buffer, Must
<1>4. next = NoLine
    BY <1>1 DEF DInv, Standing
<1>5. /\ n \in Nat /\ position \in Nat /\ position + 1 \in 1..n /\ position + 1 \in (position + 1)..n
      /\ \A i \in 1..n : records[i] \in Nat
    BY <1>1, RecordType DEF DInv
<1>6. \/ records' = << >> /\ position' = 0 /\ hasWal' = hasWal
      \/ records' = records /\ position' = position + 1 /\ hasWal' = hasWal /\ position + 1 < n
    BY <1>1, <1>5 DEF WalAck
<1>7. \A m \in Must : m # NoLine
    BY MustIsOlder DEF NoLine
<1>8. StreamsOrder'
    BY <1>2, <1>3, StreamsOrderKept DEF OInv, Order
<1>9. BufferOrder'
    BY <1>2, <1>3, BufferOrderKept DEF OInv, Order
<1>10. NextOrder'
    <2>1. Follows(last, Must, l, SentWhole \cup Queued \cup {NoLine} \cup From(records, position + 1, position + 1))
        BY <1>4, <1>5 DEF OInv, Order, WaitingOrder
    <2>2. From(records, position + 1, position + 1) = {}
        BY <1>5 DEF From
    <2>3. \A m \in Must' : m \in SentWhole \cup Queued \cup {NoLine} \cup From(records, position + 1, position + 1)
                              => m \in SentWhole' \cup Queued'
        BY <1>3, <1>7, <2>2
    <2>4. l \in Nat
        BY <1>5
    <2> HIDE DEF l
    <2>5. Follows(last', Must', l, SentWhole' \cup Queued')
        BY <1>2, <2>1, <2>3, <2>4, FollowsKept
    <2> QED
        BY <1>1, <2>5 DEF NextOrder
<1>11. WaitingOrder'
    <2>1. CASE records' = << >> /\ position' = 0
        <3>1. \A i \in (position' + 1)..Len(records') : FALSE
            BY <2>1
        <3> QED
            BY <3>1 DEF WaitingOrder
    <2>2. CASE records' = records /\ position' = position + 1
        <3> SUFFICES ASSUME NEW i \in (position + 1 + 1)..n
                     PROVE  Follows(last', Must', records[i],
                                    SentWhole \cup Queued \cup {l} \cup From(records, position + 1 + 1, i))
            BY <1>1, <1>3, <2>2 DEF WaitingOrder
        <3>1. i \in (position + 1)..n /\ i \in 1..n
            BY <1>5
        <3>2. From(records, position + 1, i) \subseteq {l} \cup From(records, position + 1 + 1, i)
            <4>1. (position + 1)..(i - 1) \subseteq {position + 1} \cup (position + 1 + 1)..(i - 1)
                BY <1>5
            <4> QED
                BY <4>1 DEF From
        <3>3. Follows(last, Must, records[i], SentWhole \cup Queued \cup {NoLine} \cup From(records, position + 1, i))
            BY <1>4, <3>1 DEF OInv, Order, WaitingOrder
        <3>4. \A m \in Must' : m \in SentWhole \cup Queued \cup {NoLine} \cup From(records, position + 1, i)
                                  => m \in SentWhole \cup Queued \cup {l} \cup From(records, position + 1 + 1, i)
            BY <1>3, <1>7, <3>2
        <3> QED
            BY <1>2, <1>5, <3>1, <3>3, <3>4, FollowsKept
    <2> QED
        BY <1>6, <2>1, <2>2
<1>12. RecordsOrder'
    <2>1. CASE records' = << >>
        BY <2>1 DEF RecordsOrder
    <2>2. CASE records' = records
        BY <2>2, <1>2, RecordsOrderKept DEF OInv, Order
    <2> QED
        BY <1>6, <2>1, <2>2
<1>13. QueueOrder'
    <2> SUFFICES ASSUME hasWal, NEW m \in (Queued \cup {l}) \ {NoLine}
                 PROVE  Placed(m, In(records'), Waiting', FALSE)
        BY <1>1, <1>3, <1>6 DEF QueueOrder, In
    <2>1. CASE records' = << >>
        BY <2>1 DEF In, Placed
    <2>2. CASE records' = records
        <3>1. l \in In(records)
            BY <1>5, RecordType DEF In, DInv, LineType
        <3>2. CASE m = l
            BY <2>2, <3>1, <3>2 DEF Placed
        <3>3. CASE m \in Queued \ {NoLine}
            <4>1. Placed(m, In(records), Waiting, FALSE)
                BY <1>1, <3>3 DEF OInv, Order, QueueOrder
            <4> QED
                BY <2>2, <4>1 DEF Placed
        <3> QED
            BY <3>2, <3>3
    <2> QED
        BY <1>6, <2>1, <2>2
<1>14. Rests'
    <2>1. records' # << >> => position' < Len(records')
        BY <1>6
    <2>2. Waiting' \subseteq Waiting
        <3>1. CASE records' = << >> /\ position' = 0
            BY <3>1 DEF Waiting
        <3>2. CASE records' = records /\ position' = position + 1
            <4>1. (position + 1 + 1)..n \subseteq (position + 1)..n
                BY <1>5
            <4> QED
                BY <3>2, <4>1 DEF Waiting
        <3> QED
            BY <1>6, <3>1, <3>2
    <2> QED
        BY <1>1, <1>3, <1>6, <2>1, <2>2 DEF OInv, Rests
<1> QED
    BY <1>8, <1>9, <1>10, <1>11, <1>12, <1>13, <1>14 DEF OInv, Order

LEMMA PutOrder ==
    ASSUME DInv, OInv, Put
    PROVE  OInv'
<1>1. /\ pc = "put" /\ Enqueue(next) /\ next' = NoLine /\ pc' = "take"
      /\ UNCHANGED <<state, sock, connections, owed, last, hasWal, records, position, late>>
    BY DEF Put, Control, walVars, history
<1>2. next \in Lines /\ HasRoom(next)
    BY <1>1 DEF DInv, Standing, LineType
<1>3. Steady
    BY <1>1, ShrinksSteady
<1>4. /\ SentWhole' = SentWhole /\ Gone' = Gone /\ Waiting' = Waiting /\ Must' = Must
      /\ UNCHANGED <<wire, part, ours>>
    BY <1>1 DEF SentWhole, SentOn, Gone, connections, Waiting, Must
<1>5. Queued' = Queued \cup {next}
    BY <1>1, <1>2, EnqueueKeeps DEF DInv
<1>6. StreamsOrder'
    BY <1>3, <1>4, <1>1, StreamsOrderKept DEF OInv, Order
<1>7. BufferOrder'
    <2>1. Follows(last', Must', next, SentWhole \cup Queued)
        BY <1>1, <1>4 DEF OInv, Order, NextOrder
    <2> QED
        BY <1>1, <1>2, <1>3, <1>4, <2>1, EnqueueOrder DEF OInv, Order
<1>8. NextOrder'
    BY <1>1, <1>3, <1>4, <1>5, NextOrderKept DEF OInv, Order
<1>9. WaitingOrder'
    BY <1>1, <1>3, <1>4, <1>5, WaitingOrderKept DEF OInv, Order
<1>10. RecordsOrder'
    BY <1>1, <1>3, RecordsOrderKept DEF OInv, Order
<1>11. QueueOrder'
    BY <1>1, <1>5, QueueOrderKept DEF OInv, Order
<1>12. Rests'
    BY <1>1, <1>4 DEF OInv, Rests
<1> QED
    BY <1>6, <1>7, <1>8, <1>9, <1>10, <1>11, <1>12 DEF OInv, Order

-----------------------------------------------------------------------------
(* Lines leave the queue *)

\* The first cells of the buffer are free now, up to g
LEMMA ForwardMoves ==
    ASSUME Buffered, NEW g \in Int, NEW s, NEW n, Forward(g, s, n), head <= g, g <= tail
    PROVE  \/ head' = 0 /\ tail' = 0
           \/ head' = g /\ tail' = tail /\ Moved(mem, g, tail, mem', g)
<1>1. /\ mem \in [0..(QueueBytes - 1) -> Cells \cup {Free}]
      /\ head \in Nat /\ tail \in Nat /\ tail <= QueueBytes /\ QueueBytes \in Nat
    BY SocketAssumption DEF Buffered
<1>2. mem' = [i \in DOMAIN mem |-> IF i < g THEN Free ELSE mem[i]]
    BY DEF Forward
<1>3. \A i \in g..(tail - 1) : i - g + g = i /\ mem'[i] = mem[i]
    BY <1>1, <1>2
<1> QED
    BY <1>3 DEF Forward, Moved

LEMMA ForwardOrder ==
    ASSUME DInv, BufferOrder, Steady, NEW g \in Int, NEW s, NEW n, Forward(g, s, n), head <= g, g <= tail,
           (SentWhole \cup EndedIn(mem, head, g) \cup Spilling) \cap Must' \subseteq SentWhole' \cup Spilling'
    PROVE  BufferOrder'
<1>1. CASE head' = 0 /\ tail' = 0
    BY <1>1 DEF BufferOrder
<1>2. CASE head' = g /\ tail' = tail /\ Moved(mem, g, tail, mem', g)
    <2> SUFFICES ASSUME NEW i \in g..(tail - 1)
                 PROVE  Follows(last', Must', mem'[i].line, SentWhole' \cup EndedIn(mem', g, i) \cup Spilling')
        BY <1>2 DEF BufferOrder
    <2>1. head \in Nat /\ tail \in Nat /\ i \in head..(tail - 1) /\ i - g + g = i /\ i \in Int /\ i <= tail
        BY DEF DInv, Buffered
    <2>2. mem'[i] = mem[i]
        BY <1>2, <2>1 DEF Moved
    <2>3. Follows(last, Must, mem[i].line, SentWhole \cup EndedIn(mem, head, i) \cup Spilling) /\ mem[i].line \in Nat
        BY <2>1, BufferCells DEF DInv, BufferOrder
    <2>4. EndedIn(mem, head, i) \subseteq EndedIn(mem, head, g) \cup EndedIn(mem, g, i)
        <3>1. Ends(mem, head, i) \subseteq Ends(mem, head, g) \cup Ends(mem, g, i)
            BY <2>1 DEF Ends
        <3> QED
            BY <3>1 DEF EndedIn
    <2>5. EndedIn(mem, g, i) \subseteq EndedIn(mem', g, i)
        <3>1. tail \in Int /\ g \in Int /\ i - g + g <= i
            BY <2>1
        <3> QED
            BY <1>2, <2>1, <3>1, EndedMoved
    <2>6. \A m \in Must' : m \in SentWhole \cup EndedIn(mem, head, i) \cup Spilling
                              => m \in SentWhole' \cup EndedIn(mem', g, i) \cup Spilling'
        BY <2>4, <2>5
    <2>7. Follows(last', Must', mem[i].line, SentWhole' \cup EndedIn(mem', g, i) \cup Spilling')
        BY <2>3, <2>6, FollowsKept
    <2> QED
        BY <2>2, <2>7
<1> QED
    BY <1>1, <1>2, ForwardMoves DEF DInv

\* Spill: what is younger than the line, and waits in the WAL already, makes it a late one
LEMMA SpillOrder ==
    ASSUME DInv, OInv, Spill
    PROVE  OInv'
<1> DEFINE l == Unsent
           n == Len(records)
<1>1. /\ pc = "spill" /\ lines > 0 /\ WalAppend(l) /\ DropUnsent
      /\ late' = IF \E r \in Waiting : r > l THEN late \cup {l} ELSE late
      /\ UNCHANGED <<state, sock, connections, owed, last, pc, next>>
      /\ hasWal' = hasWal
    BY DEF Spill, HasUnsent, Control, WalAppend
<1>2. Steady
    BY <1>1, ShrinksSteady
<1>3. Must' \subseteq Must /\ hasWal /\ next = NoLine
    BY <1>1 DEF Must, OInv, Rests, DInv, Standing
<1>4. l \in Queued /\ Queued' \subseteq Queued /\ Queued \subseteq Queued' \cup {l} /\ l \in Lines
    <2>1. l \in Queued /\ Queued' \subseteq Queued /\ Queued \subseteq Queued' \cup {l}
        BY <1>1, DropKeeps DEF DInv
    <2> QED
        BY <2>1, QueuedType DEF DInv
<1> HIDE DEF l
<1>5. /\ n \in Nat /\ Len(records') = n + 1 /\ position' = position /\ records'[n + 1] = l
      /\ \A i \in 1..n : records'[i] = records[i]
      /\ \A a \in 1..(n + 1) : \A i \in 1..(n + 1) : From(records', a, i) = From(records, a, i)
    BY <1>1, <1>4, FromAppend, RecordType DEF DInv
<1>6. In(records') = In(records) \cup {l} /\ Waiting' = Waiting \cup {l}
    BY <1>1, <1>4, WaitingAppend DEF DInv
<1>7. /\ position \in Nat /\ position <= n
      /\ In(records) = From(records, 1, n + 1) /\ Waiting = From(records, position + 1, n + 1)
      /\ \A i \in 1..n : records[i] \in Nat
      /\ \A i \in (position + 1)..n : records[i] \in Waiting
      /\ \A r \in Waiting : r \in Nat
    <2>1. \A i \in (position + 1)..n : records[i] \in Waiting
        BY DEF Waiting
    <2>2. \A r \in Waiting : r \in Nat
        <3>1. Waiting = {records[i] : i \in (position + 1)..n} /\ \A i \in (position + 1)..n : i \in 1..n
            BY RecordType DEF Waiting, DInv
        <3> QED
            BY <3>1, RecordType DEF DInv
    <2> QED
        BY <2>1, <2>2, RecordType DEF DInv
<1>8. l \in Nat /\ l > 0 /\ l <= last
    BY <1>4, SocketAssumption DEF Lines, DInv, Moves
<1>9. /\ SentWhole' = SentWhole /\ Gone' = Gone /\ Spilling = Waiting /\ Spilling' = Waiting'
      /\ UNCHANGED <<wire, part, ours>>
    BY <1>1 DEF SentWhole, SentOn, Gone, connections, Spilling
<1>10. l \in Must' => \A r \in Waiting : r <= l
    BY <1>1, <1>7, <1>8 DEF Must
<1>11. StreamsOrder'
    BY <1>2, <1>9, StreamsOrderKept DEF OInv, Order
<1>12. BufferOrder'
    <2> DEFINE S == Ends(mem, head, tail)
               e == Lowest(S)
               g == e + 1
               s == IF sendPos < g THEN g ELSE sendPos
    <2>1. head \in Nat /\ tail \in Nat /\ lines = Cardinality(S)
        BY DEF DInv, Buffered
    <2>2. /\ e \in S /\ \A j \in S : e <= j
          /\ e \in Int /\ head <= e /\ e < tail
          /\ l = mem[e].line
        BY <1>1, FirstIsUnsent DEF DInv, l
    <2>5. Forward(g, s, 1)
        <3>1. S = NewLines(head, tail)
            BY DEF NewLines, Ends
        <3> QED
            BY <1>1, <3>1 DEF DropUnsent
    <2>6. EndedIn(mem, head, g) \subseteq {l}
        <3> SUFFICES ASSUME NEW j \in Ends(mem, head, g) PROVE mem[j].line = l
            BY DEF EndedIn
        <3>1. j \in S /\ j <= e /\ j \in Int
            BY <2>1, <2>2 DEF Ends
        <3>2. j = e
            BY <2>2, <3>1
        <3> QED
            BY <2>2, <3>2
    <2>7. g \in Int /\ head <= g /\ g <= tail
        BY <2>1, <2>2
    <2>8. (SentWhole \cup EndedIn(mem, head, g) \cup Spilling) \cap Must' \subseteq SentWhole' \cup Spilling'
        BY <1>6, <1>9, <2>6
    <2> HIDE DEF g, s
    <2> QED
        BY <1>2, <2>5, <2>7, <2>8, ForwardOrder DEF OInv, Order
<1>13. NextOrder'
    BY <1>1, <1>2, <1>3 DEF NextOrder, Follows, Steady, NoLine
<1>14. WaitingOrder'
    <2> SUFFICES ASSUME NEW i \in (position + 1)..(n + 1)
                 PROVE  Follows(last', Must', records'[i],
                                SentWhole \cup Queued' \cup {NoLine} \cup From(records', position + 1, i))
        BY <1>1, <1>3, <1>5, <1>9 DEF WaitingOrder
    <2>1. From(records', position + 1, i) = From(records, position + 1, i)
        BY <1>5, <1>7
    <2>2. CASE i = n + 1
        <3>1. records'[i] = l /\ l <= last'
            BY <1>1, <1>5, <1>8, <2>2
        <3>2. ASSUME NEW m \in Must', m < l PROVE m \in SentWhole \cup Queued' \cup {NoLine} \cup Waiting
            <4>1. m \in SentWhole \cup Queued \cup {NoLine} \cup Waiting
                BY <1>3, MustIsOlder
            <4>2. m # l
                BY <1>8, <3>2
            <4> QED
                BY <4>1, <4>2, <1>4
        <3> QED
            BY <1>7, <2>1, <2>2, <3>1, <3>2 DEF Follows
    <2>3. CASE i # n + 1
        <3>1. i \in (position + 1)..n /\ i \in 1..n
            BY <1>5, <1>7, <2>3
        <3>2. records'[i] = records[i] /\ records[i] \in Nat /\ records[i] \in Waiting
            BY <1>5, <1>7, <3>1
        <3>3. Follows(last, Must, records[i],
                      SentWhole \cup Queued \cup {NoLine} \cup From(records, position + 1, i))
            BY <1>3, <3>1 DEF OInv, Order, WaitingOrder
        <3>4. ASSUME NEW m \in Must', m < records[i]
              PROVE  m \in SentWhole \cup Queued' \cup {NoLine} \cup From(records, position + 1, i)
            <4>1. m \in SentWhole \cup Queued \cup {NoLine} \cup From(records, position + 1, i)
                BY <1>3, <3>3, <3>4 DEF Follows
            <4>2. m # l
                BY <1>8, <1>10, <3>2, <3>4
            <4> QED
                BY <4>1, <4>2, <1>4
        <3>5. records[i] <= last'
            BY <1>1, <3>3 DEF Follows
        <3> QED
            BY <2>1, <3>2, <3>4, <3>5 DEF Follows
    <2> QED
        BY <2>2, <2>3
<1>15. RecordsOrder'
    <2> SUFFICES ASSUME NEW i \in 1..(n + 1)
                 PROVE  Follows(last', Must' \cap In(records'), records'[i], From(records', 1, i))
        BY <1>5 DEF RecordsOrder, In
    <2>1. From(records', 1, i) = From(records, 1, i)
        BY <1>5
    <2>2. CASE i = n + 1
        <3>1. records'[i] = l /\ l <= last' /\ l \in Nat
            BY <1>1, <1>5, <1>8, <2>2
        <3> QED
            BY <1>6, <1>7, <2>1, <2>2, <3>1 DEF Follows
    <2>3. CASE i # n + 1
        <3>1. i \in 1..n
            BY <1>5, <2>3
        <3>2. records'[i] = records[i] /\ records[i] \in Nat /\ records[i] \in In(records)
            BY <1>5, <1>7, <3>1, RecordType DEF In, DInv, LineType
        <3>3. Follows(last, Must \cap In(records), records[i], From(records, 1, i))
            BY <3>1 DEF OInv, Order, RecordsOrder
        <3>4. ASSUME NEW m \in Must' \cap In(records'), m < records[i] PROVE m \in From(records, 1, i)
            <4>1. CASE m \in In(records)
                BY <4>1, <1>3, <3>3, <3>4 DEF Follows
            <4>2. CASE m = l /\ m \notin In(records)
                <5>1. Placed(l, In(records), Waiting, TRUE)
                    <6>1. l \in (Queued \cup {next}) \ {NoLine}
                        BY <1>4, <1>8 DEF NoLine
                    <6>2. Placed(l, In(records), Waiting, pc = "spill")
                        BY <1>3, <6>1 DEF OInv, Order, QueueOrder
                    <6> QED
                        BY <1>1, <6>2
                <5>2. ~\E r \in Waiting : l < r
                    BY <1>7, <1>8, <1>10, <3>4, <4>2
                <5>3. records[i] < l
                    BY <3>2, <4>2, <5>1, <5>2 DEF Placed
                <5> QED
                    BY <1>8, <3>2, <3>4, <4>2, <5>3
            <4> QED
                BY <1>6, <3>4, <4>1, <4>2
        <3>5. records[i] <= last'
            BY <1>1, <3>3 DEF Follows
        <3> QED
            BY <2>1, <3>2, <3>4, <3>5 DEF Follows
    <2> QED
        BY <2>2, <2>3
<1>16. QueueOrder'
    <2> SUFFICES ASSUME NEW m \in Queued'
                 PROVE  Placed(m, In(records) \cup {l}, Waiting \cup {l}, TRUE)
        BY <1>1, <1>3, <1>6 DEF QueueOrder, In
    <2>1. m \in Queued /\ m # NoLine /\ m \in Nat
        BY <1>4, QueuedType, LengthType DEF DInv
    <2>2. Placed(m, In(records), Waiting, TRUE)
        BY <1>1, <1>3, <2>1 DEF OInv, Order, QueueOrder
    <2>3. l < m \/ l = m \/ m < l
        BY <1>8, <2>1
    <2> QED
        BY <2>2, <2>3 DEF Placed
<1>17. Rests'
    <2>1. position' < Len(records')
        BY <1>5, <1>7
    <2> QED
        BY <1>1, <1>3, <1>9, <2>1 DEF OInv, Rests
<1> QED
    BY <1>11, <1>12, <1>13, <1>14, <1>15, <1>16, <1>17 DEF OInv, Order

-----------------------------------------------------------------------------
(* The end of a run *)

LEMMA EndRunOrder ==
    ASSUME DInv, OInv, EndRun, records' = records, position' \in {0, position},
           owed' \subseteq owed, owed' \cap (Queued \cup {next}) = {}
    PROVE  OInv'
<1>1. /\ CloseSocket /\ state' = "disconnected" /\ head' = 0 /\ tail' = 0
      /\ next' = NoLine /\ pc' = "down" /\ hasWal' = FALSE
      /\ UNCHANGED <<theirs, wire, part, last, late>>
    BY DEF EndRun
<1>2. Steady
    BY <1>1, ShrinksSteady
<1>3. ours' = {} /\ sock' = NoSocket
    BY <1>1 DEF CloseSocket, OInv, Rests
<1>4. SentWhole' = SentWhole /\ Gone' = SentWhole
    <2>1. \A c \in Connections : SentOn(c)' = SentOn(c)
        BY <1>1 DEF SentOn
    <2> QED
        BY <1>3, <2>1 DEF SentWhole, Gone
<1>5. StreamsOrder'
    <2>1. Gone \subseteq SentWhole
        BY DEF Gone, SentWhole
    <2> QED
        BY <1>1, <1>2, <1>4, <2>1, StreamsOrderKept DEF OInv, Order
<1>6. BufferOrder'
    <2>1. head'..(tail' - 1) = {}
        BY <1>1
    <2> QED
        BY <2>1 DEF BufferOrder
<1>7. NextOrder'
    BY <1>1, <1>2 DEF NextOrder, Follows, Steady, NoLine
<1>8. WaitingOrder'
    <2>1. \A m \in Must' : m \notin Queued \cup {next}
        BY DEF Must
    <2>2. CASE position' = position
        <3> SUFFICES ASSUME NEW i \in (position + 1)..Len(records)
                     PROVE  Follows(last', Must', records[i],
                                    SentWhole' \cup Queued' \cup {next'} \cup From(records, position + 1, i))
            BY <2>2 DEF WaitingOrder
        <3>1. records[i] \in Nat
            BY RecordType DEF DInv
        <3>2. Follows(last, Must, records[i], SentWhole \cup Queued \cup {next} \cup From(records, position + 1, i))
            BY DEF OInv, Order, WaitingOrder
        <3>3. \A m \in Must' : m \in SentWhole \cup Queued \cup {next} \cup From(records, position + 1, i)
                                  => m \in SentWhole' \cup Queued' \cup {next'} \cup From(records, position + 1, i)
            BY <1>4, <2>1
        <3> QED
            BY <1>2, <3>1, <3>2, <3>3, FollowsKept
    <2>3. CASE position' = 0
        <3> SUFFICES ASSUME NEW i \in 1..Len(records)
                     PROVE  Follows(last', Must', records[i],
                                    SentWhole' \cup Queued' \cup {next'} \cup From(records, 1, i))
            BY <2>3 DEF WaitingOrder
        <3>1. records[i] \in Nat
            BY RecordType DEF DInv
        <3>2. Follows(last, Must \cap In(records), records[i], From(records, 1, i))
            BY DEF OInv, Order, RecordsOrder
        <3>3. records[i] <= last'
            BY <1>1, <3>2 DEF Follows
        <3>4. ASSUME NEW m \in Must', m < records[i]
              PROVE  m \in SentWhole' \cup Queued' \cup {next'} \cup From(records, 1, i)
            <4>1. m \in Must
                BY <1>1, <3>4 DEF Must
            <4>2. m \in SentWhole \/ m \in Waiting
                BY <2>1, <4>1, MustIsOlder
            <4>3. m \in Waiting => m \in In(records)
                BY RecordType DEF DInv
            <4> QED
                BY <1>4, <3>2, <3>4, <4>1, <4>2, <4>3 DEF Follows
        <3> QED
            BY <3>3, <3>4 DEF Follows
    <2> QED
        BY <2>2, <2>3
<1>9. RecordsOrder'
    BY <1>2, RecordsOrderKept DEF OInv, Order
<1>10. QueueOrder'
    BY <1>1 DEF QueueOrder
<1>11. Rests'
    <2>1. records' # << >> => position' < Len(records')
        <3>1. records # << >> => position < Len(records) /\ 0 < Len(records)
            BY RecordType DEF OInv, Rests, DInv
        <3> QED
            BY <3>1
    <2> QED
        BY <1>1, <1>3, <2>1 DEF Rests
<1> QED
    BY <1>5, <1>6, <1>7, <1>8, <1>9, <1>10, <1>11 DEF OInv, Order

LEMMA CloseOrder ==
    ASSUME DInv, OInv, CloseFlushed \/ CloseLoses
    PROVE  OInv'
<1>1. pc # "put" /\ EndRun /\ records' = records /\ position' = position
    BY DEF CloseFlushed, CloseLoses
<1>2. next = NoLine /\ NoLine \notin owed
    BY <1>1, LengthType DEF DInv, Standing, LineType
<1>3. CASE CloseFlushed
    <2>1. owed' = owed /\ lines = 0
        BY <1>3, LinesCount DEF CloseFlushed, HasUnsent, DInv
    <2>2. Queued = {}
        <3>1. head \in Int /\ tail \in Int /\ lines = Cardinality(Ends(mem, head, tail))
            BY DEF DInv, Buffered
        <3>2. Ends(mem, head, tail) = {}
            BY <2>1, <3>1, EndsFinite, FS_EmptySet
        <3> QED
            BY <3>2, QueuedIs
    <2>3. owed' \cap (Queued \cup {next}) = {}
        BY <1>2, <2>1, <2>2
    <2> QED
        BY <1>1, <2>1, <2>3, EndRunOrder
<1>4. CASE CloseLoses
    <2>1. owed' = owed \ Queued
        BY <1>4 DEF CloseLoses
    <2>2. owed' \cap (Queued \cup {next}) = {}
        BY <1>2, <2>1
    <2> QED
        BY <1>1, <2>1, <2>2, EndRunOrder
<1> QED
    BY <1>3, <1>4

LEMMA CrashOrder ==
    ASSUME DInv, OInv, Crash
    PROVE  OInv'
<1>1. EndRun /\ records' = records /\ position' \in {0, position} /\ owed' = owed \ (Queued \cup {next})
    BY DEF Crash
<1> QED
    BY <1>1, EndRunOrder

-----------------------------------------------------------------------------
(* What is sent *)

LEMMA SendSomeOrder ==
    ASSUME DInv, OInv, SendSome, UNCHANGED <<walVars, moved, next, last, late>>
    PROVE  OInv'
<1>1. PICK n \in 1..(tail - sendPos) :
          /\ IF sock \in theirs
             THEN wire' = [wire EXCEPT ![sock] = @ \o Part(sendPos, sendPos + n)] /\ owed' = owed
             ELSE owed' = owed \ {mem[i].line : i \in NewLines(sendPos, sendPos + n)} /\ wire' = wire
          /\ CompleteSentLines(sendPos + n)
    BY DEF SendSome
<1>2. /\ pc = "send" /\ state = "connected" /\ sock \in ours
      /\ UNCHANGED <<state, sock, ours, theirs, part, pc, records, position, hasWal>>
    BY DEF SendSome, DInv, Standing, walVars
<1> DEFINE pos == sendPos + n
           E == Ends(mem, sendPos, pos)
<1>3. /\ head \in Nat /\ sendPos \in Nat /\ tail \in Nat /\ head <= sendPos
      /\ pos \in Int /\ sendPos <= pos /\ pos <= tail /\ Ends(mem, head, sendPos) = {}
    BY DEF DInv, Buffered
<1>4. CompleteSentLines(pos) /\ NewLines(sendPos, sendPos + n) = E
    BY <1>1 DEF NewLines, Ends
<1> HIDE DEF pos
<1>5. /\ Queued' \subseteq Queued
      /\ Queued \subseteq Queued' \cup {mem[i].line : i \in E}
    BY <1>3, <1>4, CompleteKeeps DEF DInv
<1>6. /\ Part(sendPos, pos) \in Seq(Cells) /\ Len(Part(sendPos, pos)) = pos - sendPos
      /\ \A k \in 1..(pos - sendPos) : Part(sendPos, pos)[k] = mem[sendPos + k - 1]
    <2>1. Buffered /\ sendPos \in Int
        BY <1>3 DEF DInv
    <2> QED
        BY <1>3, <2>1, PartIs
<1>7. Steady
    <2>1. owed' \subseteq owed
        BY <1>1
    <2> QED
        BY <2>1, ShrinksSteady
<1>8. sock \in Connections /\ Waiting' = Waiting /\ next' = next /\ Spilling = {} /\ Spilling' = {}
    BY <1>2 DEF DInv, ConnectionType, Waiting, Spilling
<1>9. Gone' = Gone
    <2>1. \A c \in Connections \ ours : wire'[c] = wire[c]
        BY <1>1, <1>2 DEF DInv, ConnectionType
    <2>2. \A c \in Connections \ ours : SentOn(c)' = SentOn(c)
        BY <2>1 DEF SentOn
    <2> QED
        BY <1>2, <2>2 DEF Gone
<1> DEFINE w == wire[sock]
           a == Part(sendPos, pos)
           len == Len(w)
\* The cells which go into the socket, and the lines which end in them
<1>10. ASSUME sock \in theirs
       PROVE  /\ w \in Seq(Cells) /\ len \in Nat /\ wire'[sock] = w \o a /\ Len(w \o a) = len + (pos - sendPos)
              /\ \A k \in 1..len : (w \o a)[k] = w[k]
              /\ \A i \in sendPos..(pos - 1) : (w \o a)[len + (i - sendPos + 1)] = mem[i]
              /\ \A c \in Connections \ {sock} : wire'[c] = wire[c]
    <2>1. w \in Seq(Cells) /\ wire'[sock] = w \o a /\ \A c \in Connections \ {sock} : wire'[c] = wire[c]
        BY <1>1, <1>8, <1>10 DEF DInv, ConnectionType, pos
    <2> HIDE DEF w, a
    <2>2. a \in Seq(Cells) /\ Len(a) = pos - sendPos
        BY <1>6 DEF a
    <2>3. /\ Len(w \o a) = Len(w) + Len(a) /\ Len(w) \in Nat
          /\ \A k \in 1..Len(w) : (w \o a)[k] = w[k]
          /\ \A k \in 1..Len(a) : (w \o a)[Len(w) + k] = a[k]
        BY <2>1, <2>2, ConcatIs
    <2>4. ASSUME NEW i \in sendPos..(pos - 1) PROVE (w \o a)[len + (i - sendPos + 1)] = mem[i]
        <3>1. i - sendPos + 1 \in 1..(pos - sendPos) /\ sendPos + (i - sendPos + 1) - 1 = i
            BY <1>3
        <3>2. a[i - sendPos + 1] = mem[i]
            BY <1>6, <3>1 DEF a
        <3> QED
            BY <2>2, <2>3, <3>1, <3>2
    <2> QED
        BY <2>1, <2>2, <2>3, <2>4
<1> HIDE DEF w, a, len
<1>11. SentWhole \subseteq SentWhole' /\ \A i \in E : mem[i].line \in SentWhole' \/ mem[i].line \notin owed'
    <2>1. CASE sock \notin theirs
        <3>1. SentWhole' = SentWhole
            BY <2>1, <1>1 DEF SentWhole, SentOn
        <3> QED
            BY <2>1, <3>1, <1>1, <1>4
    <2>2. CASE sock \in theirs
        <3>1. DOMAIN w = 1..len /\ DOMAIN (w \o a) = 1..(len + (pos - sendPos)) /\ len \in Nat
            <4>1. w \o a \in Seq(Cells)
                BY <2>2, <1>6, <1>10, ConcatIs DEF a
            <4> QED
                BY <2>2, <1>10, <4>1 DEF len
        <3>2. SentOn(sock) \subseteq SentOn(sock)'
            <4>1. SentOn(sock) = {w[i].line : i \in {j \in DOMAIN w : w[j].k = 0}}
                BY DEF SentOn, w
            <4>2. SentOn(sock)' = {(w \o a)[i].line : i \in {j \in DOMAIN (w \o a) : (w \o a)[j].k = 0}}
                <5>1. wire'[sock] = w \o a
                    BY <1>2, <1>10, <2>2
                <5> QED
                    BY <1>2, <5>1 DEF SentOn
            <4>3. \A i \in DOMAIN w : i \in DOMAIN (w \o a) /\ (w \o a)[i] = w[i]
                BY <1>3, <1>10, <2>2, <3>1
            <4> QED
                BY <4>1, <4>2, <4>3
        <3>3. ASSUME NEW i \in E PROVE mem[i].line \in SentOn(sock)'
            <4>1. i \in sendPos..(pos - 1) /\ mem[i].k = 0
                BY DEF Ends
            <4> DEFINE j == len + (i - sendPos + 1)
            <4>2. j \in DOMAIN (w \o a) /\ (w \o a)[j] = mem[i]
                BY <1>3, <1>10, <2>2, <3>1, <4>1
            <4> HIDE DEF j
            <4>3. wire'[sock] = w \o a
                BY <1>10, <2>2
            <4> QED
                BY <1>2, <4>1, <4>2, <4>3 DEF SentOn
        <3>4. SentWhole \subseteq SentWhole'
            <4>1. \A c \in Connections \ {sock} : SentOn(c)' = SentOn(c)
                BY <1>10, <2>2 DEF SentOn
            <4> QED
                BY <3>2, <4>1, <1>2 DEF SentWhole
        <3>5. SentOn(sock)' \subseteq SentWhole'
            BY <1>2, <1>8 DEF SentWhole
        <3> QED
            BY <3>3, <3>4, <3>5
    <2> QED
        BY <2>1, <2>2
<1>12. {mem[i].line : i \in E} \cap Must' \subseteq SentWhole'
    BY <1>11 DEF Must
<1>13. StreamsOrder'
    <2>1. CASE sock \notin theirs
        BY <1>1, <1>2, <1>7, <1>9, <2>1, StreamsOrderKept DEF OInv, Order
    <2>2. CASE sock \in theirs
        <3> SUFFICES ASSUME NEW c \in Connections
                     PROVE  /\ \A n_1 \in 1..Len(wire'[c]) :
                                   Follows(last', Must', wire'[c][n_1].line, Gone \cup EndedIn(wire'[c], 1, n_1))
                            /\ \A n_1 \in 1..Len(part[c]) :
                                   part[c][n_1].k # 0 /\ Follows(last', Must', part[c][n_1].line, Gone)
            BY <1>2, <1>9 DEF StreamsOrder
        <3>1. ASSUME NEW k \in 1..Len(wire[c])
              PROVE  Follows(last', Must', wire[c][k].line, Gone \cup EndedIn(wire[c], 1, k))
            <4>1. Follows(last, Must, wire[c][k].line, Gone \cup EndedIn(wire[c], 1, k)) /\ wire[c][k].line \in Nat
                BY StreamCells DEF OInv, Order, StreamsOrder, DInv
            <4> QED
                BY <1>7, <4>1, FollowsKept
        <3>2. ASSUME NEW k \in 1..Len(part[c])
              PROVE  part[c][k].k # 0 /\ Follows(last', Must', part[c][k].line, Gone)
            <4>1. part[c][k].k # 0 /\ Follows(last, Must, part[c][k].line, Gone) /\ part[c][k].line \in Nat
                BY StreamCells DEF OInv, Order, StreamsOrder, DInv
            <4> QED
                BY <1>7, <4>1, FollowsKept
        <3>3. CASE c # sock
            BY <1>10, <2>2, <3>1, <3>2, <3>3
        <3>4. CASE c = sock
            <4> DEFINE v == w \o a
            <4>1. /\ wire'[c] = v /\ wire[c] = w /\ Len(v) = len + (pos - sendPos) /\ Len(w) = len /\ len \in Nat
                  /\ \A k \in 1..len : v[k] = w[k]
                  /\ \A i \in sendPos..(pos - 1) : v[len + (i - sendPos + 1)] = mem[i]
                BY <1>10, <2>2, <3>4 DEF w, len
            <4> HIDE DEF v
            <4>2. ASSUME NEW k \in 1..len
                  PROVE  Follows(last', Must', v[k].line, Gone \cup EndedIn(v, 1, k))
                <5>1. Follows(last', Must', w[k].line, Gone \cup EndedIn(w, 1, k))
                    BY <3>1, <4>1
                <5>2. EndedIn(w, 1, k) \subseteq EndedIn(v, 1, k)
                    <6>1. \A j \in 1..(k - 1) : v[j] = w[j]
                        BY <4>1
                    <6> QED
                        BY <6>1 DEF EndedIn, Ends
                <5> QED
                    BY <4>1, <5>1, <5>2 DEF Follows
            <4>3. ASSUME NEW i \in sendPos..(pos - 1)
                  PROVE  Follows(last', Must', mem[i].line, Gone \cup EndedIn(v, 1, len + (i - sendPos + 1)))
                <5> DEFINE k == len + (i - sendPos + 1)
                <5>1. i \in head..(tail - 1) /\ k \in Int /\ len < k /\ i \in Int
                    BY <1>3, <4>1
                <5>2. Follows(last, Must, mem[i].line, SentWhole \cup EndedIn(mem, head, i) \cup {}) /\ mem[i].line \in Nat
                    BY <1>8, <5>1, BufferCells DEF OInv, Order, BufferOrder, DInv
                <5>3. SentWhole \subseteq Gone \cup SentOn(sock)
                    BY DEF SentWhole, Gone, OInv, Rests
                <5>4. ASSUME NEW j \in 1..len, w[j].k = 0 PROVE w[j].line \in EndedIn(v, 1, k)
                    <6>1. j \in Ends(v, 1, k) /\ v[j] = w[j]
                        BY <4>1, <5>1, <5>4 DEF Ends
                    <6> QED
                        BY <6>1 DEF EndedIn
                <5>5. SentOn(sock) \subseteq EndedIn(v, 1, k)
                    <6>1. DOMAIN w = 1..len
                        BY <1>10, <2>2 DEF len
                    <6> HIDE DEF k
                    <6> QED
                        BY <5>4, <6>1 DEF SentOn, w
                <5>6. EndedIn(mem, head, i) \subseteq EndedIn(v, 1, k)
                    <6> SUFFICES ASSUME NEW j \in Ends(mem, head, i) PROVE mem[j].line \in EndedIn(v, 1, k)
                        BY DEF EndedIn
                    <6>1. j \in Int /\ head <= j /\ j < i /\ mem[j].k = 0
                        BY <1>3 DEF Ends
                    <6>2. sendPos <= j
                        <7> SUFFICES ASSUME j < sendPos PROVE FALSE
                            BY <6>1, <1>3
                        <7>1. j \in Ends(mem, head, sendPos)
                            BY <1>3, <6>1 DEF Ends
                        <7> QED
                            BY <7>1, <1>3
                    <6> DEFINE u == len + (j - sendPos + 1)
                    <6>3. v[u] = mem[j]
                        BY <1>3, <4>1, <6>1, <6>2
                    <6>4. u \in 1..(k - 1)
                        BY <1>3, <4>1, <6>1, <6>2
                    <6> HIDE DEF u, k
                    <6>5. u \in Ends(v, 1, k)
                        BY <6>1, <6>3, <6>4 DEF Ends
                    <6> QED
                        BY <6>3, <6>5 DEF EndedIn
                <5> HIDE DEF k
                <5>7. \A m \in Must' : m \in SentWhole \cup EndedIn(mem, head, i) \cup {} => m \in Gone \cup EndedIn(v, 1, k)
                    BY <5>3, <5>5, <5>6
                <5>8. Follows(last', Must', mem[i].line, Gone \cup EndedIn(v, 1, k))
                    BY <1>7, <5>2, <5>7, FollowsKept
                <5> QED
                    BY <5>8 DEF k
            <4>4. ASSUME NEW k \in 1..Len(v)
                  PROVE  Follows(last', Must', v[k].line, Gone \cup EndedIn(v, 1, k))
                <5>1. CASE k <= len
                    <6>1. k \in 1..len
                        BY <4>1, <5>1
                    <6> QED
                        BY <4>2, <6>1
                <5>2. CASE len < k
                    <6> DEFINE i == k - len + sendPos - 1
                    <6>1. i \in sendPos..(pos - 1) /\ len + (i - sendPos + 1) = k
                        BY <1>3, <4>1, <5>2
                    <6> HIDE DEF i
                    <6>2. v[k] = mem[i]
                        BY <4>1, <6>1
                    <6> QED
                        BY <4>3, <6>1, <6>2
                <5> QED
                    BY <4>1, <5>1, <5>2
            <4> QED
                BY <3>2, <4>1, <4>4
        <3> QED
            BY <3>3, <3>4
    <2> QED
        BY <2>1, <2>2
<1>14. BufferOrder'
    <2>1. PICK g : Completes(pos, g)
        BY <1>3, <1>4, CompleteForwards DEF DInv
    <2>2. g \in Int /\ head <= g /\ g <= tail /\ Forward(g, pos, Cardinality(Ends(mem, head, g)))
        BY <1>3, <2>1 DEF Completes
    <2>3. Ends(mem, head, g) \subseteq E
        <3> SUFFICES ASSUME NEW j \in Ends(mem, head, pos) PROVE j \in E
            BY <2>1 DEF Completes
        <3>1. j \in Int /\ head <= j /\ j < pos /\ mem[j].k = 0
            BY <1>3 DEF Ends
        <3>2. j < sendPos => j \in Ends(mem, head, sendPos)
            BY <1>3, <3>1 DEF Ends
        <3> QED
            BY <1>3, <3>1, <3>2 DEF Ends
    <2>4. EndedIn(mem, head, g) \subseteq {mem[i].line : i \in E}
        BY <2>3 DEF EndedIn
    <2>5. (SentWhole \cup EndedIn(mem, head, g) \cup Spilling) \cap Must' \subseteq SentWhole' \cup Spilling'
        BY <1>8, <1>11, <1>12, <2>4
    <2> QED
        BY <1>7, <2>2, <2>5, ForwardOrder DEF OInv, Order
<1>15. (SentWhole \cup Queued) \cap Must' \subseteq SentWhole' \cup Queued'
    BY <1>5, <1>11, <1>12
<1>16. NextOrder'
    BY <1>7, <1>8, <1>15, NextOrderKept DEF OInv, Order
<1>17. WaitingOrder'
    BY <1>2, <1>7, <1>8, <1>15, WaitingOrderKept DEF OInv, Order
<1>18. RecordsOrder'
    BY <1>2, <1>7, RecordsOrderKept DEF OInv, Order
<1>19. QueueOrder'
    BY <1>2, <1>5, <1>8, QueueOrderKept DEF OInv, Order
<1>20. Rests'
    <2>1. (Waiting \cap owed)' \subseteq Waiting \cap owed /\ late' = late
        BY <1>1, <1>8
    <2> QED
        BY <1>2, <2>1 DEF OInv, Rests
<1> QED
    BY <1>13, <1>14, <1>16, <1>17, <1>18, <1>19, <1>20 DEF OInv, Order

-----------------------------------------------------------------------------
(* What is read *)

LEMMA StreamFollows ==
    ASSUME DInv, StreamsOrder, NEW c \in Connections, NEW n \in 1..Len(Stream(c))
    PROVE  /\ Stream(c)[n] \in Cells
           /\ Follows(last, Must, Stream(c)[n].line, Gone \cup SentOn(c))
<1> DEFINE s == Stream(c)
           a == Len(part[c])
           b == Len(wire[c])
<1>1. part[c] \in Seq(Cells) /\ wire[c] \in Seq(Cells)
    BY DEF DInv, ConnectionType
<1>2. a \in Nat /\ b \in Nat /\ DOMAIN wire[c] = 1..b
    BY <1>1
<1>3. /\ s \in Seq(Cells) /\ Len(s) = a + b
      /\ \A k \in 1..a : s[k] = part[c][k]
      /\ \A k \in 1..b : s[a + k] = wire[c][k]
    BY <1>1, ConcatIs DEF Stream
<1>4. /\ \A k \in 1..b : Follows(last, Must, wire[c][k].line, Gone \cup EndedIn(wire[c], 1, k))
      /\ \A k \in 1..a : Follows(last, Must, part[c][k].line, Gone)
    BY DEF StreamsOrder
<1>5. n \in 1..Len(s)
    OBVIOUS
<1> HIDE DEF s, a, b
<1>6. s[n] \in Cells
    BY <1>3, <1>5
<1>7. Follows(last, Must, s[n].line, Gone \cup SentOn(c))
    <2>1. CASE n <= a
        <3>1. n \in 1..a
            BY <2>1, <1>2
        <3>2. s[n] = part[c][n]
            BY <1>3, <3>1
        <3> QED
            BY <1>4, <3>1, <3>2 DEF Follows
    <2>2. CASE a < n
        <3> DEFINE k == n - a
        <3>1. k \in 1..b /\ a + k = n
            BY <2>2, <1>2, <1>3, <1>5
        <3> HIDE DEF k
        <3>2. s[n] = wire[c][k]
            BY <1>3, <3>1
        <3>3. EndedIn(wire[c], 1, k) \subseteq SentOn(c)
            <4>1. \A j \in 1..(k - 1) : j \in DOMAIN wire[c]
                BY <1>2, <3>1
            <4> QED
                BY <4>1 DEF EndedIn, Ends, SentOn
        <3> QED
            BY <1>4, <3>1, <3>2, <3>3 DEF Follows
    <2> QED
        BY <1>2, <2>1, <2>2
<1> QED
    BY <1>6, <1>7 DEF s

\* What is read is no more on its way
LEMMA TakenOrder ==
    ASSUME DInv, OInv, NEW c \in Connections, owed' \subseteq owed, late' = late \cap owed', owed' \cap SentOn(c) = {},
           wire' = [wire EXCEPT ![c] = << >>], \A d \in Connections \ {c} : part'[d] = part[d],
           \A n \in 1..Len(part'[c]) :
               part'[c][n].k # 0 /\ part'[c][n].line \in Nat /\ Follows(last, Must, part'[c][n].line, Gone \cup SentOn(c)),
           UNCHANGED <<walVars, next, last, state, sock, buffer, ours, pc>>
    PROVE  OInv'
<1> USE DEF walVars, buffer
<1>1. Steady
    BY ShrinksSteady
<1>2. wire'[c] = << >> /\ \A d \in Connections \ {c} : wire'[d] = wire[d]
    BY DEF DInv, ConnectionType
<1>3. \A d \in Connections \ {c} : SentOn(d)' = SentOn(d)
    BY <1>2 DEF SentOn
<1>4. (Gone \cup SentOn(c)) \cap Must' \subseteq Gone' /\ SentWhole \cap Must' \subseteq SentWhole'
    BY <1>3 DEF Gone, SentWhole, Must
<1>5. Queued' = Queued /\ Waiting' = Waiting /\ Spilling' = Spilling /\ Must' \subseteq Must
    BY DEF Queued, NewLines, Waiting, Spilling, Must
<1>6. StreamsOrder'
    <2> SUFFICES ASSUME NEW d \in Connections
                 PROVE  /\ \A n \in 1..Len(wire'[d]) :
                               Follows(last', Must', wire'[d][n].line, Gone' \cup EndedIn(wire'[d], 1, n))
                        /\ \A n \in 1..Len(part'[d]) :
                               part'[d][n].k # 0 /\ Follows(last', Must', part'[d][n].line, Gone')
        BY DEF StreamsOrder
    <2>1. CASE d = c
        <3>1. ASSUME NEW n \in 1..Len(part'[c])
              PROVE  part'[c][n].k # 0 /\ Follows(last', Must', part'[c][n].line, Gone')
            <4>1. \A m \in Must' : m \in Gone \cup SentOn(c) => m \in Gone'
                BY <1>4
            <4>2. part'[c][n].line \in Nat /\ Follows(last, Must, part'[c][n].line, Gone \cup SentOn(c))
                OBVIOUS
            <4> DEFINE x == part'[c][n].line
                       y == Gone'
            <4>3. Follows(last', Must', x, y)
                <5>1. x \in Nat /\ Follows(last, Must, x, Gone \cup SentOn(c)) /\ \A m \in Must' : m \in Gone \cup SentOn(c) => m \in y
                    BY <4>1, <4>2
                <5> HIDE DEF x, y
                <5> QED
                    BY <1>1, <5>1, FollowsKept
            <4> QED
                BY <4>3
        <3> QED
            BY <1>2, <2>1, <3>1
    <2>2. CASE d # c
        <3>1. ASSUME NEW n \in 1..Len(wire[d])
              PROVE  Follows(last', Must', wire[d][n].line, Gone' \cup EndedIn(wire[d], 1, n))
            <4>1. Follows(last, Must, wire[d][n].line, Gone \cup EndedIn(wire[d], 1, n)) /\ wire[d][n].line \in Nat
                BY StreamCells DEF OInv, Order, StreamsOrder, DInv
            <4>2. \A m \in Must' : m \in Gone \cup EndedIn(wire[d], 1, n) => m \in Gone' \cup EndedIn(wire[d], 1, n)
                BY <1>4
            <4> QED
                BY <1>1, <4>1, <4>2, FollowsKept
        <3>2. ASSUME NEW n \in 1..Len(part[d])
              PROVE  part[d][n].k # 0 /\ Follows(last', Must', part[d][n].line, Gone')
            <4>1. part[d][n].k # 0 /\ Follows(last, Must, part[d][n].line, Gone) /\ part[d][n].line \in Nat
                BY StreamCells DEF OInv, Order, StreamsOrder, DInv
            <4>2. \A m \in Must' : m \in Gone => m \in Gone'
                BY <1>4
            <4> QED
                BY <1>1, <4>1, <4>2, FollowsKept
        <3> QED
            BY <1>2, <2>2, <3>1, <3>2
    <2> QED
        BY <2>1, <2>2
<1>7. BufferOrder'
    BY <1>1, <1>4, <1>5, BufferOrderKept DEF OInv, Order
<1>8. NextOrder'
    BY <1>1, <1>4, <1>5, NextOrderKept DEF OInv, Order
<1>9. WaitingOrder'
    BY <1>1, <1>4, <1>5, WaitingOrderKept DEF OInv, Order
<1>10. RecordsOrder'
    BY <1>1, RecordsOrderKept DEF OInv, Order
<1>11. QueueOrder'
    BY <1>5, QueueOrderKept DEF OInv, Order
<1>12. Rests'
    <2>1. (Waiting \cap owed)' \subseteq Waiting \cap owed
        BY <1>5
    <2> QED
        BY <2>1 DEF OInv, Rests
<1> QED
    BY <1>6, <1>7, <1>8, <1>9, <1>10, <1>11, <1>12 DEF OInv, Order

\* A line which is found begins behind an end
LEMMA LineBegins ==
    ASSUME NEW s \in Seq(Cells), NEW i \in EndsOf(s), NEW l \in Lines, Body(l) = Behind(s, i)
    PROVE  i + 1 \in 1..Len(s) /\ s[i + 1].line = l
<1> DEFINE S == {j \in EndsOf(s) : j > i}
           x == IF \E j \in EndsOf(s) : j > i THEN Lowest(S) - 1 ELSE Len(s)
<1>1. Len(s) \in Nat /\ i \in 0..Len(s) /\ S \in SUBSET (0..Len(s))
    BY EndsOfType
<1>2. x \in Int /\ x <= Len(s)
    <2>1. CASE \E j \in EndsOf(s) : j > i
        <3>1. S # {} /\ 0 \in Int /\ Len(s) \in Int
            BY <1>1, <2>1
        <3>2. Lowest(S) \in 0..Len(s)
            <4> HIDE DEF S
            <4>1. Lowest(S) \in S
                BY <1>1, <3>1, FirstAndLast, Zenon
            <4> QED
                BY <1>1, <4>1
        <3>3. x = Lowest(S) - 1
            BY <2>1
        <3> HIDE DEF S, x
        <3> QED
            BY <1>1, <3>2, <3>3
    <2>2. CASE ~\E j \in EndsOf(s) : j > i
        BY <1>1, <2>2
    <2> QED
        BY <2>1, <2>2
<1>3. Body(l) = SubSeq(s, i + 1, x)
    BY DEF Behind
<1> HIDE DEF x, S
<1>4. Len(Body(l)) = Length[l] /\ Length[l] \in Nat /\ Length[l] > 0 /\ Body(l)[1] = Text(l, 1)
    BY LengthType, LineCells DEF Body
<1> DEFINE u == i + 1
<1>5. u \in 1..(Len(s) + 1) /\ u \in Int
    BY <1>1
<1> HIDE DEF u
<1>6. Body(l) = SubSeq(s, u, x)
    BY <1>3 DEF u
<1>7. Len(SubSeq(s, u, x)) = IF u <= x THEN x - u + 1 ELSE 0
    BY <1>1, <1>2, <1>5
<1>8. u <= x
    <2>1. Len(SubSeq(s, u, x)) > 0
        BY <1>4, <1>6
    <2> QED
        BY <1>7, <2>1
<1>9. SubSeq(s, u, x)[1] = s[u]
    BY <1>1, <1>2, <1>5, <1>8
<1>10. s[u] = Text(l, 1)
    BY <1>4, <1>6, <1>9
<1>11. u \in 1..Len(s)
    BY <1>1, <1>2, <1>5, <1>8
<1> QED
    BY <1>10, <1>11 DEF Text, u

LEMMA ReadOrder ==
    ASSUME DInv, OInv, NEW c \in Connections, Read(c), late' = late \cap owed', UNCHANGED <<walVars, next, last>>
    PROVE  /\ OInv'
           /\ \A l \in received' \ received : Follows(last, Must, l, Gone \cup received')
<1> DEFINE s == Stream(c)
           e == Highest(EndsOf(s))
<1>1. /\ c \in theirs
      /\ received' = received \cup {l \in Lines : Body(l) \in {Behind(s, i) : i \in EndsOf(s) \ {e}}}
      /\ owed' = owed \ received'
      /\ part' = [part EXCEPT ![c] = Behind(s, e)] /\ wire' = [wire EXCEPT ![c] = << >>]
      /\ UNCHANGED <<state, due, sock, buffer, ours, theirs, pc, then>>
    BY DEF Read, Handle, Behind, EndsOf, Stream
<1>2. /\ s \in Seq(Cells)
      /\ \A n \in 1..Len(s) : s[n] \in Cells /\ Follows(last, Must, s[n].line, Gone \cup SentOn(c))
    <2>1. s \in Seq(Cells)
        BY ConcatIs DEF Stream, DInv, ConnectionType
    <2> QED
        BY <2>1, StreamFollows DEF OInv, Order
<1>3. SentOn(c) \subseteq received'
    BY <1>1, SentIsRead
<1> HIDE DEF s
<1>4. /\ e \in Nat /\ Len(s) \in Nat
      /\ Len(Behind(s, e)) = Len(s) - e
      /\ \A k \in 1..(Len(s) - e) : Behind(s, e)[k] = s[e + k] /\ s[e + k].k # 0
    <2>1. e = Highest(EndsOf(s))
        OBVIOUS
    <2> HIDE DEF e
    <2>2. /\ e \in Nat /\ Len(Behind(s, e)) = Len(s) - e
          /\ \A k \in 1..(Len(s) - e) : Behind(s, e)[k] = s[e + k] /\ s[e + k].k # 0
        <3>1. s \in Seq(Cells)
            BY <1>2
        <3> QED
            <4>1. IsRest(s, e)
                BY <2>1, <3>1, RestIs
            <4> QED
                BY <4>1 DEF IsRest
    <2>3. Len(s) \in Nat
        BY <1>2
    <2> QED
        BY <2>2, <2>3
<1>5. OInv'
    <2>1. owed' \subseteq owed /\ owed' \cap SentOn(c) = {}
        BY <1>1, <1>3
    <2>2. part'[c] = Behind(s, e) /\ \A d \in Connections \ {c} : part'[d] = part[d]
        BY <1>1 DEF DInv, ConnectionType
    <2>3. ASSUME NEW k \in 1..(Len(s) - e)
          PROVE  /\ Behind(s, e)[k].k # 0 /\ Behind(s, e)[k].line \in Nat
                 /\ Follows(last, Must, Behind(s, e)[k].line, Gone \cup SentOn(c))
        <3> HIDE DEF e
        <3>1. e + k \in 1..Len(s)
            BY <1>4
        <3>2. Behind(s, e)[k] = s[e + k] /\ s[e + k].k # 0
            BY <1>4
        <3>3. s[e + k].line \in Nat
            BY <1>2, <3>1, LineNat
        <3> QED
            BY <1>2, <3>1, <3>2, <3>3
    <2>4. \A k \in 1..Len(part'[c]) :
              part'[c][k].k # 0 /\ part'[c][k].line \in Nat /\ Follows(last, Must, part'[c][k].line, Gone \cup SentOn(c))
        BY <1>4, <2>2, <2>3
    <2> QED
        BY <1>1, <2>1, <2>2, <2>4, TakenOrder
<1>6. ASSUME NEW l \in received' \ received PROVE Follows(last, Must, l, Gone \cup received')
    <2>1. l \in Lines /\ \E i \in EndsOf(s) : Body(l) = Behind(s, i)
        BY <1>1
    <2>2. PICK i \in EndsOf(s) : Body(l) = Behind(s, i)
        BY <2>1
    <2>3. i + 1 \in 1..Len(s) /\ s[i + 1].line = l
        BY <1>2, <2>1, <2>2, LineBegins
    <2>4. Follows(last, Must, l, Gone \cup SentOn(c))
        BY <1>2, <2>3
    <2> QED
        BY <1>3, <2>4 DEF Follows
<1> QED
    BY <1>5, <1>6

LEMMA ReadEndOrder ==
    ASSUME DInv, OInv, NEW c \in Connections, ReadEnd(c), late' = late \cap owed', UNCHANGED <<walVars, next, last>>
    PROVE  /\ OInv'
           /\ \A l \in received' \ received : Follows(last, Must, l, Gone \cup received')
<1>1. /\ wire[c] = << >> /\ part' = [part EXCEPT ![c] = << >>]
      /\ received' = received \cup {l \in Lines : Body(l) = part[c]}
      /\ owed' = owed \ received'
      /\ UNCHANGED <<state, due, sock, buffer, ours, wire, pc, then>>
    BY DEF ReadEnd, Handle
<1>2. OInv'
    <2>1. wire' = [wire EXCEPT ![c] = << >>]
        BY <1>1 DEF DInv, ConnectionType
    <2>2. part'[c] = << >> /\ \A d \in Connections \ {c} : part'[d] = part[d]
        BY <1>1 DEF DInv, ConnectionType
    <2>3. owed' \subseteq owed /\ owed' \cap SentOn(c) = {}
        BY <1>1 DEF SentOn
    <2>4. \A n \in 1..Len(part'[c]) :
              part'[c][n].k # 0 /\ part'[c][n].line \in Nat /\ Follows(last, Must, part'[c][n].line, Gone \cup SentOn(c))
        BY <2>2
    <2> QED
        BY <1>1, <2>1, <2>2, <2>3, <2>4, TakenOrder
<1>3. ASSUME NEW l \in received' \ received PROVE Follows(last, Must, l, Gone \cup received')
    <2>1. l \in Lines /\ Body(l) = part[c]
        BY <1>1
    <2>2. Len(Body(l)) = Length[l] /\ Length[l] \in Nat /\ Length[l] > 0 /\ Body(l)[1] = Text(l, 1)
        BY <2>1, LengthType DEF Body
    <2>3. 1 \in 1..Len(part[c]) /\ part[c][1].line = l
        BY <2>1, <2>2 DEF Text
    <2>4. Follows(last, Must, l, Gone)
        BY <2>3 DEF OInv, Order, StreamsOrder
    <2> QED
        BY <2>4 DEF Follows
<1> QED
    BY <1>2, <1>3

LEMMA LeaveOrder ==
    ASSUME DInv, OInv, NEW c \in Connections, Leave(c), late' = late \cap owed', UNCHANGED <<walVars, next, last>>
    PROVE  OInv'
<1>1. /\ owed' = owed \ SentOn(c)
      /\ wire' = [wire EXCEPT ![c] = << >>] /\ part' = [part EXCEPT ![c] = << >>]
      /\ UNCHANGED <<state, due, sock, buffer, ours, pc, then, received>>
    BY DEF Leave
<1>2. part'[c] = << >> /\ \A d \in Connections \ {c} : part'[d] = part[d]
    BY <1>1 DEF DInv, ConnectionType
<1>3. owed' \subseteq owed /\ owed' \cap SentOn(c) = {}
    BY <1>1
<1>4. \A n \in 1..Len(part'[c]) :
          part'[c][n].k # 0 /\ part'[c][n].line \in Nat /\ Follows(last, Must, part'[c][n].line, Gone \cup SentOn(c))
    BY <1>2
<1> QED
    BY <1>1, <1>2, <1>3, <1>4, TakenOrder

-----------------------------------------------------------------------------
(* Every step keeps the order *)

LEMMA OInvInit == Init => OInv
<1> SUFFICES ASSUME Init PROVE OInv
    OBVIOUS
<1> USE DEF Init, SocketInit
<1>1. StreamsOrder
    BY DEF StreamsOrder
<1>2. BufferOrder
    <2>1. head..(tail - 1) = {}
        OBVIOUS
    <2> QED
        BY <2>1 DEF BufferOrder
<1>3. NextOrder
    BY DEF NextOrder, Follows, Must, NoLine
<1>4. WaitingOrder /\ RecordsOrder
    BY DEF WaitingOrder, RecordsOrder
<1>5. QueueOrder
    BY DEF QueueOrder
<1>6. Rests
    BY DEF Rests
<1> QED
    BY <1>1, <1>2, <1>3, <1>4, <1>5, <1>6 DEF OInv, Order

LEMMA PumpOrder ==
    ASSUME DInv, OInv, Sender
    PROVE  OInv'
<1>1. UNCHANGED <<walVars, moved, next, last, late>>
    BY DEF Sender
<1> DEFINE OnlyControl ==
        /\ UNCHANGED <<due, sock, buffer, connections, then, received, owed>>
        /\ (state' = "connected" <=> state = "connected")
        /\ pc \in {"pump", "send"} /\ pc' \in {pc, then, "send"}
<1>2. ASSUME OnlyControl PROVE OInv'
    <2>1. pc' # "down" /\ pc # "down" /\ pc' # "spill" /\ pc # "spill"
        BY <1>2 DEF DInv, ControlType, Returns
    <2> QED
        BY <1>1, <1>2, <2>1, ControlOrder DEF walVars, buffer, connections
<1>3. CASE PumpWaits
    <2>1. OnlyControl
        BY <1>3 DEF PumpWaits, Return
    <2> QED
        BY <1>2, <2>1
<1>4. CASE StartConnect
    <2>1. pc = "pump" /\ state = "disconnected"
        BY <1>4 DEF StartConnect
    <2>2. CASE DisconnectAndReturn
        BY <1>1, <2>1, <2>2, DisconnectOrder
    <2>3. CASE \E c \in Unused : Connected(c)
        BY <1>1, <2>1, <2>3, ConnectedOrder
    <2>4. CASE state' = "connecting" /\ UNCHANGED <<due, sock, buffer, connections, pc, then, received, owed>>
        <3>1. OnlyControl
            BY <2>1, <2>4
        <3> QED
            BY <1>2, <3>1
    <2> QED
        BY <1>4, <2>2, <2>3, <2>4 DEF StartConnect
<1>5. CASE CheckConnect
    <2>1. pc = "pump" /\ state = "connecting"
        BY <1>5 DEF CheckConnect
    <2>2. CASE DisconnectAndReturn
        BY <1>1, <2>1, <2>2, DisconnectOrder
    <2>3. CASE \E c \in Unused : Connected(c)
        BY <1>1, <2>1, <2>3, ConnectedOrder
    <2>4. CASE Return /\ UNCHANGED <<state, due, sock, buffer, connections, then, received, owed>>
        <3>1. OnlyControl
            BY <2>1, <2>4 DEF Return
        <3> QED
            BY <1>2, <3>1
    <2> QED
        BY <1>5, <2>2, <2>3, <2>4 DEF CheckConnect
<1>6. CASE CheckPeerClosed
    <2>1. pc = "pump" /\ state = "connected"
        BY <1>6 DEF CheckPeerClosed
    <2>2. CASE DisconnectAndReturn
        BY <1>1, <2>1, <2>2, DisconnectOrder
    <2>3. CASE pc' = "send" /\ UNCHANGED <<state, due, sock, buffer, connections, then, received, owed>>
        <3>1. OnlyControl
            BY <2>1, <2>3
        <3> QED
            BY <1>2, <3>1
    <2> QED
        BY <1>6, <2>2, <2>3 DEF CheckPeerClosed
<1>7. CASE SendSome
    BY <1>1, <1>7, SendSomeOrder
<1>8. CASE SendEnds
    <2>1. OnlyControl
        BY <1>8 DEF SendEnds, Return
    <2> QED
        BY <1>2, <2>1
<1>9. CASE SendFails
    BY <1>1, <1>9, DisconnectOrder DEF SendFails
<1> QED
    BY <1>3, <1>4, <1>5, <1>6, <1>7, <1>8, <1>9 DEF Sender, Pump

LEMMA ProgramOrder ==
    ASSUME DInv, OInv, Program
    PROVE  OInv'
<1> DEFINE OnlyControl ==
        /\ UNCHANGED <<state, sock, buffer, connections, received, owed, walVars, next, last, late>>
        /\ pc \notin {"down", "spill"} /\ pc' \notin {"down", "spill"}
<1>1. ASSUME OnlyControl PROVE OInv'
    BY <1>1, ControlOrder DEF walVars, buffer, connections
<1> USE DEF CallPump, Control, history
<1>2. CASE Send
    BY <1>2, SendQueuesOrder, SendOtherOrder DEF Send
<1>3. CASE PumpCall
    <2>1. OnlyControl
        BY <1>3 DEF PumpCall
    <2> QED
        BY <1>1, <2>1
<1>4. CASE DrainStart
    <2>1. OnlyControl
        BY <1>4 DEF DrainStart
    <2> QED
        BY <1>1, <2>1
<1>5. CASE Take
    BY <1>5, TakeOrder
<1>6. CASE TakeStops
    <2>1. OnlyControl
        BY <1>6 DEF TakeStops
    <2> QED
        BY <1>1, <2>1
<1>7. CASE Put
    BY <1>7, PutOrder
<1>8. CASE TakeEnds
    <2>1. OnlyControl
        BY <1>8 DEF TakeEnds
    <2> QED
        BY <1>1, <2>1
<1>9. CASE DrainMore
    <2>1. OnlyControl
        BY <1>9 DEF DrainMore
    <2> QED
        BY <1>1, <2>1
<1>10. CASE Start
    BY <1>10, StartOrder
<1>11. CASE Shutdown
    <2>1. OnlyControl
        BY <1>11 DEF Shutdown
    <2> QED
        BY <1>1, <2>1
<1>12. CASE FlushAgain
    <2>1. OnlyControl
        BY <1>12 DEF FlushAgain
    <2> QED
        BY <1>1, <2>1
<1>13. CASE FlushTimeout
    BY <1>13, TimeoutOrder
<1>14. CASE Spill
    BY <1>14, SpillOrder
<1>15. CASE CloseFlushed \/ CloseLoses
    BY <1>15, CloseOrder
<1> QED
    BY <1>2, <1>3, <1>4, <1>5, <1>6, <1>7, <1>8, <1>9, <1>10, <1>11, <1>12, <1>13, <1>14, <1>15 DEF Program, Drain

LEMMA ForwarderOrder ==
    ASSUME DInv, OInv, Forwarder
    PROVE  OInv'
<1>1. late' = late \cap owed' /\ UNCHANGED <<walVars, moved, next, last, spilled>>
    BY DEF Forwarder
<1>2. CASE TimeComes
    <2>1. UNCHANGED <<state, sock, buffer, connections, pc, then, received, owed>>
        BY <1>2 DEF TimeComes
    <2>2. owed' \cap late \subseteq late'
        BY <1>1
    <2> QED
        BY <1>1, <2>1, <2>2, ControlOrder DEF walVars, buffer, connections
<1>3. CASE \E c \in Connections : Read(c) \/ ReadEnd(c) \/ Leave(c)
    BY <1>1, <1>3, ReadOrder, ReadEndOrder, LeaveOrder
<1> QED
    BY <1>2, <1>3 DEF Forwarder

LEMMA OInvNext == DInv /\ OInv /\ [Next]_vars => OInv'
<1> SUFFICES ASSUME DInv, OInv, [Next]_vars PROVE OInv'
    OBVIOUS
<1>1. CASE Next
    BY <1>1, ProgramOrder, PumpOrder, ForwarderOrder, CrashOrder DEF Next
<1>2. CASE UNCHANGED vars
    BY <1>2, ControlOrder DEF vars, socketVars, walVars, history, buffer, connections
<1> QED
    BY <1>1, <1>2

\* What a step reads comes behind all which must come before
InOrder ==
    \A l \in received' \ received :
        \A m \in owed \ late :
            m < l => m \in received' \/ \E c \in Connections \ ours : m \in SentOn(c)

LEMMA StepInOrder == DInv /\ OInv /\ [Next]_vars => InOrder
<1> SUFFICES ASSUME DInv, OInv, [Next]_vars PROVE InOrder
    OBVIOUS
<1>1. ASSUME \A l \in received' \ received : Follows(last, Must, l, Gone \cup received') PROVE InOrder
    <2> SUFFICES ASSUME NEW l \in received' \ received, NEW m \in owed \ late, m < l
                 PROVE  m \in received' \/ \E c \in Connections \ ours : m \in SentOn(c)
        BY DEF InOrder
    <2>1. m \in Gone \cup received'
        BY <1>1 DEF Follows, Must
    <2> QED
        BY <2>1 DEF Gone
<1>2. ASSUME received' = received PROVE InOrder
    BY <1>2 DEF InOrder
<1>3. CASE Program
    <2>1. received' = received
        BY <1>3 DEF Program, Send, PumpCall, Drain, DrainStart, Take, TakeStops, Put, TakeEnds, DrainMore, Control,
                    Start, Shutdown, FlushAgain, FlushTimeout, Spill, CloseFlushed, CloseLoses, EndRun
    <2> QED
        BY <1>2, <2>1
<1>4. CASE Sender
    <2>1. received' = received
        BY <1>4 DEF Sender, Pump, PumpWaits, StartConnect, CheckConnect, CheckPeerClosed, SendSome, SendEnds, SendFails,
                    DisconnectAndReturn, Connected
    <2> QED
        BY <1>2, <2>1
<1>5. CASE Forwarder
    <2>1. late' = late \cap owed' /\ UNCHANGED <<walVars, next, last>>
        BY <1>5 DEF Forwarder
    <2>2. CASE TimeComes
        BY <1>2, <2>2 DEF TimeComes
    <2>3. CASE \E c \in Connections : Read(c)
        BY <1>1, <2>1, <2>3, ReadOrder
    <2>4. CASE \E c \in Connections : ReadEnd(c)
        BY <1>1, <2>1, <2>4, ReadEndOrder
    <2>5. CASE \E c \in Connections : Leave(c)
        BY <1>2, <2>5 DEF Leave
    <2> QED
        BY <1>5, <2>2, <2>3, <2>4, <2>5 DEF Forwarder
<1>6. CASE Crash
    BY <1>2, <1>6 DEF Crash, EndRun
<1>7. CASE UNCHANGED vars
    BY <1>2, <1>7 DEF vars, socketVars
<1> QED
    BY <1>3, <1>4, <1>5, <1>6, <1>7 DEF Next

\* The order of the lines in the queue, in the WAL and on the connections, from which the order
\* of their arrival follows
THEOREM OInvHolds == Spec => [](DInv /\ OInv)
<1>1. Init => DInv /\ OInv
    BY DInvInit, OInvInit
<1>2. DInv /\ OInv /\ [Next]_vars => (DInv /\ OInv)'
    BY DInvNext, OInvNext
<1> QED
    BY <1>1, <1>2, PTL DEF Spec

\* The lines arrive in the order of the calls (domfwd_durable.hpp:8-9), whatever the sizes of the
\* queue, the socket and the WAL, and wherever connections break and the program crashes: a line
\* is read when all older ones which must come in order have been read, or were sent whole on a
\* connection which the sender has closed.
THEOREM ArriveInOrderHolds == Spec => ArriveInOrder
<1>1. DInv /\ OInv /\ [Next]_vars => [InOrder]_vars
    BY StepInOrder
<1>2. Spec => [][InOrder]_vars
    BY <1>1, OInvHolds, PTL DEF Spec
<1> QED
    BY <1>2 DEF ArriveInOrder, InOrder
=============================================================================
