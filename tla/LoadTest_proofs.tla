--------------------------- MODULE LoadTest_proofs ---------------------------
(***************************************************************************)
(* Theorems about the load test: the counters of the test receiver are     *)
(* those of its slots, for any number of events and any requests, PASS is  *)
(* only said when it is so, and the receiver is left working.              *)
(***************************************************************************)
EXTENDS Operation, TLAPS, FiniteSetTheorems, WellFoundedInduction

Slot == [received : Nat, sent : Nat, reported : BOOLEAN]
Record == [test : BOOLEAN, place : Nat, run : Nat]
LedgerRecord ==
    [active : BOOLEAN, expected : Nat, slots : Seq(Slot), unique : Nat, deliveries : Nat,
     unexpected : Nat, conflicts : Nat, reportedLost : Nat, reportedMissing : Nat]
Ledgers == {l \in LedgerRecord : Len(l.slots) = l.expected}

\* The places whose event was received, and those which NGINX named
Seen(slots) == {i \in DOMAIN slots : slots[i].received > 0}
Named(slots) == {i \in DOMAIN slots : slots[i].reported}

-----------------------------------------------------------------------------
(* Induction over the natural numbers, as a least counterexample *)

LEMMA LeastNat ==
    ASSUME NEW S, S \subseteq Nat, S # {}
    PROVE  \E m \in S : \A n \in S : m <= n
<1> DEFINE Less == {pair \in Nat \X Nat : pair[1] < pair[2]}
<1>1. IsWellFoundedOn(Less, Nat)
    BY NatLessThanWellFounded DEF OpToRel
<1>2. \A a \in Nat, b \in Nat : a < b => <<a, b>> \in Less
    OBVIOUS
<1> HIDE DEF Less
<1>3. PICK m \in S : \A n \in S : ~(<<n, m>> \in Less)
    BY <1>1, WFMin
<1>4. ASSUME NEW n \in S PROVE m <= n
    <2>1. n \in Nat /\ m \in Nat
        OBVIOUS
    <2>2. ~(n < m)
        BY <1>2, <1>3, <2>1
    <2> QED
        BY <2>1, <2>2
<1> QED
    BY <1>3, <1>4

\* A set which has the first number, and each next one, has them all
LEMMA Induction ==
    ASSUME NEW N \in Nat, NEW S, 0 \in S,
           \A i \in 1..N : i - 1 \in S => i \in S
    PROVE  0..N \subseteq S
<1> DEFINE Out == (0..N) \ S
<1> SUFFICES ASSUME Out # {}
             PROVE  FALSE
    OBVIOUS
<1>1. Out \subseteq Nat
    OBVIOUS
<1> HIDE DEF Out
<1>2. PICK m \in Out : \A n \in Out : m <= n
    BY <1>1, LeastNat
<1> USE DEF Out
<1>3. m \in 1..N /\ m - 1 \in 0..N
    OBVIOUS
<1>4. m - 1 \notin Out
    BY <1>2, <1>3
<1> QED
    BY <1>3, <1>4

\* A value for each number, from the one before it
IsRecursion(N, S, b, next, f) ==
    f \in [0..N -> S] /\ f[0] = b /\ \A i \in 1..N : f[i] = next[i][f[i - 1]]

LEMMA Recursion ==
    ASSUME NEW N \in Nat, NEW S, NEW b \in S, NEW next \in [1..N -> [S -> S]]
    PROVE  \E f : IsRecursion(N, S, b, next, f)
<1> DEFINE Upto(n, f) == f \in [0..n -> S] /\ f[0] = b /\ \A i \in 1..n : f[i] = next[i][f[i - 1]]
           Good == {n \in 0..N : \E f : Upto(n, f)}
<1>1. 0 \in Good
    <2>1. Upto(0, [i \in 0..0 |-> b])
        OBVIOUS
    <2> HIDE DEF Upto
    <2>2. \E f : Upto(0, f)
        BY <2>1
    <2> QED
        BY <2>2
<1>2. ASSUME NEW n \in 1..N, n - 1 \in Good
      PROVE  n \in Good
    <2>1. PICK f : Upto(n - 1, f)
        BY <1>2
    <2>2. n - 1 \in 0..(n - 1) /\ f[n - 1] \in S
        BY <2>1
    <2>3. next[n][f[n - 1]] \in S
        BY <2>2
    <2> DEFINE g == [i \in 0..n |-> IF i = n THEN next[n][f[n - 1]] ELSE f[i]]
    <2>4. g \in [0..n -> S]
        BY <2>1, <2>3
    <2>5. g[0] = b
        BY <2>1
    <2>6. ASSUME NEW i \in 1..n
          PROVE  g[i] = next[i][g[i - 1]]
        <3>1. i - 1 \in 0..n /\ i - 1 # n /\ i \in 0..n
            OBVIOUS
        <3>2. g[i - 1] = f[i - 1]
            BY <3>1
        <3>3. CASE i = n
            BY <3>2, <3>3
        <3>4. CASE i # n
            BY <2>1, <3>1, <3>2, <3>4
        <3> QED
            BY <3>3, <3>4
    <2>7. Upto(n, g)
        BY <2>4, <2>5, <2>6
    <2> HIDE DEF Upto, g
    <2>8. \E h : Upto(n, h)
        BY <2>7
    <2> QED
        BY <2>8
<1> HIDE DEF Good
<1>3. 0..N \subseteq Good
    BY <1>1, <1>2, Induction
<1>4. N \in Good
    BY <1>3
<1> QED
    BY <1>4 DEF Good, IsRecursion
-----------------------------------------------------------------------------
(* One record *)

LEMMA LedgerParts ==
    ASSUME NEW l \in Ledgers
    PROVE  /\ l.active \in BOOLEAN /\ l.expected \in Nat /\ l.slots \in Seq(Slot)
           /\ l.unique \in Nat /\ l.deliveries \in Nat /\ l.unexpected \in Nat /\ l.conflicts \in Nat
           /\ l.reportedLost \in Nat /\ l.reportedMissing \in Nat
           /\ DOMAIN l.slots = 1..l.expected
<1>1. l \in LedgerRecord /\ Len(l.slots) = l.expected
    BY DEF Ledgers
<1>2. l.slots \in Seq(Slot)
    BY <1>1 DEF LedgerRecord
<1>3. DOMAIN l.slots = 1..Len(l.slots)
    BY <1>2
<1> QED
    BY <1>1, <1>2, <1>3 DEF LedgerRecord

LEMMA SlotParts ==
    ASSUME NEW l \in Ledgers, NEW p \in 1..l.expected
    PROVE  /\ l.slots[p] \in Slot
           /\ l.slots[p].received \in Nat /\ l.slots[p].sent \in Nat /\ l.slots[p].reported \in BOOLEAN
<1>1. l.slots[p] \in Slot
    BY LedgerParts
<1> QED
    BY <1>1 DEF Slot

\* A ledger with another slot in one place
LEMMA PutSlot ==
    ASSUME NEW l \in Ledgers, NEW p \in 1..l.expected, NEW x \in Slot
    PROVE  /\ [l.slots EXCEPT ![p] = x] \in Seq(Slot)
           /\ Len([l.slots EXCEPT ![p] = x]) = l.expected
<1>1. l.slots \in Seq(Slot) /\ DOMAIN l.slots = 1..l.expected /\ Len(l.slots) = l.expected
    BY LedgerParts DEF Ledgers
<1> QED
    BY <1>1

\* What the members are after a line which names a request
LEMMA ReportIs ==
    ASSUME NEW l \in Ledgers, NEW r \in Record, InRange(l, r), ~l.slots[r.place].reported,
           NEW m, m = Report(l, r), NEW s, s = l.slots[r.place]
    PROVE  /\ m \in Ledgers
           /\ m.active = l.active /\ m.expected = l.expected
           /\ m.slots = [l.slots EXCEPT ![r.place] = [s EXCEPT !.reported = TRUE]]
           /\ m.unique = l.unique /\ m.deliveries = l.deliveries
           /\ m.unexpected = l.unexpected /\ m.conflicts = l.conflicts
           /\ m.reportedLost = l.reportedLost + 1
           /\ m.reportedMissing = l.reportedMissing + IF s.received = 0 THEN 1 ELSE 0
<1> DEFINE t == [l.slots EXCEPT ![r.place] = [s EXCEPT !.reported = TRUE]]
           miss == l.reportedMissing + IF s.received = 0 THEN 1 ELSE 0
<1>1. r.place \in 1..l.expected /\ r.place \in DOMAIN l.slots
    BY LedgerParts DEF InRange
<1>2. s \in Slot
    BY <1>1, SlotParts
<1>3. [s EXCEPT !.reported = TRUE] \in Slot
    BY <1>2 DEF Slot
<1>4. t \in Seq(Slot) /\ Len(t) = l.expected
    BY <1>1, <1>3, PutSlot
<1>5. l.reportedLost + 1 \in Nat /\ miss \in Nat
    BY LedgerParts
<1>6. [l.slots EXCEPT ![r.place].reported = TRUE] = t
    BY <1>1
<1> HIDE DEF t, miss
<1>7. m = [l EXCEPT !.slots = t, !.reportedLost = l.reportedLost + 1, !.reportedMissing = miss]
    BY <1>6 DEF Report, miss, t
<1>8. l \in LedgerRecord
    BY DEF Ledgers
<1>9. m \in LedgerRecord /\ m.slots = t
    BY <1>4, <1>5, <1>7, <1>8 DEF LedgerRecord
<1>10. m.expected = l.expected
    BY <1>7, <1>8 DEF LedgerRecord
<1>11. m \in Ledgers
    BY <1>4, <1>9, <1>10 DEF Ledgers
<1> QED
    BY <1>7, <1>8, <1>9, <1>10, <1>11 DEF LedgerRecord, t, miss

\* ... after the first event for a place
IsFirst(l, r, m, s) ==
    /\ m \in Ledgers
    /\ m.active = l.active /\ m.expected = l.expected
    /\ m.slots = [l.slots EXCEPT ![r.place] = [s EXCEPT !.received = 1, !.sent = r.run]]
    /\ m.unique = l.unique + 1 /\ m.deliveries = l.deliveries + 1
    /\ m.unexpected = l.unexpected /\ m.conflicts = l.conflicts
    /\ m.reportedLost = l.reportedLost
    /\ m.reportedMissing = l.reportedMissing - IF s.reported /\ l.reportedMissing > 0 THEN 1 ELSE 0

LEMMA FirstIs ==
    ASSUME NEW l \in Ledgers, NEW r \in Record, InRange(l, r), l.slots[r.place].received = 0,
           NEW m, m = Arrive(l, r), NEW s, s = l.slots[r.place]
    PROVE  IsFirst(l, r, m, s)
<1> DEFINE t == [l.slots EXCEPT ![r.place] = [s EXCEPT !.received = 1, !.sent = r.run]]
           miss == l.reportedMissing - IF s.reported /\ l.reportedMissing > 0 THEN 1 ELSE 0
<1>1. r.place \in 1..l.expected /\ r.place \in DOMAIN l.slots
    BY LedgerParts DEF InRange
<1>2. s \in Slot
    BY <1>1, SlotParts
<1>3. [s EXCEPT !.received = 1, !.sent = r.run] \in Slot
    BY <1>2 DEF Slot, Record
<1>4. t \in Seq(Slot) /\ Len(t) = l.expected
    BY <1>1, <1>3, PutSlot
<1>5. l.unique + 1 \in Nat /\ l.deliveries + 1 \in Nat
    BY LedgerParts
<1>6. miss \in Nat
    BY LedgerParts
<1>7. [l.slots EXCEPT ![r.place].received = 1, ![r.place].sent = r.run] = t
    BY <1>1
<1>8. l \in LedgerRecord
    BY DEF Ledgers
<1> DEFINE d == [l EXCEPT !.deliveries = l.deliveries + 1]
<1>9. d.slots = l.slots /\ d.reportedMissing = l.reportedMissing /\ d.unique = l.unique
    BY <1>8 DEF LedgerRecord
<1>10. m = First(d, r)
    BY DEF Arrive, InRange
<1> HIDE DEF t, miss, d
<1>11. m = [d EXCEPT !.slots = t, !.unique = l.unique + 1, !.reportedMissing = miss]
    <2>1. [d.slots EXCEPT ![r.place].received = 1, ![r.place].sent = r.run] = t
        BY <1>7, <1>9
    <2>2. miss = d.reportedMissing - IF s.reported /\ d.reportedMissing > 0 THEN 1 ELSE 0
        BY <1>9 DEF miss
    <2> QED
        <3>1. m = [d EXCEPT !.slots[r.place].received = 1, !.slots[r.place].sent = r.run,
                            !.unique = @ + 1,
                            !.reportedMissing = @ - IF d.slots[r.place].reported /\ @ > 0 THEN 1 ELSE 0]
            BY <1>10 DEF First
        <3>2. m = [d EXCEPT !.slots = [d.slots EXCEPT ![r.place].received = 1, ![r.place].sent = r.run],
                            !.unique = d.unique + 1,
                            !.reportedMissing = d.reportedMissing
                                                - IF d.slots[r.place].reported /\ d.reportedMissing > 0 THEN 1 ELSE 0]
            BY <3>1
        <3>3. d.slots[r.place] = s /\ d.unique = l.unique
            BY <1>9
        <3> QED
            BY <2>1, <2>2, <3>2, <3>3
<1>12. m = [l EXCEPT !.deliveries = l.deliveries + 1, !.slots = t, !.unique = l.unique + 1,
                     !.reportedMissing = miss]
    BY <1>8, <1>11 DEF d, LedgerRecord
<1>13. m \in LedgerRecord /\ m.slots = t /\ m.expected = l.expected
    BY <1>4, <1>5, <1>6, <1>8, <1>12 DEF LedgerRecord
<1>14. m \in Ledgers
    BY <1>4, <1>13 DEF Ledgers
<1> QED
    BY <1>8, <1>12, <1>13, <1>14 DEF LedgerRecord, t, miss, IsFirst

\* ... after another one for it
LEMMA AgainIs ==
    ASSUME NEW l \in Ledgers, NEW r \in Record, InRange(l, r), l.slots[r.place].received # 0,
           NEW m, m = Arrive(l, r), NEW s, s = l.slots[r.place]
    PROVE  /\ m \in Ledgers
           /\ m.active = l.active /\ m.expected = l.expected
           /\ m.slots = [l.slots EXCEPT ![r.place] = [s EXCEPT !.received = s.received + 1]]
           /\ m.unique = l.unique /\ m.deliveries = l.deliveries + 1
           /\ m.unexpected = l.unexpected
           /\ m.conflicts = l.conflicts + IF s.sent # r.run THEN 1 ELSE 0
           /\ m.reportedLost = l.reportedLost /\ m.reportedMissing = l.reportedMissing
<1> DEFINE t == [l.slots EXCEPT ![r.place] = [s EXCEPT !.received = s.received + 1]]
           clash == l.conflicts + IF s.sent # r.run THEN 1 ELSE 0
<1>1. r.place \in 1..l.expected /\ r.place \in DOMAIN l.slots
    BY LedgerParts DEF InRange
<1>2. s \in Slot
    BY <1>1, SlotParts
<1>3. [s EXCEPT !.received = s.received + 1] \in Slot
    BY <1>2 DEF Slot
<1>4. t \in Seq(Slot) /\ Len(t) = l.expected
    BY <1>1, <1>3, PutSlot
<1>5. clash \in Nat /\ l.deliveries + 1 \in Nat
    BY LedgerParts
<1>6. [l.slots EXCEPT ![r.place].received = @ + 1] = t
    BY <1>1
<1>7. l \in LedgerRecord
    BY DEF Ledgers
<1> DEFINE d == [l EXCEPT !.deliveries = l.deliveries + 1]
<1>8. d.slots = l.slots /\ d.conflicts = l.conflicts
    BY <1>7 DEF LedgerRecord
<1>9. m = Again(d, r)
    BY DEF Arrive, InRange
<1> HIDE DEF t, clash, d
<1>10. m = [d EXCEPT !.slots = t, !.conflicts = clash]
    BY <1>6, <1>8, <1>9 DEF Again, clash
<1>11. m = [l EXCEPT !.deliveries = l.deliveries + 1, !.slots = t, !.conflicts = clash]
    BY <1>7, <1>10 DEF d, LedgerRecord
<1>12. m \in LedgerRecord /\ m.slots = t /\ m.expected = l.expected
    BY <1>4, <1>5, <1>7, <1>11 DEF LedgerRecord
<1>13. m \in Ledgers
    BY <1>4, <1>12 DEF Ledgers
<1> QED
    BY <1>7, <1>11, <1>12, <1>13 DEF LedgerRecord, t, clash

\* ... after one which is of no place
LEMMA UnexpectedIs ==
    ASSUME NEW l \in Ledgers, NEW r \in Record, ~InRange(l, r), NEW m, m = Arrive(l, r)
    PROVE  /\ m \in Ledgers
           /\ m = [l EXCEPT !.unexpected = l.unexpected + 1]
           /\ m.active = l.active /\ m.expected = l.expected /\ m.slots = l.slots
           /\ m.unique = l.unique /\ m.deliveries = l.deliveries /\ m.conflicts = l.conflicts
           /\ m.reportedLost = l.reportedLost /\ m.reportedMissing = l.reportedMissing
<1>1. l \in LedgerRecord /\ Len(l.slots) = l.expected
    BY DEF Ledgers
<1>2. m = [l EXCEPT !.unexpected = l.unexpected + 1]
    BY DEF Arrive
<1>3. m \in LedgerRecord /\ m.slots = l.slots /\ m.expected = l.expected
    BY <1>1, <1>2 DEF LedgerRecord
<1>4. m \in Ledgers
    BY <1>1, <1>3 DEF Ledgers
<1> QED
    BY <1>1, <1>2, <1>3, <1>4 DEF LedgerRecord
-----------------------------------------------------------------------------
(* The records of a request, one after the other *)

LineStep(l, r) == IF r.test THEN l ELSE Report(l, r)
EventStep(l, r) == IF r.test THEN Arrive(l, r) ELSE l

LEMMA LineStepType ==
    ASSUME NEW l \in Ledgers, NEW r \in Record
    PROVE  LineStep(l, r) \in Ledgers
<1>1. CASE r.test \/ ~InRange(l, r) \/ l.slots[r.place].reported
    BY <1>1 DEF LineStep, Report
<1>2. CASE ~r.test /\ InRange(l, r) /\ ~l.slots[r.place].reported
    BY <1>2, ReportIs DEF LineStep
<1> QED
    BY <1>1, <1>2

LEMMA EventStepType ==
    ASSUME NEW l \in Ledgers, NEW r \in Record
    PROVE  EventStep(l, r) \in Ledgers
<1>1. CASE ~r.test
    BY <1>1 DEF EventStep
<1>2. CASE r.test /\ ~InRange(l, r)
    BY <1>2, UnexpectedIs DEF EventStep
<1>3. CASE r.test /\ InRange(l, r) /\ l.slots[r.place].received = 0
    BY <1>3, FirstIs DEF EventStep, IsFirst
<1>4. CASE r.test /\ InRange(l, r) /\ l.slots[r.place].received # 0
    BY <1>4, AgainIs DEF EventStep
<1> QED
    BY <1>1, <1>2, <1>3, <1>4

\* Reports takes a step for each record
LEMMA ReportsIs ==
    ASSUME NEW l \in Ledgers, NEW rs \in Seq(Record)
    PROVE  \E f \in [0..Len(rs) -> Ledgers] :
               /\ f[0] = l /\ f[Len(rs)] = Reports(l, rs)
               /\ \A i \in 1..Len(rs) : f[i] = LineStep(f[i - 1], rs[i])
<1> DEFINE N == Len(rs)
           Is(f) == f = [i \in 0..N |-> IF i = 0 THEN l
                                        ELSE IF rs[i].test THEN f[i - 1] ELSE Report(f[i - 1], rs[i])]
           next == [i \in 1..N |-> [m \in Ledgers |-> LineStep(m, rs[i])]]
<1>1. N \in Nat /\ l \in Ledgers /\ \A i \in 1..N : rs[i] \in Record
    OBVIOUS
<1>2. next \in [1..N -> [Ledgers -> Ledgers]]
    BY <1>1, LineStepType
<1>3. \A i \in 1..N, m \in Ledgers : next[i][m] = LineStep(m, rs[i])
    OBVIOUS
<1> HIDE DEF next, N
<1>4. PICK f \in [0..N -> Ledgers] : f[0] = l /\ \A i \in 1..N : f[i] = next[i][f[i - 1]]
    <2>1. \E f : IsRecursion(N, Ledgers, l, next, f)
        BY <1>1, <1>2, Recursion
    <2> QED
        BY <2>1 DEF IsRecursion
<1>5. \A i \in 1..N : f[i] = LineStep(f[i - 1], rs[i])
    BY <1>1, <1>3, <1>4
<1>6. Is(f)
    BY <1>1, <1>4, <1>5 DEF LineStep
<1> DEFINE h == CHOOSE g : Is(g)
<1>7. Is(h)
    BY <1>6
<1>8. Reports(l, rs) = h[N]
    BY DEF Reports, N
<1> HIDE DEF h
<1>9. h[0] = l /\ \A i \in 1..N : h[i] = LineStep(h[i - 1], rs[i])
    BY <1>1, <1>7 DEF LineStep
<1>10. h \in [0..N -> Ledgers]
    <2> DEFINE S == {i \in 0..N : h[i] \in Ledgers}
    <2>1. 0 \in S
        BY <1>1, <1>9
    <2>2. ASSUME NEW i \in 1..N, i - 1 \in S PROVE i \in S
        <3>1. h[i - 1] \in Ledgers /\ rs[i] \in Record
            BY <1>1, <2>2
        <3>2. h[i] \in Ledgers
            BY <1>9, <3>1, LineStepType
        <3> QED
            BY <1>1, <3>2
    <2> HIDE DEF S
    <2>3. 0..N \subseteq S
        BY <1>1, <2>1, <2>2, Induction
    <2> QED
        BY <1>7, <2>3 DEF S
<1> QED
    BY <1>8, <1>9, <1>10 DEF N

\* ... and so does Arrivals
LEMMA ArrivalsIs ==
    ASSUME NEW l \in Ledgers, NEW rs \in Seq(Record)
    PROVE  \E f \in [0..Len(rs) -> Ledgers] :
               /\ f[0] = l /\ f[Len(rs)] = Arrivals(l, rs)
               /\ \A i \in 1..Len(rs) : f[i] = EventStep(f[i - 1], rs[i])
<1> DEFINE N == Len(rs)
           Is(f) == f = [i \in 0..N |-> IF i = 0 THEN l
                                        ELSE IF rs[i].test THEN Arrive(f[i - 1], rs[i]) ELSE f[i - 1]]
           next == [i \in 1..N |-> [m \in Ledgers |-> EventStep(m, rs[i])]]
<1>1. N \in Nat /\ l \in Ledgers /\ \A i \in 1..N : rs[i] \in Record
    OBVIOUS
<1>2. next \in [1..N -> [Ledgers -> Ledgers]]
    BY <1>1, EventStepType
<1>3. \A i \in 1..N, m \in Ledgers : next[i][m] = EventStep(m, rs[i])
    OBVIOUS
<1> HIDE DEF next, N
<1>4. PICK f \in [0..N -> Ledgers] : f[0] = l /\ \A i \in 1..N : f[i] = next[i][f[i - 1]]
    <2>1. \E f : IsRecursion(N, Ledgers, l, next, f)
        BY <1>1, <1>2, Recursion
    <2> QED
        BY <2>1 DEF IsRecursion
<1>5. \A i \in 1..N : f[i] = EventStep(f[i - 1], rs[i])
    BY <1>1, <1>3, <1>4
<1>6. Is(f)
    BY <1>1, <1>4, <1>5 DEF EventStep
<1> DEFINE h == CHOOSE g : Is(g)
<1>7. Is(h)
    BY <1>6
<1>8. Arrivals(l, rs) = h[N]
    BY DEF Arrivals, N
<1> HIDE DEF h
<1>9. h[0] = l /\ \A i \in 1..N : h[i] = EventStep(h[i - 1], rs[i])
    BY <1>1, <1>7 DEF EventStep
<1>10. h \in [0..N -> Ledgers]
    <2> DEFINE S == {i \in 0..N : h[i] \in Ledgers}
    <2>1. 0 \in S
        BY <1>1, <1>9
    <2>2. ASSUME NEW i \in 1..N, i - 1 \in S PROVE i \in S
        <3>1. h[i - 1] \in Ledgers /\ rs[i] \in Record
            BY <1>1, <2>2
        <3>2. h[i] \in Ledgers
            BY <1>9, <3>1, EventStepType
        <3> QED
            BY <1>1, <3>2
    <2> HIDE DEF S
    <2>3. 0..N \subseteq S
        BY <1>1, <2>1, <2>2, Induction
    <2> QED
        BY <1>7, <2>3 DEF S
<1> QED
    BY <1>8, <1>9, <1>10 DEF N
-----------------------------------------------------------------------------
(* What was received for all places *)

IsTotal(s, f) ==
    f \in [0..Len(s) -> Nat] /\ f[0] = 0 /\ \A i \in 1..Len(s) : f[i] = f[i - 1] + s[i].received

LEMMA ReceivedIs ==
    ASSUME NEW s \in Seq(Slot)
    PROVE  \E f : IsTotal(s, f) /\ Received(s) = f[Len(s)]
<1> DEFINE N == Len(s)
           Is(f) == f = [i \in 0..N |-> IF i = 0 THEN 0 ELSE f[i - 1] + s[i].received]
           next == [i \in 1..N |-> [m \in Nat |-> m + s[i].received]]
<1>1. N \in Nat
    OBVIOUS
<1>2. ASSUME NEW i \in 1..N PROVE s[i].received \in Nat
    <2>1. s[i] \in Slot
        OBVIOUS
    <2> QED
        BY <2>1 DEF Slot
<1>3. next \in [1..N -> [Nat -> Nat]]
    BY <1>2
<1>4. \A i \in 1..N, m \in Nat : next[i][m] = m + s[i].received
    OBVIOUS
<1> HIDE DEF next, N
<1>5. PICK f : IsRecursion(N, Nat, 0, next, f)
    BY <1>1, <1>3, Recursion
<1>6. f \in [0..N -> Nat] /\ f[0] = 0 /\ \A i \in 1..N : f[i] = next[i][f[i - 1]]
    BY <1>5 DEF IsRecursion
<1>7. ASSUME NEW i \in 1..N PROVE f[i] = f[i - 1] + s[i].received
    <2>1. i - 1 \in 0..N
        BY <1>1
    <2>2. f[i - 1] \in Nat
        BY <1>6, <2>1
    <2>3. next[i][f[i - 1]] = f[i - 1] + s[i].received
        BY <1>4, <2>2
    <2> QED
        BY <1>6, <2>3
<1>8. Is(f)
    BY <1>1, <1>6, <1>7
<1> DEFINE h == CHOOSE g : Is(g)
<1>9. Is(h)
    BY <1>8
<1>10. Received(s) = h[N]
    BY DEF Received, N
<1> HIDE DEF h
<1>11. h[0] = 0 /\ \A i \in 1..N : h[i] = h[i - 1] + s[i].received
    BY <1>1, <1>9
<1>12. h \in [0..N -> Nat]
    <2> DEFINE S == {i \in 0..N : h[i] \in Nat}
    <2>1. 0 \in S
        BY <1>1, <1>11
    <2>2. ASSUME NEW i \in 1..N, i - 1 \in S PROVE i \in S
        <3>1. h[i - 1] \in Nat /\ h[i] = h[i - 1] + s[i].received
            BY <1>11, <2>2
        <3> QED
            BY <1>1, <1>2, <3>1
    <2> HIDE DEF S
    <2>3. 0..N \subseteq S
        BY <1>1, <2>1, <2>2, Induction
    <2> QED
        BY <1>9, <2>3 DEF S
<1>13. IsTotal(s, h)
    BY <1>11, <1>12 DEF IsTotal, N
<1> QED
    BY <1>10, <1>13 DEF N

\* One place more, or one event more in a place
LEMMA ReceivedPut ==
    ASSUME NEW s \in Seq(Slot), NEW p \in 1..Len(s), NEW x \in Slot
    PROVE  Received([s EXCEPT ![p] = x]) = Received(s) + (x.received - s[p].received)
<1> DEFINE N == Len(s)
           t == [s EXCEPT ![p] = x]
           d == x.received - s[p].received
<1>1. N \in Nat /\ s[p] \in Slot /\ p \in 1..N
    OBVIOUS
<1>2. d \in Int /\ x.received \in Nat /\ s[p].received \in Nat
    BY <1>1 DEF Slot
<1>3. t \in Seq(Slot) /\ Len(t) = N
    OBVIOUS
<1>4. t[p] = x /\ \A i \in 1..N : i # p => t[i] = s[i]
    OBVIOUS
<1>5. PICK f : IsTotal(s, f) /\ Received(s) = f[Len(s)]
    BY ReceivedIs
<1> HIDE DEF t, N
<1>6. PICK g : IsTotal(t, g) /\ Received(t) = g[Len(t)]
    BY <1>3, ReceivedIs
<1>7. f \in [0..N -> Nat] /\ f[0] = 0 /\ \A i \in 1..N : f[i] = f[i - 1] + s[i].received
    BY <1>5 DEF IsTotal, N
<1>8. g \in [0..N -> Nat] /\ g[0] = 0 /\ \A i \in 1..N : g[i] = g[i - 1] + t[i].received
    BY <1>3, <1>6 DEF IsTotal
<1> DEFINE S == {i \in 0..N : g[i] = f[i] + IF p <= i THEN d ELSE 0}
<1>9. 0 \in S
    BY <1>1, <1>7, <1>8
<1>10. ASSUME NEW i \in 1..N, i - 1 \in S PROVE i \in S
    <2> HIDE DEF d
    <2>1. g[i - 1] = f[i - 1] + IF p <= i - 1 THEN d ELSE 0
        BY <1>10
    <2>2. f[i - 1] \in Nat /\ g[i - 1] \in Nat /\ i \in 0..N
        <3>1. i - 1 \in 0..N /\ i \in 0..N
            BY <1>1
        <3> QED
            BY <1>7, <1>8, <3>1
    <2>3. f[i] = f[i - 1] + s[i].received /\ g[i] = g[i - 1] + t[i].received
        BY <1>7, <1>8
    <2>4. s[i].received \in Nat /\ t[i].received \in Nat
        <3>1. s[i] \in Slot /\ t[i] \in Slot
            BY <1>3 DEF N
        <3> QED
            BY <3>1 DEF Slot
    <2>5. CASE i = p
        <3>1. t[i].received = s[i].received + d
            BY <1>2, <1>4, <2>5 DEF d
        <3>2. g[i - 1] = f[i - 1]
            <4>1. ~(p <= i - 1)
                BY <1>1, <2>5
            <4> QED
                BY <2>1, <2>2, <4>1
        <3> QED
            BY <1>1, <1>2, <2>2, <2>3, <2>4, <2>5, <3>1, <3>2
    <2>6. CASE i # p
        <3>1. t[i] = s[i]
            BY <1>4, <2>6
        <3>2. (p <= i - 1) <=> (p <= i)
            BY <1>1, <2>6
        <3> QED
            BY <1>1, <1>2, <2>1, <2>2, <2>3, <2>4, <3>1, <3>2
    <2> QED
        BY <2>5, <2>6
<1> HIDE DEF S, d
<1>11. 0..N \subseteq S
    BY <1>1, <1>9, <1>10, Induction
<1>12. N \in S /\ p <= N
    BY <1>1, <1>11
<1>13. g[N] = f[N] + d
    BY <1>12 DEF S
<1> QED
    BY <1>3, <1>5, <1>6, <1>13 DEF t, N, d

\* Nothing was received after a reset
LEMMA ReceivedNew ==
    ASSUME NEW n \in Nat
    PROVE  Received([i \in 1..n |-> NewSlot]) = 0
<1> DEFINE s == [i \in 1..n |-> NewSlot]
<1>1. NewSlot \in Slot /\ NewSlot.received = 0
    BY DEF NewSlot, Slot
<1>2. s \in Seq(Slot) /\ Len(s) = n
    BY <1>1
<1>3. \A i \in 1..n : s[i].received = 0
    BY <1>1
<1> HIDE DEF s
<1>4. PICK f : IsTotal(s, f) /\ Received(s) = f[Len(s)]
    BY <1>2, ReceivedIs
<1>5. f \in [0..n -> Nat] /\ f[0] = 0 /\ \A i \in 1..n : f[i] = f[i - 1] + s[i].received
    BY <1>2, <1>4 DEF IsTotal
<1> DEFINE S == {i \in 0..n : f[i] = 0}
<1>6. 0 \in S
    BY <1>5
<1>7. ASSUME NEW i \in 1..n, i - 1 \in S PROVE i \in S
    <2>1. f[i - 1] = 0 /\ i \in 0..n
        BY <1>7
    <2>2. f[i] = f[i - 1] + s[i].received /\ s[i].received = 0
        BY <1>3, <1>5
    <2> QED
        BY <2>1, <2>2
<1> HIDE DEF S
<1>8. 0..n \subseteq S
    BY <1>6, <1>7, Induction
<1>9. f[n] = 0
    BY <1>8 DEF S
<1> QED
    BY <1>2, <1>4, <1>9 DEF s
-----------------------------------------------------------------------------
(* The counters are those of the slots *)

Counted(l) ==
    /\ l \in Ledgers
    /\ l.unique = Cardinality(Seen(l.slots))
    /\ l.deliveries = Received(l.slots)
    /\ l.reportedLost = Cardinality(Named(l.slots))
    /\ l.reportedMissing = Cardinality(Named(l.slots) \ Seen(l.slots))
    /\ l.conflicts <= l.deliveries - l.unique

LEMMA SetsFinite ==
    ASSUME NEW l \in Ledgers
    PROVE  /\ IsFiniteSet(Seen(l.slots)) /\ IsFiniteSet(Named(l.slots))
           /\ IsFiniteSet(Named(l.slots) \ Seen(l.slots))
<1>1. l.expected \in Nat /\ DOMAIN l.slots = 1..l.expected
    BY LedgerParts
<1>2. IsFiniteSet(1..l.expected)
    BY <1>1, FS_Interval
<1>3. Seen(l.slots) \subseteq 1..l.expected /\ Named(l.slots) \subseteq 1..l.expected
    BY <1>1 DEF Seen, Named
<1> QED
    BY <1>2, <1>3, FS_Subset

\* The sets after a slot was replaced
LEMMA SetsPut ==
    ASSUME NEW l \in Ledgers, NEW p \in 1..l.expected, NEW x \in Slot,
           NEW t, t = [l.slots EXCEPT ![p] = x]
    PROVE  /\ x.received > 0 => Seen(t) = Seen(l.slots) \cup {p}
           /\ x.received = 0 => Seen(t) = Seen(l.slots) \ {p}
           /\ x.reported => Named(t) = Named(l.slots) \cup {p}
           /\ ~x.reported => Named(t) = Named(l.slots) \ {p}
<1>1. DOMAIN t = 1..l.expected /\ DOMAIN l.slots = 1..l.expected
    BY LedgerParts
<1>2. t[p] = x /\ \A i \in 1..l.expected : i # p => t[i] = l.slots[i]
    BY <1>1
<1>3. x.received \in Nat /\ x.reported \in BOOLEAN
    BY DEF Slot
<1>4. /\ x.received > 0 => Seen(t) = Seen(l.slots) \cup {p}
      /\ x.received = 0 => Seen(t) = Seen(l.slots) \ {p}
    <2>1. \A i \in 1..l.expected : (i \in Seen(t)) <=> (IF i = p THEN x.received > 0 ELSE i \in Seen(l.slots))
        BY <1>1, <1>2 DEF Seen
    <2>2. Seen(t) \subseteq 1..l.expected /\ Seen(l.slots) \subseteq 1..l.expected
        BY <1>1 DEF Seen
    <2> QED
        BY <1>3, <2>1, <2>2
<1>5. \A i \in 1..l.expected : (i \in Named(t)) <=> (IF i = p THEN x.reported ELSE i \in Named(l.slots))
    BY <1>1, <1>2 DEF Named
<1>6. Named(t) \subseteq 1..l.expected /\ Named(l.slots) \subseteq 1..l.expected
    BY <1>1 DEF Named
<1> QED
    BY <1>3, <1>4, <1>5, <1>6

LEMMA CountedReport ==
    ASSUME NEW l, Counted(l), NEW r \in Record
    PROVE  Counted(LineStep(l, r))
<1> l \in Ledgers
    BY DEF Counted
<1>1. CASE r.test \/ ~InRange(l, r) \/ l.slots[r.place].reported
    BY <1>1 DEF LineStep, Report
<1>2. CASE ~r.test /\ InRange(l, r) /\ ~l.slots[r.place].reported
    <2> DEFINE m == Report(l, r)
               p == r.place
               s == l.slots[p]
               x == [s EXCEPT !.reported = TRUE]
    <2>1. p \in 1..l.expected /\ p \in DOMAIN l.slots
        BY <1>2, LedgerParts DEF InRange
    <2>2. s \in Slot /\ x \in Slot /\ x.received = s.received /\ x.reported /\ s.received \in Nat
        <3>1. s \in Slot
            BY <2>1, SlotParts
        <3> QED
            BY <3>1 DEF Slot
    <2>3. /\ m \in Ledgers /\ m.slots = [l.slots EXCEPT ![p] = x]
          /\ m.unique = l.unique /\ m.deliveries = l.deliveries /\ m.conflicts = l.conflicts
          /\ m.reportedLost = l.reportedLost + 1
          /\ m.reportedMissing = l.reportedMissing + IF s.received = 0 THEN 1 ELSE 0
        BY <1>2, ReportIs
    <2>4. LineStep(l, r) = m
        BY <1>2 DEF LineStep
    <2> HIDE DEF m, x
    <2>5. /\ x.received > 0 => Seen(m.slots) = Seen(l.slots) \cup {p}
          /\ x.received = 0 => Seen(m.slots) = Seen(l.slots) \ {p}
          /\ Named(m.slots) = Named(l.slots) \cup {p}
        BY <2>1, <2>2, <2>3, SetsPut
    <2>6. (p \in Seen(l.slots)) <=> (s.received > 0)
        BY <2>1 DEF Seen
    <2>7. p \notin Named(l.slots)
        BY <1>2 DEF Named
    <2>8. Seen(m.slots) = Seen(l.slots)
        BY <2>2, <2>5, <2>6
    <2>9. Received(m.slots) = Received(l.slots)
        <3>1. p \in 1..Len(l.slots) /\ l.slots \in Seq(Slot)
            BY <2>1, LedgerParts DEF Ledgers
        <3>2. Received(m.slots) = Received(l.slots) + (x.received - s.received)
            BY <2>2, <2>3, <3>1, ReceivedPut
        <3>3. Received(l.slots) \in Nat
            BY LedgerParts DEF Counted
        <3> QED
            BY <2>2, <3>2, <3>3
    <2>10. Cardinality(Named(m.slots)) = Cardinality(Named(l.slots)) + 1
        BY <2>5, <2>7, SetsFinite, FS_AddElement
    <2>11. CASE s.received = 0
        <3>1. Named(m.slots) \ Seen(m.slots) = (Named(l.slots) \ Seen(l.slots)) \cup {p}
            BY <2>2, <2>5, <2>6, <2>8, <2>11
        <3>2. Cardinality(Named(m.slots) \ Seen(m.slots)) = Cardinality(Named(l.slots) \ Seen(l.slots)) + 1
            BY <2>7, <3>1, SetsFinite, FS_AddElement
        <3> QED
            BY <2>3, <2>4, <2>8, <2>9, <2>10, <2>11, <3>2 DEF Counted
    <2>12. CASE s.received # 0
        <3>1. Named(m.slots) \ Seen(m.slots) = Named(l.slots) \ Seen(l.slots)
            BY <2>2, <2>5, <2>6, <2>8, <2>12
        <3>2. l.reportedMissing + 0 = l.reportedMissing
            BY LedgerParts
        <3> QED
            BY <2>3, <2>4, <2>8, <2>9, <2>10, <2>12, <3>1, <3>2 DEF Counted
    <2> QED
        BY <2>11, <2>12
<1> QED
    BY <1>1, <1>2 DEF Ledgers

LEMMA CountedFirst ==
    ASSUME NEW l, Counted(l), NEW r \in Record, InRange(l, r), l.slots[r.place].received = 0
    PROVE  Counted(Arrive(l, r))
<1> l \in Ledgers
    BY DEF Counted
<1> DEFINE m == Arrive(l, r)
           p == r.place
           s == l.slots[p]
           x == [s EXCEPT !.received = 1, !.sent = r.run]
<1>1. p \in 1..l.expected /\ p \in DOMAIN l.slots
    BY LedgerParts DEF InRange
<1>2. s \in Slot /\ x \in Slot /\ x.received = 1 /\ x.reported = s.reported /\ s.received = 0
      /\ s.reported \in BOOLEAN
    <2>1. s \in Slot
        BY <1>1, SlotParts
    <2> QED
        BY <2>1 DEF Slot, Record
<1>3. /\ m \in Ledgers /\ m.slots = [l.slots EXCEPT ![p] = x]
      /\ m.unique = l.unique + 1 /\ m.deliveries = l.deliveries + 1 /\ m.conflicts = l.conflicts
      /\ m.reportedLost = l.reportedLost
      /\ m.reportedMissing = l.reportedMissing - IF s.reported /\ l.reportedMissing > 0 THEN 1 ELSE 0
    <2> HIDE DEF m
    <2>1. m = Arrive(l, r)
        BY DEF m
    <2>2. IsFirst(l, r, m, s)
        BY <2>1, FirstIs
    <2> QED
        BY <2>2 DEF IsFirst
<1> HIDE DEF m, x
<1>4. /\ Seen(m.slots) = Seen(l.slots) \cup {p}
      /\ s.reported => Named(m.slots) = Named(l.slots) \cup {p}
      /\ ~s.reported => Named(m.slots) = Named(l.slots) \ {p}
    BY <1>1, <1>2, <1>3, SetsPut
<1>5. p \notin Seen(l.slots)
    BY <1>1, <1>2 DEF Seen
<1>6. (p \in Named(l.slots)) <=> s.reported
    BY <1>1 DEF Named
<1>7. Named(m.slots) = Named(l.slots)
    BY <1>2, <1>4, <1>6
<1>8. Cardinality(Seen(m.slots)) = Cardinality(Seen(l.slots)) + 1
    BY <1>4, <1>5, SetsFinite, FS_AddElement
<1>9. Received(m.slots) = Received(l.slots) + 1
    <2>1. p \in 1..Len(l.slots) /\ l.slots \in Seq(Slot)
        BY <1>1, LedgerParts DEF Ledgers
    <2>2. Received(m.slots) = Received(l.slots) + (x.received - s.received)
        BY <1>2, <1>3, <2>1, ReceivedPut
    <2> QED
        BY <1>2, <2>2
<1>10. l.conflicts \in Nat /\ l.deliveries \in Nat /\ l.unique \in Nat /\ l.reportedMissing \in Nat
    BY LedgerParts
<1>11. m.reportedMissing = Cardinality(Named(m.slots) \ Seen(m.slots))
    <2>1. CASE s.reported
        <3>1. p \in Named(l.slots) \ Seen(l.slots)
            BY <1>5, <1>6, <2>1
        <3>2. Named(m.slots) \ Seen(m.slots) = (Named(l.slots) \ Seen(l.slots)) \ {p}
            BY <1>4, <1>7
        <3>3. Cardinality((Named(l.slots) \ Seen(l.slots)) \ {p}) = Cardinality(Named(l.slots) \ Seen(l.slots)) - 1
            BY <3>1, SetsFinite, FS_RemoveElement
        <3>4. Cardinality(Named(l.slots) \ Seen(l.slots)) # 0
            BY <3>1, SetsFinite, FS_EmptySet
        <3>5. l.reportedMissing = Cardinality(Named(l.slots) \ Seen(l.slots))
            BY DEF Counted
        <3>6. l.reportedMissing > 0
            BY <1>10, <3>4, <3>5
        <3> QED
            BY <1>3, <2>1, <3>2, <3>3, <3>5, <3>6
    <2>2. CASE ~s.reported
        <3>1. Named(m.slots) \ Seen(m.slots) = Named(l.slots) \ Seen(l.slots)
            BY <1>4, <1>6, <1>7, <2>2
        <3>2. l.reportedMissing - 0 = l.reportedMissing
            BY <1>10
        <3> QED
            BY <1>3, <2>2, <3>1, <3>2 DEF Counted
    <2> QED
        BY <2>1, <2>2
<1>12. m.conflicts <= m.deliveries - m.unique
    BY <1>3, <1>10 DEF Counted
<1> QED
    BY <1>3, <1>7, <1>8, <1>9, <1>11, <1>12 DEF Counted, m

LEMMA CountedAgain ==
    ASSUME NEW l, Counted(l), NEW r \in Record, InRange(l, r), l.slots[r.place].received # 0
    PROVE  Counted(Arrive(l, r))
<1> l \in Ledgers
    BY DEF Counted
<1> DEFINE m == Arrive(l, r)
           p == r.place
           s == l.slots[p]
           x == [s EXCEPT !.received = s.received + 1]
<1>1. p \in 1..l.expected /\ p \in DOMAIN l.slots
    BY LedgerParts DEF InRange
<1>2. s \in Slot /\ x \in Slot /\ x.received = s.received + 1 /\ x.reported = s.reported
      /\ s.received \in Nat /\ s.received > 0 /\ s.reported \in BOOLEAN
    <2>1. s \in Slot
        BY <1>1, SlotParts
    <2> QED
        BY <2>1 DEF Slot
<1>3. /\ m \in Ledgers /\ m.slots = [l.slots EXCEPT ![p] = x]
      /\ m.unique = l.unique /\ m.deliveries = l.deliveries + 1
      /\ m.conflicts = l.conflicts + IF s.sent # r.run THEN 1 ELSE 0
      /\ m.reportedLost = l.reportedLost /\ m.reportedMissing = l.reportedMissing
    BY AgainIs
<1> HIDE DEF m, x
<1>4. /\ Seen(m.slots) = Seen(l.slots) \cup {p}
      /\ s.reported => Named(m.slots) = Named(l.slots) \cup {p}
      /\ ~s.reported => Named(m.slots) = Named(l.slots) \ {p}
    BY <1>1, <1>2, <1>3, SetsPut
<1>5. Seen(m.slots) = Seen(l.slots)
    BY <1>1, <1>2, <1>4 DEF Seen
<1>6. Named(m.slots) = Named(l.slots)
    BY <1>1, <1>2, <1>4 DEF Named
<1>7. Received(m.slots) = Received(l.slots) + 1
    <2>1. p \in 1..Len(l.slots) /\ l.slots \in Seq(Slot)
        BY <1>1, LedgerParts DEF Ledgers
    <2>2. Received(m.slots) = Received(l.slots) + (x.received - s.received)
        BY <1>2, <1>3, <2>1, ReceivedPut
    <2>3. x.received - s.received = 1
        BY <1>2
    <2> QED
        BY <2>2, <2>3
<1>8. l.conflicts \in Nat /\ l.deliveries \in Nat /\ l.unique \in Nat
    BY LedgerParts
<1>9. m.conflicts <= m.deliveries - m.unique
    BY <1>3, <1>8 DEF Counted
<1> QED
    BY <1>3, <1>5, <1>6, <1>7, <1>9 DEF Counted, m

LEMMA CountedArrive ==
    ASSUME NEW l, Counted(l), NEW r \in Record
    PROVE  Counted(EventStep(l, r))
<1> l \in Ledgers
    BY DEF Counted
<1>1. CASE ~r.test
    BY <1>1 DEF EventStep
<1>2. CASE r.test /\ ~InRange(l, r)
    BY <1>2, UnexpectedIs DEF EventStep, Counted
<1>3. CASE r.test /\ InRange(l, r)
    BY <1>3, CountedFirst, CountedAgain DEF EventStep
<1> QED
    BY <1>1, <1>2, <1>3

LEMMA CountedProcess ==
    ASSUME NEW l, Counted(l), NEW rs \in Seq(Record)
    PROVE  Counted(ProcessOtlp(l, rs))
<1> DEFINE N == Len(rs)
<1>1. N \in Nat /\ \A i \in 1..N : rs[i] \in Record
    OBVIOUS
<1>2. l \in Ledgers
    BY DEF Counted
<1>3. Counted(Reports(l, rs))
    <2>1. PICK f \in [0..N -> Ledgers] :
              f[0] = l /\ f[N] = Reports(l, rs) /\ \A i \in 1..N : f[i] = LineStep(f[i - 1], rs[i])
        BY <1>2, ReportsIs
    <2> HIDE DEF N
    <2> DEFINE S == {i \in 0..N : Counted(f[i])}
    <2>2. 0 \in S
        BY <1>1, <2>1
    <2>3. ASSUME NEW i \in 1..N, i - 1 \in S PROVE i \in S
        BY <1>1, <2>1, <2>3, CountedReport
    <2> HIDE DEF S
    <2>4. 0..N \subseteq S
        BY <1>1, <2>2, <2>3, Induction
    <2>5. N \in S
        BY <1>1, <2>4
    <2> QED
        BY <2>1, <2>5 DEF S
<1> DEFINE k == Reports(l, rs)
<1> HIDE DEF k
<1>4. k \in Ledgers /\ Counted(k)
    BY <1>3 DEF Counted, k
<1>5. Counted(Arrivals(k, rs))
    <2>1. PICK f \in [0..N -> Ledgers] :
              f[0] = k /\ f[N] = Arrivals(k, rs) /\ \A i \in 1..N : f[i] = EventStep(f[i - 1], rs[i])
        BY <1>4, ArrivalsIs
    <2> HIDE DEF N
    <2> DEFINE S == {i \in 0..N : Counted(f[i])}
    <2>2. 0 \in S
        BY <1>1, <1>4, <2>1
    <2>3. ASSUME NEW i \in 1..N, i - 1 \in S PROVE i \in S
        BY <1>1, <2>1, <2>3, CountedArrive
    <2> HIDE DEF S
    <2>4. 0..N \subseteq S
        BY <1>1, <2>2, <2>3, Induction
    <2>5. N \in S
        BY <1>1, <2>4
    <2> QED
        BY <2>1, <2>5 DEF S
<1> QED
    BY <1>5 DEF ProcessOtlp, k
LEMMA ResetLedger ==
    ASSUME NEW n \in Nat
    PROVE  /\ Reset(n) \in Ledgers
           /\ Reset(n).active /\ Reset(n).expected = n
           /\ Reset(n).slots = [i \in 1..n |-> NewSlot]
           /\ Reset(n).unique = 0 /\ Reset(n).deliveries = 0 /\ Reset(n).conflicts = 0
           /\ Reset(n).unexpected = 0
           /\ Reset(n).reportedLost = 0 /\ Reset(n).reportedMissing = 0
<1>1. NewSlot \in Slot
    BY DEF NewSlot, Slot
<1>2. [i \in 1..n |-> NewSlot] \in Seq(Slot) /\ Len([i \in 1..n |-> NewSlot]) = n
    BY <1>1
<1> QED
    BY <1>2 DEF Reset, NoLedger, Ledgers, LedgerRecord

LEMMA CountedReset ==
    ASSUME NEW n \in Nat
    PROVE  Counted(Reset(n))
<1> DEFINE m == Reset(n)
<1>1. m.slots = [i \in 1..n |-> NewSlot]
    BY ResetLedger
<1>2. NewSlot.received = 0 /\ NewSlot.reported = FALSE
    BY DEF NewSlot
<1>3. Seen(m.slots) = {} /\ Named(m.slots) = {}
    BY <1>1, <1>2 DEF Seen, Named
<1>4. Received(m.slots) = 0
    BY <1>1, ReceivedNew
<1>5. /\ m \in Ledgers /\ m.unique = 0 /\ m.deliveries = 0 /\ m.conflicts = 0
      /\ m.reportedLost = 0 /\ m.reportedMissing = 0
    BY ResetLedger
<1> HIDE DEF m
<1>6. Cardinality({}) = 0 /\ {} \ {} = {}
    BY FS_EmptySet
<1>7. Counted(m)
    BY <1>3, <1>4, <1>5, <1>6 DEF Counted
<1> QED
    BY <1>7 DEF m

LEMMA NoLedgerParts ==
    NoLedger \in Ledgers /\ NoLedger.active = FALSE /\ NoLedger.slots = << >>
BY DEF NoLedger, Ledgers, LedgerRecord

LEMMA CountedNone == Counted(NoLedger)
<1>1. [i \in 1..0 |-> NewSlot] = << >>
    OBVIOUS
<1>2. Received(<< >>) = 0
    BY <1>1, ReceivedNew
<1>3. Seen(<< >>) = {} /\ Named(<< >>) = {}
    BY DEF Seen, Named
<1>4. Cardinality({}) = 0 /\ {} \ {} = {}
    BY FS_EmptySet
<1>5. /\ NoLedger.unique = 0 /\ NoLedger.deliveries = 0 /\ NoLedger.conflicts = 0
      /\ NoLedger.reportedLost = 0 /\ NoLedger.reportedMissing = 0
    BY DEF NoLedger
<1>6. Seen(NoLedger.slots) = {} /\ Named(NoLedger.slots) = {} /\ Received(NoLedger.slots) = 0
    BY <1>2, <1>3, NoLedgerParts
<1>7. NoLedger.conflicts <= NoLedger.deliveries - NoLedger.unique
    BY <1>5
<1> QED
    BY <1>4, <1>5, <1>6, <1>7, NoLedgerParts DEF Counted

CountsInv ==
    /\ Counted(ledger)
    /\ inFlight \subseteq Record
    /\ test \in Tests

LEMMA BatchIs ==
    ASSUME inFlight \subseteq Record, NEW batch \in Batches
    PROVE  /\ batch \in Seq(Record) /\ ToSet(batch) \subseteq inFlight
           /\ \A r \in ToSet(batch) : \E i \in 1..Len(batch) : batch[i] = r
           /\ \A i \in 1..Len(batch) : batch[i] \in ToSet(batch)
<1>1. CASE \E r \in inFlight : batch = <<r>>
    BY <1>1 DEF ToSet
<1>2. CASE \E r \in inFlight, s \in inFlight : batch = <<r, s>>
    BY <1>2 DEF ToSet
<1> QED
    BY <1>1, <1>2 DEF Batches

LEMMA EventIs ==
    ASSUME test \in Tests, NEW q \in Places
    PROVE  Event(q) \in Record /\ ErrorLine(q) \in Record
<1>1. test.requests \in Nat
    BY LoadTestAssumption
<1>2. q \in Nat
    BY <1>1 DEF Places
<1> QED
    BY <1>2 DEF Event, ErrorLine, Record, ThisRun

LEMMA ForwardCounts == ASSUME CountsInv, Forward PROVE CountsInv'
<1> USE DEF CountsInv
<1>1. PICK batch \in Batches :
          /\ \/ Push(batch) \/ PushUnknown(batch)
             \/ PushUnavailable(batch)
             \/ PushRefused(batch)
    BY DEF Forward
<1>2. batch \in Seq(Record)
    BY BatchIs
<1>3. ledger' \in {ledger, ProcessOtlp(ledger, batch)}
    BY <1>1 DEF Push, PushUnknown, PushUnavailable, PushRefused
<1>4. Counted(ledger')
    BY <1>2, <1>3, CountedProcess
<1>5. inFlight' \subseteq inFlight
    BY <1>1 DEF Push, PushUnknown, PushUnavailable, PushRefused
<1>6. test' = test
    BY DEF Forward, mainVars
<1> QED
    BY <1>4, <1>5, <1>6

LEMMA CountsStep == CountsInv /\ [LoadTestNext]_testVars => CountsInv'
<1> SUFFICES ASSUME CountsInv, [LoadTestNext]_testVars
             PROVE  CountsInv'
    OBVIOUS
<1> USE DEF CountsInv
<1>1. CASE Forward
    BY <1>1, ForwardCounts
<1>2. ASSUME NEW q \in Places, SendRequest(q) PROVE CountsInv'
    <2>1. Event(q) \in Record /\ ErrorLine(q) \in Record
        BY EventIs
    <2> QED
        BY <1>2, <2>1 DEF SendRequest
<1>3. CASE ResetSink
    <2>1. test.requests \in Nat
        BY LoadTestAssumption
    <2>2. Counted(Reset(test.requests))
        BY <2>1, CountedReset
    <2>3. ledger' \in {ledger, Reset(test.requests)} /\ test' = test /\ inFlight' = inFlight
        BY <1>3 DEF ResetSink, forwardVars
    <2> QED
        BY <2>2, <2>3
<1>4. CASE \/ UNCHANGED testVars \/ ReadBaseline \/ SetFailing \/ EndSending \/ EndWaiting \/ Restore
           \/ ReadStats \/ ReadMetrics \/ TimerEnds \/ Abort \/ WriteMetrics \/ NextSecond
    <2>1. ledger' = ledger /\ test' = test /\ inFlight' = inFlight
        BY <1>4 DEF testVars, mainVars, forwardVars, ReadBaseline, SetFailing, EndSending, EndWaiting,
            Restore, ReadStats, ReadMetrics, TimerEnds, Abort, WriteMetrics, NextSecond
    <2> QED
        BY <2>1
<1> QED
    BY <1>1, <1>2, <1>3, <1>4 DEF LoadTestNext, Main, Environment

LEMMA CountsInit == Init => CountsInv
<1> SUFFICES ASSUME Init
             PROVE  CountsInv
    OBVIOUS
<1>1. ledger = NoLedger /\ test \in Tests /\ inFlight \in SUBSET Earlier
    BY DEF Init, LoadTestInit
<1>2. Earlier \subseteq Record
    BY EarlierAssumption DEF Record
<1> QED
    BY <1>1, <1>2, CountedNone DEF CountsInv

LEMMA CountsHold == Spec => []CountsInv
<1>1. CountsInv /\ [Next]_operationVars => CountsInv'
    <2> SUFFICES ASSUME CountsInv, [Next]_operationVars
                 PROVE  CountsInv'
        OBVIOUS
    <2>1. [LoadTestNext]_testVars
        BY DEF Next, operationVars
    <2> QED
        BY <2>1, CountsStep
<1> QED
    BY <1>1, CountsInit, PTL DEF Spec

\* The counters of the test receiver are those of its slots, for any number of events and any
\* requests (test_ledger.hpp:405): every event is counted once as unique, everything else as a
\* repeated delivery, and a request which NGINX named is missing until its event arrives.
THEOREM LedgerCountsHolds == Spec => []LedgerCounts
<1>1. CountsInv => LedgerCounts
    BY DEF CountsInv, Counted, LedgerCounts, Seen, Named
<1> QED
    BY <1>1, CountsHold, PTL
-----------------------------------------------------------------------------
(* What a request does to the places which were seen *)

\* From l to m, with the events in es
Reached(l, m, es) ==
    /\ m.active = l.active /\ m.expected = l.expected
    /\ Seen(l.slots) \subseteq Seen(m.slots)
    /\ Seen(m.slots) \subseteq Seen(l.slots) \cup {r.place : r \in es}
    /\ \A r \in es : InRange(l, r) => r.place \in Seen(m.slots)

LEMMA LineReaches ==
    ASSUME NEW l \in Ledgers, NEW r \in Record
    PROVE  Reached(l, LineStep(l, r), {})
<1>1. CASE r.test \/ ~InRange(l, r) \/ l.slots[r.place].reported
    BY <1>1 DEF LineStep, Report, Reached
<1>2. CASE ~r.test /\ InRange(l, r) /\ ~l.slots[r.place].reported
    <2> DEFINE m == Report(l, r)
               s == l.slots[r.place]
               x == [s EXCEPT !.reported = TRUE]
    <2>1. r.place \in 1..l.expected /\ r.place \in DOMAIN l.slots
        BY <1>2, LedgerParts DEF InRange
    <2>2. s \in Slot /\ x \in Slot /\ x.received = s.received /\ s.received \in Nat
        <3>1. s \in Slot
            BY <2>1, SlotParts
        <3> QED
            BY <3>1 DEF Slot
    <2>3. /\ m.slots = [l.slots EXCEPT ![r.place] = x]
          /\ m.active = l.active /\ m.expected = l.expected
        BY <1>2, ReportIs
    <2>4. LineStep(l, r) = m
        BY <1>2 DEF LineStep
    <2> HIDE DEF m, x
    <2>5. /\ x.received > 0 => Seen(m.slots) = Seen(l.slots) \cup {r.place}
          /\ x.received = 0 => Seen(m.slots) = Seen(l.slots) \ {r.place}
        BY <2>1, <2>2, <2>3, SetsPut
    <2>6. (r.place \in Seen(l.slots)) <=> (s.received > 0)
        BY <2>1 DEF Seen
    <2>7. Seen(m.slots) = Seen(l.slots)
        BY <2>2, <2>5, <2>6
    <2> QED
        BY <2>3, <2>4, <2>7 DEF Reached
<1> QED
    BY <1>1, <1>2

LEMMA EventReaches ==
    ASSUME NEW l \in Ledgers, NEW r \in Record
    PROVE  Reached(l, EventStep(l, r), IF r.test THEN {r} ELSE {})
<1> DEFINE m == Arrive(l, r)
           s == l.slots[r.place]
<1>1. CASE ~r.test
    BY <1>1 DEF EventStep, Reached
<1>2. CASE r.test /\ ~InRange(l, r)
    <2>1. m.active = l.active /\ m.expected = l.expected /\ m.slots = l.slots
        BY <1>2, UnexpectedIs
    <2> QED
        BY <1>2, <2>1 DEF EventStep, Reached
<1>3. ASSUME r.test, InRange(l, r), NEW x \in Slot, x.received > 0,
             m.slots = [l.slots EXCEPT ![r.place] = x], m.active = l.active, m.expected = l.expected
      PROVE  Reached(l, m, {r})
    <2>1. r.place \in 1..l.expected
        BY <1>3 DEF InRange
    <2> HIDE DEF m
    <2>2. Seen(m.slots) = Seen(l.slots) \cup {r.place}
        BY <1>3, <2>1, SetsPut
    <2> QED
        BY <1>3, <2>2 DEF Reached
<1>4. CASE r.test /\ InRange(l, r) /\ s.received = 0
    <2> DEFINE x == [s EXCEPT !.received = 1, !.sent = r.run]
    <2>1. s \in Slot
        BY <1>4, SlotParts DEF InRange
    <2>2. x \in Slot /\ x.received = 1
        BY <2>1 DEF Slot, Record
    <2>3. IsFirst(l, r, m, s)
        BY <1>4, FirstIs
    <2>4. m.slots = [l.slots EXCEPT ![r.place] = x] /\ m.active = l.active /\ m.expected = l.expected
        BY <2>3 DEF IsFirst
    <2> HIDE DEF x, m
    <2>5. x.received > 0
        BY <2>2
    <2>6. Reached(l, m, {r})
        BY <1>3, <1>4, <2>2, <2>4, <2>5
    <2> QED
        BY <1>4, <2>6 DEF EventStep, m
<1>5. CASE r.test /\ InRange(l, r) /\ s.received # 0
    <2> DEFINE x == [s EXCEPT !.received = s.received + 1]
    <2>1. s \in Slot
        BY <1>5, SlotParts DEF InRange
    <2>2. x \in Slot /\ x.received > 0
        BY <2>1 DEF Slot
    <2>3. m.slots = [l.slots EXCEPT ![r.place] = x] /\ m.active = l.active /\ m.expected = l.expected
        BY <1>5, AgainIs
    <2> HIDE DEF x, m
    <2>4. Reached(l, m, {r})
        BY <1>3, <1>5, <2>2, <2>3
    <2> QED
        BY <1>5, <2>4 DEF EventStep, m
<1> QED
    BY <1>1, <1>2, <1>4, <1>5

LEMMA ReachedOn ==
    ASSUME NEW l, NEW m, NEW n, NEW es, NEW fs, Reached(l, m, es), Reached(m, n, fs)
    PROVE  Reached(l, n, es \cup fs)
<1>1. \A r : InRange(m, r) <=> InRange(l, r)
    BY DEF Reached, InRange
<1> QED
    BY <1>1 DEF Reached

LEMMA ProcessReaches ==
    ASSUME NEW l \in Ledgers, NEW rs \in Seq(Record)
    PROVE  /\ ProcessOtlp(l, rs) \in Ledgers
           /\ Reached(l, ProcessOtlp(l, rs), {rs[i] : i \in {j \in 1..Len(rs) : rs[j].test}})
<1> DEFINE N == Len(rs)
           Events(n) == {rs[i] : i \in {j \in 1..n : rs[j].test}}
<1>1. N \in Nat /\ \A i \in 1..N : rs[i] \in Record
    OBVIOUS
<1>2. Reports(l, rs) \in Ledgers /\ Reached(l, Reports(l, rs), {})
    <2>1. PICK f \in [0..N -> Ledgers] :
              f[0] = l /\ f[N] = Reports(l, rs) /\ \A i \in 1..N : f[i] = LineStep(f[i - 1], rs[i])
        BY ReportsIs
    <2> HIDE DEF N
    <2> DEFINE S == {i \in 0..N : Reached(l, f[i], {})}
    <2>2. 0 \in S
        BY <1>1, <2>1 DEF Reached
    <2>3. ASSUME NEW i \in 1..N, i - 1 \in S PROVE i \in S
        <3>1. f[i - 1] \in Ledgers /\ Reached(l, f[i - 1], {}) /\ rs[i] \in Record
            BY <1>1, <2>1, <2>3
        <3>2. Reached(f[i - 1], f[i], {})
            BY <2>1, <3>1, LineReaches
        <3>3. Reached(l, f[i], {} \cup {})
            BY <3>1, <3>2, ReachedOn
        <3>4. {} \cup {} = {}
            OBVIOUS
        <3> QED
            BY <1>1, <3>3, <3>4
    <2> HIDE DEF S
    <2>4. 0..N \subseteq S
        BY <1>1, <2>2, <2>3, Induction
    <2>5. N \in S
        BY <1>1, <2>4
    <2> QED
        BY <1>1, <2>1, <2>5 DEF S
<1> DEFINE k == Reports(l, rs)
<1> HIDE DEF k
<1>3. k \in Ledgers /\ Reached(l, k, {})
    BY <1>2 DEF k
<1>4. Arrivals(k, rs) \in Ledgers /\ Reached(k, Arrivals(k, rs), Events(N))
    <2>1. PICK f \in [0..N -> Ledgers] :
              f[0] = k /\ f[N] = Arrivals(k, rs) /\ \A i \in 1..N : f[i] = EventStep(f[i - 1], rs[i])
        BY <1>3, ArrivalsIs
    <2> HIDE DEF N
    <2> DEFINE S == {i \in 0..N : Reached(k, f[i], Events(i))}
    <2>2. 0 \in S
        <3>1. Events(0) = {}
            OBVIOUS
        <3> HIDE DEF Events
        <3> QED
            BY <1>1, <2>1, <3>1 DEF Reached
    <2>3. ASSUME NEW i \in 1..N, i - 1 \in S PROVE i \in S
        <3>1. f[i - 1] \in Ledgers /\ Reached(k, f[i - 1], Events(i - 1)) /\ rs[i] \in Record
            BY <1>1, <2>1, <2>3
        <3>2. Reached(f[i - 1], f[i], IF rs[i].test THEN {rs[i]} ELSE {})
            BY <2>1, <3>1, EventReaches
        <3>3. Events(i) = Events(i - 1) \cup (IF rs[i].test THEN {rs[i]} ELSE {})
            <4>1. 1..i = (1..(i - 1)) \cup {i}
                BY <1>1
            <4> QED
                BY <4>1
        <3> HIDE DEF Events
        <3>4. Reached(k, f[i], Events(i))
            BY <3>1, <3>2, <3>3, ReachedOn
        <3> QED
            BY <1>1, <3>4
    <2> HIDE DEF S
    <2>4. 0..N \subseteq S
        BY <1>1, <2>2, <2>3, Induction
    <2>5. N \in S
        BY <1>1, <2>4
    <2> QED
        BY <1>1, <2>1, <2>5 DEF S
<1>5. Reached(l, Arrivals(k, rs), {} \cup Events(N))
    BY <1>3, <1>4, ReachedOn
<1>6. {} \cup Events(N) = Events(N)
    OBVIOUS
<1> QED
    BY <1>4, <1>5, <1>6 DEF ProcessOtlp, k
-----------------------------------------------------------------------------
(* The inductive invariant behind PASS *)

Counters == [pushed : Nat, kept : Nat, rejected : Nat, backup : Nat]
PromFiles == [at : Nat, counts : Counters]
Facts == [arrived : SUBSET Nat, earlier : SUBSET Nat, kept : BOOLEAN, backup : BOOLEAN,
          lost : SUBSET {"set", "timer", "main"}]

PassType ==
    /\ test \in Tests /\ ledger \in Ledgers /\ inFlight \subseteq Record
    /\ counts \in Counters /\ before \in Counters /\ promFile \in PromFiles
    /\ second \in Nat /\ after \in Nat /\ after > 0 /\ prom \in BOOLEAN
    /\ facts \in Facts

\* The ledger is that of the test from the reset on, and counts what is in its slots
Ready ==
    /\ Counted(ledger)
    /\ step \in {"start", "reset"} => ~ledger.active
    /\ step \notin {"start", "reset", "done"} => ledger.active /\ ledger.expected = test.requests

\* Before the first request is sent, there is no event of this run
NothingSent ==
    step \in {"start", "reset", "fail"} =>
        facts.arrived = {} /\ ~facts.kept /\ \A p \in Places : Event(p) \notin inFlight

\* As long as main looks, the slots tell what has arrived
Arrived ==
    step \notin {"start", "reset", "fresh", "done"} =>
        /\ facts.arrived \subseteq Seen(ledger.slots)
        /\ Seen(ledger.slots) \subseteq facts.arrived \cup facts.earlier

\* What the last look at the sink has shown
Complete == Places \subseteq facts.arrived \cup facts.earlier
Looked ==
    step = "fresh" =>
        /\ prom
        /\ ~(stats.missing > 0) => Complete
        /\ ~(stats.unique > 0) => facts.arrived = {}

\* The metrics go up, the file is behind them, and main has seen it before anything was sent
Busy(c) == c.pushed > before.pushed \/ c.kept > before.kept
Metrics ==
    /\ promFile.at <= second
    /\ promFile.counts.pushed <= counts.pushed /\ promFile.counts.kept <= counts.kept
    /\ before.pushed <= counts.pushed /\ before.kept <= counts.kept
    /\ facts.kept => Busy(counts)
    /\ step = "fresh" /\ promFile.at >= after /\ facts.kept => Busy(promFile.counts)

\* While the backup endpoint took nothing, its counter is the same everywhere
Backups ==
    ~facts.backup =>
        /\ promFile.at > 0 => promFile.counts.backup = counts.backup
        /\ prom /\ step # "done" => before.backup = counts.backup

LInv ==
    /\ PassType /\ Ready /\ NothingSent /\ Arrived /\ Looked /\ Metrics /\ Backups
    /\ step # "done" => verdict = "none"
    /\ PassIsTrue

LEMMA FactsParts ==
    ASSUME facts \in Facts
    PROVE  /\ facts.arrived \subseteq Nat /\ facts.earlier \subseteq Nat
           /\ facts.kept \in BOOLEAN /\ facts.backup \in BOOLEAN
BY DEF Facts

\* All places were seen, or none
LEMMA LookIs ==
    ASSUME PassType, Ready, Arrived, step = "stats"
    PROVE  /\ ~(Stats(ledger).missing > 0) => Complete
           /\ ~(Stats(ledger).unique > 0) => facts.arrived = {}
<1> DEFINE S == Seen(ledger.slots)
           n == ledger.expected
<1>1. ledger \in Ledgers
    BY DEF PassType
<1>2. n \in Nat /\ ledger.unique \in Nat /\ DOMAIN ledger.slots = 1..n
    BY <1>1, LedgerParts
<1>3. n = test.requests /\ ledger.unique = Cardinality(S)
    BY DEF Ready, Counted
<1>4. S \subseteq 1..n
    BY <1>2 DEF Seen
<1>5. facts.arrived \subseteq S /\ S \subseteq facts.arrived \cup facts.earlier
    BY DEF Arrived
<1>6. Stats(ledger).missing = n - ledger.unique /\ Stats(ledger).unique = ledger.unique
    BY DEF Stats, Missing
<1> HIDE DEF S, n
<1>7. IsFiniteSet(1..n) /\ Cardinality(1..n) = n
    BY <1>2, FS_Interval
<1>8. IsFiniteSet(S) /\ Cardinality(S) <= n /\ (Cardinality(S) = n => S = 1..n)
    BY <1>4, <1>7, FS_Subset
<1>9. ASSUME ~(Stats(ledger).missing > 0) PROVE Complete
    <2>1. Cardinality(S) = n
        BY <1>2, <1>3, <1>6, <1>8, <1>9
    <2>2. S = Places
        BY <1>3, <1>8, <2>1 DEF Places
    <2> QED
        BY <1>5, <2>2 DEF Complete
<1>10. ASSUME ~(Stats(ledger).unique > 0) PROVE facts.arrived = {}
    <2>1. Cardinality(S) = 0
        BY <1>2, <1>3, <1>6, <1>10
    <2>2. S = {}
        BY <1>8, <2>1, FS_EmptySet
    <2> QED
        BY <1>5, <2>2
<1> QED
    BY <1>9, <1>10

\* What is known when there is no reason to fail
LEMMA NoReason ==
    ASSUME NEW s, NEW readable \in BOOLEAN, NEW c \in Counters, before \in Counters, test \in Tests,
           Reasons(s, readable, c) = {}
    PROVE  /\ test.mode # "reject" => ~(s.missing > 0)
           /\ test.mode = "reject" => ~(s.unique > 0)
           /\ NeedsProm => readable
           /\ test.mode = "failover" => c.backup > before.backup
           /\ test.mode = "reject" => ~Busy(c)
<1> DEFINE R == Reasons(s, readable, c)
<1>1. "missing" \notin R /\ "arrived" \notin R /\ "metrics" \notin R /\ "failover" \notin R /\ "rejected" \notin R
    OBVIOUS
<1>2. test.mode # "reject" => ~(s.missing > 0)
    BY <1>1 DEF Reasons
<1>3. test.mode = "reject" => ~(s.unique > 0)
    BY <1>1 DEF Reasons
<1>4. NeedsProm => readable
    BY <1>1 DEF Reasons
<1>5. /\ c.backup \in Nat /\ c.pushed \in Nat /\ c.kept \in Nat
      /\ before.backup \in Nat /\ before.pushed \in Nat /\ before.kept \in Nat
    BY DEF Counters
<1>6. ASSUME test.mode = "failover" PROVE c.backup > before.backup
    <2>1. ~(c.backup - before.backup < 1)
        BY <1>1, <1>4, <1>6 DEF Reasons, NeedsProm
    <2> QED
        BY <1>5, <2>1
<1>7. ASSUME test.mode = "reject" PROVE ~Busy(c)
    <2>1. ~(c.pushed - before.pushed > 0) /\ ~(c.kept - before.kept > 0)
        BY <1>1, <1>4, <1>7 DEF Reasons, NeedsProm
    <2> QED
        BY <1>5, <2>1 DEF Busy
<1> QED
    BY <1>2, <1>3, <1>4, <1>6, <1>7
LEMMA LInit == Init => LInv
<1> SUFFICES ASSUME Init
             PROVE  LInv
    OBVIOUS
<1>1. /\ ledger = NoLedger /\ test \in Tests /\ inFlight \subseteq Earlier
      /\ step = "start" /\ prom = FALSE /\ after = 1 /\ second = 0 /\ verdict = "none"
      /\ before = NoCounts /\ promFile = [at |-> 0, counts |-> NoCounts]
      /\ counts \in {NoCounts, [NoCounts EXCEPT !.pushed = 1, !.backup = 1]}
      /\ facts = [arrived |-> {}, earlier |-> {}, kept |-> FALSE, backup |-> FALSE, lost |-> {}]
    BY DEF Init, LoadTestInit
<1>2. inFlight \subseteq Record /\ \A p \in Places : Event(p) \notin inFlight
    BY <1>1, EarlierAssumption DEF Record, Event, ThisRun
<1>3. /\ NoCounts \in Counters
      /\ NoCounts.pushed = 0 /\ NoCounts.kept = 0 /\ NoCounts.backup = 0
    BY DEF NoCounts, Counters
<1>4. counts \in Counters
    <2>1. [NoCounts EXCEPT !.pushed = 1, !.backup = 1] \in Counters
        BY <1>3 DEF Counters
    <2> QED
        BY <1>1, <1>3, <2>1
<1>5. promFile \in PromFiles /\ promFile.at = 0 /\ promFile.counts = NoCounts
    BY <1>1, <1>3 DEF PromFiles
<1>6. facts \in Facts /\ facts.arrived = {} /\ ~facts.kept /\ ~facts.backup
    BY <1>1 DEF Facts
<1>7. PassType
    <2>1. test \in Tests /\ ledger \in Ledgers /\ inFlight \subseteq Record
        BY <1>1, <1>2, NoLedgerParts
    <2>2. counts \in Counters /\ before \in Counters /\ promFile \in PromFiles /\ facts \in Facts
        BY <1>1, <1>3, <1>4, <1>5, <1>6
    <2>3. second \in Nat /\ after \in Nat /\ after > 0
        BY <1>1
    <2>4. prom \in BOOLEAN
        BY <1>1
    <2> QED
        BY <2>1, <2>2, <2>3, <2>4 DEF PassType
<1>8. Ready
    BY <1>1, CountedNone, NoLedgerParts DEF Ready
<1>9. NothingSent /\ Arrived /\ Looked /\ PassIsTrue
    BY <1>1, <1>2, <1>6 DEF NothingSent, Arrived, Looked, PassIsTrue
<1>10. Metrics /\ Backups
    <2>1. counts.pushed \in Nat /\ counts.kept \in Nat
        BY <1>4 DEF Counters
    <2>2. before = NoCounts /\ step # "fresh" /\ prom = FALSE /\ second = 0
        BY <1>1
    <2> QED
        BY <1>3, <1>5, <1>6, <2>1, <2>2 DEF Metrics, Backups
<1> QED
    BY <1>1, <1>7, <1>8, <1>9, <1>10 DEF LInv

-----------------------------------------------------------------------------
(* A push of otelfwd *)

\* What the sink has got, if anything
ForwardCases(batch) ==
    \/ ledger' = ProcessOtlp(ledger, batch) /\ facts' \in {Took(batch), [Took(batch) EXCEPT !.backup = TRUE]}
    \/ ledger' = ledger /\ facts' \in {facts, Asked(batch)}

\* What is remembered of a batch which the sink has taken
EarlyPlaces(batch) == {r.place : r \in {r \in ToSet(batch) : r.test /\ r.run # ThisRun}}

LEMMA FactsOf ==
    ASSUME PassType, NEW batch \in Batches
    PROVE  /\ Asked(batch) \in Facts
           /\ Asked(batch).arrived = facts.arrived /\ Asked(batch).earlier = facts.earlier
           /\ Asked(batch).backup = facts.backup
           /\ Asked(batch).kept = (facts.kept \/ (Looking /\ OwnEvents(batch) # {}))
           /\ Took(batch) \in Facts
           /\ Took(batch).arrived = IF Looking THEN facts.arrived \cup OwnEvents(batch) ELSE facts.arrived
           /\ Took(batch).earlier = facts.earlier \cup EarlyPlaces(batch)
           /\ Took(batch).backup = facts.backup /\ Took(batch).kept = Asked(batch).kept
<1>1. facts \in Facts
    BY DEF PassType
<1>2. OwnEvents(batch) \subseteq Nat
    <2>1. test.requests \in Nat
        BY LoadTestAssumption DEF PassType
    <2> QED
        BY <2>1 DEF OwnEvents, Places
<1>3. ToSet(batch) \subseteq Record
    BY BatchIs DEF PassType
<1>4. EarlyPlaces(batch) \subseteq Nat
    BY <1>3 DEF Record, EarlyPlaces
<1>5. /\ Asked(batch) \in Facts
      /\ Asked(batch).arrived = facts.arrived /\ Asked(batch).earlier = facts.earlier
      /\ Asked(batch).backup = facts.backup
      /\ Asked(batch).kept = (facts.kept \/ (Looking /\ OwnEvents(batch) # {}))
    BY <1>1 DEF Asked, Facts
<1> DEFINE came == IF Looking THEN facts.arrived \cup OwnEvents(batch) ELSE facts.arrived
<1>6. came \subseteq Nat
    BY <1>1, <1>2 DEF Facts
<1>7. Took(batch) = [Asked(batch) EXCEPT !.arrived = came, !.earlier = facts.earlier \cup EarlyPlaces(batch)]
    BY <1>5 DEF Took, EarlyPlaces
<1> HIDE DEF came
<1>8. /\ Took(batch) \in Facts
      /\ Took(batch).arrived = came /\ Took(batch).earlier = facts.earlier \cup EarlyPlaces(batch)
      /\ Took(batch).backup = facts.backup /\ Took(batch).kept = Asked(batch).kept
    BY <1>1, <1>4, <1>5, <1>6, <1>7 DEF Facts
<1> QED
    BY <1>5, <1>8 DEF came

\* The facts after it
LEMMA ForwardFacts ==
    ASSUME PassType, NEW batch \in Batches,
           facts' \in {facts, Asked(batch), Took(batch), [Took(batch) EXCEPT !.backup = TRUE]}
    PROVE  /\ facts' \in Facts
           /\ facts.arrived \subseteq facts'.arrived /\ facts.earlier \subseteq facts'.earlier
           /\ facts'.kept /\ ~facts.kept => Looking /\ OwnEvents(batch) # {}
           /\ ~facts'.backup => ~facts.backup
           /\ facts'.arrived # facts.arrived => Looking /\ OwnEvents(batch) # {}
<1>1. facts \in Facts
    BY DEF PassType
<1>2. /\ Asked(batch) \in Facts
      /\ Asked(batch).arrived = facts.arrived /\ Asked(batch).earlier = facts.earlier
      /\ Asked(batch).backup = facts.backup
      /\ Asked(batch).kept = (facts.kept \/ (Looking /\ OwnEvents(batch) # {}))
    BY FactsOf
<1>3. /\ Took(batch) \in Facts
      /\ Took(batch).arrived = IF Looking THEN facts.arrived \cup OwnEvents(batch) ELSE facts.arrived
      /\ Took(batch).earlier = facts.earlier \cup EarlyPlaces(batch)
      /\ Took(batch).backup = facts.backup /\ Took(batch).kept = Asked(batch).kept
    BY FactsOf
<1> DEFINE backed == [Took(batch) EXCEPT !.backup = TRUE]
<1>4. /\ backed \in Facts
      /\ backed.arrived = Took(batch).arrived /\ backed.earlier = Took(batch).earlier
      /\ backed.backup /\ backed.kept = Took(batch).kept
    BY <1>3 DEF Facts
<1> HIDE DEF backed
<1>5. CASE facts' = facts
    BY <1>1, <1>5
<1>6. CASE facts' = Asked(batch)
    BY <1>2, <1>6
<1>7. CASE facts' = Took(batch)
    BY <1>2, <1>3, <1>7
<1>8. CASE facts' = backed
    BY <1>2, <1>3, <1>4, <1>8
<1> QED
    BY <1>5, <1>6, <1>7, <1>8 DEF backed

\* What became of the counters
LEMMA ForwardCounters ==
    ASSUME PassType, NEW batch \in Batches,
           Push(batch) \/ PushUnknown(batch) \/ PushUnavailable(batch) \/ PushRefused(batch)
    PROVE  /\ counts' \in Counters
           /\ counts.pushed <= counts'.pushed /\ counts.kept <= counts'.kept
           /\ facts' # facts => counts'.pushed > counts.pushed \/ counts'.kept > counts.kept
           /\ ~facts'.backup => counts'.backup = counts.backup
<1>1. /\ counts \in Counters /\ counts.pushed \in Nat /\ counts.kept \in Nat
      /\ counts.rejected \in Nat /\ counts.backup \in Nat
    BY DEF PassType, Counters
<1>2. CASE Push(batch)
    <2>1. CASE counts' = [counts EXCEPT !.pushed = @ + 1]
        BY <1>1, <2>1 DEF Counters
    <2>2. CASE /\ counts' = [counts EXCEPT !.pushed = @ + 1, !.backup = @ + 1]
               /\ facts' = [Took(batch) EXCEPT !.backup = TRUE]
        <3>1. Took(batch) \in Facts
            BY FactsOf
        <3>2. facts'.backup
            BY <2>2, <3>1 DEF Facts
        <3>3. counts.pushed + 1 \in Nat /\ counts.backup + 1 \in Nat
            BY <1>1
        <3>4. counts' = [counts EXCEPT !.pushed = counts.pushed + 1, !.backup = counts.backup + 1]
            BY <2>2
        <3>5. counts' \in Counters
            BY <1>1, <3>3, <3>4 DEF Counters
        <3>6. counts'.pushed = counts.pushed + 1 /\ counts'.kept = counts.kept
            BY <1>1, <3>4 DEF Counters
        <3> QED
            BY <1>1, <3>2, <3>5, <3>6
    <2> QED
        BY <1>2, <2>1, <2>2 DEF Push
<1>3. CASE PushUnknown(batch) \/ PushUnavailable(batch)
    <2>1. counts' = [counts EXCEPT !.kept = @ + 1]
        BY <1>3 DEF PushUnknown, PushUnavailable
    <2> QED
        BY <1>1, <2>1 DEF Counters
<1>4. CASE PushRefused(batch)
    <2>1. counts' = [counts EXCEPT !.rejected = @ + 1] /\ facts' = facts
        BY <1>4 DEF PushRefused
    <2> QED
        BY <1>1, <2>1 DEF Counters
<1> QED
    BY <1>2, <1>3, <1>4

\* What the ledger and the facts know of each other, when the sink has taken a batch
LEMMA ForwardArrived ==
    ASSUME PassType, Ready, Arrived, Looking, step \notin {"start", "reset"}, NEW batch \in Batches,
           ledger' = ProcessOtlp(ledger, batch),
           facts' \in {Took(batch), [Took(batch) EXCEPT !.backup = TRUE]}
    PROVE  /\ facts'.arrived \subseteq Seen(ledger'.slots)
           /\ Seen(ledger'.slots) \subseteq facts'.arrived \cup facts'.earlier
<1>1. ledger \in Ledgers /\ inFlight \subseteq Record
    BY DEF PassType
<1>2. /\ batch \in Seq(Record) /\ ToSet(batch) \subseteq inFlight
      /\ \A r \in ToSet(batch) : \E i \in 1..Len(batch) : batch[i] = r
      /\ \A i \in 1..Len(batch) : batch[i] \in ToSet(batch)
    BY <1>1, BatchIs
<1> DEFINE es == {batch[i] : i \in {j \in 1..Len(batch) : batch[j].test}}
           early == EarlyPlaces(batch)
<1>3. Reached(ledger, ledger', es)
    BY <1>1, <1>2, ProcessReaches
<1>4. \A r : r \in es <=> r \in ToSet(batch) /\ r.test
    BY <1>2
<1>5. facts'.arrived = facts.arrived \cup OwnEvents(batch) /\ facts'.earlier = facts.earlier \cup early
    <2>1. Took(batch) \in Facts /\ Took(batch).earlier = facts.earlier \cup early
        BY FactsOf
    <2>2. Took(batch).arrived = facts.arrived \cup OwnEvents(batch)
        BY FactsOf
    <2>3. CASE facts' = Took(batch)
        BY <2>1, <2>2, <2>3
    <2>4. CASE facts' = [Took(batch) EXCEPT !.backup = TRUE]
        BY <2>1, <2>2, <2>4 DEF Facts
    <2> QED
        BY <2>3, <2>4
<1>6. step \notin {"start", "reset", "fresh", "done"}
    BY DEF Looking
<1>7. ledger.active /\ ledger.expected = test.requests
    BY <1>6 DEF Ready
<1>8. facts.arrived \subseteq Seen(ledger.slots) /\ Seen(ledger.slots) \subseteq facts.arrived \cup facts.earlier
    BY <1>6 DEF Arrived
<1> HIDE DEF es
<1>9. ASSUME NEW p \in OwnEvents(batch) PROVE p \in Seen(ledger'.slots)
    <2>1. p \in Places /\ Event(p) \in ToSet(batch) /\ Event(p).place = p /\ Event(p).test
        BY DEF OwnEvents, Event
    <2>2. Event(p) \in es
        BY <1>4, <2>1
    <2>3. InRange(ledger, Event(p))
        BY <1>7, <2>1 DEF InRange, Places
    <2> QED
        BY <1>3, <2>1, <2>2, <2>3 DEF Reached
<1>10. ASSUME NEW r \in es, r.place \in Seen(ledger'.slots)
       PROVE  r.place \in OwnEvents(batch) \cup early
    <2>1. r \in ToSet(batch) /\ r.test /\ r \in Record
        BY <1>1, <1>2, <1>4
    <2>2. CASE r.run # ThisRun
        BY <2>1, <2>2 DEF EarlyPlaces
    <2>3. CASE r.run = ThisRun
        <3>1. r = Event(r.place)
            BY <2>1, <2>3 DEF Record, Event
        <3>2. ledger' \in Ledgers /\ ledger'.expected = test.requests
            BY <1>1, <1>2, <1>3, <1>7, ProcessReaches DEF Reached
        <3>3. r.place \in Places
            BY <1>10, <3>2, LedgerParts DEF Seen, Places
        <3> QED
            BY <2>1, <3>1, <3>3 DEF OwnEvents
    <2> QED
        BY <2>2, <2>3
<1> HIDE DEF early
<1>11. facts'.arrived \subseteq Seen(ledger'.slots)
    <2>1. Seen(ledger.slots) \subseteq Seen(ledger'.slots)
        BY <1>3 DEF Reached
    <2> QED
        BY <1>5, <1>8, <1>9, <2>1
<1>12. ASSUME NEW p \in Seen(ledger'.slots) PROVE p \in facts'.arrived \cup facts'.earlier
    <2>1. p \in Seen(ledger.slots) \cup {r.place : r \in es}
        BY <1>3, <1>12 DEF Reached
    <2>2. CASE p \in Seen(ledger.slots)
        BY <1>5, <1>8, <2>2
    <2>3. CASE p \in {r.place : r \in es}
        <3>1. PICK r \in es : r.place = p
            BY <2>3
        <3> QED
            BY <1>5, <1>10, <1>12, <3>1
    <2> QED
        BY <2>1, <2>2, <2>3
<1> QED
    BY <1>11, <1>12
LEMMA ForwardKeeps == ASSUME LInv, Forward, step # "done" PROVE LInv'
<1>1. PICK batch \in Batches :
          Push(batch) \/ PushUnknown(batch) \/ PushUnavailable(batch) \/ PushRefused(batch)
    BY DEF Forward
<1>2. /\ step' = step /\ test' = test /\ before' = before /\ stats' = stats /\ prom' = prom
      /\ after' = after /\ verdict' = verdict /\ promFile' = promFile /\ second' = second
    BY DEF Forward, mainVars
<1>3. PassType /\ Ready /\ NothingSent /\ Arrived /\ Looked /\ Metrics /\ Backups /\ verdict = "none"
    BY DEF LInv
<1>4. \/ ledger' = ProcessOtlp(ledger, batch) /\ facts' \in {Took(batch), [Took(batch) EXCEPT !.backup = TRUE]}
      \/ ledger' = ledger /\ facts' \in {facts, Asked(batch)}
    BY <1>1 DEF Push, PushUnknown, PushUnavailable, PushRefused
<1>5. inFlight' \subseteq inFlight
    BY <1>1 DEF Push, PushUnknown, PushUnavailable, PushRefused
<1>6. /\ facts' \in Facts
      /\ facts.arrived \subseteq facts'.arrived /\ facts.earlier \subseteq facts'.earlier
      /\ facts'.kept /\ ~facts.kept => Looking /\ OwnEvents(batch) # {}
      /\ ~facts'.backup => ~facts.backup
      /\ facts'.arrived # facts.arrived => Looking /\ OwnEvents(batch) # {}
    BY <1>3, <1>4, ForwardFacts
<1>7. /\ counts' \in Counters
      /\ counts.pushed <= counts'.pushed /\ counts.kept <= counts'.kept
      /\ facts' # facts => counts'.pushed > counts.pushed \/ counts'.kept > counts.kept
      /\ ~facts'.backup => counts'.backup = counts.backup
    BY <1>1, <1>3, ForwardCounters
<1>8. /\ batch \in Seq(Record) /\ ledger \in Ledgers /\ Counted(ledger)
    BY <1>3, BatchIs DEF PassType, Ready
<1>9. /\ ledger' \in Ledgers /\ Counted(ledger')
      /\ ledger'.active = ledger.active /\ ledger'.expected = ledger.expected
    <2>1. CASE ledger' = ledger
        BY <1>8, <2>1
    <2>2. CASE ledger' = ProcessOtlp(ledger, batch)
        BY <1>8, <2>2, ProcessReaches, CountedProcess DEF Reached
    <2> QED
        BY <1>4, <2>1, <2>2
<1>10. PassType'
    BY <1>2, <1>3, <1>5, <1>6, <1>7, <1>9 DEF PassType
<1>11. Ready'
    BY <1>2, <1>3, <1>9 DEF Ready
<1>12. NothingSent'
    <2> SUFFICES ASSUME step \in {"start", "reset", "fail"}
                 PROVE  facts'.arrived = {} /\ ~facts'.kept /\ \A p \in Places' : Event(p) \notin inFlight'
        BY <1>2 DEF NothingSent, Event
    <2>1. facts.arrived = {} /\ ~facts.kept /\ \A p \in Places : Event(p) \notin inFlight
        BY <1>3 DEF NothingSent
    <2>2. ToSet(batch) \subseteq inFlight
        BY <1>3, BatchIs DEF PassType
    <2>3. OwnEvents(batch) = {}
        BY <2>1, <2>2 DEF OwnEvents
    <2>4. Places' = Places
        BY <1>2 DEF Places
    <2> QED
        BY <1>5, <1>6, <2>1, <2>3, <2>4
<1>13. Arrived'
    <2> SUFFICES ASSUME step \notin {"start", "reset", "fresh", "done"}
                 PROVE  /\ facts'.arrived \subseteq Seen(ledger'.slots)
                        /\ Seen(ledger'.slots) \subseteq facts'.arrived \cup facts'.earlier
        BY <1>2 DEF Arrived
    <2>1. Looking /\ step \notin {"start", "reset"}
        BY DEF Looking
    <2>2. CASE ledger' = ledger /\ facts' \in {facts, Asked(batch)}
        <3>1. facts'.arrived = facts.arrived /\ facts'.earlier = facts.earlier
            BY <1>3, <2>2, FactsOf
        <3> QED
            BY <1>3, <2>2, <3>1 DEF Arrived
    <2>3. CASE ledger' = ProcessOtlp(ledger, batch) /\ facts' \in {Took(batch), [Took(batch) EXCEPT !.backup = TRUE]}
        BY <1>3, <2>1, <2>3, ForwardArrived
    <2> QED
        BY <1>4, <2>2, <2>3
<1>14. Looked'
    <2> SUFFICES ASSUME step = "fresh"
                 PROVE  /\ prom
                        /\ ~(stats.missing > 0) => Complete'
                        /\ ~(stats.unique > 0) => facts'.arrived = {}
        BY <1>2 DEF Looked
    <2>1. facts'.arrived = facts.arrived
        BY <1>6 DEF Looking
    <2>2. Places' = Places
        BY <1>2 DEF Places
    <2> QED
        BY <1>3, <1>6, <2>1, <2>2 DEF Looked, Complete
<1>15. /\ counts.pushed \in Nat /\ counts.kept \in Nat /\ counts'.pushed \in Nat /\ counts'.kept \in Nat
       /\ before.pushed \in Nat /\ before.kept \in Nat
       /\ promFile.counts.pushed \in Nat /\ promFile.counts.kept \in Nat
    BY <1>3, <1>7 DEF PassType, Counters, PromFiles
<1>16. Metrics'
    <2>1. promFile.at <= second
        BY <1>3 DEF Metrics
    <2>2. promFile.counts.pushed <= counts'.pushed /\ promFile.counts.kept <= counts'.kept
        BY <1>3, <1>7, <1>15 DEF Metrics
    <2>3. before.pushed <= counts'.pushed /\ before.kept <= counts'.kept
        BY <1>3, <1>7, <1>15 DEF Metrics
    <2>4. ASSUME facts'.kept PROVE counts'.pushed > before.pushed \/ counts'.kept > before.kept
        <3>1. CASE facts.kept
            BY <1>3, <1>7, <1>15, <3>1 DEF Metrics, Busy
        <3>2. CASE ~facts.kept
            <4>1. facts' # facts
                BY <2>4, <3>2
            <4> QED
                BY <1>3, <1>7, <1>15, <4>1 DEF Metrics
        <3> QED
            BY <3>1, <3>2
    <2>5. ASSUME step = "fresh", promFile.at >= after, facts'.kept
          PROVE  promFile.counts.pushed > before.pushed \/ promFile.counts.kept > before.kept
        <3>1. facts.kept
            BY <1>6, <2>5 DEF Looking
        <3> QED
            BY <1>3, <2>5, <3>1 DEF Metrics, Busy
    <2> QED
        BY <1>2, <2>1, <2>2, <2>3, <2>4, <2>5 DEF Metrics, Busy
<1>17. Backups'
    BY <1>2, <1>3, <1>6, <1>7 DEF Backups
<1>18. PassIsTrue'
    BY <1>2, <1>3 DEF PassIsTrue
<1> QED
    BY <1>2, <1>3, <1>10, <1>11, <1>12, <1>13, <1>14, <1>16, <1>17, <1>18 DEF LInv
-----------------------------------------------------------------------------
(* The other steps *)

\* A step of main which has no part in what PASS rests on, or the end of the test without a verdict
StepOn ==
    \/ step' = step /\ verdict' = verdict
    \/ /\ step \in {"fail", "send", "wait", "restore"} /\ step' \in {"send", "wait", "restore", "stats"}
       /\ verdict' = verdict
    \/ step' = "done" /\ verdict' = "stopped"

SameFacts ==
    /\ facts' \in Facts
    /\ facts'.arrived = facts.arrived /\ facts'.earlier = facts.earlier
    /\ facts'.kept = facts.kept /\ facts'.backup = facts.backup

LEMMA LoseIs ==
    ASSUME PassType, NEW name \in {"set", "timer", "main"},
           UNCHANGED facts \/ Lose(name)
    PROVE  SameFacts
<1>1. facts \in Facts
    BY DEF PassType
<1>2. CASE facts' = facts
    BY <1>1, <1>2 DEF SameFacts
<1>3. CASE Lose(name)
    <2>1. facts.lost \cup {name} \in SUBSET {"set", "timer", "main"}
        BY <1>1 DEF Facts
    <2>2. facts' = [facts EXCEPT !.lost = facts.lost \cup {name}]
        BY <1>3 DEF Lose
    <2> QED
        BY <1>1, <2>1, <2>2 DEF SameFacts, Facts
<1> QED
    BY <1>2, <1>3

LEMMA StepOnKeeps ==
    ASSUME LInv, StepOn, SameFacts,
           UNCHANGED <<test, ledger, inFlight, counts, before, promFile, second, after, prom, stats>>
    PROVE  LInv'
<1>1. PassType /\ Ready /\ NothingSent /\ Arrived /\ Looked /\ Metrics /\ Backups /\ PassIsTrue
      /\ (step # "done" => verdict = "none")
    BY DEF LInv
<1>2. Places' = Places
    BY DEF Places
<1>3. /\ facts' \in Facts
      /\ facts'.arrived = facts.arrived /\ facts'.earlier = facts.earlier
      /\ facts'.kept = facts.kept /\ facts'.backup = facts.backup
    BY DEF SameFacts
<1>4. PassType'
    BY <1>1, <1>3 DEF PassType
<1>5. Ready'
    BY <1>1 DEF Ready, StepOn
<1>6. NothingSent'
    BY <1>1, <1>2, <1>3 DEF NothingSent, StepOn, Event
<1>7. Arrived'
    BY <1>1, <1>3 DEF Arrived, StepOn
<1>8. Looked'
    BY <1>1, <1>2, <1>3 DEF Looked, StepOn, Complete
<1>9. Metrics'
    BY <1>1, <1>3 DEF Metrics, StepOn, Busy
<1>10. Backups'
    BY <1>1, <1>3 DEF Backups, StepOn
<1>11. PassIsTrue'
    BY <1>1, <1>2, <1>3 DEF PassIsTrue, StepOn
<1>12. step' # "done" => verdict' = "none"
    BY <1>1 DEF StepOn
<1> QED
    BY <1>4, <1>5, <1>6, <1>7, <1>8, <1>9, <1>10, <1>11, <1>12 DEF LInv

LEMMA SimpleSteps ==
    ASSUME LInv,
           EndSending \/ EndWaiting \/ Restore \/ SetFailing \/ TimerEnds \/ Abort
    PROVE  LInv'
<1>1. PassType
    BY DEF LInv
<1>2. UNCHANGED <<test, ledger, inFlight, counts, before, promFile, second, after, prom, stats>>
    BY DEF EndSending, EndWaiting, Restore, SetFailing, TimerEnds, Abort, mainVars, forwardVars
<1>3. StepOn
    BY DEF StepOn, EndSending, EndWaiting, Restore, SetFailing, TimerEnds, Abort, mainVars, Stop
<1>4. \E name \in {"set", "timer", "main"} : UNCHANGED facts \/ Lose(name)
    BY DEF EndSending, EndWaiting, Restore, SetFailing, TimerEnds, Abort, StopFailing
<1>5. SameFacts
    BY <1>1, <1>4, LoseIs
<1> QED
    BY <1>2, <1>3, <1>5, StepOnKeeps

LEMMA SendKeeps ==
    ASSUME LInv, NEW q \in Places, SendRequest(q)
    PROVE  LInv'
<1>1. PassType /\ Ready /\ NothingSent /\ Arrived /\ Looked /\ Metrics /\ Backups /\ PassIsTrue
      /\ verdict = "none" /\ step = "send"
    BY DEF LInv, SendRequest
<1>2. Event(q) \in Record /\ ErrorLine(q) \in Record
    BY <1>1, EventIs DEF PassType
<1>3. /\ UNCHANGED <<test, step, verdict, ledger, counts, before, promFile, second, after, prom, stats, facts>>
      /\ inFlight' \in {inFlight, inFlight \cup {Event(q)}, inFlight \cup {ErrorLine(q)}}
    BY DEF SendRequest
<1>4. PassType'
    BY <1>1, <1>2, <1>3 DEF PassType
<1>5. Ready' /\ NothingSent' /\ Arrived' /\ Looked' /\ PassIsTrue'
    BY <1>1, <1>3 DEF Ready, NothingSent, Arrived, Looked, PassIsTrue
<1>6. Metrics' /\ Backups'
    BY <1>1, <1>3 DEF Metrics, Backups, Busy
<1> QED
    BY <1>1, <1>3, <1>4, <1>5, <1>6 DEF LInv

LEMMA NumbersOf ==
    ASSUME PassType
    PROVE  /\ counts.pushed \in Nat /\ counts.kept \in Nat /\ counts.backup \in Nat
           /\ before.pushed \in Nat /\ before.kept \in Nat /\ before.backup \in Nat
           /\ promFile.at \in Nat /\ promFile.counts \in Counters
           /\ promFile.counts.pushed \in Nat /\ promFile.counts.kept \in Nat
           /\ promFile.counts.backup \in Nat
           /\ second \in Nat /\ after \in Nat
BY DEF PassType, Counters, PromFiles

LEMMA MetricsSteps ==
    ASSUME LInv, step # "done", WriteMetrics \/ NextSecond
    PROVE  LInv'
<1>1. PassType /\ Ready /\ NothingSent /\ Arrived /\ Looked /\ Metrics /\ Backups /\ PassIsTrue
      /\ verdict = "none"
    BY DEF LInv
<1>2. UNCHANGED <<test, step, verdict, ledger, inFlight, counts, before, after, prom, stats, facts>>
    BY DEF WriteMetrics, NextSecond, mainVars
<1>3. Ready' /\ NothingSent' /\ Arrived' /\ Looked' /\ PassIsTrue'
    BY <1>1, <1>2 DEF Ready, NothingSent, Arrived, Looked, PassIsTrue, Complete, Places, Event
<1>4. CASE WriteMetrics
    <2>1. promFile' = [at |-> second, counts |-> counts] /\ second' = second
        BY <1>4 DEF WriteMetrics
    <2>2. promFile' \in PromFiles /\ promFile'.at = second /\ promFile'.counts = counts
        BY <1>1, <2>1 DEF PassType, PromFiles
    <2>3. PassType'
        BY <1>1, <1>2, <2>1, <2>2 DEF PassType
    <2>4. Metrics'
        BY <1>1, <1>2, <2>1, <2>2, NumbersOf DEF Metrics, Busy
    <2>5. Backups'
        BY <1>1, <1>2, <2>2 DEF Backups
    <2> QED
        BY <1>1, <1>2, <1>3, <2>3, <2>4, <2>5 DEF LInv
<1>5. CASE NextSecond
    <2>1. second' = second + 1 /\ promFile' = promFile
        BY <1>5 DEF NextSecond
    <2>2. second + 1 \in Nat /\ second <= second + 1
        BY <1>1, NumbersOf
    <2>3. PassType'
        BY <1>1, <1>2, <2>1, <2>2 DEF PassType
    <2>4. promFile'.at <= second'
        BY <1>1, <2>1, NumbersOf DEF Metrics
    <2>5. Metrics'
        BY <1>1, <1>2, <2>1, <2>4 DEF Metrics, Busy
    <2>6. Backups'
        BY <1>1, <1>2, <2>1 DEF Backups
    <2> QED
        BY <1>1, <1>2, <1>3, <2>3, <2>5, <2>6 DEF LInv
<1> QED
    BY <1>4, <1>5
LEMMA BaselineKeeps == ASSUME LInv, ReadBaseline PROVE LInv'
<1>1. PassType /\ Ready /\ NothingSent /\ Metrics /\ Backups /\ verdict = "none" /\ step = "start"
    BY DEF LInv, ReadBaseline
<1>2. /\ UNCHANGED <<test, verdict, ledger, inFlight, counts, after, promFile, second, stats, facts>>
      /\ step' = "reset"
    BY DEF ReadBaseline, forwardVars
<1>3. \/ UNCHANGED <<prom, before>>
      \/ promFile.at >= after /\ prom' = TRUE /\ before' = promFile.counts
      \/ prom' = FALSE /\ before' = NoCounts
    BY DEF ReadBaseline, FreshFile
<1>4. NoCounts \in Counters /\ NoCounts.pushed = 0 /\ NoCounts.kept = 0
    BY DEF NoCounts, Counters
<1>5. before' \in Counters /\ prom' \in BOOLEAN
    <2>1. before' \in Counters
        BY <1>1, <1>3, <1>4, NumbersOf DEF PassType
    <2>2. prom' \in BOOLEAN
        BY <1>1, <1>3 DEF PassType
    <2> QED
        BY <2>1, <2>2
<1>6. PassType'
    BY <1>1, <1>2, <1>5 DEF PassType
<1>7. Ready' /\ NothingSent' /\ Arrived' /\ Looked' /\ PassIsTrue'
    BY <1>1, <1>2 DEF Ready, NothingSent, Arrived, Looked, PassIsTrue, Places, Event
<1>8. Metrics'
    <2>1. ~facts.kept
        BY <1>1 DEF NothingSent
    <2>2. before'.pushed <= counts.pushed /\ before'.kept <= counts.kept
        BY <1>1, <1>3, <1>4, NumbersOf DEF Metrics
    <2> QED
        BY <1>1, <1>2, <2>1, <2>2 DEF Metrics
<1>9. Backups'
    <2>1. CASE UNCHANGED <<prom, before>>
        BY <1>1, <1>2, <2>1 DEF Backups
    <2>2. CASE promFile.at >= after /\ prom' = TRUE /\ before' = promFile.counts
        <3>1. promFile.at > 0
            BY <1>1, <2>2, NumbersOf DEF PassType
        <3> QED
            BY <1>1, <1>2, <2>2, <3>1 DEF Backups
    <2>3. CASE prom' = FALSE /\ before' = NoCounts
        BY <1>1, <1>2, <2>3 DEF Backups
    <2> QED
        BY <1>3, <2>1, <2>2, <2>3
<1> QED
    BY <1>1, <1>2, <1>6, <1>7, <1>8, <1>9 DEF LInv

LEMMA ResetKeeps == ASSUME LInv, ResetSink PROVE LInv'
<1>1. PassType /\ Ready /\ NothingSent /\ Metrics /\ Backups /\ verdict = "none" /\ step = "reset"
    BY DEF LInv, ResetSink
<1>2. UNCHANGED <<test, inFlight, counts, before, prom, after, promFile, second, stats, facts>>
    BY DEF ResetSink, forwardVars
<1>3. \/ /\ ledger' = Reset(test.requests) /\ verdict' = verdict
         /\ step' = IF test.mode = "failfor" THEN "fail" ELSE "send"
      \/ step' = "done" /\ verdict' = "stopped" /\ ledger' \in {ledger, Reset(test.requests)}
    BY DEF ResetSink, Stop
<1>4. test.requests \in Nat
    BY <1>1, LoadTestAssumption DEF PassType
<1>5. /\ Reset(test.requests) \in Ledgers /\ Counted(Reset(test.requests))
      /\ Reset(test.requests).active /\ Reset(test.requests).expected = test.requests
    BY <1>4, ResetLedger, CountedReset
<1>6. Seen(Reset(test.requests).slots) = {}
    <2>1. Reset(test.requests).slots = [i \in 1..test.requests |-> NewSlot] /\ NewSlot.received = 0
        BY <1>4, ResetLedger DEF NewSlot
    <2> QED
        BY <2>1 DEF Seen
<1>7. PassType'
    BY <1>1, <1>2, <1>3, <1>5 DEF PassType
<1>8. facts.arrived = {} /\ ~facts.kept /\ \A p \in Places : Event(p) \notin inFlight
    BY <1>1 DEF NothingSent
<1>9. Ready'
    BY <1>1, <1>2, <1>3, <1>5 DEF Ready
<1>10. NothingSent' /\ Looked' /\ PassIsTrue'
    BY <1>1, <1>2, <1>3, <1>8 DEF NothingSent, Looked, PassIsTrue, Places, Event
<1>11. Arrived'
    BY <1>2, <1>3, <1>6, <1>8 DEF Arrived
<1>12. Metrics' /\ Backups'
    BY <1>1, <1>2, <1>3, <1>8 DEF Metrics, Backups
<1>13. step' # "done" => verdict' = "none"
    BY <1>1, <1>3
<1> QED
    BY <1>7, <1>9, <1>10, <1>11, <1>12, <1>13 DEF LInv

LEMMA StatsKeeps == ASSUME LInv, ReadStats PROVE LInv'
<1>1. PassType /\ Ready /\ Arrived /\ Metrics /\ Backups /\ verdict = "none" /\ step = "stats"
    BY DEF LInv, ReadStats
<1>2. UNCHANGED <<test, ledger, inFlight, counts, before, prom, promFile, second, facts>>
    BY DEF ReadStats, forwardVars
<1>3. /\ ~(Stats(ledger).missing > 0) => Complete
      /\ ~(Stats(ledger).unique > 0) => facts.arrived = {}
    BY <1>1, LookIs
<1>4. \/ /\ stats' = Stats(ledger) /\ after' = second + 1 /\ prom /\ step' = "fresh" /\ verdict' = verdict
      \/ /\ stats' = Stats(ledger) /\ after' = second + 1 /\ ~prom /\ step' = "done"
         /\ verdict' = IF Reasons(stats', FALSE, NoCounts) = {} THEN "pass" ELSE "fail"
      \/ step' = "done" /\ verdict' = "stopped" /\ UNCHANGED <<stats, after>>
    BY DEF ReadStats, Stop, Judge, After
<1>5. after' \in Nat /\ after' > 0
    <2>1. after' \in {after, second + 1}
        BY <1>4
    <2>2. after \in Nat /\ after > 0 /\ second \in Nat
        BY <1>1 DEF PassType
    <2> QED
        BY <2>1, <2>2
<1>6. PassType'
    BY <1>1, <1>2, <1>5 DEF PassType
<1>7. step' \in {"fresh", "done"}
    BY <1>4
<1>8. Ready' /\ NothingSent' /\ Arrived'
    BY <1>1, <1>2, <1>7 DEF Ready, NothingSent, Arrived
<1>9. Looked'
    BY <1>2, <1>3, <1>4 DEF Looked, Complete, Places
<1>10. Metrics'
    <2>1. ~(step' = "fresh" /\ promFile.at >= after')
        <3>1. step' = "fresh" => after' = second + 1
            BY <1>4
        <3>2. promFile.at <= second /\ promFile.at \in Nat /\ second \in Nat
            BY <1>1, NumbersOf DEF Metrics
        <3> QED
            BY <3>1, <3>2
    <2> QED
        BY <1>1, <1>2, <2>1 DEF Metrics, Busy
<1>11. Backups'
    BY <1>1, <1>2 DEF Backups
<1>12. PassIsTrue'
    <2> SUFFICES ASSUME verdict' = "pass"
                 PROVE  /\ test.mode # "reject" => Complete
                        /\ test.mode = "failover" => facts.backup
                        /\ test.mode = "reject" => facts.arrived = {} /\ ~facts.kept
        BY <1>2 DEF PassIsTrue, Complete, Places
    <2>1. Reasons(Stats(ledger), FALSE, NoCounts) = {}
        BY <1>1, <1>4
    <2>2. NoCounts \in Counters
        BY DEF NoCounts, Counters
    <2>3. before \in Counters /\ test \in Tests
        BY <1>1 DEF PassType
    <2>4. /\ test.mode # "reject" => ~(Stats(ledger).missing > 0)
          /\ NeedsProm => FALSE
        BY <2>1, <2>2, <2>3, NoReason
    <2> QED
        BY <1>3, <2>4 DEF NeedsProm
<1>13. step' # "done" => verdict' = "none"
    BY <1>1, <1>4
<1> QED
    BY <1>6, <1>8, <1>9, <1>10, <1>11, <1>12, <1>13 DEF LInv

LEMMA VerdictKeeps == ASSUME LInv, ReadMetrics PROVE LInv'
<1>1. PassType /\ Ready /\ Looked /\ Metrics /\ Backups /\ step = "fresh"
    BY DEF LInv, ReadMetrics
<1>2. /\ UNCHANGED <<test, ledger, inFlight, counts, before, after, promFile, second, stats, facts>>
      /\ step' = "done"
    BY DEF ReadMetrics, forwardVars
<1>3. PICK c : FreshFile(c) /\ Judge(stats, prom', c)
    BY DEF ReadMetrics
<1>4. \/ promFile.at >= after /\ prom' = TRUE /\ c = promFile.counts
      \/ prom' = FALSE /\ c = NoCounts
    BY <1>3 DEF FreshFile
<1>5. NoCounts \in Counters
    BY DEF NoCounts, Counters
<1>6. prom' \in BOOLEAN
    BY <1>4
<1>7. c \in Counters
    BY <1>1, <1>4, <1>5, NumbersOf
<1>8. PassType'
    BY <1>1, <1>2, <1>6 DEF PassType
<1>9. Ready' /\ NothingSent' /\ Arrived' /\ Looked'
    BY <1>1, <1>2 DEF Ready, NothingSent, Arrived, Looked
<1>10. Metrics' /\ Backups'
    BY <1>1, <1>2 DEF Metrics, Backups, Busy
<1>11. PassIsTrue'
    <2> SUFFICES ASSUME verdict' = "pass"
                 PROVE  /\ test.mode # "reject" => Complete
                        /\ test.mode = "failover" => facts.backup
                        /\ test.mode = "reject" => facts.arrived = {} /\ ~facts.kept
        BY <1>2 DEF PassIsTrue, Complete, Places
    <2>1. Reasons(stats, prom', c) = {}
        BY <1>3 DEF Judge
    <2>2. before \in Counters /\ test \in Tests
        BY <1>1 DEF PassType
    <2>3. /\ test.mode # "reject" => ~(stats.missing > 0)
          /\ test.mode = "reject" => ~(stats.unique > 0)
          /\ NeedsProm => prom'
          /\ test.mode = "failover" => c.backup > before.backup
          /\ test.mode = "reject" => ~Busy(c)
        <3> DEFINE readable == prom'
        <3> HIDE DEF readable
        <3>1. readable \in BOOLEAN /\ Reasons(stats, readable, c) = {}
            BY <1>6, <2>1 DEF readable
        <3>2. /\ test.mode # "reject" => ~(stats.missing > 0)
              /\ test.mode = "reject" => ~(stats.unique > 0)
              /\ NeedsProm => readable
              /\ test.mode = "failover" => c.backup > before.backup
              /\ test.mode = "reject" => ~Busy(c)
            BY <1>7, <2>2, <3>1, NoReason
        <3> QED
            BY <3>2 DEF readable
    <2>4. test.mode # "reject" => Complete
        BY <1>1, <2>3 DEF Looked
    <2>5. ASSUME test.mode = "failover" PROVE facts.backup
        <3>1. promFile.at >= after /\ c = promFile.counts /\ prom
            BY <1>1, <1>4, <2>3, <2>5 DEF NeedsProm, Looked
        <3>2. promFile.at > 0
            BY <1>1, <3>1, NumbersOf DEF PassType
        <3>3. c.backup > before.backup /\ c.backup \in Nat /\ before.backup \in Nat
            BY <1>1, <2>3, <2>5, <3>1, NumbersOf
        <3> QED
            BY <1>1, <3>1, <3>2, <3>3 DEF Backups
    <2>6. ASSUME test.mode = "reject" PROVE facts.arrived = {} /\ ~facts.kept
        <3>1. promFile.at >= after /\ c = promFile.counts
            BY <1>4, <2>3, <2>6 DEF NeedsProm
        <3>2. ~facts.kept
            BY <1>1, <2>3, <2>6, <3>1 DEF Metrics
        <3> QED
            BY <1>1, <2>3, <2>6, <3>2 DEF Looked
    <2> QED
        BY <2>4, <2>5, <2>6
<1> QED
    BY <1>2, <1>8, <1>9, <1>10, <1>11 DEF LInv

LEMMA LStep == LInv /\ [LoadTestNext]_testVars => LInv'
<1> SUFFICES ASSUME LInv, [LoadTestNext]_testVars
             PROVE  LInv'
    OBVIOUS
<1>1. CASE UNCHANGED testVars
    <2>1. PassType
        BY DEF LInv
    <2>2. /\ UNCHANGED <<test, ledger, inFlight, counts, before, promFile, second, after, prom, stats>>
          /\ UNCHANGED <<step, verdict, facts>>
        BY <1>1 DEF testVars, mainVars, forwardVars
    <2>3. SameFacts
        BY <2>1, <2>2, LoseIs
    <2> QED
        BY <2>2, <2>3, StepOnKeeps DEF StepOn
<1>2. CASE Main
    BY <1>2, BaselineKeeps, ResetKeeps, StatsKeeps, VerdictKeeps, SimpleSteps DEF Main
<1>3. CASE TimerEnds \/ Abort
    BY <1>3, SimpleSteps
<1>4. CASE \E q \in Places : SendRequest(q)
    BY <1>4, SendKeeps
<1>5. CASE Environment
    BY <1>5, ForwardKeeps, MetricsSteps DEF Environment
<1> QED
    BY <1>1, <1>2, <1>3, <1>4, <1>5 DEF LoadTestNext

\* LInv is an invariant, for any tests, any records of an earlier run, and any bounds on the pushes
\* and on the time.
THEOREM LInvHolds == Spec => []LInv
<1>1. LInv /\ [Next]_operationVars => LInv'
    <2> SUFFICES ASSUME LInv, [Next]_operationVars
                 PROVE  LInv'
        OBVIOUS
    <2>1. [LoadTestNext]_testVars
        BY DEF Next, operationVars
    <2> QED
        BY <2>1, LStep
<1> QED
    BY <1>1, LInit, PTL DEF Spec

\* PASS is only said when it is so (nginx/README.md:295), whatever an earlier run left in otelfwd
\* and however the metrics file, the answers of the sink and the records interleave.
THEOREM PassIsTrueHolds == Spec => []PassIsTrue
<1>1. LInv => PassIsTrue
    BY DEF LInv
<1> QED
    BY <1>1, LInvHolds, PTL

-----------------------------------------------------------------------------
(* The receiver after the test *)

Names == {"arrived", "earlier", "kept", "backup", "lost"}
Judging == {"stats", "fresh", "done"}

\* The receiver fails only while the timer runs, or when what ends it was lost; main has joined
\* the timer and has tried it too before it looks at the receiver for the last time
SinkInv ==
    /\ sinkFails \in BOOLEAN /\ DOMAIN facts = Names
    /\ step \in {"start", "reset", "fail"} => ~sinkFails /\ timer = "off"
    /\ step \in Judging => timer # "waiting"
    /\ sinkFails => \/ timer = "waiting"
                    \/ "set" \in facts.lost
                    \/ /\ timer = "done" /\ "timer" \in facts.lost
                       /\ step \in Judging => "main" \in facts.lost

\* What is lost is remembered.
LEMMA LostIs ==
    ASSUME NEW name, Lose(name), DOMAIN facts = Names
    PROVE  DOMAIN facts' = Names /\ facts'.lost = facts.lost \cup {name}
BY DEF Lose, Names

\* Nothing that otelfwd does is about the requests of the test.
LEMMA SinkForward == ASSUME SinkInv, Forward PROVE SinkInv'
<1>1. UNCHANGED <<step, timer, sinkFails>>
    BY DEF Forward, mainVars
<1>2. DOMAIN facts' = Names /\ facts'.lost = facts.lost
    <2>1. PICK batch \in Batches :
              \/ Push(batch) \/ PushUnknown(batch) \/ PushUnavailable(batch) \/ PushRefused(batch)
        BY DEF Forward
    <2>2. DOMAIN facts = Names
        BY DEF SinkInv
    <2>3. DOMAIN Asked(batch) = Names /\ Asked(batch).lost = facts.lost
        BY <2>2 DEF Asked, Names
    <2>4. DOMAIN Took(batch) = Names /\ Took(batch).lost = facts.lost
        BY <2>3 DEF Took, Names
    <2>5. CASE Push(batch)
        BY <2>4, <2>5 DEF Push, Names
    <2>6. CASE PushUnknown(batch)
        BY <2>4, <2>6 DEF PushUnknown
    <2>7. CASE PushUnavailable(batch)
        BY <2>3, <2>7 DEF PushUnavailable
    <2>8. CASE PushRefused(batch)
        BY <2>2, <2>8 DEF PushRefused
    <2> QED
        BY <2>1, <2>5, <2>6, <2>7, <2>8
<1> QED
    BY <1>1, <1>2 DEF SinkInv

LEMMA SinkStep == SinkInv /\ [LoadTestNext]_testVars => SinkInv'
<1> SUFFICES ASSUME SinkInv, [LoadTestNext]_testVars
             PROVE  SinkInv'
    OBVIOUS
<1> USE DEF SinkInv, Judging
<1>1. CASE Forward
    BY <1>1, SinkForward
<1>2. CASE WriteMetrics \/ NextSecond \/ Abort
    BY <1>2 DEF WriteMetrics, NextSecond, Abort, mainVars
<1>3. CASE \E p \in Places : SendRequest(p)
    BY <1>3 DEF SendRequest
<1>4. CASE ReadBaseline \/ EndSending \/ EndWaiting
    BY <1>4 DEF ReadBaseline, EndSending, EndWaiting
<1>5. CASE ResetSink
    BY <1>5 DEF ResetSink, Stop
<1>6. CASE SetFailing
    <2>1. CASE sinkFails' = TRUE /\ timer' = "waiting" /\ step' = "send" /\ UNCHANGED facts
        BY <2>1
    <2>2. CASE step' = "done" /\ sinkFails' \in BOOLEAN /\ Lose("set") /\ UNCHANGED timer
        BY <1>6, <2>2, LostIs DEF SetFailing
    <2> QED
        BY <1>6, <2>1, <2>2 DEF SetFailing, Stop
<1>7. CASE TimerEnds
    <2>1. timer = "waiting" /\ timer' = "done" /\ UNCHANGED step
        BY <1>7 DEF TimerEnds, mainVars
    <2>2. CASE sinkFails' = FALSE /\ UNCHANGED facts
        BY <2>1, <2>2
    <2>3. CASE UNCHANGED sinkFails /\ Lose("timer")
        BY <2>1, <2>3, LostIs
    <2> QED
        BY <1>7, <2>2, <2>3 DEF TimerEnds, StopFailing
<1>8. CASE Restore
    <2>1. step = "restore" /\ timer # "waiting" /\ step' = "stats" /\ UNCHANGED timer
        BY <1>8 DEF Restore
    <2>2. CASE sinkFails' = FALSE /\ UNCHANGED facts
        BY <2>1, <2>2
    <2>3. CASE UNCHANGED sinkFails /\ Lose("main")
        BY <2>1, <2>3, LostIs
    <2>4. CASE timer # "done" /\ UNCHANGED <<sinkFails, facts>>
        BY <2>1, <2>4
    <2> QED
        BY <1>8, <2>2, <2>3, <2>4 DEF Restore, StopFailing
<1>9. CASE ReadStats
    BY <1>9 DEF ReadStats, Stop
<1>10. CASE ReadMetrics
    BY <1>10 DEF ReadMetrics
<1>11. CASE UNCHANGED testVars
    BY <1>11 DEF testVars, mainVars
<1> QED
    BY <1>1, <1>2, <1>3, <1>4, <1>5, <1>6, <1>7, <1>8, <1>9, <1>10, <1>11
    DEF LoadTestNext, Main, Environment

\* However the test ends, it leaves no receiver which fails, unless what ends that was lost: for
\* any test, any number of requests and any lost answers (loadtest.cpp:865).
THEOREM SinkIsLeftWorkingHolds == Spec => []SinkIsLeftWorking
<1>1. Init => SinkInv
    BY DEF Init, LoadTestInit, SinkInv, Judging, Names
<1>2. SinkInv /\ [Next]_operationVars => SinkInv'
    <2> SUFFICES ASSUME SinkInv, [Next]_operationVars
                 PROVE  SinkInv'
        OBVIOUS
    <2>1. [LoadTestNext]_testVars
        BY DEF Next, operationVars
    <2> QED
        BY <2>1, SinkStep
<1>3. SinkInv => SinkIsLeftWorking
    BY DEF SinkInv, SinkIsLeftWorking, Judging
<1> QED
    BY <1>1, <1>2, <1>3, PTL DEF Spec
==============================================================================
