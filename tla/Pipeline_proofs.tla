--------------------------- MODULE Pipeline_proofs ---------------------------
(***************************************************************************)
(* No record is lost between accept and exit, the lines of STDIN keep      *)
(* their order, and what the clients write is cut into the lines they      *)
(* wrote: for any clients, lines, limits of a line, the queue, the batch   *)
(* and the WAL, and every interleaving of the four threads.                *)
(***************************************************************************)
EXTENDS Pipeline, TLAPS, FiniteSetTheorems, SequenceTheorems, WellFoundedInduction

\* What the containers hold was accepted
Contents ==
    /\ queue \in Seq(accepted) /\ batch \in Seq(accepted)
    /\ records \in Seq(Seq(accepted)) /\ position \in 0..Len(records)

\* Every record is somewhere
Kept == accepted \subseteq Safe \cup In(queue) \cup In(batch)

\* How far the threads are when the queue is shut: the inputs have ended, and the push thread does
\* not end before the queue is empty
Order ==
    /\ todo # << >> => at = "clients"
    /\ main \in {"threads", "exit"} => at = "ended"
    /\ shut => main \in {"threads", "exit"}
    /\ batch # << >> => push = "send"
    /\ push = "again" => queue = << >> /\ shut
    /\ push = "ended" => early \/ (queue = << >> /\ shut)
    /\ main = "exit" => push \in {"new", "failed", "ended"} \/ impatient

\* The inductive invariant
PInv == Contents /\ Kept /\ Order

-----------------------------------------------------------------------------
(* Sequences *)

\* A sequence over a set is one over a larger set.
LEMMA LargerSeq ==
    ASSUME NEW S, NEW T, S \subseteq T, NEW s \in Seq(S)
    PROVE  s \in Seq(T)
OBVIOUS

\* A record which is appended is the only one which is new.
LEMMA InAppend ==
    ASSUME NEW S, NEW s \in Seq(S), NEW l
    PROVE  /\ Append(s, l) \in Seq(S \cup {l})
           /\ In(Append(s, l)) = In(s) \cup {l}
<1>1. /\ s \in Seq(S \cup {l}) /\ l \in S \cup {l}
    BY LargerSeq
<1>2. Append(s, l) \in Seq(S \cup {l})
    BY <1>1
<1>3. /\ DOMAIN Append(s, l) = 1..(Len(s) + 1) /\ DOMAIN s = 1..Len(s) /\ Len(s) \in Nat
      /\ \A i \in 1..Len(s) : Append(s, l)[i] = s[i]
      /\ Append(s, l)[Len(s) + 1] = l
    BY <1>1
<1>4. In(Append(s, l)) \subseteq In(s) \cup {l}
    BY <1>3 DEF In
<1>5. In(s) \cup {l} \subseteq In(Append(s, l))
    BY <1>3 DEF In
<1> QED
    BY <1>2, <1>4, <1>5

\* A sequence which is cut has everything in its two parts.
LEMMA InCut ==
    ASSUME NEW S, NEW s \in Seq(S), NEW n \in 1..Len(s)
    PROVE  /\ SubSeq(s, 1, n) \in Seq(S) /\ SubSeq(s, n + 1, Len(s)) \in Seq(S)
           /\ In(s) \subseteq In(SubSeq(s, 1, n)) \cup In(SubSeq(s, n + 1, Len(s)))
<1> DEFINE a == SubSeq(s, 1, n)
           b == SubSeq(s, n + 1, Len(s))
<1>1. Len(s) \in Nat /\ DOMAIN s = 1..Len(s)
    OBVIOUS
<1>2. a \in Seq(S) /\ b \in Seq(S)
    BY <1>1
<1>3. /\ DOMAIN a = 1..n /\ \A i \in 1..n : a[i] = s[i]
      /\ DOMAIN b = 1..(Len(s) - n) /\ \A i \in 1..(Len(s) - n) : b[i] = s[n + i]
    BY <1>1
<1>4. ASSUME NEW i \in DOMAIN s PROVE s[i] \in In(a) \cup In(b)
    <2>1. CASE i \in 1..n
        BY <1>3, <2>1 DEF In
    <2>2. CASE i \notin 1..n
        <3>1. i - n \in 1..(Len(s) - n) /\ n + (i - n) = i
            BY <1>1, <2>2
        <3>2. b[i - n] = s[i]
            BY <1>3, <3>1
        <3> QED
            BY <1>3, <3>1, <3>2 DEF In
    <2> QED
        BY <2>1, <2>2
<1> QED
    BY <1>2, <1>4 DEF In

\* An empty sequence holds nothing.
LEMMA InEmpty == In(<< >>) = {}
BY DEF In

-----------------------------------------------------------------------------
(* The steps *)

LEMMA PInvInit == Init => PInv
<1> SUFFICES ASSUME Init PROVE PInv
    OBVIOUS
<1>1. Contents
    BY DEF Init, Contents
<1>2. Kept
    BY DEF Init, Kept
<1>3. Order
    BY DEF Init, IngestInit, Order
<1> QED
    BY <1>1, <1>2, <1>3 DEF PInv

\* A record which enters the queue is accepted at that moment.
LEMMA QueueGrows ==
    ASSUME PInv, NEW l, queue' = Append(queue, l), accepted' = accepted \cup {l},
           UNCHANGED <<batch, records, position, delivered, gone>>
    PROVE  Contents' /\ Kept'
<1>1. queue' \in Seq(accepted') /\ In(queue') = In(queue) \cup {l}
    BY InAppend DEF PInv, Contents
<1>2. accepted \subseteq accepted'
    OBVIOUS
<1>3. batch' \in Seq(accepted')
    BY <1>2, LargerSeq DEF PInv, Contents
<1>4. records' \in Seq(Seq(accepted'))
    <2>1. Seq(accepted) \subseteq Seq(accepted')
        BY <1>2, LargerSeq
    <2> QED
        BY <2>1, LargerSeq DEF PInv, Contents
<1>5. Contents'
    BY <1>1, <1>3, <1>4 DEF PInv, Contents
<1>6. Kept'
    BY <1>1 DEF PInv, Kept, Safe, InWal
<1> QED
    BY <1>5, <1>6

\* Nothing moves.
LEMMA NothingMoves ==
    ASSUME PInv, UNCHANGED <<queue, accepted, batch, records, position, delivered, gone>>
    PROVE  Contents' /\ Kept'
BY DEF PInv, Contents, Kept, Safe, InWal

LEMMA MainThreadKeeps ==
    ASSUME PInv, MainThread, main # "exit"
    PROVE  PInv'
<1>1. ASSUME Signal PROVE PInv'
    <2>1. Contents' /\ Kept'
        BY <1>1, NothingMoves DEF Signal, mainOnly
    <2> QED
        BY <1>1, <2>1 DEF Signal, mainOnly, ingestVars, PInv, Order
<1>2. ASSUME ReadStdin PROVE PInv'
    <2>1. Contents' /\ Kept'
        BY <1>2, QueueGrows DEF ReadStdin, mainOnly
    <2> QED
        BY <1>2, <2>1 DEF ReadStdin, mainOnly, ingestVars, PInv, Order
<1>3. ASSUME InputEnds \/ RequestShutdown \/ ShutQueue PROVE PInv'
    <2>1. Contents' /\ Kept'
        BY <1>3, NothingMoves DEF InputEnds, RequestShutdown, ShutQueue, mainOnly
    <2> QED
        BY <1>3, <2>1 DEF InputEnds, RequestShutdown, ShutQueue, mainOnly, ingestVars, PInv, Order
<1>4. ASSUME ThreadsEnded \/ StopsWaiting PROVE PInv'
    <2>1. Contents' /\ Kept'
        BY <1>4, NothingMoves DEF ThreadsEnded, StopsWaiting, Exit, mainOnly
    <2> QED
        BY <1>4, <2>1 DEF ThreadsEnded, StopsWaiting, Exit, PushRuns, mainOnly, ingestVars, PInv, Order
<1> QED
    BY <1>1, <1>2, <1>3, <1>4 DEF MainThread

\* The end of a batch, whose records are now in one of the other places.
LEMMA BatchEnds ==
    ASSUME PInv, push = "send", BatchDone, Kept',
           records' \in Seq(Seq(accepted)), position \in 0..Len(records')
    PROVE  PInv'
<1>1. Contents'
    BY DEF PInv, Contents, BatchDone, pushOnly
<1>2. Order'
    BY DEF PInv, Order, BatchDone, pushOnly, ingestVars
<1> QED
    BY <1>1, <1>2 DEF PInv

LEMMA PushThreadKeeps ==
    ASSUME PInv, PushThread, main # "exit"
    PROVE  PInv'
<1>1. ASSUME PushStarts \/ PushLoop \/ PopEnds PROVE PInv'
    <2>1. Contents' /\ Kept'
        BY <1>1, NothingMoves DEF PushStarts, PushLoop, PopEnds, pushOnly
    <2>2. CASE PushStarts \/ PopEnds
        BY <2>1, <2>2 DEF PushStarts, PopEnds, pushOnly, ingestVars, PInv, Order
    <2>3. CASE PushLoop
        <3>1. CASE push = "first"
            <4>1. push' = "ended" => early'
                BY <2>3, <3>1 DEF PushLoop
            <4> QED
                BY <2>1, <2>3, <4>1 DEF PushLoop, pushOnly, ingestVars, PInv, Order
        <3>2. CASE push = "again"
            BY <2>1, <2>3, <3>2 DEF PushLoop, pushOnly, ingestVars, PInv, Order
        <3> QED
            BY <2>3, <3>1, <3>2 DEF PushLoop
    <2> QED
        BY <1>1, <2>2, <2>3
<1>2. ASSUME PopBatch PROVE PInv'
    <2>1. PICK n \in 1..Least(BatchMax, Len(queue)) :
              batch' = SubSeq(queue, 1, n) /\ queue' = SubSeq(queue, n + 1, Len(queue))
        BY <1>2 DEF PopBatch
    <2>2. n \in 1..Len(queue)
        BY <2>1, PipelineAssumption DEF Least, PInv, Contents
    <2>3. /\ batch' \in Seq(accepted) /\ queue' \in Seq(accepted)
          /\ In(queue) \subseteq In(batch') \cup In(queue')
        BY <2>1, <2>2, InCut DEF PInv, Contents
    <2>4. Contents'
        BY <1>2, <2>3 DEF PopBatch, pushOnly, PInv, Contents
    <2>5. batch = << >>
        BY <1>2 DEF PopBatch, PInv, Order
    <2>6. Kept'
        <3>1. accepted' = accepted /\ Safe' = Safe
            BY <1>2 DEF PopBatch, pushOnly, Safe, InWal
        <3>2. accepted \subseteq Safe \cup In(queue) /\ In(queue) \subseteq In(queue)' \cup In(batch)'
            BY <2>3, <2>5, InEmpty DEF PInv, Kept, In
        <3> QED
            BY <3>1, <3>2 DEF Kept
    <2>7. Order'
        BY <1>2 DEF PopBatch, pushOnly, ingestVars, PInv, Order
    <2> QED
        BY <2>4, <2>6, <2>7 DEF PInv
<1>3. ASSUME PushAccepted \/ PushRejected PROVE PInv'
    <2>1. Kept'
        BY <1>3 DEF PushAccepted, PushRejected, BatchDone, pushOnly, PInv, Kept, Safe, InWal
    <2> QED
        BY <1>3, <2>1, BatchEnds DEF PushAccepted, PushRejected, BatchDone, pushOnly, PInv, Contents
<1>4. ASSUME NEW b \in BOOLEAN, ToWal(b) PROVE PInv'
    <2>0. push = "send" /\ BatchDone /\ delivered \subseteq delivered' /\ gone \subseteq gone'
        BY <1>4 DEF ToWal
    <2>1. CASE b
        <3>1. records' = Append(records, batch) /\ gone' = gone
            BY <1>4, <2>1 DEF ToWal
        <3>2. /\ records' \in Seq(Seq(accepted)) /\ Len(records') = Len(records) + 1
              /\ \A i \in 1..Len(records) : records'[i] = records[i]
              /\ records'[Len(records) + 1] = batch
            BY <3>1 DEF PInv, Contents
        <3>3. position' = position /\ position \in 0..Len(records) /\ Len(records) \in Nat
            BY <2>0 DEF BatchDone, pushOnly, PInv, Contents
        <3>4. InWal \subseteq InWal'
            <4>1. \A i \in (position + 1)..Len(records) :
                      i \in (position' + 1)..Len(records') /\ records'[i] = records[i]
                BY <3>2, <3>3
            <4> QED
                BY <4>1 DEF InWal
        <3>5. In(batch) \subseteq InWal'
            BY <3>2, <3>3 DEF InWal
        <3>6. Kept'
            BY <2>0, <3>1, <3>4, <3>5 DEF BatchDone, pushOnly, PInv, Kept, Safe
        <3> QED
            BY <2>0, <3>2, <3>3, <3>6, BatchEnds
    <2>2. CASE ~b
        <3>1. gone' = gone \cup In(batch) /\ records' = records
            BY <1>4, <2>2 DEF ToWal
        <3>2. Kept'
            BY <2>0, <3>1 DEF BatchDone, pushOnly, PInv, Kept, Safe, InWal
        <3> QED
            BY <2>0, <3>1, <3>2, BatchEnds DEF PInv, Contents
    <2> QED
        BY <2>1, <2>2
<1> QED
    BY <1>1, <1>2, <1>3, <1>4 DEF PushThread

LEMMA WalThreadKeeps ==
    ASSUME PInv, WalThread
    PROVE  PInv'
<1>1. ASSUME UNCHANGED <<walOnly, records, position, gone>>, delivered \subseteq delivered' PROVE PInv'
    <2>1. Contents' /\ Order'
        BY <1>1 DEF walOnly, ingestVars, PInv, Contents, Order
    <2>2. Kept'
        BY <1>1 DEF walOnly, PInv, Kept, Safe, InWal
    <2> QED
        BY <2>1, <2>2 DEF PInv
<1>2. ASSUME RecordDone PROVE PInv'
    <2>1. UNCHANGED walOnly /\ position < Len(records)
        BY <1>2 DEF RecordDone, Pending
    <2>2. Order'
        BY <2>1 DEF walOnly, ingestVars, PInv, Order
    <2>3. delivered \cup gone \cup In(records[position + 1]) = delivered' \cup gone'
        BY <1>2 DEF RecordDone
    <2>4. Contents' /\ InWal \subseteq InWal' \cup In(records[position + 1])
        <3>1. CASE position + 1 = Len(records)
            <4>1. records' = << >> /\ position' = 0
                BY <1>2, <3>1 DEF RecordDone
            <4>2. Contents'
                BY <2>1, <4>1 DEF walOnly, PInv, Contents
            <4>3. (position + 1)..Len(records) = {position + 1}
                BY <3>1 DEF PInv, Contents
            <4> QED
                BY <4>2, <4>3 DEF InWal
        <3>2. CASE position + 1 # Len(records)
            <4>1. records' = records /\ position' = position + 1
                BY <1>2, <3>2 DEF RecordDone
            <4>2. Contents'
                BY <2>1, <4>1 DEF walOnly, PInv, Contents
            <4>3. (position + 1)..Len(records) = {position + 1} \cup (position' + 1)..Len(records')
                BY <2>1, <4>1 DEF PInv, Contents
            <4> QED
                BY <4>1, <4>2, <4>3 DEF InWal
        <3> QED
            BY <3>1, <3>2
    <2>5. Kept'
        BY <2>1, <2>3, <2>4 DEF walOnly, PInv, Kept, Safe
    <2> QED
        BY <2>2, <2>4, <2>5 DEF PInv
<1> QED
    BY <1>1, <1>2 DEF WalThread, WalStarts, WalLoop, RecordFails, ReplayEnds, WaitEnds

LEMMA InputsKeep ==
    ASSUME PInv, Inputs
    PROVE  PInv'
<1> USE DEF Inputs, pipeVars
<1>1. ASSUME HandleLine PROVE PInv'
    <2>1. Contents' /\ Kept'
        <3>1. CASE UNCHANGED <<queue, accepted>>
            BY <3>1, NothingMoves
        <3>2. ASSUME NEW l \in Lines, queue' = Append(queue, l), accepted' = accepted \cup {l}
              PROVE  Contents' /\ Kept'
            BY <3>2, QueueGrows
        <3> QED
            BY <1>1, <3>1, <3>2 DEF HandleLine, TryPush
    <2>2. at = "clients" /\ at' = at
        BY <1>1 DEF HandleLine, PInv, Order
    <2> QED
        BY <2>1, <2>2 DEF PInv, Order
<1>2. ASSUME UNCHANGED <<queue, accepted>>, at # "ended", todo' # << >> => at' = "clients" PROVE PInv'
    <2>1. Contents' /\ Kept'
        BY <1>2, NothingMoves
    <2> QED
        BY <1>2, <2>1 DEF PInv, Order
<1>3. ASSUME Poll \/ ClientsHandled \/ AcceptEnds \/ IngestEnds PROVE PInv'
    BY <1>2, <1>3 DEF Poll, ClientsHandled, AcceptEnds, IngestEnds, PInv, Order
<1>4. ASSUME NEW c \in Clients, Read(c) \/ ReadEnd(c) \/ ReadFails(c) \/ Accept(c) PROVE PInv'
    BY <1>2, <1>4 DEF Read, ReadEnd, ReadFails, Accept, MayHandle, PInv, Order
<1> QED
    BY <1>1, <1>3, <1>4 DEF IngestThread

\* Every step keeps the invariant.
LEMMA PInvStep == PInv /\ [Next]_vars => PInv'
<1> SUFFICES ASSUME PInv, [Next]_vars PROVE PInv'
    OBVIOUS
<1>1. CASE Next
    BY <1>1, MainThreadKeeps, PushThreadKeeps, WalThreadKeeps, InputsKeep DEF Next
<1>2. CASE UNCHANGED vars
    BY <1>2 DEF vars, pipeVars, ingestVars, PInv, Contents, Kept, Safe, InWal, Order
<1> QED
    BY <1>1, <1>2

-----------------------------------------------------------------------------
\* At the exit nothing is on its way any more, unless the push thread was abandoned.
LEMMA OrderlyExit == PInv => NoneLost
<1> SUFFICES ASSUME PInv PROVE NoneLost
    OBVIOUS
<1>1. accepted \subseteq Safe \cup In(queue) \cup In(batch)
    BY DEF PInv, Kept
<1>2. main = "exit" => accepted \subseteq Safe \/ Abandoned
    <2> SUFFICES ASSUME main = "exit", ~Abandoned PROVE accepted \subseteq Safe
        OBVIOUS
    <2>1. push = "ended" /\ ~early
        BY DEF Abandoned, PInv, Order
    <2>2. queue = << >> /\ batch = << >>
        BY <2>1 DEF PInv, Order
    <2> QED
        BY <1>1, <2>2, InEmpty
<1> QED
    BY <1>1, <1>2 DEF NoneLost

\* What was taken is delivered, refused, in the WAL or on its way, and at the end of an orderly shutdown
\* it is not on its way (otelfwd.cpp: the queue is shut behind the inputs, and PushLoop empties it).
THEOREM NoneLostHolds == Spec => []NoneLost
BY PInvInit, PInvStep, OrderlyExit, PTL DEF Spec

-----------------------------------------------------------------------------
(* The order of the lines of STDIN *)

Ahead(before, behind) == \A m \in before \cap StdinLines, n \in behind \cap StdinLines : m < n

Sorted(s) == \A i, j \in DOMAIN s : i < j /\ s[i] \in StdinLines /\ s[j] \in StdinLines => s[i] < s[j]

\* The lines of STDIN are on one way: from the pipe through the queue and a batch to the WAL
Queueing ==
    /\ unread \subseteq StdinLines
    /\ Ahead(accepted, unread)
    /\ Ahead(In(batch), In(queue))
    /\ Ahead(InWal, In(batch) \cup In(queue))
    /\ Sorted(queue)

LEMMA LeastNat ==
    ASSUME NEW S, S \subseteq Nat, S # {}
    PROVE  \E m \in S : \A n \in S : m <= n
<1> DEFINE Less == {pair \in Nat \X Nat : pair[1] < pair[2]}
<1>1. IsWellFoundedOn(Less, Nat)
    BY NatLessThanWellFounded DEF OpToRel
<1>2. \A a \in Nat, b \in Nat : a < b => <<a, b>> \in Less
    OBVIOUS
<1> HIDE DEF Less
<1>3. PICK m \in S : \A n \in S : ~(<<n, m>> \in Less)
    BY <1>1, WFMin
<1>4. ASSUME NEW n \in S PROVE m <= n
    <2>1. n \in Nat /\ m \in Nat
        OBVIOUS
    <2>2. ~(n < m)
        BY <1>2, <1>3, <2>1
    <2> QED
        BY <2>1, <2>2
<1> QED
    BY <1>4

LEMMA QueueingInit == Init => Queueing
<1> SUFFICES ASSUME Init PROVE Queueing
    OBVIOUS
<1>1. unread \subseteq StdinLines
    BY ScenarioAssumption DEF Init
<1>2. accepted = {} /\ queue = << >> /\ batch = << >> /\ records = << >> /\ position = 0
    BY DEF Init
<1>3. In(queue) = {} /\ In(batch) = {} /\ InWal = {}
    BY <1>2, InEmpty DEF InWal
<1> QED
    BY <1>1, <1>2, <1>3 DEF Queueing, Ahead, Sorted

\* A batch ends, or a record of the WAL is done.
LEMMA BatchMoves ==
    ASSUME Queueing, UNCHANGED <<queue, accepted, unread>>,
           \/ In(batch') = {} /\ InWal' \subseteq InWal \cup In(batch)
           \/ In(batch') = In(batch) /\ InWal' \subseteq InWal
    PROVE  Queueing'
<1>1. (In(batch))' = In(batch') /\ (In(queue))' = In(queue)
    BY DEF In
<1> QED
    BY <1>1 DEF Queueing, Ahead, Sorted

\* A line is put into the queue: one of a client, or the next one of STDIN.
LEMMA LineIsQueued ==
    ASSUME PInv, Queueing, NEW l, queue' = Append(queue, l), accepted' = accepted \cup {l},
           UNCHANGED <<batch, records, position>>, unread' \subseteq unread,
           l \in StdinLines => l \in unread /\ \A n \in unread' : l < n
    PROVE  Queueing'
<1>1. (In(queue))' = In(queue) \cup {l}
    <2>1. In(Append(queue, l)) = In(queue) \cup {l}
        BY InAppend DEF PInv, Contents
    <2> QED
        BY <2>1 DEF In
<1>2. (In(batch))' = In(batch) /\ InWal' = InWal
    BY DEF In, InWal
<1>3. In(batch) \subseteq accepted /\ In(queue) \subseteq accepted /\ InWal \subseteq accepted
    <2>1. In(batch) \subseteq accepted /\ In(queue) \subseteq accepted
        BY DEF PInv, Contents, In
    <2>2. ASSUME NEW i \in (position + 1)..Len(records) PROVE In(records[i]) \subseteq accepted
        <3>1. records[i] \in Seq(accepted)
            BY DEF PInv, Contents
        <3> QED
            BY <3>1 DEF In
    <2> QED
        BY <2>1, <2>2 DEF InWal
<1>4. l \in StdinLines => \A m \in accepted \cap StdinLines : m < l
    BY DEF Queueing, Ahead
<1>5. Ahead(accepted', unread')
    BY DEF Queueing, Ahead
<1>6. Ahead(In(batch), In(queue) \cup {l}) /\ Ahead(InWal, In(batch) \cup In(queue) \cup {l})
    BY <1>3, <1>4 DEF Queueing, Ahead
<1>7. Sorted(queue')
    <2>1. /\ DOMAIN queue' = 1..(Len(queue) + 1) /\ DOMAIN queue = 1..Len(queue) /\ Len(queue) \in Nat
          /\ \A i \in 1..Len(queue) : queue'[i] = queue[i]
          /\ queue'[Len(queue) + 1] = l
        BY DEF PInv, Contents
    <2>2. \A i \in 1..Len(queue) : queue[i] \in accepted
        BY DEF PInv, Contents
    <2> SUFFICES ASSUME NEW i \in DOMAIN queue', NEW j \in DOMAIN queue', i < j,
                        queue'[i] \in StdinLines, queue'[j] \in StdinLines
                 PROVE  queue'[i] < queue'[j]
        BY DEF Sorted
    <2>3. i \in 1..Len(queue)
        BY <2>1
    <2>4. CASE j \in 1..Len(queue)
        BY <2>1, <2>3, <2>4 DEF Queueing, Sorted
    <2>5. CASE j = Len(queue) + 1
        BY <1>4, <2>1, <2>2, <2>3, <2>5
    <2> QED
        BY <2>1, <2>4, <2>5
<1> QED
    BY <1>1, <1>2, <1>5, <1>6, <1>7 DEF Queueing

\* A batch is the front of the queue.
LEMMA BatchIsTaken == ASSUME PInv, Queueing, PopBatch PROVE Queueing'
<1>1. PICK n \in 1..Least(BatchMax, Len(queue)) :
          batch' = SubSeq(queue, 1, n) /\ queue' = SubSeq(queue, n + 1, Len(queue))
    BY DEF PopBatch
<1>2. n \in 1..Len(queue) /\ Len(queue) \in Nat
    BY <1>1, PipelineAssumption DEF Least, PInv, Contents
<1>3. /\ DOMAIN batch' = 1..n /\ \A i \in 1..n : batch'[i] = queue[i]
      /\ DOMAIN queue' = 1..(Len(queue) - n) /\ \A i \in 1..(Len(queue) - n) : queue'[i] = queue[n + i]
      /\ DOMAIN queue = 1..Len(queue)
    BY <1>1, <1>2 DEF PInv, Contents
<1>4. In(batch') \subseteq In(queue) /\ In(queue') \subseteq In(queue)
    <2>1. \A i \in 1..n : i \in DOMAIN queue
        BY <1>2, <1>3
    <2>2. \A i \in 1..(Len(queue) - n) : n + i \in DOMAIN queue
        BY <1>2, <1>3
    <2> QED
        BY <1>3, <2>1, <2>2 DEF In
<1>5. Ahead(In(batch'), In(queue'))
    <2> SUFFICES ASSUME NEW i \in 1..n, NEW j \in 1..(Len(queue) - n),
                        batch'[i] \in StdinLines, queue'[j] \in StdinLines
                 PROVE  batch'[i] < queue'[j]
        BY <1>3 DEF Ahead, In
    <2>1. i \in DOMAIN queue /\ n + j \in DOMAIN queue /\ i < n + j
        BY <1>2, <1>3
    <2> QED
        BY <1>3, <2>1 DEF Queueing, Sorted
<1>6. Sorted(queue')
    <2> SUFFICES ASSUME NEW i \in 1..(Len(queue) - n), NEW j \in 1..(Len(queue) - n), i < j,
                        queue'[i] \in StdinLines, queue'[j] \in StdinLines
                 PROVE  queue'[i] < queue'[j]
        BY <1>3 DEF Sorted
    <2>1. n + i \in DOMAIN queue /\ n + j \in DOMAIN queue /\ n + i < n + j
        BY <1>2, <1>3
    <2> QED
        BY <1>3, <2>1 DEF Queueing, Sorted
<1>7. UNCHANGED <<accepted, unread, records, position>>
    BY DEF PopBatch, pushOnly
<1>8. (In(batch))' = In(batch') /\ (In(queue))' = In(queue') /\ InWal' = InWal
    BY <1>7 DEF In, InWal
<1>9. Ahead(InWal, In(batch') \cup In(queue'))
    BY <1>4 DEF Queueing, Ahead
<1> QED
    BY <1>5, <1>6, <1>7, <1>8, <1>9 DEF Queueing

\* Every step keeps the order.
LEMMA QueueingStep == PInv /\ Queueing /\ [Next]_vars => Queueing'
<1> SUFFICES ASSUME PInv, Queueing, [Next]_vars PROVE Queueing'
    OBVIOUS
<1>1. ASSUME UNCHANGED <<queue, accepted, unread, batch, records, position>> PROVE Queueing'
    BY <1>1, BatchMoves DEF In, InWal
<1>2. ASSUME Signal \/ InputEnds \/ RequestShutdown \/ ShutQueue \/ ThreadsEnded \/ StopsWaiting
      PROVE  Queueing'
    BY <1>1, <1>2 DEF Signal, InputEnds, RequestShutdown, ShutQueue, ThreadsEnded, StopsWaiting, Exit, mainOnly
<1>3. ASSUME ReadStdin PROVE Queueing'
    <2> DEFINE l == CHOOSE m \in unread : \A n \in unread : m <= n
    <2>1. unread # {} /\ unread \subseteq StdinLines /\ unread \subseteq Nat
        BY <1>3, PipelineAssumption DEF ReadStdin, Queueing
    <2>2. l \in unread /\ \A n \in unread : l <= n
        BY <2>1, LeastNat
    <2>3. /\ queue' = Append(queue, l) /\ accepted' = accepted \cup {l} /\ unread' = unread \ {l}
          /\ UNCHANGED <<batch, records, position>>
        BY <1>3 DEF ReadStdin, mainOnly
    <2> HIDE DEF l
    <2>4. \A n \in unread' : l < n
        BY <2>1, <2>2, <2>3
    <2> QED
        BY <2>2, <2>3, <2>4, LineIsQueued
<1>4. ASSUME PushStarts \/ PushLoop \/ PopEnds PROVE Queueing'
    BY <1>1, <1>4 DEF PushStarts, PushLoop, PopEnds, pushOnly
<1>5. ASSUME PopBatch PROVE Queueing'
    BY <1>5, BatchIsTaken
<1>6. ASSUME PushAccepted \/ PushRejected \/ \E b \in BOOLEAN : ToWal(b) PROVE Queueing'
    <2>1. /\ UNCHANGED <<queue, accepted, unread, position>> /\ batch' = << >>
          /\ records' = records \/ records' = Append(records, batch)
        BY <1>6 DEF PushAccepted, PushRejected, ToWal, BatchDone, pushOnly
    <2>2. InWal' \subseteq InWal \cup In(batch)
        <3>1. CASE records' = records
            BY <2>1, <3>1 DEF InWal
        <3>2. CASE records' = Append(records, batch)
            <4>1. /\ Len(records') = Len(records) + 1 /\ Len(records) \in Nat /\ position \in 0..Len(records)
                  /\ \A i \in 1..Len(records) : records'[i] = records[i]
                  /\ records'[Len(records) + 1] = batch
                BY <3>2 DEF PInv, Contents
            <4>2. \A i \in (position' + 1)..Len(records') :
                      \/ i \in (position + 1)..Len(records) /\ records'[i] = records[i]
                      \/ records'[i] = batch
                BY <2>1, <4>1
            <4> QED
                BY <4>2 DEF InWal
        <3> QED
            BY <2>1, <3>1, <3>2
    <2> QED
        BY <2>1, <2>2, InEmpty, BatchMoves
<1>7. ASSUME RecordDone PROVE Queueing'
    <2>1. UNCHANGED <<queue, accepted, unread, batch>> /\ position < Len(records)
        BY <1>7 DEF RecordDone, Pending, walOnly
    <2>2. /\ position \in Nat /\ Len(records) \in Nat
          /\ \/ records' = << >> /\ position' = 0
             \/ records' = records /\ position' = position + 1
        BY <1>7 DEF RecordDone, PInv, Contents
    <2>3. \A i \in (position' + 1)..Len(records') :
              i \in (position + 1)..Len(records) /\ records'[i] = records[i]
        BY <2>2
    <2>4. InWal' \subseteq InWal
        BY <2>3 DEF InWal
    <2> QED
        BY <2>1, <2>4, BatchMoves
<1>8. ASSUME WalStarts \/ WalLoop \/ RecordFails \/ ReplayEnds \/ WaitEnds PROVE Queueing'
    BY <1>1, <1>8 DEF WalStarts, WalLoop, RecordFails, ReplayEnds, WaitEnds, walOnly
<1>9. ASSUME Inputs PROVE Queueing'
    <2>1. UNCHANGED <<unread, batch, records, position>>
        BY <1>9 DEF Inputs, pipeVars
    <2>2. CASE UNCHANGED <<queue, accepted>>
        BY <1>1, <2>1, <2>2
    <2>3. ASSUME NEW l \in Lines, queue' = Append(queue, l), accepted' = accepted \cup {l}
          PROVE  Queueing'
        <3>1. l \notin StdinLines
            BY PipelineAssumption
        <3> QED
            BY <2>1, <2>3, <3>1, LineIsQueued
    <2> QED
        BY <1>9, <2>2, <2>3
        DEF Inputs, IngestThread, Poll, HandleLine, TryPush, ClientsHandled, AcceptEnds, IngestEnds,
            Read, ReadEnd, ReadFails, Accept
<1>10. CASE UNCHANGED vars
    BY <1>1, <1>10 DEF vars, pipeVars
<1> QED
    BY <1>2, <1>3, <1>4, <1>5, <1>6, <1>7, <1>8, <1>9, <1>10
    DEF Next, MainThread, PushThread, WalThread

\* What is delivered comes from a batch or from the WAL, and a batch is delivered as a whole.
LEMMA DeliveredFrom ==
    ASSUME PInv, [Next]_vars
    PROVE  /\ delivered \subseteq delivered' /\ gone \subseteq gone'
           /\ \/ delivered' = delivered
              \/ delivered' = delivered \cup In(batch)
              \/ delivered' \subseteq delivered \cup InWal
<1>1. ASSUME RecordDone \/ RecordFails
      PROVE  /\ delivered \subseteq delivered' /\ gone \subseteq gone'
             /\ delivered' \subseteq delivered \cup InWal
    <2>1. /\ delivered \subseteq delivered' /\ gone \subseteq gone'
          /\ delivered' \subseteq delivered \cup In(records[position + 1]) /\ position < Len(records)
        BY <1>1 DEF RecordDone, RecordFails, Pending
    <2>2. position + 1 \in (position + 1)..Len(records)
        BY <2>1 DEF PInv, Contents
    <2> QED
        BY <2>1, <2>2 DEF InWal
<1>2. ASSUME PushAccepted \/ PushRejected \/ \E b \in BOOLEAN : ToWal(b)
      PROVE  /\ delivered \subseteq delivered' /\ gone \subseteq gone'
             /\ delivered' = delivered \/ delivered' = delivered \cup In(batch)
    BY <1>2 DEF PushAccepted, PushRejected, ToWal
<1>3. CASE UNCHANGED <<delivered, gone>>
    BY <1>3
<1> QED
    BY <1>1, <1>2, <1>3
    DEF Next, MainThread, Signal, ReadStdin, InputEnds, RequestShutdown, ShutQueue, ThreadsEnded, StopsWaiting,
        Exit, mainOnly, PushThread, PushStarts, PushLoop, PopBatch, PopEnds, pushOnly, WalThread, WalStarts,
        WalLoop, ReplayEnds, WaitEnds, Inputs, vars, pipeVars

\* A line of STDIN which is delivered has nothing older behind it, in a batch or in the queue.
LEMMA StdinStep ==
    ASSUME PInv, Queueing, [Next]_vars,
           NEW l \in (delivered' \ delivered) \cap StdinLines, NEW m \in accepted \cap StdinLines, m < l
    PROVE  m \in delivered' \cup gone' \cup InWal
<1>1. m \in delivered \cup gone \cup InWal \cup In(queue) \cup In(batch)
    BY DEF PInv, Kept, Safe
<1>2. m \in Nat /\ l \in Nat
    BY PipelineAssumption
<1>3. CASE delivered' = delivered \cup In(batch)
    <2>1. l \in In(batch)
        BY <1>3
    <2>2. m \notin In(queue)
        BY <1>2, <2>1 DEF Queueing, Ahead
    <2> QED
        BY <1>1, <1>3, <2>2, DeliveredFrom
<1>4. CASE delivered' \subseteq delivered \cup InWal
    <2>1. l \in InWal
        BY <1>4
    <2>2. m \notin In(queue) \cup In(batch)
        BY <1>2, <2>1 DEF Queueing, Ahead
    <2> QED
        BY <1>1, <2>2, DeliveredFrom
<1> QED
    BY <1>3, <1>4, DeliveredFrom

\* The lines of STDIN are delivered in their order, but for those which wait in the WAL or were refused
\* (otelfwd.cpp: one queue, one thread which takes batches out of it, one WAL).
THEOREM StdinInOrderHolds == Spec => StdinInOrder
<1>1. PInv /\ Queueing /\ [Next]_vars =>
          [\A l \in (delivered' \ delivered) \cap StdinLines :
               \A m \in accepted \cap StdinLines : m < l => m \in delivered' \cup gone' \cup InWal]_vars
    BY StdinStep
<1> QED
    BY <1>1, PInvInit, PInvStep, QueueingInit, QueueingStep, PTL DEF Spec, StdinInOrder

-----------------------------------------------------------------------------
(* The lines of the inputs *)

\* A line of the stream of c starts behind b
Start(c, b) == b \in 0..Len(Stream[c]) /\ (b = 0 \/ Stream[c][b].k = 0)

\* ... and it is the last one which starts before p
LastStart(c, b, p) == Start(c, b) /\ b <= p /\ \A n \in (b + 1)..p : Stream[c][n].k # 0

\* The buffer is what was received of the last line, unless that is too long
RestIsKept(c) ==
    \E b \in 0..seen[c] :
        /\ LastStart(c, b, seen[c])
        /\ IF c \in discarding THEN seen[c] - b > LineMax /\ buffer[c] = << >>
                               ELSE seen[c] - b <= LineMax /\ buffer[c] = SubSeq(Stream[c], b + 1, seen[c])

Found(l) == l \in handled \/ \E i \in DOMAIN todo : todo[i] = Body(l)

AllFound(c) ==
    \A n \in 1..seen[c] :
        Stream[c][n].k = 0 /\ Length[Stream[c][n].line] <= LineMax => Found(Stream[c][n].line)

\* The start of a line, from a client which stopped in it
Piece(text) ==
    /\ \A n \in DOMAIN text : text[n] = Text(text[1].line, n)
    /\ Len(text) <= LineMax
    /\ \E c \in Clients : conn[c] = "closed" /\ seen[c] > 0 /\ Stream[c][seen[c]] = text[Len(text)]

Item(text) == Piece(text) \/ \E l \in Lines : text = Body(l)

TodoIs == todo \in Seq(Seq(Cells)) /\ \A i \in DOMAIN todo : Item(todo[i])

Streams ==
    /\ conn \in [Clients -> {"new", "open", "closed"}]
    /\ seen \in [Clients -> Nat] /\ buffer \in [Clients -> Seq(Cells)]
    /\ discarding \subseteq Open /\ ready \subseteq Open
    /\ at # "clients" => ready = {} /\ todo = << >>
    /\ \A c \in Clients :
           /\ seen[c] <= Len(Stream[c])
           /\ conn[c] = "new" => seen[c] = 0
           /\ conn[c] # "open" => buffer[c] = << >>

\* The inductive invariant of the inputs
Framing ==
    /\ Streams
    /\ \A c \in Open : RestIsKept(c)
    /\ TodoIs
    /\ \A text \in broken : Piece(text)
    /\ \A c \in Clients : AllFound(c)
-----------------------------------------------------------------------------
(* The streams *)

\* What is received of the stream of c from one place to another
Slice(c, a, q) == SubSeq(Stream[c], a + 1, q)

\* The line l stands behind b
LineAt(c, b, l) ==
    /\ b + Length[l] + 1 <= Len(Stream[c])
    /\ \A k \in 1..Length[l] : Stream[c][b + k] = Text(l, k)
    /\ Stream[c][b + Length[l] + 1] = NewLine(l)

\* No new line from a to q
NoEnd(c, a, q) == \A n \in (a + 1)..q : Stream[c][n].k # 0

\* A line is a sequence of cells, one for each place.
LEMMA BodyIs ==
    ASSUME NEW l \in Lines
    PROVE  /\ Length[l] \in Nat \ {0} /\ Body(l) \in Seq(Cells) /\ Len(Body(l)) = Length[l]
           /\ \A k \in 1..Length[l] : Body(l)[k] = Text(l, k)
           /\ NewLine(l) \in Cells
<1>1. Length[l] \in Nat \ {0}
    BY IngestAssumption
<1>2. NewLine(l) \in Cells /\ \A k \in 1..Length[l] : Text(l, k) \in Cells
    BY DEF Cells
<1>3. Body(l) \in [1..Length[l] -> Cells]
    BY <1>2 DEF Body
<1>4. Body(l) \in Seq(Cells) /\ Len(Body(l)) = Length[l]
    BY <1>1, <1>3, SeqDef
<1> QED
    BY <1>1, <1>2, <1>4 DEF Body

\* Where a line starts in the stream, a whole line follows.
LEMMA LineStarts ==
    ASSUME NEW c \in Clients, NEW b, Start(c, b), b < Len(Stream[c])
    PROVE  \E l \in Lines : LineAt(c, b, l)
<1>1. Stream[c] \in Seq(Cells) /\ Len(Stream[c]) \in Nat
    BY IngestAssumption
<1>2. b \in Nat /\ b \in 0..(Len(Stream[c]) - 1)
    BY <1>1 DEF Start
<1>3. PICK l \in Lines : /\ b + Length[l] + 1 <= Len(Stream[c])
                         /\ SubSeq(Stream[c], b + 1, b + Length[l] + 1) = Whole(l)
    BY <1>2, StreamAssumption DEF Start
<1>4. Length[l] \in Nat \ {0} /\ Body(l) \in Seq(Cells) /\ Len(Body(l)) = Length[l] /\ NewLine(l) \in Cells
    BY BodyIs
<1>5. /\ \A k \in 1..Length[l] : Whole(l)[k] = Text(l, k)
      /\ Whole(l)[Length[l] + 1] = NewLine(l)
    BY <1>4, BodyIs DEF Whole
<1>6. \A k \in 1..(Length[l] + 1) : SubSeq(Stream[c], b + 1, b + Length[l] + 1)[k] = Stream[c][b + k]
    BY <1>1, <1>2, <1>3, <1>4
<1> DEFINE w == SubSeq(Stream[c], b + 1, b + Length[l] + 1)
<1>7. w = Whole(l) /\ \A k \in 1..(Length[l] + 1) : w[k] = Stream[c][b + k]
    BY <1>3, <1>6
<1> HIDE DEF w
<1>8. \A k \in 1..Length[l] : Stream[c][b + k] = Text(l, k)
    <2>1. ASSUME NEW k \in 1..Length[l] PROVE Stream[c][b + k] = Text(l, k)
        <3>1. k \in 1..(Length[l] + 1)
            BY <1>4
        <3>2. w[k] = Stream[c][b + k]
            BY <1>7, <3>1
        <3>3. w[k] = Text(l, k)
            BY <1>5, <1>7
        <3> QED
            BY <3>2, <3>3
    <2> QED
        BY <2>1
<1>9. Stream[c][b + (Length[l] + 1)] = NewLine(l)
    <2>1. Length[l] + 1 \in 1..(Length[l] + 1)
        BY <1>4
    <2>2. w[Length[l] + 1] = Stream[c][b + (Length[l] + 1)]
        BY <1>7, <2>1
    <2> QED
        BY <1>5, <1>7, <2>2
<1>10. b + (Length[l] + 1) = b + Length[l] + 1
    BY <1>2, <1>4
<1> QED
    BY <1>3, <1>8, <1>9, <1>10 DEF LineAt

\* A slice has the cells of the stream.
LEMMA SliceIs ==
    ASSUME NEW c \in Clients, NEW a \in Nat, NEW q \in Nat, a <= q, q <= Len(Stream[c])
    PROVE  /\ Slice(c, a, q) \in Seq(Cells) /\ Len(Slice(c, a, q)) = q - a
           /\ DOMAIN Slice(c, a, q) = 1..(q - a)
           /\ \A n \in 1..(q - a) : Slice(c, a, q)[n] = Stream[c][a + n]
<1>1. Stream[c] \in Seq(Cells) /\ Len(Stream[c]) \in Nat
    BY IngestAssumption
<1> QED
    BY <1>1 DEF Slice

\* The part from x to y of a slice
Part(c, a, q, x, y) == SubSeq(Slice(c, a, q), x + 1, y)

\* A part of a slice is a slice.
LEMMA SliceOfSlice ==
    ASSUME NEW c \in Clients, NEW a \in Nat, NEW q \in Nat, a <= q, q <= Len(Stream[c]),
           NEW x \in Nat, NEW y \in Nat, x <= y, y <= q - a
    PROVE  Part(c, a, q, x, y) = Slice(c, a + x, a + y)
<1> DEFINE s == Slice(c, a, q)
           u == SubSeq(s, x + 1, y)
           v == Slice(c, a + x, a + y)
<1>1. s \in Seq(Cells) /\ Len(s) = q - a /\ \A n \in 1..(q - a) : s[n] = Stream[c][a + n]
    BY SliceIs
<1>2. Len(Stream[c]) \in Nat
    BY IngestAssumption
<1>3. v \in Seq(Cells) /\ Len(v) = (a + y) - (a + x) /\ \A n \in 1..((a + y) - (a + x)) : v[n] = Stream[c][(a + x) + n]
    <2>1. a + x \in Nat /\ a + y \in Nat /\ a + x <= a + y /\ a + y <= Len(Stream[c])
        BY <1>2
    <2> HIDE DEF v
    <2>2. \A f \in Nat, g \in Nat : f <= g /\ g <= Len(Stream[c]) =>
              /\ Slice(c, f, g) \in Seq(Cells) /\ Len(Slice(c, f, g)) = g - f
              /\ \A n \in 1..(g - f) : Slice(c, f, g)[n] = Stream[c][f + n]
        BY SliceIs
    <2> QED
        BY <2>1, <2>2 DEF v
<1> HIDE DEF s, v
<1>4. u \in Seq(Cells) /\ Len(u) = y - x /\ \A n \in 1..(y - x) : u[n] = s[x + n]
    BY <1>1
<1> HIDE DEF u
<1>5. ASSUME NEW n \in 1..(y - x) PROVE u[n] = v[n]
    <2>1. x + n \in 1..(q - a) /\ n \in 1..((a + y) - (a + x)) /\ a + (x + n) = (a + x) + n
        OBVIOUS
    <2> QED
        BY <1>1, <1>3, <1>4, <2>1
<1>6. Len(u) = Len(v) /\ Len(u) = y - x
    BY <1>3, <1>4
<1>7. \A n \in 1..Len(u) : u[n] = v[n]
    BY <1>5, <1>6
<1>8. u = v
    BY <1>3, <1>4, <1>6, <1>7, SeqEqual
<1> QED
    BY <1>8 DEF u, v, s, Part

\* Two slices behind each other are one.
LEMMA SlicesAdd ==
    ASSUME NEW c \in Clients, NEW a \in Nat, NEW p \in Nat, NEW q \in Nat, a <= p, p <= q, q <= Len(Stream[c])
    PROVE  Slice(c, a, p) \o Slice(c, p, q) = Slice(c, a, q)
<1> DEFINE s == Slice(c, a, p)
           t == Slice(c, p, q)
           v == Slice(c, a, q)
           u == s \o t
<1>0. Len(Stream[c]) \in Nat /\ p <= Len(Stream[c]) /\ a <= q
    BY IngestAssumption
<1>1. s \in Seq(Cells) /\ Len(s) = p - a /\ \A n \in 1..(p - a) : s[n] = Stream[c][a + n]
    BY <1>0, SliceIs
<1>2. t \in Seq(Cells) /\ Len(t) = q - p /\ \A n \in 1..(q - p) : t[n] = Stream[c][p + n]
    BY <1>0, SliceIs
<1>3. v \in Seq(Cells) /\ Len(v) = q - a /\ \A n \in 1..(q - a) : v[n] = Stream[c][a + n]
    BY <1>0, SliceIs
<1> HIDE DEF s, t, v
<1>4. /\ u \in Seq(Cells) /\ Len(u) = Len(s) + Len(t)
      /\ \A n \in 1..(Len(s) + Len(t)) : u[n] = IF n <= Len(s) THEN s[n] ELSE t[n - Len(s)]
    <2>1. s \in Seq(Cells) /\ t \in Seq(Cells)
        BY <1>1, <1>2
    <2> HIDE DEF u
    <2>2. /\ s \o t \in Seq(Cells) /\ Len(s \o t) = Len(s) + Len(t)
          /\ \A n \in 1..(Len(s) + Len(t)) : (s \o t)[n] = IF n <= Len(s) THEN s[n] ELSE t[n - Len(s)]
        BY <2>1, ConcatProperties, Zenon
    <2> QED
        BY <2>2, Zenon DEF u
<1> HIDE DEF u
<1>5. ASSUME NEW n \in 1..(q - a) PROVE u[n] = v[n]
    <2>1. n \in 1..(Len(s) + Len(t))
        BY <1>1, <1>2
    <2>2. CASE n <= p - a
        <3>1. n \in 1..(p - a)
            BY <2>2
        <3> QED
            BY <1>1, <1>3, <1>4, <2>1, <2>2, <3>1
    <2>3. CASE ~(n <= p - a)
        <3>1. n - (p - a) \in 1..(q - p) /\ p + (n - (p - a)) = a + n
            BY <2>3
        <3>2. u[n] = t[n - (p - a)]
            BY <1>1, <1>4, <2>1, <2>3
        <3> QED
            BY <1>2, <1>3, <3>1, <3>2
    <2> QED
        BY <2>2, <2>3
<1>6. Len(u) = Len(v) /\ Len(u) = q - a
    BY <1>1, <1>2, <1>3, <1>4
<1>7. \A n \in 1..Len(u) : u[n] = v[n]
    BY <1>5, <1>6
<1>8. u = v
    BY <1>3, <1>4, <1>6, <1>7, SeqEqual
<1> QED
    BY <1>8 DEF u, v, s, t

-----------------------------------------------------------------------------
(* The lines of a slice *)

\* A bounded set of numbers has a greatest element.
LEMMA Greatest ==
    ASSUME NEW E, E \subseteq Nat, E # {}, NEW u \in Nat, \A n \in E : n <= u
    PROVE  LET g == CHOOSE m \in E : \A o \in E : o <= m IN g \in E /\ \A o \in E : o <= g
<1> DEFINE D == {d \in Nat : u - d \in E}
<1>1. PICK e \in E : TRUE
    OBVIOUS
<1>2. u - e \in D
    <2>1. e \in Nat /\ e <= u
        BY <1>1
    <2>2. u - e \in Nat /\ u - (u - e) = e
        BY <2>1
    <2> QED
        BY <1>1, <2>2
<1>3. PICK d \in D : \A f \in D : d <= f
    <2>1. D \subseteq Nat /\ D # {}
        BY <1>2
    <2> QED
        BY <2>1, LeastNat
<1>4. ASSUME NEW o \in E PROVE o <= u - d
    <2>1. o \in Nat /\ o <= u /\ d \in Nat
        OBVIOUS
    <2>2. u - o \in Nat /\ u - (u - o) = o
        BY <2>1
    <2>3. u - o \in D
        BY <2>2
    <2>4. d <= u - o
        BY <1>3, <2>3
    <2> QED
        BY <2>1, <2>2, <2>4
<1>5. u - d \in E
    OBVIOUS
<1>6. \E m \in E : \A o \in E : o <= m
    BY <1>4, <1>5
<1> QED
    BY <1>6

\* The new lines of a slice are those of the stream.
LEMMA EndsAre ==
    ASSUME NEW c \in Clients, NEW a \in Nat, NEW q \in Nat, a <= q, q <= Len(Stream[c])
    PROVE  /\ Ends(Slice(c, a, q)) = {n \in 1..(q - a) : Stream[c][a + n].k = 0}
           /\ Ends(Slice(c, a, q)) \subseteq Nat /\ IsFiniteSet(Ends(Slice(c, a, q)))
           /\ \A n \in Ends(Slice(c, a, q)) : n \in 1..(q - a)
<1>1. /\ DOMAIN Slice(c, a, q) = 1..(q - a)
      /\ \A n \in 1..(q - a) : Slice(c, a, q)[n] = Stream[c][a + n]
    BY SliceIs
<1>2. Ends(Slice(c, a, q)) = {n \in 1..(q - a) : Stream[c][a + n].k = 0}
    BY <1>1 DEF Ends
<1>3. Ends(Slice(c, a, q)) \in SUBSET (1..(q - a))
    BY <1>2
<1>4. IsFiniteSet(1..(q - a))
    BY FS_Interval
<1>5. IsFiniteSet(Ends(Slice(c, a, q)))
    BY <1>3, <1>4, FS_Subset
<1> QED
    BY <1>2, <1>3, <1>5

\* e is the end of the line before the place q, or 0 when there is none
Before(c, a, q, e) ==
    /\ e \in Nat /\ a + e <= q /\ NoEnd(c, a + e, q)
    /\ e = 0 \/ e \in {n \in 1..(q - a) : Stream[c][a + n].k = 0}

\* The place which Behind and LineTo take
LEMMA GreatestEnd ==
    ASSUME NEW c \in Clients, NEW a \in Nat, NEW q \in Nat, a <= q, q <= Len(Stream[c])
    PROVE  LET E == {0} \cup {n \in 1..(q - a) : Stream[c][a + n].k = 0}
           IN  Before(c, a, q, CHOOSE m \in E : \A o \in E : o <= m)
<1> DEFINE E == {0} \cup {n \in 1..(q - a) : Stream[c][a + n].k = 0}
           e == CHOOSE m \in E : \A o \in E : o <= m
<1>1. E \subseteq Nat /\ E # {} /\ q - a \in Nat /\ \A n \in E : n <= q - a
    OBVIOUS
<1>2. e \in E /\ \A o \in E : o <= e
    <2> HIDE DEF E
    <2> QED
        BY <1>1, Greatest
<1> HIDE DEF e
<1>3. e \in Nat /\ e <= q - a
    BY <1>1, <1>2
<1>4. ASSUME NEW n \in ((a + e) + 1)..q PROVE Stream[c][n].k # 0
    <2>1. n - a \in 1..(q - a) /\ a + (n - a) = n /\ ~(n - a <= e)
        BY <1>3
    <2>2. n - a \notin E
        BY <1>2, <2>1
    <2> QED
        BY <2>1, <2>2
<1>5. NoEnd(c, a + e, q)
    BY <1>4 DEF NoEnd
<1>6. Before(c, a, q, e)
    BY <1>2, <1>3, <1>5 DEF Before
<1> QED
    BY <1>6 DEF e

\* What is behind the last line of a slice is a slice.
LEMMA BehindIs ==
    ASSUME NEW c \in Clients, NEW a \in Nat, NEW q \in Nat, a <= q, q <= Len(Stream[c])
    PROVE  \E e : Before(c, a, q, e) /\ Behind(Slice(c, a, q)) = Slice(c, a + e, q)
<1> DEFINE s == Slice(c, a, q)
           E == {0} \cup {n \in 1..(q - a) : Stream[c][a + n].k = 0}
           e == CHOOSE m \in E : \A o \in E : o <= m
<1>1. {0} \cup Ends(s) = E /\ Len(s) = q - a
    <2>1. Ends(s) = {n \in 1..(q - a) : Stream[c][a + n].k = 0}
        BY EndsAre
    <2>2. Len(s) = q - a
        BY SliceIs
    <2> QED
        BY <2>1, <2>2
<1>2. Behind(s) = SubSeq(s, e + 1, q - a)
    BY <1>1 DEF Behind
<1>3. Before(c, a, q, e)
    BY GreatestEnd
<1> HIDE DEF e
<1>4. e \in Nat /\ e <= q - a /\ q - a \in Nat /\ a + (q - a) = q
    BY <1>3 DEF Before
<1>5. ASSUME NEW x \in Nat, NEW y \in Nat, x <= y, y <= q - a
      PROVE  Part(c, a, q, x, y) = Slice(c, a + x, a + y)
    BY <1>5, SliceOfSlice
<1> HIDE DEF s
<1>6. Part(c, a, q, e, q - a) = Slice(c, a + e, a + (q - a))
    BY <1>4, <1>5
<1> QED
    BY <1>2, <1>3, <1>4, <1>6 DEF s, Part

\* What stands before a new line in a slice is a slice.
LEMMA LineToIs ==
    ASSUME NEW c \in Clients, NEW a \in Nat, NEW q \in Nat, a <= q, q <= Len(Stream[c]),
           NEW n \in Ends(Slice(c, a, q))
    PROVE  \E e : Before(c, a, (a + n) - 1, e) /\ LineTo(Slice(c, a, q), n) = Slice(c, a + e, (a + n) - 1)
<1> DEFINE s == Slice(c, a, q)
           r == (a + n) - 1
           E == {0} \cup {m \in 1..(r - a) : Stream[c][a + m].k = 0}
           e == CHOOSE m \in E : \A o \in E : o <= m
<1>0. n \in 1..(q - a) /\ Ends(s) = {m \in 1..(q - a) : Stream[c][a + m].k = 0}
    BY EndsAre
<1>1. r \in Nat /\ a <= r /\ r <= q /\ r <= Len(Stream[c]) /\ r - a = n - 1
    BY <1>0, IngestAssumption
<1>2. {0} \cup {m \in Ends(s) : m < n} = E
    BY <1>0
<1>3. LineTo(s, n) = SubSeq(s, e + 1, n - 1)
    BY <1>2 DEF LineTo
<1>4. Before(c, a, r, e)
    <2> HIDE DEF r
    <2> QED
        BY <1>1, GreatestEnd
<1> HIDE DEF e
<1>5. e \in Nat /\ e <= n - 1 /\ n - 1 \in Nat /\ n - 1 <= q - a /\ a + (n - 1) = r
    BY <1>0, <1>4 DEF Before
<1>6. ASSUME NEW x \in Nat, NEW y \in Nat, x <= y, y <= q - a
      PROVE  Part(c, a, q, x, y) = Slice(c, a + x, a + y)
    BY <1>6, SliceOfSlice
<1> HIDE DEF s
<1>7. Part(c, a, q, e, n - 1) = Slice(c, a + e, a + (n - 1))
    BY <1>5, <1>6
<1> QED
    BY <1>3, <1>4, <1>5, <1>7 DEF s, Part

\* Before a new line stands the line it ends, when a line starts where the slice is looked at.
LEMMA LineEnds ==
    ASSUME NEW c \in Clients, NEW b \in Nat, NEW n \in Nat, Start(c, b), b < n, n <= Len(Stream[c]),
           NoEnd(c, b, n - 1), Stream[c][n].k = 0
    PROVE  \E l \in Lines : LineAt(c, b, l) /\ Stream[c][n].line = l /\ n = b + Length[l] + 1
<1>1. Len(Stream[c]) \in Nat /\ b < Len(Stream[c])
    BY IngestAssumption
<1>2. PICK l \in Lines : LineAt(c, b, l)
    BY <1>1, LineStarts
<1>3. Length[l] \in Nat \ {0}
    BY BodyIs
<1>4. Stream[c][b + Length[l] + 1].k = 0
    BY <1>2 DEF LineAt, NewLine
<1>5. ~(b + Length[l] + 1 < n)
    <2>1. CASE b + Length[l] + 1 < n
        <3>1. b + Length[l] + 1 \in (b + 1)..(n - 1)
            BY <1>3, <2>1
        <3> QED
            BY <1>4, <3>1 DEF NoEnd
    <2> QED
        BY <2>1
<1>6. ~(n < b + Length[l] + 1)
    <2>1. CASE n < b + Length[l] + 1
        <3>1. n - b \in 1..Length[l] /\ b + (n - b) = n
            BY <1>3, <2>1
        <3>2. Stream[c][n] = Text(l, n - b)
            BY <1>2, <3>1 DEF LineAt
        <3>3. Stream[c][n].k = n - b
            BY <3>2 DEF Text
        <3> QED
            BY <3>1, <3>3
    <2> QED
        BY <2>1
<1>7. n = b + Length[l] + 1
    BY <1>3, <1>5, <1>6
<1>8. Stream[c][n].line = l
    BY <1>2, <1>7 DEF LineAt, NewLine
<1> QED
    BY <1>2, <1>7, <1>8

\* What was received since a line started is a part of that one line.
LEMMA StartOfLine ==
    ASSUME NEW c \in Clients, NEW b \in Nat, NEW p \in Nat, Start(c, b), b < p, p <= Len(Stream[c]),
           NoEnd(c, b, p)
    PROVE  \E l \in Lines : /\ p - b <= Length[l]
                            /\ \A k \in 1..(p - b) : Slice(c, b, p)[k] = Text(l, k)
<1>1. Len(Stream[c]) \in Nat /\ b < Len(Stream[c])
    BY IngestAssumption
<1>2. PICK l \in Lines : LineAt(c, b, l)
    BY <1>1, LineStarts
<1>3. Length[l] \in Nat \ {0}
    BY BodyIs
<1>4. Stream[c][b + Length[l] + 1].k = 0
    BY <1>2 DEF LineAt, NewLine
<1>5. p - b <= Length[l]
    <2>1. CASE ~(p - b <= Length[l])
        <3>1. b + Length[l] + 1 \in (b + 1)..p
            BY <1>3, <2>1
        <3> QED
            BY <1>4, <3>1 DEF NoEnd
    <2> QED
        BY <2>1
<1>6. ASSUME NEW k \in 1..(p - b) PROVE Slice(c, b, p)[k] = Text(l, k)
    <2>1. k \in 1..Length[l]
        BY <1>3, <1>5
    <2>2. b <= p
        OBVIOUS
    <2>3. Slice(c, b, p)[k] = Stream[c][b + k]
        BY <2>2, SliceIs
    <2> QED
        BY <1>2, <2>1, <2>3 DEF LineAt
<1> QED
    BY <1>5, <1>6

\* The slice from the start of a line to its new line is its text.
LEMMA WholeLine ==
    ASSUME NEW c \in Clients, NEW b \in Nat, NEW l \in Lines, LineAt(c, b, l)
    PROVE  Slice(c, b, b + Length[l]) = Body(l)
<1> DEFINE s == Slice(c, b, b + Length[l])
<1>1. Length[l] \in Nat /\ Len(Stream[c]) \in Nat
    BY BodyIs, IngestAssumption
<1>2. b + Length[l] <= Len(Stream[c]) /\ b + Length[l] \in Nat /\ b <= b + Length[l]
    BY <1>1 DEF LineAt
<1>3. /\ s \in Seq(Cells) /\ Len(s) = (b + Length[l]) - b
      /\ \A n \in 1..((b + Length[l]) - b) : s[n] = Stream[c][b + n]
    <2> DEFINE q == b + Length[l]
    <2>1. q \in Nat /\ b <= q /\ q <= Len(Stream[c])
        BY <1>2
    <2> HIDE DEF q
    <2>2. /\ Slice(c, b, q) \in Seq(Cells) /\ Len(Slice(c, b, q)) = q - b
          /\ \A n \in 1..(q - b) : Slice(c, b, q)[n] = Stream[c][b + n]
        BY <2>1, SliceIs
    <2> QED
        BY <2>2 DEF q
<1> HIDE DEF s
<1>4. (b + Length[l]) - b = Length[l]
    BY <1>1
<1>5. Body(l) \in Seq(Cells) /\ Len(Body(l)) = Length[l] /\ \A k \in 1..Length[l] : Body(l)[k] = Text(l, k)
    BY BodyIs
<1>6. \A k \in 1..Length[l] : s[k] = Text(l, k)
    BY <1>3, <1>4 DEF LineAt
<1>7. s = Body(l)
    BY <1>3, <1>4, <1>5, <1>6, SeqEqual
<1> QED
    BY <1>7 DEF s

\* A line of the slice is one of the stream, unless it is the first, and the slice does not start with one.
LEMMA LineToBody ==
    ASSUME NEW c \in Clients, NEW a \in Nat, NEW q \in Nat, a <= q, q <= Len(Stream[c]),
           NEW n \in Ends(Slice(c, a, q)),
           Start(c, a) \/ \E m \in Ends(Slice(c, a, q)) : m < n
    PROVE  /\ Stream[c][a + n].line \in Lines
           /\ LineTo(Slice(c, a, q), n) = Body(Stream[c][a + n].line)
<1>1. PICK e : Before(c, a, (a + n) - 1, e) /\ LineTo(Slice(c, a, q), n) = Slice(c, a + e, (a + n) - 1)
    BY LineToIs
<1>2. n \in 1..(q - a) /\ Ends(Slice(c, a, q)) = {m \in 1..(q - a) : Stream[c][a + m].k = 0}
    BY EndsAre
<1>3. Len(Stream[c]) \in Nat
    BY IngestAssumption
<1>4. /\ e \in Nat /\ a + e \in Nat /\ a + e <= (a + n) - 1 /\ NoEnd(c, a + e, (a + n) - 1)
      /\ e = 0 \/ Stream[c][a + e].k = 0
    BY <1>1 DEF Before
<1>5. Start(c, a + e)
    <2>1. a + e \in 0..Len(Stream[c])
        BY <1>2, <1>3, <1>4
    <2>2. CASE e # 0
        BY <1>4, <2>1, <2>2 DEF Start
    <2>3. CASE e = 0
        <3>1. CASE Start(c, a)
            BY <2>3, <3>1
        <3>2. ASSUME NEW m \in Ends(Slice(c, a, q)), m < n PROVE FALSE
            <4>1. m \in 1..(q - a) /\ Stream[c][a + m].k = 0
                BY <1>2
            <4>2. a + m \in ((a + e) + 1)..((a + n) - 1)
                BY <1>2, <2>3, <3>2, <4>1
            <4> QED
                BY <1>4, <4>1, <4>2 DEF NoEnd
        <3> QED
            BY <3>1, <3>2
    <2> QED
        BY <2>2, <2>3
<1> DEFINE b == a + e
           r == a + n
<1>6. b \in Nat /\ r \in Nat /\ b < r /\ r <= Len(Stream[c]) /\ NoEnd(c, b, r - 1) /\ Stream[c][r].k = 0 /\ Start(c, b)
    <2>1. b \in Nat /\ r \in Nat /\ b < r /\ r <= Len(Stream[c])
        <3>1. e \in Nat /\ a + e \in Nat /\ a + e <= (a + n) - 1
            BY <1>4
        <3>2. a + n \in Nat /\ a + n <= Len(Stream[c])
            BY <1>2, <1>3
        <3> QED
            BY <3>1, <3>2
    <2>2. NoEnd(c, b, r - 1) /\ Stream[c][r].k = 0 /\ Start(c, b)
        BY <1>2, <1>3, <1>4, <1>5
    <2> QED
        BY <2>1, <2>2
<1>7. LineTo(Slice(c, a, q), n) = Slice(c, b, r - 1)
    BY <1>1
<1> HIDE DEF b, r
<1>8. PICK l \in Lines : LineAt(c, b, l) /\ Stream[c][r].line = l /\ r = b + Length[l] + 1
    BY <1>6, LineEnds
<1>9. r - 1 = b + Length[l]
    BY <1>6, <1>8, BodyIs
<1>10. Slice(c, b, r - 1) = Body(l)
    BY <1>6, <1>8, <1>9, WholeLine
<1> QED
    BY <1>7, <1>8, <1>10 DEF r

-----------------------------------------------------------------------------
(* The lines in their order *)

Rank(E, n) == Cardinality({m \in E : m <= n})

\* The ranks of the elements of a finite set of numbers are the numbers from 1 to its size.
LEMMA Ranks ==
    ASSUME NEW E, E \subseteq Nat, IsFiniteSet(E)
    PROVE  /\ Cardinality(E) \in Nat
           /\ \A n \in E : Rank(E, n) \in 1..Cardinality(E)
           /\ \A n \in E, m \in E : m < n => Rank(E, m) < Rank(E, n)
           /\ \A i \in 1..Cardinality(E) : \E n \in E : Rank(E, n) = i
<1> DEFINE N == Cardinality(E)
           Upto(n) == {m \in E : m <= n}
<1>1. N \in Nat
    BY FS_CardinalityType
<1>2. ASSUME NEW n \in E
      PROVE  /\ IsFiniteSet(Upto(n)) /\ Cardinality(Upto(n)) \in Nat
             /\ Cardinality(Upto(n)) <= N /\ Cardinality(Upto(n)) # 0
    <2>1. Upto(n) \in SUBSET E /\ n \in Upto(n)
        OBVIOUS
    <2> HIDE DEF Upto
    <2>2. IsFiniteSet(Upto(n)) /\ Cardinality(Upto(n)) <= N
        BY <2>1, FS_Subset
    <2>3. Cardinality(Upto(n)) \in Nat /\ Cardinality(Upto(n)) # 0
        BY <2>1, <2>2, FS_CardinalityType, FS_EmptySet
    <2> QED
        BY <2>2, <2>3
<1>3. \A n \in E : Rank(E, n) \in 1..N
    BY <1>1, <1>2 DEF Rank
<1>4. ASSUME NEW n \in E, NEW m \in E, m < n PROVE Rank(E, m) < Rank(E, n)
    <2>0. m \in Nat /\ n \in Nat /\ \A o \in E : o \in Nat
        OBVIOUS
    <2>1. Upto(m) \in SUBSET Upto(n) /\ n \in Upto(n) /\ n \notin Upto(m)
        <3>1. n \in Upto(n) /\ n \notin Upto(m)
            BY <1>4, <2>0
        <3>2. ASSUME NEW o \in Upto(m) PROVE o \in Upto(n)
            BY <1>4, <2>0
        <3> QED
            BY <3>1, <3>2
    <2>2. IsFiniteSet(Upto(n)) /\ Cardinality(Upto(n)) \in Nat /\ Cardinality(Upto(m)) \in Nat
        BY <1>2
    <2>3. Rank(E, m) = Cardinality(Upto(m)) /\ Rank(E, n) = Cardinality(Upto(n))
        BY DEF Rank
    <2> HIDE DEF Upto
    <2>4. Cardinality(Upto(m)) <= Cardinality(Upto(n)) /\ Cardinality(Upto(m)) # Cardinality(Upto(n))
        BY <2>1, <2>2, FS_Subset
    <2> QED
        BY <2>2, <2>3, <2>4
<1> DEFINE f == [n \in E |-> Rank(E, n)]
<1>5. f \in Injection(E, 1..N)
    <2>1. f \in [E -> 1..N]
        BY <1>3
    <2>2. ASSUME NEW n \in E, NEW m \in E, f[n] = f[m] PROVE n = m
        <3>1. n \in Nat /\ m \in Nat /\ Rank(E, n) = Rank(E, m)
            BY <2>2
        <3>2. Rank(E, n) \in Int /\ Rank(E, m) \in Int
            BY <1>3
        <3>3. ~(n < m) /\ ~(m < n)
            BY <1>4, <3>1, <3>2
        <3> QED
            BY <3>1, <3>3
    <2> QED
        BY <2>1, <2>2 DEF Injection, IsInjective
<1>6. IsFiniteSet(1..N) /\ Cardinality(1..N) = N
    BY <1>1, FS_Interval
<1>7. f \in Surjection(E, 1..N)
    <2> HIDE DEF f
    <2> QED
        BY <1>5, <1>6, FS_Injection
<1>8. \A i \in 1..N : \E n \in E : Rank(E, n) = i
    BY <1>7 DEF Surjection
<1> QED
    BY <1>1, <1>3, <1>4, <1>8

\* What LinesIn has: one line for each new line, in their order; the first belongs to the first one.
LEMMA LinesInAre ==
    ASSUME NEW s, NEW E, E = Ends(s), E \subseteq Nat, IsFiniteSet(E), \A n \in E : LineTo(s, n) \in Seq(Cells)
    PROVE  /\ LinesIn(s) \in Seq(Seq(Cells)) /\ Len(LinesIn(s)) = Cardinality(E)
           /\ E # {} => LinesIn(s) # << >>
           /\ \A i \in 1..Len(LinesIn(s)) : \E n \in E : /\ LinesIn(s)[i] = LineTo(s, n)
                                                         /\ i # 1 => \E m \in E : m < n
           /\ \A n \in E : \E i \in 1..Len(LinesIn(s)) : /\ LinesIn(s)[i] = LineTo(s, n)
                                                         /\ (\E m \in E : m < n) => i # 1
<1> DEFINE N == Cardinality(E)
           End(i) == CHOOSE n \in E : Cardinality({m \in E : m <= n}) = i
           t == [i \in 1..N |-> LineTo(s, End(i))]
<1>1. LinesIn(s) = t
    BY DEF LinesIn
<1>2. N \in Nat
    BY Ranks
<1>3. ASSUME NEW i \in 1..N PROVE End(i) \in E /\ Rank(E, End(i)) = i
    <2>1. \E n \in E : Rank(E, n) = i
        BY Ranks
    <2> QED
        BY <2>1 DEF Rank
<1>4. ASSUME NEW n \in E PROVE Rank(E, n) \in 1..N /\ End(Rank(E, n)) = n
    <2>1. Rank(E, n) \in 1..N
        BY Ranks
    <2> DEFINE m == End(Rank(E, n))
    <2>2. m \in E /\ Rank(E, m) = Rank(E, n)
        BY <1>3, <2>1
    <2> HIDE DEF m
    <2>3. m \in Nat /\ n \in Nat /\ ~(m < n) /\ ~(n < m)
        <3>1. m < n => Rank(E, m) < Rank(E, n)
            BY <2>2, Ranks
        <3>2. n < m => Rank(E, n) < Rank(E, m)
            BY <2>2, Ranks
        <3> QED
            BY <2>1, <2>2, <3>1, <3>2
    <2>4. m = n
        BY <2>3
    <2> QED
        BY <2>1, <2>4 DEF m
<1> HIDE DEF End
<1>5. t \in Seq(Seq(Cells)) /\ Len(t) = N
    <2>1. t \in [1..N -> Seq(Cells)]
        BY <1>3
    <2> HIDE DEF t
    <2> QED
        BY <1>2, <2>1, SeqDef
<1>6. \A i \in 1..N : t[i] = LineTo(s, End(i))
    OBVIOUS
<1> HIDE DEF t, N
<1>7. ASSUME NEW i \in 1..N PROVE \E n \in E : t[i] = LineTo(s, n) /\ (i # 1 => \E m \in E : m < n)
    <2>1. End(i) \in E /\ Rank(E, End(i)) = i /\ t[i] = LineTo(s, End(i))
        BY <1>3, <1>6
    <2>2. ASSUME i # 1 PROVE \E m \in E : m < End(i)
        <3>1. 1 \in 1..N
            BY <1>2
        <3>2. End(1) \in E /\ Rank(E, End(1)) = 1
            BY <1>3, <3>1
        <3>3. End(i) \in Nat /\ End(1) \in Nat /\ End(i) # End(1)
            BY <2>1, <2>2, <3>2
        <3>4. ~(End(i) < End(1))
            <4>1. End(i) < End(1) => Rank(E, End(i)) < Rank(E, End(1))
                BY <2>1, <3>2, Ranks
            <4> QED
                BY <1>2, <2>1, <3>2, <4>1
        <3> QED
            BY <3>2, <3>3, <3>4
    <2> QED
        BY <2>1, <2>2
<1>8. ASSUME NEW n \in E PROVE \E i \in 1..N : t[i] = LineTo(s, n) /\ ((\E m \in E : m < n) => i # 1)
    <2>1. Rank(E, n) \in 1..N /\ t[Rank(E, n)] = LineTo(s, n)
        BY <1>4, <1>6
    <2>2. ASSUME NEW m \in E, m < n PROVE Rank(E, n) # 1
        <3>1. Rank(E, m) \in 1..N /\ Rank(E, m) < Rank(E, n)
            BY <1>4, <2>2, Ranks
        <3> QED
            BY <1>2, <2>1, <3>1
    <2> QED
        BY <2>1, <2>2
<1>9. E # {} => t # << >>
    <2>1. ASSUME NEW n \in E PROVE Len(t) # 0
        BY <1>2, <1>4, <1>5
    <2> QED
        BY <1>5, <2>1
<1> QED
    BY <1>1, <1>5, <1>7, <1>8, <1>9 DEF N

-----------------------------------------------------------------------------
(* The steps *)

LEMMA FramingInit == Init => Framing
<1> SUFFICES ASSUME Init PROVE Framing
    OBVIOUS
<1>0. PICK come : IngestInit(come)
    BY DEF Init
<1>1. Streams
    <2>1. \A c \in Clients : Len(Stream[c]) \in Nat
        BY IngestAssumption
    <2> QED
        BY <1>0, <2>1 DEF IngestInit, Streams, Open
<1>2. \A c \in Open : RestIsKept(c)
    BY <1>0 DEF IngestInit, Open
<1>3. TodoIs
    BY <1>0 DEF IngestInit, TodoIs
<1>4. \A text \in broken : Piece(text)
    BY <1>0 DEF IngestInit
<1>5. \A c \in Clients : AllFound(c)
    BY <1>0 DEF IngestInit, AllFound
<1> QED
    BY <1>1, <1>2, <1>3, <1>4, <1>5 DEF Framing

\* A step which does not touch what was found
LEMMA NothingFound ==
    ASSUME Framing, UNCHANGED <<seen, todo, handled, broken>>,
           \A c \in Clients : conn[c] = "closed" => conn'[c] = "closed"
    PROVE  /\ TodoIs'
           /\ (\A text \in broken : Piece(text))'
           /\ (\A c \in Clients : AllFound(c))'
<1>1. ASSUME NEW text, Piece(text) PROVE Piece(text)'
    BY <1>1 DEF Piece
<1>2. TodoIs'
    BY <1>1 DEF Framing, TodoIs, Item
<1>3. \A c \in Clients : AllFound(c)'
    BY DEF Framing, AllFound, Found
<1> QED
    BY <1>1, <1>2, <1>3 DEF Framing

\* The rest of a client which a step does not touch
LEMMA RestStays ==
    ASSUME NEW c, RestIsKept(c), seen'[c] = seen[c], buffer'[c] = buffer[c], c \in discarding' <=> c \in discarding
    PROVE  RestIsKept(c)'
BY DEF RestIsKept

LEMMA PollKeeps == ASSUME Framing, Poll PROVE Framing'
<1>1. Streams'
    BY DEF Framing, Streams, Poll, Open
<1>2. UNCHANGED <<conn, seen, buffer, discarding, todo, handled, broken>>
    BY DEF Poll
<1>3. (\A c \in Open : RestIsKept(c))'
    BY <1>2, RestStays DEF Framing, Open
<1> QED
    BY <1>1, <1>2, <1>3, NothingFound DEF Framing

LEMMA ThreadMovesKeeps == ASSUME Framing, ClientsHandled \/ AcceptEnds PROVE Framing'
<1>1. Streams'
    BY DEF Framing, Streams, ClientsHandled, AcceptEnds, Open
<1>2. UNCHANGED <<conn, seen, buffer, discarding, todo, handled, broken>>
    BY DEF ClientsHandled, AcceptEnds
<1>3. (\A c \in Open : RestIsKept(c))'
    BY <1>2, RestStays DEF Framing, Open
<1> QED
    BY <1>1, <1>2, <1>3, NothingFound DEF Framing

LEMMA IngestEndsKeeps == ASSUME Framing, IngestEnds PROVE Framing'
<1>1. conn' = [c \in Clients |-> "closed"] /\ buffer' = [c \in Clients |-> << >>] /\ discarding' = {}
    BY DEF IngestEnds
<1>2. UNCHANGED <<seen, ready, todo, handled, broken>> /\ ready = {} /\ todo = << >>
    BY DEF IngestEnds, Framing, Streams
<1>3. Streams'
    BY <1>1, <1>2 DEF Framing, Streams, Open
<1>4. (\A c \in Open : RestIsKept(c))'
    BY <1>1 DEF Open
<1> QED
    BY <1>1, <1>2, <1>3, <1>4, NothingFound DEF Framing

LEMMA AcceptKeeps == ASSUME Framing, NEW d \in Clients, Accept(d) PROVE Framing'
<1>1. UNCHANGED <<seen, buffer, discarding, ready, todo, at, handled, broken>> /\ conn[d] = "new" /\ at = "accept"
    BY DEF Accept
<1>2. conn' \in [Clients -> {"new", "open", "closed"}] /\ conn'[d] \in {"open", "closed"}
      /\ \A c \in Clients \ {d} : conn'[c] = conn[c]
    BY DEF Accept, Framing, Streams
<1>3. Open \subseteq Open' /\ Open' \subseteq Open \cup {d}
    BY <1>1, <1>2 DEF Open
<1>4. Streams'
    BY <1>1, <1>2, <1>3 DEF Framing, Streams, Open
<1>5. ASSUME NEW c \in Open' PROVE RestIsKept(c)'
    <2>1. CASE c \in Open
        BY <1>1, <2>1, RestStays DEF Framing
    <2>2. CASE c \notin Open
        <3>1. c = d /\ seen[c] = 0 /\ buffer[c] = << >> /\ c \notin discarding
            BY <1>1, <1>3, <2>2 DEF Framing, Streams
        <3>2. SubSeq(Stream[c], 0 + 1, 0) = << >>
            BY SubSeqEmpty
        <3>3. 0 \in 0..seen[c] /\ LastStart(c, 0, seen[c]) /\ seen[c] - 0 <= LineMax
            <4>1. Len(Stream[c]) \in Nat /\ LineMax \in Nat
                BY <3>1, IngestAssumption
            <4> QED
                BY <3>1, <4>1 DEF LastStart, Start
        <3> QED
            BY <1>1, <3>1, <3>2, <3>3 DEF RestIsKept
    <2> QED
        BY <2>1, <2>2
<1> QED
    BY <1>1, <1>2, <1>4, <1>5, NothingFound DEF Framing

\* What was received belongs to the lines.
LEMMA NewLinesAre ==
    ASSUME NEW c \in Clients, seen \in [Clients -> Nat], seen[c] <= Len(Stream[c]), NEW n \in 1..seen[c]
    PROVE  Stream[c][n].line \in Lines
<1>1. Stream[c] \in Seq(Cells) /\ Len(Stream[c]) \in Nat /\ seen[c] \in Nat
    BY IngestAssumption
<1>2. n \in 1..Len(Stream[c])
    BY <1>1
<1>3. Stream[c][n] \in Cells
    BY <1>1, <1>2
<1> QED
    BY <1>3 DEF Cells, Text, NewLine

\* Two lines have two texts: no line is taken for another.
LEMMA BodiesDiffer ==
    ASSUME NEW l \in Lines, NEW m \in Lines, Body(l) = Body(m)
    PROVE  l = m
<1>1. Body(l)[1] = Text(l, 1) /\ Body(m)[1] = Text(m, 1)
    BY BodyIs
<1> QED
    BY <1>1 DEF Text

\* The next line goes to the queue, or is the piece of one.
LEMMA HandleLineKeeps == ASSUME Framing, HandleLine PROVE Framing'
<1>1. todo # << >> /\ todo' = Tail(todo) /\ UNCHANGED <<conn, seen, buffer, discarding, ready, at>>
    BY DEF HandleLine
<1>2. todo \in Seq(Seq(Cells)) /\ Len(todo) \in Nat /\ Len(todo) # 0 /\ DOMAIN todo = 1..Len(todo)
    <2>1. todo \in Seq(Seq(Cells))
        BY DEF Framing, TodoIs
    <2> QED
        BY <1>1, <2>1
<1>3. /\ todo' \in Seq(Seq(Cells)) /\ Len(todo') = Len(todo) - 1 /\ DOMAIN todo' = 1..(Len(todo) - 1)
      /\ \A i \in 1..(Len(todo) - 1) : todo'[i] = todo[i + 1]
    BY <1>1, <1>2
<1>4. ASSUME NEW text, Piece(text) PROVE Piece(text)'
    BY <1>1, <1>4 DEF Piece
<1>5. TodoIs'
    <2>1. ASSUME NEW text, Item(text) PROVE Item(text)'
        BY <1>4, <2>1 DEF Item, Body, Text
    <2>2. ASSUME NEW i \in 1..(Len(todo) - 1), NEW text, text = todo'[i] PROVE Item(text)'
        <3>1. i + 1 \in DOMAIN todo /\ text = todo[i + 1]
            BY <1>2, <1>3, <2>2
        <3>2. Item(text)
            BY <3>1 DEF Framing, TodoIs
        <3> QED
            BY <2>1, <3>2
    <2>3. \A i \in DOMAIN todo' : \A text : text = todo'[i] => Item(text)'
        BY <1>3, <2>2
    <2> QED
        BY <1>3, <2>3 DEF TodoIs
<1>6. Item(todo[1]) /\ 1 \in DOMAIN todo
    BY <1>2 DEF Framing, TodoIs
<1>7. ASSUME NEW text \in broken' PROVE Piece(text)'
    <2>1. CASE text \in broken
        BY <1>4, <2>1 DEF Framing
    <2>2. CASE text \notin broken
        <3>1. text = todo[1] /\ \A l \in Lines : todo[1] # Body(l)
            BY <2>2 DEF HandleLine
        <3>2. Piece(text)
            BY <1>6, <3>1 DEF Item
        <3> QED
            BY <1>4, <3>2
    <2> QED
        BY <2>1, <2>2
<1>8. ASSUME NEW l, l \in Lines \/ l \in handled, Found(l) PROVE Found(l)'
    <2>1. handled \subseteq handled'
        BY DEF HandleLine
    <2>2. CASE l \in handled
        BY <2>1, <2>2 DEF Found
    <2>3. CASE l \notin handled
        <3>1. PICK i \in DOMAIN todo : todo[i] = Body(l)
            BY <1>8, <2>3 DEF Found
        <3>2. l \in Lines
            BY <1>8, <2>3
        <3>3. CASE i = 1
            <4>1. PICK m \in Lines : todo[1] = Body(m) /\ handled' = handled \cup {m}
                BY <3>1, <3>2, <3>3 DEF HandleLine
            <4>2. m = l
                BY <3>1, <3>2, <3>3, <4>1, BodiesDiffer
            <4> QED
                BY <4>1, <4>2 DEF Found
        <3>4. CASE i # 1
            <4>1. i - 1 \in 1..(Len(todo) - 1) /\ (i - 1) + 1 = i
                BY <1>2, <3>4
            <4>2. i - 1 \in DOMAIN todo' /\ todo'[i - 1] = Body(l)
                BY <1>3, <3>1, <4>1
            <4> QED
                BY <4>2 DEF Found, Body, Text
        <3> QED
            BY <3>3, <3>4
    <2> QED
        BY <2>2, <2>3
<1>9. ASSUME NEW c \in Clients PROVE AllFound(c)'
    <2>1. ASSUME NEW n \in 1..seen[c], Stream[c][n].k = 0, Length[Stream[c][n].line] <= LineMax
          PROVE  Found(Stream[c][n].line)'
        <3> DEFINE l == Stream[c][n].line
        <3>1. Found(l)
            BY <2>1 DEF Framing, AllFound
        <3>2. l \in Lines
            BY <2>1, NewLinesAre DEF Framing, Streams
        <3> QED
            BY <1>8, <3>1, <3>2
    <2> QED
        BY <1>1, <2>1 DEF AllFound
<1>10. Streams'
    BY <1>1, <1>2 DEF Framing, Streams, Open
<1>11. (\A c \in Open : RestIsKept(c))'
    BY <1>1, RestStays DEF Framing, Open
<1> QED
    BY <1>5, <1>7, <1>9, <1>10, <1>11 DEF Framing

\* The end of a connection leaves the other clients alone.
LEMMA CloseKeeps ==
    ASSUME Framing, NEW c \in Clients, MayHandle(c), Close(c), ready' = ready \ {c}, UNCHANGED <<seen, at>>
    PROVE  /\ c \in Open /\ conn'[c] = "closed" /\ todo = << >>
           /\ \A d \in Clients : conn[d] = "closed" => conn'[d] = "closed"
           /\ Streams'
           /\ (\A d \in Open : RestIsKept(d))'
<1>1. c \in ready /\ ready \subseteq Open /\ todo = << >> /\ at = "clients"
    BY DEF Framing, Streams, MayHandle
<1>2. /\ conn' \in [Clients -> {"new", "open", "closed"}] /\ conn'[c] = "closed"
      /\ \A d \in Clients \ {c} : conn'[d] = conn[d]
    BY DEF Framing, Streams, Close
<1>3. /\ buffer' \in [Clients -> Seq(Cells)] /\ buffer'[c] = << >>
      /\ \A d \in Clients \ {c} : buffer'[d] = buffer[d]
    BY DEF Framing, Streams, Close
<1>4. Open' = Open \ {c} /\ discarding' = discarding \ {c}
    BY <1>2 DEF Open, Close
<1>5. Streams'
    BY <1>1, <1>2, <1>3, <1>4 DEF Framing, Streams
<1>6. (\A d \in Open : RestIsKept(d))'
    <2>1. ASSUME NEW d \in Open \ {c} PROVE RestIsKept(d)'
        <3>1. d \in Clients /\ d # c /\ RestIsKept(d)
            BY <2>1 DEF Framing, Open
        <3> QED
            BY <1>3, <1>4, <3>1, RestStays
    <2> QED
        BY <1>4, <2>1
<1> QED
    BY <1>1, <1>2, <1>5, <1>6

LEMMA ReadFailsKeeps == ASSUME Framing, NEW c \in Clients, ReadFails(c) PROVE Framing'
<1>1. MayHandle(c) /\ Close(c) /\ ready' = ready \ {c} /\ UNCHANGED <<seen, todo, at, handled, broken>>
    BY DEF ReadFails
<1>2. /\ \A d \in Clients : conn[d] = "closed" => conn'[d] = "closed"
      /\ Streams' /\ (\A d \in Open : RestIsKept(d))'
    BY <1>1, CloseKeeps
<1> QED
    BY <1>1, <1>2, NothingFound DEF Framing

\* What is in the buffer at the end of the stream is the start of a line, which the client did not end.
LEMMA LastPiece ==
    ASSUME Framing, NEW c \in Open, c \notin discarding, buffer[c] # << >>
    PROVE  /\ buffer[c] \in Seq(Cells) /\ \A n \in DOMAIN buffer[c] : buffer[c][n] = Text(buffer[c][1].line, n)
           /\ Len(buffer[c]) <= LineMax /\ seen[c] > 0 /\ Stream[c][seen[c]] = buffer[c][Len(buffer[c])]
<1>0. c \in Clients
    BY DEF Open
<1>1. PICK b \in 0..seen[c] : /\ LastStart(c, b, seen[c]) /\ seen[c] - b <= LineMax
                              /\ buffer[c] = SubSeq(Stream[c], b + 1, seen[c])
    BY DEF Framing, RestIsKept
<1> DEFINE p == seen[c]
           t == Slice(c, b, p)
<1>2. p \in Nat /\ p <= Len(Stream[c]) /\ b \in Nat /\ b <= p
    BY <1>0, <1>1 DEF Framing, Streams
<1>3. buffer[c] = t
    BY <1>1 DEF Slice
<1>4. p - b <= LineMax /\ Start(c, b) /\ NoEnd(c, b, p)
    BY <1>1 DEF LastStart, NoEnd
<1> HIDE DEF p
<1>5. /\ t \in Seq(Cells) /\ Len(t) = p - b /\ DOMAIN t = 1..(p - b)
      /\ \A n \in 1..(p - b) : t[n] = Stream[c][b + n]
    BY <1>0, <1>2, SliceIs
<1>6. b < p
    <2>1. Len(t) # 0
        BY <1>3, <1>5
    <2> QED
        BY <1>2, <1>5, <2>1
<1>7. PICK l \in Lines : \A k \in 1..(p - b) : t[k] = Text(l, k)
    BY <1>0, <1>2, <1>4, <1>6, StartOfLine
<1>8. 1 \in 1..(p - b) /\ p - b \in 1..(p - b) /\ b + (p - b) = p /\ p > 0
    BY <1>2, <1>6
<1>9. t[1].line = l /\ t[Len(t)] = Stream[c][p]
    BY <1>5, <1>7, <1>8 DEF Text
<1> HIDE DEF t
<1> QED
    BY <1>3, <1>4, <1>5, <1>7, <1>8, <1>9 DEF p

LEMMA ReadEndKeeps == ASSUME Framing, NEW c \in Clients, ReadEnd(c) PROVE Framing'
<1>1. MayHandle(c) /\ Close(c) /\ ready' = ready \ {c} /\ UNCHANGED <<seen, at, handled, broken>>
    BY DEF ReadEnd
<1>2. /\ \A d \in Clients : conn[d] = "closed" => conn'[d] = "closed"
      /\ Streams' /\ (\A d \in Open : RestIsKept(d))'
      /\ c \in Open /\ conn'[c] = "closed" /\ todo = << >>
    BY <1>1, CloseKeeps
<1>3. ASSUME NEW text, Piece(text) PROVE Piece(text)'
    BY <1>1, <1>2, <1>3 DEF Piece
<1>4. (\A text \in broken : Piece(text))'
    BY <1>1, <1>3 DEF Framing
<1>5. (\A d \in Clients : AllFound(d))'
    <2>1. ASSUME NEW l, Found(l) PROVE Found(l)'
        BY <1>1, <1>2, <2>1 DEF Found
    <2> QED
        BY <1>1, <2>1 DEF Framing, AllFound
<1>6. TodoIs'
    <2>1. CASE todo' = << >>
        BY <2>1 DEF TodoIs
    <2>2. CASE todo' # << >>
        <3>1. todo' = <<buffer[c]>> /\ c \notin discarding /\ buffer[c] # << >>
            BY <2>2 DEF ReadEnd
        <3> DEFINE t == buffer[c]
        <3>2. /\ t \in Seq(Cells) /\ \A n \in DOMAIN t : t[n] = Text(t[1].line, n)
              /\ Len(t) <= LineMax /\ seen[c] > 0 /\ Stream[c][seen[c]] = t[Len(t)]
            BY <1>2, <3>1, LastPiece
        <3> HIDE DEF t
        <3>3. ASSUME NEW text, text = t PROVE Piece(text)'
            BY <1>1, <1>2, <3>2, <3>3 DEF Piece
        <3>4. todo' = <<t>>
            BY <3>1 DEF t
        <3>5. todo' \in Seq(Seq(Cells)) /\ DOMAIN todo' = {1} /\ todo'[1] = t
            BY <3>2, <3>4
        <3>6. \A text : text = t => Item(text)'
            BY <3>3 DEF Item
        <3> QED
            BY <3>5, <3>6 DEF TodoIs
    <2> QED
        BY <2>1, <2>2
<1> QED
    BY <1>2, <1>4, <1>5, <1>6 DEF Framing

\* What IngestProcessBuffer gets: the stream behind the last line which starts before it, or, while
\* the end of a long line is skipped, what was received now.
Received(c, b, a, q) ==
    /\ c \in Open /\ b \in Nat /\ a \in Nat /\ q \in Nat
    /\ b <= a /\ a <= seen[c] /\ seen[c] < q /\ q <= Len(Stream[c])
    /\ Start(c, b) /\ NoEnd(c, b, seen[c])
    /\ IF c \in discarding THEN a = seen[c] /\ seen[c] - b > LineMax ELSE a = b
    /\ ProcessBuffer(c, Slice(c, a, q))
    /\ seen' = [seen EXCEPT ![c] = q]

\* A read continues where the client was.
LEMMA ReadGets ==
    ASSUME Framing, NEW c \in Clients, Read(c)
    PROVE  /\ todo = << >> /\ \E b, a, q : Received(c, b, a, q)
           /\ at = "clients" /\ ready' = ready \ {c} /\ UNCHANGED <<conn, at, handled, broken>>
<1>1. c \in Open /\ todo = << >> /\ at = "clients"
    BY DEF Read, MayHandle, Framing, Streams
<1>2. PICK n \in 1..Least(RecvMax, Len(Stream[c]) - seen[c]) :
          /\ ProcessBuffer(c, buffer[c] \o SubSeq(Stream[c], seen[c] + 1, seen[c] + n))
          /\ seen' = [seen EXCEPT ![c] = @ + n]
    BY DEF Read
<1> DEFINE p == seen[c]
           q == p + n
<1>3. p \in Nat /\ p <= Len(Stream[c]) /\ Len(Stream[c]) \in Nat
    BY IngestAssumption DEF Framing, Streams
<1>4. q \in Nat /\ p < q /\ q <= Len(Stream[c])
    BY <1>2, <1>3, IngestAssumption DEF Least
<1>5. seen' = [seen EXCEPT ![c] = q]
    BY <1>2
<1>6. PICK b \in 0..p :
          /\ LastStart(c, b, p)
          /\ IF c \in discarding THEN p - b > LineMax /\ buffer[c] = << >>
                                 ELSE buffer[c] = Slice(c, b, p)
    BY <1>1 DEF Framing, RestIsKept, Slice
<1>7. b \in Nat /\ b <= p /\ Start(c, b) /\ NoEnd(c, b, p)
    BY <1>3, <1>6 DEF LastStart, NoEnd
<1> DEFINE t == Slice(c, p, q)
           s == buffer[c] \o t
<1>8. ProcessBuffer(c, s)
    BY <1>2 DEF Slice
<1>9. CASE c \in discarding
    <2>1. p <= q
        BY <1>3, <1>4
    <2> HIDE DEF p, q
    <2>2. t \in Seq(Cells)
        BY <1>3, <1>4, <2>1, SliceIs
    <2>3. s = t
        <3>1. buffer[c] = << >>
            BY <1>6, <1>9
        <3> HIDE DEF t
        <3> QED
            BY <2>2, <3>1, ConcatEmptySeq
    <2>4. Received(c, b, p, q)
        BY <1>1, <1>3, <1>4, <1>5, <1>6, <1>7, <1>8, <1>9, <2>3 DEF Received, p
    <2> QED
        BY <1>1, <2>4 DEF Read
<1>10. CASE c \notin discarding
    <2>1. p <= q
        BY <1>3, <1>4
    <2> HIDE DEF p, q
    <2>2. s = Slice(c, b, q)
        <3>1. buffer[c] = Slice(c, b, p)
            BY <1>6, <1>10
        <3>2. Slice(c, b, p) \o Slice(c, p, q) = Slice(c, b, q)
            BY <1>3, <1>4, <1>7, <2>1, SlicesAdd
        <3> QED
            BY <3>1, <3>2
    <2>3. Received(c, b, b, q)
        BY <1>1, <1>3, <1>4, <1>5, <1>6, <1>7, <1>8, <1>10, <2>2 DEF Received, p
    <2> QED
        BY <1>1, <2>3 DEF Read
<1> QED
    BY <1>9, <1>10

\* What is behind the last line is kept, or skipped when it is too long.
LEMMA RestIsFound ==
    ASSUME NEW c \in Clients, NEW b, NEW a, NEW q, Received(c, b, a, q), seen \in [Clients -> Nat],
           buffer \in [Clients -> Seq(Cells)]
    PROVE  RestIsKept(c)' /\ buffer'[c] \in Seq(Cells)
<1> DEFINE p == seen[c]
           s == Slice(c, a, q)
<1>1. /\ b \in Nat /\ a \in Nat /\ q \in Nat /\ p \in Nat /\ b <= a /\ a <= p /\ p < q /\ q <= Len(Stream[c]) /\ a <= q
      /\ Start(c, b) /\ NoEnd(c, b, p) /\ Len(Stream[c]) \in Nat
    BY IngestAssumption DEF Received
<1>2. PICK e : Before(c, a, q, e) /\ Behind(s) = Slice(c, a + e, q)
    BY <1>1, BehindIs
<1>3. Ends(s) = {n \in 1..(q - a) : Stream[c][a + n].k = 0}
    BY <1>1, EndsAre
<1> DEFINE rest == Slice(c, a + e, q)
           skip == c \in discarding
<1>4. /\ discarding' = IF (skip /\ Ends(s) = {}) \/ Len(rest) > LineMax THEN discarding \cup {c}
                       ELSE discarding \ {c}
      /\ buffer'[c] = IF c \in discarding' THEN << >> ELSE rest
      /\ seen'[c] = q
    BY <1>2 DEF Received, ProcessBuffer
<1>5. e \in Nat /\ a + e \in Nat /\ a + e <= q /\ NoEnd(c, a + e, q)
    BY <1>1, <1>2 DEF Before
<1>6. rest \in Seq(Cells) /\ Len(rest) = q - (a + e)
    <2> DEFINE f == a + e
    <2>1. f \in Nat /\ f <= q
        BY <1>5
    <2> HIDE DEF f
    <2>2. Slice(c, f, q) \in Seq(Cells) /\ Len(Slice(c, f, q)) = q - f
        BY <1>1, <2>1, SliceIs
    <2> QED
        BY <2>2 DEF f
<1>7. buffer'[c] \in Seq(Cells)
    BY <1>4, <1>6
<1>8. ASSUME NEW d \in 0..q, LastStart(c, d, q),
             IF c \in discarding' THEN q - d > LineMax /\ buffer'[c] = << >>
                                  ELSE q - d <= LineMax /\ buffer'[c] = Slice(c, d, q)
      PROVE  RestIsKept(c)'
    BY <1>4, <1>8 DEF RestIsKept, Slice, LastStart, Start
<1>9. CASE skip /\ Ends(s) = {}
    <2>1. a = p /\ p - b > LineMax /\ c \in discarding' /\ buffer'[c] = << >>
        BY <1>4, <1>9 DEF Received
    <2>2. e = 0
        BY <1>2, <1>3, <1>9 DEF Before
    <2>3. NoEnd(c, b, q)
        <3>1. ASSUME NEW n \in (b + 1)..q PROVE Stream[c][n].k # 0
            <4>1. n \in (b + 1)..p \/ n \in ((a + e) + 1)..q
                BY <1>1, <2>1, <2>2
            <4> QED
                BY <1>1, <1>5, <4>1 DEF NoEnd
        <3> QED
            BY <3>1 DEF NoEnd
    <2>4. b \in 0..q /\ LastStart(c, b, q)
        BY <1>1, <2>3 DEF LastStart, NoEnd
    <2>5. q - b > LineMax
        BY <1>1, <2>1, IngestAssumption
    <2> QED
        BY <1>8, <2>1, <2>4, <2>5
<1>10. CASE ~(skip /\ Ends(s) = {})
    <2>1. Start(c, a + e)
        <3>1. a + e \in 0..Len(Stream[c])
            BY <1>1, <1>5
        <3>2. CASE e = 0
            <4>1. Ends(s) = {}
                <5>1. ASSUME NEW n \in 1..(q - a) PROVE Stream[c][a + n].k # 0
                    <6>1. a + n \in ((a + e) + 1)..q
                        BY <1>1, <3>2
                    <6> QED
                        BY <1>5, <6>1 DEF NoEnd
                <5> QED
                    BY <1>3, <5>1
            <4>2. a + e = b
                BY <1>1, <1>10, <3>2, <4>1 DEF Received
            <4> QED
                BY <1>1, <4>2
        <3>3. CASE e # 0
            BY <1>2, <3>1, <3>3 DEF Before, Start
        <3> QED
            BY <3>2, <3>3
    <2>2. a + e \in 0..q /\ LastStart(c, a + e, q)
        BY <1>1, <1>5, <2>1 DEF LastStart, NoEnd
    <2>3. IF Len(rest) > LineMax THEN c \in discarding' ELSE c \notin discarding'
        BY <1>4, <1>10
    <2>4. q - (a + e) \in Int /\ LineMax \in Int
        BY <1>1, <1>5, IngestAssumption
    <2>5. IF c \in discarding' THEN q - (a + e) > LineMax /\ buffer'[c] = << >>
                               ELSE q - (a + e) <= LineMax /\ buffer'[c] = rest
        BY <1>4, <1>6, <2>3, <2>4
    <2> DEFINE d == a + e
    <2>6. /\ d \in 0..q /\ LastStart(c, d, q)
          /\ IF c \in discarding' THEN q - d > LineMax /\ buffer'[c] = << >>
                                   ELSE q - d <= LineMax /\ buffer'[c] = Slice(c, d, q)
        BY <2>2, <2>5
    <2> HIDE DEF d
    <2>7. d \in 0..q
        BY <2>6
    <2>8. LastStart(c, d, q)
        BY <2>6
    <2>9. IF c \in discarding' THEN q - d > LineMax /\ buffer'[c] = << >>
                               ELSE q - d <= LineMax /\ buffer'[c] = Slice(c, d, q)
        BY <2>6
    <2> QED
        BY <1>7, <1>8, <2>7, <2>8, <2>9
<1> QED
    BY <1>7, <1>9, <1>10

\* The lines which come out are whole lines of the stream, and only the end of a long one is dropped.
LEMMA LinesAreFound ==
    ASSUME NEW c \in Clients, NEW b, NEW a, NEW q, Received(c, b, a, q), seen \in [Clients -> Nat]
    PROVE  /\ todo' \in Seq(Seq(Cells)) /\ \A i \in 1..Len(todo') : \E l \in Lines : todo'[i] = Body(l)
           /\ \A n \in (seen[c] + 1)..q :
                  Stream[c][n].k = 0 /\ Length[Stream[c][n].line] <= LineMax =>
                      \E i \in 1..Len(todo') : todo'[i] = Body(Stream[c][n].line)
<1> DEFINE p == seen[c]
           s == Slice(c, a, q)
           E == Ends(s)
           L == LinesIn(s)
           skip == c \in discarding
           LineOf(n) == Stream[c][a + n].line
<1>1. /\ b \in Nat /\ a \in Nat /\ q \in Nat /\ p \in Nat /\ b <= a /\ a <= p /\ p < q /\ q <= Len(Stream[c]) /\ a <= q
      /\ Start(c, b) /\ NoEnd(c, b, p) /\ Len(Stream[c]) \in Nat
    BY IngestAssumption DEF Received
<1>2. /\ E = {n \in 1..(q - a) : Stream[c][a + n].k = 0} /\ E \subseteq Nat /\ IsFiniteSet(E)
      /\ \A n \in E : n \in 1..(q - a)
    BY <1>1, EndsAre
<1>3. todo' = IF skip /\ E # {} THEN Tail(L) ELSE L
    BY DEF Received, ProcessBuffer
<1>4. ASSUME NEW n \in E, ~skip \/ \E m \in E : m < n
      PROVE  LineOf(n) \in Lines /\ LineTo(s, n) = Body(LineOf(n))
    <2>1. Start(c, a) \/ \E m \in Ends(Slice(c, a, q)) : m < n
        BY <1>4 DEF Received
    <2> QED
        BY <1>1, <2>1, LineToBody
<1>5. \A n \in E : LineTo(s, n) \in Seq(Cells)
    <2>1. ASSUME NEW n \in E PROVE LineTo(s, n) \in Seq(Cells)
        <3>1. PICK e : Before(c, a, (a + n) - 1, e) /\ LineTo(s, n) = Slice(c, a + e, (a + n) - 1)
            BY <1>1, LineToIs
        <3> DEFINE f == a + e
                   r == (a + n) - 1
        <3>2. f \in Nat /\ r \in Nat /\ f <= r /\ r <= Len(Stream[c])
            BY <1>1, <1>2, <3>1 DEF Before
        <3> HIDE DEF f, r
        <3>3. Slice(c, f, r) \in Seq(Cells)
            BY <3>2, SliceIs
        <3> QED
            BY <3>1, <3>3 DEF f, r
    <2> QED
        BY <2>1
<1> HIDE DEF E, L, s
<1>6. /\ L \in Seq(Seq(Cells))
      /\ E # {} => L # << >>
      /\ Len(L) = Cardinality(E) /\ Cardinality(E) \in Nat
    BY <1>2, <1>5, LinesInAre, Ranks DEF L, E
<1>7. ASSUME NEW i \in 1..Len(L), ~skip \/ i # 1 PROVE \E l \in Lines : L[i] = Body(l)
    <2>1. PICK n \in E : L[i] = LineTo(s, n) /\ (i # 1 => \E m \in E : m < n)
        BY <1>2, <1>5, LinesInAre DEF L, E
    <2> QED
        BY <1>4, <1>7, <2>1
<1>8. ASSUME NEW n \in (p + 1)..q, Stream[c][n].k = 0, Length[Stream[c][n].line] <= LineMax
      PROVE  \E i \in 1..Len(L) : L[i] = Body(Stream[c][n].line) /\ (skip => i # 1)
    <2> DEFINE m == n - a
    <2>1. m \in 1..(q - a) /\ a + m = n /\ n \in Nat /\ b < n /\ n <= Len(Stream[c])
        BY <1>1
    <2>2. m \in E /\ LineOf(m) = Stream[c][n].line
        BY <1>2, <1>8, <2>1
    <2>3. ASSUME skip PROVE \E o \in E : o < m
        <3>1. SUFFICES ASSUME ~\E o \in E : o < m PROVE FALSE
            OBVIOUS
        <3>2. a = p /\ p - b > LineMax
            BY <2>3 DEF Received
        <3>3. ASSUME NEW o \in (b + 1)..(n - 1) PROVE Stream[c][o].k # 0
            <4>1. CASE o <= p
                <5>1. o \in (b + 1)..p
                    BY <1>1, <4>1
                <5> QED
                    BY <1>1, <5>1 DEF NoEnd
            <4>2. CASE ~(o <= p)
                <5>0. /\ o \in Int /\ n \in Int /\ a \in Int /\ q \in Int /\ a < o /\ o < n /\ n <= q
                    <6>1. o \in Int /\ o < n /\ n <= q
                        BY <1>1
                    <6>2. a < o
                        BY <1>1, <3>2, <4>2
                    <6> QED
                        BY <1>1, <6>1, <6>2
                <5>1. o - a \in 1..(q - a) /\ a + (o - a) = o /\ o - a < m
                    BY <5>0
                <5>2. o - a \notin E
                    BY <3>1, <5>1
                <5> QED
                    BY <1>2, <5>1, <5>2
            <4> QED
                BY <4>1, <4>2
        <3>4. NoEnd(c, b, n - 1)
            BY <3>3 DEF NoEnd
        <3>5. PICK l \in Lines : Stream[c][n].line = l /\ n = b + Length[l] + 1
            BY <1>1, <1>8, <2>1, <3>4, LineEnds
        <3>6. Length[l] \in Nat /\ LineMax \in Nat /\ Length[l] <= LineMax
            BY <1>8, <3>5, BodyIs, IngestAssumption
        <3> QED
            BY <1>1, <3>2, <3>5, <3>6
    <2>4. PICK i \in 1..Len(L) : L[i] = LineTo(s, m) /\ ((\E o \in E : o < m) => i # 1)
        BY <1>2, <1>5, <2>2, LinesInAre DEF L, E
    <2>5. LineTo(s, m) = Body(LineOf(m))
        BY <1>4, <2>2, <2>3
    <2> QED
        BY <2>2, <2>3, <2>4, <2>5
<1>9. CASE ~(skip /\ E # {})
    <2>0. todo' = L
        BY <1>3, <1>9
    <2>1. todo' = L /\ Len(L) \in Nat
        BY <1>6, <2>0
    <2>2. ASSUME NEW i \in 1..Len(L) PROVE \E l \in Lines : L[i] = Body(l)
        <3>1. CASE skip
            <4>1. Cardinality(E) = 0
                BY <1>9, <3>1, FS_EmptySet
            <4> QED
                BY <1>6, <4>1
        <3> QED
            BY <1>7, <3>1
    <2>3. todo' \in Seq(Seq(Cells))
        BY <1>6, <2>0
    <2>4. \A i \in 1..Len(todo') : \E l \in Lines : todo'[i] = Body(l)
        BY <2>0, <2>2
    <2>5. ASSUME NEW n \in (p + 1)..q, Stream[c][n].k = 0, Length[Stream[c][n].line] <= LineMax
          PROVE  \E i \in 1..Len(todo') : todo'[i] = Body(Stream[c][n].line)
        BY <1>8, <2>0, <2>5
    <2> QED
        BY <2>3, <2>4, <2>5
<1>10. CASE skip /\ E # {}
    <2>0. todo' = Tail(L)
        BY <1>3, <1>10
    <2>1. L \in Seq(Seq(Cells)) /\ Len(L) \in Nat /\ L # << >>
        BY <1>6, <1>10
    <2>2. Len(L) # 0
        BY <2>1
    <2>3. /\ todo' \in Seq(Seq(Cells)) /\ Len(todo') = Len(L) - 1
          /\ \A i \in 1..(Len(L) - 1) : todo'[i] = L[i + 1]
        BY <2>0, <2>1, <2>2
    <2>4. ASSUME NEW i \in 1..Len(todo') PROVE \E l \in Lines : todo'[i] = Body(l)
        <3>1. i + 1 \in 1..Len(L) /\ i + 1 # 1 /\ i \in 1..(Len(L) - 1)
            BY <2>1, <2>3
        <3>2. \E l \in Lines : L[i + 1] = Body(l)
            BY <1>7, <3>1
        <3> QED
            BY <2>3, <3>1, <3>2
    <2>5. ASSUME NEW n \in (p + 1)..q, Stream[c][n].k = 0, Length[Stream[c][n].line] <= LineMax
          PROVE  \E i \in 1..Len(todo') : todo'[i] = Body(Stream[c][n].line)
        <3>1. PICK i \in 1..Len(L) : L[i] = Body(Stream[c][n].line) /\ i # 1
            BY <1>8, <1>10, <2>5
        <3>2. i - 1 \in 1..(Len(L) - 1) /\ (i - 1) + 1 = i
            BY <2>1, <3>1
        <3>3. todo'[i - 1] = L[i] /\ i - 1 \in 1..Len(todo')
            BY <2>3, <3>2
        <3> QED
            BY <3>1, <3>3
    <2> QED
        BY <2>3, <2>4, <2>5
<1> QED
    BY <1>9, <1>10

LEMMA ReadKeeps == ASSUME Framing, NEW c \in Clients, Read(c) PROVE Framing'
<1>1. /\ todo = << >> /\ at = "clients" /\ ready' = ready \ {c} /\ UNCHANGED <<conn, at, handled, broken>>
    BY ReadGets
<1>2. PICK b, a, q : Received(c, b, a, q)
    BY ReadGets
<1>3. seen \in [Clients -> Nat] /\ buffer \in [Clients -> Seq(Cells)]
    BY DEF Framing, Streams
<1>4. /\ c \in Open /\ q \in Nat /\ seen[c] < q /\ q <= Len(Stream[c])
      /\ seen' = [seen EXCEPT ![c] = q]
      /\ \A d \in Clients \ {c} : buffer'[d] = buffer[d] /\ (d \in discarding' <=> d \in discarding)
      /\ discarding' \subseteq discarding \cup {c}
      /\ DOMAIN buffer' = Clients
    BY <1>2, <1>3 DEF Received, ProcessBuffer
<1>5. RestIsKept(c)' /\ buffer'[c] \in Seq(Cells)
    BY <1>2, <1>3, RestIsFound
<1>6. /\ todo' \in Seq(Seq(Cells))
      /\ \A i \in 1..Len(todo') : \E l \in Lines : todo'[i] = Body(l)
      /\ \A n \in (seen[c] + 1)..q :
             Stream[c][n].k = 0 /\ Length[Stream[c][n].line] <= LineMax =>
                 \E i \in 1..Len(todo') : todo'[i] = Body(Stream[c][n].line)
    BY <1>2, <1>3, LinesAreFound
<1>7. /\ seen' \in [Clients -> Nat] /\ seen'[c] = q /\ \A d \in Clients \ {c} : seen'[d] = seen[d]
    BY <1>3, <1>4
<1>8. buffer' \in [Clients -> Seq(Cells)]
    <2>1. buffer' = [buffer EXCEPT ![c] = IF c \in discarding' THEN << >> ELSE Behind(Slice(c, a, q))]
        BY <1>2 DEF Received, ProcessBuffer
    <2>2. buffer' = [buffer EXCEPT ![c] = buffer'[c]]
        BY <1>3, <2>1
    <2> QED
        BY <1>3, <1>5, <2>2
<1>9. Streams'
    <2>1. Open' = Open /\ conn[c] = "open"
        BY <1>1, <1>4 DEF Open
    <2>2. discarding' \subseteq Open' /\ ready' \subseteq Open' /\ conn' \in [Clients -> {"new", "open", "closed"}]
        BY <1>1, <1>4, <2>1 DEF Framing, Streams
    <2>3. ASSUME NEW d \in Clients
          PROVE  /\ seen'[d] <= Len(Stream[d])
                 /\ conn'[d] = "new" => seen'[d] = 0
                 /\ conn'[d] # "open" => buffer'[d] = << >>
        <3>1. CASE d = c
            BY <1>1, <1>4, <1>7, <2>1, <3>1
        <3>2. CASE d # c
            BY <1>1, <1>4, <1>7, <3>2 DEF Framing, Streams
        <3> QED
            BY <3>1, <3>2
    <2> QED
        BY <1>1, <1>7, <1>8, <2>2, <2>3 DEF Streams
<1>10. (\A d \in Open : RestIsKept(d))'
    <2>1. ASSUME NEW d \in Open, d # c PROVE RestIsKept(d)'
        <3>1. d \in Clients /\ RestIsKept(d)
            BY DEF Framing, Open
        <3> QED
            BY <1>4, <1>7, <2>1, <3>1, RestStays
    <2> QED
        BY <1>1, <1>5, <2>1 DEF Open
<1>11. TodoIs'
    <2>1. DOMAIN todo' = 1..Len(todo')
        BY <1>6
    <2> QED
        BY <1>6, <2>1 DEF TodoIs, Item, Body, Text
<1>12. (\A text \in broken : Piece(text))'
    <2>1. ASSUME NEW text, Piece(text) PROVE Piece(text)'
        <3>1. PICK d \in Clients : conn[d] = "closed" /\ seen[d] > 0 /\ Stream[d][seen[d]] = text[Len(text)]
            BY <2>1 DEF Piece
        <3>2. d # c
            BY <1>4, <3>1 DEF Open
        <3> QED
            BY <1>1, <1>7, <2>1, <3>1, <3>2 DEF Piece
    <2> QED
        BY <1>1, <2>1 DEF Framing
<1>13. (\A d \in Clients : AllFound(d))'
    <2>1. ASSUME NEW d \in Clients, NEW n \in 1..seen[d],
                 Stream[d][n].k = 0, Length[Stream[d][n].line] <= LineMax
          PROVE  Stream[d][n].line \in handled'
        <3>1. Found(Stream[d][n].line)
            BY <2>1 DEF Framing, AllFound
        <3> QED
            BY <1>1, <3>1 DEF Found
    <2>2. ASSUME NEW d \in Clients, NEW n \in 1..seen'[d],
                 Stream[d][n].k = 0, Length[Stream[d][n].line] <= LineMax
          PROVE  \/ Stream[d][n].line \in handled'
                 \/ \E i \in DOMAIN todo' : todo'[i] = Body(Stream[d][n].line)
        <3>1. CASE n \in 1..seen[d]
            BY <2>1, <2>2, <3>1
        <3>2. CASE n \notin 1..seen[d]
            <4>1. d = c
                BY <1>7, <3>2
            <4>2. n \in (seen[c] + 1)..q
                BY <1>3, <1>4, <1>7, <3>2, <4>1
            <4>3. \E i \in 1..Len(todo') : todo'[i] = Body(Stream[d][n].line)
                BY <1>6, <2>2, <4>1, <4>2
            <4>4. DOMAIN todo' = 1..Len(todo')
                BY <1>6
            <4> QED
                BY <4>3, <4>4
        <3> QED
            BY <3>1, <3>2
    <2> QED
        BY <2>2 DEF AllFound, Found, Body, Text
<1> QED
    BY <1>9, <1>10, <1>11, <1>12, <1>13 DEF Framing

\* The other threads leave the inputs alone.
LEMMA FramingStep == Framing /\ [Next]_vars => Framing'
<1> SUFFICES ASSUME Framing, [Next]_vars PROVE Framing'
    OBVIOUS
<1>1. CASE UNCHANGED ingestVars
    <2>1. UNCHANGED <<conn, seen, buffer, discarding, ready, todo, at, handled, broken>>
        BY <1>1 DEF ingestVars
    <2>2. Streams'
        BY <2>1 DEF Framing, Streams, Open
    <2>3. (\A c \in Open : RestIsKept(c))'
        BY <2>1, RestStays DEF Framing, Open
    <2> QED
        BY <2>1, <2>2, <2>3, NothingFound DEF Framing
<1>2. CASE IngestThread
    BY <1>2, PollKeeps, ThreadMovesKeeps, IngestEndsKeeps, HandleLineKeeps, ReadKeeps, ReadEndKeeps,
       ReadFailsKeeps, AcceptKeeps DEF IngestThread
<1>3. MainThread => UNCHANGED ingestVars
    BY DEF MainThread, Signal, ReadStdin, InputEnds, RequestShutdown, ShutQueue, ThreadsEnded, StopsWaiting, Exit,
           mainOnly
<1>4. PushThread => UNCHANGED ingestVars
    BY DEF PushThread, PushStarts, PushLoop, PopBatch, PopEnds, PushAccepted, PushRejected, ToWal, pushOnly,
           BatchDone
<1>5. WalThread => UNCHANGED ingestVars
    BY DEF WalThread, WalStarts, WalLoop, RecordDone, RecordFails, ReplayEnds, WaitEnds, walOnly
<1> QED
    BY <1>1, <1>2, <1>3, <1>4, <1>5 DEF Next, Inputs, vars

LEMMA FramingFrames == Framing => LinesAreFramed
<1> SUFFICES ASSUME Framing PROVE LinesAreFramed
    OBVIOUS
<1>1. ASSUME NEW c \in Clients, NEW n \in Ends(SubSeq(Stream[c], 1, seen[c])),
             Length[Stream[c][n].line] <= LineMax
      PROVE  Stream[c][n].line \in handled \/ \E i \in DOMAIN todo : todo[i] = Body(Stream[c][n].line)
    <2>1. Stream[c] \in Seq(Cells) /\ Len(Stream[c]) \in Nat /\ seen[c] \in Nat /\ seen[c] <= Len(Stream[c])
        BY IngestAssumption DEF Framing, Streams
    <2> DEFINE t == SubSeq(Stream[c], 1, seen[c])
    <2>2. DOMAIN t = 1..seen[c] /\ \A m \in 1..seen[c] : t[m] = Stream[c][m]
        BY <2>1
    <2>3. n \in 1..seen[c] /\ Stream[c][n].k = 0
        BY <2>2 DEF Ends
    <2>4. AllFound(c)
        BY DEF Framing
    <2> QED
        BY <1>1, <2>3, <2>4 DEF AllFound, Found
<1>2. ReadLinesAreHandled
    BY <1>1 DEF ReadLinesAreHandled
<1>3. BrokenIsLast
    BY DEF Framing, Piece, BrokenIsLast
<1> QED
    BY <1>2, <1>3 DEF LinesAreFramed

\* The inputs are cut into lines as they were written, for any streams of whole lines, received in pieces of
\* any size, with any lines which are too long, and for clients which stop anywhere (otelfwd.cpp:
\* IngestProcessBuffer): every line within the limit is handled once its new line was received, and what is
\* handled and is no line is the start of one, from a client which stopped in it.
THEOREM LinesAreFramedHolds == Spec => []LinesAreFramed
BY FramingInit, FramingStep, FramingFrames, PTL DEF Spec
=============================================================================
