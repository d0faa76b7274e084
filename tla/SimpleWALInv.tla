---------------------------- MODULE SimpleWALInv ----------------------------
(***************************************************************************)
(* The inductive invariant behind NoneLost, FirstDeliveriesInOrder and     *)
(* SavedNotAgain, in named parts.  It holds of every state in which        *)
(* "spoiled" is empty.                                                     *)
(***************************************************************************)
EXTENDS SimpleWAL

\* The file is made of whole records, and at most one which was cut off at its end.
Framed ==
    \A i \in 1..Len(file) :
        /\ file[i].part = "head" => i = Len(file) \/ file[i + 1] = BodyOf(file[i].rec)
        /\ file[i].part = "body" => i > 1 /\ file[i - 1] = HeadOf(file[i].rec)

\* The records are in the order of their numbers, and the next number is a new one.
Numbered ==
    /\ \A i \in 1..Len(file) : file[i].rec <= appended
    /\ \A i, j \in 1..Len(file) : i <= j => file[i].rec <= file[j].rec

\* The record which was cut off is none Append returned true for.
TornRefused ==
    TornTail => file[Len(file)].rec \notin accepted

FileOK == Framed /\ Numbered /\ TornRefused

\* Every record which is owed to the receiver is whole in the file.
Owed ==
    \A r \in Unfinished : \E i \in 1..Len(file) : WholeAt(i) /\ file[i].rec = r

\* o is the end of the file or the start of a record, and nothing before it is owed.
Position(o) ==
    /\ o <= Len(file)
    /\ o < Len(file) => file[o + 1].part = "head"
    /\ \A i \in 1..Len(file) : i <= o => file[i].rec \notin Unfinished

CommitOK == ~wrongCommit => Position(commit)

\* r was appended, and nothing older than r is owed.
Oldest(r) == r <= appended /\ \A q \in Unfinished : r <= q

ReplayOK(t) ==
    /\ Reading(t) /\ ~Stale(t) => Position(offset[t])
    /\ Reading(t) /\ ~wrongCommit => commit <= offset[t]
    /\ pc[t] = "consume" =>
        /\ Oldest(buffer[t])
        /\ offset[t] < next[t]
        /\ ~moved => /\ next[t] = offset[t] + 2
                     /\ WholeAt(offset[t] + 1)
                     /\ file[offset[t] + 1].rec = buffer[t]

PeekOK ==
    /\ handled => hand = NoRecord
    /\ hand # NoRecord => Oldest(hand)
    /\ peekNext # 0 =>
        /\ peekNext <= Len(file)
        /\ peekNext < Len(file) => file[peekNext + 1].part = "head"
        /\ \A i \in 1..Len(file) : i <= peekNext /\ file[i].rec \in Unfinished => file[i].rec = hand
        /\ ~wrongCommit => commit < peekNext

InOrder == \A r \in delivered : \A q \in accepted : q < r => q \in delivered \cup discarded

SafeInv ==
    /\ FileOK /\ Owed /\ CommitOK
    /\ \A t \in Threads : ReplayOK(t)
    /\ PeekOK /\ InOrder

\* The inductive invariant: with the place of the one replaying thread, everything above.
IInv == TypeOK /\ OneTaker /\ (spoiled = {} => SafeInv)
=============================================================================
