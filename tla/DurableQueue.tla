---------------------------- MODULE DurableQueue ----------------------------
(***************************************************************************)
(* What a write ahead log promises to the program which uses it: a record  *)
(* which was accepted waits until it is delivered or given up, whatever    *)
(* happens in between, and the records reach the receiver for the first    *)
(* time in the order in which they were accepted.  A delivery which is     *)
(* repeated is a stuttering step.  A record which is given up while the     *)
(* receiver has it in hand may still be delivered.                         *)
(***************************************************************************)
EXTENDS Integers

VARIABLES
    last,       \* the number of the last record which was offered
    waiting,    \* accepted, and neither delivered nor given up
    delivered,  \* delivered at least once
    givenUp     \* taken away by the program

queueVars == <<last, waiting, delivered, givenUp>>

Init == last = 0 /\ waiting = {} /\ delivered = {} /\ givenUp = {}

Accept ==
    /\ last' = last + 1
    /\ waiting' = waiting \cup {last'}
    /\ UNCHANGED <<delivered, givenUp>>

Refuse ==
    /\ last' = last + 1
    /\ UNCHANGED <<waiting, delivered, givenUp>>

Deliver ==
    \E r \in waiting :
        /\ \A q \in waiting : r <= q
        /\ waiting' = waiting \ {r}
        /\ delivered' = delivered \cup {r}
        /\ UNCHANGED <<last, givenUp>>

GiveUp ==
    /\ waiting' = {} /\ givenUp' = givenUp \cup waiting
    /\ UNCHANGED <<last, delivered>>

DeliverLate ==
    \E r \in givenUp :
        /\ delivered' = delivered \cup {r}
        /\ UNCHANGED <<last, waiting, givenUp>>

Next == Accept \/ Refuse \/ Deliver \/ GiveUp \/ DeliverLate

Spec == Init /\ [][Next]_queueVars
=============================================================================
