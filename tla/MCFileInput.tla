----------------------------- MODULE MCFileInput -----------------------------
(* FileInput on a small instance. *)
EXTENDS FileInput

\* Two lines and two changes, for the order and the crashes
ShortLines == [maxLines |-> 2, maxText |-> 1, maxChanges |-> 2, startAtEnd |-> FALSE, incompleteLines |-> FALSE]

\* A line of three pieces, which is too long, with the settings the other one has not
LongLine == [maxLines |-> 1, maxText |-> 3, maxChanges |-> 1, startAtEnd |-> TRUE, incompleteLines |-> TRUE]

\* A line of two pieces, which is returned in part and goes on, through a restart
GrowingLine == [maxLines |-> 1, maxText |-> 2, maxChanges |-> 1, startAtEnd |-> FALSE, incompleteLines |-> TRUE]

MCSettings == {ShortLines, LongLine, GrowingLine}
MCFewChanges == {[ShortLines EXCEPT !.maxChanges = 1]}
=============================================================================
