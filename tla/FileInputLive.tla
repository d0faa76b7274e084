--------------------------- MODULE FileInputLive ---------------------------
(***************************************************************************)
(* The file input of a program which is left alone after some time: no     *)
(* crash and no shutdown any more, and the push thread finds the receiver  *)
(* or the WAL ready.  The writer, the rotations and the state file do what *)
(* they want.                                                              *)
(***************************************************************************)
EXTENDS FileInput

VARIABLE calm

liveVars == <<vars, calm>>

Finish == EndThread \/ \E ok \in BOOLEAN : Shutdown(ok)
Push == \E n \in DOMAIN queue : PushBatch(n, TRUE)

CalmNext ==
    \/ World /\ UNCHANGED <<slot, retry, stopping, delivered>>
    \/ FileThread \/ Push \/ Start \/ Finish

BecomeCalm == ~calm /\ calm' = TRUE /\ UNCHANGED vars

LiveInit == Init /\ calm = FALSE

LiveNext ==
    \/ (IF calm THEN CalmNext ELSE Next) /\ UNCHANGED <<setting, calm>>
    \/ BecomeCalm

\* The threads run, the process is started again, and a shutdown comes to its end
Fairness ==
    /\ WF_liveVars(BecomeCalm)
    /\ WF_liveVars(calm /\ FileThread /\ UNCHANGED <<setting, calm>>)
    /\ WF_liveVars(calm /\ Push /\ UNCHANGED <<setting, calm>>)
    /\ WF_liveVars(calm /\ (Start \/ Finish) /\ UNCHANGED <<setting, calm>>)

LiveSpec == LiveInit /\ [][LiveNext]_liveVars /\ Fairness

Complete(c) == c \in written /\ (c.line < line \/ part = 0)

\* Every line which is complete is delivered (file_reader.hpp:8-17), through a full queue, a
\* rotation, a truncation, a restart, and a state file which cannot be written.
LinesAreDelivered ==
    \A c \in UNION {[line : 1..s.maxLines, k : 1..s.maxText] : s \in Settings} :
        Complete(c) ~> c \notin Owed \/ spoiled # {}
=============================================================================
