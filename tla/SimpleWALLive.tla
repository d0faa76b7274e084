--------------------------- MODULE SimpleWALLive ---------------------------
(***************************************************************************)
(* The WAL with a program like otelfwd around it: one thread calls Replay  *)
(* again and again while IsReplayPending is true, and after some time the  *)
(* receiver accepts and the disk works.  Nothing is assumed about the      *)
(* other threads, except that a Replay which was started goes on.          *)
(***************************************************************************)
EXTENDS SimpleWAL

CONSTANT walThread      \* the thread which calls Replay in a loop (WalThread of otelfwd)

ASSUME WalThreadAssumption == walThread \in Threads

VARIABLE calm           \* from now on nothing fails and nobody stops the program

liveVars == <<vars, calm>>

Going(t) ==
    \/ ReplayReadRecord(t) \/ ReplayReadChanged(t) \/ ReplayReadLast(t, TRUE)
    \/ ConsumeAccepts(t) \/ ReplayEnd(t, TRUE) \/ ReplayGive(t)

\* The steps of a program for which everything works
CalmNext ==
    \/ Open \/ AppendStored
    \/ \E t \in Threads : ReplayStart(t) \/ Going(t)
    \/ PeekNothing \/ PeekRecord \/ HandleRecord \/ AckRefused
    \/ PeekLast(TRUE) \/ AckSaved(TRUE)

BecomeCalm == ~calm /\ calm' = TRUE /\ UNCHANGED vars

LiveInit == Init /\ calm = FALSE

LiveNext ==
    \/ (IF calm THEN CalmNext ELSE Next) /\ UNCHANGED calm
    \/ BecomeCalm

Fairness ==
    /\ WF_liveVars(BecomeCalm)
    /\ WF_liveVars(calm /\ Open /\ UNCHANGED calm)
    /\ WF_liveVars(calm /\ pending /\ ReplayStart(walThread) /\ UNCHANGED calm)
    /\ \A t \in Threads : WF_liveVars(calm /\ Going(t) /\ UNCHANGED calm)

LiveSpec == LiveInit /\ [][LiveNext]_liveVars /\ Fairness

\* The WAL is not stuck (simple_wal.hpp:97): once the receiver and the disk work, every
\* record which was accepted is delivered, also from behind a restart, a failed save,
\* a commit position which was not usable, and in front of a torn record.
AcceptedIsDelivered ==
    \A r \in Records :
        r \in accepted ~> r \in delivered \cup discarded \/ spoiled # {}

\* A WAL which is full is not full for ever (simple_wal.hpp:19): it is emptied when
\* everything is delivered, and Append stores records again.
FullIsTemporary == ~HasRoom(2) ~> HasRoom(2) \/ spoiled # {}
=============================================================================
