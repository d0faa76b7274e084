----------------------------- MODULE DomfwdLive -----------------------------
(***************************************************************************)
(* The sender when, after some time, the forwarder is there and reads, and *)
(* the WAL works: no crash, no connection which breaks, and a program      *)
(* which was shut down is started again.                                   *)
(***************************************************************************)
EXTENDS DomfwdDurable

VARIABLE calm

liveVars == <<vars, calm>>

CalmPump ==
    \/ PumpWaits \/ SendSome \/ SendFails
    \/ (StartConnect \/ CheckConnect) /\ state' = "connected"
    \/ CheckPeerClosed /\ (sock \in theirs \/ state' = "disconnected")
    \/ SendEnds /\ (sendPos = tail \/ Len(wire[sock]) = SocketBytes)

CalmSender ==
    /\ CalmPump
    /\ spilled' = spilled \cap (Queued' \cup In(records))
    /\ UNCHANGED <<walVars, moved, next, last, late>>

CalmRun ==
    \/ PumpCall \/ DrainStart \/ Take \/ Put \/ TakeEnds \/ DrainMore
    \/ TakeStops /\ ~(IsReplayPending /\ HasRoom(records[position + 1]))
    \/ FlushAgain \/ FlushTimeout \/ Spill \/ CloseFlushed \/ CloseLoses
    \/ Start /\ hasWal'

CalmForwarder ==
    /\ TimeComes \/ \E c \in Connections : Read(c) \/ ReadEnd(c)
    /\ late' = late \cap owed'
    /\ UNCHANGED <<walVars, moved, next, last, spilled>>

\* Somebody starts a program again which could not open its WAL
StopWithoutWal == Shutdown /\ ~hasWal

CalmNext == Send \/ StopWithoutWal \/ CalmRun \/ CalmSender \/ CalmForwarder

BecomeCalm == ~calm /\ calm' = TRUE /\ UNCHANGED vars

LiveInit == Init /\ calm = FALSE

LiveNext ==
    \/ (IF calm THEN CalmNext ELSE Next) /\ UNCHANGED calm
    \/ BecomeCalm

\* The main loop pumps again and again, time passes, and the forwarder reads every connection
Fairness ==
    /\ WF_liveVars(BecomeCalm)
    /\ WF_liveVars(calm /\ (CalmRun \/ CalmSender) /\ UNCHANGED calm)
    /\ WF_liveVars(calm /\ CalmForwarder /\ UNCHANGED calm)
    /\ SF_liveVars(calm /\ StopWithoutWal /\ UNCHANGED calm)

LiveSpec == LiveInit /\ [][LiveNext]_liveVars /\ Fairness

\* Every line which was kept arrives once the forwarder is there again (domfwd_durable.hpp:
\* the lines wait on disk instead), from behind crashes, restarts, a full queue, a socket which
\* takes no more, and records of the WAL which were sent already.
LinesArrive == \A l \in Lines : l \in owed ~> l \notin owed
=============================================================================
