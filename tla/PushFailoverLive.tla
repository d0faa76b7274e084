-------------------------- MODULE PushFailoverLive --------------------------
(***************************************************************************)
(* The failover while time passes and requests keep coming: after some     *)
(* time the primary accepts everything; of the backup nothing is assumed.  *)
(***************************************************************************)
EXTENDS PushFailover

CONSTANT sender      \* the thread which sends again and again

ASSUME SenderAssumption == sender \in Threads

VARIABLE calm        \* from now on the primary accepts

liveVars == <<vars, calm>>

CalmAnswer(t, a) == Answer(t, a) /\ (calm /\ EndpointOf(pc[t]) = "primary" => a = "accepted")

BecomeCalm == ~calm /\ calm' = TRUE /\ UNCHANGED vars

LiveInit == Init /\ calm = FALSE

LiveNext ==
    \/ BecomeCalm
    \/ /\ Tick \/ \E t \in Threads : Start(t) \/ Inside(t) \/ \E a \in Actions : CalmAnswer(t, a)
       /\ UNCHANGED calm

\* A thread goes on, a request is answered in time, and time passes (it does not stand still
\* however often Send is called).
Fairness ==
    /\ WF_liveVars(BecomeCalm)
    /\ []<><<Tick>>_liveVars
    /\ WF_liveVars(Start(sender) /\ UNCHANGED calm)
    /\ \A t \in Threads :
           /\ WF_liveVars(Inside(t) /\ UNCHANGED calm)
           /\ WF_liveVars((\E a \in Actions : CalmAnswer(t, a)) /\ UNCHANGED calm)

LiveSpec == LiveInit /\ [][LiveNext]_liveVars /\ Fairness

\* A primary which delivers again is used again (push_failover.hpp:29-30), whatever the
\* threads which failed over before still do, and then stays in use.
PrimaryIsUsedAgain == <>[](active = "primary")
=============================================================================
