--------------------------- MODULE HealthMonitor ---------------------------
(***************************************************************************)
(* The class of health.hpp, which otelfwd and the add-in domfwd share: one *)
(* state for alerting, from what the program knows at the moment and what  *)
(* it knew at the update before.  The operators are functions of a monitor *)
(* (the members of the class), the time and an input (HealthInput).  The   *)
(* time starts at 1: 0 stands for never, as in the code.                   *)
(***************************************************************************)
EXTENDS Integers

CONSTANTS
    WarnDown,    \* HEALTH_WARN_DOWN_SEC
    ErrorDown,   \* HEALTH_ERROR_DOWN_SEC
    LostWindow   \* HEALTH_LOST_WINDOW_SEC

ASSUME HealthAssumption ==
    /\ WarnDown \in Nat \ {0} /\ ErrorDown \in Nat /\ WarnDown < ErrorDown
    /\ LostWindow \in Nat

OK == 0
WARNING == 1
ERROR == 2

WarnPercent == 25
ErrorPercent == 50

NewMonitor ==
    [state |-> OK, unreachableSince |-> 0, lastDroppedAt |-> 0, lastRejectedAt |-> 0,
     dropped |-> 0, rejected |-> 0]

\* MUTANT of Observe: the time of the first loss is kept, like that of the outage
ObserveFirst(m, t, in) ==
    [m EXCEPT
        !.unreachableSince = IF ~in.unreachable THEN 0 ELSE IF @ = 0 THEN t ELSE @,
        !.lastDroppedAt = IF in.dropped > m.dropped /\ @ = 0 THEN t ELSE @,
        !.lastRejectedAt = IF in.rejected > m.rejected /\ @ = 0 THEN t ELSE @,
        !.dropped = in.dropped, !.rejected = in.rejected]

\* What is kept of the input in at time t: since when nobody is reached, and when data was lost
Observe(m, t, in) ==
    [m EXCEPT
        !.unreachableSince = IF ~in.unreachable THEN 0 ELSE IF @ = 0 THEN t ELSE @,
        !.lastDroppedAt = IF in.dropped > m.dropped THEN t ELSE @,
        !.lastRejectedAt = IF in.rejected > m.rejected THEN t ELSE @,
        !.dropped = in.dropped, !.rejected = in.rejected]

Recent(at, t) == at # 0 /\ t - at <= LostWindow

DownFor(m, t, limit) == m.unreachableSince # 0 /\ t - m.unreachableSince > limit

FilledTo(in, percent) == in.walMax > 0 /\ 100 * in.walBytes >= percent * in.walMax

\* The worst rule which applies
State(m, t, in) ==
    IF \/ in.walFailed
       \/ Recent(m.lastDroppedAt, t)
       \/ DownFor(m, t, ErrorDown)
       \/ FilledTo(in, ErrorPercent)
    THEN ERROR
    ELSE IF \/ Recent(m.lastRejectedAt, t)
            \/ DownFor(m, t, WarnDown)
            \/ FilledTo(in, WarnPercent)
         THEN WARNING
         ELSE OK

Update(m, t, in) ==
    LET seen == Observe(m, t, in)
    IN  [seen EXCEPT !.state = State(seen, t, in)]
=============================================================================
