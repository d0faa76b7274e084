------------------------------- MODULE Health -------------------------------
(***************************************************************************)
(* The health and the metrics file of otelfwd, and the health of domfwd.   *)
(*                                                                         *)
(* In otelfwd the metrics thread reads counters which the push thread and  *)
(* the WAL thread change at the same time, one after the other, and writes *)
(* the file from which an alert is raised.  In domfwd one thread does it   *)
(* all: it looks at its sender every now and then.                         *)
(*                                                                         *)
(* Time runs in steps of some minutes.  The metrics are written every 10   *)
(* seconds (30 in domfwd).  Of the updates in a step of the time there is  *)
(* one, at any moment between the other events of the step.                *)
(***************************************************************************)
EXTENDS HealthMonitor

CONSTANTS
    Programs,    \* the programs one of which runs: name, walOpened, walMax
    MaxTime,     \* bound: the last moment
    MaxEvents    \* bound: how often something goes wrong, or right again

ASSUME BoundsAssumption == MaxTime \in Nat /\ MaxEvents \in Nat

ASSUME ProgramsAssumption == \A p \in Programs : p.walMax \in Nat

VARIABLES
    program,     \* the one of Programs
    now,
    events,      \* bound: what has happened so far
    counters,    \* g_Metric_*, or the counters of the sender
    waiting,     \* the records of the WAL which are not delivered
    walBytes,    \* GetSize: it counts the delivered ones, until the WAL is emptied
    keeping,     \* a push which failed is on its way to the WAL
    connected,   \* IsConnected, of domfwd
    monitor,     \* g_Health
    known,       \* the static variables of UpdateHealth
    reading,     \* the metrics thread: what it has read
    pc,          \* where the metrics thread is: idle, errors, update, write
    fresh,       \* an update was made since the time went on
    truth        \* history: when what happened, and what of it was there when the last update looked

forwarding == <<events, counters, waiting, walBytes, keeping, connected>>
watching == <<monitor, known, reading, pc, fresh>>
healthVars == <<program, now, forwarding, watching, truth>>

Otelfwd == program.name = "otelfwd"
Never == 0

HealthInit ==
    /\ program \in Programs
    /\ now = 1 /\ events = 0
    /\ counters = [success |-> 0, errors |-> 0, refused |-> 0, rejected |-> 0]
    /\ waiting = 0 /\ walBytes = 0 /\ keeping = FALSE /\ connected = TRUE
    /\ monitor = NewMonitor
    /\ known = [success |-> 0, errors |-> 0, failing |-> FALSE]
    /\ reading = [success |-> 0, errors |-> 0, accepted |-> 0] /\ pc = "idle"
    /\ fresh = FALSE
    /\ truth = [accepted |-> now, failed |-> Never, lost |-> Never, rejected |-> Never,
                updated |-> Never, acceptedSeen |-> now, lostSeen |-> Never,
                rejectedSeen |-> Never, walSeen |-> 0]

-----------------------------------------------------------------------------
(* What the threads of otelfwd count *)

Happens == events < MaxEvents /\ events' = events + 1
Count(name) == counters' = [counters EXCEPT ![name] = @ + 1]

\* The receiver accepted something: an outage is over
Accepted == truth' = [truth EXCEPT !.accepted = now, !.failed = Never]

\* The first failure of an outage; of one which the update between the two times has seen apart
\* from what was accepted before
Failed == truth' = [truth EXCEPT !.failed = IF @ = Never /\ now >= truth.accepted + 2 THEN now ELSE @]

Rejected == truth' = [truth EXCEPT !.rejected = now]

PushAccepted ==
    /\ Otelfwd /\ ~keeping /\ Happens
    /\ Count("success") /\ Accepted
    /\ UNCHANGED <<program, now, waiting, walBytes, keeping, connected, watching>>

PushRejected ==
    /\ Otelfwd /\ ~keeping /\ Happens
    /\ Count("rejected") /\ Rejected
    /\ UNCHANGED <<program, now, waiting, walBytes, keeping, connected, watching>>

PushFails ==
    /\ Otelfwd /\ ~keeping /\ Happens
    /\ Count("errors") /\ Failed
    /\ keeping' = TRUE
    /\ UNCHANGED <<program, now, waiting, walBytes, connected, watching>>

\* SendPayloadToWAL: a record of size 1, if it has room
HasRoom == program.walOpened /\ (program.walMax = 0 \/ walBytes < program.walMax)

Keep ==
    /\ keeping /\ HasRoom
    /\ keeping' = FALSE /\ waiting' = waiting + 1 /\ walBytes' = walBytes + 1
    /\ UNCHANGED <<program, now, events, counters, connected, watching, truth>>

\* The WAL is full, not open, or cannot be written
Refuse ==
    /\ keeping
    /\ keeping' = FALSE
    /\ Count("refused") /\ truth' = [truth EXCEPT !.lost = now]
    /\ UNCHANGED <<program, now, events, waiting, walBytes, connected, watching>>

\* A record of the WAL is done: the last one empties it
Replayed == waiting' = waiting - 1 /\ walBytes' = IF waiting = 1 THEN 0 ELSE walBytes

RetryAccepted ==
    /\ Otelfwd /\ waiting > 0 /\ Happens
    /\ Replayed /\ Count("success") /\ Accepted
    /\ UNCHANGED <<program, now, keeping, connected, watching>>

RetryRejected ==
    /\ Otelfwd /\ waiting > 0 /\ Happens
    /\ Replayed /\ Count("rejected") /\ Rejected
    /\ UNCHANGED <<program, now, keeping, connected, watching>>

RetryFails ==
    /\ Otelfwd /\ waiting > 0 /\ Happens
    /\ Count("errors") /\ Failed
    /\ UNCHANGED <<program, now, waiting, walBytes, keeping, connected, watching>>

-----------------------------------------------------------------------------
(* What the sender of domfwd does *)

Disconnect ==
    /\ ~Otelfwd /\ connected /\ Happens
    /\ connected' = FALSE /\ truth' = [truth EXCEPT !.accepted = now, !.failed = now]
    /\ UNCHANGED <<program, now, counters, waiting, walBytes, keeping, watching>>

Connect ==
    /\ ~Otelfwd /\ ~connected /\ Happens
    /\ connected' = TRUE /\ Accepted
    /\ UNCHANGED <<program, now, counters, waiting, walBytes, keeping, watching>>

\* A line waits in the WAL, is moved out of it, is dropped, or is invalid
Line ==
    /\ ~Otelfwd /\ Happens
    /\ \/ HasRoom /\ waiting' = waiting + 1 /\ walBytes' = walBytes + 1 /\ UNCHANGED <<counters, truth>>
       \/ waiting > 0 /\ Replayed /\ UNCHANGED <<counters, truth>>
       \/ Count("refused") /\ truth' = [truth EXCEPT !.lost = now] /\ UNCHANGED <<waiting, walBytes>>
       \/ Count("rejected") /\ Rejected /\ UNCHANGED <<waiting, walBytes>>
    /\ UNCHANGED <<program, now, keeping, connected, watching>>

-----------------------------------------------------------------------------
(* UpdateHealth and the metrics *)

Input(unreachable) ==
    [unreachable |-> unreachable, walFailed |-> ~program.walOpened,
     walBytes |-> walBytes, walMax |-> program.walMax,
     dropped |-> counters.refused, rejected |-> counters.rejected]

Updated(accepted) ==
    truth' = [truth EXCEPT !.updated = now, !.acceptedSeen = accepted, !.lostSeen = truth.lost,
                           !.rejectedSeen = truth.rejected, !.walSeen = walBytes]

\* The counters are read one after the other: the accepted pushes first
ReadSuccess ==
    /\ Otelfwd /\ pc = "idle" /\ ~fresh
    /\ reading' = [reading EXCEPT !.success = counters.success, !.accepted = truth.accepted]
    /\ pc' = "errors"
    /\ UNCHANGED <<program, now, forwarding, monitor, known, fresh, truth>>

ReadErrors ==
    /\ pc = "errors"
    /\ reading' = [reading EXCEPT !.errors = counters.errors]
    /\ pc' = "update"
    /\ UNCHANGED <<program, now, forwarding, monitor, known, fresh, truth>>

\* MUTANT of Failing: one failure is a failure, whatever was accepted
FailingOnError ==
    IF reading.errors > known.errors THEN TRUE
    ELSE IF reading.success > known.success THEN FALSE ELSE known.failing

\* Without a push the last result stays, and one which was accepted ends the failure
Failing ==
    IF reading.success > known.success THEN FALSE
    ELSE IF reading.errors > known.errors THEN TRUE ELSE known.failing

UpdateHealth ==
    /\ pc = "update"
    /\ known' = [success |-> reading.success, errors |-> reading.errors, failing |-> Failing]
    /\ monitor' = Update(monitor, now, Input(Failing))
    /\ pc' = "idle" /\ fresh' = TRUE
    /\ reading' = [success |-> 0, errors |-> 0, accepted |-> 0]
    /\ Updated(reading.accepted)
    /\ UNCHANGED <<program, now, forwarding>>

\* domfwd: in its main loop, from the state of its sender
UpdateDomfwd ==
    /\ ~Otelfwd /\ ~fresh
    /\ monitor' = Update(monitor, now, Input(~connected))
    /\ fresh' = TRUE
    /\ Updated(IF connected THEN now ELSE truth.acceptedSeen)
    /\ UNCHANGED <<program, now, forwarding, known, reading, pc>>

Tick ==
    /\ fresh /\ now < MaxTime
    /\ now' = now + 1 /\ fresh' = FALSE
    /\ UNCHANGED <<program, forwarding, monitor, known, reading, pc, truth>>

MetricsThread == ReadSuccess \/ ReadErrors \/ UpdateHealth

HealthNext ==
    \/ PushAccepted \/ PushRejected \/ PushFails \/ Keep \/ Refuse
    \/ RetryAccepted \/ RetryRejected \/ RetryFails
    \/ Disconnect \/ Connect \/ Line
    \/ MetricsThread \/ UpdateDomfwd \/ Tick

-----------------------------------------------------------------------------
Updates == truth.updated # Never

\* Data which was lost is an error for ten minutes, data which was rejected at least a warning
\* (health.hpp:14-15), whatever came before and whatever else happens.
LossIsShown ==
    /\ truth.lostSeen # Never /\ truth.updated - truth.lostSeen <= LostWindow => monitor.state = ERROR
    /\ truth.rejectedSeen # Never /\ truth.updated - truth.rejectedSeen <= LostWindow => monitor.state >= WARNING

\* An outage of more than 15 minutes is a warning and one of more than 30 minutes an error
\* (health.hpp:12-13), also when there is nothing to push while it lasts; one update later than
\* it began, because the time of the update counts.
OutageIsShown ==
    Updates /\ truth.failed # Never =>
        /\ truth.updated - truth.failed > WarnDown + 1 => monitor.state >= WARNING
        /\ truth.updated - truth.failed > ErrorDown + 1 => monitor.state = ERROR

\* The alerts about what happened before are raised: data which was lost or rejected, and outages.
\* The rules about a WAL which fills or is not there look at the time of the update alone (State).
AlertIsRaised == LossIsShown /\ OutageIsShown

\* An alert has a reason (health.hpp:9-10): data which was lost or rejected lately, a WAL which
\* fills or is not there, or a receiver which has accepted nothing for 15 minutes.  A restart of
\* the receiver is none.
NoFalseAlarm ==
    Updates /\ monitor.state # OK =>
        \/ ~program.walOpened
        \/ truth.lostSeen # Never /\ truth.updated - truth.lostSeen <= LostWindow + 1
        \/ truth.rejectedSeen # Never /\ truth.updated - truth.rejectedSeen <= LostWindow + 1
        \/ truth.updated - truth.acceptedSeen > WarnDown
        \/ program.walMax > 0 /\ 100 * truth.walSeen >= WarnPercent * program.walMax
=============================================================================
