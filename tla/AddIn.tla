------------------------------- MODULE AddIn -------------------------------
(***************************************************************************)
(* The main loop and the shutdown of the Domino add-in domfwd: the events  *)
(* of the server come over an event queue, and so do the lines which the   *)
(* add-in logs itself.  The server posts such a line some time after it    *)
(* was logged.  When the queue is freed while one is on its way, the       *)
(* server complains about a queue which does not exist.                    *)
(*                                                                         *)
(* What happens to an event which was given to the sender is in            *)
(* DomfwdDurable.  In the drains of the shutdown time runs in steps of 50  *)
(* milliseconds; elsewhere no time is counted.                             *)
(***************************************************************************)
EXTENDS Naturals, Sequences, SequencesExt

CONSTANTS
    MaxPerIdle,   \* DOMFWD_MAX_EVENTS_PER_IDLE
    QuietSteps,   \* DOMFWD_SHUTDOWN_QUIET_MS, in steps
    MaxSteps,     \* DOMFWD_SHUTDOWN_MAX_MS, in steps
    MaxDrain,     \* the events one drain takes at most
    PostSteps,    \* the server: how long a line may be on its way, in steps
    ServerEvents, \* bound: the events of the server
    OldEvents,    \* those of them whose version is not the expected one
    MaxLogged     \* bound: the lines which the add-in logs before it shuts down

ASSUME AddInAssumption ==
    /\ MaxPerIdle \in Nat \ {0} /\ MaxDrain \in Nat \ {0} /\ MaxLogged \in Nat
    /\ {PostSteps, QuietSteps, MaxSteps} \subseteq Nat
    /\ PostSteps < QuietSteps /\ QuietSteps <= MaxSteps
    /\ OldEvents \subseteq ServerEvents

VARIABLES
    verbose,     \* g_wVerboseLevel > 0: every event is logged
    configured,  \* IsConfigured of the sender
    place,       \* where AddInMain is: idle, pump, events, drain1, flush, drain2, freed
    taken,       \* wDrainedCount, or Events of a drain
    quiet,       \* Quiet and Waited of a drain
    waited,
    eventQueue,  \* the event queue of the server
    onItsWay,    \* the lines of the add-in which are not posted yet: how many, for each time they wait
    logged,      \* bound: the lines logged so far
    sent,        \* history: the events which Send got
    unlocked,    \* history: the events which could not be locked, and are lost
    expected,    \* history: the events which were posted while the add-in listened
    cutOff       \* history: the drains which ended at a limit

addInVars == <<verbose, configured, place, taken, quiet, waited, eventQueue, onItsWay, logged,
               sent, unlocked, expected, cutOff>>

Own == "own"
ASSUME OwnAssumption == Own \notin ServerEvents

Listening == place \in {"idle", "pump", "events"}
Draining == place \in {"drain1", "drain2"}

AddInInit ==
    /\ verbose \in BOOLEAN /\ configured \in BOOLEAN
    /\ place = "idle" /\ taken = 0 /\ quiet = 0 /\ waited = 0
    /\ eventQueue = <<>>
    /\ onItsWay = [age \in 0..PostSteps |-> IF age = 0 THEN 1 ELSE 0]  \* the start is logged
    /\ logged = 0
    /\ sent = {} /\ unlocked = {} /\ expected = {} /\ cutOff = {}

\* AddInLogMessageText, which the server makes an event of
LogLines(n) == onItsWay' = [onItsWay EXCEPT ![0] = @ + n]
Silent == UNCHANGED <<onItsWay, logged>>

\* A line which is not logged at every time: the connection, the health, an error
LogLine == logged < MaxLogged /\ logged' = logged + 1 /\ LogLines(1)
MayLog == Silent \/ LogLine

-----------------------------------------------------------------------------
(* The server *)

PostEvent(e) ==
    /\ place # "freed"
    /\ e \notin ToSet(eventQueue) \cup expected \cup sent \cup unlocked
    /\ eventQueue' = Append(eventQueue, e)
    /\ expected' = IF Listening THEN expected \cup {e} ELSE expected
    /\ UNCHANGED <<verbose, configured, place, taken, quiet, waited, onItsWay, logged, sent, unlocked, cutOff>>

\* A line of the add-in arrives; the lines may overtake each other
PostLine(age) ==
    /\ place # "freed" /\ onItsWay[age] > 0
    /\ onItsWay' = [onItsWay EXCEPT ![age] = @ - 1]
    /\ eventQueue' = Append(eventQueue, Own)
    /\ UNCHANGED <<verbose, configured, place, taken, quiet, waited, logged, sent, unlocked, expected, cutOff>>

Server == (\E e \in ServerEvents : PostEvent(e)) \/ (\E age \in 0..PostSteps : PostLine(age))

-----------------------------------------------------------------------------
(* ProcessEventData, with EventQueueGetExt before it *)

\* An own event is skipped before it is logged; SendEventToSocket sends nothing once the sender is closed
ProcessEventData ==
    LET e == Head(eventQueue)
    IN  /\ eventQueue' = Tail(eventQueue)
        /\ sent' = IF e # Own /\ e \notin OldEvents /\ configured THEN sent \cup {e} ELSE sent
        /\ IF e # Own /\ verbose THEN LogLines(1) /\ UNCHANGED logged
           ELSE IF e # Own /\ configured THEN MayLog ELSE Silent
        /\ UNCHANGED unlocked

\* The memory of the event cannot be locked: it is freed before anyone looked at it
EventIsLost ==
    /\ eventQueue' = Tail(eventQueue)
    /\ unlocked' = unlocked \cup ({Head(eventQueue)} \ {Own})
    /\ UNCHANGED sent

-----------------------------------------------------------------------------
(* AddInMain *)

\* MUTANT of StartCycle: the count is not reset for each idle cycle
StartCycleCounting ==
    /\ place = "idle"
    /\ place' = "pump" /\ taken' = taken /\ MayLog
    /\ UNCHANGED <<verbose, configured, quiet, waited, eventQueue, sent, unlocked, expected, cutOff>>

\* AddInIdle says to go on; the health may be logged
StartCycle ==
    /\ place = "idle"
    /\ place' = "pump" /\ taken' = 0 /\ MayLog
    /\ UNCHANGED <<verbose, configured, quiet, waited, eventQueue, sent, unlocked, expected, cutOff>>

Pump ==
    /\ place = "pump"
    /\ place' = "events" /\ IF configured THEN MayLog ELSE Silent
    /\ UNCHANGED <<verbose, configured, taken, quiet, waited, eventQueue, sent, unlocked, expected, cutOff>>

GetEvent ==
    /\ place = "events" /\ taken < MaxPerIdle /\ eventQueue # <<>>
    /\ taken' = taken + 1
    /\ \/ ProcessEventData
       \/ EventIsLost /\ LogLine
    /\ UNCHANGED <<verbose, configured, place, quiet, waited, expected, cutOff>>

EndCycle ==
    /\ place = "events" /\ (taken = MaxPerIdle \/ eventQueue = <<>>)
    /\ place' = "idle"
    /\ UNCHANGED <<verbose, configured, taken, quiet, waited, eventQueue, onItsWay, logged, sent, unlocked, expected, cutOff>>

\* EventQueueGetExt fails with something else than an empty queue
GetFails ==
    /\ place = "events" /\ taken < MaxPerIdle
    /\ LogLine /\ place' = "idle"
    /\ UNCHANGED <<verbose, configured, taken, quiet, waited, eventQueue, sent, unlocked, expected, cutOff>>

NewDrain == taken' = 0 /\ quiet' = 0 /\ waited' = 0

\* AddInIdle says to end
Quit ==
    /\ place = "idle"
    /\ place' = "drain1" /\ NewDrain /\ LogLines(1)
    /\ UNCHANGED <<verbose, configured, eventQueue, logged, sent, unlocked, expected, cutOff>>

DrainGoesOn == quiet < QuietSteps /\ waited < MaxSteps /\ taken < MaxDrain

DrainEvent ==
    /\ Draining /\ DrainGoesOn /\ eventQueue # <<>>
    /\ taken' = taken + 1 /\ quiet' = 0
    /\ \/ ProcessEventData
       \/ EventIsLost /\ Silent
    /\ UNCHANGED <<verbose, configured, place, waited, expected, cutOff>>

\* A step of time passes, unless the server has a line to post which waits for too long
DrainWaits ==
    /\ Draining /\ DrainGoesOn /\ eventQueue = <<>>
    /\ onItsWay[PostSteps] = 0
    /\ onItsWay' = [age \in 0..PostSteps |-> IF age = 0 THEN 0 ELSE onItsWay[age - 1]]
    /\ quiet' = quiet + 1 /\ waited' = waited + 1
    /\ UNCHANGED <<verbose, configured, place, taken, eventQueue, logged, sent, unlocked, expected, cutOff>>

Limit ==
    IF quiet >= QuietSteps THEN {}
    ELSE {<<place, IF waited >= MaxSteps THEN "time" ELSE "events">>}

DrainEnds ==
    /\ Draining /\ ~DrainGoesOn
    /\ place' = IF place = "drain1" THEN "flush" ELSE "freed"
    /\ cutOff' = cutOff \cup Limit /\ NewDrain
    /\ UNCHANGED <<verbose, configured, eventQueue, onItsWay, logged, sent, unlocked, expected>>

\* The statistics, before them what could not be delivered and what waits in the WAL, and before
\* all of them the connections which Flush opens and loses
LogShutdown ==
    \E few \in 1..3, more \in 0..(MaxLogged - logged) :
        LogLines(few + more) /\ logged' = logged + more

\* MUTANT of ShutdownSocket: the queue goes away without a second drain
ShutdownSocketAndFree ==
    /\ place = "flush"
    /\ IF configured THEN LogShutdown ELSE Silent
    /\ configured' = FALSE
    /\ place' = "freed"
    /\ UNCHANGED <<verbose, taken, quiet, waited, eventQueue, sent, unlocked, expected, cutOff>>

\* The statistics are the last line
ShutdownSocket ==
    /\ place = "flush"
    /\ IF configured THEN LogShutdown ELSE Silent
    /\ configured' = FALSE
    /\ place' = "drain2"
    /\ UNCHANGED <<verbose, taken, quiet, waited, eventQueue, sent, unlocked, expected, cutOff>>

AddInMain ==
    \/ StartCycle \/ Pump \/ GetEvent \/ EndCycle \/ GetFails \/ Quit
    \/ DrainEvent \/ DrainWaits \/ DrainEnds \/ ShutdownSocket

AddInNext == AddInMain \/ Server

\* The server calls the add-in again and again, and posts what was logged
AddInFairness == WF_addInVars(AddInMain) /\ WF_addInVars(\E age \in 0..PostSteps : PostLine(age))

-----------------------------------------------------------------------------
\* Whether the drain of that name ended because it had taken MaxDrain events
Capped(drain) == <<drain, "events">> \in cutOff

\* No line of the add-in finds the event queue gone (domfwd.cpp:1724-1727), and none stays in it:
\* also not one which was logged in the shutdown, whatever the server posts meanwhile.  Exempt are
\* a drain which ends because it took 10000 events, and, when every event is logged, a drain which
\* ends because of its time and has just logged one.
OwnLinesAreTaken ==
    place = "freed" =>
        \/ (\A age \in 0..PostSteps : onItsWay[age] = 0) /\ Own \notin ToSet(eventQueue)
        \/ Capped("drain1") \/ Capped("drain2")
        \/ verbose /\ <<"drain2", "time">> \in cutOff

\* An event which was posted while the add-in listened is given to the sender, also when it is
\* posted right before the shutdown (domfwd.cpp:1962), however many events and own lines come.
\* Exempt is one whose memory could not be locked, of which nothing was read.
EventsAreForwarded ==
    \A e \in ServerEvents \ OldEvents :
        (configured /\ e \in expected) ~> (e \in sent \cup unlocked \/ Capped("drain1"))
=============================================================================
