-------------------------- MODULE Operation_proofs --------------------------
(***************************************************************************)
(* The add-in takes its own lines, and an alert is raised and has a        *)
(* reason: for any limits, times and events.                               *)
(***************************************************************************)
EXTENDS Operation, TLAPS

-----------------------------------------------------------------------------
(* The add-in *)

NoneOnItsWay == \A age \in 0..PostSteps : onItsWay[age] = 0
NoneInQueue == Own \notin ToSet(eventQueue)

\* After so many quiet steps of time, no younger line is on its way, and no line is left when
\* the server takes no longer for any
Quieted(steps) ==
    /\ \A age \in 0..PostSteps : onItsWay[age] > 0 => age >= steps
    /\ steps > PostSteps => NoneInQueue

\* The inductive invariant: the second drain logs nothing when no event is logged, and an event
\* which is logged begins the quiet time again
AddInv ==
    /\ onItsWay \in [0..PostSteps -> Nat] /\ eventQueue \in Seq(ServerEvents \cup {Own})
    /\ quiet \in Nat /\ waited \in Nat /\ verbose \in BOOLEAN
    /\ place = "flush" => quiet = 0 /\ waited = 0
    /\ place = "drain2" => /\ ~configured
                           /\ Quieted(quiet)
                           /\ ~verbose => Quieted(waited)
    /\ OwnLinesAreTaken

\* The elements of a sequence which grows, or loses its first element.
LEMMA Elements ==
    ASSUME NEW S, NEW s \in Seq(S), NEW e \in S
    PROVE  /\ Append(s, e) \in Seq(S) /\ ToSet(Append(s, e)) = ToSet(s) \cup {e}
           /\ s # << >> => Tail(s) \in Seq(S) /\ Head(s) \in S /\ ToSet(Tail(s)) \subseteq ToSet(s)
<1>1. /\ Append(s, e) \in Seq(S) /\ DOMAIN Append(s, e) = 1..(Len(s) + 1)
      /\ DOMAIN s = 1..Len(s) /\ Len(s) \in Nat
      /\ \A i \in 1..Len(s) : Append(s, e)[i] = s[i]
      /\ Append(s, e)[Len(s) + 1] = e
    OBVIOUS
<1>2. ToSet(Append(s, e)) \subseteq ToSet(s) \cup {e}
    BY <1>1 DEF ToSet
<1>3. ToSet(s) \cup {e} \subseteq ToSet(Append(s, e))
    BY <1>1 DEF ToSet
<1>4. ASSUME s # << >> PROVE Tail(s) \in Seq(S) /\ Head(s) \in S /\ ToSet(Tail(s)) \subseteq ToSet(s)
    <2>1. /\ Tail(s) \in Seq(S) /\ Head(s) \in S
          /\ DOMAIN Tail(s) = 1..(Len(s) - 1) /\ \A i \in 1..(Len(s) - 1) : Tail(s)[i] = s[i + 1]
        BY <1>4
    <2> QED
        BY <1>1, <2>1 DEF ToSet
<1> QED
    BY <1>1, <1>2, <1>3, <1>4

LEMMA AddInvInit == AddInInit => AddInv
BY AddInAssumption DEF AddInInit, AddInv, OwnLinesAreTaken

\* Lines which are logged are the youngest.
LEMMA LinesAreYoung ==
    ASSUME AddInv, MayLog \/ Silent \/ (\E n \in Nat : LogLines(n))
    PROVE  /\ onItsWay' \in [0..PostSteps -> Nat]
           /\ \A age \in 0..PostSteps : age > 0 => onItsWay'[age] = onItsWay[age]
<1>1. onItsWay \in [0..PostSteps -> Nat] /\ PostSteps \in Nat
    BY AddInAssumption DEF AddInv
<1>2. CASE MayLog \/ Silent
    BY <1>1, <1>2 DEF MayLog, LogLine, Silent, LogLines
<1>3. ASSUME NEW n \in Nat, LogLines(n)
      PROVE  /\ onItsWay' \in [0..PostSteps -> Nat]
             /\ \A age \in 0..PostSteps : age > 0 => onItsWay'[age] = onItsWay[age]
    BY <1>1, <1>3 DEF LogLines
<1> QED
    BY <1>2, <1>3

\* An event of the queue is taken: only a line of the add-in, which is new, can be on its way now.
LEMMA EventIsTaken ==
    ASSUME AddInv, eventQueue # << >>,
           ProcessEventData \/ (EventIsLost /\ (LogLine \/ Silent))
    PROVE  /\ eventQueue' \in Seq(ServerEvents \cup {Own}) /\ (NoneInQueue => NoneInQueue')
           /\ onItsWay' \in [0..PostSteps -> Nat]
           /\ \A age \in 0..PostSteps : age > 0 => onItsWay'[age] = onItsWay[age]
<1>1. eventQueue' = Tail(eventQueue)
    BY DEF ProcessEventData, EventIsLost
<1>2. eventQueue' \in Seq(ServerEvents \cup {Own}) /\ (NoneInQueue => NoneInQueue')
    BY <1>1, Elements DEF AddInv, NoneInQueue
<1>3. MayLog \/ Silent \/ LogLines(1)
    BY DEF ProcessEventData, MayLog
<1>4. /\ onItsWay' \in [0..PostSteps -> Nat]
      /\ \A age \in 0..PostSteps : age > 0 => onItsWay'[age] = onItsWay[age]
    BY <1>3, LinesAreYoung
<1> QED
    BY <1>2, <1>4

LEMMA ServerKeeps ==
    ASSUME AddInv, Server
    PROVE  AddInv'
<1>1. ASSUME NEW e \in ServerEvents, PostEvent(e) PROVE AddInv'
    <2>1. eventQueue' \in Seq(ServerEvents \cup {Own}) /\ (NoneInQueue => NoneInQueue')
        BY <1>1, Elements, OwnAssumption DEF PostEvent, AddInv, NoneInQueue
    <2> QED
        BY <1>1, <2>1 DEF PostEvent, AddInv, Quieted, OwnLinesAreTaken
<1>2. ASSUME NEW age \in 0..PostSteps, PostLine(age) PROVE AddInv'
    <2>1. eventQueue' \in Seq(ServerEvents \cup {Own})
        BY <1>2, Elements DEF PostLine, AddInv
    <2>2. /\ onItsWay' \in [0..PostSteps -> Nat] /\ onItsWay[age] > 0
          /\ \A a \in 0..PostSteps : onItsWay'[a] > 0 => onItsWay[a] > 0
        BY <1>2 DEF PostLine, AddInv
    <2>3. \A steps \in Nat : Quieted(steps) => ~(steps > PostSteps)
        BY <2>2, AddInAssumption DEF Quieted
    <2> QED
        BY <1>2, <2>1, <2>2, <2>3 DEF PostLine, AddInv, Quieted, OwnLinesAreTaken
<1> QED
    BY <1>1, <1>2 DEF Server

\* The drains.
LEMMA DrainKeeps ==
    ASSUME AddInv, DrainEvent \/ DrainWaits \/ DrainEnds
    PROVE  AddInv'
<1>1. ASSUME DrainEvent PROVE AddInv'
    <2>0. Quieted(0)'
        BY AddInAssumption DEF Quieted
    <2>1. /\ eventQueue' \in Seq(ServerEvents \cup {Own}) /\ (NoneInQueue => NoneInQueue')
          /\ onItsWay' \in [0..PostSteps -> Nat]
        <3>1. eventQueue # << >> /\ (ProcessEventData \/ (EventIsLost /\ (LogLine \/ Silent)))
            BY <1>1 DEF DrainEvent
        <3> QED
            BY <3>1, EventIsTaken
    <2>6. ~verbose /\ ~configured => onItsWay' = onItsWay
        BY <1>1 DEF DrainEvent, ProcessEventData, Silent
    <2>2. /\ UNCHANGED <<verbose, configured, place, waited, cutOff>> /\ quiet' = 0
          /\ place \in {"drain1", "drain2"}
        BY <1>1 DEF DrainEvent, Draining
    <2>3. onItsWay' \in [0..PostSteps -> Nat] => Quieted(0)'
        BY AddInAssumption DEF Quieted
    <2>4. Quieted(quiet)'
        BY <2>1, <2>2, <2>3 DEF Quieted
    <2>5. place = "drain2" /\ ~verbose => Quieted(waited)'
        BY <2>1, <2>2, <2>6 DEF AddInv, Quieted
    <2> QED
        BY <2>1, <2>2, <2>4, <2>5 DEF AddInv, OwnLinesAreTaken
<1>2. ASSUME DrainWaits PROVE AddInv'
    <2>1. /\ onItsWay' = [age \in 0..PostSteps |-> IF age = 0 THEN 0 ELSE onItsWay[age - 1]]
          /\ onItsWay[PostSteps] = 0 /\ eventQueue = << >>
          /\ UNCHANGED <<verbose, configured, place, eventQueue, cutOff>>
          /\ quiet' = quiet + 1 /\ waited' = waited + 1
          /\ place \in {"drain1", "drain2"}
        BY <1>2 DEF DrainWaits, Draining
    <2>2. onItsWay' \in [0..PostSteps -> Nat]
        BY <2>1, AddInAssumption DEF AddInv
    <2>3. NoneInQueue'
        BY <2>1 DEF NoneInQueue, ToSet
    <2>4. ASSUME NEW steps \in Nat, Quieted(steps) PROVE Quieted(steps + 1)'
        <3>1. \A age \in 0..PostSteps : onItsWay'[age] > 0 => age >= steps + 1
            BY <2>1, <2>4, AddInAssumption DEF Quieted, AddInv
        <3> QED
            BY <2>3, <3>1 DEF Quieted
    <2>5. place = "drain2" => Quieted(quiet)' /\ (~verbose => Quieted(waited)')
        BY <2>1, <2>4 DEF AddInv, Quieted
    <2> QED
        BY <2>1, <2>2, <2>5 DEF AddInv, OwnLinesAreTaken
<1>3. ASSUME DrainEnds PROVE AddInv'
    <2>1. /\ UNCHANGED <<verbose, configured, eventQueue, onItsWay>>
          /\ quiet' = 0 /\ waited' = 0 /\ cutOff' = cutOff \cup Limit
          /\ ~DrainGoesOn
        BY <1>3 DEF DrainEnds, NewDrain
    <2>2. CASE place = "drain1"
        BY <1>3, <2>1, <2>2 DEF DrainEnds, AddInv, OwnLinesAreTaken
    <2>3. CASE place = "drain2"
        <3>1. place' = "freed"
            BY <1>3, <2>3 DEF DrainEnds
        <3>2. ASSUME NEW steps \in Nat, Quieted(steps), steps > PostSteps PROVE NoneOnItsWay /\ NoneInQueue
            BY <3>2, AddInAssumption DEF Quieted, NoneOnItsWay, AddInv
        <3>3. \/ NoneOnItsWay /\ NoneInQueue
              \/ <<"drain2", "events">> \in cutOff'
              \/ verbose /\ <<"drain2", "time">> \in cutOff'
            <4>1. CASE quiet >= QuietSteps
                BY <2>3, <3>2, <4>1, AddInAssumption DEF AddInv
            <4>2. CASE ~(quiet >= QuietSteps) /\ waited >= MaxSteps
                <5>1. <<"drain2", "time">> \in cutOff'
                    BY <2>1, <2>3, <4>2 DEF Limit
                <5>2. CASE ~verbose
                    BY <2>3, <3>2, <4>2, <5>2, AddInAssumption DEF AddInv
                <5> QED
                    BY <5>1, <5>2 DEF AddInv
            <4>3. CASE ~(quiet >= QuietSteps) /\ ~(waited >= MaxSteps)
                BY <2>1, <2>3, <4>3 DEF Limit
            <4> QED
                BY <4>1, <4>2, <4>3
        <3> QED
            BY <2>1, <3>1, <3>3 DEF AddInv, OwnLinesAreTaken, Capped, NoneOnItsWay, NoneInQueue
    <2> QED
        BY <1>3, <2>2, <2>3 DEF DrainEnds, Draining
<1> QED
    BY <1>1, <1>2, <1>3

LEMMA AddInStep == AddInv /\ [AddInNext]_addInVars => AddInv'
<1> SUFFICES ASSUME AddInv, [AddInNext]_addInVars PROVE AddInv'
    OBVIOUS
<1>1. CASE Server
    BY <1>1, ServerKeeps
<1>2. ASSUME DrainEvent \/ DrainWaits \/ DrainEnds PROVE AddInv'
    BY <1>2, DrainKeeps
<1>3. ASSUME place \notin {"drain1", "drain2", "flush", "freed"}, place' \notin {"drain2", "flush", "freed"},
             UNCHANGED verbose, quiet' \in Nat, waited' \in Nat,
             onItsWay' \in [0..PostSteps -> Nat], eventQueue' \in Seq(ServerEvents \cup {Own})
      PROVE  AddInv'
    BY <1>3 DEF AddInv, OwnLinesAreTaken
<1>4. ASSUME StartCycle \/ Pump \/ EndCycle \/ GetFails \/ Quit PROVE AddInv'
    <2>1. MayLog \/ Silent \/ LogLines(1)
        BY <1>4 DEF StartCycle, Pump, EndCycle, GetFails, Quit, Silent, MayLog, LogLine
    <2>2. onItsWay' \in [0..PostSteps -> Nat]
        BY <2>1, LinesAreYoung
    <2> QED
        BY <1>3, <1>4, <2>2 DEF StartCycle, Pump, EndCycle, GetFails, Quit, NewDrain, AddInv
<1>5. ASSUME GetEvent PROVE AddInv'
    <2>1. eventQueue # << >> /\ (ProcessEventData \/ (EventIsLost /\ (LogLine \/ Silent)))
        BY <1>5 DEF GetEvent
    <2>2. onItsWay' \in [0..PostSteps -> Nat] /\ eventQueue' \in Seq(ServerEvents \cup {Own})
        BY <2>1, EventIsTaken
    <2> QED
        BY <1>3, <1>5, <2>2 DEF GetEvent, AddInv
<1>6. ASSUME ShutdownSocket PROVE AddInv'
    <2>1. Silent \/ (\E n \in Nat : LogLines(n))
        <3>1. CASE LogShutdown
            BY <3>1 DEF LogShutdown
        <3> QED
            BY <1>6, <3>1 DEF ShutdownSocket
    <2>2. onItsWay' \in [0..PostSteps -> Nat]
        BY <2>1, LinesAreYoung DEF AddInv
    <2>3. Quieted(0)'
        BY <2>2, AddInAssumption DEF Quieted
    <2> QED
        BY <1>6, <2>2, <2>3 DEF ShutdownSocket, AddInv, Quieted, OwnLinesAreTaken
<1>7. CASE UNCHANGED addInVars
    BY <1>7 DEF addInVars, AddInv, Quieted, NoneInQueue, OwnLinesAreTaken, Capped
<1> QED
    BY <1>1, <1>2, <1>4, <1>5, <1>6, <1>7 DEF AddInNext, AddInMain

\* No line of the add-in finds the event queue gone, however many lines are logged and however late the
\* server posts them within PostSteps (domfwd.cpp:1724-1727), up to the limits of the drains.
THEOREM OwnLinesAreTakenHolds == Spec => []OwnLinesAreTaken
<1>1. Init => AddInv
    BY AddInvInit DEF Init
<1>2. AddInv /\ [Next]_operationVars => AddInv'
    BY AddInStep DEF Next, operationVars
<1>3. AddInv => OwnLinesAreTaken
    BY DEF AddInv
<1> QED
    BY <1>1, <1>2, <1>3, PTL DEF Spec

-----------------------------------------------------------------------------
(* The health *)

HealthFlags == fresh \in BOOLEAN /\ connected \in BOOLEAN /\ pc \in {"idle", "errors", "update"}

TruthTypes == [accepted : Nat, failed : Nat, lost : Nat, rejected : Nat, updated : Nat,
               acceptedSeen : Nat, lostSeen : Nat, rejectedSeen : Nat, walSeen : Int]

HealthTypes ==
    /\ counters \in [success : Nat, errors : Nat, refused : Nat, rejected : Nat]
    /\ known \in [success : Nat, errors : Nat, failing : BOOLEAN]
    /\ reading \in [success : Nat, errors : Nat, accepted : Nat]
    /\ monitor \in [state : OK..ERROR, unreachableSince : Nat, lastDroppedAt : Nat, lastRejectedAt : Nat,
                    dropped : Nat, rejected : Nat]
    /\ truth \in TruthTypes
    /\ waiting \in Int /\ walBytes \in Int
    /\ now \in Nat /\ now >= 1
    /\ HealthFlags

\* The counters of the monitor follow those of the program, and a time is kept for what it has seen
LossSeen ==
    /\ truth.lost <= now /\ truth.rejected <= now
    /\ monitor.dropped <= counters.refused /\ monitor.rejected <= counters.rejected
    /\ monitor.dropped = counters.refused => truth.lost = truth.lostSeen
    /\ monitor.rejected = counters.rejected => truth.rejected = truth.rejectedSeen
    /\ truth.lostSeen <= monitor.lastDroppedAt
    /\ truth.rejectedSeen <= monitor.lastRejectedAt

\* There is one update in a step of the time, and nothing has a time which has not come
InStep ==
    /\ pc # "idle" => ~fresh
    /\ ~Otelfwd => pc = "idle"
    /\ truth.accepted <= now /\ truth.failed <= now /\ truth.updated <= now
    /\ monitor.unreachableSince <= now

\* What the update of otelfwd has not seen yet is not older than the update before
CountersSeen ==
    /\ known.success <= counters.success /\ known.errors <= counters.errors
    /\ counters.success # known.success => truth.accepted >= now - 1 /\ (fresh => truth.accepted >= now)
    /\ pc # "idle" => /\ known.success <= reading.success /\ reading.success <= counters.success
                      /\ reading.success # counters.success => truth.accepted >= now
    /\ pc = "update" => known.errors <= reading.errors /\ reading.errors <= counters.errors
    /\ known.failing <=> monitor.unreachableSince # 0

\* An outage is seen by the update of the next step of time at the latest
OutageOfPushes ==
    truth.failed # Never =>
        /\ counters.success = known.success
        /\ pc # "idle" => reading.success = counters.success
        /\ known.failing \/ counters.errors > known.errors
        /\ ~known.failing => /\ now <= truth.failed + 1
                             /\ fresh => now = truth.failed
                             /\ pc = "update" /\ now = truth.failed + 1 => reading.errors > known.errors
        /\ known.failing => monitor.unreachableSince <= truth.failed + 1

\* The same for domfwd
OutageOfSender ==
    /\ connected => truth.failed = Never
    /\ ~connected =>
        /\ truth.failed # Never
        /\ monitor.unreachableSince # 0 => monitor.unreachableSince <= truth.failed + 1
        /\ monitor.unreachableSince = 0 => now <= truth.failed + 1 /\ (fresh => now = truth.failed)

\* The inductive invariant
HealthInv ==
    /\ HealthTypes /\ LossSeen /\ InStep
    /\ Otelfwd => CountersSeen /\ OutageOfPushes
    /\ ~Otelfwd => OutageOfSender
    /\ AlertIsRaised

USE HealthAssumption

\* The rules of the monitor.
LEMMA StateIs ==
    ASSUME NEW m, NEW t, NEW in
    PROVE  /\ State(m, t, in) \in OK..ERROR
           /\ Recent(m.lastDroppedAt, t) \/ DownFor(m, t, ErrorDown) => State(m, t, in) = ERROR
           /\ Recent(m.lastRejectedAt, t) \/ DownFor(m, t, WarnDown) => State(m, t, in) >= WARNING
BY DEF State, OK, WARNING, ERROR

LEMMA HealthInvInit == HealthInit => HealthInv
<1> SUFFICES ASSUME HealthInit PROVE HealthInv
    OBVIOUS
<1>1. HealthTypes
    <2>1. HealthFlags
        BY DEF HealthInit, HealthFlags
    <2>2. known \in [success : Nat, errors : Nat, failing : BOOLEAN]
        BY DEF HealthInit
    <2>3. /\ now = 1 /\ truth = [accepted |-> now, failed |-> 0, lost |-> 0, rejected |-> 0,
                               updated |-> 0, acceptedSeen |-> now, lostSeen |-> 0,
                               rejectedSeen |-> 0, walSeen |-> 0]
          /\ monitor = NewMonitor
          /\ counters = [success |-> 0, errors |-> 0, refused |-> 0, rejected |-> 0]
          /\ reading = [success |-> 0, errors |-> 0, accepted |-> 0] /\ waiting = 0 /\ walBytes = 0
        BY DEF HealthInit, Never
    <2> QED
        BY <2>1, <2>2, <2>3 DEF HealthTypes, TruthTypes, NewMonitor, OK, ERROR
<1>2. LossSeen /\ InStep /\ CountersSeen /\ OutageOfPushes /\ OutageOfSender
    BY DEF HealthInit, LossSeen, InStep, CountersSeen, OutageOfPushes, OutageOfSender, NewMonitor, Never
<1>3. AlertIsRaised
    BY DEF HealthInit, AlertIsRaised, LossIsShown, OutageIsShown, Updates, Never
<1> QED
    BY <1>1, <1>2, <1>3 DEF HealthInv

\* The receiver is reached, or an outage begins.
LEMMA TruthIs ==
    ASSUME truth \in TruthTypes, NEW at \in Nat, NEW failed \in Nat,
           truth' = [truth EXCEPT !.accepted = at, !.failed = failed]
    PROVE  /\ truth' \in TruthTypes
           /\ truth'.accepted = at /\ truth'.failed = failed
           /\ truth'.lost = truth.lost /\ truth'.rejected = truth.rejected
           /\ truth'.lostSeen = truth.lostSeen /\ truth'.rejectedSeen = truth.rejectedSeen
           /\ truth'.updated = truth.updated
BY DEF TruthTypes

watched == <<program, now, connected, watching>>

\* A request is accepted.
LEMMA AcceptedKeeps ==
    ASSUME HealthInv, Otelfwd, Count("success"), Accepted, UNCHANGED watched,
           waiting' \in Int, walBytes' \in Int
    PROVE  HealthInv'
<1> USE DEF HealthInv, Count, Accepted, watched, watching
<1>1. HealthTypes'
    <2>1. HealthFlags'
        BY DEF HealthTypes, HealthFlags
    <2>2. truth' \in TruthTypes
        BY TruthIs DEF HealthTypes, Never
    <2> QED
        BY <2>1, <2>2 DEF HealthTypes
<1>2. LossSeen' /\ InStep'
    BY DEF HealthTypes, TruthTypes, LossSeen, InStep, Otelfwd, Never
<1>3. CountersSeen' /\ OutageOfPushes'
    BY DEF HealthTypes, TruthTypes, CountersSeen, OutageOfPushes, InStep, Never
<1>4. AlertIsRaised'
    BY DEF HealthTypes, TruthTypes, AlertIsRaised, LossIsShown, OutageIsShown, Updates, Never
<1> QED
    BY <1>1, <1>2, <1>3, <1>4 DEF Otelfwd

\* A request or a line is rejected.
LEMMA RejectedKeeps ==
    ASSUME HealthInv, Count("rejected"), Rejected, UNCHANGED watched,
           waiting' \in Int, walBytes' \in Int
    PROVE  HealthInv'
<1> USE DEF HealthInv, Count, Rejected, watched, watching
<1>1. HealthTypes'
    <2>1. HealthFlags'
        BY DEF HealthTypes, TruthTypes, HealthFlags
    <2> QED
        BY <2>1 DEF HealthTypes, TruthTypes
<1>2. LossSeen' /\ InStep'
    BY DEF HealthTypes, TruthTypes, LossSeen, InStep, Otelfwd
<1>3. /\ Otelfwd => CountersSeen' /\ OutageOfPushes'
      /\ ~Otelfwd => OutageOfSender'
    BY DEF HealthTypes, TruthTypes, CountersSeen, OutageOfPushes, OutageOfSender
<1>4. AlertIsRaised'
    BY DEF HealthTypes, TruthTypes, AlertIsRaised, LossIsShown, OutageIsShown, Updates
<1> QED
    BY <1>1, <1>2, <1>3, <1>4 DEF Otelfwd

\* A request or a line is lost.
LEMMA LostKeeps ==
    ASSUME HealthInv, Count("refused"), truth' = [truth EXCEPT !.lost = now], UNCHANGED watched,
           waiting' \in Int, walBytes' \in Int
    PROVE  HealthInv'
<1> USE DEF HealthInv, Count, watched, watching
<1>1. HealthTypes'
    <2>1. HealthFlags'
        BY DEF HealthTypes, TruthTypes, HealthFlags
    <2> QED
        BY <2>1 DEF HealthTypes, TruthTypes
<1>2. LossSeen' /\ InStep'
    BY DEF HealthTypes, TruthTypes, LossSeen, InStep, Otelfwd
<1>3. /\ Otelfwd => CountersSeen' /\ OutageOfPushes'
      /\ ~Otelfwd => OutageOfSender'
    BY DEF HealthTypes, TruthTypes, CountersSeen, OutageOfPushes, OutageOfSender
<1>4. AlertIsRaised'
    BY DEF HealthTypes, TruthTypes, AlertIsRaised, LossIsShown, OutageIsShown, Updates
<1> QED
    BY <1>1, <1>2, <1>3, <1>4 DEF Otelfwd

\* A request fails: when the receiver accepted nothing for two steps of time, an outage begins,
\* and everything it accepted before was seen.
LEMMA FailedKeeps ==
    ASSUME HealthInv, Otelfwd, Count("errors"), Failed, UNCHANGED watched,
           waiting' \in Int, walBytes' \in Int
    PROVE  HealthInv'
<1> USE DEF HealthInv, Count, watched, watching
<1>0. /\ truth' = [truth EXCEPT !.failed = truth'.failed]
      /\ \/ truth'.failed = truth.failed
         \/ truth.failed = Never /\ now >= truth.accepted + 2 /\ truth'.failed = now
    BY DEF Failed, HealthTypes, TruthTypes
<1> HIDE DEF HealthInv
<1>1. HealthTypes'
    <2>1. HealthFlags'
        BY DEF HealthInv, HealthTypes, TruthTypes, HealthFlags
    <2> QED
        BY <1>0, <2>1 DEF HealthInv, HealthTypes, TruthTypes
<1>2. LossSeen' /\ InStep'
    BY <1>0 DEF HealthInv, HealthTypes, TruthTypes, LossSeen, InStep, Otelfwd
<1>3. CountersSeen'
    BY <1>0 DEF HealthInv, HealthTypes, TruthTypes, CountersSeen
<1>4. OutageOfPushes'
    <2>1. CASE truth'.failed = truth.failed
        BY <1>0, <2>1 DEF HealthInv, HealthTypes, TruthTypes, CountersSeen, OutageOfPushes
    <2>2. CASE truth.failed = Never /\ now >= truth.accepted + 2 /\ truth'.failed = now
        <3>1. /\ counters.success = known.success
              /\ pc # "idle" => reading.success = counters.success
            BY <2>2 DEF HealthInv, HealthTypes, TruthTypes, CountersSeen
        <3> QED
            BY <2>2, <3>1 DEF HealthInv, HealthTypes, TruthTypes, CountersSeen, OutageOfPushes, InStep
    <2> QED
        BY <1>0, <2>1, <2>2
<1>5. AlertIsRaised'
    BY <1>0 DEF HealthInv, HealthTypes, TruthTypes, InStep, AlertIsRaised, LossIsShown, OutageIsShown, Updates, Never
<1> QED
    BY <1>1, <1>2, <1>3, <1>4, <1>5 DEF HealthInv, Otelfwd

\* The connection of domfwd comes and goes.
LEMMA ConnectionKeeps ==
    ASSUME HealthInv, Connect \/ Disconnect
    PROVE  HealthInv'
<1>0. /\ UNCHANGED <<program, now, counters, waiting, walBytes, monitor, known, reading, pc, fresh>>
      /\ ~Otelfwd /\ connected' \in BOOLEAN /\ now \in Nat /\ truth \in TruthTypes
      /\ \/ connected' /\ truth' = [truth EXCEPT !.accepted = now, !.failed = 0]
         \/ connected /\ ~connected' /\ truth' = [truth EXCEPT !.accepted = now, !.failed = now]
    BY DEF Connect, Disconnect, Accepted, Never, watching, HealthInv, HealthTypes, TruthTypes
<1>1. /\ truth' \in TruthTypes
      /\ truth'.accepted = now
      /\ \/ connected' /\ truth'.failed = 0
         \/ connected /\ ~connected' /\ truth'.failed = now
      /\ truth'.lost = truth.lost /\ truth'.rejected = truth.rejected
      /\ truth'.lostSeen = truth.lostSeen /\ truth'.rejectedSeen = truth.rejectedSeen
      /\ truth'.updated = truth.updated
    <2>1. CASE connected' /\ truth' = [truth EXCEPT !.accepted = now, !.failed = 0]
        BY <1>0, <2>1, TruthIs
    <2>2. CASE connected /\ ~connected' /\ truth' = [truth EXCEPT !.accepted = now, !.failed = now]
        BY <1>0, <2>2, TruthIs
    <2> QED
        BY <1>0, <2>1, <2>2
<1>2. HealthTypes'
    <2>1. HealthFlags'
        BY <1>0 DEF HealthInv, HealthTypes, TruthTypes, HealthFlags
    <2> QED
        BY <1>0, <1>1, <2>1 DEF HealthInv, HealthTypes, TruthTypes
<1>3. LossSeen' /\ InStep'
    BY <1>0, <1>1 DEF HealthInv, HealthTypes, TruthTypes, LossSeen, InStep, Otelfwd
<1>4. OutageOfSender'
    BY <1>0, <1>1 DEF HealthInv, HealthTypes, TruthTypes, OutageOfSender, InStep, Never
<1>5. AlertIsRaised'
    BY <1>0, <1>1 DEF HealthInv, HealthTypes, TruthTypes, InStep, AlertIsRaised, LossIsShown, OutageIsShown, Updates, Never
<1> QED
    BY <1>0, <1>2, <1>3, <1>4, <1>5 DEF HealthInv, Otelfwd

\* The counters are read.
LEMMA ReadKeeps ==
    ASSUME HealthInv, ReadSuccess \/ ReadErrors
    PROVE  HealthInv'
<1>0. /\ UNCHANGED <<program, now, forwarding, monitor, known, fresh, truth>>
      /\ Otelfwd /\ ~fresh
      /\ \/ /\ pc = "idle" /\ pc' = "errors"
            /\ reading' = [reading EXCEPT !.success = counters.success, !.accepted = truth.accepted]
         \/ /\ pc = "errors" /\ pc' = "update"
            /\ reading' = [reading EXCEPT !.errors = counters.errors]
    BY DEF HealthInv, InStep, ReadSuccess, ReadErrors
<1>1. HealthTypes'
    <2>1. HealthFlags'
        BY <1>0 DEF HealthInv, HealthTypes, TruthTypes, HealthFlags, forwarding
    <2> QED
        BY <1>0, <2>1 DEF HealthInv, HealthTypes, TruthTypes, forwarding
<1>2. LossSeen' /\ InStep'
    BY <1>0 DEF HealthInv, HealthTypes, TruthTypes, LossSeen, InStep, Otelfwd, forwarding
<1>3. CountersSeen'
    <2>1. CASE pc = "idle" /\ pc' = "errors"
        <3>1. reading'.success = counters.success
            BY <1>0, <2>1 DEF HealthInv, HealthTypes
        <3> QED
            BY <1>0, <2>1, <3>1 DEF HealthInv, HealthTypes, TruthTypes, CountersSeen, forwarding
    <2>2. CASE pc = "errors" /\ pc' = "update"
        BY <1>0, <2>2 DEF HealthInv, HealthTypes, TruthTypes, CountersSeen, forwarding
    <2> QED
        BY <1>0, <2>1, <2>2
<1>4. OutageOfPushes'
    BY <1>0 DEF HealthInv, HealthTypes, TruthTypes, CountersSeen, OutageOfPushes, InStep, forwarding, Never
<1>5. AlertIsRaised'
    BY <1>0 DEF HealthInv, AlertIsRaised, LossIsShown, OutageIsShown, Updates
<1> QED
    BY <1>0, <1>1, <1>2, <1>3, <1>4, <1>5 DEF HealthInv, Otelfwd


LEMMA UpdateShows ==
    ASSUME HealthInv, NEW down \in BOOLEAN, NEW accepted \in Nat,
           monitor' = Update(monitor, now, Input(down)), Updated(accepted),
           UNCHANGED <<now, counters>>,
           down /\ truth.failed # Never =>
               IF monitor.unreachableSince = 0 THEN now <= truth.failed + 1
                                               ELSE monitor.unreachableSince <= truth.failed + 1,
           ~down /\ truth.failed # Never => now <= truth.failed + 1
    PROVE  /\ monitor' \in [state : OK..ERROR, unreachableSince : Nat, lastDroppedAt : Nat,
                            lastRejectedAt : Nat, dropped : Nat, rejected : Nat]
           /\ monitor'.unreachableSince = IF ~down THEN 0
                  ELSE IF monitor.unreachableSince = 0 THEN now ELSE monitor.unreachableSince
           /\ LossSeen' /\ AlertIsRaised'
<1> DEFINE in == Input(down)
           seen == Observe(monitor, now, in)
<1>1. in.unreachable = down /\ in.dropped = counters.refused /\ in.rejected = counters.rejected
    BY DEF Input
<1>2. /\ seen \in [state : OK..ERROR, unreachableSince : Nat, lastDroppedAt : Nat,
                   lastRejectedAt : Nat, dropped : Nat, rejected : Nat]
      /\ seen.unreachableSince = IF ~down THEN 0
             ELSE IF monitor.unreachableSince = 0 THEN now ELSE monitor.unreachableSince
      /\ seen.lastDroppedAt = IF counters.refused > monitor.dropped THEN now ELSE monitor.lastDroppedAt
      /\ seen.lastRejectedAt = IF counters.rejected > monitor.rejected THEN now ELSE monitor.lastRejectedAt
      /\ seen.dropped = counters.refused /\ seen.rejected = counters.rejected
    BY <1>1 DEF Observe, HealthInv, HealthTypes, TruthTypes
<1> HIDE DEF in, seen
<1>3. monitor' = [seen EXCEPT !.state = State(seen, now, in)]
    BY DEF Update, in, seen
<1>4. /\ monitor' \in [state : OK..ERROR, unreachableSince : Nat, lastDroppedAt : Nat,
                       lastRejectedAt : Nat, dropped : Nat, rejected : Nat]
      /\ monitor'.state = State(seen, now, in)
      /\ monitor'.unreachableSince = seen.unreachableSince
      /\ monitor'.lastDroppedAt = seen.lastDroppedAt /\ monitor'.lastRejectedAt = seen.lastRejectedAt
      /\ monitor'.dropped = seen.dropped /\ monitor'.rejected = seen.rejected
    BY <1>2, <1>3, StateIs
<1>5. /\ truth'.updated = now /\ truth'.lostSeen = truth.lost /\ truth'.rejectedSeen = truth.rejected
      /\ truth'.lost = truth.lost /\ truth'.rejected = truth.rejected /\ truth'.failed = truth.failed
    BY DEF Updated, HealthInv, HealthTypes, TruthTypes
<1>6. truth.lost <= seen.lastDroppedAt /\ truth.rejected <= seen.lastRejectedAt
    BY <1>2 DEF HealthInv, HealthTypes, TruthTypes, LossSeen
<1>7. LossSeen'
    BY <1>2, <1>4, <1>5, <1>6 DEF HealthInv, HealthTypes, TruthTypes, LossSeen
<1>8. LossIsShown'
    <2>1. truth.lost # Never /\ now - truth.lost <= LostWindow => Recent(seen.lastDroppedAt, now)
        BY <1>2, <1>6 DEF Recent, Never, HealthInv, HealthTypes, TruthTypes
    <2>2. truth.rejected # Never /\ now - truth.rejected <= LostWindow => Recent(seen.lastRejectedAt, now)
        BY <1>2, <1>6 DEF Recent, Never, HealthInv, HealthTypes, TruthTypes
    <2> QED
        BY <1>4, <1>5, <2>1, <2>2, StateIs DEF LossIsShown
<1>9. OutageIsShown'
    <2> SUFFICES ASSUME truth.failed # Never
                 PROVE  /\ now - truth.failed > WarnDown + 1 => State(seen, now, in) >= WARNING
                        /\ now - truth.failed > ErrorDown + 1 => State(seen, now, in) = ERROR
        BY <1>4, <1>5 DEF OutageIsShown
    <2>1. /\ now - truth.failed > WarnDown + 1 => DownFor(seen, now, WarnDown)
          /\ now - truth.failed > ErrorDown + 1 => DownFor(seen, now, ErrorDown)
        BY <1>2 DEF DownFor, HealthInv, HealthTypes, TruthTypes
    <2> QED
        BY <2>1, StateIs
<1> QED
    BY <1>2, <1>4, <1>7, <1>8, <1>9 DEF AlertIsRaised

LEMMA UpdateHealthKeeps ==
    ASSUME HealthInv, UpdateHealth
    PROVE  HealthInv'
<1>0. Otelfwd /\ pc = "update" /\ ~fresh
    BY DEF HealthInv, InStep, UpdateHealth
<1>1. /\ UNCHANGED <<program, now, counters, connected>> /\ pc' = "idle" /\ fresh' = TRUE
      /\ known' = [success |-> reading.success, errors |-> reading.errors, failing |-> Failing]
      /\ reading' = [success |-> 0, errors |-> 0, accepted |-> 0]
      /\ monitor' = Update(monitor, now, Input(Failing)) /\ Updated(reading.accepted)
    BY DEF UpdateHealth, forwarding
<1>2. Failing \in BOOLEAN
    BY DEF Failing, HealthInv, HealthTypes, TruthTypes
<1>3. truth.failed # Never =>
          /\ known.failing => Failing
          /\ ~Failing => now = truth.failed /\ counters.errors > reading.errors
    BY <1>0 DEF Failing, HealthInv, HealthTypes, TruthTypes, CountersSeen, OutageOfPushes, InStep
<1>4. truth.failed # Never =>
          /\ Failing => IF monitor.unreachableSince = 0 THEN now <= truth.failed + 1
                                                       ELSE monitor.unreachableSince <= truth.failed + 1
          /\ ~Failing => now <= truth.failed + 1
    BY <1>0, <1>3 DEF HealthInv, HealthTypes, TruthTypes, CountersSeen, OutageOfPushes
<1>5. /\ monitor' \in [state : OK..ERROR, unreachableSince : Nat, lastDroppedAt : Nat,
                       lastRejectedAt : Nat, dropped : Nat, rejected : Nat]
      /\ monitor'.unreachableSince = IF ~Failing THEN 0
             ELSE IF monitor.unreachableSince = 0 THEN now ELSE monitor.unreachableSince
      /\ LossSeen' /\ AlertIsRaised'
    BY <1>1, <1>2, <1>4, UpdateShows DEF HealthInv, HealthTypes, TruthTypes
<1>6. /\ truth' = [truth EXCEPT !.updated = now, !.acceptedSeen = reading.accepted, !.lostSeen = truth.lost,
                                !.rejectedSeen = truth.rejected, !.walSeen = walBytes]
    BY <1>1 DEF Updated
<1>7. HealthTypes'
    <2>1. HealthFlags'
        BY <1>1 DEF HealthInv, HealthTypes, TruthTypes, HealthFlags
    <2>2. known' \in [success : Nat, errors : Nat, failing : BOOLEAN]
        BY <1>1, <1>2 DEF HealthInv, HealthTypes, TruthTypes
    <2>3. UNCHANGED <<waiting, walBytes>>
        BY DEF UpdateHealth, forwarding
    <2> QED
        BY <1>1, <1>5, <1>6, <2>1, <2>2, <2>3 DEF HealthInv, HealthTypes, TruthTypes
<1>8. InStep'
    BY <1>0, <1>1, <1>5, <1>6 DEF HealthInv, HealthTypes, TruthTypes, InStep, Otelfwd
<1>9. CountersSeen'
    BY <1>0, <1>1, <1>2, <1>5, <1>6 DEF HealthInv, HealthTypes, TruthTypes, CountersSeen
<1>10. OutageOfPushes'
    BY <1>0, <1>1, <1>2, <1>3, <1>4, <1>5, <1>6 DEF HealthInv, HealthTypes, TruthTypes, CountersSeen, OutageOfPushes
<1> QED
    BY <1>0, <1>1, <1>5, <1>7, <1>8, <1>9, <1>10 DEF HealthInv, Otelfwd

LEMMA UpdateDomfwdKeeps ==
    ASSUME HealthInv, UpdateDomfwd
    PROVE  HealthInv'
<1> DEFINE seen == IF connected THEN now ELSE truth.acceptedSeen
<1>1. /\ UNCHANGED <<program, now, counters, connected, known, reading, pc>> /\ fresh' = TRUE /\ ~Otelfwd /\ ~fresh
      /\ monitor' = Update(monitor, now, Input(~connected)) /\ Updated(seen) /\ seen \in Nat
      /\ pc = "idle"
    BY DEF UpdateDomfwd, forwarding, HealthInv, HealthTypes, TruthTypes, InStep
<1>2. truth.failed # Never =>
          /\ ~connected => IF monitor.unreachableSince = 0 THEN now <= truth.failed + 1
                                                          ELSE monitor.unreachableSince <= truth.failed + 1
          /\ connected => now <= truth.failed + 1
    BY <1>1 DEF HealthInv, OutageOfSender
<1>3. /\ monitor' \in [state : OK..ERROR, unreachableSince : Nat, lastDroppedAt : Nat,
                       lastRejectedAt : Nat, dropped : Nat, rejected : Nat]
      /\ monitor'.unreachableSince = IF connected THEN 0
             ELSE IF monitor.unreachableSince = 0 THEN now ELSE monitor.unreachableSince
      /\ LossSeen' /\ AlertIsRaised'
    BY <1>1, <1>2, UpdateShows DEF HealthInv, HealthTypes, TruthTypes
<1>4. /\ truth' = [truth EXCEPT !.updated = now, !.acceptedSeen = seen, !.lostSeen = truth.lost,
                                !.rejectedSeen = truth.rejected, !.walSeen = walBytes]
    BY <1>1 DEF Updated
<1> HIDE DEF seen
<1>5. HealthTypes'
    <2>1. HealthFlags'
        BY <1>1 DEF HealthInv, HealthTypes, TruthTypes, HealthFlags
    <2>2. UNCHANGED <<waiting, walBytes>>
        BY DEF UpdateDomfwd, forwarding
    <2> QED
        BY <1>1, <1>3, <1>4, <2>1, <2>2 DEF HealthInv, HealthTypes, TruthTypes
<1>6. InStep'
    BY <1>1, <1>3, <1>4 DEF HealthInv, HealthTypes, TruthTypes, InStep, Otelfwd
<1>7. OutageOfSender'
    BY <1>1, <1>2, <1>3, <1>4 DEF HealthInv, HealthTypes, TruthTypes, OutageOfSender
<1> QED
    BY <1>1, <1>3, <1>5, <1>6, <1>7 DEF HealthInv, Otelfwd

\* The time goes on when an update has seen everything before.
LEMMA TickKeeps ==
    ASSUME HealthInv, Tick
    PROVE  HealthInv'
<1>1. /\ UNCHANGED <<program, forwarding, monitor, known, reading, pc, truth>>
      /\ fresh /\ now' = now + 1 /\ fresh' = FALSE /\ pc = "idle"
    BY DEF Tick, HealthInv, InStep
<1>2. HealthTypes'
    <2>1. HealthFlags'
        BY <1>1 DEF HealthInv, HealthTypes, TruthTypes, HealthFlags, forwarding
    <2> QED
        BY <1>1, <2>1 DEF HealthInv, HealthTypes, TruthTypes, forwarding
<1>3. LossSeen' /\ InStep'
    BY <1>1 DEF HealthInv, HealthTypes, TruthTypes, LossSeen, InStep, forwarding, Otelfwd
<1>4. Otelfwd => CountersSeen' /\ OutageOfPushes'
    BY <1>1 DEF HealthInv, HealthTypes, TruthTypes, CountersSeen, OutageOfPushes, InStep, forwarding
<1>5. ~Otelfwd => OutageOfSender'
    BY <1>1 DEF HealthInv, HealthTypes, TruthTypes, OutageOfSender, forwarding
<1>6. AlertIsRaised'
    BY <1>1 DEF HealthInv, AlertIsRaised, LossIsShown, OutageIsShown, Updates
<1> QED
    BY <1>1, <1>2, <1>3, <1>4, <1>5, <1>6 DEF HealthInv, Otelfwd

\* A record comes into the WAL or leaves it.
LEMMA RecordKeeps ==
    ASSUME HealthInv, waiting' \in Int, walBytes' \in Int, UNCHANGED <<counters, truth, watched>>
    PROVE  HealthInv'
<1>0. HealthFlags'
    BY DEF HealthInv, HealthTypes, TruthTypes, HealthFlags, watched, watching
<1>1. HealthTypes' /\ LossSeen' /\ InStep'
    BY <1>0 DEF HealthInv, HealthTypes, TruthTypes, LossSeen, InStep, watched, watching, Otelfwd
<1>2. CountersSeen = CountersSeen' /\ OutageOfPushes = OutageOfPushes' /\ OutageOfSender = OutageOfSender'
    BY DEF CountersSeen, OutageOfPushes, OutageOfSender, watched, watching
<1>3. AlertIsRaised'
    BY DEF HealthInv, AlertIsRaised, LossIsShown, OutageIsShown, Updates, watched, watching
<1> QED
    BY <1>1, <1>2, <1>3 DEF HealthInv, Otelfwd, watched

LEMMA ReplayedIsInt == HealthInv /\ Replayed => waiting' \in Int /\ walBytes' \in Int
BY DEF HealthInv, HealthTypes, TruthTypes, Replayed

LEMMA HealthStep == HealthInv /\ [HealthNext]_healthVars => HealthInv'
<1> SUFFICES ASSUME HealthInv, [HealthNext]_healthVars
             PROVE  HealthInv'
    OBVIOUS
<1>0. waiting \in Int /\ walBytes \in Int
    BY DEF HealthInv, HealthTypes, TruthTypes
<1>1. CASE PushAccepted \/ RetryAccepted
    BY <1>0, <1>1, AcceptedKeeps, ReplayedIsInt DEF PushAccepted, RetryAccepted, watched, watching
<1>2. CASE PushRejected \/ RetryRejected
    BY <1>0, <1>2, RejectedKeeps, ReplayedIsInt DEF PushRejected, RetryRejected, watched, watching
<1>3. CASE PushFails \/ RetryFails
    BY <1>0, <1>3, FailedKeeps DEF PushFails, RetryFails, watched, watching
<1>4. CASE Keep
    BY <1>0, <1>4, RecordKeeps DEF Keep, watched, watching
<1>5. CASE Refuse
    BY <1>0, <1>5, LostKeeps DEF Refuse, watched, watching
<1>6. CASE Connect \/ Disconnect
    BY <1>6, ConnectionKeeps
<1>7. CASE Line
    BY <1>0, <1>7, RecordKeeps, ReplayedIsInt, LostKeeps, RejectedKeeps DEF Line, watched, watching
<1>8. CASE MetricsThread
    BY <1>8, ReadKeeps, UpdateHealthKeeps DEF MetricsThread
<1>9. CASE UpdateDomfwd \/ Tick
    BY <1>9, UpdateDomfwdKeeps, TickKeeps
<1>10. CASE UNCHANGED healthVars
    BY <1>0, <1>10, RecordKeeps DEF healthVars, forwarding, watched, watching
<1> QED
    BY <1>1, <1>2, <1>3, <1>4, <1>5, <1>6, <1>7, <1>8, <1>9, <1>10 DEF HealthNext

\* In every state the last update has raised the alert which it had to: for data which was lost or
\* rejected, and for an outage, for any limits, programs and numbers of events (health.hpp:9-15).
THEOREM AlertIsRaisedHolds == Spec => []AlertIsRaised
<1>1. Init => HealthInv
    BY HealthInvInit DEF Init
<1>2. HealthInv /\ [Next]_operationVars => HealthInv'
    <2> SUFFICES ASSUME HealthInv, [Next]_operationVars
                 PROVE  HealthInv'
        OBVIOUS
    <2>1. [HealthNext]_healthVars
        BY DEF Next, operationVars
    <2> QED
        BY <2>1, HealthStep
<1>3. HealthInv => AlertIsRaised
    BY DEF HealthInv
<1> QED
    BY <1>1, <1>2, <1>3, PTL DEF Spec

-----------------------------------------------------------------------------
(* An alert has a reason *)

\* What the monitor has not seen yet is not older than the update before, and a time which it keeps
\* is at most that much later than what it stands for
LossTimes ==
    /\ counters.refused # monitor.dropped =>
           truth.lost # Never /\ now <= truth.lost + 1 /\ (fresh => now = truth.lost)
    /\ counters.rejected # monitor.rejected =>
           truth.rejected # Never /\ now <= truth.rejected + 1 /\ (fresh => now = truth.rejected)
    /\ monitor.lastDroppedAt # 0 => truth.lostSeen # Never /\ monitor.lastDroppedAt <= truth.lostSeen + 1
    /\ monitor.lastRejectedAt # 0 =>
           truth.rejectedSeen # Never /\ monitor.lastRejectedAt <= truth.rejectedSeen + 1

\* Where the counter of the accepted pushes was seen, the last of them was seen
AcceptedTimes ==
    /\ counters.success = known.success => truth.accepted = truth.acceptedSeen
    /\ pc # "idle" => /\ reading.accepted <= now
                      /\ reading.success = known.success => reading.accepted = truth.acceptedSeen
                      /\ reading.success = counters.success => reading.accepted = truth.accepted

\* Nothing was accepted since the receiver is not reached
ReachTimes ==
    /\ truth.acceptedSeen <= now
    /\ monitor.unreachableSince # 0 => truth.acceptedSeen <= monitor.unreachableSince

AlarmInv ==
    /\ program \in Programs
    /\ LossTimes /\ ReachTimes
    /\ Otelfwd => AcceptedTimes
    /\ NoFalseAlarm

\* A state which is not OK has a rule which applies.
LEMMA StateHasReason ==
    ASSUME NEW m, m.unreachableSince \in Nat, NEW t \in Nat, NEW in, in.walMax \in Nat, in.walBytes \in Int,
           State(m, t, in) # OK
    PROVE  \/ in.walFailed \/ Recent(m.lastDroppedAt, t) \/ Recent(m.lastRejectedAt, t)
           \/ DownFor(m, t, WarnDown) \/ FilledTo(in, WarnPercent)
<1>1. DownFor(m, t, ErrorDown) => DownFor(m, t, WarnDown)
    BY DEF DownFor
<1>2. FilledTo(in, ErrorPercent) => FilledTo(in, WarnPercent)
    BY DEF FilledTo, ErrorPercent, WarnPercent
<1> QED
    BY <1>1, <1>2 DEF State

LEMMA AlarmInvInit == HealthInit => AlarmInv
<1> SUFFICES ASSUME HealthInit PROVE AlarmInv
    OBVIOUS
<1>1. program \in Programs /\ LossTimes /\ ReachTimes /\ AcceptedTimes
    BY DEF HealthInit, LossTimes, ReachTimes, AcceptedTimes, NewMonitor, Never
<1>2. NoFalseAlarm
    BY DEF HealthInit, NoFalseAlarm, Updates, Never
<1> QED
    BY <1>1, <1>2 DEF AlarmInv

\* What the updates have left
seenTimes == <<truth.updated, truth.acceptedSeen, truth.lostSeen, truth.rejectedSeen, truth.walSeen>>

\* Between two updates an alert keeps its reason.
LEMMA ReasonStays ==
    ASSUME NoFalseAlarm, UNCHANGED <<program, monitor, seenTimes>>
    PROVE  NoFalseAlarm'
BY DEF NoFalseAlarm, Updates, seenTimes

\* The programs count, and the time of what they count is the present.
LEMMA CountKeepsAlarm ==
    ASSUME HealthInv, AlarmInv, UNCHANGED <<program, now, monitor, known, reading, pc, fresh, seenTimes>>,
           \/ Count("success") /\ Otelfwd /\ UNCHANGED <<truth.lost, truth.rejected>>
           \/ Count("errors") /\ UNCHANGED <<truth.lost, truth.rejected, truth.accepted>>
           \/ Count("refused") /\ truth'.lost = now /\ UNCHANGED <<truth.rejected, truth.accepted>>
           \/ Count("rejected") /\ truth'.rejected = now /\ UNCHANGED <<truth.lost, truth.accepted>>
           \/ UNCHANGED <<counters, truth.lost, truth.rejected>> /\ (Otelfwd => UNCHANGED truth.accepted)
    PROVE  AlarmInv'
<1>1. LossTimes'
    BY DEF HealthInv, HealthTypes, TruthTypes, AlarmInv, LossTimes, Count, seenTimes, Never
<1>2. ReachTimes'
    BY DEF AlarmInv, ReachTimes, seenTimes
<1>3. Otelfwd => AcceptedTimes'
    BY DEF HealthInv, HealthTypes, TruthTypes, CountersSeen, AlarmInv, AcceptedTimes, Count, seenTimes
<1> QED
    BY <1>1, <1>2, <1>3, ReasonStays DEF AlarmInv, Otelfwd

\* The counters are read.
LEMMA ReadKeepsAlarm ==
    ASSUME HealthInv, AlarmInv, ReadSuccess \/ ReadErrors
    PROVE  AlarmInv'
<1>1. /\ UNCHANGED <<program, now, counters, monitor, known, fresh, truth>> /\ pc' # "idle"
      /\ \/ /\ reading' = [reading EXCEPT !.success = counters.success, !.accepted = truth.accepted]
         \/ /\ pc # "idle" /\ reading' = [reading EXCEPT !.errors = counters.errors]
    BY DEF ReadSuccess, ReadErrors, forwarding
<1>2. \/ reading'.success = counters.success /\ reading'.accepted = truth.accepted
      \/ pc # "idle" /\ reading'.success = reading.success /\ reading'.accepted = reading.accepted
    BY <1>1 DEF HealthInv, HealthTypes
<1>3. LossTimes' /\ ReachTimes'
    BY <1>1 DEF AlarmInv, LossTimes, ReachTimes
<1>4. Otelfwd => AcceptedTimes'
    BY <1>1, <1>2 DEF HealthInv, InStep, AlarmInv, AcceptedTimes
<1> QED
    BY <1>1, <1>3, <1>4, ReasonStays DEF AlarmInv, Otelfwd, seenTimes

\* An update leaves an alert only for a reason which it has seen.
LEMMA UpdateHasReason ==
    ASSUME HealthInv, AlarmInv, NEW down \in BOOLEAN, NEW accepted \in Nat, accepted <= now,
           monitor' = Update(monitor, now, Input(down)), Updated(accepted), ~fresh,
           UNCHANGED <<program, now, counters>>,
           down /\ monitor.unreachableSince # 0 => accepted <= monitor.unreachableSince
    PROVE  program' \in Programs /\ LossTimes' /\ ReachTimes' /\ NoFalseAlarm'
<1> DEFINE in == Input(down)
           seen == Observe(monitor, now, in)
<1>1. /\ in.unreachable = down /\ in.dropped = counters.refused /\ in.rejected = counters.rejected
      /\ in.walFailed = ~program.walOpened /\ in.walBytes = walBytes /\ in.walMax = program.walMax
      /\ program.walMax \in Nat /\ walBytes \in Int
    BY ProgramsAssumption DEF Input, AlarmInv, HealthInv, HealthTypes
<1>2. /\ seen \in [state : OK..ERROR, unreachableSince : Nat, lastDroppedAt : Nat,
                   lastRejectedAt : Nat, dropped : Nat, rejected : Nat]
      /\ seen.unreachableSince = IF ~down THEN 0
             ELSE IF monitor.unreachableSince = 0 THEN now ELSE monitor.unreachableSince
      /\ seen.lastDroppedAt = IF counters.refused > monitor.dropped THEN now ELSE monitor.lastDroppedAt
      /\ seen.lastRejectedAt = IF counters.rejected > monitor.rejected THEN now ELSE monitor.lastRejectedAt
      /\ seen.dropped = counters.refused /\ seen.rejected = counters.rejected
    BY <1>1 DEF Observe, HealthInv, HealthTypes
<1> HIDE DEF in, seen
<1>3. monitor' = [seen EXCEPT !.state = State(seen, now, in)]
    BY DEF Update, in, seen
<1>4. /\ monitor'.state = State(seen, now, in)
      /\ monitor'.unreachableSince = seen.unreachableSince
      /\ monitor'.lastDroppedAt = seen.lastDroppedAt /\ monitor'.lastRejectedAt = seen.lastRejectedAt
      /\ monitor'.dropped = seen.dropped /\ monitor'.rejected = seen.rejected
    BY <1>2, <1>3
<1>5. /\ truth'.updated = now /\ truth'.lostSeen = truth.lost /\ truth'.rejectedSeen = truth.rejected
      /\ truth'.acceptedSeen = accepted /\ truth'.walSeen = walBytes
      /\ truth'.lost = truth.lost /\ truth'.rejected = truth.rejected
    BY DEF Updated, HealthInv, HealthTypes, TruthTypes
<1>6. /\ seen.lastDroppedAt # 0 => truth.lost # Never /\ seen.lastDroppedAt <= truth.lost + 1
      /\ seen.lastRejectedAt # 0 => truth.rejected # Never /\ seen.lastRejectedAt <= truth.rejected + 1
    BY <1>2 DEF HealthInv, HealthTypes, TruthTypes, LossSeen, AlarmInv, LossTimes
<1>7. seen.unreachableSince # 0 => accepted <= seen.unreachableSince
    BY <1>2
<1>8. LossTimes' /\ ReachTimes'
    BY <1>2, <1>4, <1>5, <1>6, <1>7 DEF LossTimes, ReachTimes
<1>9. NoFalseAlarm'
    <2> SUFFICES ASSUME State(seen, now, in) # OK
                 PROVE  \/ ~program.walOpened
                        \/ truth.lost # Never /\ now - truth.lost <= LostWindow + 1
                        \/ truth.rejected # Never /\ now - truth.rejected <= LostWindow + 1
                        \/ now - accepted > WarnDown
                        \/ program.walMax > 0 /\ 100 * walBytes >= WarnPercent * program.walMax
        BY <1>4, <1>5 DEF NoFalseAlarm
    <2>1. now \in Nat /\ truth.lost \in Nat /\ truth.rejected \in Nat
        BY DEF HealthInv, HealthTypes, TruthTypes
    <2>2. \/ in.walFailed \/ Recent(seen.lastDroppedAt, now) \/ Recent(seen.lastRejectedAt, now)
          \/ DownFor(seen, now, WarnDown) \/ FilledTo(in, WarnPercent)
        BY <1>1, <1>2, <2>1, StateHasReason
    <2>3. CASE in.walFailed
        BY <1>1, <2>3
    <2>4. CASE Recent(seen.lastDroppedAt, now)
        BY <1>2, <1>6, <2>1, <2>4 DEF Recent
    <2>5. CASE Recent(seen.lastRejectedAt, now)
        BY <1>2, <1>6, <2>1, <2>5 DEF Recent
    <2>6. CASE DownFor(seen, now, WarnDown)
        BY <1>2, <1>7, <2>1, <2>6 DEF DownFor
    <2>7. CASE FilledTo(in, WarnPercent)
        BY <1>1, <2>7 DEF FilledTo
    <2> QED
        BY <2>2, <2>3, <2>4, <2>5, <2>6, <2>7
<1> QED
    BY <1>8, <1>9 DEF AlarmInv

LEMMA UpdatesKeepAlarm ==
    ASSUME HealthInv, AlarmInv, UpdateHealth \/ UpdateDomfwd
    PROVE  AlarmInv'
<1>1. CASE UpdateHealth
    <2>1. /\ UNCHANGED <<program, now, counters>> /\ pc = "update" /\ pc' = "idle" /\ ~fresh /\ Otelfwd
          /\ known' = [success |-> reading.success, errors |-> reading.errors, failing |-> Failing]
          /\ monitor' = Update(monitor, now, Input(Failing)) /\ Updated(reading.accepted)
        BY <1>1 DEF UpdateHealth, forwarding, HealthInv, InStep
    <2>2. Failing \in BOOLEAN
        BY DEF Failing, HealthInv, HealthTypes
    <2>3. reading.accepted \in Nat /\ reading.accepted <= now
        BY <2>1 DEF HealthInv, HealthTypes, AlarmInv, AcceptedTimes
    <2>4. Failing /\ monitor.unreachableSince # 0 => reading.accepted <= monitor.unreachableSince
        BY <2>1 DEF Failing, HealthInv, HealthTypes, CountersSeen, AlarmInv, AcceptedTimes, ReachTimes
    <2>5. program' \in Programs /\ LossTimes' /\ ReachTimes' /\ NoFalseAlarm'
        BY <2>1, <2>2, <2>3, <2>4, UpdateHasReason
    <2>6. truth'.accepted = truth.accepted /\ truth'.acceptedSeen = reading.accepted
        BY <2>1 DEF Updated, HealthInv, HealthTypes, TruthTypes
    <2>7. AcceptedTimes'
        BY <2>1, <2>6 DEF AlarmInv, AcceptedTimes
    <2> QED
        BY <2>5, <2>7 DEF AlarmInv
<1>2. CASE UpdateDomfwd
    <2> DEFINE accepted == IF connected THEN now ELSE truth.acceptedSeen
    <2>1. /\ UNCHANGED <<program, now, counters>> /\ ~fresh /\ ~Otelfwd
          /\ monitor' = Update(monitor, now, Input(~connected)) /\ Updated(accepted)
        BY <1>2 DEF UpdateDomfwd, forwarding
    <2>2. accepted \in Nat /\ accepted <= now
        BY DEF HealthInv, HealthTypes, TruthTypes, AlarmInv, ReachTimes
    <2>3. ~connected /\ monitor.unreachableSince # 0 => accepted <= monitor.unreachableSince
        BY DEF AlarmInv, ReachTimes
    <2> HIDE DEF accepted
    <2>4. (~connected) \in BOOLEAN
        OBVIOUS
    <2>5. program' \in Programs /\ LossTimes' /\ ReachTimes' /\ NoFalseAlarm'
        BY <2>1, <2>2, <2>3, <2>4, UpdateHasReason
    <2> QED
        BY <2>1, <2>5 DEF AlarmInv, Otelfwd
<1> QED
    BY <1>1, <1>2

LEMMA TickKeepsAlarm ==
    ASSUME HealthInv, AlarmInv, Tick
    PROVE  AlarmInv'
<1>1. /\ UNCHANGED <<program, counters, monitor, known, reading, truth>>
      /\ fresh /\ now' = now + 1 /\ fresh' = FALSE /\ pc = "idle" /\ pc' = "idle"
    BY DEF Tick, forwarding, HealthInv, InStep
<1>2. LossTimes' /\ ReachTimes'
    BY <1>1 DEF HealthInv, HealthTypes, TruthTypes, AlarmInv, LossTimes, ReachTimes
<1>3. Otelfwd => AcceptedTimes'
    BY <1>1 DEF AlarmInv, AcceptedTimes
<1> QED
    BY <1>1, <1>2, <1>3, ReasonStays DEF AlarmInv, Otelfwd, seenTimes

LEMMA AlarmStep == HealthInv /\ AlarmInv /\ [HealthNext]_healthVars => AlarmInv'
<1> SUFFICES ASSUME HealthInv, AlarmInv, [HealthNext]_healthVars
             PROVE  AlarmInv'
    OBVIOUS
<1>0. truth \in TruthTypes /\ now \in Nat
    BY DEF HealthInv, HealthTypes
<1>1. CASE PushAccepted \/ RetryAccepted
    <2>1. /\ Otelfwd /\ Count("success") /\ UNCHANGED <<program, now, watching>>
          /\ truth' = [truth EXCEPT !.accepted = now, !.failed = 0]
        BY <1>1 DEF PushAccepted, RetryAccepted, Accepted, Never
    <2>2. UNCHANGED <<truth.lost, truth.rejected, seenTimes>>
        BY <1>0, <2>1, TruthIs DEF TruthTypes, seenTimes
    <2> QED
        BY <2>1, <2>2, CountKeepsAlarm DEF watching
<1>2. CASE PushFails \/ RetryFails
    <2>1. Count("errors") /\ Failed /\ UNCHANGED <<program, now, watching>>
        BY <1>2 DEF PushFails, RetryFails
    <2>2. UNCHANGED <<truth.lost, truth.rejected, truth.accepted, seenTimes>>
        BY <1>0, <2>1 DEF Failed, TruthTypes, seenTimes
    <2> QED
        BY <2>1, <2>2, CountKeepsAlarm DEF watching
<1>3. ASSUME Count("refused"), truth' = [truth EXCEPT !.lost = now], UNCHANGED <<program, now, watching>>
      PROVE  AlarmInv'
    <2>1. truth'.lost = now /\ UNCHANGED <<truth.rejected, truth.accepted, seenTimes>>
        BY <1>0, <1>3 DEF TruthTypes, seenTimes
    <2> QED
        BY <1>3, <2>1, CountKeepsAlarm DEF watching
<1>4. ASSUME Count("rejected"), Rejected, UNCHANGED <<program, now, watching>>
      PROVE  AlarmInv'
    <2>1. truth'.rejected = now /\ UNCHANGED <<truth.lost, truth.accepted, seenTimes>>
        BY <1>0, <1>4 DEF Rejected, TruthTypes, seenTimes
    <2> QED
        BY <1>4, <2>1, CountKeepsAlarm DEF watching
<1>5. ASSUME UNCHANGED <<program, now, counters, watching, truth>>
      PROVE  AlarmInv'
    BY <1>5, CountKeepsAlarm DEF watching, seenTimes
<1>6. CASE Connect \/ Disconnect
    <2>1. /\ ~Otelfwd /\ UNCHANGED <<program, now, counters, watching>>
          /\ \/ truth' = [truth EXCEPT !.accepted = now, !.failed = 0]
             \/ truth' = [truth EXCEPT !.accepted = now, !.failed = now]
        BY <1>6 DEF Connect, Disconnect, Accepted, Never
    <2>2. UNCHANGED <<truth.lost, truth.rejected, seenTimes>>
        BY <1>0, <2>1 DEF TruthTypes, seenTimes
    <2> QED
        BY <2>1, <2>2, CountKeepsAlarm DEF watching
<1>7. CASE PushRejected \/ RetryRejected
    BY <1>4, <1>7 DEF PushRejected, RetryRejected
<1>8. CASE Keep
    BY <1>5, <1>8 DEF Keep
<1>9. CASE Refuse
    BY <1>3, <1>9 DEF Refuse
<1>10. CASE Line
    BY <1>3, <1>4, <1>5, <1>10 DEF Line
<1>11. CASE MetricsThread
    BY <1>11, ReadKeepsAlarm, UpdatesKeepAlarm DEF MetricsThread
<1>12. CASE UpdateDomfwd \/ Tick
    BY <1>12, UpdatesKeepAlarm, TickKeepsAlarm
<1>13. CASE UNCHANGED healthVars
    BY <1>5, <1>13 DEF healthVars, forwarding
<1> QED
    BY <1>1, <1>2, <1>6, <1>7, <1>8, <1>9, <1>10, <1>11, <1>12, <1>13 DEF HealthNext

\* An alert has a reason in what happened: for any limits, programs and numbers of events, and
\* wherever the counters move between the reads of the metrics thread (health.hpp:9-10).
THEOREM NoFalseAlarmHolds == Spec => []NoFalseAlarm
<1>1. Init => HealthInv /\ AlarmInv
    BY HealthInvInit, AlarmInvInit DEF Init
<1>2. HealthInv /\ AlarmInv /\ [Next]_operationVars => (HealthInv /\ AlarmInv)'
    <2> SUFFICES ASSUME HealthInv, AlarmInv, [Next]_operationVars
                 PROVE  HealthInv' /\ AlarmInv'
        OBVIOUS
    <2>1. [HealthNext]_healthVars
        BY DEF Next, operationVars
    <2> QED
        BY <2>1, HealthStep, AlarmStep
<1>3. AlarmInv => NoFalseAlarm
    BY DEF AlarmInv
<1> QED
    BY <1>1, <1>2, <1>3, PTL DEF Spec
=============================================================================
