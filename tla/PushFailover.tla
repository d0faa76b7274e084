---------------------------- MODULE PushFailover ----------------------------
(***************************************************************************)
(* The choice between two endpoints of push_failover.hpp: one object, used *)
(* by the thread of the live push and by the thread of the WAL replay.     *)
(*                                                                         *)
(* Every access to an atomic member is a step, and so is the answer to a   *)
(* request.  Time passes only while a request is on its way.  All times    *)
(* are relative to the clock: a member which holds a point in time is      *)
(* modelled by the seconds until then, the parameter Now of a call by the  *)
(* seconds since then.                                                     *)
(***************************************************************************)
EXTENDS Integers

CONSTANTS
    Threads,       \* the threads which call Send
    FailbackSec,   \* OTLP_PUSH_FAILBACK_SEC
    Timeout,       \* a request is answered or given up after so many seconds
    ProbeTimeout   \* and a probe of the primary after so many

ASSUME FailbackAssumption == FailbackSec \in Nat \ {0}
ASSUME TimeoutAssumption == Timeout \in Nat /\ ProbeTimeout \in Nat

VARIABLES
    hasBackup,   \* m_bHasBackup
    active,      \* m_Active
    nextProbe,   \* m_tNextProbe, in seconds from now
    pc,
    sent,        \* Now, in seconds ago
    loaded,      \* tNext, in seconds from now
    left,        \* the seconds which are left for the answer
    action,      \* Action, and what Send returned
    heard,       \* history: what the endpoints answered to this request
    quiet,       \* history: the seconds since the youngest Now of a probe or failover
    late         \* history: how much older the call was which set the time of the next probe last

history == <<quiet, late>>
time == <<nextProbe, sent, loaded, left, history>>
vars == <<hasBackup, active, pc, action, heard, time>>

Endpoints == {"primary", "backup"}
Actions == {"accepted", "retry", "rejected"}
NoAnswer == "none"

\* Send lasts no longer than a probe and one request to each endpoint
MaxSent == ProbeTimeout + 2 * Timeout
\* Points in time which are further away are all the same
Past == -(MaxSent + 1)
LongAgo == FailbackSec + MaxSent

Calls == {"primary", "probe", "second", "backup", "again"}
Steps == {"load", "claim", "store", "useBackup", "usePrimary"}

EndpointOf(p) == IF p \in {"second", "backup"} THEN "backup" ELSE "primary"
TimeoutOf(p) == IF p = "probe" THEN ProbeTimeout ELSE Timeout

Max2(a, b) == IF a > b THEN a ELSE b
Min2(a, b) == IF a < b THEN a ELSE b

Init ==
    /\ hasBackup \in BOOLEAN /\ active = "primary" /\ nextProbe = Past
    /\ pc = [t \in Threads |-> "idle"]
    /\ sent = [t \in Threads |-> 0]
    /\ loaded = [t \in Threads |-> Past]
    /\ left = [t \in Threads |-> 0]
    /\ action = [t \in Threads |-> NoAnswer]
    /\ heard = [t \in Threads |-> [e \in Endpoints |-> NoAnswer]]
    /\ quiet = LongAgo /\ late = 0

-----------------------------------------------------------------------------
(* Send *)

Goto(t, p) == pc' = [pc EXCEPT ![t] = p]

\* Try: hands the request to the sender of the caller
Call(t, p) == Goto(t, p) /\ left' = [left EXCEPT ![t] = TimeoutOf(p)]

\* The call, up to the load of m_Active
Start(t) ==
    /\ pc[t] = "idle"
    /\ sent' = [sent EXCEPT ![t] = 0]
    /\ action' = [action EXCEPT ![t] = NoAnswer]
    /\ heard' = [heard EXCEPT ![t] = [e \in Endpoints |-> NoAnswer]]
    /\ IF active = "primary" THEN Call(t, "primary")
                             ELSE Goto(t, "load") /\ UNCHANGED left
    /\ UNCHANGED <<hasBackup, active, nextProbe, loaded, history>>

ProbeIsDue(t) == -sent[t] >= nextProbe

\* The backup is in use: loads m_tNextProbe
Load(t) ==
    /\ pc[t] = "load"
    /\ loaded' = [loaded EXCEPT ![t] = nextProbe]
    /\ IF ProbeIsDue(t) THEN Goto(t, "claim") /\ UNCHANGED left
                        ELSE Call(t, "backup")
    /\ UNCHANGED <<hasBackup, active, nextProbe, sent, action, heard, history>>

\* A probe or a failover of t sets the time of the next probe
Counts(t) == quiet' = Min2(quiet, sent[t]) /\ late' = Max2(sent[t] - quiet, 0)

\* MUTANT of Claim: a plain store, the threads do not see each other
ClaimByStore(t) ==
    /\ pc[t] = "claim"
    /\ nextProbe' = FailbackSec - sent[t] /\ Counts(t) /\ Call(t, "probe")
    /\ UNCHANGED <<hasBackup, active, sent, loaded, action, heard>>

\* compare_exchange of m_tNextProbe: one thread makes the probe
Claim(t) ==
    /\ pc[t] = "claim"
    /\ IF nextProbe = loaded[t]
       THEN nextProbe' = FailbackSec - sent[t] /\ Counts(t) /\ Call(t, "probe")
       ELSE UNCHANGED <<nextProbe, history>> /\ Call(t, "backup")
    /\ UNCHANGED <<hasBackup, active, sent, loaded, action, heard>>

\* MUTANT of SwitchAfter: a probe which is accepted does not end the use of the backup
SwitchAfterNotProbe(t) ==
    CASE pc[t] = "second" -> "store"
      [] pc[t] = "again" -> "usePrimary"
      [] OTHER -> "idle"

\* The endpoint which accepted becomes the one in use
SwitchAfter(t) ==
    CASE pc[t] = "second" -> "store"
      [] pc[t] \in {"probe", "again"} -> "usePrimary"
      [] OTHER -> "idle"

\* MUTANT of TryAfter: a probe which fails is not followed by a request to the backup
TryAfterNoBackup(p) ==
    CASE p = "primary" /\ hasBackup -> "second"
      [] p = "backup" -> "again"
      [] OTHER -> "idle"

\* What is tried when the request was not delivered
TryAfter(p) ==
    CASE p = "primary" /\ hasBackup -> "second"
      [] p = "probe" -> "backup"
      [] p = "backup" -> "again"
      [] OTHER -> "idle"

\* The request is answered with a, or given up (retry)
Answer(t, a) ==
    /\ pc[t] \in Calls
    /\ action' = [action EXCEPT ![t] = a]
    /\ heard' = [heard EXCEPT ![t][EndpointOf(pc[t])] = a]
    /\ CASE a = "accepted" -> Goto(t, SwitchAfter(t)) /\ left' = [left EXCEPT ![t] = 0]
         [] a = "rejected" -> Goto(t, "idle") /\ left' = [left EXCEPT ![t] = 0]
         [] a = "retry" -> Goto(t, TryAfter(pc[t])) /\ left' = [left EXCEPT ![t] =
                               IF TryAfter(pc[t]) \in Calls THEN TimeoutOf(TryAfter(pc[t])) ELSE 0]
    /\ UNCHANGED <<hasBackup, active, nextProbe, sent, loaded, history>>

-----------------------------------------------------------------------------
(* SwitchTo *)

\* MUTANT of StoreNextProbe: the time of the probe is left as it is
StoreNothing(t) == pc[t] = "store" /\ Goto(t, "useBackup")
                   /\ UNCHANGED <<hasBackup, active, action, heard, time>>

\* The time of the next probe is set before the backup can be seen in use
StoreNextProbe(t) ==
    /\ pc[t] = "store"
    /\ nextProbe' = FailbackSec - sent[t] /\ Counts(t)
    /\ Goto(t, "useBackup")
    /\ UNCHANGED <<hasBackup, active, sent, loaded, left, action, heard>>

\* exchange returned another endpoint
Switched(e) == active # e

\* exchange of m_Active
Exchange(t) ==
    \E e \in Endpoints :
        /\ pc[t] = (IF e = "backup" THEN "useBackup" ELSE "usePrimary")
        /\ active' = e
        /\ quiet' = IF e = "backup" /\ Switched(e) THEN Min2(quiet, sent[t]) ELSE quiet
        /\ Goto(t, "idle")
        /\ UNCHANGED <<hasBackup, nextProbe, sent, loaded, left, action, heard, late>>

-----------------------------------------------------------------------------
(* A second passes; a request has to be answered within its time *)
Tick ==
    /\ \A t \in Threads : pc[t] \notin Steps /\ (pc[t] \in Calls => left[t] > 0)
    /\ nextProbe' = Max2(nextProbe - 1, Past)
    /\ quiet' = Min2(quiet + 1, LongAgo)
    /\ sent' = [t \in Threads |-> IF pc[t] = "idle" THEN 0 ELSE sent[t] + 1]
    /\ loaded' = [t \in Threads |-> Past]
    /\ left' = [t \in Threads |-> Max2(left[t] - 1, 0)]
    /\ UNCHANGED <<hasBackup, active, pc, action, heard, late>>

Inside(t) == Load(t) \/ Claim(t) \/ StoreNextProbe(t) \/ Exchange(t)
Next == Tick \/ \E t \in Threads : Start(t) \/ Inside(t) \/ \E a \in Actions : Answer(t, a)

Spec == Init /\ [][Next]_vars

-----------------------------------------------------------------------------
TypeOK ==
    /\ hasBackup \in BOOLEAN /\ active \in Endpoints
    /\ nextProbe \in Past..FailbackSec /\ quiet \in 0..LongAgo /\ late \in 0..(2 * Timeout)
    /\ pc \in [Threads -> {"idle"} \cup Calls \cup Steps]
    /\ sent \in [Threads -> 0..MaxSent]
    /\ loaded \in [Threads -> Past..FailbackSec]
    /\ left \in [Threads -> 0..Max2(Timeout, ProbeTimeout)]
    /\ action \in [Threads -> Actions \cup {NoAnswer}]
    /\ heard \in [Threads -> [Endpoints -> Actions \cup {NoAnswer}]]

\* A request is delivered at most once, and what Send returns is the one answer which ends
\* the try (push_failover.hpp:32); it returns PUSH_RETRY, which sends the record to the WAL,
\* only when every endpoint failed (push_failover.hpp:33).
AnswerIsLast ==
    \A t \in Threads :
        LET ended == {e \in Endpoints : heard[t][e] \in {"accepted", "rejected"}}
        IN  /\ pc[t] \in Calls \cup {"load", "claim"} => ended = {}
            /\ pc[t] = "idle" /\ action[t] = "retry" =>
                   \A e \in Endpoints : heard[t][e] = "retry" \/ (e = "backup" /\ ~hasBackup)
            /\ action[t] \in {"accepted", "rejected"} => \E e \in ended : ended = {e} /\ heard[t][e] = action[t]

\* Only one of the threads makes the probe (push_failover.hpp:35-36).
OneProbe == \A t, u \in Threads : pc[t] = "probe" /\ pc[u] = "probe" => t = u

\* The primary is probed FailbackSec seconds after the failover or the last probe, and not
\* before (push_failover.hpp:29; the clock of a call is its parameter Now).  Only when a call
\* with an older Now fails over behind a younger one is the time set back, for one probe, by
\* the difference, which is no more than two requests may take.
ProbesAreApart ==
    [][\A t \in Threads : pc[t] = "claim" /\ pc'[t] = "probe" =>
           quiet - sent[t] >= FailbackSec - late /\ late <= 2 * Timeout]_vars
=============================================================================
