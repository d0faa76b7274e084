------------------------- MODULE PushFailover_proofs -------------------------
(***************************************************************************)
(* The failover for any number of threads and any times: what Send returns *)
(* is the one answer which ended the try, probes are apart, and, if        *)
(* FailbackSec is longer than the longest call of Send, one thread at a    *)
(* time makes a probe.                                                     *)
(***************************************************************************)
EXTENDS PushFailover, TLAPS

\* The seconds a call of Send may have taken at p, with the time which is left for an answer
Budget(p) ==
    CASE p = "primary" -> Timeout
      [] p = "probe" -> ProbeTimeout
      [] p \in {"second", "store", "useBackup"} -> 2 * Timeout
      [] p = "backup" -> ProbeTimeout + Timeout
      [] p \in {"again", "usePrimary"} -> ProbeTimeout + 2 * Timeout
      [] OTHER -> 0

\* No call takes longer than its requests
InTime ==
    \A t \in Threads :
        /\ pc[t] # "idle" => sent[t] + left[t] <= Budget(pc[t])
        /\ pc[t] \notin Calls => left[t] = 0

Open(t, e) == heard[t][e] \in {NoAnswer, "retry"}

\* The answers a call has heard, from where it is
Told ==
    \A t \in Threads :
        /\ pc[t] \in {"primary", "load", "claim", "probe"} =>
               action[t] = NoAnswer /\ heard[t]["primary"] = NoAnswer /\ heard[t]["backup"] = NoAnswer
        /\ pc[t] = "second" =>
               action[t] = "retry" /\ heard[t]["primary"] = "retry" /\ heard[t]["backup"] = NoAnswer
        /\ pc[t] = "backup" =>
               action[t] \in {NoAnswer, "retry"} /\ Open(t, "primary") /\ heard[t]["backup"] = NoAnswer
        /\ pc[t] = "again" =>
               action[t] = "retry" /\ Open(t, "primary") /\ heard[t]["backup"] = "retry"
        /\ pc[t] \in {"store", "useBackup"} =>
               action[t] = "accepted" /\ heard[t]["primary"] = "retry" /\ heard[t]["backup"] = "accepted"
        /\ pc[t] = "usePrimary" =>
               action[t] = "accepted" /\ heard[t]["primary"] = "accepted" /\ Open(t, "backup")
        /\ pc[t] = "idle" =>
               \/ action[t] = NoAnswer /\ heard[t]["primary"] = NoAnswer /\ heard[t]["backup"] = NoAnswer
               \/ /\ action[t] = "retry" /\ heard[t]["primary"] = "retry"
                  /\ heard[t]["backup"] = "retry" \/ (heard[t]["backup"] = NoAnswer /\ ~hasBackup)
               \/ /\ action[t] \in {"accepted", "rejected"}
                  /\ \/ heard[t]["primary"] = action[t] /\ Open(t, "backup")
                     \/ heard[t]["backup"] = action[t] /\ Open(t, "primary")

\* The time of the next probe is not before FailbackSec after the youngest probe or failover, and
\* a call which is about to use the backup has counted
Apart ==
    /\ quiet = LongAgo \/ quiet + nextProbe >= FailbackSec - late
    /\ \A t \in Threads :
           /\ pc[t] = "useBackup" => quiet <= sent[t]
           /\ pc[t] = "claim" => loaded[t] <= 0

\* The inductive invariant
FInv == TypeOK /\ InTime /\ Told /\ Apart

\* While a probe is made, the next one is not due
Probing ==
    \A t \in Threads : pc[t] = "probe" => nextProbe >= FailbackSec - 2 * Timeout - sent[t]

USE FailbackAssumption, TimeoutAssumption DEF history

-----------------------------------------------------------------------------
(* The operators *)

\* The smaller and the larger of two numbers are one of them.
LEMMA MinMax ==
    ASSUME NEW a \in Int, NEW b \in Int
    PROVE  /\ Max2(a, b) \in {a, b} /\ Max2(a, b) >= a /\ Max2(a, b) >= b
           /\ Min2(a, b) \in {a, b} /\ Min2(a, b) <= a /\ Min2(a, b) <= b
BY DEF Max2, Min2

\* The budget of every place is a time no longer than the longest call.
LEMMA Budgets ==
    ASSUME NEW p
    PROVE  Budget(p) \in 0..MaxSent
BY DEF Budget, MaxSent

\* The bounds are numbers, and the past is before everything a call can reach.
LEMMA Bounds ==
    /\ MaxSent \in Nat /\ LongAgo \in Nat /\ Past \in Int
    /\ Past = 0 - MaxSent - 1 /\ LongAgo = FailbackSec + MaxSent
    /\ MaxSent = ProbeTimeout + 2 * Timeout
BY DEF MaxSent, LongAgo, Past

-----------------------------------------------------------------------------
(* The invariant holds at the start and is kept by every step *)

LEMMA FInvInit == Init => FInv
<1> SUFFICES ASSUME Init PROVE FInv
    OBVIOUS
<1>1. TypeOK
    BY Bounds, MinMax DEF Init, TypeOK, Endpoints, Actions
<1>2. InTime
    BY DEF Init, InTime
<1>3. Told
    BY DEF Init, Told, Endpoints
<1>4. Apart
    BY DEF Init, Apart
<1> QED
    BY <1>1, <1>2, <1>3, <1>4 DEF FInv

\* A call of Send begins: nothing was heard yet, and no time has passed.
LEMMA StartKeeps ==
    ASSUME FInv, NEW t \in Threads, Start(t)
    PROVE  FInv'
<1> USE DEF FInv, Start, Call, Goto, TimeoutOf, Calls
<1>1. TypeOK'
    <2>1. heard' \in [Threads -> [Endpoints -> Actions \cup {NoAnswer}]]
        BY DEF TypeOK, Endpoints
    <2>2. left' \in [Threads -> 0..Max2(Timeout, ProbeTimeout)]
        BY MinMax DEF TypeOK
    <2>3. pc' \in [Threads -> {"idle"} \cup Calls \cup Steps]
        BY DEF TypeOK, Steps
    <2>4. sent' \in [Threads -> 0..MaxSent] /\ action' \in [Threads -> Actions \cup {NoAnswer}]
        BY Bounds DEF TypeOK
    <2> QED
        BY <2>1, <2>2, <2>3, <2>4 DEF TypeOK
<1>2. InTime'
    BY DEF TypeOK, InTime, Budget
<1>3. Told'
    BY DEF TypeOK, Told, Open, Endpoints
<1>4. Apart'
    BY DEF TypeOK, Apart
<1> QED
    BY <1>1, <1>2, <1>3, <1>4

\* The time of the next probe is loaded: it is over for whoever goes on to claim the probe.
LEMMA LoadKeeps ==
    ASSUME FInv, NEW t \in Threads, Load(t)
    PROVE  FInv'
<1> USE DEF FInv, Load, Call, Goto, TimeoutOf, Calls
<1>1. TypeOK'
    <2>1. UNCHANGED <<hasBackup, active, nextProbe, sent, action, heard, history>>
        OBVIOUS
    <2>2. loaded' \in [Threads -> Past..FailbackSec]
        BY DEF TypeOK
    <2>3. left' \in [Threads -> 0..Max2(Timeout, ProbeTimeout)]
        BY MinMax DEF TypeOK
    <2>4. pc' \in [Threads -> {"idle"} \cup Calls \cup Steps]
        BY DEF TypeOK, Steps
    <2> QED
        BY <2>1, <2>2, <2>3, <2>4 DEF TypeOK
<1>2. InTime'
    BY DEF TypeOK, InTime, Budget
<1>3. Told'
    BY DEF TypeOK, Told, Open
<1>4. Apart'
    BY Bounds DEF TypeOK, Apart, ProbeIsDue
<1> QED
    BY <1>1, <1>2, <1>3, <1>4

\* A probe is claimed without time having passed in the call, or the backup is asked.
LEMMA ClaimKeeps ==
    ASSUME FInv, NEW t \in Threads, Claim(t)
    PROVE  FInv'
<1> USE DEF FInv, Claim, Call, Goto, TimeoutOf, Calls
<1>0. sent[t] = 0
    BY DEF TypeOK, InTime, Budget
<1>1. TypeOK'
    <2>1. nextProbe' \in Past..FailbackSec /\ quiet' \in 0..LongAgo /\ late' \in 0..(2 * Timeout)
        BY <1>0, Bounds DEF TypeOK, Max2, Min2, Counts
    <2>2. left' \in [Threads -> 0..Max2(Timeout, ProbeTimeout)]
        <3>1. {Timeout, ProbeTimeout} \subseteq 0..Max2(Timeout, ProbeTimeout)
            BY Bounds, MinMax
        <3>2. \E allowed \in {Timeout, ProbeTimeout} : left' = [left EXCEPT ![t] = allowed]
            OBVIOUS
        <3> QED
            BY <3>1, <3>2 DEF TypeOK
    <2>3. pc' \in [Threads -> {"idle"} \cup Calls \cup Steps]
        BY DEF TypeOK, Steps
    <2> QED
        BY <2>1, <2>2, <2>3 DEF TypeOK
<1>2. InTime'
    BY <1>0 DEF TypeOK, InTime, Budget
<1>3. Told'
    BY DEF TypeOK, Told, Open
<1>4. Apart'
    <2>1. CASE nextProbe # loaded[t]
        BY <2>1 DEF TypeOK, Apart
    <2>2. CASE nextProbe = loaded[t]
        <3>1. nextProbe' = FailbackSec /\ quiet' = 0 /\ late' = 0
            BY <1>0, <2>2, Bounds DEF TypeOK, Min2, Max2, Counts
        <3>2. \A u \in Threads : pc'[u] = "claim" => pc[u] = "claim" /\ loaded'[u] = loaded[u]
            BY <2>2 DEF TypeOK
        <3>3. quiet' + nextProbe' >= FailbackSec - late'
            BY <3>1
        <3>5. \A u \in Threads : pc'[u] = "useBackup" => quiet' <= sent'[u]
            BY <3>1, Bounds DEF TypeOK
        <3>4. \A u \in Threads : pc'[u] = "claim" => loaded'[u] <= 0
            BY <3>2 DEF Apart
        <3> HIDE DEF FInv, Claim, Call, Goto
        <3> QED
            BY <3>3, <3>4, <3>5 DEF Apart
    <2> QED
        BY <2>1, <2>2
<1> QED
    BY <1>1, <1>2, <1>3, <1>4

\* An answer ends the try, or the next endpoint is asked.
LEMMA AnswerKeeps ==
    ASSUME FInv, NEW t \in Threads, NEW a \in Actions, Answer(t, a)
    PROVE  FInv'
<1> USE DEF FInv, Answer, Goto
<1>0. /\ pc' = [pc EXCEPT ![t] = pc'[t]] /\ left' = [left EXCEPT ![t] = left'[t]]
      /\ \A u \in Threads \ {t} : pc'[u] = pc[u] /\ left'[u] = left[u]
                              /\ heard'[u] = heard[u] /\ action'[u] = action[u]
      /\ action'[t] = a
    <2>1. CASE a = "accepted"
        BY <2>1 DEF TypeOK
    <2>2. CASE a = "rejected"
        BY <2>2 DEF TypeOK
    <2>3. CASE a = "retry"
        BY <2>3 DEF TypeOK
    <2> QED
        BY <2>1, <2>2, <2>3 DEF Actions
<1>1. heard'[t] = [heard[t] EXCEPT ![EndpointOf(pc[t])] = a]
    BY DEF TypeOK
<1>2. /\ a = "accepted" => pc'[t] = SwitchAfter(t) /\ left'[t] = 0
      /\ a = "rejected" => pc'[t] = "idle" /\ left'[t] = 0
      /\ a = "retry" => /\ pc'[t] = TryAfter(pc[t])
                        /\ left'[t] = IF TryAfter(pc[t]) \in Calls THEN TimeoutOf(TryAfter(pc[t])) ELSE 0
    BY DEF TypeOK
<1>3. a \in {"accepted", "rejected", "retry"} /\ pc[t] \in Calls
    BY DEF Actions
<1>4. TypeOK'
    <2>1. pc'[t] \in {"idle"} \cup Calls \cup Steps
        BY <1>2, <1>3 DEF SwitchAfter, TryAfter, Calls, Steps
    <2>2. left'[t] \in 0..Max2(Timeout, ProbeTimeout)
        BY <1>2, <1>3, MinMax DEF TimeoutOf
    <2>3. heard'[t] \in [Endpoints -> Actions \cup {NoAnswer}]
        BY <1>1 DEF TypeOK
    <2>4. heard' = [heard EXCEPT ![t] = heard'[t]]
        BY DEF TypeOK
    <2>5. heard' \in [Threads -> [Endpoints -> Actions \cup {NoAnswer}]]
        BY <2>3, <2>4 DEF TypeOK
    <2>6. pc' \in [Threads -> {"idle"} \cup Calls \cup Steps]
        BY <1>0, <2>1 DEF TypeOK
    <2>7. left' \in [Threads -> 0..Max2(Timeout, ProbeTimeout)]
        BY <1>0, <2>2 DEF TypeOK
    <2> QED
        BY <2>5, <2>6, <2>7 DEF TypeOK
<1>5. InTime'
    <2>1. /\ pc'[t] # "idle" => sent[t] + left'[t] <= Budget(pc'[t])
          /\ pc'[t] \notin Calls => left'[t] = 0
        <3>1. sent[t] \in Nat /\ left[t] \in Nat /\ sent[t] + left[t] <= Budget(pc[t])
            BY <1>3, MinMax DEF TypeOK, InTime, Calls
        <3>2. CASE a = "accepted"
            BY <1>2, <1>3, <3>1, <3>2 DEF SwitchAfter, Budget, Calls
        <3>3. CASE a = "rejected"
            BY <1>2, <3>3
        <3>4. CASE a = "retry"
            BY <1>2, <1>3, <3>1, <3>4 DEF TryAfter, TimeoutOf, Budget, Calls
        <3> QED
            BY <1>3, <3>2, <3>3, <3>4
    <2> QED
        BY <1>0, <2>1 DEF InTime
<1>6. Told'
    <2> DEFINE p == heard[t]["primary"]
               b == heard[t]["backup"]
    <2>1. /\ pc[t] = "primary" => p = NoAnswer /\ b = NoAnswer
          /\ pc[t] = "probe" => p = NoAnswer /\ b = NoAnswer
          /\ pc[t] = "second" => p = "retry" /\ b = NoAnswer
          /\ pc[t] = "backup" => p \in {NoAnswer, "retry"} /\ b = NoAnswer
          /\ pc[t] = "again" => p \in {NoAnswer, "retry"} /\ b = "retry"
        BY DEF Told, Open
    <2>2. /\ heard'[t]["primary"] = IF EndpointOf(pc[t]) = "primary" THEN a ELSE p
          /\ heard'[t]["backup"] = IF EndpointOf(pc[t]) = "backup" THEN a ELSE b
        BY <1>1, <1>3 DEF TypeOK, Endpoints, EndpointOf
    <2>3. hasBackup' = hasBackup
        OBVIOUS
    <2>4. CASE a = "accepted"
        BY <1>0, <1>2, <1>3, <2>1, <2>2, <2>4 DEF Told, Open, SwitchAfter, EndpointOf, Calls, NoAnswer
    <2>5. CASE a = "rejected"
        BY <1>0, <1>2, <1>3, <2>1, <2>2, <2>5 DEF Told, Open, EndpointOf, Calls, NoAnswer
    <2>6. CASE a = "retry"
        BY <1>0, <1>2, <1>3, <2>1, <2>2, <2>3, <2>6 DEF Told, Open, TryAfter, EndpointOf, Calls, NoAnswer
    <2> QED
        BY <1>3, <2>4, <2>5, <2>6
<1>7. Apart'
    BY <1>0, <1>2, <1>3 DEF TypeOK, Apart, SwitchAfter, TryAfter
<1> QED
    BY <1>4, <1>5, <1>6, <1>7

\* The time of the next probe is set by a call which took two requests at most.
LEMMA StoreNextProbeKeeps ==
    ASSUME FInv, NEW t \in Threads, StoreNextProbe(t)
    PROVE  FInv'
<1> USE DEF FInv, StoreNextProbe, Goto, Calls
<1>0. sent[t] \in 0..(2 * Timeout)
    BY DEF TypeOK, InTime, Budget
<1>1. TypeOK'
    BY <1>0, Bounds DEF TypeOK, Steps, Counts, Max2, Min2
<1>2. InTime'
    BY DEF TypeOK, InTime, Budget
<1>3. Told'
    BY DEF TypeOK, Told, Open
<1>4. Apart'
    BY <1>0, Bounds DEF TypeOK, Apart, Counts, Max2, Min2
<1> QED
    BY <1>1, <1>2, <1>3, <1>4

\* Another endpoint is in use: the failover counts from the Now of its call.
LEMMA ExchangeKeeps ==
    ASSUME FInv, NEW t \in Threads, Exchange(t)
    PROVE  FInv'
<1> USE DEF FInv, Exchange, Goto, Calls
<1>1. TypeOK'
    BY Bounds, MinMax DEF TypeOK, Steps, Endpoints
<1>2. InTime'
    BY DEF TypeOK, InTime, Budget
<1>3. Told'
    BY DEF TypeOK, Told, Open
<1>4. Apart'
    <2>1. pc'[t] = "idle" /\ \A u \in Threads \ {t} : pc'[u] = pc[u]
        BY DEF TypeOK
    <2>2. CASE quiet' = quiet
        BY <2>1, <2>2 DEF TypeOK, Apart
    <2>3. CASE quiet' = Min2(quiet, sent[t]) /\ pc[t] = "useBackup"
        BY <2>1, <2>3, Bounds DEF TypeOK, Apart, Min2
    <2> QED
        BY <2>2, <2>3
<1> QED
    BY <1>1, <1>2, <1>3, <1>4

\* A second passes, which no call has which is about to use a member.
LEMMA TickKeeps ==
    ASSUME FInv, Tick
    PROVE  FInv'
<1> USE DEF FInv, Tick
<1>0. \A t \in Threads : pc[t] # "idle" => sent[t] < MaxSent /\ left[t] > 0
    BY Budgets, Bounds DEF TypeOK, InTime
<1>1. TypeOK'
    BY <1>0, Bounds, MinMax DEF TypeOK, Max2, Min2
<1>2. InTime'
    <2> SUFFICES ASSUME NEW t \in Threads
                 PROVE  /\ pc[t] # "idle" => sent'[t] + left'[t] <= Budget(pc[t])
                        /\ pc[t] \notin Calls => left'[t] = 0
        BY DEF InTime
    <2>1. Budget(pc[t]) \in Nat /\ sent[t] \in Nat /\ left[t] \in Nat
        BY Budgets, Bounds, MinMax DEF TypeOK
    <2>2. left'[t] = IF left[t] > 0 THEN left[t] - 1 ELSE 0
        BY <2>1 DEF Max2
    <2>3. pc[t] # "idle" => sent'[t] = sent[t] + 1
        OBVIOUS
    <2> QED
        BY <1>0, <2>1, <2>2, <2>3 DEF InTime
<1>3. Told'
    BY DEF Told, Open
<1>4. Apart'
    BY Bounds DEF TypeOK, Apart, Max2, Min2, Steps
<1> QED
    BY <1>1, <1>2, <1>3, <1>4

\* Every step keeps the invariant.
LEMMA FInvStep == FInv /\ [Next]_vars => FInv'
<1> SUFFICES ASSUME FInv, [Next]_vars PROVE FInv'
    OBVIOUS
<1>1. CASE Tick
    BY <1>1, TickKeeps
<1>2. ASSUME NEW t \in Threads, Start(t) PROVE FInv'
    BY <1>2, StartKeeps
<1>3. ASSUME NEW t \in Threads, Inside(t) PROVE FInv'
    BY <1>3, LoadKeeps, ClaimKeeps, StoreNextProbeKeeps, ExchangeKeeps DEF Inside
<1>4. ASSUME NEW t \in Threads, NEW a \in Actions, Answer(t, a) PROVE FInv'
    BY <1>4, AnswerKeeps
<1>5. CASE UNCHANGED vars
    BY <1>5 DEF vars, time, FInv, TypeOK, InTime, Told, Open, Apart
<1> QED
    BY <1>1, <1>2, <1>3, <1>4, <1>5 DEF Next

\* The invariant of the failover, for any number of threads and any times (push_failover.hpp:32-36).
THEOREM FInvHolds == Spec => []FInv
BY FInvInit, FInvStep, PTL DEF Spec

\* Every member and every call stays in its range: a call of Send takes no longer than a probe and
\* one request to each endpoint, and one more (push_failover.hpp:65).
THEOREM TypeCorrect == Spec => []TypeOK
<1>1. FInv => TypeOK
    BY DEF FInv
<1> QED
    BY <1>1, FInvHolds, PTL

-----------------------------------------------------------------------------
(* What a call returns *)

LEMMA ToldIsEnough == FInv => AnswerIsLast
<1> SUFFICES ASSUME FInv, NEW t \in Threads
             PROVE  LET ended == {e \in Endpoints : heard[t][e] \in {"accepted", "rejected"}}
                    IN  /\ pc[t] \in Calls \cup {"load", "claim"} => ended = {}
                        /\ pc[t] = "idle" /\ action[t] = "retry" =>
                               \A e \in Endpoints : heard[t][e] = "retry" \/ (e = "backup" /\ ~hasBackup)
                        /\ action[t] \in {"accepted", "rejected"} =>
                               \E e \in ended : ended = {e} /\ heard[t][e] = action[t]
    BY DEF AnswerIsLast
<1> DEFINE ended == {e \in Endpoints : heard[t][e] \in {"accepted", "rejected"}}
<1>1. pc[t] \in {"idle"} \cup Calls \cup Steps
    BY DEF FInv, TypeOK
<1>2. pc[t] \in Calls \cup {"load", "claim"} => ended = {}
    BY DEF FInv, Told, Open, Calls, Endpoints, NoAnswer
<1>3. pc[t] = "idle" /\ action[t] = "retry" =>
          \A e \in Endpoints : heard[t][e] = "retry" \/ (e = "backup" /\ ~hasBackup)
    BY DEF FInv, Told, Endpoints, NoAnswer
<1>4. action[t] \in {"accepted", "rejected"} => \E e \in ended : ended = {e} /\ heard[t][e] = action[t]
    <2> SUFFICES ASSUME action[t] \in {"accepted", "rejected"}
                 PROVE  \E e \in ended : ended = {e} /\ heard[t][e] = action[t]
        OBVIOUS
    <2>1. \/ heard[t]["primary"] = action[t] /\ Open(t, "backup")
          \/ heard[t]["backup"] = action[t] /\ Open(t, "primary")
        BY <1>1 DEF FInv, Told, Open, Calls, Steps, NoAnswer
    <2>2. CASE heard[t]["primary"] = action[t] /\ Open(t, "backup")
        <3>1. ended = {"primary"}
            BY <2>2 DEF Open, Endpoints, NoAnswer
        <3> QED
            BY <2>2, <3>1
    <2>3. CASE heard[t]["backup"] = action[t] /\ Open(t, "primary")
        <3>1. ended = {"backup"}
            BY <2>3 DEF Open, Endpoints, NoAnswer
        <3> QED
            BY <2>3, <3>1
    <2> QED
        BY <2>1, <2>2, <2>3
<1> QED
    BY <1>2, <1>3, <1>4

\* A request is delivered at most once, what Send returns is the one answer which ended the try, and
\* PUSH_RETRY means that every endpoint failed (push_failover.hpp:32-33).
THEOREM AnswerIsLastHolds == Spec => []AnswerIsLast
BY FInvHolds, ToldIsEnough, PTL

-----------------------------------------------------------------------------
(* Probes *)

\* A probe which is claimed comes FailbackSec after the last one or the failover.
LEMMA ClaimIsApart ==
    ASSUME FInv, [Next]_vars, NEW t \in Threads, pc[t] = "claim", pc'[t] = "probe"
    PROVE  quiet - sent[t] >= FailbackSec - late /\ late <= 2 * Timeout
<1>1. sent[t] = 0 /\ loaded[t] <= 0
    BY DEF FInv, TypeOK, InTime, Budget, Apart, Calls
<1>2. Claim(t)
    <2>1. ~Tick /\ ~UNCHANGED vars
        BY DEF Tick, Steps, vars
    <2>2. PICK u \in Threads : Start(u) \/ Inside(u) \/ \E a \in Actions : Answer(u, a)
        BY <2>1 DEF Next
    <2>3. \A v \in Threads \ {u} : pc'[v] = pc[v]
        <3>1. CASE Start(u) \/ Load(u) \/ Claim(u)
            BY <3>1 DEF Start, Load, Claim, Goto, Call, FInv, TypeOK
        <3>2. CASE StoreNextProbe(u) \/ Exchange(u)
            BY <3>2 DEF StoreNextProbe, Exchange, Goto, FInv, TypeOK
        <3>3. ASSUME NEW a \in Actions, Answer(u, a) PROVE \A v \in Threads \ {u} : pc'[v] = pc[v]
            BY <3>3 DEF Answer, Goto, Actions, FInv, TypeOK
        <3> QED
            BY <2>2, <3>1, <3>2, <3>3 DEF Inside
    <2>4. u = t
        BY <2>3
    <2> QED
        BY <2>2, <2>4 DEF Start, Inside, Load, StoreNextProbe, Exchange, Answer, Calls
<1>3. nextProbe = loaded[t]
    BY <1>2 DEF Claim, Call, Goto, FInv, TypeOK
<1> QED
    BY <1>1, <1>3, Bounds DEF FInv, TypeOK, Apart

\* The primary is probed FailbackSec after the failover or the last probe, and not before
\* (push_failover.hpp:29); before that only by as much as a call which failed over
\* behind a younger one is older, two requests at most.
THEOREM ProbesAreApartHolds == Spec => ProbesAreApart
<1>1. FInv /\ [Next]_vars =>
          [\A t \in Threads : pc[t] = "claim" /\ pc'[t] = "probe" =>
               quiet - sent[t] >= FailbackSec - late /\ late <= 2 * Timeout]_vars
    BY ClaimIsApart
<1> QED
    BY <1>1, FInvHolds, PTL DEF Spec, ProbesAreApart

\* While one thread makes a probe, no other one can claim one.
LEMMA ProbingStep ==
    ASSUME FailbackSec > MaxSent, FInv, Probing, OneProbe, [Next]_vars
    PROVE  Probing' /\ OneProbe'
<1> USE DEF Probing, OneProbe
<1>1. CASE Tick
    BY <1>1, Bounds DEF Tick, FInv, TypeOK, Max2
<1>2. ASSUME NEW t \in Threads, Start(t) PROVE Probing' /\ OneProbe'
    <2>1. pc' = [pc EXCEPT ![t] = pc'[t]] /\ pc'[t] # "probe"
        BY <1>2 DEF Start, Goto, Call, FInv, TypeOK
    <2>2. \A u \in Threads : pc'[u] = "probe" => pc[u] = "probe"
        BY <2>1 DEF FInv, TypeOK
    <2> QED
        BY <1>2, <2>2 DEF Start
<1>3. ASSUME NEW t \in Threads, Load(t) PROVE Probing' /\ OneProbe'
    <2>1. pc' = [pc EXCEPT ![t] = "claim"] \/ pc' = [pc EXCEPT ![t] = "backup"]
        BY <1>3 DEF Load, Goto, Call
    <2>2. \A u \in Threads : pc'[u] = "probe" => pc[u] = "probe"
        BY <2>1 DEF FInv, TypeOK
    <2> QED
        BY <1>3, <2>2 DEF Load
<1>4. ASSUME NEW t \in Threads, Claim(t) PROVE Probing' /\ OneProbe'
    <2>1. sent[t] = 0 /\ loaded[t] <= 0
        <3>1. pc[t] = "claim" /\ t \in Threads
            BY <1>4 DEF Claim
        <3>2. sent[t] = 0
            BY <3>1 DEF FInv, TypeOK, InTime, Budget
        <3>3. loaded[t] <= 0
            BY <3>1 DEF FInv, TypeOK, InTime, Budget, Apart
        <3> QED
            BY <3>2, <3>3
    <2>2. CASE nextProbe # loaded[t]
        BY <1>4, <2>2 DEF Claim, Goto, Call, FInv, TypeOK
    <2>3. CASE nextProbe = loaded[t]
        <3>1. \A u \in Threads : pc[u] # "probe"
            <4>1. ASSUME NEW u \in Threads, pc[u] = "probe" PROVE sent[u] \in 0..ProbeTimeout
                BY <4>1 DEF FInv, TypeOK, InTime, Budget, Calls
            <4> QED
                BY <4>1, <2>1, <2>3, Bounds DEF FInv, TypeOK
        <3> QED
            BY <1>4, <2>1, <2>3, <3>1, Bounds DEF Claim, Goto, Call, FInv, TypeOK
    <2> QED
        BY <2>2, <2>3
<1>5. ASSUME NEW t \in Threads, StoreNextProbe(t) PROVE Probing' /\ OneProbe'
    <2>1. sent[t] \in 0..(2 * Timeout)
        BY <1>5 DEF StoreNextProbe, FInv, TypeOK, InTime, Budget, Calls
    <2> QED
        BY <1>5, <2>1, Bounds DEF StoreNextProbe, Goto, FInv, TypeOK
<1>6. ASSUME NEW t \in Threads, Exchange(t) PROVE Probing' /\ OneProbe'
    BY <1>6 DEF Exchange, Goto, FInv, TypeOK
<1>7. ASSUME NEW t \in Threads, NEW a \in Actions, Answer(t, a) PROVE Probing' /\ OneProbe'
    <2>1. pc' = [pc EXCEPT ![t] = pc'[t]] /\ pc'[t] # "probe"
        BY <1>7 DEF Answer, Goto, SwitchAfter, TryAfter, Actions, FInv, TypeOK
    <2>2. \A u \in Threads : pc'[u] = "probe" => pc[u] = "probe"
        BY <2>1 DEF FInv, TypeOK
    <2> QED
        BY <1>7, <2>2 DEF Answer
<1>8. CASE UNCHANGED vars
    BY <1>8 DEF vars, time
<1> QED
    BY <1>1, <1>2, <1>3, <1>4, <1>5, <1>6, <1>7, <1>8 DEF Next, Inside

\* Only one of the threads makes the probe (push_failover.hpp:35-36), if FailbackSec is longer than
\* a call of Send takes.
THEOREM OneProbeHolds == FailbackSec > MaxSent => (Spec => []OneProbe)
<1> SUFFICES ASSUME FailbackSec > MaxSent PROVE Spec => []OneProbe
    OBVIOUS
<1>1. Init => Probing /\ OneProbe
    BY DEF Init, Probing, OneProbe
<1>2. FInv /\ Probing /\ OneProbe /\ [Next]_vars => Probing' /\ OneProbe'
    BY ProbingStep
<1> QED
    BY <1>1, <1>2, FInvHolds, PTL DEF Spec
=============================================================================
