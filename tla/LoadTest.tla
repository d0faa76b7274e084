------------------------------ MODULE LoadTest ------------------------------
(***************************************************************************)
(* The load test: loadtest.cpp with its sender threads and its timer, the  *)
(* test receiver with the ledger, and between them NGINX and otelfwd,      *)
(* which may lose, repeat, delay and refuse what they get.                 *)
(*                                                                         *)
(* The verdict rests on two looks at the receiver and at the metrics file  *)
(* of otelfwd, whose time stamp has a resolution of one second, while      *)
(* records go on to arrive, some of them from an earlier run.              *)
(***************************************************************************)
EXTENDS TestLedger, FiniteSets, SequencesExt

CONSTANTS
    Tests,       \* the tests one of which is run: how many requests, and the mode, which is
                 \* plain, failfor (--fail-for), failover or reject (--expect-...)
    Earlier,     \* records of an earlier run which may be left in otelfwd
    MaxPushes,   \* bound: the push requests of otelfwd
    MaxSecond    \* bound: the last second

ASSUME LoadTestAssumption ==
    /\ \A t \in Tests : t.requests \in Nat \ {0} /\ t.mode \in {"plain", "failfor", "failover", "reject"}
    /\ MaxPushes \in Nat /\ MaxSecond \in Nat

\* The number of the run stands for the time in its events, which is another one in an earlier run
ASSUME EarlierAssumption ==
    \A r \in Earlier : r \in [test : BOOLEAN, place : Nat, run : Nat \ {1}]

VARIABLES
    test,        \* the one of Tests
    step,        \* where main is
    unsent,      \* the requests which the sender threads have not sent yet
    unanswered,  \* Sum.Failed > 0
    aborted,     \* g_Abort
    timer,       \* FailTimer: off, waiting, done
    prom,        \* bProm
    after,       \* the time stamp which ReadFreshProm waits for
    before,      \* PromBefore
    stats,       \* the last answer to GET /test/stats
    verdict,     \* none, pass, fail, or stopped (exit code 2)
    ledger,      \* g_Test
    sinkFails,   \* m_FailStatus > 0
    inFlight,    \* otelfwd: the records in its queue and its WAL
    counts,      \* its counters
    promFile,    \* its metrics file
    second,
    facts        \* history

mainVars == <<test, step, unsent, unanswered, aborted, prom, after, before, stats, verdict>>
forwardVars == <<inFlight, counts, promFile, second>>
testVars == <<mainVars, timer, ledger, sinkFails, forwardVars, facts>>

Places == 1..test.requests
ThisRun == 1
Event(p) == [test |-> TRUE, place |-> p, run |-> ThisRun]
ErrorLine(p) == [test |-> FALSE, place |-> p, run |-> ThisRun]

NoStats == [unique |-> 0, missing |-> 0, unexpected |-> 0, conflicts |-> 0]
NoCounts == [pushed |-> 0, kept |-> 0, rejected |-> 0, backup |-> 0]
Sum(c) == c.pushed + c.kept + c.rejected

LoadTestInit ==
    /\ test \in Tests
    /\ step = "start" /\ unsent = Places /\ unanswered = FALSE /\ aborted = FALSE
    /\ timer = "off" /\ prom = FALSE /\ after = 1
    /\ before = NoCounts /\ stats = NoStats /\ verdict = "none"
    /\ ledger = NoLedger /\ sinkFails = FALSE
    /\ inFlight \in SUBSET Earlier
    /\ counts \in {NoCounts, [NoCounts EXCEPT !.pushed = 1, !.backup = 1]}
    /\ promFile = [at |-> 0, counts |-> NoCounts]
    /\ second = 0
    /\ facts = [arrived |-> {}, earlier |-> {}, kept |-> FALSE, backup |-> FALSE, lost |-> {}]

NeedsProm == test.mode \in {"failover", "reject"}

-----------------------------------------------------------------------------
(* The environment: otelfwd pushes what it has, in any order, again and again *)

Batches == {<<r>> : r \in inFlight} \cup {<<r, s>> : r \in inFlight, s \in inFlight}

Distinct(batch) == IsInjective(batch)

OwnEvents(batch) == {p \in Places : Event(p) \in ToSet(batch)}

\* What main can still see: its last look at the ledger is yet to come
Looking == step \notin {"fresh", "done"}

\* What is remembered of a request for the sink, and of one which the sink has taken
Asked(batch) == [facts EXCEPT !.kept = @ \/ (Looking /\ OwnEvents(batch) # {})]
Took(batch) ==
    [Asked(batch) EXCEPT
        !.arrived = IF Looking THEN @ \cup OwnEvents(batch) ELSE @,
        !.earlier = @ \cup {r.place : r \in {r \in ToSet(batch) : r.test /\ r.run # ThisRun}}]

Push(batch) ==
    /\ inFlight' = inFlight \ ToSet(batch)
    /\ ledger' = ProcessOtlp(ledger, batch)
    /\ \/ counts' = [counts EXCEPT !.pushed = @ + 1] /\ facts' = Took(batch)
       \/ /\ counts' = [counts EXCEPT !.pushed = @ + 1, !.backup = @ + 1]
          /\ facts' = [Took(batch) EXCEPT !.backup = TRUE]

\* It was taken, but otelfwd does not learn it and keeps it
PushUnknown(batch) ==
    /\ counts' = [counts EXCEPT !.kept = @ + 1]
    /\ ledger' = ProcessOtlp(ledger, batch)
    /\ facts' = Took(batch)
    /\ UNCHANGED inFlight

\* HandleConnection answers with the fail status and processes nothing
PushUnavailable(batch) ==
    /\ counts' = [counts EXCEPT !.kept = @ + 1]
    /\ facts' = Asked(batch)
    /\ UNCHANGED <<inFlight, ledger>>

\* The primary endpoint refuses the data with 400
PushRefused(batch) ==
    /\ counts' = [counts EXCEPT !.rejected = @ + 1]
    /\ inFlight' = inFlight \ ToSet(batch)
    /\ UNCHANGED <<ledger, facts>>

Forward ==
    /\ \E batch \in Batches :
        /\ Distinct(batch) /\ Sum(counts) < MaxPushes
        /\ \/ ~sinkFails /\ (Push(batch) \/ PushUnknown(batch))
           \/ PushUnavailable(batch)
           \/ PushRefused(batch)
    /\ UNCHANGED <<mainVars, timer, sinkFails, promFile, second>>

WriteMetrics ==
    /\ NeedsProm
    /\ promFile' = [at |-> second, counts |-> counts]
    /\ UNCHANGED <<mainVars, timer, ledger, sinkFails, inFlight, counts, second, facts>>

NextSecond ==
    /\ NeedsProm /\ second < MaxSecond
    /\ second' = second + 1
    /\ UNCHANGED <<mainVars, timer, ledger, sinkFails, inFlight, counts, promFile, facts>>

-----------------------------------------------------------------------------
(* The sender threads *)

\* A request is answered or not, and what NGINX logs of it gets to otelfwd, or is replaced by a
\* line which names it, or is lost
SendRequest(p) ==
    /\ step = "send" /\ p \in unsent /\ ~aborted
    /\ unsent' = unsent \ {p}
    /\ unanswered' \in {unanswered, TRUE}
    /\ inFlight' \in {inFlight, inFlight \cup {Event(p)}, inFlight \cup {ErrorLine(p)}}
    /\ UNCHANGED <<test, step, aborted, prom, after, before, stats, verdict,
                   timer, ledger, sinkFails, counts, promFile, second, facts>>

Abort ==
    /\ step # "done" /\ ~aborted
    /\ aborted' = TRUE
    /\ UNCHANGED <<test, step, unsent, unanswered, prom, after, before, stats, verdict,
                   timer, ledger, sinkFails, forwardVars, facts>>

-----------------------------------------------------------------------------
(* main *)

\* MUTANT of After: a file which was written in this second before is good enough
AfterNow == second

\* The file has to be written in a second which has not begun yet
After == second + 1

\* ReadFreshProm; it gives up after 15 seconds, and when the test is aborted
FreshFile(value) ==
    \/ promFile.at >= after /\ ~aborted /\ prom' = TRUE /\ value = promFile.counts
    \/ prom' = FALSE /\ value = NoCounts

ReadBaseline ==
    /\ step = "start"
    /\ IF NeedsProm THEN FreshFile(before') ELSE UNCHANGED <<prom, before>>
    /\ step' = "reset"
    /\ UNCHANGED <<test, unsent, unanswered, aborted, after, stats, verdict,
                   timer, ledger, sinkFails, forwardVars, facts>>

Stop == step' = "done" /\ verdict' = "stopped"

\* A request to the sink which gets no answer may have arrived
ResetSink ==
    /\ step = "reset"
    /\ \/ /\ ledger' = Reset(test.requests)
          /\ step' = IF test.mode = "failfor" THEN "fail" ELSE "send"
          /\ UNCHANGED verdict
       \/ Stop /\ ledger' \in {ledger, Reset(test.requests)}
    /\ UNCHANGED <<test, unsent, unanswered, aborted, prom, after, before, stats,
                   timer, sinkFails, forwardVars, facts>>

Lose(name) == facts' = [facts EXCEPT !.lost = @ \cup {name}]

SetFailing ==
    /\ step = "fail"
    /\ \/ sinkFails' = TRUE /\ timer' = "waiting" /\ step' = "send" /\ UNCHANGED <<verdict, facts>>
       \/ Stop /\ sinkFails' \in BOOLEAN /\ Lose("set") /\ UNCHANGED timer
    /\ UNCHANGED <<test, unsent, unanswered, aborted, prom, after, before, stats,
                   ledger, forwardVars>>

\* POST /test/fail with status 0, by the timer or by main
StopFailing(name) ==
    \/ sinkFails' = FALSE /\ UNCHANGED facts
    \/ sinkFails' = sinkFails /\ Lose(name)

TimerEnds ==
    /\ timer = "waiting"
    /\ timer' = "done" /\ StopFailing("timer")
    /\ UNCHANGED <<mainVars, ledger, forwardVars>>

EndSending ==
    /\ step = "send" /\ (unsent = {} \/ aborted)
    /\ step' = "wait"
    /\ UNCHANGED <<test, unsent, unanswered, aborted, prom, after, before, stats, verdict,
                   timer, ledger, sinkFails, forwardVars, facts>>

\* Everything is there, or the time is over, or nothing comes any more
EndWaiting ==
    /\ step = "wait"
    /\ step' = "restore"
    /\ UNCHANGED <<test, unsent, unanswered, aborted, prom, after, before, stats, verdict,
                   timer, ledger, sinkFails, forwardVars, facts>>

\* MUTANT of Restore: main relies on the timer
RestoreByTimer ==
    /\ step = "restore" /\ timer # "waiting"
    /\ step' = "stats"
    /\ UNCHANGED <<test, unsent, unanswered, aborted, prom, after, before, stats, verdict,
                   timer, ledger, sinkFails, forwardVars, facts>>

\* The timer is joined, and main itself ends the failing of the sink too
Restore ==
    /\ step = "restore" /\ timer # "waiting"
    /\ step' = "stats"
    /\ IF timer = "done" THEN StopFailing("main") ELSE UNCHANGED <<sinkFails, facts>>
    /\ UNCHANGED <<test, unsent, unanswered, aborted, prom, after, before, stats, verdict,
                   timer, ledger, forwardVars>>

\* The reasons to fail, from the ledger (s), the metrics (c) and what the sender threads counted
Reasons(s, readable, c) ==
    (IF aborted THEN {"aborted"} ELSE {})
    \cup (IF unanswered THEN {"unanswered"} ELSE {})
    \cup (IF s.unexpected > 0 THEN {"unexpected"} ELSE {})
    \cup (IF s.conflicts > 0 THEN {"conflicts"} ELSE {})
    \cup (IF NeedsProm /\ ~readable THEN {"metrics"} ELSE {})
    \cup (IF test.mode = "failover" /\ readable /\ c.backup - before.backup < 1 THEN {"failover"} ELSE {})
    \cup (IF /\ test.mode = "reject" /\ readable
             /\ \/ c.rejected - before.rejected < 1
                \/ c.pushed - before.pushed > 0 \/ c.kept - before.kept > 0
                \/ c.backup - before.backup > 0
          THEN {"rejected"} ELSE {})
    \cup (IF test.mode = "reject" /\ s.unique > 0 THEN {"arrived"} ELSE {})
    \cup (IF test.mode # "reject" /\ s.missing > 0 THEN {"missing"} ELSE {})

Judge(s, readable, c) == verdict' = IF Reasons(s, readable, c) = {} THEN "pass" ELSE "fail"

Stats(l) ==
    [unique |-> l.unique, missing |-> Missing(l), unexpected |-> l.unexpected, conflicts |-> l.conflicts]

\* The last look at the sink
ReadStats ==
    /\ step = "stats"
    /\ \/ /\ stats' = Stats(ledger)
          /\ after' = After
          /\ IF prom THEN step' = "fresh" /\ UNCHANGED verdict
             ELSE step' = "done" /\ Judge(stats', FALSE, NoCounts)
       \/ Stop /\ UNCHANGED <<stats, after>>
    /\ UNCHANGED <<test, unsent, unanswered, aborted, prom, before,
                   timer, ledger, sinkFails, forwardVars, facts>>

\* The last look at the metrics, and the verdict
ReadMetrics ==
    /\ step = "fresh"
    /\ \E c \in {promFile.counts, NoCounts} : FreshFile(c) /\ Judge(stats, prom', c)
    /\ step' = "done"
    /\ UNCHANGED <<test, unsent, unanswered, aborted, after, before, stats,
                   timer, ledger, sinkFails, forwardVars, facts>>

Main ==
    \/ ReadBaseline \/ ResetSink \/ SetFailing \/ EndSending \/ EndWaiting \/ Restore
    \/ ReadStats \/ ReadMetrics

\* What otelfwd does after the test is of no interest
Environment == step # "done" /\ (Forward \/ WriteMetrics \/ NextSecond)

LoadTestNext ==
    \/ Main \/ TimerEnds \/ (\E p \in Places : SendRequest(p)) \/ Abort
    \/ Environment

-----------------------------------------------------------------------------
\* PASS is only said when it is so (nginx/README.md:295): every event of this run arrived, or the
\* backup endpoint took something, or every event was refused and none was taken or kept before
\* the last look, whatever an earlier run left in otelfwd and however the metrics file, the
\* answers and the records interleave.  Where a record of an earlier run took the place of an
\* event, the test cannot see whether that event arrived too.
PassIsTrue ==
    verdict = "pass" =>
        /\ test.mode # "reject" => Places \subseteq facts.arrived \cup facts.earlier
        /\ test.mode = "failover" => facts.backup
        /\ test.mode = "reject" => facts.arrived = {} /\ ~facts.kept

\* However the test ends, it leaves no sink which fails (loadtest.cpp:865), unless both requests
\* which end that were lost, or the sink did not answer the one which begins it.
SinkIsLeftWorking ==
    step = "done" /\ sinkFails => "set" \in facts.lost \/ {"timer", "main"} \subseteq facts.lost

\* What has arrived for all places
Received(slots) ==
    LET upTo[i \in 0..Len(slots)] == IF i = 0 THEN 0 ELSE upTo[i - 1] + slots[i].received
    IN  upTo[Len(slots)]

\* The counters of the ledger are those of its slots, in whatever order events, repeated events
\* and the lines which name them arrive (test_ledger.hpp:405 and following).
LedgerCounts ==
    LET received == {i \in DOMAIN ledger.slots : ledger.slots[i].received > 0}
        reported == {i \in DOMAIN ledger.slots : ledger.slots[i].reported}
    IN  /\ ledger.unique = Cardinality(received)
        /\ ledger.deliveries = Received(ledger.slots)
        /\ ledger.reportedLost = Cardinality(reported)
        /\ ledger.reportedMissing = Cardinality(reported \ received)
        /\ ledger.conflicts <= ledger.deliveries - ledger.unique
=============================================================================
