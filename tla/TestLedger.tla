----------------------------- MODULE TestLedger -----------------------------
(***************************************************************************)
(* The class Ledger of test_ledger.hpp: what the test receiver has seen of *)
(* a load test.  The operators are functions of a ledger (the members of   *)
(* the class); every one of them runs under its mutex.                     *)
(*                                                                         *)
(* A place is a pair of a thread and a count, and the range of the test is *)
(* 1..expected.  A record is an event of a test (test is TRUE: its url     *)
(* path names a place and the time it was sent) or a line in which NGINX   *)
(* names the place of a request it could not log (test is FALSE).  The     *)
(* times of the events are those of the run which sent them.               *)
(***************************************************************************)
EXTENDS Integers, Sequences

NewSlot == [received |-> 0, sent |-> 0, reported |-> FALSE]

NoLedger ==
    [active |-> FALSE, expected |-> 0, slots |-> <<>>, unique |-> 0, deliveries |-> 0,
     unexpected |-> 0, conflicts |-> 0, reportedLost |-> 0, reportedMissing |-> 0]

\* Reset: POST /test/reset
Reset(n) ==
    [NoLedger EXCEPT !.active = TRUE, !.expected = n, !.slots = [i \in 1..n |-> NewSlot]]

InRange(ledger, record) == ledger.active /\ record.place \in 1..ledger.expected

\* MUTANT of Report: the event may have arrived before
ReportAlways(ledger, record) ==
    IF ~InRange(ledger, record) \/ ledger.slots[record.place].reported THEN ledger
    ELSE [ledger EXCEPT !.slots[record.place].reported = TRUE,
                        !.reportedLost = @ + 1,
                        !.reportedMissing = @ + 1]

\* NGINX names a request which it could not log
Report(ledger, record) ==
    IF ~InRange(ledger, record) \/ ledger.slots[record.place].reported THEN ledger
    ELSE [ledger EXCEPT !.slots[record.place].reported = TRUE,
                        !.reportedLost = @ + 1,
                        !.reportedMissing = @ + IF ledger.slots[record.place].received = 0 THEN 1 ELSE 0]

First(ledger, record) ==
    LET slot == ledger.slots[record.place]
    IN  [ledger EXCEPT
            !.slots[record.place].received = 1,
            !.slots[record.place].sent = record.run,
            !.unique = @ + 1,
            !.reportedMissing = @ - IF slot.reported /\ @ > 0 THEN 1 ELSE 0]

Again(ledger, record) ==
    [ledger EXCEPT
        !.slots[record.place].received = @ + 1,
        !.conflicts = @ + IF ledger.slots[record.place].sent # record.run THEN 1 ELSE 0]

Arrive(ledger, record) ==
    IF ~InRange(ledger, record) THEN [ledger EXCEPT !.unexpected = @ + 1]
    ELSE LET seen == [ledger EXCEPT !.deliveries = @ + 1]
         IN  IF ledger.slots[record.place].received = 0 THEN First(seen, record) ELSE Again(seen, record)

\* The lines in a request in which NGINX names requests
Reports(ledger, records) ==
    LET after[i \in 0..Len(records)] ==
            IF i = 0 THEN ledger
            ELSE IF records[i].test THEN after[i - 1] ELSE Report(after[i - 1], records[i])
    IN  after[Len(records)]

\* The events in a request
Arrivals(ledger, records) ==
    LET after[i \in 0..Len(records)] ==
            IF i = 0 THEN ledger
            ELSE IF records[i].test THEN Arrive(after[i - 1], records[i]) ELSE after[i - 1]
    IN  after[Len(records)]

\* ProcessOtlp: the records of a request, the lines of NGINX first
ProcessOtlp(ledger, records) == Arrivals(Reports(ledger, records), records)

\* What StatsJson adds to the counters
Missing(ledger) == ledger.expected - ledger.unique
=============================================================================
