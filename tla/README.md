# Verification of the Domino Log Forwarder

Formal models of the Domino Log Forwarder in TLA+, checked with TLC on small
instances, with proofs which TLAPS checks for every size. Paths and line
numbers are those of the repository this project lives beside.

1. [The system](#the-system): components, state, interactions, what is hard
2. [The modules](#the-modules): which module models what, and how
3. [The runs](#the-runs): what is checked, with which bounds and fairness
4. [The proofs](#the-proofs)
5. [Where the code and its documentation differ](#where-the-code-and-its-documentation-differ)
6. [What is not modelled](#what-is-not-modelled)
7. [The plan](#the-plan)

## The system

Log lines go from HCL Domino, NGINX, a file or a socket to an OpenTelemetry
receiver, over programs which must neither lose them nor block their senders.

    Domino server                      otelfwd (one process)
    +--------------------------+       +------------------------------------------------------+
    | domfwd add-in            |       |  socket/TCP/syslog/file thread   main thread (STDIN) |
    |  event -> DurableLine    | unix  |        \       |                     /               |
    |  Sender                  | sock. |         v      v                    v                |
    |   |          |           +------>|             log_fifo (queue) --> push thread         |
    |  LineSocket  SimpleWAL   |  TCP  |                                  |         |         |
    |  Sender      (disk)      |       |   FileCommitSlot <---- safe -----+   PushFailover -> receivers
    +--------------------------+       |        |                         v         ^         |
                                       |   file thread: Commit        SimpleWAL --> WAL thread|
                                       +------------------------------------------------------+

### Components

| Part | Code | State | Operations |
|---|---|---|---|
| Write ahead log | `wal/simple_wal.*` | the WAL file, the commit file, the pending, checked and replaying flags, the peeked record | `Init`, destructor, `Append`, `Clear`, `Replay`, `Peek`, `Ack` |
| Endpoint failover | `push_failover.hpp`, `push_status.hpp` | the endpoint in use, the time of the next probe, counters | `Send`, `SwitchTo`, by the push thread and the WAL thread |
| File reader | `filereader/file_reader.*` | open file, buffer, generation, committed position, state file | `ReadLine`, `Commit`, opening, rotation, truncation |
| File input | `file_input.hpp`, `FileThread` in `otelfwd.cpp` | the commit slot, the position to try again | `Add`, `Take`, `CommitDeliveredFilePositions`, the last commit of `main` |
| Line sender | `domfwd/domfwd_socket.hpp` | connection state, the buffer with head, send position and tail | `Enqueue`, `Pump`, `Flush`, `Close`, `DropUnsent` |
| Durable sender | `domfwd/domfwd_durable.hpp` | a line sender and a WAL | `Send`, `Pump`, `Flush`, `Close` |
| Socket input | `otelfwd.cpp:1835-2050` | the connections, a buffer and a discard flag for each | accept, receive, split into lines, queue |
| Push pipeline | `otelfwd.cpp` | the queue, the running flags of the threads, the shutdown flag | STDIN loop, push thread, WAL thread, shutdown |
| Syslog input | `otelfwd.cpp:2179-2518` | none beyond the queue | receive and parse a datagram |
| Process names | `LoadPidMap`, `GetProcessName` in `otelfwd.cpp` | the map of ids and names, what `stat` said about `pid.nbf` | read the file again when it has changed, look a name up |
| Health and metrics | `health.hpp`, `UpdateHealth`, `WriteMetrics` | state, time of the last loss, last counters | `Update`, writing the file |
| OTLP conversion | `DecodeFlatRecord`, `BuildOtlpPayload`, `otlp_protobuf.hpp` | none | conversions |
| Domino add-in | `domfwd/domfwd.cpp` | event queue of the server, whether the sender is configured | `AddInMain`, event handling, the two drains of the shutdown |
| Mail record | `mail-log/mail_log.*` | the values which were set | setters, `Build`, `Clear` |
| Test tools | `test_ledger.hpp`, `tools/otel-sink`, `nginx/loadtest.cpp` | ledger of what was received, what the receiver is told to fail | reset, count, fail, judge |

### How they interact, and what is hard

- *Two threads use one WAL.* The push thread appends while the WAL thread
  replays. The function which delivers a record runs **without** the mutex
  (`simple_wal.cpp:560`), so everything read before that call can be old after
  it. A process can die between any two system calls, each of which can fail.
  Correct means: what `Append` accepted is delivered, at least once and for the
  first time in order, whatever happens in between; and the WAL is never stuck.
- *Two threads use one failover*, without a mutex: four atomic members, whose
  loads and stores interleave with requests of up to 15 seconds. Correct means:
  one request ends with the first final answer; at most one request is held up
  by a probe; a probe comes once in `FailbackSec`; and a primary which works
  again is used again.
- *The file belongs to another program*, which writes, renames, empties and
  starts again whenever it wants, also between the check of the file and the
  read. The position of a line goes through the queue, the push thread and the
  commit slot back to the thread which read it. Correct means: no complete line
  is lost or broken, and no position is saved before its lines are safe.
- *A connection breaks anywhere*, in the middle of a line too, and a line is
  counted as sent when the socket took it. The buffer has three offsets which
  move together. Correct means: the forwarder sees whole lines, in order, and
  a line which waits on disk gets there.
- *The queue couples everything.* It can be full while the shutdown runs; the
  push thread empties it, the inputs must have ended first. Correct means: a
  record which was taken is delivered, refused or in the WAL at the end, and the
  program does end.
- *A record changes its form up to four times* (mail object or message, flat
  record, JSON request, protobuf), and nobody but a receiver sees the result.
  Values have limits in each form. Correct means: a receiver reads what was
  meant, or the record is refused; nothing is left out on the way. The name of a
  process comes from a file which the server replaces or writes again while it
  is read.
- *An alert is made of counters which move while they are read*, one after the
  other. Correct means: a loss or an outage is always shown, and a restart of the
  receiver is no outage.
- *The add-in logs through the server, which makes events of its lines*, some
  time later and on the queue which the add-in frees at its end. Correct means:
  no such line finds the queue gone, and no event of the server is passed over.
- *A test says PASS after two looks at two programs*, between which records of
  this run and of an earlier one arrive, repeated or late, while requests get
  lost and a timer changes the receiver. Correct means: it says so only when it
  is so, and it leaves the receiver as it was.

The hazards, each at its line and with the properties which would catch it, are
in `PROJECT.json` (`hazards`).

## The modules

| Component | Specification | With fairness | Instance for TLC | Proofs |
|---|---|---|---|---|
| WAL | `SimpleWAL`, `SimpleWALInv`; abstract: `DurableQueue` | `SimpleWALLive` | `MCSimpleWAL`; `SimpleWALLive` with its own `.cfg` | `SimpleWAL_proofs` |
| Failover | `PushFailover` | `PushFailoverLive` | `MCPushFailover` | `PushFailover_proofs` |
| File reader, file input | `FileReader`, composed in `FileInput` | `FileInputLive` | `MCFileInput`, `MCFileInputLive` | `FileInput_proofs` |
| Line sender, durable sender | `DomfwdSocket`, composed in `DomfwdDurable` | `DomfwdLive` | `MCDomfwd` | `DomfwdDurable_proofs` |
| Socket input, pipeline | `Ingest`, composed in `Pipeline` | `Pipeline` | `MCPipeline` | `Pipeline_proofs` |
| Mail record, flat records, syslog, requests, process names, UTF-8 | `JsonValue`, `MailLog`, `LogRecord`, `SyslogMessage`, `OtlpPayload`, `OtlpProtobuf`, `ProcessNames`, `Utf8`, composed in `Records`; reference: `Receiver` | | `MCRecords` | `Records_proofs` |
| Health, add-in, load test | `HealthMonitor` in `Health`, `AddIn`, `TestLedger` in `LoadTest`, composed in `Operation` | `AddIn` | `MCOperation` | `Operation_proofs`, `LoadTest_proofs` |

Conventions. A *cell* is a piece of data which is written, sent or cut as one:
the head and the body of a record, a piece of the text of a line, a new line.
Lines and records are numbers in the order in which they were created, so that
order and loss can be seen. Variables marked *history* do not influence a step;
they remember what a property speaks about. A definition whose name stands
behind "MUTANT of" is a plausible mistake in the code; no specification uses it,
and `PROJECT.json` (`mutants`) says which property finds it. `PROJECT.json`
(`map`) gives the source lines of every definition.

The word `spoiled` (WAL, file input) needs an explanation. Both components
promise that nothing is lost, and both have a few situations in which they lose
something. Each such situation puts a mark into `spoiled` at the moment it
happens, and the safety properties speak about behaviours without marks. Where
the documentation promises otherwise, a run of its own shows the loss (see
[below](#where-the-code-and-its-documentation-differ)); the other marks are
explained with their module.

### SimpleWAL: one object, two files, any number of threads

| Model | Code |
|---|---|
| `file` (cells), `commit` | `<path>`, `<path>.commit` |
| `isOpen`, `pending`, `commitChecked`, `replaying` | `m_fd >= 0`, `m_PendingReplay`, `m_bCommitChecked`, `m_bReplaying` |
| `peekNext` (0 when nothing was peeked or the epoch has changed) | `m_PeekOffset` + 4 + `m_PeekLen`, while `m_bPeeked` and `m_PeekEpoch = m_PositionEpoch` |
| `Open`, `Close`, `Crash` | `Init`, the destructor, the end of the process at any point |
| `AppendStored`, `AppendTorn`, `Clear` | `Append`, `Clear`, one locked region each, with every outcome of the writes |
| `ReplayStart`, `ReplayRead...`, `Consume...`, `ReplayEnd`, `ReplayGive` | `Replay`: a locked start, a locked read per record, the call of the application without the mutex, a locked end |
| `Peek...`, `HandleRecord`, `Ack...` | `Peek`, the application, `Ack` |

The mutex makes one step of every locked region, and the model is not finer: what
can come between two system calls of a region is a crash or a failure, and a
failure of the second call followed by `Crash` leaves the same files. A record
is two cells, so offsets count cells and a record which was cut off is a head
without body. Whoever reads from an offset which is no start of a record finds a
length nobody wrote, which is any value. The epoch which tells an old `Ack` from
a good one is the value 0 of `peekNext`.

Left out: the sizes of records (the limit counts cells), the message about a full
WAL and its flag `m_bFullLogged`, the content of the `.corrupt` file, `Init` of
an object which is open, and power loss (the code calls no `fsync` for a record
and says so; a crash is the end of the process).

Marks: `"torn"` and `"commit"` have their runs. `"clear"`: `Clear` empties the
WAL while a `Replay` is between two records, and `Append` fills it again before
the `Replay` goes on; the old position is then used for the new records.
`otelfwd` never calls `Clear`. `"fits"`: a commit file which was damaged from
outside has by chance a value which looks like a good position.

`DurableQueue` is what a WAL promises: what was accepted waits until it is
delivered or given up, only the oldest is delivered for the first time, and a
repeated delivery changes nothing. `ImplementsQueue` is the refinement:
`waiting` is the set of accepted records which are whole in the file and
neither delivered nor discarded.

### PushFailover: atomic members and time

Every load, store, compare-exchange and exchange of `Send` and `SwitchTo` is a
step of a thread, and so is the answer to a request. `Start`, `Load`, `Claim`,
`Answer`, `StoreNextProbe` and `Exchange` follow the code in order; `pc` names
the call or the access which comes next. All times are relative to now
(`nextProbe`, `sent`, `loaded`), so the state space is finite without a bound on
time; what is too long ago to make a difference is one value. Time passes only
while a request is on its way, which is where the seconds go, up to the timeout
of that request. The counters of the class are left out: they are only ever
incremented, and read for the metrics. `quiet` (history) is the time since the
youngest `Now` of a probe or a failover, and `late` (history) how much older the
`Now` was which set the time of the next probe last: a thread which was held up
by requests can fail over behind a younger one and set that time back.

The instance has `FailbackSec` larger than the longest call of `Send`, as with
the default (60 seconds against a probe of 5 and two requests of 15). With a smaller value a thread which
holds an old `Now` finds a time which is already over, and two threads can
probe at once: the code allows any positive value of the setting.

### FileReader and FileInput: a file somebody else writes

The writer (`WriteText`, `WriteNewLine`, `Reopen`) and whoever rotates
(`MoveAway`, `CreateFile`, `Truncate`) run between any two steps of the reader.
A `ReadLine` has the steps `OpenFile`, `ExtractLine` (a line of the buffer is
returned), `CheckFile` (`fstat`, the fingerprint, a new start), `FillBuffer`
(`pread`) and the end of the file: `SeeRotation`, `EmitRemainder`, `CloseFile`,
`ReturnIncomplete`. `FileInput` adds the round of the file thread with its
commit, the queue, the push thread and its commit slot, `main` which commits
the last position, crashes, shutdown and restart.

The settings (`SetStartAtEnd`, `SetIncompleteLineSeconds`) are chosen at the
start together with the bounds (`Settings`, `setting`): one instance has short
lines and the default settings, one a line which is longer than the
limit, incomplete lines and a start at the end, and one a line which grows while
incomplete lines are returned. The fingerprint is the content
it is a hash of. The carriage return,
messages and failures of `open`, `fstat` and `pread` (which change nothing) are
left out. The queue of the model keeps a batch until the push thread is done
with it, and the push thread is there (that it may fail to start is in `Pipeline`). `gone` are the losses which the documentation names: what a writer adds
to a file long after it was rotated, what a truncation takes away before it was
read, what is in a rotated file when the program starts, and a batch which finds
the WAL full.

Marks: `"changed"` has its run. `"passed"`: two rotations come while the reader
is at an older file, and the one in between is never opened. `"mixed"`: the file
is emptied and written again between the check and the read, or its start is
shorter than the fingerprint and comes again the same. `"unseen"`: the same for
a file which a restart finds.

Two details a reader of the code may miss. `FileReader::Commit` refuses a
position behind what was read (`file_reader.cpp:562`), which cannot happen while
the file is open, but does after `CloseFile`, and the position is
then tried again until the next file is open and it is ignored. And a position
which could not be saved (`bRetry` of the file thread) is forgotten at the
shutdown: `main` looks only at the slot (`otelfwd.cpp:4162`), so lines can be
repeated by the next start. `StopSavesAll` is therefore stated for `retry = Nowhere`.

### DomfwdSocket and DomfwdDurable: one thread, a connection, a WAL

`mem` is the buffer, cell by cell, and `head`, `sendPos`, `tail` and `lines` are
the members of the class; a cell outside of them is `Free`, and reading it would
show up in the stream. `Pump` is one step for each system call: connect, check,
the look for a closed peer, `send` of any part. `DomfwdDurable` has `Send` with
its three ways (memory, WAL, refused), the drain of the WAL below the low water
mark, `Flush` with its timeout and the move of the rest to the WAL, `Close`,
crashes and restarts, with or without a WAL. The forwarder reads any part, sees
the end, and closes at any time.

The WAL is used through `Append`, `Peek` and `Ack`, so here it is the list of
its records and a position which a crash can set back to the start: the
refinement of the WAL to `DurableQueue` says why that is enough.
`owed` are the lines which may not be lost. The header of `domfwd_durable.hpp`
names what may: lines written to a connection which breaks, lines in memory at
a crash, and what a full WAL refuses. `late` are lines which `Flush` writes to
the WAL behind younger ones, or whose WAL could not be opened for a run.

### Ingest and Pipeline: the threads of otelfwd

`Ingest` is the thread of a socket input: `poll`, `recv` of any piece or the end,
`IngestProcessBuffer`, the limits, `IngestHandleLine`, `accept`. `Pipeline` adds the
main thread (STDIN, the signal, the orderly shutdown), the push thread
(`PushLoop`, `PopBatch` and what a push ends with) and the WAL thread.

Only a whole line is a JSON object: a piece of one is rejected, which `broken`
remembers. The main thread waits 10 seconds for the inputs; the model waits
until they have ended, since they look at the flag every second. It waits 300
seconds for the push thread; the model lets it give up at any time and calls
it `impatient`. `PushStarts` may fail, as `curl_easy_init` may: the push thread is
then gone (`"failed"`), while the inputs go on and the shutdown is as usual.
`Abandoned` names the exits at which records are left behind: that one, a shutdown
before the first look of the push thread (`early`), and `impatient`. There is one socket input and STDIN; two socket inputs would be
the same thread twice with the same queue. The WAL is again a list and a
position. Crashes are those of `SimpleWAL` and `FileInput`.

### Records: what is meant, what is sent, what is read

| Model | Code |
|---|---|
| `MailLog`: `mail`, one action per kind of setter, `Clear`, `Build` | the class `MailLog` |
| `LogRecord`: `DecodeFlatRecord` (what it makes of an object is `FlatRecord`), `ExtractProcessId`, `SetStdinAttributes` | the functions of `otelfwd.cpp` which fill a `LogRecord` |
| `SyslogMessage`: `DecodeSyslogMessage` (the record of a message is `SyslogRecord`) | `ParseSyslogMessage` and what `SyslogThread` makes of it |
| `OtlpPayload`: `BuildOtlpPayload` with its groups | the same |
| `OtlpProtobuf`: `Convert`, byte by byte for tags, lengths and numbers | `ConvertOtlpJsonToProtobuf` |
| `Utf8`: `ToValidUtf8` | the same |
| `ProcessNames`: `OpenPidFile`, `StatPidFile`, `ReadPidFile`, and the server which starts processes and replaces, empties and writes the file in between | `LoadPidMap`, `GetProcessName` |
| `Records`: producers, the queue, the batch, the push | the inputs and `PushLoop`, as far as a record changes in them |

A record is data here, and the properties compare what a producer meant with
what a receiver reads. `Receiver` is the reader, written from the definition of
OTLP and not from the code: it knows the fields and types of the messages,
decodes protobuf cells, and says what the calls of a mail program ask for
(`MailSays`) and in which order a request should have its records (`InGroups`).
It extends what it reads, `Records`, `OtlpPayload` and `OtlpProtobuf`, and states
`MailArrives`, `PayloadIsBatch`, `RequestIsPayload` and `InputsAreRead`. Which
characters a text of bytes has (`Replaced`, from the ranges of UTF-8) is in `Utf8`,
beside the function of the code; `TextIsValid` and `ProcessesAreNamed` are in `Records`.

JSON is a value, with its escaped strings and the text of its numbers. The
parser and the writer are rapidjson: they are the parameters `Parse` and `JsonText`
of `JsonValue`, and the instance gives them what rapidjson does (`ReadJson`,
`WriteJson` in `Receiver`). Numbers keep
their width, with small widths: `Bits` 16 stands for 64, `PidBits` 8 for 32.
The unit of time is a hundredth of a second (`FracDigits` 2 for 9) and two
floating point numbers of seconds are `DoubleStep` units apart, so that a time
which is sent as a number loses its last digits as it does in the code.
`missed` (history) marks the one race of the names which loses something: the
server replaces `pid.nbf` between the `open` and the `stat`, and the code takes
the old content for the new one until the file changes again.

### HealthMonitor and Health: counters which are read one after the other

`HealthMonitor` is the class of `health.hpp`, as functions of its members, the
time and the input. `Health` is what feeds it. In `otelfwd` the push thread and
the WAL thread count (`PushAccepted`, `PushFails` and so on), and the metrics
thread reads one counter, then the other, then calls `Update` (`ReadSuccess`,
`ReadErrors`, `UpdateHealth`); between a failed push and the moment its record
is in the WAL, or refused, anything can happen (`keeping`). In `domfwd` one
thread looks at its sender (`UpdateDomfwd`). Time runs in steps of some minutes,
with one update in each, at any moment between the events of the step. `truth`
(history) is when something really happened, and what of it had happened at the
last look.

### AddIn: the main loop in the server, and its own lines

`StartCycle`, `Pump`, `GetEvent`, `EndCycle` and `GetFails` are one round of
`AddInMain`; `Quit`, the two drains (`DrainEvent`, `DrainWaits`, `DrainEnds`)
and `ShutdownSocket` its end. Every line which the add-in logs is an event which
the server posts up to `PostSteps` later (`onItsWay`, by age); lines may overtake
each other. In the drains time runs in steps of 50 milliseconds. `cutOff` (history) names
the drains which ended at a limit and not because it was quiet. An event whose
memory cannot be locked is lost (`EventIsLost`; `unlocked`, history): the main loop
logs that, a drain does not. At the shutdown the sender logs one to three lines, and
those of its connection while it is flushed. What the sender
does with an event is in `DomfwdDurable`.

### TestLedger and LoadTest: when PASS is said

`TestLedger` is the ledger of the test receiver, as functions of it. `LoadTest`
has `main` of the load test in its steps, from the baseline over the reset, the sender threads and
the timer to the last looks and the verdict; the receiver, which can be told
to fail; and as environment NGINX and `otelfwd`, which lose, repeat, delay and
refuse what they like, write the metrics file when they like, and may hold
records of an earlier run. Every request of the load test to the receiver can
be lost on its way or lose its answer. `facts` (history) is what really arrived.

### Operation

`Operation` composes the last three for one run: they share no state, and
`part` says which of them runs.

## The runs

States are distinct states; every run explores its instance completely.

| Run | Instance | States | Question |
|---|---|---|---|
| `wal` | 3 records, 2 replaying threads, a consumer with `Peek`, no limit | 727,000 | is a promise of the WAL broken by any interleaving, crash, failure or damaged commit file? |
| `wal_live` | 2 records, a limit of one and a half | 159,000 | is every accepted record delivered, and a full WAL emptied, once receiver and disk work? |
| `wal_torn` | 2 records | violation | a record behind one which was cut off |
| `wal_commit` | 2 records | violation | a wrong commit file after its first use |
| `failover` | 2 threads, timeouts of 2 and 1 seconds, failback after 9 | 717,000 | do the rules of the failover hold, and is a working primary used again? |
| `file` | 2 lines of one piece, 2 inodes, 2 rotations or truncations, a queue of 2; or 1 line of 3 pieces with a limit of 2, incomplete lines, start at the end; or 1 line of 2 pieces, incomplete lines, one rotation or truncation | 3,934,000 | is a line lost, broken, out of order, or skipped by a saved position? |
| `file_live` | 2 lines, a queue of 1, one rotation or truncation | 378,000 | is every complete line delivered? |
| `file_changed` | as `file`, one rotation or truncation | violation | a crash after the reader went over to the next file |
| `domfwd` | 3 lines of lengths 1, 2, 1, a queue of 2, 5 cells of memory, a socket of 3 cells, a WAL of 2 records, one connection at a time | 238,000 | whole lines, in order, none lost, and all of them there in the end |
| `pipeline` | a WAL of 2 records, a queue of 1, and one of: 2 clients with one place and a line of 3 cells with a limit of 1; the same client and a line of STDIN; a client with a short line and 2 lines of STDIN | 467,000 | is a record lost from accept to exit, is framing right for every way a stream is cut, is the order kept, does the queue keep a record, and does the shutdown end? |
| `records` | one of six installations: a mail program with up to 3 of 19 calls; up to 4 flat records, a queue and batch of 3; 2 flat records or syslog messages; 2 lines of the console with 2 starts and 3 changes of `pid.nbf`; requests of another version; texts of 3 bytes | 346,000 | does a receiver read what was meant? |
| `operation` | health of `otelfwd` and `domfwd` over 7 steps of time and 3 events; the add-in with 2 events of the server; 3 kinds of a load test with up to 2 requests and 2 pushes | 2,895,000 | are losses and outages shown and has an alert a reason, does no own line find the queue gone, and is PASS true? |

### What the properties say

- **WAL.** `NoneLost`: every accepted record which is not delivered and not
  discarded is whole in the file, at or behind the saved position.
  `PendingSeen` (an open WAL whose flag is false has no whole record), `IInv`
  (the inductive invariant of the proofs, with `TypeOK` and `OneTaker`: one
  thread at a time delivers), `ImplementsQueue` (with it `FirstDeliveriesInOrder`);
  live: `AcceptedIsDelivered`, `FullIsTemporary`.
- **Failover.** `AnswerIsLast` (a request ends with the first final answer, and
  goes to the WAL only if every endpoint which was asked wants a retry),
  `OneProbe`, `ProbesAreApart` (no probe before `FailbackSec` is over since the
  youngest probe or failover, except by `late`, and `late` is at most two requests);
  live: `PrimaryIsUsedAgain`.
- **File.** `NoneLost`, `CrashSafe` (no saved position behind a line which is
  owed), `LinesAreWhole`, `SavedIsDelivered` (of the line in which a saved
  position is, a part in front of it was delivered: a position is saved only
  after a delivery),
  `FirstDeliveriesInOrder`, `StopSavesAll`; live: `LinesAreDelivered`.
- **domfwd.** `BufferOK` (offsets, count and cells agree), `StreamIsWhole`,
  `NoneLost` (and no more lines are moved between memory and WAL than there is
  room for), `ArriveInOrder`; live: `LinesArrive`.
- **Pipeline.** `LinesAreFramed`: a line which was received whole and is
  within the limit becomes a record, whatever stands before it, and what is
  handled and is no whole line is the start of the last one of a client
  which stopped in it, never the middle or the end of a line.
  `NoneLost` and, live, `QueueIsEmptied`, both up to `Abandoned` and a push thread
  which could not start; `StdinInOrder`; live: `ShutdownEnds`, without an exception.
- **Records.** `MailArrives` (the record of a mail says what the calls since the
  last `Clear` asked for), `PayloadIsBatch` (a request has every record once,
  under its own resource and scope: the groups in the order of their first records,
  no two of one origin, and the records of a group in the order of arrival),
  `RequestIsPayload` (protobuf says the same as the JSON, or the request is
  refused as a whole), `InputsAreRead` (flat records, syslog messages and
  console lines are read as they were meant, and every input is counted once),
  `ProcessesAreNamed` (a name is one which the process had, and a name which is
  in the file is found), `TextIsValid`.
- **Operation.** `AlertIsRaised` (the alerts about lost and rejected data and about
  outages; those about a WAL which fills or is not there are a function of the
  update which raises them, `State`, and have no property), `NoFalseAlarm`;
  `OwnLinesAreTaken`, live: `EventsAreForwarded` (except an event which could not be
  locked, or behind a drain of 10000 events); `PassIsTrue`, `SinkIsLeftWorking`, `LedgerCounts` (the
  counters are those of the slots, in whatever order things arrive).

### Why the bounds are enough

- *WAL.* Three records: one delivered, one in the hand of a replay, one appended
  behind it; two threads: one inside `Replay`, one refused. The proofs have no
  bound at all.
- *Failover.* The code knows two callers. The times are the smallest in which a
  probe is shorter than a request, and two requests and a probe shorter than the
  failback.
- *File.* Two rotations are what it takes to miss a file; two inodes are what it
  takes for one to come again; two lines are what a cut, an order or a commit
  between them needs. Three pieces of text are one more than the limit.
- *domfwd.* Three lines over a queue of two and a WAL of two: the WAL fills, the
  lines in memory wrap around the buffer (5 cells), and a line is sent in part
  (3 cells). One connection at a time: the next one is accepted when the
  forwarder has read the last to its end, so two connections which are read at
  the same time are not explored.
- *Pipeline.* One place for two clients is what a refused client needs. A queue
  of one is full at once, and batches of two are more than that. The three
  scenarios are the pairs of producers: two clients, a client with a long stream
  and STDIN, a client and two lines of STDIN. All of them at once are too large
  to be run with every change.
- *Records.* Three calls: two which may disturb each other and a `Clear`, or a
  value, its replacement and another kind. The inputs are the values at and next
  to the limits of every type (with 16 bits), both forms of a time, escaped
  text, a text whose length needs two bytes in protobuf, and every shape of a
  syslog header. Three flat records are the smallest batch in which grouping
  moves a record, and in which one origin could get two groups: A, B, A. A
  fourth finds the queue full. Two starts
  give a process id to two tasks; three changes replace, empty and write the
  file. Texts of up to three bytes take the bytes on both sides of every limit
  of UTF-8; a fourth byte is checked like the third.
- *Operation.* `WarnDown` 1 and `ErrorDown` 2 in seven steps of time: an outage
  can begin late, become an error, end, and be forgotten after `LostWindow`. A WAL of
  five records passes both limits with two and three. In the add-in a drain of
  four events, two quiet steps of three is every order of the limits. In the
  load test two requests are what two requests of one run and one record of an
  earlier run for the place of one need; two pushes carry them together
  or apart, or repeat one.

### Fairness

- `SimpleWALLive`: the thread of `otelfwd` which replays while `IsReplayPending`
  is true does so again and again (`WalThread`), a `Replay` which runs goes on,
  and from some time on the receiver accepts and the disk works. Other threads
  may do anything or nothing.
- `PushFailoverLive`: threads go on, an answer or a timeout comes (libcurl has
  both timeouts set), time passes, the push thread sends again, and from some
  time on the primary accepts. Nothing is assumed about the backup.
- `FileInputLive`: from some time on no crash and no new shutdown; the file
  thread, the push thread and the start of the program go on, and a batch finds
  the receiver or room in the WAL. Nothing is assumed about the writer.
- `DomfwdLive`: from some time on no crash, the forwarder reads and stays, the
  WAL works, the main loop of the add-in calls `Pump`; a program which could not
  open its WAL is stopped and started again some day.
- `Pipeline`: every thread which can go on does. The receiver may refuse or
  fail every request for ever: `QueueIsEmptied` and `ShutdownEnds` hold then too.
  That the main thread gives up after 300 seconds is not assumed.

- `AddIn`: the server calls the add-in again and again until it ends
  (`AddInIdle`), and posts what was logged. Events of the server, and the
  request to quit, come or do not come.

The first four have a variable `calm`: arbitrary behaviour first, from an
unknown moment on the assumption above. A liveness property then speaks about
what was left behind by everything before that moment.

Deadlock is checked everywhere but in `pipeline`, `records` and `operation`:
there the program, the add-in and the test end, or the inputs do.

## The proofs

`SimpleWAL_proofs` proves for any set of threads, any number of records and any
size limit, from `MaxRecordsAssumption` and `MaxSizeAssumption` only:

| Theorem | States |
|---|---|
| `TypeCorrect` | `Spec => []TypeOK` |
| `OneTakerHolds` | `Spec => []OneTaker` |
| `PendingSeenHolds` | `Spec => []PendingSeen` |
| `IInvHolds` | `Spec => []IInv` |
| `NoneLostHolds`, `FirstDeliveriesInOrderHolds`, `SavedNotAgainHolds` | follow from `IInv` |
| `ImplementsQueueHolds` | `Spec => ImplementsQueue`: every step is one of `DurableQueue` or a stutter |

`NoneLost` is not inductive: it does not say where a running `Replay` stands, nor
what a peeked record has to do with the file. `IInv` (`SimpleWALInv`) says it:

- `FileOK`: whole records in the order of their numbers, and at most one which
  was cut off, at the end, which nobody accepted;
- `Owed`: what is owed to the receiver is whole in the file;
- `Position(o)`: `o` is the end of the file or the start of a record, and nothing
  in front of it is owed; this holds of the saved position (`CommitOK`), of the
  offset of a running `Replay` (`ReplayOK`), and of the offset an `Ack` would
  save except for the record in hand (`PeekOK`);
- a record in the hand of the application is the oldest which is owed (`Oldest`),
  so its delivery keeps the order (`InOrder`).

The three facts `Init => IInv`, `IInv /\ [Next]_vars => IInv'` and `IInv => ...`
are proved action by action. Lemmas about the file come first (what appending
two cells, appending a head and emptying do to `Framed`, `Numbered` and
`Position`), and the steps which only move a position share one lemma. For the
refinement, every step is shown to be a step of the queue or to leave
`queueView` unchanged, using `Oldest` for a delivery. `IInv` is also an
invariant of the run `wal`.

### PushFailover_proofs

For any set of threads and any timeouts, from `FailbackAssumption` and
`TimeoutAssumption`:

| Theorem | States |
|---|---|
| `FInvHolds` | `Spec => []FInv`, the inductive invariant |
| `TypeCorrect` | `Spec => []TypeOK` |
| `AnswerIsLastHolds` | `Spec => []AnswerIsLast` |
| `ProbesAreApartHolds` | `Spec => ProbesAreApart` |
| `OneProbeHolds` | `FailbackSec > MaxSent => (Spec => []OneProbe)` |

What a call has heard is not in `AnswerIsLast` while the call goes on: `Told`
says it for every place of `Send`. For the times, `InTime` bounds how long a call
can have taken at each place, so that a `Now` which is used late is not older
than that, and `Apart` says how far the permission for the next probe is from
the last one. `ProbesAreApart` needs no condition on `FailbackSec`: what is missing of
it at a probe is `late`, which is bounded by the two requests of the call which was
late. (With a `FailbackSec` of two requests or less nothing may be left of it.) `OneProbeHolds` needs the condition: while a probe is made, the
next one is not due (`Probing`), which is only so if a call of `Send` ends before
`FailbackSec`. `MaxSent` is a probe and two requests, 35 seconds in the code; the
setting can be smaller (see [below](#where-the-code-and-its-documentation-differ)).

### Pipeline_proofs

For any clients, lines, limits and sizes of the queue, the batch and the WAL,
from `IngestAssumption`, `StreamAssumption`, `PipelineAssumption` and
`ScenarioAssumption`:

| Theorem | States |
|---|---|
| `NoneLostHolds` | `Spec => []NoneLost` |
| `StdinInOrderHolds` | `Spec => StdinInOrder` |
| `LinesAreFramedHolds` | `Spec => []LinesAreFramed` |

`NoneLost` speaks of what was accepted; to be inductive it needs how far the threads are (`Order`): the queue
is shut after the inputs have ended, the push thread ends when the queue is shut
and empty, and it has a batch only while it sends it. `Contents` types
the containers over the accepted records, and `Kept` is `NoneLost` while the
program runs.

For the order, `Queueing` says that the lines of STDIN are on one way: those in
the WAL come before those in the batch, these before those in the queue, which is
sorted, and all of them before those which are not read. `Kept` then says that
an earlier line which is in none of these was answered or refused. That the next
line which is read is the smallest one left exists because the order of the
natural numbers is well-founded.

`LinesAreFramed` says that the inputs are cut as they were written.
`StreamAssumption` says what a stream is: where a line starts, a whole line
follows. That does not restrict the clients, which stop at any place of it. The
property relates the new lines of a stream to what came out, and is not inductive
without what is between them. `Framing` adds, for every open client,
`RestIsKept`: the buffer is what was received since the last new line, or it is
empty, the client is discarding, and that was more than the limit; and for what
is still to be handled, that it is a whole line or the start of one, from a client
which stopped (`Item`).

A step of the input is a read, `ReadGets`: what `IngestProcessBuffer` gets is a
slice of the stream, from the last start of a line, or from the last read while it
discards. `LineToBody` shows that what stands before a new line in a slice is one
line of the stream, unless it is the first and the slice does not start with a
line; `RestIsFound` shows that what is behind the last one keeps `RestIsKept`; and
`LinesAreFound` that the first one is dropped only while the client discards, and
then it is longer than the limit. That `LinesIn` has every line once, in its
order, is counted: the ranks of the new lines are the numbers from 1 to how many
there are (`Ranks`, `LinesInAre`).

### DomfwdDurable_proofs

For any number of lines, of any lengths, any sizes of the queue, the buffer, the
socket and the WAL, and any number of connections, from the assumptions of
`DomfwdSocket` and `DomfwdDurable` on their constants:

| Theorem | States |
|---|---|
| `DInvHolds` | `Spec => []DInv`, the inductive invariant |
| `BufferOKHolds` | `Spec => []BufferOK` |
| `StreamIsWholeHolds` | `Spec => []StreamIsWhole` |
| `NoneLostHolds` | `Spec => []NoneLost`, with its bound `FewAreMoved` |
| `OInvHolds` | `Spec => [](DInv /\ OInv)`, the inductive invariant of the order |
| `ArriveInOrderHolds` | `Spec => ArriveInOrder` |

`WholeLines` counts and cuts; the proof uses `Framed`, which says of each cell
between two places that it is of a line, and of each new line that its whole line
is in front of it. `Shift`, `Extend` and `Cut` are what moving the buffer,
`Enqueue` and `CompleteSentLines` do to it. `Buffered` holds of the buffer,
`Streams` of each connection: what was read and what is on the way are whole
lines and the beginning of one more; with what is not sent yet, on the connection
which the sender has, they are whole lines.
`EnqueueKeeps` and `ForwardKeeps` (the buffer moves to its start, back to the
first byte of the first line) carry both. `NoneLost` rests on `Standing`, which
says what the thread may rely on at each place, and `Moves`: a record of the WAL
and a line which is in the buffer twice are lines which the WAL took once
(`spilled`), so a line which is removed from one place may be in the other, and of
these lines the queue never has more than the low water mark.

For the order, `Must` are the lines which may not come late, and `Follows` says
which of them come before a given line. In the socket and in the part of a line
which the forwarder keeps (`StreamsOrder`) all older ones are in front of it, on a
connection which the sender has closed (`Gone`), or received. In the buffer
(`BufferOrder`) they may also be on their way, in the WAL (`WaitingOrder`) also in
the queue. Two facts are about what may still happen: `RecordsOrder` orders
all records, because a crash may set the WAL back to its start, and `QueueOrder`
says for each line of the queue where it would come behind the records if `Flush`
moved it there. A line that `Flush` moves behind a younger record is one of `late`;
`Rests` adds that a sender which opens no WAL has made the lines in it late.
`StepInOrder` then looks at the two steps of the forwarder which read.

### FileInput_proofs

For any inodes, any number and lengths of lines, any settings, any sizes of the
reads, the fingerprint and the queue, and any number of rotations, truncations,
crashes and restarts, from `FileAssumption` and `InodesAssumption`:

| Theorem | States |
|---|---|
| `FInvHolds` | `Spec => []FInv`, the inductive invariant |
| `TypeOKHolds` | `Spec => []TypeOK`, with the sizes of the buffers |
| `NoneLostHolds` | `Spec => []NoneLost` |
| `CrashSafeHolds` | `Spec => []CrashSafe` |
| `SavedIsDeliveredHolds` | `Spec => []SavedIsDelivered` |
| `LinesAreWholeHolds` | `Spec => []LinesAreWhole` |
| `FirstDeliveriesInOrderHolds` | `Spec => FirstDeliveriesInOrder` |
| `StopSavesAllHolds` | `Spec => StopSavesAll` |

None of the properties is inductive, because none says what the reader has in
its hand. `FInv` does, in these parts:

- `FilesOK`: every file is a row of lines, each begun by its first piece, and only
  the one which is written ends in the middle of a line (`Shape`); `OldOK`: nothing
  anywhere is younger than what the writer has written.
- `Reading`: what the reader has is a part of its file at `bufferStart` (`Same`),
  or the file was emptied and starts with something else than the fingerprint
  (`Emptied`), which the next check will see (`WillChangeIs`). The whole proof
  is a distinction between these two: an offset means something in the first
  case only.
- `QueueCovers` and `PositionsCovered`: what is owed in front of a position is in
  the queue in front of the line which has that position. `Kept` says where
  everything owed is, `EmptiedCovers` what of an emptied file is still to come,
  `EndSeen` that a file which was moved away is closed at its end only.
- `StateOK`, `StateCovers`, `StateDelivered`: the same for the state file, whose
  inode may have become another file.
- `LinesEnd`: a position is in the line which was returned with it.
- `QueueOrder`, `FileOrder`, `NextOrder`: the queue, the buffer, the open file and
  the next one come in the order in which they were written.
- `CommitOK`, `PositionsOK`: what was committed is saved, and a position is one of
  the file which is open or of one before it; `QueueWhole`, `Standing`.

The actions come down to a few kinds of steps, each with its lemmas: the
reader goes on in its file (`Advances`), it begins another one (`Begins`), the
state is saved (`SaveKeeps`), something is owed no longer (`Fewer`), and nothing
which counts has moved (`Standstill`). A step of the writer or of a rotation is
shown to keep `Same`, or to turn it into `Emptied`, or to set a mark in `spoiled`.
The proof has shown that an earlier form of `SavedIsDelivered`, which claimed
everything in front of a saved position to be delivered, was too strong: a line
which is returned in parts has a position in the middle. The third setting of
the run `file` has such a line.

### LoadTest_proofs

For any tests and requests, any records of an earlier run, any number of pushes
and any time, from `LoadTestAssumption` and `EarlierAssumption` (an event of an
earlier run carries another time than those of this run):

| Theorem | States |
|---|---|
| `LedgerCountsHolds` | `Spec => []LedgerCounts` |
| `LInvHolds` | `Spec => []LInv`, the inductive invariant behind PASS |
| `PassIsTrueHolds` | `Spec => []PassIsTrue` |
| `SinkIsLeftWorkingHolds` | `Spec => []SinkIsLeftWorking` |

`ProcessOtlp` goes over the records of a request, and `LedgerCounts` sums up the
slots; both are recursive functions. `Recursion` shows that such a function
exists, `Induction` is the induction over its arguments, both from the
well-foundedness of the natural numbers (`LeastNat`): the library's own
induction theorems have an operator as a parameter, these have a set. So
the theorems hold for requests of any length. `ReceivedPut` says how the sum
changes with a slot, and `Counted` is kept by each record.

`PassIsTrue` relates a verdict to what really happened. `Arrived` says that the
slots are exactly the places of which something arrived as long as `main` looks
(`ProcessReaches`); `LookIs` turns the two counters which `main` sees, `missing`
and `unique`, into the sets behind them. `Metrics` and `Backups` order the reads
of the metrics: the base line was written before the first event was sent, a
file which is accepted at the end was written after the last look at the sink
(its time is a later second), and counters do not fall. `SinkInv` says
where `main` and the timer are while the receiver fails.

### Records_proofs

| Theorem | States |
|---|---|
| `RecordsInvariant` | `Spec => []RecordsInv`, the inductive invariant |
| `NamesAreKnownHolds` | `Spec => []NamesAreKnown` |
| `ProcessesAreNamedHolds` | `IdsAreRead /\ Spec => []ProcessesAreNamed` |
| `TextIsValidHolds` | `Spec => []TextIsValid` |

They hold for any lines, records, tasks, changes of `pid.nbf`, size of a batch
and length of the queue, and for any parser and writer of JSON, from
`NamesAssumption` and `RecordsAssumption` (bytes are numbers below 256, the
answer "no name" is not a task). `ProcessesAreNamed` has a hypothesis, `IdsAreRead`:
what `ExtractProcessId` reads in a line of the server is the id which the server
wrote there. It is about constants alone, and TLC evaluates it for the lines of the
instance (`LinesAreRead` in `MCRecords`).

- *Names.* What stat told about the file is kept before the file is read, so
  `NamesAreKnown` is not inductive: `Fresh` adds that between the two the file
  which will be read is the one which was looked at. `AllAreHad` is what makes a
  name true: it holds of every file the server ever wrote, also of the one which
  is still open after it was replaced.
- *Lines.* `AllMeant`: a record of STDIN in the queue or in the batch belongs to
  a line which arrived and has its text, so the process which is looked up is
  the one which wrote it. `Named`: of the records which are ready to be sent, each has
  a task which its process had, and the last one is without a name only if
  none was known when it was made ready.
- *UTF-8.* `ToValidUtf8` and its definition `Replaced` are both recursive
  functions of the place in the text. `CharacterIs` shows for each place that the code's
  tests of the first and second byte accept exactly the encodings of a character
  (`EncodedOne` to `EncodedFour`, with the arithmetic of the code points in
  `TwoBytes` to `FourBytes`), `CharactersAre` that at most one character begins at a
  place. `Utf8Is` concludes that the two functions take the same step everywhere and
  are equal, for texts of any length; a function which is defined by the same
  equation is the same function, so no induction is needed.

### Operation_proofs

| Theorem | States |
|---|---|
| `OwnLinesAreTakenHolds` | `Spec => []OwnLinesAreTaken` |
| `AlertIsRaisedHolds` | `Spec => []AlertIsRaised` |
| `NoFalseAlarmHolds` | `Spec => []NoFalseAlarm` |

- Add-in, from `AddInAssumption` (a line of the add-in comes in less time than
  the quiet time) and `OwnAssumption` (no event of the server is taken for one):
  after so many quiet steps no younger line is on its way (`Quieted`), and the
  second drain logs nothing new (`AddInv`).
- Health, from `HealthAssumption`: `HealthInv` relates the counters of
  the program, what the metrics thread has read of them, what the update before
  saw, and what the monitor keeps. The core is `OutageOfPushes`: from the first
  failure of an outage on, every accepted push has been seen, and the failing
  state comes with the update of the next step of time, wherever the thread
  stands between its two reads. The converse, `NoFalseAlarm`, also needs
  `ProgramsAssumption` (the limit of the WAL is a number); `AlarmInv` bounds the
  times which the monitor keeps by those of the events themselves.

### What is proved and what is only checked

Both proved and a property of a run: `IInv`, `PendingSeen`, `NoneLost` and
`ImplementsQueue` of the WAL; `AnswerIsLast`, `OneProbe` and `ProbesAreApart`;
`NoneLost`, `CrashSafe`, `SavedIsDelivered`, `LinesAreWhole`,
`FirstDeliveriesInOrder` and `StopSavesAll` of the file input; `BufferOK`,
`StreamIsWhole`, `NoneLost` and `ArriveInOrder` of the domfwd sender; `NoneLost`,
`StdinInOrder` and `LinesAreFramed` of the pipeline; `OwnLinesAreTaken`,
`AlertIsRaised`, `NoFalseAlarm`, `PassIsTrue`, `SinkIsLeftWorking` and `LedgerCounts`;
`ProcessesAreNamed` and `TextIsValid` of the records. `TypeOK`
and `OneTaker` of the WAL are parts of `IInv`, and `FirstDeliveriesInOrder` of the
WAL follows from `ImplementsQueue`.

Model-checked only: every liveness property, which is outside the reach of the
prover, and `MailArrives`, `PayloadIsBatch`, `RequestIsPayload` and `InputsAreRead`.
These four compare nested values with what a recursive reader makes of them, take strings
apart, character by character, and use folds with an operator as a parameter: strings have no
parts for the provers, and what a recursion over data computes is an induction
whose theorems they cannot instantiate.

## Where the code and its documentation differ

1. **A record behind one which was cut off** (`wal_torn`). `Init` keeps a record
   which a crash cut off at the end of the file, and `Append` writes behind it
   (`wal/simple_wal.cpp:387`). If no replay came in between, the length of the
   cut off part covers the new record: it is moved to the `.corrupt` file with
   it, or read as a part of it. `wal/simple_wal.hpp:17` and `wal/README.md:75`
   say "None is lost".
2. **A wrong commit file is rejected once and trusted then** (`wal_commit`).
   `GetReplayPosition` finds that the position does not fit and starts at 0, but
   leaves the file and sets `m_bCommitChecked` (`wal/simple_wal.cpp:712`). If
   nothing is saved in between, the next call uses the wrong value.
   The comment above says "a record can be delivered twice, none is lost".
3. **A crash after the reader went over to the next file** (`file_changed`).
   `OpenFile` saves the start of the new file at once
   (`filereader/file_reader.cpp:242`) while lines of the old one are in the
   queue. `filereader/file_reader.hpp:15` says that a crash repeats what was
   read and not committed, and "no line is lost".

Seen and not counted as a finding of its own, because the documentation does not
say otherwise or only in passing:

- *WAL and file.* The marks `"clear"`, `"fits"`, `"passed"`, `"mixed"` and `"unseen"`
  above; a batch which finds the WAL full, whose position is passed by the
  next one (`otelfwd.cpp:1657`).
- *Failover.* A `FailbackSec` below the time of a call of `Send` (35 seconds, the
  setting allows 1) lets two threads probe at once (`push_failover.hpp:35`).
- *Pipeline.* A push thread which cannot start (`curl_easy_init`,
  `otelfwd.cpp:1641`): the program goes on, takes records, and exits in order with
  them in the queue. A shutdown which comes before the push thread has looked once, or
  takes more than 300 seconds, after which records are neither pushed nor in the
  WAL (`README.md:157` says records received before a shutdown are pushed first);
  an over-long line which is accepted after all if its new line comes in the same
  `recv` (`README.md:437`).
- *Conversion.* The second of two members with the same name is dropped without
  an error, where `otlp_protobuf.hpp:21` says that every member is written
  (`BuildOtlpPayload` makes no such JSON); times which are sent as a number are rounded; a
  `pid.nbf` which is replaced between `open` and `stat` is taken for read.
- *Health.* `otelfwd` counts only refused pushes as rejected, where `health.hpp:14`
  says "or an invalid line"; an accepted push hides a failed one which comes later in the
  same interval; `domfwd` looks at its connection now and then, and a connection which was lost
  and made again in between was never lost; the last metrics file of a shutdown
  is written without a new `UpdateHealth`.
- *Add-in.* With verbose logging each event of the second drain writes a line,
  which is an event of the drain again (`domfwd.cpp:1727`): it ends at its limit.
- *Test tools.* A record of an earlier run which takes the place of a lost event
  counts as this event, and the test passes; the reset of the test leaves the fail
  status of the receiver; the answer and its status are shared by `main` and the
  timer thread.

## What is not modelled

- *Syslog input*: the creation and the removal of its socket, and a datagram
  which is too long. The thread takes one datagram at a time and tries the queue.
- *Texts*: of metrics files and their labels, of log lines, of reports, and the
  text and the types of the events of the server. The state behind them is modelled.
- *JSON as a text*: rapidjson parses and writes it; it is a value here, with
  escapes and numbers, and its reader and writer are parameters. The escapes are those
  of `"`, `\`, `\n`, `\r`, `\t` and `\f`; `\b` and the other control characters (`\u00xx`) are
  not in the instance, because TLA+ has no text for them.
- *Configuration and start*: read before any thread starts. The settings are the
  constants of the modules. The debug output and the direct push over libcurl of the
  add-in.
- *HTTP and TLS*: libcurl, with its timeouts, gives one of three results. HTTP and
  the files of the test receiver, and the latencies of the load test.
- *Power loss* (no `fsync` is promised), *a second process on the same files*,
  and *several inputs at once*.
- *Packaging, examples and tests*: no state of the system.

## The plan

Done: every component with state, in the order of how much a mistake costs;
the conversions; proofs for the WAL, the failover, the file input, the domfwd
sender, the pipeline, the records, the health, the add-in and the load test.

Left, in this order:

1. `DomfwdDurable`: an abstract queue for the sender as `DurableQueue` is for the
   WAL.
2. `Records`: `MailArrives` and `PayloadIsBatch` for every record. This asks for an
   induction over values and for strings as sequences, so for other provers.
3. Two socket inputs, or a socket and a file, on one queue: larger than what can
   be run with every change, unless the inputs are made more abstract.
