# Verification of bsdsocktest

bsdsocktest is a conformance test suite for AmigaOS `bsdsocket.library`
implementations: an Amiga program (`src/src/*.c`) that runs 142 documented tests
in 12 categories against whatever TCP/IP stack is installed, and a Python
program on another host (`src/host/bsdsocktest_helper.py`) that the network tests
talk to. This directory holds TLA+ models of it, the TLC configurations that
check them on small instances, and TLAPS proofs, for every value of the constants,
about the reporter and its pager, the main program, the helper's control channel and
data services, the benchmark loop, the pings, the stopwatch and what the tests borrow.

Paths below are relative to the repository; `PROJECT.json` maps every definition
to the lines it translates, and lists each run, mutant, finding, hazard and
theorem.

## 1. Inventory

| Component | Source | State it keeps | Operations |
|---|---|---|---|
| Reporter | `src/tap.c` | test number, four global counters, the open category with its counters, 16 failures to expand and 8 notes, four screen totals, bail-out flag, log file | `tap_init`, `tap_ok`, `tap_skip`, `tap_note`, `tap_begin_category`, `tap_end_category`, `tap_bail`, `tap_plan`, `tap_finish`, options |
| Pager | `src/tap.c` (`page_advance`, `page_check`, `wrap_rows`, `detect_screen_size`) | page mode, rows since the last page | one call per line printed; blocks in `Read()` at a full page |
| Known-failures table | `src/known_failures.c` | the active profile | `known_init`, `known_check`, `known_crash` |
| Main | `src/main.c` | options, filters, resources, loop position | startup, dispatch, shutdown |
| Library and timer | `src/testutil.c` | library base, timer port, request and device; errno pointer | open, close, wrappers of the library's calls, elapsed time, patterns |
| Helper client | `src/helper_proto.c` | control socket, connected flag | connect, `CONNECT`, `QUIT`, data services |
| Helper | `host/bsdsocktest_helper.py` | selector, current control connection and its buffer, data connections | accept, parse, call back, echo, sink, source |
| Tests | `src/test_*.c` | descriptors, a signal bit, event and signal masks, the errno pointer, the table size: all to be given back by the test that took them | 142 tests, each of which reports once |

How they interact. `main` calls the reporter directly, opens the library and the
timer, selects the profile of the detected stack, connects to the helper when
HOST is given, and calls one run function per selected category. Tests call
`tap_ok`/`tap_skip` and `tap_note`, consult `known_crash` before an operation
that takes an emulator down, and ask `helper_is_connected` before a network
test. `tap_ok` consults `known_check` by the running test number. Every line the
reporter prints goes through the pager, which may block the whole program at a
prompt; the answer may raise the Ctrl-C signal that main's loop and
`CHECK_CTRLC` between tests look for. The helper is a single thread which
dispatches batches of socket events and blocks while it calls an Amiga back.

What is hard, per component (the full list, with lines, is `hazards` in
`PROJECT.json`):

- Reporter: three sets of counters (global, category, screen) are updated at
  different moments; a bail-out interrupts between them and `tap_finish` then
  reads another set. Fixed arrays fill up. What must hold: no verdict is lost or
  counted twice, whatever the order of calls.
- Pager: rows of wrapped lines, the prompt's own row, lines that wrap and are counted
  as one row, lines printed without being counted. What must hold: no more leaves the
  window unseen than those overlooked.
- Main: Ctrl-C at any moment, failed startup steps with their own exits, filters.
  What must hold: resources are released on every exit, the reporter's calling
  contract is kept, the tests selected are the tests reported, the return code is
  the documented one, the run ends.
- Known failures: keyed by number, while numbers depend on the filter.
- Helper control channel: a crashed or late client, two Amigas, runs that follow
  each other closely, events of one batch that invalidate each other, exceptions that
  nothing catches. What must
  hold: one control connection, no call serves the wrong run, nobody hangs.
- Helper data services and the tests' transfer loops: blocking `sendall` against
  send-then-receive, ready descriptors that only report errors.
- Tests: any call that takes or asks for something may fail, and every path must still
  close, free, unregister and restore what it took, in an order in which a late event hits nothing that is
  gone. What must hold: everything is given back exactly once, the library keeps no
  reference to it, each path reports once, a sound stack passes.
- Stopwatch: seconds that wrap, microseconds that borrow, a product that wraps.
  What must hold: elapsed time is exact while it fits.

## 2. Modules

| Module | Models | Extends |
|---|---|---|
| `Report` | abstract: what a run promises its user | |
| `KnownFailures` | `known_failures.c` | |
| `Pager` | paging of `tap.c` | |
| `Tap` | the reporter's calls, and the calling contract `TapNext` | `KnownFailures`, `Pager` |
| `TapProperties` | its properties; the refinement mapping to `Report` | `Tap` |
| `TapProofs`, `TapCounterProofs` | proofs about it | `TapProperties` |
| `Suite` | `main.c` and the tests as users of the reporter | `TapProperties` |
| `SuiteProperties` | its properties | `Suite` |
| `SuiteProofs` | proofs about it | `SuiteProperties`, `TapCounterProofs` |
| `Catalogue` | the category table, profiles and guarded tests as data | |
| `HelperControl` | control channel: client, test 41, helper thread | |
| `HelperProperties` | its properties | `HelperControl` |
| `HelperProofs` | proofs about it | `HelperProperties` |
| `HelperData` | echo and sink services, tests 39, 42, 138 and 142 | |
| `DataProperties` | its properties | `HelperData` |
| `DataProofs` | proofs about it | `DataProperties` |
| `Timing` | the stopwatch of `testutil.c` | |
| `Ping` | `icmp_ping` and tests 132 to 136, with their properties | `Timing` |
| `PingProofs` | proofs about it and the stopwatch | `Ping` |
| `Pump` | loopback benchmarks 137 and 141, with their properties | |
| `PumpProofs` | proofs about it | `Pump` |
| `ResourceTests` | the calls of the tests of nine files, as sequences of steps | |
| `Resources` | the library, the task and the stack those steps act on, with their properties | `ResourceTests` |
| `Ledger` | the same steps followed on paper, for the proofs | `Resources` |
| `Diary` | on a sound stack, also the connections and events there are and what a test was told | `Ledger` |
| `ResourceProofs` | proofs about `Resources` | `Diary` |
| `MCTap`, `MCSuite`, `MCConformance`, `MCHelper`, `MCData`, `MCPump`, `MCPing`, `MCResources` | instances for TLC | |

### Tap and Pager

Variables have the source's names; `count`, `cat` and `screen` are records of
the four `*_count`, `cat_*` and `screen_*` variables. `log`, `plan`, `results`
and `exit_code` are histories of what went to the log file and was returned.
There is one action per API call. A call appends the lines it shows to `out`;
the pager prints them one at a time (`PageAdvance`), may block at a prompt
(`AtPrompt`, `PageKey`), and the next call starts only when `CallReturned`. That
keeps the interleaving that matters, between the calls, the user's keys and
Ctrl-C, without the text of a line. A line is `blank`, `checked` (followed by
`page_check`, so counted as one row), `wrapped` (counted as the rows `wrap_rows`
computes) or `uncounted` (the log-open warning, after which nothing is called). Each
but a blank one takes 1 to `MaxRows` rows, whatever it is counted as: the header, the
log path, a category's line, a bail-out and the results may be wider than the window.
`unseen` counts the rows really taken. The prompt takes one row, and the window
keeps its size during a run.

`TapNext` is the calling contract: the guards `Use...` say in which order `main`
and the tests call the reporter. `Suite` is checked to keep it
(`KeepsContract == TapSpec`), so what is proved about `TapSpec` holds in `Suite`.

### Suite

`pc` names the places of `main`, a label per call or branch. The startup actions
follow the code's failure exits, `held` is the set of resources acquired. A test
is its documented number; `RunTest` has one disjunct per way a test reports, a known
crash reported as a failure among them (what such a test still calls is a question
for `Resources`). `ran_any` and `unknown` are the code's mark of a category that ran
and the diagnosis drawn from it. What
the stack under test answers is free: any test in `Fallible` may pass, fail or
skip for want of a resource. `CheckBreak`/`CheckPassed` are `CHECK_CTRLC`, which
stands between two tests and not after the last one.

### HelperControl

A run of the suite is one control connection. Streams are sequences of protocol
lines; a close with unread input may lose what the peer has not read. The helper
takes a batch of ready descriptors (`Select`), then dispatches its events in any
order, which is what the code's `for` over `select()`'s result allows; an event
of a socket that was closed earlier in the batch counts as EOF. `calling` is the
half second of sleep and the blocking `connect` of `_handle_connect`, during
which nothing else is served. `timely` chooses whether answers always arrive
within the client's timeouts; without it, timeouts, crashes and lost calls happen
at any time. The helper's process ends, with every connection it or its backlog
holds (`ProcessEnds`), at a Ctrl-C (`Interrupted`) or when `accept()` raises for a
client that has already gone (`AcceptRaises`), which nothing catches
(`bsdsocktest_helper.py:119`); a run without a helper ends at its connect
(`ConnectRefused`). `ConnectionsAccepted` therefore promises that a connection in the
backlog is accepted or the helper has ended, and that it never ends for that reason
when every answer is in time. `machine` says which Amiga a run is on, since the helper calls an
address and not a run.

### HelperData

A transfer is one test and its connection. Bytes are counted and not named: `up`
and `down` are those on their way to and from the helper, `unsent` those in the
hands of a blocked `sendall`, and `Block` is the 8192 of one `send`. `SendBegins`
is a call of `send`, `SendProceeds` the stack taking its bytes, so that a test
blocked in `send` and the helper blocked in `sendall` can meet; nothing else is
dispatched while `at_helper = "sendall"`. `sound` is chosen at the start: without
it sends come up short, timeouts pass, bytes are garbled, the emulator crashes and
the helper may be stopped with Ctrl-C. `Leave` is the end of every test: closing
with unread input resets the connection, which costs the helper what it has not
read. An exception ends the helper and all its connections (`ProcessEnds`): Ctrl-C
(`Interrupted`), or an `accept()` whose client has gone, which nothing catches
(`AcceptRaises`).

### Pump

One pass of the loop is `WaitSelect`, `Send`, the checkpoint loop, `ShutDown` and
`Receive`, in that order, with the readiness found at the start of the pass; the stack
delivers (`Deliver`) or breaks a socket (`Break`) in between. `Checkpoint` is one turn
of the checkpoint loop: it writes the entry `cur_seg` of `seg_ms` and moves on. In
place of a time the entry has the bytes sent by then, which tells when it was written,
and the domain of `seg_ms` tells where. Test 137 is the loop without segments
(`TP_NUM_SEGMENTS = 0`, `Enough` nine tenths of `Target`).

### Ping

`loop` is the head of `icmp_ping`'s `while`, `wait` is inside `WaitSelect()`. A
packet is the number of the ping it replies to, or `Foreign`, which stands for
everything the other tests of the header reject, packets too short included. Each
ping reads the stopwatch of `Timing`: `ts_start` is the instant it started,
`elapsed` the microseconds since, and what the code sees of them goes through two
`bst_timestamp`s, so that a ping may start just before a wrap of the clock. `replied` is a history of
which pings were answered at all. The payload of a reply decides no result
(`test_icmp.c:137` only prints a mismatch, while `docs/TESTS.md:2703` expects an
intact payload), so it is not modelled.

### ResourceTests and Resources

A test is a sequence of steps, one per call that takes, registers, gives back or
reports something, with an `If` where the code branches on a result; most tests
share a shape (`PairTest`, `SocketTest`, `Observed`). `Resources` carries the steps
out: `todo` are the steps the test in hand has left, `fd` and `own` its locals, and
`lib` what the library keeps for its opener: open descriptors, listeners with a
waiting connection, the sockets watched for events, events due and queued, the two
signal masks, the pool of released sockets, where errno is written, the size of the
descriptor table. `allocated` and `raised` are the test's signal bit. A run takes
one category; the locals keep their old values from test to test, as the code's
variables do, so a descriptor closed twice or a number used after its socket is
gone shows (`misclosed`).

The stack is what the program tests, so it is chosen at the start. A `sound` one
fails no call, and delivers each event between its cause and the end of a wait for
it; on any other one every call that takes or asks for something may fail (what gives
back or sets, `CloseSocket`, `FreeSignal`, the masks and the errno pointer, does its
work in the model: that every descriptor is closed once means that the call is made
once), events may come late or never, and the event signal may be raised at any moment
it is registered. `accept()` without a waiting connection blocks (`AcceptWaits`). A
known crash is the `Fail` of `Spared` and nothing else, except that test 70 goes on to
the restore at its label.

What an answer of the stack decides beyond this is a verdict and nothing else
(`Verdicts`): addresses, options, data, error codes.

`Ledger` abstracts this for the proofs: a ledger is the steps a test has left and, in
place of descriptors and signals, what has become of each local (`none`, `open`,
`used`, `old`), whether the signal is allocated, raised or named by a mask, where
errno goes and how many reports were made. `Moves` says which ledgers a step leads to,
whatever the stack answers; `Fits` and `Settled` say what a step may be taken in and
what a test may end with. `BooksBalance` says that no ledger that any test can reach is
out of balance.

`Diary` adds what a verdict depends on when the stack is sound, by the locals concerned
and not by descriptors: the listeners with a connection waiting, the sockets watched,
the events due, queued and told (`got`), whether the signal is raised, what `connect()`
answered, and which sizes are known to be 64 or more. `DaysAfter` says what a step makes
of a day, `Comes` what an event does that may arrive between any two steps, and `Waits`
which steps wait for one. `Suits` says what a step may be taken in: there is a
descriptor for each call, a connection for each `accept()`, the right event for each
check, and nothing fails that is judged. `DiariesBalance` says that this holds of every
diary that any test can reach, in any interleaving with its events.

### Timing

Operators, not a state machine: `bst_timestamp` of an instant, `timer_elapsed_us`
of two of them in 32-bit arithmetic with its borrow, `timer_elapsed_ms` with its
rounding. `ULongRange` is 2^32 in the code; the proofs hold for any value, and the
instance of `MCPing` has a small one that wraps.

### Slips

A definition marked `slip` is a plausible bug of the definition after it: a reset
or a guard left out, an off-by-one, a wrong field. Nothing uses it. Each property
has one that it catches (`mutants` in `PROJECT.json`).

## 3. Runs

| Run | Instance | Shows |
|---|---|---|
| `tap` | 4 tests, 2 failures kept, 1 note, 4 rows, lines of up to 3 rows, 2 profiles | `TypeOK`, `CountersMatchLog`, `ScreenMatchesLog`, `FailureListExact`, `OnlyOverlookedScrollsOff`, and the refinement `KeepsPromise` of `Report`, for every sequence of calls |
| `suite` | 3 categories of 2, 2 and 1 tests; filter none, one category, an unknown one; every tier, HOST or not | `CleanExit`, `ExitDocumented`, `RunsExactlySelected`, `UnknownDiagnosed`, `KeepsContract`, `Terminates`, `BreakHonoured` |
| `conformance` | the real 142 tests, profiles and guards | `StableNumbers`, `KnownMeansListedWhenAllRun` |
| `conformance_filter` | the same, on Roadshow with `CATEGORY signals` | finding: a filtered run does not recognise known failures |
| `helper` | 2 runs, on one Amiga or two, timely or not; the helper may end | `OneControlConnection`, `CallsAnnounced`, `UndisturbedRunPasses`, `ConnectionsAccepted`, `RunsEnd` |
| `helper_back_to_back` | 2 runs on one Amiga | finding: an old event closes the new run's connection |
| `data` | an echo test of two blocks and a sink test of one and a half, over stacks that hold 2 up and 1 down | `BytesConserved`, `ConnectionsAccounted`, `NoEmbrace`, `SoundTransfersPass`, `TransfersEnd`, `ConnectionsForgotten` |
| `pump` | 10 bytes in 2 segments of 3, buffers of 4, a connection of 5; three kinds of stack | `SoundStackPasses`, `SegmentsTimed`, `PumpEnds` |
| `ping` | 3 pings, the last of them unanswerable; a timeout of 2 ms in ticks of a quarter, started at 0 or two ticks before the clock wraps; any number of other packets, 2 waiting at once | `WaitBounded`, `OwnReplyOnly`, `SoundPingsPass` |
| `pump_error` | the `pump` instance | finding: a descriptor in an error state keeps the loop running |
| `resources` | the nine files, each with a sound and any other stack, with the crashes Amiberry lists and with none; six descriptors | `GivenBackOnce`, `NoDanglingReference`, `ReportsOnce`, `SoundTestsPass`, `SoundTestsEnd` |
| `resources_crash` | the same | finding: test 70, listed as a crash, may still set the table size |

### Bounds, and why they are enough

- `MaxTests = 4`, `MAX_FAILURES_DISPLAY = 2`, `MAX_NOTES = 1` (16 and 8 in the
  code): four tests overflow the failure list by two, so the first, the last kept
  and the omitted failures are told apart, and a category may close and another
  open in between. All properties of `tap` are proved for every value.
- `ScreenRows = 4`: a page of two lines, so that lines of one, two and three rows
  meet the edge from both sides. `MaxRows = 3` is the first number at which a line may
  pass the edge by more than the row that is reserved. `PageOverrunBounded` says the
  same for windows and lines of any size, and `NothingEverScrollsOff` that nothing
  scrolls off where every line fits the width.
- `suite`: three categories, so that a bail-out can come before, in and after one;
  a known failure, a known crash and a network test in one category. `Fallible`
  restricts which tests need not pass, in `conformance` to test 35 (known on two
  stacks), since the tests' verdicts are independent of each other. All but the two
  liveness properties are proved for any table, options and verdicts.
- `helper`: two runs; a third adds no event that two do not have, as every run
  replaces at most one predecessor. The three invariants are proved for any number
  of runs on any number of machines.
- `data`: the echo test sends 4 bytes in blocks of 2 and the stacks hold 2 + 1,
  the tightest that works: `Fits` asks that all but one of the bytes sent find
  room (the one in the helper's hands). With `UpRoom = 1` TLC finds the test in
  `send` and the helper in `sendall` waiting for each other for ever. So tests 39
  and 42 rest on the two stacks holding 64 and 256 KB of echo between them (less
  the 8 KB block the helper holds), which the code neither states nor sets
  (`bsdsocktest_helper.py:225` makes the helper wait, and nothing makes the test
  read).
- `pump`: the target is no multiple of the buffer or of the segment, so that the
  last chunk is cut and bytes follow the last segment, as in the code (1 MB, 8 KB,
  ten times 100 KB). Unlike there, one send of four bytes may pass two boundaries, and
  a third one lies within the target, so that the loop's repetition and its array bound
  both matter; sends may also end on a boundary.
- `ping`: a ping has one predecessor whose reply comes late and one successor; four
  ticks to a millisecond show a remaining time that is rounded up (the bound of
  `WaitBounded` is reached). Processing takes no time in the model: on a machine
  so slow that reading a packet takes long, the wait grows by it once. `MCPing`
  also compares `timer_elapsed_us` with the difference of instants for all pairs
  up to 300, several times the range.
- `resources`: no test but 70 and 131 holds more than six descriptors in this
  model; those two open `Many = 3` (65, and up to 256 in the code), the first number
  of which one, some or none can be missing. Test 65 has two pairs instead of three
  and test 87 two rounds instead of fifty: the second pair or round is the first
  that meets what an earlier one left. An uninitialised `LONG` is 0 or 64, one value
  on either side of the condition that reads it. The four invariants are proved for
  any descriptors, any number of sockets, any value and any list of crashes.
  `EnoughDescriptors` says that there are six (the library has 64 or more):
  `SoundTestsPass` is about stacks that fail no call, and no call can be kept from
  failing without a descriptor. TLC evaluates `BooksBalance` and `DiariesBalance` here.

### Fairness

`FairSuiteSpec` assumes that main's thread runs on, which includes that a test in
hand reports in the end and that the user answers a prompt; nobody has to type
Ctrl-C. `FairControlSpec` assumes that the helper's loop runs on and that a run
that has begun takes its next step, of which a timeout is one: `recv`, `accept`
and the helper's `connect` all have one in the code. No run has to begin, and
none has to crash. `FairDataSpec` assumes the same of the helper's loop and of each
connected test; `send` has no timeout, and is taken to proceed while the stacks
have room. `FairPumpSpec` assumes that the loop runs on and that a sound stack
delivers; `WaitSelect` has a timeout of ten seconds, and no other stack has to
deliver anything. `FairResSpec` assumes that the tests' thread runs on, as far as
it is not blocked in `accept()`, and that a sound stack delivers its events.

## 4. Proofs

All theorems are about the specifications without fairness. Their assumptions are those
the modules state of their constants. Three
assumptions are not about a constant's value alone: `BoundsAssumption` of `Suite` says
that the bounds leave room for the table, and `BooksBalance` of `Ledger` and
`DiariesBalance` of `Diary` mention no constant, so that TLC decides them completely when
it evaluates them.

`TapProofs` proves `TapTypes == TapSpec => []TypeOK`: every variable keeps its
type, and the two arrays of a category are never written past their ends. It is
inductive as it stands, one lemma per group of calls. It then proves
`PageOverrunBounded` and `NothingEverScrollsOff` from `PagesInv`: a count is below the
edge before a line is printed and grows by one line at most, what was counted was
printed, and the one line that is printed without being counted, the log-open warning,
is the first of its page. The first theorem bounds what has scrolled off at a prompt by
the rows the code overlooks; the second is about a window in which no line wraps.

`TapCounterProofs` proves `CountersExact` and `ScreenExact`: `CountersMatchLog`
and `ScreenMatchesLog` hold in every run, of any number of tests. The inductive
invariant is `TypeOK /\ UnusedIsFresh /\ CountersMatchLog /\ ScreenMatchesLog`.
The types are needed because a count is the cardinality of a finite set of
positions of the log; `UnusedIsFresh` is needed because `tap_init` resets the
counters but not the history `log`, so that they agree afterwards only because
nothing was logged before. The key lemma is `LoggedAppend`: a line added to the
log counts under its own verdict and no other. Each kind of step then has a
lemma: calls that touch nothing of this (`AccountsKept`), opening
(`AccountsOpened`), a test (`AccountsTest`), a skip (`AccountsSkip`), and the
beginning and end of a category. Two more results rest on it.
`FailuresListedExactly`: the failures expanded under a category are its first
unexpected ones, in order, and none is left out while there is room; `FailuresInv` adds
that the tests of the open category are the last lines of the log. `ReportKept ==
TapSpec => KeepsPromise` is the refinement of `Report`: each call maps to one of its
steps (`TestRecords`, `BailAborts`, `FinishPublishes`) or to a stutter
(`ReportSpared`), where `OrderInv` says that a run starts clean and that only a bail-out
leaves a category open at the plan.

`SuiteProofs` proves all safety properties of `Suite` for any table of categories, any
options and profiles and any verdicts. `SuiteInv` has a part for each question:
`CallsInv` says what main has asked of the reporter at each `pc`, `CodeInv` what it
returns, `PlaceInv` where it is in the table, `HeldInv` exactly what it holds at each
place, and `LogInv` that the log has the selected tests up to that place, in order. It
is inductive together with the reporter's invariant: `ContractKept` maps each step of
main to a step of `TapSpec` or a stutter, so `SuiteReportKept` follows from `ReportKept`.
The documented numbers (`Base`) are defined by recursion over the table; what they need
(that the recursion defines numbers, which add up the sizes) is shown at the least
category where it would fail, from the well-founded order of the naturals.
`ExitAlwaysDocumented` rests on `FailuresCounted`: the counter the return code is made
from is not 0 exactly when a line of the log states an unexpected failure.
`UnknownAlwaysDiagnosed` has an invariant of its own, `MarkInv`: without a mark no
category that should run lies behind main's place in the table.
`RealCrashesGuarded` proves of the program's own table and profiles that every test
listed as a crash asks `known_crash` first.

`HelperProofs` proves `ControlTypes`, `OneControlConnectionAlways`,
`CallsAlwaysAnnounced` and `UndisturbedRunAlwaysPasses` for any number of runs on any
number of machines. `ControlInv` has six parts. `PlacedInv` puts each connection in
exactly one place (not made, in the backlog, current, closed), which gives the first
theorem. `ThreadInv` says what the helper's thread has in hand: a batch names only
connections that are or were watched, and while it calls an Amiga it has a current
connection and calls its machine. `TurnInv` says that the earlier runs of a machine
are accepted before the one that is going on, so a call that reaches a machine is not
one of a run to come. `AskedInv` counts a run's commands on their way, the helper's call
and the call's arrival: together one at most. `AloneInv` follows a run with no other
beside it, on a timely network, from `OK` to `GO` to the accepted call. Each action of
the client and each event of the helper has a lemma. The end of the helper
(`ProcessEndsKeeps`) serves two of them: a Ctrl-C is outside the timely network, and an
`accept()` raises only for a connection already gone, which is not that of a run still
being served (`GoneNotServed`).

`ResourceProofs` proves `AlwaysGivenBack`, `NeverDangling` and `AlwaysReportedOnce`,
and of sound stacks `SoundTestsAlwaysPass` and `AcceptNeverWaits`.
The scripts of the tests are data, and 142 of them are too many to go through by hand in
a proof; the descriptors, the events and the crash lists are unbounded, and TLC cannot
go through those. So the two share the work. TLC evaluates `BooksBalance`, which is
about the scripts and no instance: the ledgers a test can reach within `MaxSteps` are
closed under `Moves`, and all of them are balanced. The proof shows that a ledger is
right about `Resources`, whatever the descriptors and the stack: `Follows` relates a
ledger to the state (the locals it calls open hold different descriptors, those and the
ones of `open_many` are all that is open, the masks, the signal, errno and the reports
are as written), and for every action some ledger in `Moves` follows on. `ResInv` says
that during a test some ledger follows, and that between tests nothing is left
(`Clear`). The first three theorems are what balanced ledgers say of the state.

The other two rest on a second layer of the same kind. `SoundTestsPass` is not
inductive, since a verdict depends on which events have come, on which are still queued
or due, and on what earlier tests have left of them. `DiaryInv` says that on a sound
stack some diary is right about the test in hand (`Records`): it is one of those
`DiariesBalance` speaks of, its ledger is right as above, and `DayKept` says that the
numbers in `lib.pending`, `lib.watched` and `lib.due`, the events queued and the events
told are those of the locals the diary names. Between tests there are none of them
(`Still`), so that each test wakes to an empty day. A step of a test is followed on two
sides: `StepsCarried` gives a ledger, `StepsLived` a day, and `Smooth` says that the
step went the way `Sound` requires (a call did not fail, a round went on, nobody
waits); `TurnTaken` puts them together. That no call fails rests on `RoomLeft`: fewer
than six locals are open, so one of six descriptors is free. An event that arrives is
`ArriveDay`; it cannot arrive when a test is over (`NothingDue`), because a balanced
ledger has closed everything by then. `DeservedPasses` shows that what a diary calls
deserved is what the test passes. `AcceptNeverWaits` states that on a sound stack a
connection is waiting whenever a test calls `accept()`, the part of `SoundTestsEnd` that
needs no fairness.

`PumpProofs` proves `SoundStackAlwaysPasses` and `SegmentsAlwaysTimed` for every
target, buffer, segment and connection size. The inductive invariant `PumpInv` adds
to the types what the code never states: bytes on their way are those sent and not
received, and `send_done` is set exactly when everything is sent. With these, a sound
stack always has a descriptor ready while bytes are missing, so that the loop cannot be
left early. Of the checkpoint loop it says that the first boundary not timed lies ahead,
except while those just passed are being timed (`NextAhead`), and that each entry was
written by the send that passed its boundary (`TimedAtBoundary`).

`PingProofs` first proves of the stopwatch that `timer_elapsed_us` is the elapsed time
modulo the range of a ULONG for any two instants (`ElapsedModulo`), hence exact while it
fits (`ElapsedExact`), and that `timer_elapsed_ms` rounds to the nearest millisecond.
It then proves `WaitAlwaysBounded`, `OwnReplyAlways` and
`SoundPingsAlwaysPass` for any number of pings, timeout, clock and inbox. `ClockInv`
says that what has elapsed and what is left of the timeout never exceed it by half a
millisecond; it rests on `ElapsedExact` and `RoundedToNearest`, and needs the
assumption that a timeout and a millisecond fit the clock's range. `PingInv` adds
which packets can be in flight, and the invariant of sound pings that a reply in
time is never given up.

`DataProofs` proves `BytesAlwaysConserved`, `ConnectionsAlwaysAccounted`,
`NoEmbraceEver` and `SoundTransfersAlwaysPass` for any number of tests, sizes, blocks
and rooms of the stacks. The inductive invariant `DataInv` has five parts. `TypesInv`
are the types. `CountsInv` bounds what a test sends by its size and, for the echo
tests, by the blocks it has begun. `HelperInv` says where the helper's thread can be:
a connection is in one queue, once, or watched, or closed, and `sendall()` serves one
that is watched and no longer in the batch. `FlowInv` says where bytes are: all of
them while the connection lives, and never more than were sent, which is what keeps
`total_recv` within the size after the helper has closed. `SoundInv`, for a sound
network, says that only a test that is over is ever dropped and that the sends are
whole; `SoundlySent` and `ReportReceivedPreserves` draw from it that a test reports
only when everything has come back. `NoEmbraceEver` is arithmetic from `FlowInv`: two
full directions, a byte in the helper's hand and one still due are more than fit.
Each step has a lemma; `Together` reduces it to the one test it is about
(`SparedStays`), and `Joins` and `Served` say what `Append` and `Tail` do to the
queues. That a `Needed` exceeds no `Size` is assumed of the tests
(`DataAssumption`), and used for `SoundTransfersPass` alone.

Only model-checked is liveness (`Terminates`, `BreakHonoured`, `ConnectionsAccepted`,
`RunsEnd`, `TransfersEnd`, `ConnectionsForgotten`, `PumpEnds`, `SoundTestsEnd`), which is
out of the prover's reach. Every invariant that a passing run checks, and both
refinements, are proved.

## 5. Findings

1. `conformance_filter`: `tap_ok` looks failures up by the running number
   (`tap.c:324`), which a filter restarts at 1. A known failure becomes an
   unexpected one, and one test's entry can annotate another's failure.
2. `helper_back_to_back`: `_handle_ctrl` closes the current control connection,
   which need not be the one whose event it handles (`bsdsocktest_helper.py:150`).
3. `pump_error`: an error on a ready descriptor neither counts nor ends the loop of
   tests 137 and 141 (`test_throughput.c:87`, `:338`), and its timeout never runs.
4. `resources_crash`: a profile that lists test 70 as a crash makes it jump over
   `dtsize = 0` to a restore that reads `dtsize` (`test_waitselect.c:424`, `:472`),
   and may so call `SBTC_DTABLESIZE` SET, which `test_misc.c:47` says crashes UAE.

Remarks that no run is kept for:

- `tap.c:171-174` says that the reserved row keeps "all content visible without
  scrolling off". A header, log path, category, bail-out or result line wider than the
  window counts as one row (`page_check`), the log-open warning as none, and a failure
  of three rows or more may pass the edge: then rows scroll off before the prompt.
- `README.md:83-84` and `main.c:100-101` say that LOOPBACK and NETWORK run "only" tests
  of that tier. The code selects categories, and all tests of a category of both tiers
  run: LOOPBACK with HOST runs the network tests 39 to 42. `RunsExactlySelected` claims
  what the code selects.
- `host/README.md:119` says that without a control connection "all network tests are
  skipped (not failed)". With HOST given, `main.c:286` bails out and returns 20, which
  `README.md:173` and `ExitDocumented` count as a startup failure.
- The control channel's `accept()` (`bsdsocktest_helper.py:119`) is not in a `try`: a
  client that resets its connection before it is accepted may end the helper.
- A Ctrl-C before the category of CATEGORY begins leaves `ran_any` at 0, and the log
  then calls a valid category unknown (`main.c:322`); `UnknownDiagnosed` excepts it. A
  run for a category that is unknown returns 0, with a plan of no tests.
- The totals of an interrupted run are summed up from `passed_count`, which contains
  the skips (`tap.c:398`, `tap.c:565`); those of a completed one are not. `Report`
  promises the passes of completed runs only.
- Ctrl-C at a prompt of the last category's summary is never looked at
  (`tap.c:217`); the run ends as if it had not been typed. `BreakHonoured` claims
  only what is typed while a check remains.
- Tests 71 and 80 call `accept()` whatever became of their `connect()`
  (`test_waitselect.c:516`, `test_signals.c:262`). On a stack where no connection
  ever comes they wait for ever; `SoundTestsEnd` claims sound stacks only.
- Test 73 leaves BREAKMASK at 0 (`test_signals.c:44`) and not as it was, so that
  from there on Ctrl-C does not interrupt a blocking call. Test 74 restores what it
  finds, which is that 0.

## 6. Not modelled, and why

Listed per component in `PROJECT.json`. The tests of `test_dns.c` and
`test_utility.c` make calls that take nothing, and assert on the answer: they are
modelled only as tests that report once, since what decides their verdict is the
stack, which is not in this repository. For the same reason the answers to options,
addresses, error codes and received data are left out everywhere but in the echo,
sink, benchmark and ping models. UDP echo keeps no state and the source service is
used by no test; the UDP benchmarks only count what comes back. The data patterns
are generated and compared by the same formula. Diagnostics, formatting of lines and
the build scripts are left out: no property is about them. The text of a version
string is a sequence of tokens, so that prefix matching is the prefix relation.

## 7. Plan

Built: the reporter, its contract, main, the table, the control channel, the TCP data
services, the TCP benchmarks, the stopwatch and the pings, and what the tests of nine
files borrow. Proved: every invariant the passing runs check, and the refinements of
`Report` and of the calling contract. Left: the loops of the UDP benchmarks, with loss
and reordering.
