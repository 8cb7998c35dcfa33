# A TLA+ model of latensee

latensee traces the path to one or several targets and shows latency and loss
per hop, in a terminal interface or as a report. This directory holds TLA+
modules of the program, TLC configurations that check them on small instances,
and TLAPS proofs for arbitrary ones. `PROJECT.json` lists the runs, the
theorems, the source lines each definition models, the hazards the properties
are aimed at and the disagreements found.

    tlc -config MCTraceHistory.cfg MCTraceHistory     # any run
    tlapm TraceEngineProofs.tla                       # any proof module

## 1. The system

| Component | Source | State | Operations |
|---|---|---|---|
| trace record | `trace/state.rs` | rows (address, name, ring of samples, statistics), round number; one `RwLock` per target | `add_probe`, `record_probe`, `reset_all`, `ensure_hop` |
| trace engine | `trace/mod.rs` | its own round counter, the results in hand | `run`, `probe_round` |
| reverse DNS | `trace/dns.rs` | cache of 256 entries, the rows collected in this pass | `run_dns_resolver`, `resolve`, `insert` |
| probes | `probe/*.rs` | sockets kept between probes, identifier or port base | one `send` per protocol: blocking receive loop (ICMP, UDP), polling loop (TCP), connect |
| event loop | `tui/mod.rs` | `AppState`, the lists of targets and tokens, `last_round`, `needs_redraw` | keys, frame, reset, add, remove, quit |
| widgets, health | `tui/widgets/*`, `tui/health.rs` | none | pure functions of the record; `build_target_list_rows` takes read locks |
| reports | `report/*` | none | pure functions of the record |
| configuration | `config.rs` | none | checks, defaults, implied options, name resolution |
| lifecycle | `main.rs`, `run_tui`, `spawn_target` | handles, tokens, the modes of the terminal | spawn, Ctrl+C, report or interface, join, summary |

Each target has two tokio tasks, the engine and the DNS task. They share the
target's record with the event loop through a `parking_lot::RwLock`, a flag
(`paused`) and a `CancellationToken`, a child of the program's. The engine
awaits each probe, which runs on a blocking thread; the DNS task awaits each
look-up; the event loop awaits a tick of 67 ms, the global token, or the
look-up of a target typed by the user; `main` awaits the tasks it started.

What is hard to get right, and to test:

- a round enters the record in two write sections, between awaits, and the user
  may reset, pause or cancel at each of them;
- the DNS task uses a row and its address after an await;
- three parties take a lock that blocks readers behind writers, and one of them
  takes it twice;
- keys are handled in batches and the requests they leave are served later, and
  a frame is drawn only when the loop believes that something changed;
- a probe reads from sockets that also hold old answers and those of others,
  against two clocks;
- means and deviations are updated from themselves, and three report formats
  and a chart derive what they show by different tests of the same fields;
- the two modes of the program end in opposite orders, a task may panic, and
  setting up a terminal may fail half way.

What makes each part correct: the record is the function of the recorded rounds
it claims to be; names belong to the addresses beside them; no row is forgotten;
a cancelled target stops; nothing deadlocks; the list of targets and that of
tokens stay in step; what is shown is what is recorded; an answer belongs to the
probe that takes it; every probe ends in bounded time; engines run only with
what the command line allows; a report is final; the program ends when it has to.

## 2. The modules

| Module | Models | Uses |
|---|---|---|
| `TraceState` | the data of one target and its operations (`state.rs`) | |
| `TraceEngine` | `run` and `probe_round`, with the user | `TraceState` |
| `TraceHistory` | the same with auxiliary variables: the rounds recorded, and how many when the user intervened | `TraceEngine`, `HopView` |
| `TraceRecord` | abstract: whole rounds, resets and names, nothing else | `TraceState` |
| `TraceTarget` | engine and DNS task of one target | `TraceEngine`; implements `TraceRecord` |
| `StateLock` | who holds and awaits the record's lock during a frame | |
| `TargetList` | abstract: the list of targets the user is promised | |
| `TuiLoop` | event loop, keys and requests | implements `TargetList` |
| `Fractions`, `Averages` | exact fractions; the running mean and variance of `record_probe`, of times cut to whole microseconds, and the textbook ones | |
| `HopView` | health levels and their colours, the row that stands for a target | `TraceState` |
| `LatencyChart` | points, axes, cuts, coloured runs | `HopView`, `Fractions` |
| `Reports` | the cells of text, CSV, JSON and the hop table | `HopView`, `Averages` |
| `Screen` | the redraw test and the frame, over the abstract record | `TraceRecord`, `LatencyChart`, `Reports` |
| `Config` | `from_args`, the fallback, name resolution, the engine's parameters | |
| `Program` | `main`, the terminal, tasks that end or panic, Ctrl+C | `Config`, `TargetList` |
| `ProbeWait` | the receive loops of the probes, the network and the kernel's buffers | |
| `...Proofs` | proofs, section 4 | the module they are named after |
| `MC...` | values for the constants | |

The composition goes through the two abstract modules: `TraceTarget` is shown
to implement `TraceRecord`, and `Screen` draws a `TraceRecord`; `TuiLoop` is
shown to implement `TargetList`, and `Program` runs a `TargetList`. So neither
`Screen` nor `Program` has to carry the detail below it, and what they assume
of it is proved for every instance.

**TraceState, TraceEngine.** One action per stretch of code between two points
where another task may run: `LoopTop` (token, limit), `CheckPause` and
`PauseTick` (the pause loop), `SendProbe` (one awaited probe),
`CommitRound` (first write section), `BumpRound` (second), the interval. `pc`
says where the task is, `localRound` and `results` are its local variables.
Addresses and times are opaque. A probe returns an answer, a timeout or an
error, the three shapes the probe modules build. `paused` is one flag for all
engines, so one engine suffices to see every value it may read.

**TraceHistory.** The rounds that entered the record are kept in `archive`, and
`resetMark`, `pauseMark` (while paused) and `cancelMark` say how many there were
at the last reset, pause and cancellation. Beside what the code does with the
colour of a target (`RowColourEarned`) stand the two sentences of the README of
the program about it (`GreyMeansNoData`, `ColouredByDestination`).

**TraceTarget.** The DNS task collects (`CollectRows`), takes the rows in order
(`TakeRow`), answers from the cache or sends a look-up, and writes back
(`WriteName`). A name is represented by the address it was looked up for, so a
wrong name is one that differs from the row's address. A cache entry is absent,
negative or positive. `--no-dns` and a resolver that cannot be built end the
task at once.

**StateLock.** The lock is parking_lot's: `Claim` is a writer setting its bit,
which blocks later readers, `WriteSection` the write once the readers are gone.
The event loop opens a frame with a guard, takes one more per row of the target
list, drops the frame's, and may then reset. Of the record only the parity of
its version is kept, which is enough to see it change during a frame.

**TuiLoop.** `pc` walks through the parts of `run_event_loop`: frame, select,
keys, reset, pending, resolving, remove, end. Each key is an action that leaves
`pc` in the batch. Targets get increasing numbers so that a token can be told
from that of another target; the record is reduced to its number of rows.

**HopView, Averages, LatencyChart, Reports.** Pure operators, one per function
of the source. A percentage is compared without the division; an average is a
fraction in lowest terms, so equal numbers are equal values (a greatest common
divisor is the largest common divisor, not a recursion, so that it can be proved
about). The clock has `PerMicro` ticks in a microsecond: `as_micros` drops what
is left over (`AsMicros`) before a time enters the mean and the deviation
(`state.rs:79`), while the last, best and worst time keep it. The textbook mean and variance it is compared with are made of three
sums over the times heard, cut likewise (`AddTime`). A report is a sequence of
records whose cells are the value that is formatted, or `None` for a dash, an
empty field or a null. A cut of the chart's line falls between two samples, so
its x is a fraction; heights of the axis are in tenths, for the padding. The
loops of `build_latency_data`, `build_loss_data` and `build_color_runs` are
functions of the number of samples, data or points done so far (`Marked`,
`Path`, `RunsOf`), which can be proved about, as folds cannot.

**Screen.** `RecordOneRound` and `PublishRound` are the two write sections of the
engine as `TraceRecord` has them, `NameOneRow` the DNS task. A turn of the loop
is `Frame` (which draws only if `needs_redraw` or the number of the round
differs from `last_round`), keys, `Serve` (the reset). `drawn` is what the
terminal shows; whether it was tall enough for the chart is chosen at each frame.
Names are left out of the comparison: that one appears only with the next frame
is no error.

**Config, Program.** A number of seconds is refused, ordinary, or one of those
(NaN, infinity, too large) that pass `<= 0.0` but that `Duration::from_secs_f64`
panics on. A name has a family once it is looked up. `phase` is the place in
`main`; handles are awaited one by one (`JoinNext`), a panic is seen only when
its handle's turn comes (`JoinFails`). Setting the terminal up and restoring it
are three calls each. Tasks started in the interface are detached. Before the
task that waits for Ctrl+C runs, the signal kills the process.

**ProbeWait.** Several engines send probes numbered `round * max_hops + ttl`.
What the parsers compare is a function of the probe: identifier and sequence
number (`IcmpKey`), destination address (`UdpKey`), source port (`TcpKey`). The
identifiers and port bases are drawn at random, so a setting may give two engines
the same, or bases whose ports overlap. Over IPv6 the TCP parser takes a message
whose first byte is 3 for an ICMPv6 one, and so a SYN-ACK or RST from a port of
768 to 1023 (`Misread`, `tcp.rs:140`). Answers travel in `wire`, where they may be
lost, delayed, reordered and repeated, and arrive in the buffer of every open
socket of their kind and family. `elapsed` is the loop's own clock since the send,
`armed` the time the receive in progress has waited. The polling loop's sleep is a
tick.

## 3. The runs

| Run | Shows | Bounds |
|---|---|---|
| `trace_history` | statistics, samples, addresses, table and the target's colour are functions of the recorded rounds; pause and cancel let at most one more round in | 2 hops, 2 addresses, times 1 and 3, 3 rounds, ring of 1, thresholds 2/3 and 40/60 |
| `trace_colour` (violation) | a state in which both sentences of `src/README.md` about a target's colour are false | same, with 60/70 |
| `trace_target` | names beside their addresses, no repeated look-up, bounded cache, the inductive invariant, `TraceRecord` implemented; both tasks stop when cancelled, the count is reached, every row that keeps its address is looked up | 2 hops, 2 addresses, 2 rounds, cache of 1 |
| `target_names` (violation) | a known name may stay missing | 1 hop, 2 addresses, 3 rounds, cache of 2 |
| `state_lock` | no guard is leaked, frames are consistent, other targets go on, and the self-deadlock is the only obstacle to quitting | 2 targets |
| `lock_quit` (violation) | the self-deadlock | 1 target |
| `tui_loop` | index, count, tokens and selection agree with the lists, `TargetList` implemented, a quit is served, no request outlives its turn and none is lost but a submission to a later one of the batch | 3 targets, 2 rows, 1 name |
| `screen` | incremental averages are exact over whole microseconds, the chart's line is the data in the right colours, the three report formats agree, a frame that is not drawn would show nothing new | 1 row, times 1, 3, 5 in ticks of half a microsecond, 3 rounds, 2 keys, thresholds 3/4 and 40/60 |
| `screen_chart` (violation) | the newest sample may lie beyond the axis | same |
| `program` | engines run only with what the command line allows, reports are final, the program ends when it has to | 12 command lines, 2 targets, 3 names |
| `probe_wait` | a foreign answer is taken only where the draws gave both engines the same identifier or port, a stale one only after a whole turn of the numbers, no answer in time passed over but a misread one, bounded wait, every probe ends | 2 engines with the same target, 2 hops, 2 sequence numbers, timeout 2, buffers of 2, 1 message per tick, port 993; six settings: ICMP with identifiers that differ (3 probes and 1) and that do not (1 and 1); TCP alone (3 probes), with bases that give different ports, the same, and, for an IPv6 target, a misread port (1 and 1) |
| `probe_ports` (violation) | a UDP or TCP probe takes an answer that is not its own | same, UDP and TCP, 3 or 2 probes and 1 |

Why the bounds are enough. Two hops tell a router from the target and let the
path grow and shrink; a ring of one is already trimmed by the second probe;
three rounds put a reset between rounds, within one, and between its two write
sections, and give losses of a third, a half and two thirds, which lie below,
between and above 40 and 60 %, so that a target turns yellow and red by its
losses as well as by its times, and grey with data; a cache of one is emptied
while rows wait. One listed target besides the active one stands for all others.
Three targets allow removal at the front, in the middle and at the end. Three
samples are enough for a line that rises across both thresholds, falls across
both, rests on one, or has a gap at either end or in the middle, and times of 1,
3 and 5 with thresholds of 3 and 4 lie below, on and above; cut to whole
microseconds they are 0, 1 and 2, so that the mean does fall below the best
time; with the third answer a deviation that is not zero is updated. Two keys
are a reset and a switch, in one batch or in two. The command lines reach every
check, default, protocol, format and family at least once, with one target and
with two. With two sequence numbers the third probe comes round to the first
one's number, so that exception of `AnswerIsOurs` is reached; a second engine
with the same destination provides the foreign answers, with equal identifiers
and ports the ones that are taken. `MaxIds`, `MaxRows`, `MaxTotal`, `MaxKeys`,
`maxNumber`, `BoxCap`, `Bandwidth` and `Id` are bounds of the models; `Count`
and `MaxHops` are options of the program.

Every run is exhaustive within its bounds. The largest is `trace_history` with
3,633,742 states, then `probe_wait` with 537,942.

Deadlock is checked where something can always happen (`trace_history`,
`trace_target`, `screen`). It is switched off where the program may really stop:
the event loop exits or blocks itself, `main` returns, the last probe was sent.

### Fairness

- `TraceTarget`: weak fairness of each task's next step. tokio polls a spawned
  task that is ready; sleeps end; every probe ends (that is `ProbeEnds`) and
  every look-up too (hickory's timeouts). Nothing is asked of the user: the
  count is reached *if* the pause does not last for ever.
- `StateLock`: strong fairness of the event loop and of each task that waits
  for a lock. A waiter is woken when the lock is freed and parking_lot hands
  the lock over fairly from time to time, so it is not overtaken for ever.
  A blocked `write()` keeps the tokio worker it runs on, so that "other targets
  go on" (`OthersKeepTracing`) assumes more workers than blocked tasks; on a
  machine with few cores the self-deadlock stops more than the model shows.
  A deadlock is not hidden by that: nothing there is enabled again.
- `TuiLoop`: weak fairness of the loop, strong fairness of noticing the token:
  `select!` chooses at random between a tick and the token, and not the same
  one for ever. No key has to be pressed. The frame's locks are granted here and
  in `Program`: that the loop may block itself on them is `StateLock`'s matter.
- `Program`: weak fairness of `main`'s own steps, of an engine that has to end
  (its token fired, or it counts and cannot be paused because no interface
  runs) and of a DNS task whose token fired. That these end is what
  `CancelStopsBoth` and `CountReached` say of `TraceTarget`. Neither the user's
  keys nor Ctrl+C are fair.
- `ProbeWait`: weak fairness of the clock and of each probe's loop. Nothing is
  asked of the network, which may deliver `Bandwidth` messages per tick for
  ever; `ProbeEnds` holds all the same.

## 4. The proofs

**TraceEngineProofs**, from `StateAssumption` and `EngineAssumption` (the target
is an address, times are natural numbers, `max_hops` is a byte, `None` is none
of these). `EngineInv` is inductive. `SentMonotone` alone is not: that no row
was probed more often than the rounds shown survives `BumpRound` only because
the published number never exceeds the engine's own (`RoundHonest`), and
`CommitRound` only because the results in hand are a path no longer than the
table will be (`RoundUnderWay`). The limit is respected because it was tested
before the round began. Lemmas say what each operator of `TraceState` returns;
`FunctionIsSeq`, `RecordRoundTable` and `ResetHopsTable` lift them to the table.
Theorems: `EngineInvariant`, `TypeCorrect`, `StatsBalanced`, `SentIsMonotone`,
`RoundIsHonest`.

**TraceTargetProofs**, from the same and `CacheAssumption`. `TargetInv` is
`EngineInv` with the DNS task's types, the row in hand (`ItemInHand`),
`NamesMatch`, a finite cache that keeps its bound (`CacheSound`) and
`PendingRowsUnnamed`. The last two carry the argument: a row was collected
because its address was not in the cache, its name is dropped when the address
changes and never set by anyone else, and no operation takes a row out of the
table (`TableKept`, `RowKept`), so the index and the address that are used after
the await still mean what they meant. Theorems: `TargetInvariant`,
`TargetTypeCorrect`, `NamesAlwaysMatch`, `CacheStaysSound`,
`PendingRowsStayUnnamed`, `EngineInvariantShared`, and `ImplementsRecord`:
`TargetSpec => RecordSpec`, where the abstract `total` counts the round that is
recorded but not yet numbered.

**StateLockProofs**, from `LockAssumption`. `LockInv` is `TypeOK`,
`GuardsAccounted` and that the row being built is listed. The number of guards
that are out is what the places of the event loop and of the DNS task say, so
none can be returned twice or kept; while a frame is being drawn there is at
least one on the active record, and a writer needs none
(`FramesAreConsistent`). `ClaimsOwned`: a claim is that of a task about to write,
or of the reset; from it follows that nothing but the event loop's second guard
can get stuck. Every record either can move on (`Drains`: nobody claims it, a
look-up pass is about to return its guard, or the claiming writer may write), or
a frame that can go on holds a guard of it, or the loop waits for a second guard
of it (`OnlySelfDeadlock`). That is the safety half of `QuitOrSelfDeadlock`, and
for any number of targets. Theorems: `LockInvariant`, `TypeCorrect`,
`NoGuardLeaks`, `FramesAreConsistent`, `ClaimsAreOwned`, `NoOtherDeadlock`.

**TuiLoopProofs**, from `TuiAssumption`. `LoopInv` adds to the checked
invariants that the numbers of the listed targets rise (`IdsRise`), so that no
token is taken for another's, and that the count read at the top of the turn is
that of some table (`HopCountOfSomeTable`), which the selection needs.
`RequestsServed` rests on an invariant of its own: each request is gone once its
part of the turn is over (`RequestsGone`). Theorems:
`LoopInvariant`, `TypeCorrect`, `IndexStaysInList`, `TokensStayAligned`,
`SelectionStaysInSomeTable`, `RequestsAreServed`, and `ImplementsList`:
`Spec => ListSpec`.

**ProgramProofs**, from `ConfigAssumption` and `ProgramAssumption` (clap requires
a target). `ReportInv` says what has been awaited in each phase
(`JoinedAreOver`), what the terminal is in (`TerminalInStep`) and what has been
printed (`PrintedInOrder`). Tasks only end or break, so what was awaited stays
over. For the beginning of `main`, `StartInv` says that the
configuration is the one the command line and the fallback make (`ConfigMade`),
that all addresses are known before the first engine (`FamiliesFound`), that
engine `id` was started with that configuration and its own target's address,
in order, so that targets added later have later numbers (`EnginesInOrder`), and
that tasks belong to what was started (`TasksKnown`). That `spawn_target`
rebuilds the same configuration is `SameParams`. Theorems: `ReportInvariant`,
`ReportsAreFinal`, `StartInvariant`, `EnginesAlwaysRunnable`,
`ProgramTypeCorrect`.

**ProbeWaitProofs**, from `SettingAssumption`, `ProbeAssumption` (positive timeout
and sequence range, `max_hops` a positive byte, a port of 16 bits) and
`NoneAssumption`; nothing is assumed of the identifiers and port bases but that
they are numbers. `ProbeInv` is inductive: no message in the network or in a
buffer answers a probe not yet sent (`AnswersSent`), and `ClocksAgree` relates
the two clocks to the place in the loop: a receive begins before the time is
over, so `elapsed - armed < Timeout`, and `armed <= Timeout`. Hence
`WaitIsBounded`: less than twice the timeout when blocking, the timeout itself
when polling. `AnswersAreOurs` holds for every protocol: equal keys of two engines
mean equal identifiers, targets or ports, so that nothing tells them apart
(`Apart`); equal keys of one engine mean, over ICMP and TCP, equal numbers or
numbers at least `SeqMod` apart (`SameRemainder`, `SameSum`). What it does not
say, that engines are always apart, is false, and `probe_ports` shows it.
`AnswersAreHeeded` says of every answer to the waiting probe, whatever the parser
makes of it, that it is taken when it is read unless it is `Misread`: a receive has
waited no longer than its probe (`ReceivesWithin`), so the time is over when it
times out, and what a step reads is taken if it matches.
Theorems: `ProbeInvariant`, `TypeCorrect`, `WaitIsBounded`, `AnswersAreOurs`,
`AnswersAreHeeded`.

**TraceHistoryProofs**, from the assumptions of the engine and of the
thresholds. `HistoryInv` adds to `EngineInv` that every row fits the columns of
the recorded rounds, that the marks are no later than now (`MarksKept`), that
the table is as long as the longest round, and where the engine may be while it
is paused or cancelled (`Quiescing`). The argument has two layers. A column is a
function on the numbers of the rounds that reached a row, and a probe extends it
at its end (`ColumnGrows`); its counters are cardinalities, its best and worst
the least and the greatest of a set, its ring the newest rounds, and each of
them is followed through one extension (`RecordProbeFits`,
`PushSampleHoldsNewest`, `AddrStaysFit`), so nothing has to be folded over a
sequence. A reset empties the columns but not the addresses, which are those of
all rounds ever. Theorems: `HistoryInvariant`, `HistoryTypeCorrect`,
`RecordIsFaithful`, `TableIsFaithful`, `PauseHolds`, `CancelHolds`,
`ColourIsEarned`.

**ScreenProofs**, from the assumptions of the record, the thresholds, the clock and
the bounds. `ScreenInv` says that an average has counted what its row has counted
and lies between its extremes cut to whole microseconds (`TimesFit`; cutting keeps
the order, `MicrosOrder`), that it is the average of the sums
of the times (`SumsFit`), that a round still to be shown is newer than any
number drawn (`NumbersFit`), and that the terminal shows the present picture
unless the next frame is drawn anyway (`ScreenCurrent`). The last one is what
the redraw test relies on; it is kept by a look-up because two pictures that
differ in a name are equal without it (`PictureUnnamed`), and by a reset because
that one asks for a frame. `AveragesAreExact` is arithmetic: `Stands(f, n, d)`
says that f has the value n / d, the operations preserve it (`SumStands`,
`OverStands`), a fraction in lowest terms is determined by its value
(`LowestUnique`, from the least denominator), and `WelfordStep` reduces the
update to one identity of polynomials (`WelfordIdentity`). That the variance has
a root is not seen from there: the square it grows by is never negative, as the
new time lies on the same side of both means (`NewMeanStands`).

`ChartIsFaithful` is about sequences of any length that are built one sample,
one datum and one point at a time. The induction it needs is had without the
library's induction theorems, whose operator parameter no prover here can
instantiate: a set of numbers that has the first one, and each one after a
number it has, has them all, as the rest would have a least element (`Climb`).
From it follows that a function can be defined by recursion over an interval
(`Recursion`), and so that `Marked`, `Path` and `RunsOf` satisfy their equations
(`MarkedEquation`, `PathEquation`, `RunsEquation`). Then each is followed
through one step: the marks are those of the chosen samples in the order of time
(`MarksGrow`), the cuts lie on the chord between their neighbours and in the
direction of travel (`CutOnChord`, `CutsInOrder`, by exact fractions), so that
they part each segment into stretches no threshold crosses (`SegmentCut`,
`PathGrows`); and a stretch joins the last run or starts the next one at its end
(`RunsGoOn`, `RunsRecolour`).

Theorems: `ScreenInvariant`, `ScreenTypeCorrect`, `FramesAreFresh`,
`AveragesAreExact` (with `MeansAreSound`), `ChartIsFaithful`,
`ReportsSayTheSame`.

The attempt to prove `ChartFaithful` refuted its first form, which said that no
stretch has the same two ends: if both thresholds are the same number, a steep
segment is cut twice at the same place. The run did not show it, as its
thresholds are 3 and 4. The property now allows it in that case alone.

Every safety property and every refinement of section 3 that TLC finds to hold
is a theorem. Only model-checked: the liveness properties, because TLAPS proves
neither liveness under fairness nor `ENABLED` (`CancelStopsBoth`,
`CountReached`, `RowsLookedUp`, `OthersKeepTracing`, `QuitOrSelfDeadlock`,
`QuitServed`, `ProgramEnds`, `ProbeEnds`). The violations are TLC's alone: each
is a counterexample, and needs no proof.

## 5. What the models found

Shown by a run:

1. `q` may never quit: the frame's second read lock waits for a writer that
   waits for the frame (`lock_quit`; `tui/mod.rs:403`, `target_list.rs:62`).
2. A name in the cache is not shown when a row's address changes away and back
   (`target_names`; `dns.rs:102`).
3. After a lost sample the chart's newest sample is off its axis
   (`screen_chart`; `tui/mod.rs:278`).
4. A target that answers may have a grey row in the list: the row that stands for
   it is one that a longer path left behind, whose last probe was lost
   (`trace_colour`; `target_list.rs:40` against `src/README.md:106` and `:108`).
5. UDP answers are not told apart by ports, and TCP answers only by ports that two
   engines may share, although a comment says ports do it
   (`probe_ports`; `trace/mod.rs:97`).

Met while modelling; the models have the behaviour and no property asks for
another one:

- `d` and `x` are served after the batch of keys, on the target that is active
  then (`tui/mod.rs:463`).
- `j` after an arrow key is bounded by the table of the target left behind.
- `--count` without `--report` does not exit: `main` awaits the interface, which
  ends on a key or Ctrl+C only (`main.rs:126`), while `src/README.md:78` says
  "Number of probe rounds, then exit" and `:55` "20 rounds, then exit".
- A target's colour is that of the farthest hop that answered anything since
  the last reset, a router when the destination is down; a single lost probe
  of that hop turns it gray. `RowColourEarned` states this exactly.
- The mean may lie below the best time, by less than a microsecond, as only the
  mean is of times cut to whole microseconds (`state.rs:79`). `AveragesExact`
  states what remains true.
- Over IPv6, a SYN-ACK or RST from a port of 768 to 1023, 993 say, is read as an
  ICMPv6 message and ignored (`tcp.rs:140`), although the comment above the parser
  says that a TCP reply starts at the TCP header (`tcp.rs:82`): such a target never
  answers. `NoAnswerIgnored` makes that one exception.
- Two engines may draw the same ICMP identifier, or port bases whose ports overlap
  (`probe/mod.rs:148`), and then take each other's answers; nothing compares the
  target. `AnswerIsOurs` allows it in that case alone.
- Frames are drawn for the active target's rounds, so the other rows of the
  target list show what they were then; a resize draws nothing.
- The summary after the interface covers the targets of the command line only,
  also those removed, and not those added.
- A terminal call that fails leaves the earlier ones as they are.
- The fallback without privileges applies to UDP too, although
  `src/README.md:132` says that it does not require raw sockets; an explicit `--tcp-connect`
  keeps its 30 hops, the fallback has one.
- `-4` and `-6` do not apply to an address that is typed in.
- Thresholds in the wrong order are accepted; `ChartFaithful` assumes
  `RttWarn <= RttCrit`. With equal ones the chart repeats a point at a cut.
- A second Enter in one batch of keys replaces the first one's target, which is
  dropped without a word (`tui/mod.rs:186`); `RequestsServed` allows that alone.
- The text report shows a dash for the deviation of a single sample, CSV and
  JSON a zero (`ReportsAgree` states the exact difference).
- The marks of lost samples lie at height 0, which may be below the y axis.

## 6. Not modelled, and what comes next

Left out for good: the bytes of packets, their checksums and the length tests of
the parsers; decimals, quoting, wording, column widths, styles, the fixed help
text and the division of the screen; clap, ratatui, hickory, tokio and the
kernel beyond what their callers see. They hold no state, and what they do to it
is nothing a property here tells apart. Fractions stand for `f64`, so rounding is
out of reach, and the variance stands for the deviation, whose square the code
takes again. `tcp_connect` is one blocking call with a timeout: only the three
results it may return are modelled.

Next, in this order:

1. The help switch and the status line in `TuiLoop`.
2. `Screen` with two targets, to state which rows of the target list may be old.
