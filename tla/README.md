# TLA+ models of the VALORANT optimizer

The optimizer changes settings of a Windows machine before a game and has to
bring them back afterwards: after the game, on request, and after a crash. The
models in this directory say what "bring them back" means, follow the code step
by step through failures, crashes and interleavings, check it with TLC on small
instances, and prove with TLAPS what holds for instances of any size. Paths
below are relative to `src/`; `C` stands for `crates/val-opt-core/src`.

## Inventory of the system

| part | state | operations | interacts with |
|---|---|---|---|
| optimization coordinator (`C/optimizations`) | two Game Mode registry values, the active power scheme, one registry value per audio endpoint, the record `active_transaction.json` | `apply_optimizations`, `rollback`, `recover_orphaned_transaction` | called by the pipe handler, by supervisor threads, by CLI processes and by the GUI when it falls back to working in-process; no lock |
| snapshot engine, crash recovery (`C/state`, `val-opt-shared/src/models/snapshot.rs`) | snapshot files and one key file per directory | capture, `save_atomic`, `load_and_verify`, `check_and_recover`, `delete_snapshot` | the daemon at start, the handler's rollback, the CLI |
| request handler (`C/ipc_server.rs`) | `ACTIVE_SUPERVISOR_STOP` | one per `IpcRequest` | coordinator, crash recovery, terminator, supervisor, launcher |
| supervisor (`C/process/supervisor.rs`) | the stop signal, the backups of closed applications, the process it waits for | poll, tune, wait, relaunch, recover | coordinator, terminator, the game |
| pipe transport, GUI client (`C/ipc_server.rs`, `C/main.rs`, `val-opt-gui/src`) | one pipe instance, `is_running` of each daemon, the request under way in each client thread | connect, read, dispatch, reply, stop; probe, spawn, fall back in-process, exit | every request |
| terminator, safety database, launcher, Vanguard check, topology (`C/process`, `C/safety`, `hardware/cpu.rs`) | the running processes, the backups, the affinity mask | close, relaunch, launch, tune | handler, supervisor, CLI |
| services (`C/process/services.rs`) | service states | pause, resume | CLI |
| network probes, bufferbloat test (`C/network`) | sockets, load threads, the echo server's thread | probe, load, grade | CLI, handler |
| frame capture, A/B runner, statistics (`C/benchmarking`, `benchmarking/stats.rs`) | an ETW session per capture, the collector, the consumer thread | start, callback, stop, metrics, compare | CLI |
| kernel latency sessions (`C/latency`) | the NT Kernel Logger, the consumer thread, driver statistics, ring buffer | start, callback, stop, report | CLI, handler |
| adapter, QoS, flow control; other hardware queries; Slint widgets | none of their own | inspection | CLI, GUI |

What is hard here, and what the properties are about: several processes change
the same settings, files, pipe and kernel sessions without a lock; every step
can fail and most failures are only logged; power may go at any moment; a
supervisor outlives the request that started it and is steered by a signal it
looks at once a second; a lost reply makes the client do the work itself; pids
are used after the process they named has ended; ETW consumer threads are
stopped at any point of their start. The list with lines is under `hazards` in
`PROJECT.json`.

## Modules

| module | models | checked through | proofs |
|---|---|---|---|
| `OptimizationCoordinator` | `C/optimizations/{mod,game_mode,power,audio}.rs` | `MCCoordinator` | `CoordinatorProofs` |
| `SettingsTransaction` | what the coordinator promises (abstract) | `MCCoordinator`, as `ImplementsTransaction` | `CoordinatorProofs` |
| `SnapshotStore` | `C/state/{snapshot_engine,crash_recovery}.rs`, `models/snapshot.rs` | `MCSnapshot` | `SnapshotProofs` |
| `GameSession` | `C/ipc_server.rs` (requests), `C/process/supervisor.rs`, `C/main.rs` | `MCSession` | `SessionProofs` |
| `PipeTransport` | `C/ipc_server.rs` (server), `C/main.rs`, `val-opt-gui/src/{ipc_client,lifecycle,main}.rs` | `MCPipe` | `PipeProofs` |
| `LaunchPreflight` | pure parts of a launch: `safety_db.rs`, `vanguard_check.rs`, `hardware/cpu.rs`, searches and path checks | `MCProcesses` | `ProcessProofs` (topology) |
| `ProcessControl` | `C/process/{terminator,valorant_launcher,supervisor}.rs` on single processes | `MCProcesses` | `ProcessProofs` |
| `ServiceControl` | `C/process/services.rs` | `MCProcesses` | `ProcessProofs` |
| `Statistics` | `benchmarking/stats.rs` | `MCNetwork`, `MCBenchmark` | `BenchmarkProofs`, `NetworkProofs` |
| `NetworkDiagnostics` | `C/network/{probe,bufferbloat}.rs` | `MCNetwork` | `NetworkProofs` |
| `FrameBenchmark` | `C/benchmarking/{etw_capture,frametimes,ab_runner,synthetic}.rs` | `MCBenchmark` | `BenchmarkProofs` |
| `LatencySession` | `C/latency/*.rs` | `MCLatency` | `LatencyProofs` |

Every model has a constant `Faults`, the set of failures that may happen, named
after the place where they do. A run, or a theorem, says exactly under which
failures its property holds. Definitions keep the names of the functions they
stand for where a model has one definition per function; `map` in `PROJECT.json`
gives the lines. A definition whose comment begins with "Mutant" is a variant
with a plausible mistake; it is part of no specification and shows, put in the
place of the definition after it, that a property notices the mistake.

The module of each of the eight components that keep state has a type invariant
`TypeOK`, which is proved. The runs of the
first three components check theirs as well; in the others it is part of the
inductive invariants described under Proofs, which TLC was given before they
were proved.

### OptimizationCoordinator

Any number of actors run `apply_optimizations` and
`recover_orphaned_transaction` on the same machine; an action is one system
call (or one read followed by the bookkeeping that depends on it), so that
actors interleave everywhere the code can. A registry value is `"absent"`,
`"0"` or `"1"`: restoring tells a missing value from zero. The record file is
missing, empty (created but not yet written), garbled, or a record; `open` says
whose write handle still refers to the file that is there, because a file can be
deleted while another process is about to write it. `orig` is a history
variable with the user's settings. `Exclusive` restricts applies to a machine
without a record and without a caller at work, which is how the GUI is used.

`SettingsTransaction` leaves out callers, steps and the record: a transaction
begins, changes settings, commits, is undone setting by setting, and finishes;
it may give up only while nothing is changed. The refinement mapping (`Promise`)
reads the phase off the callers and the record, and the changed settings off the
difference from `orig`; Game Mode counts as the one boolean the code keeps of
it.

### SnapshotStore

Actors save and recover snapshots in one directory, whose key file they share.
HMACs are modelled as injective: a signature is the pair of its key and its
payload. Of the payload, the model keeps the power plan, captured as it is, and
one audio value, whose capture loses the difference between absent and zero
(`Captured`), and which an unreadable endpoint leaves out or makes zero; corruption turns the plan into `Junk`. The other settings are
captured and restored by the same shape of code. `Serial` restricts the store to
one operation at a time. Path validation and access control lists are not
modelled: `Paths` are the paths that pass.

### GameSession

The pipe handler serves one request at a time; the parts of a launch are
separate actions, because supervisor threads of earlier sessions run between
them. A supervisor goes through polling, opening, waiting, the last check of its
signal, relaunching and recovering. The settings are seen from the outside, as
`OptimizationCoordinator` describes them: an apply saves the present settings in
the record and tunes them, a recovery brings back what the record holds.
`closed` is a history variable with the applications that the optimizer closed
and nobody has started again. `OneSession` restricts launches and applies to a
machine without a record and a live supervisor, and leaves out other processes.
The boot and the rollback request also run `check_and_recover`, which acts on
`snapshot.json`; no request of a session writes that file, so it is a no-op here
and the subject of `SnapshotStore`.

### PipeTransport

Daemons are processes with a listener thread and a main; clients are threads of
one interface process. There is one pipe instance, since
`FILE_FLAG_FIRST_PIPE_INSTANCE` makes every further creation fail, and a state
of it for a client that came and went before `ConnectNamedPipe`. A client whose
open, write or read fails spawns a daemon once and then handles the request in
its own process. A failing `try_clone` of the connected handle panics
(`C/ipc_server.rs:440`, `ClonePanics`); the release profile has
`panic = "abort"` (`Cargo.toml:69`), so the daemon ends, the pipe closes and the
client's read returns. (In a build that unwinds, only the listener thread would
die, with the handle open, and the connected client would wait for ever: the
model is of the release build.) After an exit the user starts the interface
again (`StartAgain`). Handlers are reduced to their reply: what they do is the
subject of the other modules. `times` counts the executions of a request and
`lost` says that a daemon died on it (both history).

### LaunchPreflight, ProcessControl, ServiceControl

`LaunchPreflight` holds the pure decisions: the tier of a name, the Vanguard
violations of a machine's readings, the affinity mask of processor records, the
order of the search for the Riot Client, the paths that may be relaunched. A few
names represent each tier. `ProcessControl` has a table from pids to programs;
the optimizer takes a listing, opens pids of it, closes and backs up what it
finds, launches, tunes the game and relaunches, while the user starts and ends
programs and pids are reused. How a process is created keeps track of its
rights: with the daemon's token, with the desktop user's, or through the shell.
A launch may be made with the development override of the Vanguard check or
without.
`ServiceControl` lets `pause-services` and `resume-services` overlap; the two
modules share no state and are explored side by side.

### NetworkDiagnostics

One command of the CLI, or one request: a probe, or a bufferbloat test of two
probes with load threads in between. Datagrams travel one by one; an echo may be
lost, late or doubled, and stays queued at the socket it was sent from. Times
are in milliseconds, medians and jitter in exact multiples, so that they can be
compared with their definitions.

### Statistics

The algorithms of `stats.rs` in integer arithmetic: percentiles in thousandths,
the t-tests as the values of t^2 for which the code's p-value is below 0.01,
the rank-sum statistic doubled, and the confidence interval as the sign of its
lower end. The interval's generator has a fixed seed and its resamples of a few
pairs include each pair once in more than 2.5% of cases, so a sum of differences
that is not positive decides the sign; otherwise it is decided where all
differences are positive, and open where it depends on the generator. A sort is
described by what it leaves at each place (`SortedUp`: the least value that at
least k elements do not exceed), a tied value's rank by the first and the last
place it has in the sorted sequence. `MCNetwork` makes TLC compare `SortedUp`
with the library's `SortSeq`. The effect size and the
variance test are not modelled; they decide nothing.

The p-values of both t-tests come from `regularized_incomplete_beta`, whose
continued fraction takes its coefficients out of order (`stats.rs:293`). What it
computes was tabulated from the code's own formula, for 1 to 8 degrees of
freedom: the tail from which it is below 0.01 (`TCritical`) starts a little later
than Student's, and there is an interval of small t^2 (`Dip`) where it is below
0.01 as well, mostly negative. The function is therefore not just stricter than
the textbook's: `BenchmarkSignificance.cfg` has trials that it accepts and Student's
distribution does not. The interval grows with the degrees of freedom; for the
default of ten trials (18 degrees in Welch's test) it reaches from about 1.5 to
13.5. Where Welch's degrees of freedom are not an integer both neighbours are
taken as possible.

### FrameBenchmark, LatencySession

Both follow the two threads of a trace step by step: the one that starts and
stops the session, and the worker that opens it, stores its handle and sits in
`ProcessTrace`, where callbacks run. `ProcessTrace` returns when the trace is
closed or its session ends, or fails while the session lives (`TraceFails`); the
code does not look at its status. The stop of a session can fall between any
two steps of the worker. The latency report is read in three steps: the drivers,
the highest times, the totals; with the drivers it takes the two it names beside
the highest times. Every frame carries the settings it was presented
under, every kernel sample its origin (history). In `LatencySession` the
machine has one kernel logger, which other programs start and stop.

## Runs

Bounds are the sizes of the constants in the `.cfg` files. Three counters are
capped: `Events` (what the user does in `ProcessControl`), `MaxFrames` per
capture and `MaxSamples` per latency session.

| run | instance | shows |
|---|---|---|
| `coordinator_recovery` | 2 callers, 2 endpoints, 3 schemes; apply steps and deletions fail, recoveries die | `BaselineWhenClean`, `RecordRestoresBaseline`: a finished rollback has restored everything, and before that the record always suffices to do so, also half-way through a recovery that died or runs twice. `ImplementsTransaction`: all of it is one abstract transaction |
| `coordinator_any_fault` | 2 callers, overlapping applies, every failure | `NoForeignValues`: a setting only ever has the user's value, the optimizer's, or the default for an unreadable one |
| `snapshot_serial` | 2 actors taking turns, one file; reads and writes fail, actors die | `SnapshotVerifiable`, `SnapshotKeptUntilRestored` |
| `snapshot_any_fault` | 2 actors at once, every failure | `NothingCorruptApplied` |
| `session_any` | 3 supervisors, one application, every request and failure, foreign CLI processes | `OneUncancelledSupervisor`: an uncancelled live supervisor is the registered one, so that the next request reaches it. A cancelled one past its last check (`supervisor.rs:328`) still restores |
| `session_one` | 2 supervisors, 2 applications, sessions one after the other, rollback, shutdown, crash, refused `OpenProcess` | `TunedWhilePlaying`, `ExitRestores`, `CancelledSupervisorEnds` |
| `pipe` | 2 client threads, 2 daemons, every failure | `OneRequestInService`, `AtMostOnce`, `ReplyTellsTruth`, `RequestAnswered` |
| `processes` | 3 pids, a protected and a Tier 2 program, the Riot Client, the game; every failure; 2 services | `RelaunchForgetsNobody`, `OneStartPerProcess`, `DeescalatedWhenPossible`, `PinnedToFastCores`, `ResumeReachesEveryService` |
| `network` | 3 packets per probe, 2 load threads, every failure | `SampleIsItsEcho`, `ReportIsOfTheProbe`, `GoodGradeIsMeasured`, `LoadEndsWithTest`, `EverythingEnds` |
| `benchmark` | 2 live trials per side with 2 frames each; up to 4 synthetic trials with four outcomes, in one order of the pairs, on which no statistic depends; two presenting processes; every failure, that of a trace (`OpenTraceW`, `ProcessTrace`) in the second capture only | `FramesBelongToTheirTrial`, `StopEndsCapture`, `LowsAreOrdered`, `RankSumCountsPairs`, `ImprovementIsSeparation`, `BenchmarkEnds` |
| `latency` | 3 samples, ring of 2, 2 warnings; another program; every failure | `ReportIsCoherent`, `MonitorHoldsTheLatest`, `OriginIsDeclared`, `LoggerLeftOnlyAfterFailure`, `SessionEndsInReport` |

Two callers are the smallest number that interleave, and two endpoints the
smallest for which one can be done while the other is not. Three supervisors
let one be cancelled while a second ends and a third starts. Two keys suffice
where operations are serial; the overlapping run has one more than can be in
use at once, and treats them as interchangeable. Two client threads are what the
interface has at most in one request each (event loop, diagnostics), and the
second daemon is the one that finds the pipe taken. Three pids leave one to be
reused while another is visited. With three packets an echo can be two packets
late. Three trials are the fewest from which the verdict can call an improvement,
and four the fewest from which it can do so although one pair of trials is
reversed or two are tied. Ring and warnings are smaller than the number of
samples, so that both wrap.

One run, `coordinator_apply_twice` (1 caller, no failure), shows a disagreement
between the code and its comment, with a finding in `PROJECT.json`: a second
apply records the optimized settings as the ones to restore.

### Statements the code does not keep

The repository says more of the program than the code does. Seven such statements
are written down as properties, five of them only for this purpose. They belong to
no run of `PROJECT.json`, and the passing runs do not claim them: TLC refutes each
with the configuration named here (`tlc -config <cfg> <module>`).

| statement | configuration, module | what happens |
|---|---|---|
| "If any individual step fails, previously applied changes are automatically rolled back" (`C/optimizations/mod.rs:28-29`): `AppliedAsAWhole` | `CoordinatorStepFails.cfg`, `MCCoordinator` | a failing power or audio step is passed over ("Continuing with remaining optimizations...", `:67`, `:78`) and the rest committed. `ImplementsTransaction` therefore lets a transaction commit with part of its changes |
| "zero orphaned settings under sudden power cuts, BSODs, or application crashes" (`PHASES/PHASE_08_SAFETY_ROLLBACK.md:14`): `BaselineWhenClean` | `CoordinatorCrashInApply.cfg`, `MCCoordinator` | a caller dies inside an apply: the settings changed so far stay, with no record (`C/optimizations/mod.rs:89`) |
| "Atomically replace target file" (`C/state/snapshot_engine.rs:676`): `SnapshotKeptUntilRestored` | `SnapshotMoveFails.cfg`, `MCSnapshot` | the fallback of a failed move deletes a snapshot that was not restored (`:699`) |
| "TIER 0: PROTECTED CORE (HARD INVARIANT: NEVER TOUCH / NEVER TERMINATE)" (`C/process/safety_db.rs:41`): `ProtectedNeverTerminated` | `ProcessesProtected.cfg`, `MCProcesses` | a Tier 0 process that took a listed pid is closed under the listed name (`C/process/terminator.rs:156`) |
| "Statistically significant performance improvement confirmed (p < 0.01" (`benchmarking/stats.rs:413`): `ImprovementIsSignificant` | `BenchmarkSignificance.cfg`, `MCBenchmark` | lows of 50, 60, 60, 60 against 61, 61, 61, 71 are ACCEPTED. t^2 is 2.88 at 6 degrees of freedom, where Student's p-value is about 0.14 and the code's is negative (`:293`) |
| "Highest ISR Execution: {}µs ({})" (`C/latency/report.rs:137`, `:142`): `HighestDriversRanThem` | `LatencyDrivers.cfg`, `MCLatency` | after two ISRs the report names one driver for a DPC that never ran and the wrong one for the highest ISR (`:23-24`) |
| "No kernel trace session leaks on application exit (guaranteed by RAII Drop implementation)" (`QA/QA_PHASE_06.md:45`): `LoggerIsNeverLeft` | `LatencyLeak.cfg`, `MCLatency` | `ProcessTrace` fails on a live session: `is_running` is lowered, stop and `Drop` return early and the kernel logger stays (`C/latency/etw_session.rs:516`) |

### Boundaries

The conditions under which the passing properties hold are necessary. Outside
them the code, and TLC with one more member in `Faults` or without `Exclusive`,
`Serial` or `OneSession`, behaves as follows:

* The record is written after the last setting is changed
  (`C/optimizations/mod.rs:89`): a crash inside an apply leaves settings changed
  and no record (`CoordinatorCrashInApply.cfg`).
* `rollback` deletes the record although a setter failed (`:152`), and an apply
  that fails at Game Mode rolls back an empty transaction, which deletes the
  record of an earlier apply (`:56`).
* `AutoGameModeEnabled` is written and not backed up
  (`C/optimizations/game_mode.rs:96`). `BaselineWhenClean` and the abstract
  transaction count Game Mode as the boolean the code reads.
* The fallback of the atomic move deletes the target before it renames
  (`C/state/snapshot_engine.rs:699`, `SnapshotMoveFails.cfg`). A save that works
  also replaces a snapshot that was not restored; `SnapshotKeptUntilRestored` is
  about losing one.
* A save can sign with a key that a recovery is about to delete, and rolling
  back one snapshot deletes the key of all snapshots in its directory (`:560`,
  `:853`).
* The daemon's boot recovery looks for `snapshot.json` and not for the record a
  session leaves (`C/main.rs:10`).
* A game that exits between its detection and `OpenProcess` is taken for a
  cancellation (`C/process/supervisor.rs:322`). A second launch, or a rollback,
  cancels the supervisor that knows which applications were closed
  (`C/ipc_server.rs:107`, `:201`).
* A daemon that cannot create the pipe stays as a process without a listener,
  and one whose first client left before `ConnectNamedPipe` holds the name
  without hearing anybody (`C/ipc_server.rs:384`, `:401`). Clients are answered
  all the same, by themselves: this is why `RequestAnswered` holds. The
  interface then handles requests without the check of its caller's rights
  (`val-opt-gui/src/ipc_client.rs:136`).
* A process that survives `TerminateProcess` is backed up and started a second
  time, and an application of several processes is started once for each
  (`C/process/terminator.rs:157`): `OneStartPerProcess` allows both and excludes
  more. A process that took a listed pid is closed under the listed name, even a
  protected one (`ProcessesProtected.cfg`).
* A late or doubled echo costs the packets after it (`C/network/probe.rs:132`):
  they count as lost although they were answered, so the loss in
  `ReportIsOfTheProbe` excludes such networks. The probe takes datagrams from any
  sender; the model has those of the echo server only.
* A latency session whose start fails returns before the statistics are cleared
  (`C/latency/etw_session.rs:448`); its report has the figures of an earlier
  session, and `ReportIsCoherent` holds of them as such.
* A capture whose `OpenTraceW` or `ProcessTrace` fails leaves its session behind
  (`C/benchmarking/etw_capture.rs:394`, `C/latency/etw_session.rs:516`), and a
  late worker can attach itself to the kernel logger of another program.

### Fairness

Weak fairness of the threads of the program, and of nothing else: the operating
system schedules a thread that can run, and every wait in them is bounded (poll
interval, one-second waits, socket timeouts) or ends with the event the model
waits for.

* `GameSession`: the handler's later steps and each supervisor. The game may run
  for ever, and `ExitRestores` only speaks of games that exit. A crash or a
  cancellation ends the obligation, as in the code.
* `PipeTransport`: listener, main and client threads. Nobody has to click.
* `NetworkDiagnostics`: the command's thread, the load threads, the echo thread;
  nothing of the network.
* `FrameBenchmark`, `LatencySession`: the runner and the worker, but not a
  failure of `ProcessTrace`, on which no end may rest; nothing of other
  programs, which is why `SessionEndsInReport` has its exception.

## Proofs

`tlapm` checks every proof to the last leaf. What the theorems say holds for any
finite or infinite sets of actors, endpoints, schemes, paths, keys, supervisors,
applications, clients, daemons, services, samples and drivers, and for every
number of packets, trials, frames and ring slots; where a set must be finite
(pids) the assumption says so. The assumptions on constants are the named
`ASSUME` of each module and are evaluated by TLC on every run. Numbers that are
unsigned in the code (times, addresses, base addresses) are assumed to be
natural; sizes that the code fixes above zero (image size, ring capacity,
history) to be positive. `FrameBenchmark` assumes at least one synthetic trial,
since without one the code fails before its loop, and outcomes that are pairs of
naturals, since rates are not negative. `ProcessControl` assumes that the
firmware's buffers are sequences of processor records, each of which is a core
with an 8-bit class, a group and its processors, another relation, or one that
is cut off.

Unless a condition is named, a theorem holds under every failure of its
component and every interleaving. Each proof module follows the same plan: one
inductive invariant, a conjunction of named parts; one lemma per part that goes
through the actions; and theorems that read the property off the invariant.

What a loop over data computes is proved as well, by induction. The library
states induction for predicates, which the installed provers cannot instantiate,
so the modules that need it have two lemmas about sets and functions in its
place. `SetInduction`: a set that holds 0, and n + 1 with every n of it, holds
every natural number; it is put to use with the set of the numbers for which the
claim is true. `Iteration`: steps can be iterated from any start, so that the
function which a recursive definition chooses exists and obeys the definition.
From these follow what a sum is (`SumSeqOf`, `SumIsBounded`, `SumsAdd`), where
the jitter's filter can go, and what stands at each place of a sorted sequence
(`OrderStatistic`). `Statistics` writes its loops so that
these apply: a sort as order statistics, a sum as a recursive function local to
its operator, a tied rank as a function of the value.

* `CoordinatorProofs`: `TypeCorrect` and `NoForeignValuesEver` hold under every
  failure. The latter needs the values a transaction in memory or on disk may
  hold (`NativeInv`). `RollbackRestoresBaseline` and `RecoveryIsRepeatable` hold
  where `SafeEnvironment` does: applies start alone and without a record, values
  can be read, restoring works, nobody dies inside an apply. The section on
  boundaries says what happens without one of these conditions. The inductive
  invariant `RecoveryInv` says, for each program point, which settings are
  restored already and that the transaction at hand still `Restores` the rest;
  the point is that a partly restored machine satisfies the same condition, so
  recoveries may overlap and be repeated. Under the same conditions
  `CoordinatorImplementsTransaction` shows that the coordinator implements
  `SettingsTransaction`: the initial state maps to its initial state, and each
  system call to one abstract step or to none. What a call does to the set of
  changed settings is stated in lemmas about `Changed`; that a restoring call
  never changes a setting anew comes from `RecoveryInv`.
* `SnapshotProofs`: `StoreTypeCorrect` and `FailSecure` hold under every failure
  and interleaving (`CleanInv`: no memory and no signature ever holds corrupted
  contents). `SnapshotAlwaysVerifiable` and the action property `NoSnapshotLost`
  hold where `SafeStore` does (one file, one operation at a time, no corruption,
  the move works), by `StoreInv`, which ties each program point to the key and
  the snapshot that are on disk.
* `SessionProofs`: `SessionTypeCorrect` and `OneSupervisorAtATime` hold for any
  number of sessions under every failure. `TunedUntilRestored` holds where
  `SafeSession` does; `SessionInv` says that at most one supervisor is live, that
  a rollback has first taken the signal, and how settings and record go together
  at each step of the handler.
* `PipeProofs`: `DaemonsServeOneRequest`, `RequestsRunAtMostOnce`,
  `AnswersTellTheTruth`. A listener is past `CreateNamedPipeW` exactly if it
  owns the instance (`OwnerInv`); the instance's state, its client and what is
  written on it go together (`InstanceInv`, `PeerInv`); and a client that still
  reads has a reply, or its request did not run, or its daemon died
  (`CountInv`). The last part is why the fallback in the interface runs a
  request again only after a death.
* `ProcessProofs`: `RelaunchIsComplete` and
  `RelaunchIsExact` rest on an account: what is owed to an image is the number
  of its places in the backups (`RelaunchInv`), which every push and every
  attempt keeps. `RightsAreGivenUp` follows the token through
  `spawn_process_with_user_token` and the launcher. `GameRunsOnFastCores` keeps
  the mask of the game together with the buffer it was computed from (`PinInv`);
  `WalkFindsCores` says that the walk over a buffer finds the core records up to
  the first one cut off, and `MaskIsOfFastCores` that the mask of any cores, if
  there is one, is made of the highest class. `ResumeIsComplete`, an action
  property of `ServiceControl`, needs that a service which is stopped and no
  longer on the resume list was missed or told to stop (`ResumeInv`).
* `NetworkProofs`: `SamplesAreEchoes` because a socket only hears its own probe
  (`EchoInv`); `ReportsAreOfTheProbe` for three reasons: on a network that only
  loses, every packet but the awaited one was answered or dropped (`LossInv`);
  at least half of any times lie on either side of the element of middle rank, or
  of the mean of the two; and each step of the jitter's filter stays within the
  range of the times;
  `GradesAreMeasured` and `LoadEnds` from where the command is (`GradeInv`,
  `LoadInv`). `CountInv` bounds the socket's queue.
* `BenchmarkProofs`: `CapturesEnd` and `FramesAreOfTheirTrial`. `CaptureInv` says
  that a worker ends before its capture is stopped only when its session is gone,
  was never opened, or broke off in `ProcessTrace`, so that the early return of
  `stop_capture` leaves behind only what one of the two calls failed on; `FrameInv` that the frames at hand are of the
  side whose profile is in force. `CaptureLowsAreOrdered` holds because every
  metric in a run is of some frames that a capture can have recorded (`LowInv`):
  a percentile of an ascending sequence grows with its rank and lies between its
  ends, a mean lies between the extremes, and fewer frames reach the higher of
  two stutter bounds. `RankSumIsExact` turns the rank of a value into the numbers
  of smaller and of equal ones (`RankOf`) and counts those on either side; the
  pairs within one side always come to the square of its size
  (`PairsWithinOne`), which leaves the pairs across.
* `LatencyProofs`: `LoggerIsStopped` by the same argument about the one kernel
  logger, which other programs may take at any time (`TraceInv`); `OriginIsTrue`
  (`OriginInv`); `ReportsAreCoherent` because the counters run ahead of the
  driver statistics by exactly the one sample under way (`MeasureInv`), and no
  worker lives while the report is read (`ReportInv`); of the two drivers
  named beside the highest times it only says that the first has the longest
  routine of either kind, since more is not true (`LatencyDrivers.cfg`). `MonitorIsUpToDate`
  has the ring slot by slot: the i-th slot that `to_vec` reads holds the i-th of
  the latest samples, for every capacity; and the warnings are the slow samples
  from some point of the history on, all of them where the list is not full.

Attempting these proofs corrected the models in four places. The bounds of
`from_latency_delta` overlapped in a `CASE`, whose meaning is then open where
the Rust chain takes the first arm. The type invariants of five modules left
queues, histories and handles untyped. The confidence interval was left open in
cases its fixed seed decides. And `ImprovementIsSeparation` claimed a
full separation of the groups, which is false in general: with four trials the
verdict can be an improvement although one pair is reversed or two are tied. The
property now says exactly this, and the run has outcomes for which it happens.

Only model-checked, and why:

* the liveness properties (`ExitRestores`, `CancelledSupervisorEnds`,
  `RequestAnswered`, `EverythingEnds`, `BenchmarkEnds`, `SessionEndsInReport`):
  fairness is outside what the prover handles;
* `ImprovementIsSeparation`: it is about groups of at most four trials and rests
  on the numbers in the tables of critical values; with ties, which lower the
  variance of the rank-sum, it takes the t-tests and the interval as well and a
  case for each way the values can coincide. The general part of it, what the
  rank-sum statistic counts, is `RankSumIsExact`.

## Not modelled

* Adapter, QoS and flow control (`C/network/{adapter,qos,flow_control}.rs`):
  nothing in the optimization pipeline calls their setters any more, and the NIC
  and QoS branches of `rollback` do not run for records that
  `apply_optimizations` writes.
* Hardware queries other than the processor topology, and the CLI commands that
  only print: they read and keep nothing.
* Access control lists, the snapshot path checks and DPAPI: `Paths` and keys are
  those that pass. The GUID text form of power schemes.
* The effect size and the variance test of `stats.rs`; its special functions and
  the bootstrap appear by what they decide. Markdown, widgets and log texts.
* Windows itself (registry, files, processes, pipes, ETW) is modelled from how
  the code uses it.

## Plan

1. Done: the models of every component above, and a proof of every safety
   property the passing runs check but `ImprovementIsSeparation`, in one proof module for
   each of the eight components that keep state.
2. Possible next: the conditions `SafeSession` and `SafeStore` weakened where the
   invariants allow it; the bound on lost pairs of an improvement for more than
   four trials.
