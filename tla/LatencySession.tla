--------------------------- MODULE LatencySession ---------------------------
(***************************************************************************)
(* The kernel latency session (etw_session.rs): a manager that owns the NT *)
(* Kernel Logger for a few seconds, the driver isolator and the monitor it *)
(* feeds (driver_isolator.rs, monitor.rs), and the report made of them     *)
(* (report.rs).  There is one such logger on a machine; other programs,    *)
(* another val-opt process among them, start and stop it too.              *)
(***************************************************************************)
EXTENDS Integers, SequencesExt, FiniteSets

CONSTANTS
    Samples,      \* [us, addr, dpc]: routines the kernel may report
    DriverLists,  \* what enumerating the drivers may yield
    ImageSize,    \* 0x4000000: the farthest a routine lies from its driver
    Capacity,     \* of the monitor's ring
    MaxWarnings,  \* max_warnings_history
    MaxSamples,   \* samples of one session (bound of the model)
    Faults        \* a subset of SessionFaults

\* What may go wrong: no elevation, StartTraceW, OpenTraceW, ProcessTrace,
\* another program takes the logger or stops it.
SessionFaults == {"elevation", "start", "open", "process", "other"}

ASSUME LatencyAssumption ==
    /\ Capacity \in Nat \ {0} /\ MaxWarnings \in Nat \ {0}
    /\ MaxSamples \in Nat /\ ImageSize \in Nat \ {0}
    /\ Samples \subseteq [us : Nat, addr : Nat, dpc : BOOLEAN]
    /\ \A list \in DriverLists : \A d \in list : d.base \in Nat
    /\ Faults \subseteq SessionFaults

Unknown == "UnknownKernelRoutine"
Statuses == {"RealEtwCollected", "UnsupportedElevationRequired",
             "UnsupportedSessionInUse", "SessionError", "SyntheticTestFixture"}

VARIABLES
    pc,        \* the thread that runs the session
    logger,    \* who runs the NT Kernel Logger
    running,   \* is_running
    status,    \* measurement_status
    session,   \* session_handle is Some
    handle,    \* trace_handle is Some
    closed,    \* CloseTrace was called
    worker,    \* the thread inside ProcessTrace
    attached,  \* whose session the worker has opened, while that lives
    pending,   \* the sample the worker has counted and not yet recorded
    drivers,   \* the isolator's driver list
    stats,     \* driver_stats: per driver its highest time and count
    totals,    \* total_dpcs, total_isrs, max_dpc_us, max_isr_us
    ring,      \* the monitor's ring buffer
    warnings,  \* warning_events
    report,    \* the report under construction
    seen,      \* history: samples recorded since the last reset, by origin
    failed     \* history: OpenTraceW or ProcessTrace failed in the last session

trace    == <<running, session, handle, closed, worker, attached, pending>>
measured == <<stats, totals, ring, warnings, seen>>
vars     == <<pc, logger, status, trace, drivers, measured, report, failed>>

EmptyRing == [slots |-> [i \in 0 .. Capacity - 1 |-> <<>>], head |-> 0, count |-> 0]
NoStats   == [d \in {} |-> 0]
Zero      == [dpcs |-> 0, isrs |-> 0, max_dpc |-> 0, max_isr |-> 0]
NoReport  == [offending |-> {}, top |-> 0, dpc_driver |-> "None", isr_driver |-> "None",
              dpcs |-> 0, isrs |-> 0, max_dpc |-> 0, max_isr |-> 0, suitable |-> FALSE]

\* A sample with the session it came from.
Recorded == [sample : Samples, origin : {"kernel", "fixture"}]

TypeOK ==
    /\ pc \in {"ready", "stopStale", "startTrace", "sleep", "close", "end", "join",
               "fixture", "drivers", "highest", "totals", "reported"}
    /\ logger \in {"none", "ours", "other"} /\ status \in Statuses
    /\ running \in BOOLEAN /\ session \in BOOLEAN
    /\ handle \in BOOLEAN /\ closed \in BOOLEAN /\ failed \in BOOLEAN
    /\ worker \in {"none", "opening", "storing", "tracing", "ending", "ended"}
    /\ attached \in {"none", "ours", "other"} /\ drivers \in DriverLists
    /\ pending \in Seq(Samples) /\ Len(pending) <= 1
    /\ totals \in [dpcs : Nat, isrs : Nat, max_dpc : Nat, max_isr : Nat]
    /\ totals.dpcs + totals.isrs <= MaxSamples
    /\ stats \in [DOMAIN stats -> [max : Nat, count : Nat]]
    /\ ring \in [slots : [0 .. Capacity - 1 -> Seq(Samples)],
                head : 0 .. Capacity - 1, count : 0 .. Capacity]
    /\ warnings \in Seq(Samples) /\ Len(warnings) <= MaxWarnings
    /\ seen \in Seq(Recorded) /\ Len(seen) <= MaxSamples

Init ==
    /\ pc = "ready" /\ logger = "none" /\ running = FALSE /\ status = "SessionError"
    /\ session = FALSE /\ handle = FALSE /\ closed = FALSE /\ worker = "none"
    /\ attached = "none" /\ pending = <<>> /\ drivers \in DriverLists
    /\ stats = NoStats /\ totals = Zero /\ ring = EmptyRing /\ warnings = <<>>
    /\ report = NoReport /\ seen = <<>> /\ failed = FALSE

Goto(from, to) == pc = from /\ pc' = to

-----------------------------------------------------------------------------
(* Which driver a routine belongs to.                                      *)

\* resolve_address: the verified driver with the highest base at or below the
\* address, unless it is too far away.  No driver, or one.
resolve_address(addr) ==
    LET verified == {d \in drivers : d.verified /\ d.base > 0}
        below    == {d \in verified : d.base <= addr}
    IN  {d \in below : /\ \A e \in below : e.base <= d.base
                       /\ addr = d.base \/ addr < d.base + ImageSize}

DriverOf(addr) ==
    IF resolve_address(addr) = {} THEN Unknown
    ELSE (CHOOSE d \in resolve_address(addr) : TRUE).name

Higher(x, y) == IF x > y THEN x ELSE y

\* record_execution: the entry of the driver, made at its first sample.
record_execution(s) ==
    LET d   == DriverOf(s.addr)
        old == IF d \in DOMAIN stats THEN stats[d] ELSE [max |-> 0, count |-> 0]
        new == [max |-> Higher(s.us, old.max), count |-> old.count + 1]
    IN  [x \in DOMAIN stats \cup {d} |-> IF x = d THEN new ELSE stats[x]]

Offending == {d \in DOMAIN stats : stats[d].max >= 500}

-----------------------------------------------------------------------------
(* The monitor.                                                            *)

Push(r, s) ==
    [slots |-> [r.slots EXCEPT ![r.head] = <<s>>],
     head  |-> (r.head + 1) % Capacity,
     count |-> IF r.count < Capacity THEN r.count + 1 ELSE r.count]

\* (Mutant: the oldest sample is sought at head even while the ring fills.)
to_vec_from_head(r) ==
    FlattenSeq([i \in 1 .. r.count |-> r.slots[(r.head + i - 1) % Capacity]])

\* The samples from the oldest to the newest; empty slots are skipped.
to_vec(r) ==
    LET start == IF r.count < Capacity THEN 0 ELSE r.head
    IN  FlattenSeq([i \in 1 .. r.count |-> r.slots[(start + i - 1) % Capacity]])

\* A sample of 500 us or more becomes a warning; the oldest makes room.
Warned(s) ==
    IF s.us < 500 THEN warnings
    ELSE Append(IF Len(warnings) >= MaxWarnings THEN Tail(warnings) ELSE warnings, s)

\* The two halves of ingest_sample: the atomic counters, then the isolator and
\* the monitor.
Counted(s) ==
    IF s.dpc THEN [totals EXCEPT !.dpcs = @ + 1, !.max_dpc = Higher(s.us, @)]
             ELSE [totals EXCEPT !.isrs = @ + 1, !.max_isr = Higher(s.us, @)]

Record(s, origin) ==
    /\ stats' = record_execution(s)
    /\ ring' = Push(ring, s) /\ warnings' = Warned(s)
    /\ seen' = Append(seen, [sample |-> s, origin |-> origin])

\* Everything measured before is forgotten.
Reset ==
    /\ stats' = NoStats /\ totals' = Zero /\ ring' = EmptyRing
    /\ warnings' = <<>> /\ seen' = <<>>

-----------------------------------------------------------------------------
(* A real session.                                                         *)

\* start_session up to the elevation barrier.  A failure leaves a status; the
\* callers go on to the report.
StartSession ==
    /\ ~running
    /\ \/ Goto("ready", "stopStale") /\ UNCHANGED status
       \/ /\ "elevation" \in Faults /\ Goto("ready", "drivers")
          /\ status' = "UnsupportedElevationRequired"
    /\ UNCHANGED <<logger, trace, drivers, measured, report, failed>>

EndLogger == logger' = "none" /\ attached' = "none"

\* Any session of the logger is stopped, whoever started it.
StopStale ==
    /\ Goto("stopStale", "startTrace") /\ EndLogger
    /\ UNCHANGED <<status, running, session, handle, closed, worker, pending, drivers,
                   measured, report, failed>>

\* (Mutant: the measurements of the session before are kept.)
StartWithoutReset ==
    /\ Goto("startTrace", "sleep") /\ logger = "none"
    /\ logger' = "ours" /\ running' = TRUE /\ session' = TRUE
    /\ status' = "RealEtwCollected" /\ worker' = "opening"
    /\ handle' = FALSE /\ closed' = FALSE /\ failed' = FALSE
    /\ UNCHANGED <<attached, pending, drivers, measured, report>>

\* StartTraceW: the logger may have been taken again meanwhile.
StartTrace ==
    \/ /\ logger = "none" /\ Goto("startTrace", "sleep")
       /\ logger' = "ours" /\ running' = TRUE /\ session' = TRUE
       /\ status' = "RealEtwCollected" /\ worker' = "opening"
       /\ handle' = FALSE /\ closed' = FALSE /\ failed' = FALSE
       /\ Reset
       /\ UNCHANGED <<attached, pending, drivers, report>>
    \/ /\ Goto("startTrace", "drivers")
       /\ status' \in (IF logger # "none" THEN {"UnsupportedSessionInUse"} ELSE {})
                        \cup (IF "start" \in Faults
                              THEN {"SessionError", "UnsupportedElevationRequired"} ELSE {})
       /\ UNCHANGED <<logger, trace, drivers, measured, report, failed>>

\* stop_session does nothing when the worker has lowered is_running.
StopSession ==
    /\ pc = "sleep"
    /\ pc' = IF running THEN "close" ELSE "drivers"
    /\ running' = FALSE
    /\ UNCHANGED <<logger, status, session, handle, closed, worker, attached, pending, drivers,
                   measured, report, failed>>

CloseTrace ==
    /\ Goto("close", "end")
    /\ handle' = FALSE /\ closed' = (closed \/ handle)
    /\ UNCHANGED <<logger, status, running, session, worker, attached, pending, drivers, measured,
                   report, failed>>

\* (Mutant: the worker is joined before the logger is stopped.)
JoinBeforeStop ==
    /\ Goto("end", "join") /\ worker = "ended"
    /\ session' = FALSE /\ EndLogger
    /\ UNCHANGED <<status, running, handle, closed, worker, pending, drivers, measured,
                   report, failed>>

\* (Mutant: closing the trace is taken to stop the logger.)
CloseOnly ==
    /\ Goto("end", "join") /\ session' = FALSE /\ attached' = "none"
    /\ UNCHANGED <<logger, status, running, handle, closed, worker, pending, drivers, measured,
                   report, failed>>

\* ControlTraceW by the logger's name: another program's session that has taken
\* its place is stopped as well.
StopLogger ==
    /\ Goto("end", "join") /\ session' = FALSE /\ EndLogger
    /\ UNCHANGED <<status, running, handle, closed, worker, pending, drivers, measured,
                   report, failed>>

\* (Mutant: the worker is left to end by itself.)
NoJoin ==
    /\ Goto("join", "drivers")
    /\ UNCHANGED <<logger, status, trace, drivers, measured, report, failed>>

Join ==
    /\ Goto("join", "drivers") /\ worker = "ended"
    /\ UNCHANGED <<logger, status, trace, drivers, measured, report, failed>>

-----------------------------------------------------------------------------
(* The worker.                                                             *)

\* OpenTraceW by name: it may find the session of another program.
OpenTrace ==
    /\ worker = "opening"
    /\ \/ /\ logger # "none" /\ worker' = "storing" /\ attached' = logger
          /\ UNCHANGED failed
       \/ logger = "none" /\ worker' = "ending" /\ UNCHANGED <<attached, failed>>
       \/ "open" \in Faults /\ worker' = "ending" /\ failed' = TRUE /\ UNCHANGED attached
    /\ UNCHANGED <<pc, logger, status, running, session, handle, closed, pending, drivers,
                   measured, report>>

StoreHandle ==
    /\ worker = "storing" /\ worker' = "tracing" /\ handle' = TRUE
    /\ UNCHANGED <<pc, logger, status, running, session, closed, attached, pending, drivers, measured,
                   report, failed>>

\* kernel_event_record_callback, first half.
CountSample(s) ==
    /\ worker = "tracing" /\ attached # "none" /\ ~closed /\ pending = <<>>
    /\ Len(seen) < MaxSamples
    /\ totals' = Counted(s) /\ pending' = <<s>>
    /\ UNCHANGED <<pc, logger, status, running, session, handle, closed, worker, attached, drivers,
                   stats, ring, warnings, seen, report, failed>>

RecordSample ==
    /\ worker = "tracing" /\ pending # <<>>
    /\ Record(pending[1], "kernel") /\ pending' = <<>>
    /\ UNCHANGED <<pc, logger, status, running, session, handle, closed, worker, attached, drivers,
                   totals, report, failed>>

\* ProcessTrace returns between two callbacks.
TraceReturns ==
    /\ worker = "tracing" /\ pending = <<>> /\ (closed \/ attached = "none")
    /\ worker' = "ending"
    /\ UNCHANGED <<pc, logger, status, running, session, handle, closed, attached, pending, drivers,
                   measured, report, failed>>

\* ProcessTrace fails while the session lives; its status is not looked at.
TraceFails ==
    /\ "process" \in Faults /\ worker = "tracing" /\ pending = <<>>
    /\ worker' = "ending" /\ failed' = TRUE
    /\ UNCHANGED <<pc, logger, status, running, session, handle, closed, attached, pending, drivers,
                   measured, report>>

WorkerEnds ==
    /\ worker = "ending" /\ worker' = "ended" /\ running' = FALSE
    /\ UNCHANGED <<pc, logger, status, session, handle, closed, attached, pending, drivers, measured,
                   report, failed>>

\* Another program stops the logger, or takes it when it is free.
OtherStops ==
    /\ "other" \in Faults /\ logger # "none" /\ EndLogger
    /\ UNCHANGED <<pc, status, running, session, handle, closed, worker, pending, drivers,
                   measured, report, failed>>

OtherStarts ==
    /\ "other" \in Faults /\ logger = "none" /\ logger' = "other"
    /\ UNCHANGED <<pc, status, trace, drivers, measured, report, failed>>

-----------------------------------------------------------------------------
(* The synthetic session of the tests, and the report.                     *)

StartFixture ==
    /\ ~running /\ Goto("ready", "fixture") /\ running' = TRUE
    /\ status' = "SyntheticTestFixture" /\ Reset
    /\ UNCHANGED <<logger, session, handle, closed, worker, attached, pending, drivers, report, failed>>

FixtureSample(s) ==
    /\ pc = "fixture" /\ Len(seen) < MaxSamples
    /\ totals' = Counted(s) /\ Record(s, "fixture")
    /\ UNCHANGED <<pc, logger, status, trace, drivers, report, failed>>

FixtureEnds ==
    /\ Goto("fixture", "drivers") /\ running' = FALSE
    /\ UNCHANGED <<logger, status, session, handle, closed, worker, attached, pending, drivers,
                   measured, report, failed>>

\* get_top_drivers sorts by the highest time: who may come first; equals take any
\* order.
FirstOf(names, default) ==
    IF names = {} THEN {default}
    ELSE {d \in names : \A e \in names : stats[e].max <= stats[d].max}

\* generate_report reads the isolator.  It gives the first driver of the list for
\* the highest DPC and the second, or else the first, for the highest ISR.
ReadDrivers ==
    /\ Goto("drivers", "highest")
    /\ \E first \in FirstOf(DOMAIN stats, "None") :
       \E second \in FirstOf(DOMAIN stats \ {first}, first) :
          report' = [NoReport EXCEPT
                       !.offending = Offending,
                       !.top = Max({stats[d].max : d \in DOMAIN stats} \cup {0}),
                       !.dpc_driver = first, !.isr_driver = second]
    /\ UNCHANGED <<logger, status, trace, drivers, measured, failed>>

Suitable ==
    /\ status \in {"RealEtwCollected", "SyntheticTestFixture"}
    /\ totals.max_dpc < 1000

\* Then the highest times, and at the end the numbers.
ReadHighest ==
    /\ Goto("highest", "totals")
    /\ report' = [report EXCEPT !.max_dpc = totals.max_dpc, !.max_isr = totals.max_isr,
                                !.suitable = Suitable]
    /\ UNCHANGED <<logger, status, trace, drivers, measured, failed>>

ReadTotals ==
    /\ Goto("totals", "reported")
    /\ report' = [report EXCEPT !.dpcs = totals.dpcs, !.isrs = totals.isrs]
    /\ UNCHANGED <<logger, status, trace, drivers, measured, failed>>

\* The manager runs another session, or is dropped and replaced by a new one.
NextSession ==
    /\ Goto("reported", "ready") /\ report' = NoReport
    /\ \/ UNCHANGED <<status, drivers, measured>>
       \/ status' = "SessionError" /\ drivers' \in DriverLists /\ Reset
    /\ UNCHANGED <<logger, trace, failed>>

-----------------------------------------------------------------------------
Manager ==
    \/ StopStale \/ StartTrace \/ StopSession \/ CloseTrace \/ StopLogger \/ Join
    \/ FixtureEnds \/ ReadDrivers \/ ReadHighest \/ ReadTotals

Worker == OpenTrace \/ StoreHandle \/ RecordSample \/ TraceReturns \/ WorkerEnds

Next ==
    \/ StartSession \/ StartFixture \/ NextSession
    \/ Manager \/ Worker
    \/ \E s \in Samples : CountSample(s) \/ FixtureSample(s)
    \/ TraceFails \/ OtherStops \/ OtherStarts

\* Both threads run.
Spec == Init /\ [][Next]_vars /\ WF_vars(Manager) /\ WF_vars(Worker)

-----------------------------------------------------------------------------
(* The counts, times and offending drivers of a report agree although they *)
(* are read in several steps: the counters add up to the samples recorded, *)
(* the highest times of counters and drivers are the same, a driver is     *)
(* named as offending exactly if some time reached 500 us, and each such   *)
(* driver, unless unknown, is one whose base address was verified and      *)
(* whose image holds a routine that was sampled.  The driver named for the *)
(* highest DPC is one whose longest routine, DPC or ISR, took the highest  *)
(* time of both; more does not hold (see HighestDriversRanThem).  No       *)
(* callback runs while the report is read.  The samples are those of the   *)
(* last session that was started: after a start that failed (which returns *)
(* before the statistics are cleared) the report has the figures of an     *)
(* earlier one.                                                            *)
ReportIsCoherent ==
    pc = "reported" =>
        /\ report.dpcs + report.isrs = Len(seen)
        /\ report.top = Higher(report.max_dpc, report.max_isr)
        /\ (report.offending # {}) = (report.top >= 500)
        /\ report.top > 0 =>
              report.dpc_driver \in {d \in DOMAIN stats : stats[d].max = report.top}
        /\ \A name \in report.offending \ {Unknown} :
              \E d \in drivers : d.name = name /\ d.verified /\
                \E i \in DOMAIN seen : seen[i].sample.addr \in d.base .. d.base + ImageSize - 1

\* The samples that reached 500 us, by their place in the history.
Slow == {n \in DOMAIN seen : seen[n].sample.us >= 500}

\* The warnings are slow samples in their order.  One that is missing is older
\* than all of them, and made room because there were MaxWarnings.
WarningsAreLatest ==
    \E from \in [DOMAIN warnings -> Slow] :
        /\ \A i, j \in DOMAIN warnings : i < j => from[i] < from[j]
        /\ \A i \in DOMAIN warnings : warnings[i] = seen[from[i]].sample
        /\ \A n \in Slow \ Range(from) :
               Len(warnings) = MaxWarnings /\ \A i \in DOMAIN warnings : n < from[i]

(* The ring holds the latest samples in their order, and the warnings are  *)
(* the latest of those that reached 500 us.                                *)
MonitorHoldsTheLatest ==
    LET samples == [i \in DOMAIN seen |-> seen[i].sample]
    IN  /\ to_vec(ring) = SubSeq(samples, Higher(1, Len(seen) - Capacity + 1), Len(seen))
        /\ WarningsAreLatest

(* A session marked as real holds samples of the kernel only, one marked   *)
(* as synthetic samples of the fixture only.                               *)
OriginIsDeclared ==
    /\ status = "RealEtwCollected" => \A i \in DOMAIN seen : seen[i].origin = "kernel"
    /\ status = "SyntheticTestFixture" => \A i \in DOMAIN seen : seen[i].origin = "fixture"

(* What the report says beside the highest times ("Highest ISR Execution:  *)
(* 700us (nvlddmkm.sys)"): the driver it names ran a routine of that kind  *)
(* for that long.  The code does not keep it: it takes the first and the   *)
(* second of a list that does not tell DPCs from ISRs.                     *)
HighestDriversRanThem ==
    LET ran(name, dpc, us) ==
          \E i \in DOMAIN seen :
              /\ seen[i].sample.dpc = dpc /\ seen[i].sample.us = us
              /\ DriverOf(seen[i].sample.addr) = name
    IN  pc = "reported" =>
            /\ report.dpcs > 0 => ran(report.dpc_driver, TRUE, report.max_dpc)
            /\ report.isrs > 0 => ran(report.isr_driver, FALSE, report.max_isr)

(* The logger is left running by a session only if its OpenTraceW or its   *)
(* ProcessTrace failed, however stop, worker and other programs            *)
(* interleave.  After such a failure the code does leave it: the worker    *)
(* lowers is_running, and stop_session, which Drop calls too, does         *)
(* nothing.                                                                *)
LoggerLeftOnlyAfterFailure ==
    (pc \in {"drivers", "highest", "totals", "reported", "ready"} /\ logger = "ours") => failed

(* The manager has stopped its session or was dropped: none of its own is  *)
(* left in the kernel, as "guaranteed by RAII Drop implementation".  The   *)
(* code does not keep it where the trace failed.                           *)
LoggerIsNeverLeft == pc = "ready" => logger # "ours"

(* Every session ends in a report, wherever the worker was when it was     *)
(* stopped.  The exception: a worker so late that it opens the session of  *)
(* another program after its own was stopped keeps join waiting for that   *)
(* program.                                                                *)
SessionEndsInReport ==
    pc \in {"stopStale", "fixture"} ~>
        (pc = "reported" \/ (pc = "join" /\ attached = "other" /\ ~closed))

=============================================================================
