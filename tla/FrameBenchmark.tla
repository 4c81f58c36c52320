--------------------------- MODULE FrameBenchmark ---------------------------
(***************************************************************************)
(* The frame-time capture (etw_capture.rs, frametimes.rs) and the A/B      *)
(* runner on top of it (ab_runner.rs).                                     *)
(*                                                                         *)
(* A capture has two threads: the runner, which starts the kernel's trace  *)
(* session, sleeps, stops it and computes the metrics, and a worker inside *)
(* ProcessTrace, which runs the callback for every event.  They share      *)
(* is_active, the handles and the collector.                               *)
(***************************************************************************)
EXTENDS Statistics, FiniteSets

CONSTANTS
    Trials,         \* trials of a live benchmark
    FixtureTrials,  \* most trials of a synthetic benchmark
    Outcomes,       \* <<average, 1% low>> a synthetic trial may have
    Gaps,           \* milliseconds between two presents
    MaxFrames,      \* frames one capture may record (bound of the model)
    Warmup,         \* warmup_frames
    Pids, Target,   \* processes that present; the one traced, or None
    None,
    Faults          \* a subset of CaptureFaults

\* What may go wrong: the profile switch, StartTraceW, OpenTraceW, ProcessTrace;
\* another program stops the session.
CaptureFaults == {"apply", "start", "open", "process", "stolen"}

Sides == {"A", "B"}         \* baseline and optimized
Names == Sides \X (1 .. Trials)

\* (A benchmark of no trials compares nothing and is an error at once.)
ASSUME BenchmarkAssumption ==
    /\ Trials \in Nat \ {0} /\ FixtureTrials \in Nat \ {0}
    /\ Outcomes \subseteq Nat \X Nat
    /\ MaxFrames \in Nat /\ Warmup \in Nat
    /\ Target \in Pids \cup {None} /\ None \notin Pids
    /\ Faults \subseteq CaptureFaults

VARIABLES
    pc,         \* the runner thread
    mode,       \* which benchmark runs
    trial, side, \* the capture that runs
    profile,    \* the settings in force
    kernel,     \* trace sessions alive in the kernel, by name
    active,     \* is_active
    recording,  \* the collector's is_recording
    session,    \* session_handle is Some
    handle,     \* trace_handle is Some
    closed,     \* CloseTrace was called
    worker,     \* the worker thread
    last,       \* process of last_present_qpc, or None
    frames,     \* the collector's samples
    runs,       \* metrics of the trials of each side, with their frames
    verdict,    \* what the runner returns
    failed      \* history: sessions whose OpenTraceW or ProcessTrace failed

engine == <<active, recording, session, handle, closed, worker, last, frames>>
place  == <<mode, trial, side, profile>>
vars   == <<pc, place, kernel, engine, runs, verdict, failed>>

Verdicts == {"none", "error", "ACCEPTED", "BORDERLINE", "REGRESSION", "PLACEBO"}

TypeOK ==
    /\ pc \in {"idle", "apply", "start", "sleep", "stop", "close", "end", "join",
               "metrics", "synthetic", "done"}
    /\ mode \in {"none", "live", "synthetic"}
    /\ trial \in 1 .. Trials /\ side \in Sides /\ profile \in Sides
    /\ kernel \subseteq Names /\ failed \subseteq Names
    /\ active \in BOOLEAN /\ recording \in BOOLEAN /\ session \in BOOLEAN
    /\ handle \in BOOLEAN /\ closed \in BOOLEAN
    /\ worker \in {"none", "opening", "storing", "tracing", "ending", "ended"}
    /\ last \in Pids \cup {None}
    /\ Len(frames) <= MaxFrames
    /\ \A s \in Sides : Len(runs[s]) <= Max({Trials, FixtureTrials})
    /\ verdict \in Verdicts

Init ==
    /\ pc = "idle" /\ mode = "none" /\ trial = 1 /\ side = "A" /\ profile = "A"
    /\ kernel = {} /\ failed = {}
    /\ active = FALSE /\ recording = FALSE /\ session = FALSE
    /\ handle = FALSE /\ closed = FALSE /\ worker = "none" /\ last = None
    /\ frames = <<>> /\ runs = [s \in Sides |-> <<>>] /\ verdict = "none"

Name == <<side, trial>>

Goto(from, to) == pc = from /\ pc' = to

-----------------------------------------------------------------------------
(* A live benchmark: A1, B1, A2, B2, ...                                   *)

\* Not elevated: an error at once.
RunLive ==
    /\ mode' = "live"
    /\ \/ Goto("idle", "apply") /\ UNCHANGED verdict
       \/ Goto("idle", "done") /\ verdict' = "error"
    /\ trial' = 1 /\ side' = "A"
    /\ UNCHANGED <<profile, kernel, engine, runs, failed>>

\* apply_state, before every capture; an error ends the benchmark.
ApplyState ==
    /\ \/ Goto("apply", "start") /\ profile' = side /\ UNCHANGED verdict
       \/ /\ "apply" \in Faults /\ Goto("apply", "done")
          /\ verdict' = "error" /\ UNCHANGED profile
    /\ UNCHANGED <<mode, trial, side, kernel, engine, runs, failed>>

\* (Mutant: one engine for all trials, whose collector is not cleared.)
StartWithoutClear ==
    /\ Goto("start", "sleep")
    /\ kernel' = kernel \cup {Name}
    /\ active' = TRUE /\ recording' = TRUE /\ session' = TRUE
    /\ worker' = "opening"
    /\ handle' = FALSE /\ closed' = FALSE /\ last' = None
    /\ failed' = failed \ {Name}
    /\ UNCHANGED <<place, runs, frames, verdict>>

\* A new engine.  start_real_capture first stops a stale session of the same
\* name.
StartCapture ==
    /\ \/ /\ Goto("start", "sleep")
          /\ kernel' = kernel \cup {Name}
          /\ active' = TRUE /\ recording' = TRUE /\ session' = TRUE
          /\ worker' = "opening"
          /\ UNCHANGED verdict
       \/ /\ "start" \in Faults /\ Goto("start", "done")
          /\ kernel' = kernel \ {Name}
          /\ active' = FALSE /\ recording' = FALSE /\ session' = FALSE
          /\ worker' = "none"
          /\ verdict' = "error"
    /\ handle' = FALSE /\ closed' = FALSE /\ last' = None /\ frames' = <<>>
    /\ failed' = failed \ {Name}
    /\ UNCHANGED <<place, runs>>

\* The time of the capture is over: stop_capture exchanges is_active, and
\* returns when the worker has already lowered it.
StopCapture ==
    /\ pc = "sleep"
    /\ pc' = IF active THEN "stop" ELSE "metrics"
    /\ active' = FALSE
    /\ UNCHANGED <<place, kernel, recording, session, handle, closed, worker, last,
                   frames, runs, verdict, failed>>

StopCollector ==
    /\ Goto("stop", "close") /\ recording' = FALSE
    /\ UNCHANGED <<place, kernel, active, session, handle, closed, worker, last, frames,
                   runs, verdict, failed>>

\* CloseTrace, if the worker has stored its handle by now.
CloseTrace ==
    /\ Goto("close", "end")
    /\ handle' = FALSE /\ closed' = (closed \/ handle)
    /\ UNCHANGED <<place, kernel, active, recording, session, worker, last, frames,
                   runs, verdict, failed>>

\* (Mutant: the worker is joined before the session is stopped.)
JoinBeforeStop ==
    /\ Goto("end", "join") /\ worker \in {"ending", "ended"}
    /\ session' = FALSE /\ kernel' = kernel \ {Name}
    /\ UNCHANGED <<place, active, recording, handle, closed, worker, last, frames,
                   runs, verdict, failed>>

\* The providers are disabled and the session is stopped.
StopSession ==
    /\ Goto("end", "join")
    /\ session' = FALSE /\ kernel' = kernel \ {Name}
    /\ UNCHANGED <<place, active, recording, handle, closed, worker, last, frames,
                   runs, verdict, failed>>

\* (Mutant: the worker is left to end by itself.)
NoJoin ==
    /\ Goto("join", "metrics")
    /\ UNCHANGED <<place, kernel, engine, runs, verdict, failed>>

JoinWorker ==
    /\ Goto("join", "metrics") /\ worker = "ended"
    /\ UNCHANGED <<place, kernel, engine, runs, verdict, failed>>

Millis(fs) == [i \in DOMAIN fs |-> fs[i].ms]

Column(side_, field) == [i \in DOMAIN runs'[side_] |-> runs'[side_][i][field]]

\* The trials' figures, compared once all are there.
Compare ==
    verdict' \in compare_ab_trials(Column("A", "avg"), Column("A", "low"),
                                   Column("B", "avg"), Column("B", "low"))

\* The metrics of a capture, in a benchmark of n trials.
Metrics(n) ==
    LET m == compute_metrics(Millis(frames), Warmup)
    IN  /\ pc = "metrics"
        /\ IF ~m.ok
           THEN pc' = "done" /\ verdict' = "error" /\ UNCHANGED <<trial, side, runs>>
           ELSE /\ runs' = [runs EXCEPT ![side] = Append(@,
                              [avg |-> m.avg_fps, low |-> m.low1, all |-> m, of |-> frames])]
                /\ IF Name = <<"B", n>>
                   THEN pc' = "done" /\ Compare /\ UNCHANGED <<trial, side>>
                   ELSE /\ pc' = "apply" /\ UNCHANGED verdict
                        /\ side' = (IF side = "A" THEN "B" ELSE "A")
                        /\ trial' = IF side = "B" THEN trial + 1 ELSE trial
        /\ UNCHANGED <<mode, profile, kernel, engine, failed>>

\* calculate_metrics: too few frames are an error, and end the benchmark.
TakeMetrics == Metrics(Trials)

-----------------------------------------------------------------------------
(* The worker thread.                                                      *)

\* OpenTraceW; it fails also when the session is gone.
OpenTrace ==
    /\ worker = "opening"
    /\ \/ Name \in kernel /\ worker' = "storing" /\ UNCHANGED failed
       \/ Name \notin kernel /\ worker' = "ending" /\ UNCHANGED failed
       \/ "open" \in Faults /\ worker' = "ending" /\ failed' = failed \cup {Name}
    /\ UNCHANGED <<pc, place, kernel, active, recording, session, handle, closed, last,
                   frames, runs, verdict>>

StoreHandle ==
    /\ worker = "storing" /\ worker' = "tracing" /\ handle' = TRUE
    /\ UNCHANGED <<pc, place, kernel, active, recording, session, closed, last, frames,
                   runs, verdict, failed>>

(***************************************************************************)
(* event_record_callback, for a present of process p, ms after the one     *)
(* before.  Presents of other processes leave no trace; the first present  *)
(* only sets the clock, and so does one after an absurd gap.               *)
(***************************************************************************)
Callback(p, ms) ==
    /\ worker = "tracing" /\ Name \in kernel /\ ~closed
    /\ Target \in {None, p}
    /\ last' = p
    /\ frames' = IF last # None /\ recording /\ ms \in 1 .. 4999 /\ Len(frames) < MaxFrames
                 THEN Append(frames, [ms |-> ms, from |-> last, to |-> p, under |-> profile])
                 ELSE frames
    /\ UNCHANGED <<pc, place, kernel, active, recording, session, handle, closed, worker,
                   runs, verdict, failed>>

\* ProcessTrace returns once its handle is closed or the session has ended.
TraceReturns ==
    /\ worker = "tracing" /\ (closed \/ Name \notin kernel)
    /\ worker' = "ending"
    /\ UNCHANGED <<pc, place, kernel, active, recording, session, handle, closed, last,
                   frames, runs, verdict, failed>>

\* ProcessTrace fails while the session lives; its status is not looked at.
TraceFails ==
    /\ "process" \in Faults /\ worker = "tracing"
    /\ worker' = "ending" /\ failed' = failed \cup {Name}
    /\ UNCHANGED <<pc, place, kernel, active, recording, session, handle, closed, last,
                   frames, runs, verdict>>

\* The worker's last act: is_active is lowered and the context freed.
WorkerEnds ==
    /\ worker = "ending" /\ worker' = "ended" /\ active' = FALSE
    /\ UNCHANGED <<pc, place, kernel, recording, session, handle, closed, last, frames,
                   runs, verdict, failed>>

\* Another program starts a session of this name, or stops it.
Stolen ==
    /\ "stolen" \in Faults /\ worker = "tracing" /\ Name \in kernel
    /\ kernel' = kernel \ {Name}
    /\ UNCHANGED <<pc, place, engine, runs, verdict, failed>>

-----------------------------------------------------------------------------
(* A synthetic benchmark: no session and no thread.                        *)

RunSynthetic ==
    /\ Goto("idle", "synthetic") /\ mode' = "synthetic"
    /\ UNCHANGED <<trial, side, profile, kernel, engine, runs, verdict, failed>>

\* One pair of trials, the last one or not.  The fixture's frames depend on the
\* configuration alone; here a trial may have any of the Outcomes.
SyntheticPair(a, b) ==
    LET figures(o) == [avg |-> o[1], low |-> o[2]]
    IN  /\ pc = "synthetic"
        /\ runs' = [A |-> Append(runs["A"], figures(a)), B |-> Append(runs["B"], figures(b))]
        /\ \/ pc' = "done" /\ Compare
           \/ Len(runs'["A"]) < FixtureTrials /\ UNCHANGED <<pc, verdict>>
        /\ UNCHANGED <<place, kernel, engine, failed>>

\* The fixture has no more frames than the warm-up drops: the first trial's
\* metrics are an error.
SyntheticFails ==
    /\ runs["A"] = <<>> /\ Goto("synthetic", "done") /\ verdict' = "error"
    /\ UNCHANGED <<place, kernel, engine, runs, failed>>

\* The report is out; the next benchmark finds what this one left in the kernel.
Again ==
    /\ Goto("done", "idle")
    /\ runs' = [s \in Sides |-> <<>>] /\ verdict' = "none" /\ mode' = "none"
    /\ frames' = <<>> /\ worker' = "none" /\ last' = None /\ recording' = FALSE
    /\ session' = FALSE /\ handle' = FALSE /\ closed' = FALSE /\ active' = FALSE
    /\ profile' = "A" /\ trial' = 1 /\ side' = "A"
    /\ UNCHANGED <<kernel, failed>>

-----------------------------------------------------------------------------
Runner ==
    \/ ApplyState \/ StartCapture \/ StopCapture \/ StopCollector \/ CloseTrace
    \/ StopSession \/ JoinWorker \/ TakeMetrics

Worker == OpenTrace \/ StoreHandle \/ TraceReturns \/ WorkerEnds

LiveNext ==
    \/ RunLive \/ Again
    \/ Runner \/ Worker
    \/ \E p \in Pids, ms \in Gaps : Callback(p, ms)
    \/ TraceFails \/ Stolen

FixtureNext ==
    \/ RunSynthetic \/ SyntheticFails
    \/ \E a, b \in Outcomes : SyntheticPair(a, b)

Next == LiveNext \/ FixtureNext

\* Both threads run.
Fairness == WF_vars(Runner) /\ WF_vars(Worker)

Spec == Init /\ [][Next]_vars /\ Fairness

-----------------------------------------------------------------------------
(* Every frame a side's metrics are made of was presented while that       *)
(* side's settings were in force, and lies between two presents of the     *)
(* target process: no frame of one trial slips into the next (the engine   *)
(* is new, its collector cleared, the worker joined).                      *)
FramesBelongToTheirTrial ==
    \A s \in Sides : mode = "live" =>
        \A i \in DOMAIN runs[s] : \A f \in Range(runs[s][i].of) :
            /\ f.under = s
            /\ Target # None => f.from = Target /\ f.to = Target

(* When the metrics are computed the capture is over: the worker runs no   *)
(* callback any more (stop_capture has joined it, or had nothing to stop), *)
(* and a trace session outlives its capture only when its OpenTraceW or    *)
(* its ProcessTrace failed.  There the code does leave it: the worker      *)
(* lowers is_active, stop_capture returns early and the session runs on    *)
(* until a capture of the same name.                                       *)
StopEndsCapture ==
    pc \in {"metrics", "apply", "done", "idle"} =>
        worker \in {"none", "ending", "ended"} /\ kernel \subseteq failed

(* The lows of a capture are ordered: minimum, 0.1% low, 1% low, median,   *)
(* maximum; and every stutter of twice the mean is one of 1.5 times.       *)
LowsAreOrdered ==
    mode = "live" => \A s \in Sides : \A i \in DOMAIN runs[s] :
        LET m == runs[s][i].all
        IN  /\ m.min_fps <= m.low01 /\ m.low01 <= m.low1
            /\ m.low1 <= PerSecond(m.p50) /\ PerSecond(m.p50) <= m.max_fps
            /\ m.min_fps <= m.avg_fps /\ m.avg_fps <= m.max_fps
            /\ m.stutter20 <= m.stutter15

\* The 1% lows of a side, and the pairs of trials with such lows.
Lows(s) == [i \in DOMAIN runs[s] |-> runs[s][i].low]
TrialPairs == (DOMAIN runs["A"]) \X (DOMAIN runs["B"])
Won  == {p \in TrialPairs : Lows("A")[p[1]] < Lows("B")[p[2]]}
Tied == {p \in TrialPairs : Lows("A")[p[1]] = Lows("B")[p[2]]}
Lost == {p \in TrialPairs : Lows("A")[p[1]] > Lows("B")[p[2]]}

(* The rank-sum statistic, computed from mid-ranks, counts the pairs in    *)
(* which the optimized trial is the faster one, a tie as half a pair.      *)
RankSumCountsPairs ==
    RankSumU(Lows("A"), Lows("B")) = 2 * Cardinality(Won) + Cardinality(Tied)

(* A benchmark of up to four trials is called an improvement only if it    *)
(* has three and every optimized trial beats every baseline trial, or has  *)
(* four and at most one such pair goes the other way or two are ties.      *)
ImprovementIsSeparation ==
    verdict \in {"ACCEPTED", "BORDERLINE"} /\ Len(runs["A"]) <= 4 =>
        /\ Len(runs["A"]) >= 3
        /\ 2 * Cardinality(Lost) + Cardinality(Tied) <= IF Len(runs["A"]) = 3 THEN 0 ELSE 2

\* t^2 of the two tests is beyond the 1% point of Student's distribution (times
\* 100, for 1 .. 8 degrees of freedom).
StudentBeyond(num, den, df) ==
    100 * num > <<405218, 9850, 3412, 2120, 1626, 1375, 1225, 1126>>[df] * den

(* What the report says of an improvement, "statistically significant"     *)
(* with p < 0.01: the difference of the 1% lows is beyond the 1% point of  *)
(* Student's distribution in the paired test or in Welch's.  The code does *)
(* not keep it: see Dip.                                                   *)
ImprovementIsSignificant ==
    verdict \in {"ACCEPTED", "BORDERLINE"} =>
        LET a == Lows("A")
            b == Lows("B")
            n == Len(a)
            d == Diffs(a, b)
            gain == (n - 1) * SumSeq(d) * SumSeq(d)
            both == Spread(a) + Spread(b)
        IN  \/ Spread(d) = 0 \/ both = 0
            \/ StudentBeyond(gain, Spread(d), n - 1)
            \/ StudentBeyond(gain, both, 2 * n - 2)

(* A live benchmark comes to its end, whatever becomes of the session and  *)
(* wherever the worker was when the capture was stopped.                   *)
BenchmarkEnds == pc = "apply" ~> pc = "done"

=============================================================================
