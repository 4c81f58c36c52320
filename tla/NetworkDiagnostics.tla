-------------------------- MODULE NetworkDiagnostics --------------------------
(***************************************************************************)
(* The UDP probe (probe.rs), the local echo server and the bufferbloat     *)
(* test with its load workers (bufferbloat.rs), as one command of the CLI  *)
(* or one request of the daemon runs them.                                 *)
(*                                                                         *)
(* A probe sends one datagram at a time and reads one datagram, or times   *)
(* out.  The network may lose an echo, deliver it after the timeout, or    *)
(* deliver it twice.                                                       *)
(***************************************************************************)
EXTENDS Statistics, FiniteSets

CONSTANTS
    Packets,   \* packet_count of each probe
    Rtts,      \* round-trip times in milliseconds
    Workers,   \* load_concurrency
    Faults     \* a subset of NetworkFaults

\* What may go wrong: a socket cannot be bound, a datagram cannot be sent, the
\* network loses, delays or duplicates an echo.
NetworkFaults == {"socket", "send", "lose", "late", "duplicate"}

ASSUME NetworkAssumption ==
    /\ Packets \in Nat \ {0}
    /\ Rtts \subseteq Nat
    /\ Faults \subseteq NetworkFaults

VARIABLES
    command,   \* ping-probe or bufferbloat
    pc,        \* the thread that runs the command
    phase,     \* which probe runs
    seq,       \* sequence number of the probe loop
    air,       \* datagrams between the socket and its echo
    inbox,     \* datagrams queued at the socket
    samples,   \* rtt_samples_ms, with the probe and the echo of each
    reports,   \* PingProbeReport of each phase
    grade,     \* the bufferbloat verdict
    loading,   \* is_loading
    worker,    \* the load threads
    serving,   \* is_running of the echo server
    server,    \* the echo thread
    dropped,   \* history: probes of this phase that nobody echoed
    disorder   \* history: an echo of this phase came late or twice

probeVars == <<seq, air, inbox, samples, dropped, disorder>>
loadVars  == <<loading, worker>>
echoVars  == <<serving, server>>
vars == <<command, pc, phase, probeVars, reports, grade, loadVars, echoVars>>

Phases == {"unloaded", "loaded"}
Grades == {"A+", "A", "B", "C", "D", "F"}
NoReport == [ok |-> FALSE]

\* What travels, and what a probe keeps of an echo.
Datagrams == [phase : Phases, seq : 1 .. Packets]
Echoes    == [seq : 1 .. Packets, rtt : Rtts, echo : Datagrams]

TypeOK ==
    /\ command \in {"none", "ping-probe", "bufferbloat"}
    /\ pc \in {"idle", "bind", "send", "receive", "probed", "load", "quiet",
               "join", "graded", "done"}
    /\ phase \in Phases
    /\ seq \in 1 .. Packets + 1
    /\ air \subseteq Datagrams
    /\ inbox \in Seq(Datagrams) /\ Len(inbox) <= Packets + 1
    /\ samples \in Seq(Echoes) /\ Len(samples) <= Packets
    /\ \A p \in Phases : reports[p].ok => reports[p].received \in 0 .. Packets
    /\ grade \in Grades \cup {"none"}
    /\ loading \in BOOLEAN /\ worker \in [Workers -> {"off", "running", "ended"}]
    /\ serving \in BOOLEAN /\ server \in {"off", "running", "ended"}
    /\ dropped \in 0 .. Packets /\ disorder \in BOOLEAN

Init ==
    /\ command = "none" /\ pc = "idle" /\ phase = "unloaded"
    /\ seq = 1 /\ air = {} /\ inbox = <<>> /\ samples = <<>>
    /\ reports = [p \in Phases |-> NoReport] /\ grade = "none"
    /\ loading = FALSE /\ worker = [w \in Workers |-> "off"]
    /\ serving = FALSE /\ server = "off"
    /\ dropped = 0 /\ disorder = FALSE

Goto(from, to) == pc = from /\ pc' = to

-----------------------------------------------------------------------------
(* The probe.                                                              *)

\* The command with a target, or with the local echo server, whose guard lives
\* as long as the command.
Begin(c) ==
    /\ command' = c
    /\ \/ Goto("idle", "bind") /\ UNCHANGED echoVars
       \/ Goto("idle", "bind") /\ serving' = TRUE /\ server' = "running"
       \/ "socket" \in Faults /\ Goto("idle", "done") /\ UNCHANGED echoVars
    /\ UNCHANGED <<phase, probeVars, reports, grade, loadVars>>

\* probe binds a socket of its own; an error is the result of the probe.
Bind ==
    /\ \/ Goto("bind", "send")
       \/ "socket" \in Faults /\ Goto("bind", "probed")
    /\ UNCHANGED <<command, phase, probeVars, reports, grade, loadVars, echoVars>>

Datagram(n) == [phase |-> phase, seq |-> n]

\* After the last packet the loop ends.
NextSeq ==
    /\ seq' = seq + 1
    /\ pc' = IF seq = Packets THEN "probed" ELSE "send"

\* send_to: a failure is logged and the loop goes on with the next packet.
Send ==
    /\ pc = "send"
    /\ \/ /\ pc' = "receive" /\ air' = air \cup {Datagram(seq)}
          /\ UNCHANGED <<seq, dropped>>
       \/ /\ "send" \in Faults /\ NextSeq
          /\ dropped' = dropped + 1 /\ UNCHANGED air
    /\ UNCHANGED <<command, phase, inbox, samples, disorder, reports, grade,
                   loadVars, echoVars>>

\* recv_from takes whatever is first in the queue; only the echo of this packet
\* counts, and any other datagram ends the wait for it.
Receive ==
    /\ pc = "receive" /\ inbox # <<>> /\ NextSeq
    /\ inbox' = Tail(inbox)
    /\ IF Head(inbox).seq = seq
       THEN \E rtt \in Rtts :
               samples' = Append(samples, [seq |-> seq, rtt |-> rtt, echo |-> Head(inbox)])
       ELSE UNCHANGED samples
    /\ UNCHANGED <<command, phase, air, dropped, disorder, reports, grade,
                   loadVars, echoVars>>

\* The read timeout: the echo is lost, or still on its way.
Timeout ==
    /\ pc = "receive" /\ inbox = <<>> /\ NextSeq
    /\ Datagram(seq) \in air => "late" \in Faults
    /\ disorder' = (disorder \/ Datagram(seq) \in air)
    /\ UNCHANGED <<command, phase, air, inbox, samples, dropped, reports, grade,
                   loadVars, echoVars>>

Probe == Bind \/ Send \/ Receive \/ Timeout

\* The network and the echoing end.
Deliver(d) ==
    /\ d \in air
    /\ \/ air' = air \ {d} /\ UNCHANGED disorder
       \/ "duplicate" \in Faults /\ ~disorder /\ disorder' = TRUE /\ UNCHANGED air
    /\ inbox' = Append(inbox, d)
    /\ UNCHANGED <<command, pc, phase, seq, samples, dropped, reports, grade,
                   loadVars, echoVars>>

Lose(d) ==
    /\ d \in air
    /\ "lose" \in Faults
    /\ air' = air \ {d}
    /\ dropped' = dropped + 1
    /\ UNCHANGED <<command, pc, phase, seq, inbox, samples, disorder, reports,
                   grade, loadVars, echoVars>>

-----------------------------------------------------------------------------
(* What a probe reports.  A probe without any reply has zero times.        *)

Times == [i \in DOMAIN samples |-> samples[i].rtt]

Distance(x, y) == IF x > y THEN x - y ELSE y - x

\* RFC 3550: J = J + (|D| - J) / 16, in 1/4096 ms.
Jitter(times) ==
    LET J[n \in 1 .. Len(times)] ==
            IF n = 1 THEN 0
            ELSE J[n - 1] + (4096 * Distance(times[n], times[n - 1]) - J[n - 1]) \div 16
    IN  IF times = <<>> THEN 0 ELSE J[Len(times)]

\* (Mutant: a packet counts as sent once send_to succeeded.)
ReportOfTransmitted ==
    [ok |-> TRUE, received |-> Len(samples), lost |-> Packets - dropped - Len(samples),
     median |-> Median(Times), jitter |-> Jitter(Times)]

Report ==
    [ok |-> TRUE, received |-> Len(samples), lost |-> Packets - Len(samples),
     median |-> Median(Times), jitter |-> Jitter(Times)]

\* What run_test and the ping-probe command do with the probe's result.
AfterProbe ==
    /\ pc = "probed"
    /\ reports' = [reports EXCEPT ![phase] = IF seq > Packets THEN Report ELSE NoReport]
    /\ pc' = IF command = "ping-probe" THEN "graded"
             ELSE IF phase = "loaded" THEN "quiet"
             ELSE IF seq > Packets THEN "load"
             ELSE "graded"

\* (Mutant: both probes share one socket.)
ProbeKeepsSocket ==
    AfterProbe /\ UNCHANGED <<command, phase, probeVars, grade, loadVars, echoVars>>

\* probe returns and its socket is closed: what is still under way to it, or
\* unread, reaches nobody.
ProbeReturns ==
    /\ AfterProbe
    /\ air' = {} /\ inbox' = <<>>
    /\ UNCHANGED <<command, phase, seq, samples, dropped, disorder, grade,
                   loadVars, echoVars>>

-----------------------------------------------------------------------------
(* The bufferbloat test.                                                   *)

StartLoad ==
    /\ Goto("load", "bind") /\ phase' = "loaded"
    /\ loading' = TRUE /\ worker' = [w \in Workers |-> "running"]
    /\ seq' = 1 /\ samples' = <<>> /\ dropped' = 0 /\ disorder' = FALSE
    /\ UNCHANGED <<command, air, inbox, reports, grade, echoVars>>

\* (Mutant: the flag is read once, before the loop.)
WorkerNeverEnds(w) == worker[w] = "running" /\ loading /\ UNCHANGED vars

\* A load thread sends until the flag falls; without a socket it returns at once.
WorkerEnds(w) ==
    /\ worker[w] = "running"
    /\ ~loading \/ "socket" \in Faults
    /\ worker' = [worker EXCEPT ![w] = "ended"]
    /\ UNCHANGED <<command, pc, phase, probeVars, reports, grade, loading, echoVars>>

\* (Mutant: the probe's error leaves before the load is ended.)
StopLoadOfSuccess ==
    /\ pc = "quiet"
    /\ IF reports["loaded"].ok
       THEN pc' = "join" /\ loading' = FALSE
       ELSE pc' = "graded" /\ UNCHANGED loading
    /\ UNCHANGED <<command, phase, probeVars, reports, grade, worker, echoVars>>

\* The flag falls whether or not the loaded probe succeeded.
StopLoad ==
    /\ Goto("quiet", "join") /\ loading' = FALSE
    /\ UNCHANGED <<command, phase, probeVars, reports, grade, worker, echoVars>>

\* BufferbloatGrade::from_latency_delta, with the delta in microseconds: more
\* than 5% loss is an F.
from_latency_delta(delta, lost) ==
    IF 20 * lost > Packets THEN "F"
    ELSE IF delta < 5000   THEN "A+"
    ELSE IF delta < 15000  THEN "A"
    ELSE IF delta < 30000  THEN "B"
    ELSE IF delta < 60000  THEN "C"
    ELSE IF delta < 120000 THEN "D"
    ELSE "F"

\* The rise of the median, never below zero.
Delta ==
    LET rise == reports["loaded"].median - reports["unloaded"].median
    IN  IF rise > 0 THEN rise ELSE 0

\* (Mutant: the loss of the quiet line is graded.)
GradeBaseline ==
    /\ Goto("join", "graded") /\ \A w \in Workers : worker[w] # "running"
    /\ grade' = IF reports["loaded"].ok
                THEN from_latency_delta(Delta, reports["unloaded"].lost) ELSE "none"
    /\ UNCHANGED <<command, phase, probeVars, reports, loadVars, echoVars>>

\* All load threads are joined before the probe's error is looked at.
JoinAndGrade ==
    /\ Goto("join", "graded") /\ \A w \in Workers : worker[w] # "running"
    /\ grade' = IF reports["loaded"].ok
                THEN from_latency_delta(Delta, reports["loaded"].lost) ELSE "none"
    /\ UNCHANGED <<command, phase, probeVars, reports, loadVars, echoVars>>

\* The command returns and the echo server's guard is dropped.
Return ==
    /\ Goto("graded", "done") /\ serving' = FALSE
    /\ UNCHANGED <<command, phase, probeVars, reports, grade, loadVars, server>>

\* The echo thread looks at its flag at least every 50 ms.
ServerEnds ==
    /\ server = "running" /\ ~serving
    /\ server' = "ended"
    /\ UNCHANGED <<command, pc, phase, probeVars, reports, grade, loadVars, serving>>

-----------------------------------------------------------------------------
Command == \E c \in {"ping-probe", "bufferbloat"} : Begin(c)

Main == Probe \/ ProbeReturns \/ StartLoad \/ StopLoad \/ JoinAndGrade \/ Return

Next ==
    \/ Command
    \/ Main
    \/ \E d \in air : Deliver(d) \/ Lose(d)
    \/ \E w \in Workers : WorkerEnds(w)
    \/ ServerEnds

\* The threads run; the read timeout keeps the probe from waiting for ever.
Spec ==
    /\ Init /\ [][Next]_vars
    /\ WF_vars(Main) /\ WF_vars(ServerEnds)
    /\ \A w \in Workers : WF_vars(WorkerEnds(w))

-----------------------------------------------------------------------------
(* Every time in a probe's samples is that of the echo of the very packet  *)
(* it is counted for: an echo of an earlier packet, or of the earlier      *)
(* probe that is still under way, is never taken for it (probe matches the *)
(* sequence number and binds a socket of its own).                         *)
SampleIsItsEcho ==
    \A i \in DOMAIN samples :
        samples[i].echo.seq = samples[i].seq /\ samples[i].echo.phase = phase

(* On a network that only loses datagrams the reported loss is exactly the *)
(* number of packets that nobody echoed, those included that could not be  *)
(* sent.  (A late or doubled echo costs further packets: each wait is      *)
(* ended by the echo of the packet before.)                                *)
LossIsExact ==
    reports[phase].ok /\ ~disorder => reports[phase].lost = dropped

(* A report is of the probe's samples: its loss is exact, the median lies  *)
(* in their middle, the jitter between zero and their range.               *)
ReportIsOfTheProbe ==
    /\ LossIsExact
    /\ reports[phase].ok /\ samples # <<>> =>
        LET below == {i \in DOMAIN samples : 1000 * samples[i].rtt <= reports[phase].median}
            above == {i \in DOMAIN samples : 1000 * samples[i].rtt >= reports[phase].median}
            all   == {samples[i].rtt : i \in DOMAIN samples}
        IN  /\ 2 * Cardinality(below) >= Len(samples)
            /\ 2 * Cardinality(above) >= Len(samples)
            /\ reports[phase].jitter \in 0 .. 4096 * (Max(all) - Min(all))

(* A grade other than F is backed by echoes under load: at most one packet *)
(* in twenty went unanswered while the line was saturated.                 *)
GoodGradeIsMeasured ==
    grade \in Grades \ {"F"} =>
        /\ phase = "loaded"
        /\ 20 * (Packets - Len(samples)) <= Packets

(* When the command has returned no load thread saturates the line, not    *)
(* even after the loaded probe failed.                                     *)
LoadEndsWithTest ==
    pc = "done" => ~loading /\ \A w \in Workers : worker[w] # "running"

(* Every command returns, whatever the network does, and the echo server's *)
(* thread ends after it.                                                   *)
EverythingEnds ==
    pc = "bind" ~> (pc = "done" /\ server # "running")

=============================================================================
