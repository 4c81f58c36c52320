---------------------------- MODULE MCBenchmark ----------------------------
(* Two pairs of live trials, up to four of the fixture; a game and another *)
(* program that presents.                                                  *)
EXTENDS FrameBenchmark

\* Four levels of the 1% low, so that one pair may be reversed between groups
\* that differ; the lowest has the best average.
OutcomesSeen == {<<104, 50>>, <<100, 59>>, <<100, 60>>, <<100, 69>>}

\* Widely spread lows: 50, 60, 60, 60 against 61, 61, 61, 71 is a
\* complete separation, and t^2 = 2.88 at six degrees of freedom.
OutcomesSpread == {<<100, 50>>, <<100, 60>>, <<100, 61>>, <<100, 71>>}

\* No statistic depends on the order of the pairs of trials: the run takes them
\* in one order only.
After(a, b) ==
    LET key(x, y) == 100 * x + y
    IN  \A i \in DOMAIN runs["A"] :
            key(runs["A"][i].low, runs["B"][i].low) <= key(a[2], b[2])

\* A synthetic benchmark reads nothing that a live one leaves in the kernel: the
\* run explores it once, and not for every such remainder.  In a live one
\* the trace of the second capture may fail, and leave its session to the captures
\* after it and to the next benchmark; theorem CapturesEnd has failures anywhere.
MCNext ==
    \/ LiveNext /\ failed' \subseteq {<<"B", 1>>}
    \/ kernel = {} /\ failed = {} /\ RunSynthetic
    \/ SyntheticFails
    \/ pc = "synthetic" /\ \E a, b \in Outcomes : After(a, b) /\ SyntheticPair(a, b)

MCSpec == Init /\ [][MCNext]_vars /\ Fairness

=============================================================================
