----------------------------- MODULE Statistics -----------------------------
(***************************************************************************)
(* The benchmark arithmetic of stats.rs, over integers.  Times are whole   *)
(* milliseconds.  A percentile is exact, in thousandths.  A p-value is     *)
(* only ever compared with a level, so a test is its statistic against the *)
(* critical value of that level.                                           *)
(***************************************************************************)
EXTENDS Integers, SequencesExt

\* A sort in ascending order, by what it leaves at each place: the least value
\* that at least k elements do not exceed.
SortedUp(s) ==
    [k \in DOMAIN s |->
        Min({v \in {s[i] : i \in DOMAIN s} :
                Cardinality({i \in DOMAIN s : s[i] <= v}) >= k})]

SumSeq(s) ==
    LET S[n \in 0 .. Len(s)] == IF n = 0 THEN 0 ELSE S[n - 1] + s[n]
    IN  S[Len(s)]

SumSquares(s) == SumSeq([i \in DOMAIN s |-> s[i] * s[i]])

\* (Mutant: the neighbours' weights are exchanged.)
SwappedWeights(s, permille) ==
    LET rank == permille * (Len(s) - 1)
        low  == rank \div 1000
        high == IF low + 1 > Len(s) - 1 THEN Len(s) - 1 ELSE low + 1
    IN  IF s = <<>> THEN 0
        ELSE 1000 * s[high + 1] + (rank % 1000) * (s[low + 1] - s[high + 1])

\* The percentile of an ascending sequence, times 1000: the value at rank
\* (n - 1) * p, interpolated between its two neighbours.
calculate_percentile(s, permille) ==
    LET rank == permille * (Len(s) - 1)
        low  == rank \div 1000
        high == IF low + 1 > Len(s) - 1 THEN Len(s) - 1 ELSE low + 1
    IN  IF s = <<>> THEN 0
        ELSE 1000 * s[low + 1] + (rank % 1000) * (s[high + 1] - s[low + 1])

Median(s) == calculate_percentile(SortedUp(s), 500)

-----------------------------------------------------------------------------
(* Metrics of one capture.                                                 *)

\* Whole frames per second, from a frame time in thousandths of a millisecond.
PerSecond(ms1000) == IF ms1000 > 0 THEN 1000000 \div ms1000 ELSE 0

Stutters(times, tenths) ==
    Cardinality({i \in DOMAIN times :
                    10 * times[i] * Len(times) >= tenths * SumSeq(times)})

Failed == [ok |-> FALSE]

\* compute_metrics_with_provenance: an error when the warm-up takes all frames.
compute_metrics(frames, warmup) ==
    LET active == SubSeq(frames, warmup + 1, Len(frames))
        sorted == SortedUp(active)
    IN  IF Len(frames) <= warmup THEN Failed
        ELSE [ ok       |-> TRUE,
               frames   |-> Len(active),
               avg_fps  |-> (1000 * Len(active)) \div SumSeq(active),
               max_fps  |-> PerSecond(1000 * sorted[1]),
               min_fps  |-> PerSecond(1000 * sorted[Len(sorted)]),
               p50      |-> calculate_percentile(sorted, 500),
               low1     |-> PerSecond(calculate_percentile(sorted, 990)),
               low01    |-> PerSecond(calculate_percentile(sorted, 999)),
               stutter15 |-> Stutters(active, 15),
               stutter20 |-> Stutters(active, 20) ]

-----------------------------------------------------------------------------
(* Comparing two groups of equal size.                                     *)

(***************************************************************************)
(* compute_t_distribution_two_tailed_p, as the values of t^2 for which it  *)
(* is below 0.01 at 1 .. 8 degrees of freedom.  The continued fraction of  *)
(* regularized_incomplete_beta takes its coefficients in another order     *)
(* than the function's own, so besides the tail (from TCritical / 100 on)  *)
(* there is an interval of small t^2 (Dip / 1000) where it returns less    *)
(* than 0.01, mostly a negative number.  Both lists are the code's own     *)
(* values.                                                                 *)
(***************************************************************************)
TCritical == <<405218, 9851, 3418, 2135, 1656, 1423, 1296, 1224>>
Dip == <<<<0, 0>>, <<0, 0>>, <<1798, 1800>>, <<1691, 2000>>, <<1632, 2213>>,
         <<1594, 2946>>, <<1568, 3720>>, <<1549, 4527>>>>

\* p < 0.01 for t^2 = num / den.
p_below_0_01(num, den, df) ==
    \/ 100 * num > TCritical[df] * den
    \/ Dip[df][1] * den < 1000 * num /\ 1000 * num < Dip[df][2] * den

\* The squared normal deviate at the level 0.05, times 1000.
ZCritical == 3841

Diffs(a, b) == [i \in DOMAIN a |-> b[i] - a[i]]

\* n times the sum of squared deviations.
Spread(s) == Len(s) * SumSquares(s) - SumSeq(s) * SumSeq(s)

\* paired_t_test, as the outcomes of p < 0.01: t^2 = S^2 (n-1) / Spread.
PairedSignificant(a, b) ==
    LET d == Diffs(a, b)
    IN  IF Len(a) < 2 THEN {FALSE}
        ELSE IF Spread(d) = 0 THEN {SumSeq(d) # 0}
        ELSE {p_below_0_01(SumSeq(d) * SumSeq(d) * (Len(d) - 1), Spread(d), Len(d) - 1)}

(***************************************************************************)
(* welch_t_test for two groups of n >= 2.  The degrees of freedom are a    *)
(* real number; the level is decided when both neighbouring integers agree *)
(* (tail and dip grow with them) and open otherwise.                       *)
(***************************************************************************)
WelchSignificant(a, b) ==
    LET n    == Len(a)
        va   == Spread(a)
        vb   == Spread(b)
        up   == (n - 1) * (va + vb) * (va + vb)
        down == va * va + vb * vb
        df   == up \div down                     \* rounded down
        t2   == (n - 1) * (SumSeq(b) - SumSeq(a)) * (SumSeq(b) - SumSeq(a))
        beyond(k) == p_below_0_01(t2, va + vb, k)
    IN  IF va + vb = 0 THEN {SumSeq(a) # SumSeq(b)}
        ELSE {beyond(k) : k \in IF up % down = 0 THEN {df} ELSE {df, df + 1}}

\* (Mutant: tied values all take the first of their ranks.)
FirstRank(sorted, v) == 2 * Min({j \in DOMAIN sorted : sorted[j] = v})

\* Twice the rank of a value among the sorted ones: ties share the mean rank.
MidRank(sorted, v) ==
    LET tied == {j \in DOMAIN sorted : sorted[j] = v}
    IN  Min(tied) + Max(tied)

\* Twice u1 = n1 n2 + n1 (n1 + 1) / 2 - R_a.
RankSumU(a, b) ==
    LET sorted == SortedUp(a \o b)
        Ra     == SumSeq([i \in DOMAIN a |-> MidRank(sorted, a[i])])
    IN  2 * Len(a) * Len(b) + Len(a) * (Len(a) + 1) - Ra

\* The sum of t^3 - t over the groups of t tied values.
Ties(all) ==
    LET size(v) == Cardinality({k \in DOMAIN all : all[k] = v})
    IN  FoldSet(LAMBDA v, acc : acc + size(v) * size(v) * size(v) - size(v), 0,
                {all[k] : k \in DOMAIN all})

\* mann_whitney_u_test as the outcome of p < 0.05: the normal approximation
\* with tie and continuity correction.  An error counts as p = 1.
RankSumSignificant(a, b) ==
    LET n1n2 == Len(a) * Len(b)
        N    == Len(a) + Len(b)
        var  == n1n2 * ((N + 1) * N * (N - 1) - Ties(a \o b))
        off(u1) == n1n2 - Min({u1, 2 * n1n2 - u1}) - 1       \* 2 |u - mean| - 1
    IN  {/\ Len(a) >= 2 /\ var > 0 /\ off(u1) > 0
         /\ 3 * off(u1) * off(u1) * N * (N - 1) * 1000 > ZCritical * var
         : u1 \in {RankSumU(a, b)}}

\* (Mutant: the confidence interval is not consulted.)
AnyInterval(a, b) == {TRUE}

(***************************************************************************)
(* bootstrap_paired_percentage_delta_ci, as the outcomes of CI_low > 0.    *)
(* Every resampled delta has the sign of a sum of pairwise differences, so *)
(* the bound is decided when these agree.  The generator's seed is fixed:  *)
(* of its 2000 resamples of up to five pairs more than 2.5% take each pair *)
(* once, so a sum of all differences that is not positive also decides it. *)
(* Otherwise it depends on the generator.  An error counts as an interval  *)
(* of zeros.                                                               *)
(***************************************************************************)
IntervalAboveZero(a, b) ==
    LET d == Diffs(a, b)
    IN  IF Len(a) < 2 \/ SumSeq(d) <= 0 THEN {FALSE}
        ELSE IF \A i \in DOMAIN d : d[i] > 0 THEN {TRUE}
        ELSE BOOLEAN

RiseAtLeast(a, b, percent) == 100 * (SumSeq(b) - SumSeq(a)) >= percent * SumSeq(a)

(***************************************************************************)
(* compare_ab_trials, as the set of verdicts it may reach for the trials'  *)
(* average rates and 1% lows.  Fewer than two trials are an error: Welch's *)
(* test is the one call whose failure is not replaced by a default.        *)
(***************************************************************************)
compare_ab_trials(avgA, lowA, avgB, lowB) ==
    IF Len(lowA) < 2 \/ Len(lowB) < 2 THEN {"error"}
    ELSE { LET significant == (paired \/ welch) /\ ranks /\ above
               dropped == 100 * (SumSeq(lowB) - SumSeq(lowA)) < -SumSeq(lowA)
           IN  IF significant /\ (RiseAtLeast(lowA, lowB, 3) \/ RiseAtLeast(avgA, avgB, 3))
               THEN "ACCEPTED"
               ELSE IF significant /\ SumSeq(lowB) > SumSeq(lowA) THEN "BORDERLINE"
               ELSE IF dropped THEN "REGRESSION"
               ELSE "PLACEBO"
           : paired \in PairedSignificant(lowA, lowB),
             welch  \in WelchSignificant(lowA, lowB),
             ranks  \in RankSumSignificant(lowA, lowB),
             above  \in IntervalAboveZero(lowA, lowB) }

=============================================================================
