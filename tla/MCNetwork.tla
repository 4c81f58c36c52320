----------------------------- MODULE MCNetwork -----------------------------
(* Three packets to a probe, so that an echo may come two packets late.    *)
EXTENDS NetworkDiagnostics

\* The order statistics are what a sort leaves.
ASSUME SortedUpSorts ==
    \A n \in 0 .. 4 : \A s \in [1 .. n -> 1 .. 3] : SortedUp(s) = SortSeq(s, <)

=============================================================================
