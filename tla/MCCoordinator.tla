--------------------------- MODULE MCCoordinator ---------------------------
(* Instances of OptimizationCoordinator for TLC.                            *)
EXTENDS OptimizationCoordinator

CONSTANTS daemon, supervisor, cli, speakers, headset,
          balanced, ultimate, high

\* A user whose every setting differs from what the optimizer sets, so that
\* each lost or stale value shows: Game Mode off, the Balanced plan, and the
\* endpoints' values missing or zero.
TypicalInit ==
    /\ Init
    /\ allow = "0" /\ auto = "absent"
    /\ power = balanced
    /\ \A e \in Endpoints : audio[e] # "1"

TypicalSpec == TypicalInit /\ [][Next]_vars

=============================================================================
