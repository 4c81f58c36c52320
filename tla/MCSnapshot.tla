----------------------------- MODULE MCSnapshot -----------------------------
(* Instances of SnapshotStore for TLC.                                      *)
EXTENDS SnapshotStore, TLC

CONSTANTS daemon, cli, default, custom, balanced, ultimate, k1, k2, k3, k4

\* No action and no property tells keys apart.
Interchangeable == Permutations(Keys)

=============================================================================
