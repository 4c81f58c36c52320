----------------------------- MODULE MCSession -----------------------------
(* Instances of GameSession for TLC.                                        *)
EXTENDS GameSession

CONSTANTS s1, s2, s3, discord, browser

=============================================================================
