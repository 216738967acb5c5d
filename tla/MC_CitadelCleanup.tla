------------------------- MODULE MC_CitadelCleanup -------------------------
(* Model values and bounds for checking CitadelCleanup with TLC.         *)
EXTENDS CitadelCleanup

CONSTANTS s1, s2, s3

\* Two secrets of pruned types (key-and-cert, ca-root) and one other.
MCSecrets == {s1, s2, s3}
MCPruned == {s1, s2}
=============================================================================
