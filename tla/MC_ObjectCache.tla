-------------------------- MODULE MC_ObjectCache --------------------------
(* Model values and bounds for checking ObjectCache with TLC.            *)
EXTENDS ObjectCache

CONSTANTS l1, l2, k1, k2, v1, v2, notCached, none

MCOneLoop == {l1}
MCTwoLoops == {l1, l2}
MCKeys == {k1, k2}
MCVersions == {v1, v2}
=============================================================================
