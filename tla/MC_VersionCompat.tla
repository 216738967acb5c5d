-------------------------- MODULE MC_VersionCompat --------------------------
(* Small tables for checking VersionCompat with TLC.                     *)
EXTENDS VersionCompat

CONSTANTS none, invalid, rc, beta, dot, dash, v, release

\* Three versions: one below, the binary's, one above, in either role.
MCVersions == 1..3

\* An embedded file with the middle version, declaring a range, and the
\* lowest, declaring none.
MCEmbedded == <<[ver |-> 2, range |-> {<<2, 3>>}], [ver |-> 1, range |-> {}]>>
=============================================================================
