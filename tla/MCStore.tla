------------------------------ MODULE MCStore ------------------------------
\* Small instances of Store for TLC.
EXTENDS StoreSessions, TLC

CONSTANTS va, vb, vc, padded, bad, username, email

\* `padded` sanitizes to `va`; `bad` is text no build accepts.
MCSanitize == [r \in Raws |-> IF r = padded THEN va ELSE r]

\* A build that accepts every value, and a later one that does not accept `vb`.
MCTightening == {Values \ {bad}, Values \ {bad, vb}}
MCOneBuild   == {Values \ {bad}}

NoRule == {}

\* Leaves the shell's stash to the runs that are about it.
NothingStashed == stash = NoValue

Symmetry == Permutations({va, vb, vc})
=============================================================================
