------------------------------ MODULE MCFacet ------------------------------
\* Small instances of Facet for TLC.
EXTENDS Facet, TLC

CONSTANTS va, vb, bad, t1, t2, username

MCSanitize == [r \in Raws |-> r]
MCOneBuild == {Values \ {bad}}
NoRule     == {}

\* Leaves the stash out of the runs that are not about it.
NothingStashed == stash = NoValue

Symmetry == Permutations({t1, t2})
=============================================================================
