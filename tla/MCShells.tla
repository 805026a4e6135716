------------------------------ MODULE MCShells ------------------------------
\* Small instances of the shells for TLC.
EXTENDS Shells, TLC

CONSTANTS va, vb, pad, bad, username, name

\* `pad` is va with blanks around it.
MCSanitize == [r \in Raws |-> IF r = pad THEN va ELSE r]
\* `bad` is text the form rejects.
MCOneBuild == {Values \ {bad}}
MCSeed     == [f \in Fields |-> va]
MCRule     == {<<va, vb>>}
NoRule     == {}
=============================================================================
