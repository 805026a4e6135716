---------------------------- MODULE MCCollection ----------------------------
\* A small instance of the collection and its observers for TLC.
EXTENDS Inbox, TLC

CONSTANTS va, vb, bad

MCSanitize == [r \in Raws |-> r]
MCTitles   == {va, vb}
MCRank     == [v \in Titles |-> IF v = va THEN 0 ELSE 1]
MCFilters  == {Titles, {vb}}

\* Windows only read rows, and drafts reach them only through rows: the run
\* opens windows while nothing is checked out and the reverse.
MCNext ==
  \/ CanonicalEvent /\ UNCHANGED seen
  \/ windows = <<>> /\ EditSide
  \/ drafts = <<>> /\ ReadSide

MCSpec == InboxInit /\ [][MCNext]_inboxVars
=============================================================================
