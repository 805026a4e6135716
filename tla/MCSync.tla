------------------------------- MODULE MCSync -------------------------------
\* A small instance of the daemon and its window for TLC.
EXTENDS SyncWindow, TLC

CONSTANTS va, vb, vc, folder, paused, w1

MCSanitize == [r \in Raws |-> r]
MCOneBuild == {{va, vb}}    \* vc is a text the constraints reject
MCSeed     == [f \in Fields |-> va]
NoRule     == {}

\* The second field is a switch: nobody types a third text into it.
PausedIsASwitch ==
  \A id \in DOMAIN drafts : drafts[id].draft.fields[paused].raw \in {va, vb}

\* Two canonical changes or two drafts in the life of one process, not both.
TwoChangesOrTwoDrafts == version + nextId <= 3

\* What another client edits is the switch; the first thing it may ask for is
\* one check.
OthersLeaveTheFolder ==
  \A c \in DOMAIN conns : peers[c] = "client" =>
    \A id \in conns[c].drafts :
      \/ drafts[id].draft.check.seq = 0
      \/ /\ nextId = 1 /\ version = 0
         /\ drafts[id].draft.check.seq = 1
         /\ \A f \in Fields : ~IsDirty(drafts[id].draft.fields[f])

-----------------------------------------------------------------------------
(* The scenario of the run sync_judge *)

\* The window comes first, and its draft; the other client has one at a time.
OneOtherEditor ==
  /\ windows[w1].conn \in {NoValue, 0}
  /\ \A id \in DOMAIN drafts : Owns(0, id) <=> id = 0
  /\ \A id, other \in DOMAIN drafts \ {0} : id = other

\* Edits are about the folder.
OnlyTheFolder ==
  \A id \in DOMAIN drafts : drafts[id].draft.fields[paused] = FromBase(va)

\* Nobody dies.
NobodyLeaves ==
  /\ DOMAIN conns \subseteq DOMAIN conns'
  /\ \A c \in DOMAIN peers' : peers'[c] # "gone"
  /\ windows'[w1] # Closed
=============================================================================
