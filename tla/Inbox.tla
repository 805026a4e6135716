-------------------------------- MODULE Inbox --------------------------------
(***************************************************************************)
(* The collection and the observers of its windows.  An observer is told   *)
(* nothing: it compares the version with the one it last read and calls    *)
(* latest() when they differ, or when it has set its own query or range.   *)
(***************************************************************************)
EXTENDS Collection

VARIABLE seen    \* open window -> the snapshot its observer holds

inboxVars == <<vars, seen>>

Observe(w) == seen' = [u \in DOMAIN windows' |-> IF u = w THEN Latest(w)' ELSE seen[u]]

Open ==
  \E query \in Query, range \in Ranges, w \in {nextWindowId} :
    OpenWindow(query, range) /\ Observe(w)

Change(w) ==
  /\ \/ \E query \in Query : SetQuery(w, query)
     \/ \E range \in Ranges : SetRange(w, range)
  /\ Observe(w)

Poll(w) ==
  /\ version # seen[w].version
  /\ UNCHANGED vars
  /\ Observe(w)

Shut(w) == CloseWindow(w) /\ seen' = [u \in DOMAIN windows' |-> seen[u]]

InboxInit == Init /\ seen = <<>>

EditSide == DraftEvent /\ UNCHANGED seen

ReadSide ==
  \/ Open
  \/ \E w \in DOMAIN windows : Change(w) \/ Poll(w) \/ Shut(w)

InboxNext == (CanonicalEvent /\ UNCHANGED seen) \/ EditSide \/ ReadSide

InboxSpec == InboxInit /\ [][InboxNext]_inboxVars

-----------------------------------------------------------------------------
\* W6, D37: the version is a change tick.  An observer whose version is the
\* store's holds what latest() would answer now, though nothing was ever
\* delivered to it.
SameVersionMeansCurrent ==
  \A w \in DOMAIN windows : seen[w].version = version => seen[w] = Latest(w)
=============================================================================
