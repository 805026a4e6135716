--------------------------- MODULE StoreSessions ---------------------------
(***************************************************************************)
(* Store implements EditSessions: a draft is the set of its fields that    *)
(* are dirty or conflicted, over the live canonical.                       *)
(***************************************************************************)
EXTENDS Store

KindOf(entry) == IF entry.draft.status = "Orphaned" THEN "orphan"
                 ELSE IF entry.rebases THEN "based" ELSE "create"

\* A clean, in-sync field is no edit.
EditOf(x) == IF IsDirty(x) \/ IsConflicted(x) THEN x.raw ELSE NoValue

SessionOf(entry) ==
  [kind      |-> KindOf(entry),
   edits     |-> [f \in Fields |-> EditOf(entry.draft.fields[f])],
   contested |-> Conflicts(entry.draft)]

Sessions == INSTANCE EditSessions
              WITH sessions <- [id \in DOMAIN drafts |-> SessionOf(drafts[id])]

\* Whatever the store does to versions, ancestors, stamps and registrations,
\* a user sees edit sessions over the live canonical (C02, C03, C04, C07, C11,
\* C12, C19, C21 at once).
ImplementsEditSessions == Sessions!SSpec
=============================================================================
