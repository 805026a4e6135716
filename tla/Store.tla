------------------------------- MODULE Store -------------------------------
(***************************************************************************)
(* The store (bolted-core/src/store.rs): canonical state, the drafts       *)
(* checked out against it, and the live rebase that keeps them together.   *)
(*                                                                         *)
(* The environment is the shell that drives it: a user who edits,          *)
(* resolves, submits and closes drafts; a server that pushes or deletes    *)
(* the canonical entity; a checker that answers in any order, or never; a  *)
(* shell that saves one stash; and an operating system that kills the      *)
(* process, after which a build whose constraints are the same or tighter  *)
(* starts over a canonical of its own with nothing left but that stash.    *)
(***************************************************************************)
EXTENDS Draft

CONSTANTS
  AcceptSets,   \* the constraint sets the app's builds have had or will have
  MaxVersion,   \* bound: canonical changes per process
  MaxDrafts,    \* bound: drafts adopted per process
  MaxSeq        \* bound: a check's counter, past which no user step moves it

ASSUME StoreAssumption ==
  /\ AcceptSets \subseteq SUBSET Values
  /\ MaxVersion \in Nat /\ MaxDrafts \in Nat /\ MaxSeq \in Nat

VARIABLES
  canonical,    \* the entity, or NoValue
  version,
  drafts,       \* id -> [draft, rebases], the live drafts only
  nextId,
  tokens,       \* check tokens the shell holds
  stash,        \* the shell's saved stash, or NoValue
  accepts       \* the values this build's constraints admit

vars == <<canonical, version, drafts, nextId, tokens, stash, accepts>>

EntryType == [draft : DraftType, rebases : BOOLEAN]
TokenType == [id : Nat, seq : Nat, text : Option(Raws)]

Empty == [id \in {} |-> NoValue]

Put(id, entry) == [i \in DOMAIN drafts \cup {id} |->
                     IF i = id THEN entry ELSE drafts[i]]

Update(id, draft) == drafts' = [drafts EXCEPT ![id].draft = draft]

Without(id) == [i \in DOMAIN drafts \ {id} |-> drafts[i]]

-----------------------------------------------------------------------------
(* Drafts come and go *)

\* Mutant: a based draft adopted over no canonical stays live.
AdoptedEntryNotOrphaned(d) ==
  IF IsBased(d) /\ canonical # NoValue
  THEN [draft |-> RebaseDraft(d, canonical, version), rebases |-> TRUE]
  ELSE [draft |-> d, rebases |-> FALSE]

\* The three rows of adopt's table.
AdoptedEntry(d) ==
  IF IsBased(d) /\ canonical # NoValue
  THEN [draft |-> RebaseDraft(d, canonical, version), rebases |-> TRUE]
  ELSE [draft |-> IF IsBased(d) THEN Orphan(d) ELSE d, rebases |-> FALSE]

\* Mutant: an id is issued twice.
AdoptUnderLastId(d) ==
  /\ nextId < MaxDrafts
  /\ drafts' = Put(nextId, AdoptedEntry(d))
  /\ UNCHANGED <<canonical, version, nextId, tokens, stash, accepts>>

Adopt(d) ==
  /\ nextId < MaxDrafts
  /\ drafts' = Put(nextId, AdoptedEntry(d))
  /\ nextId' = nextId + 1
  /\ UNCHANGED <<canonical, version, tokens, stash, accepts>>

Checkout ==
  Adopt(IF canonical = NoValue THEN CreateFlow(version)
        ELSE FromCanonical(canonical, version))

Restore == stash # NoValue /\ Adopt(FromStash(accepts, stash))

SaveStash(id) ==
  /\ stash' = Stash(drafts[id].draft)
  /\ UNCHANGED <<canonical, version, drafts, nextId, tokens, accepts>>

Close(id) ==
  /\ drafts' = Without(id)
  /\ UNCHANGED <<canonical, version, nextId, tokens, stash, accepts>>

-----------------------------------------------------------------------------
(* Edits, resolutions and the check *)

CanEdit(id) == drafts[id].draft.check.seq < MaxSeq

EditField(id, f, x) ==
  /\ Update(id, SetField(drafts[id].draft, f, x))
  /\ UNCHANGED <<canonical, version, nextId, tokens, stash, accepts>>

SetRaw(id, f, r) ==
  CanEdit(id) /\ EditField(id, f, TrySet(accepts, drafts[id].draft.fields[f], r))

ResolveKeepMine(id, f) == EditField(id, f, KeepMine(drafts[id].draft.fields[f]))

ResolveTakeTheirs(id, f) ==
  CanEdit(id) /\ EditField(id, f, TakeTheirs(drafts[id].draft.fields[f]))

BeginCheck(id) ==
  LET d == drafts[id].draft
      c == Begin(d.check, TextOf(d))
  IN  /\ CanEdit(id)
      /\ Update(id, [d EXCEPT !.check = c])
      /\ tokens' = tokens \cup {[id |-> id, seq |-> c.seq, text |-> c.about]}
      /\ UNCHANGED <<canonical, version, nextId, stash, accepts>>

\* The checker answers; the token is consumed whether or not its draft is
\* still live and whether or not it was superseded.
CompleteCheck(token, verdict) ==
  /\ tokens' = tokens \ {token}
  /\ IF token.id \in DOMAIN drafts
     THEN LET d == drafts[token.id].draft
          IN  Update(token.id, [d EXCEPT !.check = Complete(d.check, token, verdict)])
     ELSE UNCHANGED drafts
  /\ UNCHANGED <<canonical, version, nextId, stash, accepts>>

-----------------------------------------------------------------------------
(* Canonical changes *)

\* Mutant: every draft rebases, registered or not.
RebasedAll(ds, entity, v) ==
  [id \in DOMAIN ds |->
     [ds[id] EXCEPT !.draft = RebaseDraft(ds[id].draft, entity, v)]]

Rebased(ds, entity, v) ==
  [id \in DOMAIN ds |->
     IF ds[id].rebases
     THEN [ds[id] EXCEPT !.draft = RebaseDraft(ds[id].draft, entity, v)]
     ELSE ds[id]]

\* apply_canonical over the draft map `ds`: submit calls it on the map
\* without the submitted draft.
Apply(ds, entity) ==
  /\ version < MaxVersion
  /\ version' = version + 1
  /\ drafts' = Rebased(ds, entity, version + 1)
  /\ canonical' = entity
  /\ UNCHANGED <<nextId, tokens, stash, accepts>>

ApplyCanonical(entity) == Apply(drafts, entity)

DeleteCanonical ==
  /\ version < MaxVersion
  /\ version' = version + 1
  /\ drafts' = [id \in DOMAIN drafts |->
                  IF drafts[id].rebases
                  THEN [draft |-> Orphan(drafts[id].draft), rebases |-> FALSE]
                  ELSE drafts[id]]
  /\ canonical' = NoValue
  /\ UNCHANGED <<nextId, tokens, stash, accepts>>

Submit(id) ==
  /\ CommitOk(drafts[id].draft)
  /\ Apply(Without(id), EntityOf(drafts[id].draft))

\* A refused submit takes the draft out of the map and puts it back under
\* the same id with the same registration; one of a dead id changes nothing.
SubmitRefused(id) ==
  /\ id \in DOMAIN drafts => ~CommitOk(drafts[id].draft)
  /\ UNCHANGED vars

-----------------------------------------------------------------------------
\* The process dies and a build with the same or tighter constraints starts.
ProcessDeath ==
  \E a \in AcceptSets :
    /\ a \subseteq accepts
    /\ accepts' = a
    /\ canonical' \in Entities(a) \cup {NoValue}
    /\ version' = 0 /\ drafts' = Empty /\ nextId' = 0 /\ tokens' = {}
    /\ UNCHANGED stash

Init ==
  /\ accepts \in AcceptSets
  /\ canonical \in Entities(accepts) \cup {NoValue}
  /\ version = 0 /\ drafts = Empty /\ nextId = 0
  /\ tokens = {} /\ stash = NoValue

UserStep(id) ==
  \/ \E f \in Fields, r \in Raws : SetRaw(id, f, r)
  \/ \E f \in Fields : ResolveKeepMine(id, f) \/ ResolveTakeTheirs(id, f)
  \/ BeginCheck(id)
  \/ Submit(id)
  \/ Close(id)
  \/ SaveStash(id)

Next ==
  \/ Checkout
  \/ Restore
  \/ \E id \in DOMAIN drafts : UserStep(id)
  \/ \E id \in 0..nextId : SubmitRefused(id)
  \/ \E token \in tokens, verdict \in Verdicts : CompleteCheck(token, verdict)
  \/ \E entity \in Entities(accepts) : ApplyCanonical(entity)
  \/ DeleteCanonical
  \/ ProcessDeath

Spec == Init /\ [][Next]_vars

-----------------------------------------------------------------------------
(* Properties *)

\* Every variable holds what its Rust type holds.
TypeOK ==
  /\ accepts \in AcceptSets
  /\ canonical \in Entities(accepts) \cup {NoValue}
  /\ version \in Nat
  /\ nextId \in Nat
  /\ drafts = [id \in DOMAIN drafts |-> drafts[id]]
  /\ DOMAIN drafts \subseteq 0..(nextId - 1)
  /\ \A id \in DOMAIN drafts : drafts[id] \in EntryType
  /\ tokens \subseteq TokenType
  /\ stash \in StashType \cup {NoValue}

Live(id) == drafts[id].draft.status = "Live"

\* C15 and the other half of C03: a live registered draft is always stamped
\* with the store's version, an in-sync field's ancestor IS the canonical
\* value, and a conflict names the current canonical value, never an old one.
SyncTracksCanonical ==
  \A id \in DOMAIN drafts :
    drafts[id].rebases /\ Live(id) =>
      /\ canonical # NoValue
      /\ drafts[id].draft.baseVersion = version
      /\ \A f \in Fields : Tracks(drafts[id].draft.fields[f], canonical[f])

\* C11, C12: a live draft the store does not rebase is a create-flow draft,
\* through and through: no ancestor anywhere and nothing to conflict with.
UnregisteredIsCreateFlow ==
  \A id \in DOMAIN drafts :
    Live(id) /\ ~drafts[id].rebases =>
      ~IsBased(drafts[id].draft) /\ Conflicts(drafts[id].draft) = {}

\* C13, C10: whatever the check says of a field that holds a value, it says
\* of that very value, however late, stale or out of order its answer came.
VerdictIsValueBound ==
  \A id \in DOMAIN drafts :
    LET d == drafts[id].draft
        v == FieldValue(d.fields[Checked])
    IN  d.check.state # "Idle" /\ v # NoValue => d.check.about = v

\* What a shell would get back if the process died now and came back over
\* the same canonical.
Revived(id) == AdoptedEntry(FromStash(accepts, Stash(drafts[id].draft))).draft

\* C20, C21: for a registered draft nothing is lost by a death and a restore.
\* Every field comes back exactly as it was, conflicts included, except the
\* conflicts whose edit has come to equal its ancestor or `theirs`: those
\* come back resolved.
StashIsLossless ==
  \A id \in DOMAIN drafts :
    drafts[id].rebases /\ Live(id) =>
      \A f \in Fields :
        LET x == drafts[id].draft.fields[f]
        IN  \/ Revived(id).fields[f] = x
            \/ /\ IsConflicted(x)
               /\ FieldValue(x) \in {x.base, x.theirs}
               /\ Revived(id).fields[f] = FromBase(x.theirs)

CanonicalStep ==
  \/ \E entity \in Entities(accepts) : ApplyCanonical(entity)
  \/ DeleteCanonical
  \/ \E id \in DOMAIN drafts : Submit(id)

\* C03, C04, C19: no canonical change, pushed or submitted, ever replaces a
\* dirty edit.  Afterwards it is conflicted, or it is what canonical now says,
\* or canonical says what the edit was made over.
DirtyEditsSurvive ==
  [][CanonicalStep =>
       \A id \in DOMAIN drafts \cap DOMAIN drafts', f \in Fields :
         LET x == drafts[id].draft.fields[f]
             y == drafts'[id].draft.fields[f]
         IN  IsDirty(x) /\ drafts[id].rebases /\ Live(id) /\ canonical' # NoValue =>
               /\ y.raw = x.raw /\ y.validity = x.validity
               /\ IsConflicted(y) \/ canonical'[f] \in {FieldValue(x), x.base}]_vars

\* C07, C03: a submit is a merge.  The new canonical takes the user's value
\* where the user's field is dirty and keeps the current one everywhere else,
\* for a draft that has an ancestor, whatever happened since its checkout.
CommitIsMerge ==
  [][\A id \in DOMAIN drafts :
       Submit(id) /\ IsBased(drafts[id].draft) =>
         /\ canonical # NoValue
         /\ \A f \in Fields :
              LET x == drafts[id].draft.fields[f]
              IN  canonical'[f] = IF IsDirty(x) THEN FieldValue(x) ELSE canonical[f]]_vars

\* C16: a checked value that becomes canonical by a submit was already the
\* canonical one, or a checker passed that value while the draft was open.
CommittedValueIsVerified ==
  [][\A id \in DOMAIN drafts :
       Submit(id) =>
         \/ canonical # NoValue /\ canonical'[Checked] = canonical[Checked]
         \/ LET c == drafts[id].draft.check
            IN  c.state = "Pass" /\ c.about = canonical'[Checked]]_vars

\* C11, C15: an orphan stays an orphan, its stamp and its edits' ancestors
\* stop moving, and an entity deleted under a draft is not recreated by it.
OrphanIsTerminal ==
  [][\A id \in DOMAIN drafts \cap DOMAIN drafts' :
       LET d == drafts[id].draft
           e == drafts'[id].draft
       IN  ~Live(id) =>
             /\ e.status = "Orphaned"
             /\ e.baseVersion = d.baseVersion
             /\ CanonicalStep => e = d]_vars

\* C12: a create-flow draft is moved by no canonical change.
CreateFlowNeverMoves ==
  [][CanonicalStep =>
       \A id \in DOMAIN drafts \cap DOMAIN drafts' :
         ~IsBased(drafts[id].draft) => drafts'[id] = drafts[id]]_vars
=============================================================================
