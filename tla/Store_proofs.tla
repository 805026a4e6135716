---------------------------- MODULE Store_proofs ----------------------------
(***************************************************************************)
(* What the runs of Store show on small instances, proved for every set of *)
(* texts, sanitizer, set of fields, rule, history of builds and bound.     *)
(*                                                                         *)
(* TypeOK is not inductive: a submit installs the draft's values as the    *)
(* canonical entity, so the entity satisfies the constraints only because  *)
(* every field of every live draft does (Admitted), and it is one entity   *)
(* over the live canonical only because every field Tracks it.  IInv adds  *)
(* both, one draft at a time: EntryInv says what holds of one entry.       *)
(*                                                                         *)
(* Nor is it inductive that a verdict is about the field's value (C13): a  *)
(* late answer could bring its own text along.  CInv adds what outstanding *)
(* tokens know: none is ahead of its draft's check, and one that would     *)
(* still settle a pending check was begun for the text that check is about.*)
(***************************************************************************)
EXTENDS Store, Field_proofs

-----------------------------------------------------------------------------
(* Draft operators keep the draft's type *)

\* Reset, begin and complete keep a check a check.
LEMMA CheckTypes ==
  ASSUME NEW c \in CheckType, NEW text \in Option(Raws), NEW verdict \in Verdicts,
         NEW token, token.text \in Option(Raws)
  PROVE  /\ Reset(c) \in CheckType
         /\ Begin(c, text) \in CheckType
         /\ Complete(c, token, verdict) \in CheckType
         /\ NewCheck \in CheckType
  <1>1. Reset(c) \in CheckType /\ NewCheck \in CheckType
    BY DEF CheckType, Reset, NewCheck, Option
  <1>2. Begin(c, text) \in CheckType
    BY DEF CheckType, Begin
  <1>3. Complete(c, token, verdict) \in CheckType
    BY DEF CheckType, Complete, Accepts
  <1>4. QED  BY <1>1, <1>2, <1>3

\* with_username_guard replaces the fields and at most resets the check.
LEMMA GuardedType ==
  ASSUME NEW d \in DraftType, NEW fields \in [Fields -> FieldType]
  PROVE  /\ Guarded(d, fields) \in DraftType
         /\ Guarded(d, fields).fields = fields
         /\ Guarded(d, fields).status = d.status
         /\ Guarded(d, fields).baseVersion = d.baseVersion
         /\ Guarded(d, fields).check =
              IF FieldValue(fields[Checked]) = FieldValue(d.fields[Checked])
              THEN d.check ELSE Reset(d.check)
  <1>1. d.check \in CheckType /\ Reset(d.check) \in CheckType
    BY DEF DraftType, CheckType, Reset, Option
  <1>2. QED  BY <1>1 DEF Guarded, DraftType

\* A rebased draft is a draft on the new version, every field rebased; an
\* orphan does not change.
LEMMA RebaseDraftType ==
  ASSUME NEW d \in DraftType, NEW entity \in [Fields -> Values], NEW v \in Nat
  PROVE  /\ RebaseDraft(d, entity, v) \in DraftType
         /\ RebaseDraft(d, entity, v).status = d.status
         /\ d.status = "Orphaned" => RebaseDraft(d, entity, v) = d
         /\ d.status = "Live" =>
              /\ RebaseDraft(d, entity, v).baseVersion = v
              /\ RebaseDraft(d, entity, v).fields =
                   [f \in Fields |-> Rebase(d.fields[f], entity[f])]
              /\ RebaseDraft(d, entity, v).check =
                   Guarded(d, [f \in Fields |-> Rebase(d.fields[f], entity[f])]).check
  <1> DEFINE fields == [f \in Fields |-> Rebase(d.fields[f], entity[f])]
  <1>1. fields \in [Fields -> FieldType]  BY RebaseType DEF DraftType
  <1>2. CASE d.status = "Orphaned"  BY <1>2 DEF RebaseDraft
  <1>3. CASE d.status = "Live"
    <2>1. RebaseDraft(d, entity, v) = [Guarded(d, fields) EXCEPT !.baseVersion = v]
      BY <1>3 DEF RebaseDraft
    <2> HIDE DEF fields
    <2>2. /\ Guarded(d, fields) \in DraftType
          /\ Guarded(d, fields).fields = fields
          /\ Guarded(d, fields).status = d.status
      BY <1>1, GuardedType
    <2>3. /\ [Guarded(d, fields) EXCEPT !.baseVersion = v] \in DraftType
          /\ [Guarded(d, fields) EXCEPT !.baseVersion = v].fields = fields
          /\ [Guarded(d, fields) EXCEPT !.baseVersion = v].status = d.status
          /\ [Guarded(d, fields) EXCEPT !.baseVersion = v].baseVersion = v
          /\ [Guarded(d, fields) EXCEPT !.baseVersion = v].check = Guarded(d, fields).check
      BY <2>2 DEF DraftType
    <2>4. QED  BY <1>3, <2>1, <2>3 DEF fields
  <1>4. QED  BY <1>2, <1>3 DEF DraftType

-----------------------------------------------------------------------------
(* The inductive invariant of the store *)

USE StoreAssumption

\* What the map holds of one draft, over canonical `entity` at version `v`.
EntryInv(a, e, entity, v) ==
  /\ e \in EntryType
  /\ \A f \in Fields : Admitted(a, e.draft.fields[f])
  /\ e.rebases => IsBased(e.draft)
  /\ e.draft.status = "Live" /\ e.rebases =>
       /\ entity # NoValue
       /\ e.draft.baseVersion = v
       /\ \A f \in Fields : Tracks(e.draft.fields[f], entity[f])
  /\ e.draft.status = "Live" /\ ~e.rebases =>
       \A f \in Fields : /\ e.draft.fields[f].base = NoValue
                         /\ ~IsConflicted(e.draft.fields[f])

\* The inductive invariant.
IInv ==
  /\ TypeOK
  /\ \A id \in DOMAIN drafts : EntryInv(accepts, drafts[id], canonical, version)

\* The canonical entity, when there is one, maps every field to an admitted
\* value.
LEMMA CanonicalType ==
  ASSUME NEW entity \in Entities(accepts), accepts \in AcceptSets
  PROVE  /\ entity \in [Fields -> Values]
         /\ \A f \in Fields : entity[f] \in accepts /\ entity[f] \in Values
         /\ accepts \in SUBSET Values
  BY DEF Entities

\* "No entity" is not an entity.
LEMMA NoValueIsNoEntity ==
  ASSUME NEW entity \in Entities(accepts), accepts \in AcceptSets
  PROVE  entity # NoValue
  BY CanonicalType, DraftAssumption

-----------------------------------------------------------------------------
(* What happens to one entry *)

\* An edit or a resolution of one field (the setters and resolvers).
LEMMA EditedEntry ==
  ASSUME TypeOK, NEW e, EntryInv(accepts, e, canonical, version), NEW f \in Fields,
         NEW y \in FieldType, Admitted(accepts, y),
         \A t \in Values : Tracks(e.draft.fields[f], t) => Tracks(y, t),
         /\ e.draft.fields[f].base = NoValue
         /\ ~IsConflicted(e.draft.fields[f])
         => y.base = NoValue /\ ~IsConflicted(y),
         e.draft.fields[f].base # NoValue => y.base # NoValue
  PROVE  EntryInv(accepts, [e EXCEPT !.draft = SetField(e.draft, f, y)], canonical, version)
  <1> DEFINE d == e.draft
             fields == [d.fields EXCEPT ![f] = y]
             n == [e EXCEPT !.draft = SetField(d, f, y)]
  <1>1. d \in DraftType /\ e.rebases \in BOOLEAN
    BY DEF EntryInv, EntryType
  <1>2. fields \in [Fields -> FieldType]  BY <1>1 DEF DraftType
  <1>3. /\ SetField(d, f, y) \in DraftType
        /\ SetField(d, f, y).fields = fields
        /\ SetField(d, f, y).status = d.status
        /\ SetField(d, f, y).baseVersion = d.baseVersion
    <2> HIDE DEF d, fields
    <2>1. Guarded(d, fields) = SetField(d, f, y)  BY DEF SetField, fields
    <2>2. QED  BY <1>1, <1>2, <2>1, GuardedType
  <1>4. /\ n \in EntryType /\ n.draft = SetField(d, f, y) /\ n.rebases = e.rebases
    <2>1. e \in EntryType  BY DEF EntryInv
    <2> HIDE DEF d, fields
    <2>2. QED  BY <1>3, <2>1 DEF EntryType
  <1>5. \A g \in Fields : fields[g] = IF g = f THEN y ELSE d.fields[g]
    BY <1>1 DEF DraftType
  <1>6. \A g \in Fields : Admitted(accepts, n.draft.fields[g])
    <2>1. \A g \in Fields : Admitted(accepts, d.fields[g])  BY DEF EntryInv
    <2> HIDE DEF d, fields, n
    <2>2. QED  BY <1>3, <1>4, <1>5, <2>1
  <1>7. n.rebases => IsBased(n.draft)
    <2>1. n.rebases => IsBased(d)  BY <1>4 DEF EntryInv
    <2> HIDE DEF d, fields, n
    <2>2. IsBased(d) => IsBased(n.draft)
      <3>1. \A g \in Fields : d.fields[g].base # NoValue => fields[g].base # NoValue
        BY <1>5 DEF d
      <3>2. QED  BY <1>3, <1>4, <3>1 DEF IsBased
    <2>3. QED  BY <2>1, <2>2
  <1>8. CASE n.draft.status = "Live" /\ n.rebases
    <2>1. /\ canonical # NoValue
          /\ d.baseVersion = version
          /\ \A g \in Fields : Tracks(d.fields[g], canonical[g])
      BY <1>3, <1>4, <1>8 DEF EntryInv
    <2>2. \A g \in Fields : canonical[g] \in Values
      BY <2>1, CanonicalType DEF TypeOK
    <2>3. \A g \in Fields : Tracks(n.draft.fields[g], canonical[g])
      <3>1. Tracks(d.fields[f], canonical[f]) => Tracks(y, canonical[f])
        BY <2>2
      <3> HIDE DEF d, fields, n
      <3>2. QED  BY <1>3, <1>4, <1>5, <2>1, <3>1
    <2> HIDE DEF d, fields, n
    <2>4. n.draft.baseVersion = version  BY <1>3, <1>4, <2>1
    <2>5. EntryInv(accepts, n, canonical, version)
      BY <1>4, <1>6, <1>7, <1>8, <2>1, <2>3, <2>4 DEF EntryInv
    <2>6. QED  BY <2>5 DEF n, d
  <1>9. CASE n.draft.status = "Live" /\ ~n.rebases
    <2>1. \A g \in Fields : d.fields[g].base = NoValue /\ ~IsConflicted(d.fields[g])
      BY <1>3, <1>4, <1>9 DEF EntryInv
    <2>2. y.base = NoValue /\ ~IsConflicted(y)  BY <2>1
    <2> HIDE DEF d, fields, n
    <2>3. \A g \in Fields : /\ n.draft.fields[g].base = NoValue
                            /\ ~IsConflicted(n.draft.fields[g])
      BY <1>3, <1>4, <1>5, <2>1, <2>2
    <2>4. EntryInv(accepts, n, canonical, version)
      BY <1>4, <1>6, <1>7, <1>9, <2>3 DEF EntryInv
    <2>5. QED  BY <2>4 DEF n, d
  <1>10. CASE n.draft.status # "Live"
    <2> HIDE DEF d, fields, n
    <2>1. EntryInv(accepts, n, canonical, version)
      BY <1>4, <1>6, <1>7, <1>10 DEF EntryInv
    <2>2. QED  BY <2>1 DEF n, d
  <1>11. QED  BY <1>8, <1>9, <1>10

\* The check begins or completes; nothing else of the draft moves.
LEMMA CheckedEntry ==
  ASSUME NEW e, NEW entity, NEW v, EntryInv(accepts, e, entity, v), NEW c \in CheckType
  PROVE  EntryInv(accepts, [e EXCEPT !.draft = [e.draft EXCEPT !.check = c]], entity, v)
  <1> DEFINE d == [e.draft EXCEPT !.check = c]
             n == [e EXCEPT !.draft = d]
  <1>1. /\ e \in EntryType /\ e.draft \in DraftType
    BY DEF EntryInv, EntryType
  <1>2. /\ d \in DraftType /\ d.fields = e.draft.fields
        /\ d.status = e.draft.status /\ d.baseVersion = e.draft.baseVersion
    BY <1>1 DEF DraftType
  <1>3. n \in EntryType /\ n.draft = d /\ n.rebases = e.rebases
    <2> HIDE DEF d
    <2>1. QED  BY <1>1, <1>2 DEF EntryType
  <1> HIDE DEF d, n
  <1>4. EntryInv(accepts, n, entity, v)  BY <1>2, <1>3 DEF EntryInv, IsBased
  <1>5. QED  BY <1>4 DEF n, d

\* A rebase onto the next canonical value (one step of the fan-out).
LEMMA RebasedDraft ==
  ASSUME TypeOK, NEW d \in DraftType, NEW entity \in Entities(accepts), NEW v \in Nat,
         IsBased(d), \A f \in Fields : Admitted(accepts, d.fields[f])
  PROVE  EntryInv(accepts, [draft |-> RebaseDraft(d, entity, v), rebases |-> TRUE], entity, v)
  <1> DEFINE r == RebaseDraft(d, entity, v)
             n == [draft |-> r, rebases |-> TRUE]
  <1>1. /\ entity \in [Fields -> Values]
        /\ \A f \in Fields : entity[f] \in accepts /\ entity[f] \in Values
        /\ accepts \in SUBSET Values
    BY CanonicalType DEF TypeOK
  <1>2. entity # NoValue
    BY NoValueIsNoEntity DEF TypeOK
  <1>3. /\ r \in DraftType /\ r.status = d.status
        /\ d.status = "Orphaned" => r = d
        /\ d.status = "Live" =>
             /\ r.baseVersion = v
             /\ r.fields = [f \in Fields |-> Rebase(d.fields[f], entity[f])]
    BY <1>1, RebaseDraftType
  <1>4. \A f \in Fields : d.fields[f] \in FieldType  BY DEF DraftType
  <1>5. d.status \in {"Live", "Orphaned"}  BY DEF DraftType
  <1>6. \A f \in Fields : Admitted(accepts, Rebase(d.fields[f], entity[f]))
    BY <1>1, <1>4, RebaseAdmits
  <1>7. \A f \in Fields : Tracks(Rebase(d.fields[f], entity[f]), entity[f])
    BY <1>1, <1>4, RebaseTracks
  <1>8. ASSUME NEW f \in Fields, d.fields[f].base # NoValue
        PROVE  Rebase(d.fields[f], entity[f]).base # NoValue
    <2>1. \A t \in Values : Rebase(d.fields[f], t).base # NoValue
      BY <1>1, <1>4, <1>8, AncestorStays
    <2>2. QED  BY <1>1, <2>1
  <1> HIDE DEF r
  <1>9. \A f \in Fields : Admitted(accepts, r.fields[f])
    BY <1>3, <1>5, <1>6
  <1>10. IsBased(r)
    BY <1>3, <1>5, <1>8 DEF IsBased
  <1>11. EntryInv(accepts, n, entity, v)
    BY <1>2, <1>3, <1>5, <1>7, <1>9, <1>10 DEF EntryInv, EntryType
  <1>12. QED  BY <1>11 DEF r

\* The store's fan-out over one entry, registered or not.
LEMMA RebasedEntry ==
  ASSUME TypeOK, NEW e, EntryInv(accepts, e, canonical, version),
         NEW entity \in Entities(accepts), NEW v \in Nat
  PROVE  EntryInv(accepts,
                  IF e.rebases
                  THEN [e EXCEPT !.draft = RebaseDraft(e.draft, entity, v)]
                  ELSE e,
                  entity, v)
  <1>1. e \in EntryType /\ e.draft \in DraftType  BY DEF EntryInv, EntryType
  <1>2. CASE e.rebases
    <2> DEFINE r == RebaseDraft(e.draft, entity, v)
    <2>1. IsBased(e.draft) /\ \A f \in Fields : Admitted(accepts, e.draft.fields[f])
      BY <1>2 DEF EntryInv
    <2>2. EntryInv(accepts, [draft |-> r, rebases |-> TRUE], entity, v)
      BY <1>1, <2>1, RebasedDraft
    <2> HIDE DEF r
    <2>3. e.rebases = TRUE  BY <1>1, <1>2 DEF EntryType
    <2>4. [e EXCEPT !.draft = r] = [draft |-> r, rebases |-> e.rebases]
      BY <1>1 DEF EntryType
    <2>5. QED  BY <1>2, <2>2, <2>3, <2>4 DEF r
  <1>3. CASE ~e.rebases
    BY <1>1, <1>3 DEF EntryInv
  <1>4. QED  BY <1>2, <1>3

\* Deletion orphans a registered entry and leaves a create-flow one alone.
LEMMA OrphanedEntry ==
  ASSUME NEW e, EntryInv(accepts, e, canonical, version), NEW v \in Nat
  PROVE  EntryInv(accepts,
                  IF e.rebases
                  THEN [draft |-> Orphan(e.draft), rebases |-> FALSE]
                  ELSE e,
                  NoValue, v)
  <1>1. e \in EntryType /\ e.draft \in DraftType  BY DEF EntryInv, EntryType
  <1>2. CASE e.rebases
    <2>1. /\ Orphan(e.draft) \in DraftType
          /\ Orphan(e.draft).status = "Orphaned"
          /\ Orphan(e.draft).fields = e.draft.fields
      BY <1>1 DEF Orphan, DraftType
    <2>2. EntryInv(accepts, [draft |-> Orphan(e.draft), rebases |-> FALSE], NoValue, v)
      BY <2>1 DEF EntryInv, EntryType
    <2>3. QED  BY <1>2, <2>2
  <1>3. CASE ~e.rebases
    BY <1>1, <1>3 DEF EntryInv
  <1>4. QED  BY <1>2, <1>3

\* The three rows of adopt's table, for a draft that brings no conflict.
LEMMA AdoptedEntryInv ==
  ASSUME TypeOK, NEW d \in DraftType,
         \A f \in Fields : /\ Admitted(accepts, d.fields[f])
                           /\ ~IsConflicted(d.fields[f])
  PROVE  EntryInv(accepts, AdoptedEntry(d), canonical, version)
  <1>1. CASE IsBased(d) /\ canonical # NoValue
    <2>1. canonical \in Entities(accepts) /\ version \in Nat
      BY <1>1 DEF TypeOK
    <2>2. AdoptedEntry(d) = [draft |-> RebaseDraft(d, canonical, version), rebases |-> TRUE]
      BY <1>1 DEF AdoptedEntry
    <2>3. QED  BY <1>1, <2>1, <2>2, RebasedDraft
  <1>2. CASE IsBased(d) /\ canonical = NoValue
    <2>1. /\ Orphan(d) \in DraftType
          /\ Orphan(d).status = "Orphaned"
          /\ Orphan(d).fields = d.fields
      BY DEF Orphan, DraftType
    <2>2. AdoptedEntry(d) = [draft |-> Orphan(d), rebases |-> FALSE]
      BY <1>2 DEF AdoptedEntry
    <2>3. QED  BY <2>1, <2>2 DEF EntryInv, EntryType
  <1>3. CASE ~IsBased(d)
    <2>1. AdoptedEntry(d) = [draft |-> d, rebases |-> FALSE]
      BY <1>3 DEF AdoptedEntry
    <2>2. \A f \in Fields : d.fields[f].base = NoValue
      BY <1>3 DEF IsBased
    <2>3. QED  BY <2>1, <2>2 DEF EntryInv, EntryType
  <1>4. QED  BY <1>1, <1>2, <1>3

-----------------------------------------------------------------------------
(* Drafts that are adopted *)

\* from_canonical, over an entity and over none.
LEMMA CheckoutDraft ==
  ASSUME TypeOK, NEW d,
         d = IF canonical = NoValue THEN CreateFlow(version)
             ELSE FromCanonical(canonical, version)
  PROVE  /\ d \in DraftType
         /\ \A f \in Fields : Admitted(accepts, d.fields[f]) /\ ~IsConflicted(d.fields[f])
  <1>1. NewCheck \in CheckType  BY DEF NewCheck, CheckType, Option
  <1>2. version \in Nat  BY DEF TypeOK
  <1>3. CASE canonical = NoValue
    <2>1. /\ NewUnset \in FieldType
          /\ Admitted(accepts, NewUnset) /\ ~IsConflicted(NewUnset)
      BY NewUnsetType DEF NewUnset, Admitted, IsConflicted, Option
    <2> HIDE DEF NewUnset
    <2>2. QED  BY <1>1, <1>2, <1>3, <2>1 DEF CreateFlow, DraftType
  <1>4. CASE canonical # NoValue
    <2>1. \A f \in Fields : canonical[f] \in accepts /\ canonical[f] \in Values
      BY <1>4, CanonicalType DEF TypeOK
    <2>2. \A f \in Fields : FromBase(canonical[f]) \in FieldType
      BY <2>1, FromBaseType
    <2>3. \A f \in Fields : /\ Admitted(accepts, FromBase(canonical[f]))
                            /\ ~IsConflicted(FromBase(canonical[f]))
      BY <2>1 DEF FromBase, Admitted, IsConflicted, Option
    <2>4. QED  BY <1>1, <1>2, <1>4, <2>2, <2>3 DEF FromCanonical, DraftType
  <1>5. QED  BY <1>3, <1>4

\* stash and from_stash.
LEMMA RestoredDraft ==
  ASSUME TypeOK, NEW s \in StashType
  PROVE  /\ FromStash(accepts, s) \in DraftType
         /\ \A f \in Fields : /\ Admitted(accepts, FromStash(accepts, s).fields[f])
                              /\ ~IsConflicted(FromStash(accepts, s).fields[f])
  <1>1. accepts \in SUBSET Values  BY DEF TypeOK
  <1>2. \A f \in Fields : s.fields[f] \in FieldStashType  BY DEF StashType
  <1>3. \A f \in Fields : /\ UnstashField(accepts, s.fields[f]) \in FieldType
                          /\ ~IsConflicted(UnstashField(accepts, s.fields[f]))
                          /\ Admitted(accepts, UnstashField(accepts, s.fields[f]))
    BY <1>1, <1>2, UnstashFieldType, UnstashFieldAdmits
  <1>4. NewCheck \in CheckType  BY DEF NewCheck, CheckType, Option
  <1>5. s.baseVersion \in Nat  BY DEF StashType
  <1>6. QED  BY <1>3, <1>4, <1>5 DEF FromStash, DraftType

\* The stash of a draft is a stash.
LEMMA StashOfDraft ==
  ASSUME NEW d \in DraftType PROVE Stash(d) \in StashType
  BY DEF Stash, StashType, StashField, FieldStashType, DraftType, FieldType

-----------------------------------------------------------------------------
(* Every step preserves the inductive invariant *)

\* The invariant, from its parts in the next state.
LEMMA Assembled ==
  ASSUME accepts' \in AcceptSets, canonical' \in Entities(accepts') \cup {NoValue},
         version' \in Nat, nextId' \in Nat,
         tokens' \subseteq TokenType, stash' \in StashType \cup {NoValue},
         drafts' = [id \in DOMAIN drafts' |-> drafts'[id]],
         DOMAIN drafts' \subseteq 0..(nextId' - 1),
         \A id \in DOMAIN drafts' : EntryInv(accepts', drafts'[id], canonical', version')
  PROVE  IInv'
  BY DEF IInv, TypeOK, EntryInv

\* Store::adopt of a draft that brings no conflict.
LEMMA AdoptInv ==
  ASSUME IInv, NEW d \in DraftType, Adopt(d),
         \A f \in Fields : Admitted(accepts, d.fields[f]) /\ ~IsConflicted(d.fields[f])
  PROVE  IInv'
  <1> DEFINE e == AdoptedEntry(d)
  <1>1. TypeOK /\ EntryInv(accepts, e, canonical, version)
    BY AdoptedEntryInv DEF IInv
  <1> HIDE DEF e
  <1>2. drafts' = [i \in DOMAIN drafts \cup {nextId} |->
                     IF i = nextId THEN e ELSE drafts[i]]
    BY DEF Adopt, Put, e
  <1>3. /\ nextId' = nextId + 1 /\ canonical' = canonical /\ version' = version
        /\ tokens' = tokens /\ stash' = stash /\ accepts' = accepts
    BY DEF Adopt
  <1>4. \A id \in DOMAIN drafts' : EntryInv(accepts', drafts'[id], canonical', version')
    BY <1>1, <1>2, <1>3 DEF IInv
  <1>5. DOMAIN drafts' \subseteq 0..(nextId' - 1)
    BY <1>1, <1>2, <1>3 DEF TypeOK
  <1>6. drafts' = [id \in DOMAIN drafts' |-> drafts'[id]]
    BY <1>2
  <1>7. QED  BY <1>1, <1>3, <1>4, <1>5, <1>6, Assembled DEF TypeOK

\* A step that replaces one draft and leaves canonical alone.
LEMMA UpdateInv ==
  ASSUME IInv, NEW id \in DOMAIN drafts, NEW d, Update(id, d),
         EntryInv(accepts, [drafts[id] EXCEPT !.draft = d], canonical, version),
         tokens' \subseteq TokenType,
         UNCHANGED <<canonical, version, nextId, stash, accepts>>
  PROVE  IInv'
  <1> DEFINE e == [drafts[id] EXCEPT !.draft = d]
  <1>1. drafts' = [drafts EXCEPT ![id] = e]
    BY DEF Update
  <1>2. EntryInv(accepts, e, canonical, version)
    OBVIOUS
  <1> HIDE DEF e
  <1>3. /\ DOMAIN drafts' = DOMAIN drafts
        /\ \A i \in DOMAIN drafts : drafts'[i] = IF i = id THEN e ELSE drafts[i]
        /\ drafts' = [i \in DOMAIN drafts' |-> drafts'[i]]
    BY <1>1 DEF IInv, TypeOK
  <1>4. \A i \in DOMAIN drafts' : EntryInv(accepts', drafts'[i], canonical', version')
    BY <1>2, <1>3 DEF IInv
  <1>5. QED  BY <1>3, <1>4, Assembled DEF IInv, TypeOK

\* apply_canonical, over all the drafts or over the ones a submit leaves.
LEMMA ApplyInv ==
  ASSUME IInv, NEW S \in SUBSET DOMAIN drafts, NEW entity \in Entities(accepts),
         Apply([id \in S |-> drafts[id]], entity)
  PROVE  IInv'
  <1> DEFINE n(id) == IF drafts[id].rebases
                      THEN [drafts[id] EXCEPT !.draft =
                              RebaseDraft(drafts[id].draft, entity, version + 1)]
                      ELSE drafts[id]
  <1>1. drafts' = [id \in S |-> n(id)]
    BY DEF Apply, Rebased
  <1>2. /\ version' = version + 1 /\ canonical' = entity
        /\ nextId' = nextId /\ tokens' = tokens /\ stash' = stash /\ accepts' = accepts
    BY DEF Apply
  <1>3. TypeOK /\ version + 1 \in Nat  BY DEF IInv, TypeOK
  <1>4. \A id \in S : EntryInv(accepts, n(id), entity, version + 1)
    BY <1>3, RebasedEntry DEF IInv
  <1> HIDE DEF n
  <1>5. DOMAIN drafts' = S /\ \A id \in S : drafts'[id] = n(id)
    BY <1>1
  <1>6. drafts' = [id \in DOMAIN drafts' |-> drafts'[id]]
    BY <1>1
  <1>7. \A id \in DOMAIN drafts' : EntryInv(accepts', drafts'[id], canonical', version')
    BY <1>2, <1>4, <1>5
  <1>8. QED  BY <1>2, <1>3, <1>5, <1>6, <1>7, Assembled DEF TypeOK

\* delete_canonical.
LEMMA DeleteInv ==
  ASSUME IInv, DeleteCanonical PROVE IInv'
  <1> DEFINE n(id) == IF drafts[id].rebases
                      THEN [draft |-> Orphan(drafts[id].draft), rebases |-> FALSE]
                      ELSE drafts[id]
  <1>1. drafts' = [id \in DOMAIN drafts |-> n(id)]
    BY DEF DeleteCanonical
  <1>2. /\ version' = version + 1 /\ canonical' = NoValue
        /\ nextId' = nextId /\ tokens' = tokens /\ stash' = stash /\ accepts' = accepts
    BY DEF DeleteCanonical
  <1>3. TypeOK /\ version + 1 \in Nat  BY DEF IInv, TypeOK
  <1>4. \A id \in DOMAIN drafts : EntryInv(accepts, n(id), NoValue, version + 1)
    BY <1>3, OrphanedEntry DEF IInv
  <1> HIDE DEF n
  <1>5. DOMAIN drafts' = DOMAIN drafts /\ \A id \in DOMAIN drafts : drafts'[id] = n(id)
    BY <1>1
  <1>6. drafts' = [id \in DOMAIN drafts' |-> drafts'[id]]
    BY <1>1
  <1>7. \A id \in DOMAIN drafts' : EntryInv(accepts', drafts'[id], canonical', version')
    BY <1>2, <1>4, <1>5
  <1>8. QED  BY <1>2, <1>3, <1>5, <1>6, <1>7, Assembled DEF TypeOK

\* A setter or a resolver, whichever field it is called on.
LEMMA EditFieldInv ==
  ASSUME IInv, NEW id \in DOMAIN drafts, NEW f \in Fields, NEW y, EditField(id, f, y),
         LET x == drafts[id].draft.fields[f]
         IN  \/ \E r \in Raws : y = TrySet(accepts, x, r)
             \/ y \in {KeepMine(x), TakeTheirs(x)}
  PROVE  IInv'
  <1> DEFINE e == drafts[id]
             x == e.draft.fields[f]
  <1>1. TypeOK /\ accepts \in SUBSET Values /\ EntryInv(accepts, e, canonical, version)
    BY DEF IInv, TypeOK
  <1>2. x \in FieldType /\ Admitted(accepts, x)
    BY <1>1 DEF EntryInv, EntryType, DraftType
  <1> HIDE DEF e
  <1>3. y \in FieldType
    BY <1>1, <1>2, TrySetType, ResolveType DEF e
  <1>4. Admitted(accepts, y)
    BY <1>1, <1>2, EditAdmits DEF e
  <1>5. ASSUME NEW t \in Values, Tracks(x, t) PROVE Tracks(y, t)
    <2>1. /\ \A r \in Raws : Tracks(TrySet(accepts, x, r), t)
          /\ Tracks(KeepMine(x), t)
          /\ Tracks(TakeTheirs(x), t)
      BY <1>1, <1>2, <1>5, EditTracks
    <2>2. QED  BY <2>1 DEF e
  <1>6. x.base = NoValue /\ ~IsConflicted(x) => y.base = NoValue /\ ~IsConflicted(y)
    BY <1>1, <1>2, EditStaysCreateFlow DEF e
  <1>7. x.base # NoValue => y.base # NoValue
    BY <1>1, <1>2, AncestorStays DEF e
  <1>8. EntryInv(accepts, [e EXCEPT !.draft = SetField(e.draft, f, y)], canonical, version)
    BY <1>1, <1>3, <1>4, <1>5, <1>6, <1>7, EditedEntry
  <1>9. /\ Update(id, SetField(e.draft, f, y))
        /\ UNCHANGED <<canonical, version, nextId, tokens, stash, accepts>>
    BY DEF EditField, e
  <1>10. tokens' \subseteq TokenType  BY <1>1, <1>9 DEF TypeOK
  <1>11. QED  BY <1>8, <1>9, <1>10, UpdateInv DEF e

\* begin_check: the new token names the text the field holds.
LEMMA BeginCheckInv ==
  ASSUME IInv, NEW id \in DOMAIN drafts, BeginCheck(id) PROVE IInv'
  <1> DEFINE d == drafts[id].draft
             c == Begin(d.check, TextOf(d))
             n == [d EXCEPT !.check = c]
  <1>1. TypeOK /\ EntryInv(accepts, drafts[id], canonical, version)
    BY DEF IInv
  <1>2. d \in DraftType  BY <1>1 DEF EntryInv, EntryType
  <1>3. d.check \in CheckType /\ TextOf(d) \in Option(Raws)
    BY <1>2, DraftAssumption DEF DraftType, TextOf, FieldType
  <1>4. c \in CheckType  BY <1>3 DEF CheckType, Begin
  <1>5. id \in Nat  BY <1>1 DEF TypeOK
  <1>6. [id |-> id, seq |-> c.seq, text |-> c.about] \in TokenType
    BY <1>4, <1>5 DEF CheckType, TokenType
  <1>7. /\ Update(id, n)
        /\ tokens' = tokens \cup {[id |-> id, seq |-> c.seq, text |-> c.about]}
        /\ UNCHANGED <<canonical, version, nextId, stash, accepts>>
    BY DEF BeginCheck
  <1> HIDE DEF c
  <1>8. EntryInv(accepts, [drafts[id] EXCEPT !.draft = n], canonical, version)
    BY <1>1, <1>4, CheckedEntry
  <1>9. tokens' \subseteq TokenType  BY <1>1, <1>6, <1>7 DEF TypeOK
  <1> HIDE DEF n, d
  <1>10. QED  BY <1>7, <1>8, <1>9, UpdateInv

\* complete_check, also of a draft that is gone.
LEMMA CompleteCheckInv ==
  ASSUME IInv, NEW token \in tokens, NEW verdict \in Verdicts,
         CompleteCheck(token, verdict)
  PROVE  IInv'
  <1>1. /\ TypeOK /\ tokens' \subseteq TokenType
        /\ UNCHANGED <<canonical, version, nextId, stash, accepts>>
    BY DEF IInv, TypeOK, CompleteCheck
  <1>2. CASE token.id \in DOMAIN drafts
    <2> DEFINE d == drafts[token.id].draft
               c == Complete(d.check, token, verdict)
    <2>1. EntryInv(accepts, drafts[token.id], canonical, version)
      BY <1>2 DEF IInv
    <2>2. d.check \in CheckType  BY <2>1 DEF EntryInv, EntryType, DraftType
    <2>3. token.text \in Option(Raws)  BY DEF IInv, TypeOK, TokenType
    <2>4. NoValue \in Option(Raws)  BY DEF Option
    <2>5. c \in CheckType  BY <2>2, <2>3, <2>4, CheckTypes
    <2>6. Update(token.id, [d EXCEPT !.check = c])
      BY <1>2 DEF CompleteCheck
    <2> HIDE DEF c
    <2>7. EntryInv(accepts, [drafts[token.id] EXCEPT !.draft = [d EXCEPT !.check = c]],
                   canonical, version)
      BY <2>1, <2>5, CheckedEntry
    <2>8. QED  BY <1>1, <1>2, <2>6, <2>7, UpdateInv
  <1>3. CASE token.id \notin DOMAIN drafts
    <2>1. UNCHANGED drafts  BY <1>3 DEF CompleteCheck
    <2>2. QED  BY <1>1, <2>1, Assembled DEF IInv, TypeOK
  <1>4. QED  BY <1>2, <1>3

\* What a draft that passes the commit gates commits is an entity.
LEMMA CommitsAnEntity ==
  ASSUME TypeOK, NEW e, EntryInv(accepts, e, canonical, version), CommitOk(e.draft)
  PROVE  EntityOf(e.draft) \in Entities(accepts)
  <1>1. \A f \in Fields : /\ e.draft.fields[f].validity = "Valid"
                          /\ Admitted(accepts, e.draft.fields[f])
    BY DEF CommitOk, IsValid, EntryInv
  <1>2. \A f \in Fields : e.draft.fields[f].raw \in accepts
    BY <1>1 DEF Admitted
  <1>3. accepts \subseteq Values  BY DEF TypeOK
  <1>4. QED  BY <1>2, <1>3 DEF EntityOf, Entities

\* submit, close and stash of a live draft.
LEMMA SubmitCloseInv ==
  ASSUME IInv, NEW id \in DOMAIN drafts, Submit(id) \/ Close(id) \/ SaveStash(id)
  PROVE  IInv'
  <1>1. TypeOK /\ EntryInv(accepts, drafts[id], canonical, version)
    BY DEF IInv
  <1>2. CASE Submit(id)
    <2>1. EntityOf(drafts[id].draft) \in Entities(accepts)
      BY <1>1, <1>2, CommitsAnEntity DEF Submit
    <2>2. Apply([i \in DOMAIN drafts \ {id} |-> drafts[i]], EntityOf(drafts[id].draft))
      BY <1>2 DEF Submit, Without
    <2>3. QED  BY <2>1, <2>2, ApplyInv
  <1>3. CASE Close(id)
    <2>1. /\ drafts' = [i \in DOMAIN drafts \ {id} |-> drafts[i]]
          /\ UNCHANGED <<canonical, version, nextId, tokens, stash, accepts>>
      BY <1>3 DEF Close, Without
    <2>2. \A i \in DOMAIN drafts' : EntryInv(accepts', drafts'[i], canonical', version')
      BY <2>1 DEF IInv
    <2>3. QED  BY <1>1, <2>1, <2>2, Assembled DEF TypeOK
  <1>4. CASE SaveStash(id)
    <2>1. drafts[id].draft \in DraftType  BY <1>1 DEF EntryInv, EntryType
    <2>2. Stash(drafts[id].draft) \in StashType  BY <2>1, StashOfDraft
    <2>3. /\ stash' = Stash(drafts[id].draft)
          /\ UNCHANGED <<canonical, version, drafts, nextId, tokens, accepts>>
      BY <1>4 DEF SaveStash
    <2>4. QED  BY <1>1, <2>2, <2>3, Assembled DEF IInv, TypeOK
  <1>5. QED  BY <1>2, <1>3, <1>4

\* The death of the process: nothing is left to violate the invariant.
LEMMA ProcessDeathInv ==
  ASSUME IInv, ProcessDeath PROVE IInv'
  <1>1. DOMAIN drafts' = {} /\ drafts' = [id \in DOMAIN drafts' |-> drafts'[id]]
    BY DEF ProcessDeath, Empty
  <1>2. /\ accepts' \in AcceptSets /\ canonical' \in Entities(accepts') \cup {NoValue}
        /\ version' = 0 /\ nextId' = 0 /\ tokens' = {} /\ stash' = stash
    BY DEF ProcessDeath
  <1>3. QED  BY <1>1, <1>2, Assembled DEF IInv, TypeOK

\* The store starts empty.
LEMMA InitInv == Init => IInv
  <1> SUFFICES ASSUME Init PROVE IInv  OBVIOUS
  <1>1. DOMAIN drafts = {} /\ drafts = [id \in DOMAIN drafts |-> drafts[id]]
    BY DEF Init, Empty
  <1>2. QED  BY <1>1 DEF Init, IInv, TypeOK

\* One step of the store, its user, its server, its checker or its system.
LEMMA NextInv == IInv /\ [Next]_vars => IInv'
  <1> SUFFICES ASSUME IInv, [Next]_vars PROVE IInv'  OBVIOUS
  <1>1. TypeOK  BY DEF IInv
  <1>2. CASE Checkout
    BY <1>1, <1>2, CheckoutDraft, AdoptInv DEF Checkout
  <1>3. CASE Restore
    <2>1. stash \in StashType  BY <1>1, <1>3 DEF Restore, TypeOK
    <2>2. QED  BY <1>1, <1>3, <2>1, RestoredDraft, AdoptInv DEF Restore
  <1>4. ASSUME NEW id \in DOMAIN drafts, UserStep(id) PROVE IInv'
    <2>1. CASE \E f \in Fields, r \in Raws : SetRaw(id, f, r)
      BY <2>1, EditFieldInv DEF SetRaw
    <2>2. CASE \E f \in Fields : ResolveKeepMine(id, f) \/ ResolveTakeTheirs(id, f)
      BY <2>2, EditFieldInv DEF ResolveKeepMine, ResolveTakeTheirs
    <2>3. CASE BeginCheck(id)  BY <2>3, BeginCheckInv
    <2>4. CASE Submit(id) \/ Close(id) \/ SaveStash(id)
      BY <2>4, SubmitCloseInv
    <2>5. QED  BY <1>4, <2>1, <2>2, <2>3, <2>4 DEF UserStep
  <1>5. CASE UNCHANGED vars \/ \E id \in 0..nextId : SubmitRefused(id)
    BY <1>5, Assembled DEF SubmitRefused, vars, IInv, TypeOK
  <1>6. CASE \E token \in tokens, verdict \in Verdicts : CompleteCheck(token, verdict)
    BY <1>6, CompleteCheckInv
  <1>7. CASE \E entity \in Entities(accepts) : ApplyCanonical(entity)
    <2>1. drafts = [id \in DOMAIN drafts |-> drafts[id]]  BY <1>1 DEF TypeOK
    <2>2. QED  BY <1>7, <2>1, ApplyInv DEF ApplyCanonical
  <1>8. CASE DeleteCanonical  BY <1>8, DeleteInv
  <1>9. CASE ProcessDeath  BY <1>9, ProcessDeathInv
  <1>10. QED
    BY <1>2, <1>3, <1>4, <1>5, <1>6, <1>7, <1>8, <1>9 DEF Next

\* The invariant holds in every reachable state.
LEMMA Invariant == Spec => []IInv
  BY InitInv, NextInv, PTL DEF Spec

\* Every variable of the store always holds what its Rust type holds; in
\* particular no value the build's constraints reject is ever canonical (C01).
THEOREM TypeCorrect == Spec => []TypeOK
  <1>1. IInv => TypeOK  BY DEF IInv
  <1>2. QED  BY <1>1, Invariant, PTL

\* A live registered draft is stamped with the store's version, its in-sync
\* fields' ancestors are canonical and its conflicts name what canonical says
\* now (C03, C15).
THEOREM SyncAlwaysTracksCanonical == Spec => []SyncTracksCanonical
  <1>1. IInv => SyncTracksCanonical
    BY DEF IInv, SyncTracksCanonical, EntryInv, Live
  <1>2. QED  BY <1>1, Invariant, PTL

\* A live draft the store does not rebase is a create-flow draft (C11, C12).
THEOREM UnregisteredAlwaysCreateFlow == Spec => []UnregisteredIsCreateFlow
  <1>1. IInv => UnregisteredIsCreateFlow
    BY DEF IInv, UnregisteredIsCreateFlow, EntryInv, Live, IsBased, Conflicts
  <1>2. QED  BY <1>1, Invariant, PTL

-----------------------------------------------------------------------------
(* The asynchronous check, in whatever order its answers come back *)

USE FieldAssumption, DraftAssumption, StoreAssumption

\* What holds of draft d, known as id, and the tokens in the shell's hands.
CheckInv(d, id, toks) ==
  /\ LET v == FieldValue(d.fields[Checked])
     IN  d.check.state # "Idle" /\ v # NoValue => d.check.about = v
  /\ \A token \in toks :
       token.id = id =>
         /\ token.seq <= d.check.seq
         /\ Accepts(d.check, token) => token.text = d.check.about

CInv ==
  /\ \A token \in tokens : token.id < nextId
  /\ \A id \in DOMAIN drafts : CheckInv(drafts[id].draft, id, tokens)

-----------------------------------------------------------------------------
(* What happens to one draft *)

\* Whatever replaces the fields under with_username_guard resets a check whose
\* value moved and strands its token.
LEMMA GuardedCheck ==
  ASSUME NEW d \in DraftType, NEW fields \in [Fields -> FieldType], NEW id,
         NEW toks \in SUBSET TokenType, CheckInv(d, id, toks)
  PROVE  CheckInv(Guarded(d, fields), id, toks)
  <1> DEFINE g == Guarded(d, fields)
  <1>1. /\ g.fields = fields
        /\ g.check = IF FieldValue(fields[Checked]) = FieldValue(d.fields[Checked])
                     THEN d.check ELSE Reset(d.check)
    BY GuardedType
  <1> HIDE DEF g
  <1>2. CASE FieldValue(fields[Checked]) = FieldValue(d.fields[Checked])
    <2>1. CheckInv(g, id, toks)  BY <1>1, <1>2 DEF CheckInv
    <2>2. QED  BY <2>1 DEF g
  <1>3. CASE FieldValue(fields[Checked]) # FieldValue(d.fields[Checked])
    <2>1. d.check.seq \in Nat  BY DEF DraftType, CheckType
    <2>2. g.check = [seq |-> d.check.seq + 1, state |-> "Idle", about |-> NoValue]
      BY <1>1, <1>3 DEF Reset
    <2>3. \A token \in toks : token.id = id => token.seq <= d.check.seq + 1
      BY <2>1 DEF CheckInv, TokenType
    <2>4. CheckInv(g, id, toks)  BY <2>2, <2>3 DEF CheckInv, Accepts
    <2>5. QED  BY <2>4 DEF g
  <1>4. QED  BY <1>2, <1>3

\* A rebase is guarded as well.
LEMMA RebasedCheck ==
  ASSUME NEW d \in DraftType, NEW entity \in [Fields -> Values], NEW v \in Nat, NEW id,
         NEW toks \in SUBSET TokenType, CheckInv(d, id, toks)
  PROVE  CheckInv(RebaseDraft(d, entity, v), id, toks)
  <1> DEFINE fields == [f \in Fields |-> Rebase(d.fields[f], entity[f])]
             r == RebaseDraft(d, entity, v)
  <1>1. CASE d.status = "Orphaned"  BY <1>1 DEF RebaseDraft
  <1>2. CASE d.status = "Live"
    <2>1. fields \in [Fields -> FieldType]  BY RebaseType DEF DraftType
    <2>2. r.fields = fields /\ r.check = Guarded(d, fields).check
      BY <1>2, RebaseDraftType
    <2> HIDE DEF fields, r
    <2>3. CheckInv(Guarded(d, fields), id, toks)  BY <2>1, GuardedCheck
    <2>4. Guarded(d, fields).fields = fields  BY <2>1, GuardedType
    <2>5. CheckInv(r, id, toks)  BY <2>2, <2>3, <2>4 DEF CheckInv
    <2>6. QED  BY <2>5 DEF r
  <1>3. QED  BY <1>1, <1>2 DEF DraftType

\* A draft that is adopted has no verdict, and no token names its id.
LEMMA AdoptedCheck ==
  ASSUME TypeOK, CInv, NEW d \in DraftType, d.check = NewCheck
  PROVE  CheckInv(AdoptedEntry(d).draft, nextId, tokens)
  <1>1. /\ tokens \in SUBSET TokenType /\ nextId \in Nat /\ version \in Nat
    BY DEF TypeOK
  <1>2. \A token \in tokens : token.id # nextId
    BY <1>1 DEF CInv, TokenType
  <1>3. CheckInv(d, nextId, tokens)
    BY <1>2 DEF CheckInv, NewCheck
  <1>4. CASE IsBased(d) /\ canonical # NoValue
    <2>1. canonical \in [Fields -> Values]
      BY <1>4, CanonicalType DEF TypeOK
    <2>2. CheckInv(RebaseDraft(d, canonical, version), nextId, tokens)
      BY <1>1, <1>3, <2>1, RebasedCheck
    <2>3. AdoptedEntry(d).draft = RebaseDraft(d, canonical, version)
      BY <1>4 DEF AdoptedEntry
    <2>4. QED  BY <2>2, <2>3
  <1>5. CASE ~(IsBased(d) /\ canonical # NoValue)
    <2>1. AdoptedEntry(d).draft \in {d, Orphan(d)}
      BY <1>5 DEF AdoptedEntry
    <2>2. Orphan(d).fields = d.fields /\ Orphan(d).check = d.check
      BY DEF Orphan, DraftType
    <2>3. CheckInv(Orphan(d), nextId, tokens)  BY <1>3, <2>2 DEF CheckInv
    <2>4. QED  BY <1>3, <2>1, <2>3
  <1>6. QED  BY <1>4, <1>5

-----------------------------------------------------------------------------
(* Every step preserves CInv *)

\* Store::adopt.
LEMMA AdoptCheck ==
  ASSUME IInv, CInv, NEW d \in DraftType, d.check = NewCheck, Adopt(d)
  PROVE  CInv'
  <1> DEFINE e == AdoptedEntry(d)
  <1>1. CheckInv(e.draft, nextId, tokens)  BY AdoptedCheck DEF IInv
  <1> HIDE DEF e
  <1>2. drafts' = [i \in DOMAIN drafts \cup {nextId} |->
                     IF i = nextId THEN e ELSE drafts[i]]
    BY DEF Adopt, Put, e
  <1>3. nextId' = nextId + 1 /\ tokens' = tokens  BY DEF Adopt
  <1>4. \A id \in DOMAIN drafts' : CheckInv(drafts'[id].draft, id, tokens')
    BY <1>1, <1>2, <1>3 DEF CInv
  <1>5. \A token \in tokens' : token.id < nextId'
    BY <1>3 DEF CInv, IInv, TypeOK, TokenType
  <1>6. QED  BY <1>4, <1>5 DEF CInv

\* A step that replaces one draft.
LEMMA UpdateCheck ==
  ASSUME IInv, CInv, NEW id \in DOMAIN drafts, NEW d, Update(id, d),
         CheckInv(d, id, tokens'), UNCHANGED nextId,
         \A token \in tokens' : token.id < nextId,
         \A token \in tokens' : token \in tokens \/ token.id = id
  PROVE  CInv'
  <1> DEFINE e == [drafts[id] EXCEPT !.draft = d]
  <1>1. drafts' = [drafts EXCEPT ![id] = e]  BY DEF Update
  <1>2. drafts[id] \in EntryType  BY DEF IInv, TypeOK
  <1>3. e.draft = d  BY <1>2 DEF EntryType
  <1> HIDE DEF e
  <1>4. /\ DOMAIN drafts' = DOMAIN drafts
        /\ \A i \in DOMAIN drafts : drafts'[i] = IF i = id THEN e ELSE drafts[i]
    BY <1>1 DEF IInv, TypeOK
  <1>5. \A i \in DOMAIN drafts \ {id} : CheckInv(drafts[i].draft, i, tokens')
    BY DEF CInv, CheckInv
  <1>6. \A i \in DOMAIN drafts' : CheckInv(drafts'[i].draft, i, tokens')
    BY <1>3, <1>4, <1>5
  <1>7. QED  BY <1>6 DEF CInv

\* Every setter and resolver.
LEMMA EditFieldCheck ==
  ASSUME IInv, CInv, NEW id \in DOMAIN drafts, NEW f \in Fields, NEW y, EditField(id, f, y),
         LET x == drafts[id].draft.fields[f]
         IN  \/ \E r \in Raws : y = TrySet(accepts, x, r)
             \/ y \in {KeepMine(x), TakeTheirs(x)}
  PROVE  CInv'
  <1> DEFINE d == drafts[id].draft
             fields == [d.fields EXCEPT ![f] = y]
  <1>1. d \in DraftType /\ accepts \in SUBSET Values
    BY DEF IInv, TypeOK, EntryType
  <1>2. d.fields[f] \in FieldType  BY <1>1 DEF DraftType
  <1>3. y \in FieldType  BY <1>1, <1>2, TrySetType, ResolveType
  <1>4. fields \in [Fields -> FieldType]  BY <1>1, <1>3 DEF DraftType
  <1>5. CheckInv(d, id, tokens) /\ tokens \in SUBSET TokenType
    BY DEF IInv, TypeOK, CInv
  <1>6. Update(id, Guarded(d, fields)) /\ tokens' = tokens /\ nextId' = nextId
    BY DEF EditField, SetField
  <1> HIDE DEF d, fields
  <1>7. CheckInv(Guarded(d, fields), id, tokens')
    BY <1>1, <1>4, <1>5, <1>6, GuardedCheck
  <1>8. QED  BY <1>6, <1>7, UpdateCheck DEF CInv

\* begin_check: the new token is the only one level with the counter.
LEMMA BeginCheckCheck ==
  ASSUME IInv, CInv, NEW id \in DOMAIN drafts, BeginCheck(id)
  PROVE  CInv'
  <1> DEFINE d == drafts[id].draft
             c == Begin(d.check, TextOf(d))
             n == [d EXCEPT !.check = c]
             token == [id |-> id, seq |-> c.seq, text |-> c.about]
  <1>1. d \in DraftType /\ tokens \in SUBSET TokenType /\ CheckInv(d, id, tokens)
    BY DEF IInv, TypeOK, EntryType, CInv
  <1>2. /\ Update(id, n) /\ tokens' = tokens \cup {token} /\ nextId' = nextId
    BY DEF BeginCheck
  <1>3. d.check.seq \in Nat  BY <1>1 DEF DraftType, CheckType
  <1>4. /\ c.seq = d.check.seq + 1 /\ c.state = "Pending"
        /\ c.about = d.fields[Checked].raw
    BY DEF Begin, TextOf
  <1>5. n.check = c /\ n.fields = d.fields  BY <1>1 DEF DraftType
  <1>6. \A t \in tokens : t.id = id => t.seq \in Nat /\ t.seq <= d.check.seq
    BY <1>1 DEF CheckInv, TokenType
  <1>7. token.id = id /\ token.seq = c.seq /\ token.text = c.about
    OBVIOUS
  <1>8. id < nextId  BY DEF IInv, TypeOK
  <1> HIDE DEF d, c, n, token
  <1>9. CheckInv(n, id, tokens')
    <2>1. \A t \in tokens' : t.id = id => /\ t.seq <= c.seq
                                          /\ Accepts(c, t) => t.text = c.about
      BY <1>2, <1>3, <1>4, <1>6, <1>7 DEF Accepts
    <2>2. FieldValue(n.fields[Checked]) # NoValue =>
            c.about = FieldValue(n.fields[Checked])
      BY <1>4, <1>5 DEF FieldValue
    <2>3. QED  BY <1>5, <2>1, <2>2 DEF CheckInv
  <1>10. QED  BY <1>2, <1>7, <1>8, <1>9, UpdateCheck DEF CInv, d

\* complete_check: an accepted answer is about the text that was asked.
LEMMA CompleteCheckCheck ==
  ASSUME IInv, CInv, NEW token \in tokens, NEW verdict \in Verdicts,
         CompleteCheck(token, verdict)
  PROVE  CInv'
  <1>1. tokens' \subseteq tokens /\ nextId' = nextId
    BY DEF CompleteCheck
  <1>2. CASE token.id \in DOMAIN drafts
    <2> DEFINE id == token.id
               d == drafts[id].draft
               c == Complete(d.check, token, verdict)
               n == [d EXCEPT !.check = c]
    <2>1. d \in DraftType /\ CheckInv(d, id, tokens)
      BY <1>2 DEF IInv, TypeOK, EntryType, CInv
    <2>2. n.check = c /\ n.fields = d.fields  BY <2>1 DEF DraftType
    <2>3. CheckInv(n, id, tokens')
      <3>1. CASE Accepts(d.check, token)
        <4>1. /\ c.seq = d.check.seq /\ c.state \in Verdicts /\ c.about = token.text
          BY <2>1, <3>1 DEF Complete, DraftType, CheckType
        <4>2. token.text = d.check.about /\ d.check.state # "Idle"
          BY <2>1, <3>1 DEF CheckInv, Accepts
        <4>3. \A t \in tokens' : t.id = id => t.seq <= c.seq
          BY <1>1, <2>1, <4>1 DEF CheckInv
        <4>4. ~\E t \in tokens' : Accepts(c, t)
          BY <4>1 DEF Accepts, Verdicts
        <4> HIDE DEF c, d, n, id
        <4>5. QED  BY <2>1, <2>2, <4>1, <4>2, <4>3, <4>4 DEF CheckInv
      <3>2. CASE ~Accepts(d.check, token)
        <4>1. c = d.check  BY <3>2 DEF Complete
        <4> HIDE DEF c, d, n, id
        <4>2. QED  BY <1>1, <2>1, <2>2, <4>1 DEF CheckInv
      <3>3. QED  BY <3>1, <3>2
    <2>4. Update(id, n)  BY <1>2 DEF CompleteCheck
    <2> HIDE DEF n
    <2>5. \A t \in tokens' : t.id < nextId  BY <1>1 DEF CInv
    <2>6. QED  BY <1>1, <1>2, <2>3, <2>4, <2>5, UpdateCheck
  <1>3. CASE token.id \notin DOMAIN drafts
    <2>1. UNCHANGED drafts  BY <1>3 DEF CompleteCheck
    <2>2. QED  BY <1>1, <2>1 DEF CInv, CheckInv
  <1>4. QED  BY <1>2, <1>3

\* apply_canonical, over all the drafts or over the ones a submit leaves.
LEMMA ApplyCheck ==
  ASSUME IInv, CInv, NEW S \in SUBSET DOMAIN drafts, NEW entity \in Entities(accepts),
         Apply([id \in S |-> drafts[id]], entity)
  PROVE  CInv'
  <1> DEFINE r(id) == RebaseDraft(drafts[id].draft, entity, version + 1)
             n(id) == IF drafts[id].rebases THEN [drafts[id] EXCEPT !.draft = r(id)]
                      ELSE drafts[id]
  <1>1. drafts' = [id \in S |-> n(id)]  BY DEF Apply, Rebased
  <1>2. nextId' = nextId /\ tokens' = tokens  BY DEF Apply
  <1>3. /\ tokens \in SUBSET TokenType /\ version + 1 \in Nat
        /\ entity \in [Fields -> Values]
    BY CanonicalType DEF IInv, TypeOK
  <1>4. \A id \in S : /\ drafts[id] \in EntryType /\ drafts[id].draft \in DraftType
                      /\ CheckInv(drafts[id].draft, id, tokens)
    BY DEF IInv, TypeOK, EntryType, CInv
  <1>5. \A id \in S : CheckInv(r(id), id, tokens)
    BY <1>3, <1>4, RebasedCheck
  <1> HIDE DEF r
  <1>6. \A id \in S : n(id).draft \in {r(id), drafts[id].draft}
    BY <1>4 DEF EntryType
  <1>7. \A id \in S : CheckInv(n(id).draft, id, tokens)
    BY <1>4, <1>5, <1>6
  <1> HIDE DEF n
  <1>8. QED  BY <1>1, <1>2, <1>7 DEF CInv

\* delete_canonical, close, stash and the death of the process.
LEMMA OtherCheck ==
  ASSUME IInv, CInv,
         \/ DeleteCanonical
         \/ \E id \in DOMAIN drafts : Close(id) \/ SaveStash(id)
         \/ \E id \in 0..nextId : SubmitRefused(id)
         \/ ProcessDeath
         \/ UNCHANGED vars
  PROVE  CInv'
  <1>1. CASE DeleteCanonical
    <2>1. /\ nextId' = nextId /\ tokens' = tokens
          /\ DOMAIN drafts' = DOMAIN drafts
          /\ \A id \in DOMAIN drafts :
               drafts'[id].draft \in {drafts[id].draft, Orphan(drafts[id].draft)}
      BY <1>1 DEF DeleteCanonical
    <2>2. \A id \in DOMAIN drafts :
            /\ Orphan(drafts[id].draft).fields = drafts[id].draft.fields
            /\ Orphan(drafts[id].draft).check = drafts[id].draft.check
      BY DEF Orphan, IInv, TypeOK, EntryType, DraftType
    <2>3. \A id \in DOMAIN drafts : /\ CheckInv(drafts[id].draft, id, tokens)
                                    /\ CheckInv(Orphan(drafts[id].draft), id, tokens)
      BY <2>2 DEF CInv, CheckInv
    <2>4. QED  BY <2>1, <2>3 DEF CInv
  <1>2. CASE \E id \in DOMAIN drafts : Close(id)
    BY <1>2 DEF Close, Without, CInv
  <1>3. CASE \E id \in DOMAIN drafts : SaveStash(id)
    BY <1>3 DEF SaveStash, CInv
  <1>4. CASE UNCHANGED vars \/ \E id \in 0..nextId : SubmitRefused(id)
    BY <1>4 DEF SubmitRefused, vars, CInv
  <1>5. CASE ProcessDeath
    BY <1>5 DEF ProcessDeath, Empty, CInv
  <1>6. QED  BY <1>1, <1>2, <1>3, <1>4, <1>5

\* CInv holds from the start and is preserved by every step.
LEMMA CheckNext == IInv /\ CInv /\ [Next]_vars => CInv'
  <1> SUFFICES ASSUME IInv, CInv, [Next]_vars PROVE CInv'  OBVIOUS
  <1>1. TypeOK  BY DEF IInv
  <1>2. CASE Checkout
    <2> DEFINE d == IF canonical = NoValue THEN CreateFlow(version)
                    ELSE FromCanonical(canonical, version)
    <2>1. d \in DraftType  BY <1>1, CheckoutDraft
    <2>2. d.check = NewCheck  BY DEF CreateFlow, FromCanonical
    <2>3. Adopt(d)  BY <1>2 DEF Checkout
    <2> HIDE DEF d
    <2>4. QED  BY <2>1, <2>2, <2>3, AdoptCheck
  <1>3. CASE Restore
    <2>1. stash \in StashType  BY <1>1, <1>3 DEF Restore, TypeOK
    <2>2. FromStash(accepts, stash) \in DraftType  BY <1>1, <2>1, RestoredDraft
    <2>3. FromStash(accepts, stash).check = NewCheck  BY DEF FromStash
    <2>4. QED  BY <1>3, <2>2, <2>3, AdoptCheck DEF Restore
  <1>4. ASSUME NEW id \in DOMAIN drafts, UserStep(id) PROVE CInv'
    <2>1. CASE \/ \E f \in Fields, r \in Raws : SetRaw(id, f, r)
               \/ \E f \in Fields : ResolveKeepMine(id, f) \/ ResolveTakeTheirs(id, f)
      BY <2>1, EditFieldCheck DEF SetRaw, ResolveKeepMine, ResolveTakeTheirs
    <2>2. CASE BeginCheck(id)  BY <2>2, BeginCheckCheck
    <2>3. CASE Submit(id)
      <3>1. EntityOf(drafts[id].draft) \in Entities(accepts)
        BY <1>1, <2>3, CommitsAnEntity DEF Submit, IInv
      <3>2. Apply([i \in DOMAIN drafts \ {id} |-> drafts[i]], EntityOf(drafts[id].draft))
        BY <2>3 DEF Submit, Without
      <3>3. QED  BY <3>1, <3>2, ApplyCheck
    <2>4. CASE Close(id) \/ SaveStash(id)  BY <2>4, OtherCheck
    <2>5. QED  BY <1>4, <2>1, <2>2, <2>3, <2>4 DEF UserStep
  <1>5. CASE \E token \in tokens, verdict \in Verdicts : CompleteCheck(token, verdict)
    BY <1>5, CompleteCheckCheck
  <1>6. CASE \E entity \in Entities(accepts) : ApplyCanonical(entity)
    <2>1. drafts = [id \in DOMAIN drafts |-> drafts[id]]  BY <1>1 DEF TypeOK
    <2>2. QED  BY <1>6, <2>1, ApplyCheck DEF ApplyCanonical
  <1>7. CASE \/ DeleteCanonical \/ ProcessDeath \/ UNCHANGED vars
             \/ \E id \in 0..nextId : SubmitRefused(id)
    BY <1>7, OtherCheck
  <1>8. QED
    BY <1>2, <1>3, <1>4, <1>5, <1>6, <1>7 DEF Next

\* CInv is an invariant.
LEMMA CheckInvariant == Spec => []CInv
  <1>1. Init => CInv  BY DEF Init, CInv, Empty
  <1>2. QED  BY <1>1, Invariant, CheckNext, PTL DEF Spec

-----------------------------------------------------------------------------
(* The theorems *)

\* Whatever the check says of a field that holds a value, it says of that very
\* value, however late or out of order its answer came (C10, C13).
THEOREM VerdictAlwaysValueBound == Spec => []VerdictIsValueBound
  <1>1. CInv => VerdictIsValueBound
    BY DEF CInv, CheckInv, VerdictIsValueBound
  <1>2. QED  BY <1>1, CheckInvariant, PTL

\* What a submit makes of canonical.
LEMMA CommitMerges ==
  ASSUME IInv, NEW id \in DOMAIN drafts, Submit(id), IsBased(drafts[id].draft)
  PROVE  /\ canonical # NoValue
         /\ \A f \in Fields :
              LET x == drafts[id].draft.fields[f]
              IN  canonical'[f] = IF IsDirty(x) THEN FieldValue(x) ELSE canonical[f]
  <1> DEFINE d == drafts[id].draft
  <1>1. /\ d.status = "Live" /\ Conflicts(d) = {}
        /\ \A f \in Fields : d.fields[f].validity = "Valid"
    BY DEF Submit, CommitOk, IsValid
  <1>2. EntryInv(accepts, drafts[id], canonical, version)
    BY DEF IInv
  <1>3. drafts[id].rebases
    BY <1>1, <1>2 DEF EntryInv, IsBased
  <1>4. canonical # NoValue /\ \A f \in Fields : Tracks(d.fields[f], canonical[f])
    BY <1>1, <1>2, <1>3 DEF EntryInv
  <1>5. \A f \in Fields : d.fields[f].base = canonical[f]
    BY <1>1, <1>4 DEF Tracks, Conflicts
  <1>6. \A f \in Fields : canonical'[f] = d.fields[f].raw
    BY DEF Submit, Apply, EntityOf
  <1>7. QED  BY <1>1, <1>4, <1>5, <1>6 DEF IsDirty, FieldValue

\* What a submit commits to the checked field.
LEMMA CommitVerifies ==
  ASSUME IInv, CInv, NEW id \in DOMAIN drafts, Submit(id)
  PROVE  \/ canonical # NoValue /\ canonical'[Checked] = canonical[Checked]
         \/ LET c == drafts[id].draft.check
            IN  c.state = "Pass" /\ c.about = canonical'[Checked]
  <1> DEFINE d == drafts[id].draft
             x == d.fields[Checked]
  <1>1. canonical'[Checked] = x.raw
    BY DEF Submit, Apply, EntityOf
  <1>2. /\ d.status = "Live" /\ Conflicts(d) = {} /\ x.validity = "Valid"
        /\ ~Blocks(d.check, IsDirty(x))
    BY DEF Submit, CommitOk, IsValid
  <1>3. /\ EntryInv(accepts, drafts[id], canonical, version) /\ accepts \in SUBSET Values
    BY DEF IInv, TypeOK
  <1>4. d \in DraftType /\ x \in FieldType /\ Admitted(accepts, x)
    BY <1>3 DEF EntryInv, EntryType, DraftType
  <1>5. d.check.state \in {"Pass"} \/ (d.check.state = "Idle" /\ ~IsDirty(x))
    BY <1>2, <1>4 DEF Blocks, DraftType, CheckType, Verdicts
  <1>6. x.raw # NoValue
    BY <1>2, <1>3, <1>4, NoValueIsNoValue DEF Admitted
  <1>7. CASE d.check.state = "Pass"
    <2>1. d.check.about = x.raw
      BY <1>2, <1>6, <1>7 DEF CInv, CheckInv, FieldValue
    <2>2. QED  BY <1>1, <1>7, <2>1
  <1>8. CASE ~IsDirty(x)
    <2>1. x.base = x.raw  BY <1>2, <1>8 DEF IsDirty
    <2>2. ~IsConflicted(x)  BY <1>2 DEF Conflicts
    <2>3. drafts[id].rebases
      BY <1>2, <1>3, <1>6, <2>1 DEF EntryInv
    <2>4. canonical # NoValue /\ Tracks(x, canonical[Checked])
      BY <1>2, <1>3, <2>3 DEF EntryInv
    <2>5. QED  BY <1>1, <2>1, <2>2, <2>4 DEF Tracks
  <1>9. QED  BY <1>5, <1>7, <1>8

\* A submit only commits a checked value that was canonical already or that a
\* checker passed while the draft held it (C16).
THEOREM CommitsOnlyVerified == Spec => CommittedValueIsVerified
  <1>1. IInv /\ CInv /\ [Next]_vars =>
          [\A id \in DOMAIN drafts :
             Submit(id) =>
               \/ canonical # NoValue /\ canonical'[Checked] = canonical[Checked]
               \/ LET c == drafts[id].draft.check
                  IN  c.state = "Pass" /\ c.about = canonical'[Checked]]_vars
    BY CommitVerifies
  <1>2. QED
    BY <1>1, Invariant, CheckInvariant, PTL DEF Spec, CommittedValueIsVerified
=============================================================================
