---------------------------- MODULE Merge_proofs ----------------------------
(***************************************************************************)
(* What canonical changes do to drafts and drafts to canonical, for every  *)
(* value of the constants: the action properties of Store.                 *)
(***************************************************************************)
EXTENDS StoreSessions, Store_proofs

USE FieldAssumption, DraftAssumption, StoreAssumption

\* A submit merges exactly the dirty fields into the entity as it is now, not
\* as it was at checkout (C03, C07).
THEOREM CommitAlwaysMerges == Spec => CommitIsMerge
  <1>1. IInv /\ [Next]_vars =>
          [\A id \in DOMAIN drafts :
             Submit(id) /\ IsBased(drafts[id].draft) =>
               /\ canonical # NoValue
               /\ \A f \in Fields :
                    LET x == drafts[id].draft.fields[f]
                    IN  canonical'[f] = IF IsDirty(x) THEN FieldValue(x)
                                        ELSE canonical[f]]_vars
    BY CommitMerges
  <1>2. QED  BY <1>1, Invariant, PTL DEF Spec, CommitIsMerge

-----------------------------------------------------------------------------
(* Canonical steps, draft by draft *)

\* What a canonical change makes of entry e.
CanonicalMoves(e, n, entity) ==
  \/ n = e /\ ~e.rebases
  \/ /\ e.rebases /\ entity # NoValue
     /\ entity \in Entities(accepts)
     /\ n = [e EXCEPT !.draft = RebaseDraft(e.draft, entity, version + 1)]
  \/ /\ e.rebases /\ entity = NoValue
     /\ n = [draft |-> Orphan(e.draft), rebases |-> FALSE]

\* A canonical change is a rebase or an orphaning of every registered draft.
LEMMA CanonicalStepMoves ==
  ASSUME IInv, CanonicalStep
  PROVE  \A id \in DOMAIN drafts \cap DOMAIN drafts' :
           CanonicalMoves(drafts[id], drafts'[id], canonical')
  <1>1. TypeOK /\ accepts \in AcceptSets  BY DEF IInv, TypeOK
  <1>2. ASSUME NEW S \in SUBSET DOMAIN drafts, NEW entity \in Entities(accepts),
               Apply([id \in S |-> drafts[id]], entity),
               NEW id \in DOMAIN drafts'
        PROVE  CanonicalMoves(drafts[id], drafts'[id], canonical')
    <2>1. entity # NoValue  BY <1>1, NoValueIsNoEntity
    <2>2. id \in S /\ canonical' = entity
      BY <1>2 DEF Apply, Rebased
    <2>3. drafts'[id] = IF drafts[id].rebases
                        THEN [drafts[id] EXCEPT !.draft =
                                RebaseDraft(drafts[id].draft, entity, version + 1)]
                        ELSE drafts[id]
      BY <1>2, <2>2 DEF Apply, Rebased
    <2>4. QED  BY <2>1, <2>2, <2>3 DEF CanonicalMoves
  <1>3. CASE \E entity \in Entities(accepts) : ApplyCanonical(entity)
    <2>1. drafts = [id \in DOMAIN drafts |-> drafts[id]]  BY <1>1 DEF TypeOK
    <2>2. QED  BY <1>2, <1>3, <2>1 DEF ApplyCanonical
  <1>4. CASE DeleteCanonical
    BY <1>4 DEF DeleteCanonical, CanonicalMoves
  <1>5. ASSUME NEW id \in DOMAIN drafts, Submit(id)
        PROVE  \A i \in DOMAIN drafts \cap DOMAIN drafts' :
                 CanonicalMoves(drafts[i], drafts'[i], canonical')
    <2>1. EntityOf(drafts[id].draft) \in Entities(accepts)
      BY <1>1, <1>5, CommitsAnEntity DEF Submit, IInv
    <2>2. Apply([i \in DOMAIN drafts \ {id} |-> drafts[i]], EntityOf(drafts[id].draft))
      BY <1>5 DEF Submit, Without
    <2>3. QED  BY <1>2, <2>1, <2>2
  <1>6. QED  BY <1>3, <1>4, <1>5 DEF CanonicalStep

\* No canonical change ever replaces a dirty edit (C03, C04, C19).
THEOREM DirtyEditsAlwaysSurvive == Spec => DirtyEditsSurvive
  <1>1. ASSUME IInv, CanonicalStep, NEW id \in DOMAIN drafts \cap DOMAIN drafts',
               NEW f \in Fields,
               IsDirty(drafts[id].draft.fields[f]), drafts[id].rebases, Live(id),
               canonical' # NoValue
        PROVE  LET x == drafts[id].draft.fields[f]
                   y == drafts'[id].draft.fields[f]
               IN  /\ y.raw = x.raw /\ y.validity = x.validity
                   /\ IsConflicted(y) \/ canonical'[f] \in {FieldValue(x), x.base}
    <2> DEFINE e == drafts[id]
               t == canonical'
    <2>1. e \in EntryType /\ e.draft \in DraftType /\ accepts \in AcceptSets
          /\ version + 1 \in Nat
      BY <1>1 DEF IInv, TypeOK, EntryType
    <2>2. /\ t \in Entities(accepts)
          /\ drafts'[id] = [e EXCEPT !.draft = RebaseDraft(e.draft, t, version + 1)]
      BY <1>1, CanonicalStepMoves DEF CanonicalMoves
    <2>3. t \in [Fields -> Values] /\ t[f] \in Values
      BY <2>1, <2>2, CanonicalType
    <2>4. RebaseDraft(e.draft, t, version + 1).fields[f] = Rebase(e.draft.fields[f], t[f])
      <3>1. e.draft.status = "Live"  BY <1>1 DEF Live
      <3>2. RebaseDraft(e.draft, t, version + 1).fields =
              [g \in Fields |-> Rebase(e.draft.fields[g], t[g])]
        BY <2>1, <2>3, <3>1, RebaseDraftType
      <3>3. QED  BY <3>2
    <2>5. drafts'[id].draft = RebaseDraft(e.draft, t, version + 1)
      BY <2>1, <2>2 DEF EntryType
    <2>6. e.draft.fields[f] \in FieldType  BY <2>1 DEF DraftType
    <2>7. QED  BY <1>1, <2>3, <2>4, <2>5, <2>6, RebaseKeepsDirtyEdit
  <1>2. IInv /\ [Next]_vars =>
          [CanonicalStep =>
             \A id \in DOMAIN drafts \cap DOMAIN drafts', f \in Fields :
               LET x == drafts[id].draft.fields[f]
                   y == drafts'[id].draft.fields[f]
               IN  IsDirty(x) /\ drafts[id].rebases /\ Live(id) /\ canonical' # NoValue =>
                     /\ y.raw = x.raw /\ y.validity = x.validity
                     /\ IsConflicted(y) \/ canonical'[f] \in {FieldValue(x), x.base}]_vars
    BY <1>1
  <1>3. QED  BY <1>2, Invariant, PTL DEF Spec, DirtyEditsSurvive

\* No canonical change moves a draft that has no ancestor (C12).
THEOREM CreateFlowStaysPut == Spec => CreateFlowNeverMoves
  <1>1. ASSUME IInv, CanonicalStep, NEW id \in DOMAIN drafts \cap DOMAIN drafts',
               ~IsBased(drafts[id].draft)
        PROVE  drafts'[id] = drafts[id]
    BY <1>1, CanonicalStepMoves DEF CanonicalMoves, IInv, EntryInv
  <1>2. IInv /\ [Next]_vars =>
          [CanonicalStep =>
             \A id \in DOMAIN drafts \cap DOMAIN drafts' :
               ~IsBased(drafts[id].draft) => drafts'[id] = drafts[id]]_vars
    BY <1>1
  <1>3. QED  BY <1>2, Invariant, PTL DEF Spec, CreateFlowNeverMoves

-----------------------------------------------------------------------------
(* Orphans *)

\* What the shell can do to an open draft keeps its status and its stamp.
LEMMA UpdateKeepsStamp ==
  ASSUME IInv, NEW id \in DOMAIN drafts, NEW d, Update(id, d),
         d.status = drafts[id].draft.status,
         d.baseVersion = drafts[id].draft.baseVersion
  PROVE  \A i \in DOMAIN drafts :
           /\ drafts'[i].draft.status = drafts[i].draft.status
           /\ drafts'[i].draft.baseVersion = drafts[i].draft.baseVersion
  <1> DEFINE e == [drafts[id] EXCEPT !.draft = d]
  <1>1. drafts' = [drafts EXCEPT ![id] = e]  BY DEF Update
  <1>2. drafts[id] \in EntryType  BY DEF IInv, TypeOK
  <1>3. e.draft = d  BY <1>2 DEF EntryType
  <1> HIDE DEF e
  <1>4. \A i \in DOMAIN drafts : drafts'[i] = IF i = id THEN e ELSE drafts[i]
    BY <1>1 DEF IInv, TypeOK
  <1>5. QED  BY <1>3, <1>4

\* Edits, resolutions and the check keep every status and every stamp.
LEMMA DraftStepKeepsStamp ==
  ASSUME IInv,
         \/ \E id \in DOMAIN drafts, f \in Fields, r \in Raws : SetRaw(id, f, r)
         \/ \E id \in DOMAIN drafts, f \in Fields :
              ResolveKeepMine(id, f) \/ ResolveTakeTheirs(id, f)
         \/ \E id \in DOMAIN drafts : BeginCheck(id)
         \/ \E token \in tokens, verdict \in Verdicts : CompleteCheck(token, verdict)
  PROVE  \A i \in DOMAIN drafts :
           /\ drafts'[i].draft.status = drafts[i].draft.status
           /\ drafts'[i].draft.baseVersion = drafts[i].draft.baseVersion
  <1>1. /\ accepts \in SUBSET Values
        /\ \A id \in DOMAIN drafts : drafts[id] \in EntryType /\ drafts[id].draft \in DraftType
    BY DEF IInv, TypeOK, EntryType
  <1>2. ASSUME NEW id \in DOMAIN drafts, NEW f \in Fields, NEW y \in FieldType,
               EditField(id, f, y)
        PROVE  \A i \in DOMAIN drafts :
                 /\ drafts'[i].draft.status = drafts[i].draft.status
                 /\ drafts'[i].draft.baseVersion = drafts[i].draft.baseVersion
    <2> DEFINE d == drafts[id].draft
               g == Guarded(d, [d.fields EXCEPT ![f] = y])
    <2>1. [d.fields EXCEPT ![f] = y] \in [Fields -> FieldType]
      BY <1>1, <1>2 DEF DraftType
    <2>2. g.status = d.status /\ g.baseVersion = d.baseVersion
      BY <1>1, <2>1, GuardedType
    <2>3. Update(id, g)  BY <1>2 DEF EditField, SetField
    <2> HIDE DEF g
    <2>4. QED  BY <2>2, <2>3, UpdateKeepsStamp
  <1>3. ASSUME NEW id \in DOMAIN drafts, NEW f \in Fields
        PROVE  /\ \A r \in Raws : TrySet(accepts, drafts[id].draft.fields[f], r) \in FieldType
               /\ KeepMine(drafts[id].draft.fields[f]) \in FieldType
               /\ TakeTheirs(drafts[id].draft.fields[f]) \in FieldType
    <2>1. drafts[id].draft.fields[f] \in FieldType  BY <1>1 DEF DraftType
    <2>2. QED  BY <1>1, <2>1, TrySetType, ResolveType
  <1>4. CASE \/ \E id \in DOMAIN drafts, f \in Fields, r \in Raws : SetRaw(id, f, r)
             \/ \E id \in DOMAIN drafts, f \in Fields :
                  ResolveKeepMine(id, f) \/ ResolveTakeTheirs(id, f)
    BY <1>2, <1>3, <1>4 DEF SetRaw, ResolveKeepMine, ResolveTakeTheirs
  <1>5. ASSUME NEW id \in DOMAIN drafts, NEW c,
               Update(id, [drafts[id].draft EXCEPT !.check = c])
        PROVE  \A i \in DOMAIN drafts :
                 /\ drafts'[i].draft.status = drafts[i].draft.status
                 /\ drafts'[i].draft.baseVersion = drafts[i].draft.baseVersion
    <2> DEFINE n == [drafts[id].draft EXCEPT !.check = c]
    <2>1. /\ n.status = drafts[id].draft.status
          /\ n.baseVersion = drafts[id].draft.baseVersion
      BY <1>1 DEF DraftType
    <2>2. Update(id, n)  BY <1>5
    <2> HIDE DEF n
    <2>3. QED  BY <2>1, <2>2, UpdateKeepsStamp
  <1>6. CASE \E id \in DOMAIN drafts : BeginCheck(id)
    BY <1>5, <1>6 DEF BeginCheck
  <1>7. CASE \E token \in tokens, verdict \in Verdicts : CompleteCheck(token, verdict)
    BY <1>5, <1>7 DEF CompleteCheck
  <1>8. QED  BY <1>4, <1>6, <1>7

\* Nothing brings an orphan back, and nothing canonical touches it (C11, C15).
THEOREM OrphanStaysTerminal == Spec => OrphanIsTerminal
  <1> DEFINE Stamp(id) == /\ drafts'[id].draft.status = "Orphaned"
                          /\ drafts'[id].draft.baseVersion = drafts[id].draft.baseVersion
  <1>1. ASSUME IInv, CanonicalStep, NEW id \in DOMAIN drafts \cap DOMAIN drafts', ~Live(id)
        PROVE  drafts'[id].draft = drafts[id].draft
    <2> DEFINE e == drafts[id]
    <2>1. /\ e \in EntryType /\ e.draft \in DraftType /\ e.draft.status = "Orphaned"
          /\ version + 1 \in Nat
      BY <1>1 DEF IInv, TypeOK, EntryType, DraftType, Live
    <2>2. \A entity : RebaseDraft(e.draft, entity, version + 1) = e.draft
      BY <2>1 DEF RebaseDraft
    <2>3. Orphan(e.draft) = e.draft  BY <2>1 DEF Orphan, DraftType
    <2>4. CanonicalMoves(e, drafts'[id], canonical')  BY <1>1, CanonicalStepMoves
    <2>5. QED  BY <2>1, <2>2, <2>3, <2>4 DEF CanonicalMoves, EntryType
  <1>2. ASSUME IInv, [Next]_vars, NEW id \in DOMAIN drafts \cap DOMAIN drafts', ~Live(id)
        PROVE  Stamp(id)
    <2>1. drafts[id].draft.status = "Orphaned"
      BY <1>2 DEF IInv, TypeOK, EntryType, DraftType, Live
    <2>2. CASE CanonicalStep  BY <1>1, <1>2, <2>1, <2>2
    <2>3. CASE Checkout \/ Restore
      <3>1. id # nextId  BY <1>2 DEF IInv, TypeOK
      <3>2. drafts'[id] = drafts[id]
        BY <1>2, <2>3, <3>1 DEF Checkout, Restore, Adopt, Put
      <3>3. QED  BY <2>1, <3>2
    <2>4. CASE \/ \E i \in DOMAIN drafts, f \in Fields, r \in Raws : SetRaw(i, f, r)
               \/ \E i \in DOMAIN drafts, f \in Fields :
                    ResolveKeepMine(i, f) \/ ResolveTakeTheirs(i, f)
               \/ \E i \in DOMAIN drafts : BeginCheck(i)
               \/ \E token \in tokens, verdict \in Verdicts : CompleteCheck(token, verdict)
      <3>1. /\ drafts'[id].draft.status = drafts[id].draft.status
            /\ drafts'[id].draft.baseVersion = drafts[id].draft.baseVersion
        BY <1>2, <2>4, DraftStepKeepsStamp
      <3>2. QED  BY <2>1, <3>1
    <2>5. CASE \/ \E i \in DOMAIN drafts : Close(i) \/ SaveStash(i)
               \/ \E i \in 0..nextId : SubmitRefused(i)
               \/ UNCHANGED vars
      <3>1. CASE \E i \in DOMAIN drafts : Close(i)
        BY <1>2, <2>1, <3>1 DEF Close, Without
      <3>2. CASE \E i \in DOMAIN drafts : SaveStash(i)
        BY <2>1, <3>2 DEF SaveStash
      <3>3. CASE UNCHANGED vars \/ \E i \in 0..nextId : SubmitRefused(i)
        BY <2>1, <3>3 DEF SubmitRefused, vars
      <3>4. QED  BY <2>5, <3>1, <3>2, <3>3
    <2>6. CASE ProcessDeath
      BY <1>2, <2>6 DEF ProcessDeath, Empty
    <2>7. QED
      BY <1>2, <2>2, <2>3, <2>4, <2>5, <2>6 DEF Next, UserStep, CanonicalStep
  <1>3. IInv /\ [Next]_vars =>
          [\A id \in DOMAIN drafts \cap DOMAIN drafts' :
             LET d == drafts[id].draft
                 e == drafts'[id].draft
             IN  ~Live(id) =>
                   /\ e.status = "Orphaned"
                   /\ e.baseVersion = d.baseVersion
                   /\ CanonicalStep => e = d]_vars
    BY <1>1, <1>2
  <1>4. QED  BY <1>3, Invariant, PTL DEF Spec, OrphanIsTerminal

-----------------------------------------------------------------------------
(* Stashes *)

\* Every field of every draft can be brought back from its stash.
RInv ==
  \A id \in DOMAIN drafts, f \in Fields :
    Recoverable(accepts, drafts[id].draft.fields[f])

\* All the fields of one draft.
AllRecover(d) == \A f \in Fields : Recoverable(accepts, d.fields[f])

\* A rebased draft, an orphan as well.
LEMMA RebasedRecovers ==
  ASSUME TypeOK, NEW d \in DraftType, AllRecover(d), NEW entity \in Entities(accepts),
         NEW v \in Nat
  PROVE  AllRecover(RebaseDraft(d, entity, v))
  <1>1. entity \in [Fields -> Values] /\ \A f \in Fields : entity[f] \in accepts
        /\ accepts \in SUBSET Values
    BY CanonicalType DEF TypeOK
  <1>2. CASE d.status = "Orphaned"  BY <1>2 DEF RebaseDraft
  <1>3. CASE d.status = "Live"
    <2>1. RebaseDraft(d, entity, v).fields = [f \in Fields |-> Rebase(d.fields[f], entity[f])]
      BY <1>1, <1>3, RebaseDraftType
    <2>2. \A f \in Fields : Recoverable(accepts, Rebase(d.fields[f], entity[f]))
      BY <1>1, RebaseRecovers DEF AllRecover, DraftType
    <2>3. QED  BY <2>1, <2>2 DEF AllRecover
  <1>4. QED  BY <1>2, <1>3 DEF DraftType

\* adopt, of a draft that was recoverable.
LEMMA AdoptRecovers ==
  ASSUME IInv, RInv, NEW d \in DraftType, AllRecover(d), Adopt(d)
  PROVE  RInv'
  <1> DEFINE e == AdoptedEntry(d)
  <1>1. TypeOK /\ accepts' = accepts  BY DEF IInv, Adopt
  <1>2. drafts' = [i \in DOMAIN drafts \cup {nextId} |->
                     IF i = nextId THEN e ELSE drafts[i]]
    BY DEF Adopt, Put
  <1>3. AllRecover(e.draft)
    <2>1. CASE IsBased(d) /\ canonical # NoValue
      <3>1. canonical \in Entities(accepts) /\ version \in Nat
        BY <1>1, <2>1 DEF TypeOK
      <3>2. e.draft = RebaseDraft(d, canonical, version)
        BY <2>1 DEF AdoptedEntry
      <3>3. QED  BY <1>1, <3>1, <3>2, RebasedRecovers
    <2>2. CASE ~(IsBased(d) /\ canonical # NoValue)
      <3>1. e.draft \in {d, Orphan(d)}  BY <2>2 DEF AdoptedEntry
      <3>2. Orphan(d).fields = d.fields  BY DEF Orphan, DraftType
      <3>3. QED  BY <3>1, <3>2 DEF AllRecover
    <2>3. QED  BY <2>1, <2>2
  <1> HIDE DEF e
  <1>4. QED  BY <1>1, <1>2, <1>3 DEF RInv, AllRecover

\* A step that replaces one draft.
LEMMA UpdateRecovers ==
  ASSUME IInv, RInv, NEW id \in DOMAIN drafts, NEW d, Update(id, d), AllRecover(d),
         UNCHANGED accepts
  PROVE  RInv'
  <1> DEFINE e == [drafts[id] EXCEPT !.draft = d]
  <1>1. drafts' = [drafts EXCEPT ![id] = e]  BY DEF Update
  <1>2. drafts[id] \in EntryType  BY DEF IInv, TypeOK
  <1>3. e.draft = d  BY <1>2 DEF EntryType
  <1> HIDE DEF e
  <1>4. /\ DOMAIN drafts' = DOMAIN drafts
        /\ \A i \in DOMAIN drafts : drafts'[i] = IF i = id THEN e ELSE drafts[i]
    BY <1>1 DEF IInv, TypeOK
  <1>5. QED  BY <1>3, <1>4 DEF RInv, AllRecover

\* Every setter and resolver.
LEMMA EditFieldRecovers ==
  ASSUME IInv, RInv, NEW id \in DOMAIN drafts, NEW f \in Fields, NEW y, EditField(id, f, y),
         LET x == drafts[id].draft.fields[f]
         IN  \/ \E r \in Raws : y = TrySet(accepts, x, r)
             \/ y \in {KeepMine(x), TakeTheirs(x)}
  PROVE  RInv'
  <1> DEFINE d == drafts[id].draft
             fields == [d.fields EXCEPT ![f] = y]
  <1>1. /\ d \in DraftType /\ accepts \in SUBSET Values
        /\ \A g \in Fields : Admitted(accepts, d.fields[g]) /\ Recoverable(accepts, d.fields[g])
    BY DEF IInv, TypeOK, EntryInv, EntryType, RInv
  <1>2. d.fields[f] \in FieldType  BY <1>1 DEF DraftType
  <1>3. y \in FieldType  BY <1>1, <1>2, TrySetType, ResolveType
  <1>4. Recoverable(accepts, y)  BY <1>1, <1>2, EditRecovers
  <1>5. fields \in [Fields -> FieldType]  BY <1>1, <1>3 DEF DraftType
  <1>6. \A g \in Fields : Recoverable(accepts, fields[g])
    BY <1>1, <1>4 DEF DraftType
  <1>7. Update(id, Guarded(d, fields)) /\ accepts' = accepts
    BY DEF EditField, SetField
  <1> HIDE DEF d, fields
  <1>8. Guarded(d, fields).fields = fields  BY <1>1, <1>5, GuardedType
  <1>9. AllRecover(Guarded(d, fields))  BY <1>6, <1>8 DEF AllRecover
  <1>10. QED  BY <1>7, <1>9, UpdateRecovers

\* The check is not about what the fields hold.
LEMMA CheckRecovers ==
  ASSUME IInv, RInv, NEW id \in DOMAIN drafts, NEW c,
         Update(id, [drafts[id].draft EXCEPT !.check = c]), UNCHANGED accepts
  PROVE  RInv'
  <1> DEFINE n == [drafts[id].draft EXCEPT !.check = c]
  <1>1. drafts[id].draft \in DraftType  BY DEF IInv, TypeOK, EntryType
  <1>2. n.fields = drafts[id].draft.fields  BY <1>1 DEF DraftType
  <1>3. Update(id, n)  OBVIOUS
  <1> HIDE DEF n
  <1>4. AllRecover(n)  BY <1>2 DEF AllRecover, RInv
  <1>5. QED  BY <1>3, <1>4, UpdateRecovers

\* apply_canonical, over all the drafts or over the ones a submit leaves.
LEMMA ApplyRecovers ==
  ASSUME IInv, RInv, NEW S \in SUBSET DOMAIN drafts, NEW entity \in Entities(accepts),
         Apply([id \in S |-> drafts[id]], entity)
  PROVE  RInv'
  <1> DEFINE r(id) == RebaseDraft(drafts[id].draft, entity, version + 1)
             n(id) == IF drafts[id].rebases THEN [drafts[id] EXCEPT !.draft = r(id)]
                      ELSE drafts[id]
  <1>1. drafts' = [id \in S |-> n(id)] /\ accepts' = accepts  BY DEF Apply, Rebased
  <1>2. TypeOK /\ version + 1 \in Nat  BY DEF IInv, TypeOK
  <1>3. \A id \in S : /\ drafts[id] \in EntryType /\ drafts[id].draft \in DraftType
                      /\ AllRecover(drafts[id].draft)
    BY DEF IInv, TypeOK, EntryType, RInv, AllRecover
  <1>4. \A id \in S : AllRecover(r(id))
    BY <1>2, <1>3, RebasedRecovers
  <1> HIDE DEF r
  <1>5. \A id \in S : n(id).draft \in {r(id), drafts[id].draft}
    BY <1>3 DEF EntryType
  <1>6. \A id \in S : AllRecover(n(id).draft)
    BY <1>3, <1>4, <1>5
  <1> HIDE DEF n
  <1>7. QED  BY <1>1, <1>6 DEF RInv, AllRecover

\* Every step keeps every draft recoverable.
LEMMA RecoverNext == IInv /\ RInv /\ [Next]_vars => RInv'
  <1> SUFFICES ASSUME IInv, RInv, [Next]_vars PROVE RInv'  OBVIOUS
  <1>1. TypeOK /\ accepts \in SUBSET Values  BY DEF IInv, TypeOK
  <1>2. CASE Checkout
    <2> DEFINE d == IF canonical = NoValue THEN CreateFlow(version)
                    ELSE FromCanonical(canonical, version)
    <2>1. d \in DraftType  BY <1>1, CheckoutDraft
    <2>2. \A f \in Fields : d.fields[f] = IF canonical = NoValue THEN NewUnset
                                          ELSE FromBase(canonical[f])
      BY DEF CreateFlow, FromCanonical
    <2>3. canonical # NoValue => \A f \in Fields : canonical[f] \in accepts
      BY <1>1, CanonicalType DEF TypeOK
    <2>4. AllRecover(d)
      BY <1>1, <2>2, <2>3, NewFieldsRecover DEF AllRecover
    <2>5. Adopt(d)  BY <1>2 DEF Checkout
    <2> HIDE DEF d
    <2>6. QED  BY <2>1, <2>4, <2>5, AdoptRecovers
  <1>3. CASE Restore
    <2> DEFINE d == FromStash(accepts, stash)
    <2>1. stash \in StashType  BY <1>1, <1>3 DEF Restore, TypeOK
    <2>2. d \in DraftType  BY <1>1, <2>1, RestoredDraft
    <2>3. \A f \in Fields : d.fields[f] = UnstashField(accepts, stash.fields[f])
      BY DEF FromStash
    <2>4. AllRecover(d)
      BY <1>1, <2>1, <2>3, UnstashRecovers DEF AllRecover, StashType
    <2>5. Adopt(d)  BY <1>3 DEF Restore
    <2> HIDE DEF d
    <2>6. QED  BY <2>2, <2>4, <2>5, AdoptRecovers
  <1>4. ASSUME NEW id \in DOMAIN drafts, UserStep(id) PROVE RInv'
    <2>1. CASE \/ \E f \in Fields, r \in Raws : SetRaw(id, f, r)
               \/ \E f \in Fields : ResolveKeepMine(id, f) \/ ResolveTakeTheirs(id, f)
      BY <2>1, EditFieldRecovers DEF SetRaw, ResolveKeepMine, ResolveTakeTheirs
    <2>2. CASE BeginCheck(id)
      BY <2>2, CheckRecovers DEF BeginCheck
    <2>3. CASE Submit(id)
      <3>1. EntityOf(drafts[id].draft) \in Entities(accepts)
        BY <1>1, <2>3, CommitsAnEntity DEF Submit, IInv
      <3>2. Apply([i \in DOMAIN drafts \ {id} |-> drafts[i]], EntityOf(drafts[id].draft))
        BY <2>3 DEF Submit, Without
      <3>3. QED  BY <3>1, <3>2, ApplyRecovers
    <2>4. CASE Close(id)  BY <2>4 DEF Close, Without, RInv
    <2>5. CASE SaveStash(id)  BY <2>5 DEF SaveStash, RInv
    <2>6. QED  BY <1>4, <2>1, <2>2, <2>3, <2>4, <2>5 DEF UserStep
  <1>5. ASSUME NEW token \in tokens, NEW verdict \in Verdicts, CompleteCheck(token, verdict)
        PROVE  RInv'
    <2>1. CASE token.id \in DOMAIN drafts
      BY <1>5, <2>1, CheckRecovers DEF CompleteCheck
    <2>2. CASE token.id \notin DOMAIN drafts
      BY <1>5, <2>2 DEF CompleteCheck, RInv
    <2>3. QED  BY <2>1, <2>2
  <1>6. CASE \E entity \in Entities(accepts) : ApplyCanonical(entity)
    <2>1. drafts = [id \in DOMAIN drafts |-> drafts[id]]  BY <1>1 DEF TypeOK
    <2>2. QED  BY <1>6, <2>1, ApplyRecovers DEF ApplyCanonical
  <1>7. CASE DeleteCanonical
    <2>1. \A id \in DOMAIN drafts : Orphan(drafts[id].draft).fields = drafts[id].draft.fields
      BY <1>1 DEF TypeOK, EntryType, Orphan, DraftType
    <2>2. /\ DOMAIN drafts' = DOMAIN drafts /\ accepts' = accepts
          /\ \A id \in DOMAIN drafts :
               drafts'[id].draft \in {drafts[id].draft, Orphan(drafts[id].draft)}
      BY <1>7 DEF DeleteCanonical
    <2>3. QED  BY <2>1, <2>2 DEF RInv
  <1>8. CASE ProcessDeath  BY <1>8 DEF ProcessDeath, Empty, RInv
  <1>9. CASE UNCHANGED vars \/ \E id \in 0..nextId : SubmitRefused(id)
    BY <1>9 DEF SubmitRefused, vars, RInv
  <1>10. QED
    BY <1>2, <1>3, <1>4, <1>5, <1>6, <1>7, <1>8, <1>9 DEF Next

\* RInv is an invariant.
LEMMA RecoverInvariant == Spec => []RInv
  <1>1. Init => RInv  BY DEF Init, RInv, Empty
  <1>2. QED  BY <1>1, Invariant, RecoverNext, PTL DEF Spec

\* A stash, a death of the process and a restore over the same canonical give
\* every field of a registered draft back, conflicts included, but for the
\* conflicts its edits have come to agree with (C20, C21).
THEOREM StashAlwaysLossless == Spec => []StashIsLossless
  <1>1. ASSUME IInv, RInv, NEW id \in DOMAIN drafts, drafts[id].rebases, Live(id),
               NEW f \in Fields
        PROVE  LET x == drafts[id].draft.fields[f]
               IN  \/ Revived(id).fields[f] = x
                   \/ /\ IsConflicted(x)
                      /\ FieldValue(x) \in {x.base, x.theirs}
                      /\ Revived(id).fields[f] = FromBase(x.theirs)
    <2> DEFINE d == drafts[id].draft
               s == Stash(d)
               b == FromStash(accepts, s)
    <2>1. /\ EntryInv(accepts, drafts[id], canonical, version) /\ TypeOK
          /\ accepts \in SUBSET Values
      BY <1>1 DEF IInv, TypeOK
    <2>2. /\ d \in DraftType /\ d.status = "Live" /\ canonical # NoValue
          /\ \A g \in Fields : /\ d.fields[g] \in FieldType
                               /\ Admitted(accepts, d.fields[g])
                               /\ Recoverable(accepts, d.fields[g])
                               /\ Tracks(d.fields[g], canonical[g])
      BY <1>1, <2>1 DEF EntryInv, EntryType, DraftType, Live, RInv
    <2>3. s \in StashType  BY <2>2, StashOfDraft
    <2>4. b \in DraftType  BY <2>1, <2>3, RestoredDraft
    <2>5. /\ b.status = "Live"
          /\ \A g \in Fields : b.fields[g] = UnstashField(accepts, StashField(d.fields[g]))
      BY <2>2 DEF FromStash, Stash
    <2>6. IsBased(b)
      <3>1. PICK g \in Fields : d.fields[g].base # NoValue
        BY <1>1, <2>1 DEF EntryInv, IsBased
      <3>2. b.fields[g] = [d.fields[g] EXCEPT !.theirs = NoValue]
        BY <2>1, <2>2, <2>5, UnstashOfStash
      <3>3. b.fields[g].base = d.fields[g].base
        BY <2>2, <3>2 DEF FieldType
      <3>4. QED  BY <3>1, <3>3 DEF IsBased
    <2>7. /\ canonical \in [Fields -> Values] /\ version \in Nat
          /\ \A g \in Fields : canonical[g] \in accepts
      BY <2>1, <2>2, CanonicalType DEF TypeOK
    <2>8. Revived(id) = RebaseDraft(b, canonical, version)
      BY <2>2, <2>6 DEF Revived, AdoptedEntry
    <2> HIDE DEF b, d
    <2>9. Revived(id).fields = [g \in Fields |-> Rebase(b.fields[g], canonical[g])]
      BY <2>4, <2>5, <2>7, <2>8, RebaseDraftType
    <2>10. Revived(id).fields[f] =
             Rebase(UnstashField(accepts, StashField(d.fields[f])), canonical[f])
      BY <2>5, <2>9
    <2>11. QED  BY <2>1, <2>2, <2>7, <2>10, StashRestores DEF d
  <1>2. IInv /\ RInv => StashIsLossless
    BY <1>1 DEF StashIsLossless
  <1>3. QED  BY <1>2, Invariant, RecoverInvariant, PTL

-----------------------------------------------------------------------------
(* The store implements edit sessions *)

\* A rebase of one field, as an edit over a canonical value that moves from c
\* to t.
LEMMA RebaseFollows ==
  ASSUME accepts \in SUBSET Values, NEW x \in FieldType, NEW c \in Values, NEW t \in Values,
         Recoverable(accepts, x), Tracks(x, c)
  PROVE  LET y == Rebase(x, t)
         IN  /\ \/ EditOf(y) = EditOf(x)
                \/ EditOf(y) = NoValue /\ EditOf(x) = t
             /\ IsConflicted(y) => /\ EditOf(y) # NoValue
                                   /\ IsConflicted(x) \/ t # c
             /\ ~IsConflicted(x) /\ t # c => IsConflicted(y) \/ EditOf(y) = NoValue
  <1> DEFINE y == Rebase(x, t)
  <1>1. t # NoValue /\ c # NoValue  BY NoValueIsNoValue
  <1>2. x.validity # "Unset" => x.raw # NoValue
    BY NoValueIsNoValue DEF Recoverable, FieldType
  <1>3. IsDirty(x) \/ IsConflicted(x) => x.raw # NoValue /\ EditOf(x) = x.raw
    BY <1>2 DEF Recoverable, IsDirty, IsConflicted, EditOf
  <1>4. CASE x.base = t
    <2>1. y = [x EXCEPT !.theirs = NoValue]  BY <1>4 DEF Rebase
    <2>2. /\ ~IsConflicted(y) /\ (IsDirty(y) <=> IsDirty(x)) /\ y.raw = x.raw
      BY <2>1 DEF IsConflicted, IsDirty, FieldType
    <2>3. CASE IsDirty(x)
      BY <1>4, <2>2, <2>3 DEF EditOf, Tracks
    <2>4. CASE ~IsDirty(x) /\ IsConflicted(x)
      <3>1. x.raw = t  BY <1>2, <1>3, <1>4, <2>4 DEF IsDirty, Recoverable, IsConflicted, FieldType
      <3>2. QED  BY <1>3, <2>2, <2>4, <3>1 DEF EditOf
    <2>5. CASE ~IsDirty(x) /\ ~IsConflicted(x)
      BY <2>2, <2>5 DEF EditOf
    <2>6. QED  BY <2>3, <2>4, <2>5
  <1>5. CASE x.base # t /\ ~IsConflicted(x) /\ (~IsDirty(x) \/ FieldValue(x) = t)
    <2>1. y = FromBase(t)  BY <1>5 DEF Rebase
    <2>2. ~IsDirty(y) /\ ~IsConflicted(y)
      BY <2>1 DEF FromBase, IsDirty, IsConflicted
    <2>3. EditOf(y) = NoValue  BY <2>2 DEF EditOf
    <2>4. EditOf(x) \in {NoValue, t}
      BY <1>1, <1>3, <1>5 DEF EditOf, FieldValue
    <2>5. QED  BY <2>2, <2>3, <2>4
  <1>6. CASE x.base # t /\ ~(~IsConflicted(x) /\ (~IsDirty(x) \/ FieldValue(x) = t))
    <2>1. y = [x EXCEPT !.theirs = t]  BY <1>6 DEF Rebase
    <2>2. IsConflicted(y) /\ y.raw = x.raw
      BY <1>1, <2>1 DEF IsConflicted, FieldType
    <2>3. EditOf(y) = x.raw /\ EditOf(x) = x.raw /\ x.raw # NoValue
      BY <1>3, <1>6, <2>2 DEF EditOf
    <2>4. ~IsConflicted(x) => t # c  BY <1>6 DEF Tracks
    <2>5. QED  BY <2>2, <2>3, <2>4
  <1>7. QED  BY <1>4, <1>5, <1>6

\* An edit or a resolution of one field starts no dispute.
LEMMA EditStartsNoDispute ==
  ASSUME NEW x \in FieldType
  PROVE  /\ \A r \in Raws : IsConflicted(TrySet(accepts, x, r)) => IsConflicted(x)
         /\ IsConflicted(KeepMine(x)) => IsConflicted(x)
         /\ IsConflicted(TakeTheirs(x)) => IsConflicted(x)
  BY DEF TrySet, KeepMine, TakeTheirs, FromBase, IsConflicted, FieldType

\* The session of a well-formed entry is well formed.
LEMMA SessionWellFormed ==
  ASSUME accepts \in SUBSET Values, NEW e, EntryInv(accepts, e, canonical, version),
         AllRecover(e.draft)
  PROVE  Sessions!WellFormed(SessionOf(e), canonical)
  <1> DEFINE s == SessionOf(e)
  <1>1. e \in EntryType /\ e.draft \in DraftType /\ e.draft.status \in {"Live", "Orphaned"}
    BY DEF EntryInv, EntryType, DraftType
  <1>2. \A f \in Fields : e.draft.fields[f] \in FieldType  BY <1>1 DEF DraftType
  <1>3. \A f \in Fields : IsConflicted(e.draft.fields[f]) =>
                            EditOf(e.draft.fields[f]) # NoValue
    <2>1. ASSUME NEW x \in FieldType, Recoverable(accepts, x), IsConflicted(x)
          PROVE  EditOf(x) # NoValue
      BY <2>1, NoValueIsNoValue DEF EditOf, Recoverable, IsConflicted, FieldType
    <2>2. QED  BY <1>2, <2>1 DEF AllRecover
  <1>4. /\ s.kind = KindOf(e)
        /\ s.edits = [f \in Fields |-> EditOf(e.draft.fields[f])]
        /\ s.contested = Conflicts(e.draft)
    BY DEF SessionOf
  <1>5. KindOf(e) \in {"based", "create", "orphan"}  BY DEF KindOf
  <1>6. \A f \in Fields : EditOf(e.draft.fields[f]) \in Raws \cup {NoValue}
    BY <1>2 DEF EditOf, FieldType, Option
  <1>7. Conflicts(e.draft) \subseteq Fields  BY DEF Conflicts
  <1>8. s \in Sessions!SessionType
    BY <1>5, <1>6, <1>7 DEF Sessions!SessionType, SessionOf
  <1>9. KindOf(e) = "based" => canonical # NoValue
    BY <1>1 DEF KindOf, EntryInv
  <1>10. KindOf(e) = "create" => Conflicts(e.draft) = {}
    BY <1>1 DEF KindOf, EntryInv, Conflicts
  <1>11. \A f \in s.contested : s.edits[f] # NoValue
    BY <1>3, <1>4 DEF Conflicts
  <1> HIDE DEF s
  <1>12. Sessions!WellFormed(s, canonical)
    BY <1>4, <1>8, <1>9, <1>10, <1>11 DEF Sessions!WellFormed
  <1>13. QED  BY <1>12 DEF s

\* The session of a registered draft follows the new entity.
LEMMA SessionFollows ==
  ASSUME TypeOK, NEW e, EntryInv(accepts, e, canonical, version), AllRecover(e.draft),
         KindOf(e) = "based", NEW entity \in Entities(accepts), NEW v \in Nat, NEW n,
         n = [e EXCEPT !.draft = RebaseDraft(e.draft, entity, v)]
  PROVE  Sessions!FollowsTo(SessionOf(e), SessionOf(n), entity)
  <1> DEFINE s == SessionOf(e)
             t == SessionOf(n)
  <1>1. /\ e \in EntryType /\ e.draft \in DraftType /\ e.rebases /\ e.draft.status = "Live"
        /\ accepts \in SUBSET Values
    BY DEF EntryInv, EntryType, DraftType, KindOf, TypeOK
  <1>2. /\ entity \in [Fields -> Values] /\ canonical # NoValue
        /\ \A f \in Fields : /\ e.draft.fields[f] \in FieldType
                             /\ Tracks(e.draft.fields[f], canonical[f])
                             /\ canonical[f] \in Values /\ entity[f] \in Values
    BY <1>1, CanonicalType DEF EntryInv, DraftType, TypeOK
  <1>3. /\ n.rebases = e.rebases
        /\ n.draft = RebaseDraft(e.draft, entity, v)
    BY <1>1 DEF EntryType
  <1>4. /\ n.draft.status = "Live"
        /\ n.draft.fields = [f \in Fields |-> Rebase(e.draft.fields[f], entity[f])]
    BY <1>1, <1>2, <1>3, RebaseDraftType
  <1>5. /\ s.kind = "based" /\ t.kind = "based"
    BY <1>1, <1>3, <1>4 DEF SessionOf, KindOf
  <1>6. \A f \in Fields :
          /\ s.edits[f] = EditOf(e.draft.fields[f])
          /\ t.edits[f] = EditOf(Rebase(e.draft.fields[f], entity[f]))
          /\ f \in s.contested <=> IsConflicted(e.draft.fields[f])
          /\ f \in t.contested <=> IsConflicted(Rebase(e.draft.fields[f], entity[f]))
    BY <1>4 DEF SessionOf, Conflicts
  <1>7. \A f \in Fields :
          LET x == e.draft.fields[f]
              y == Rebase(x, entity[f])
          IN  /\ \/ EditOf(y) = EditOf(x)
                 \/ EditOf(y) = NoValue /\ EditOf(x) = entity[f]
              /\ IsConflicted(y) => /\ EditOf(y) # NoValue
                                    /\ IsConflicted(x) \/ entity[f] # canonical[f]
              /\ ~IsConflicted(x) /\ entity[f] # canonical[f] =>
                   IsConflicted(y) \/ EditOf(y) = NoValue
    BY <1>1, <1>2, RebaseFollows DEF AllRecover
  <1> HIDE DEF s, t
  <1>8. Sessions!FollowsTo(s, t, entity)
    BY <1>5, <1>6, <1>7 DEF Sessions!FollowsTo
  <1>9. QED  BY <1>8 DEF s, t

\* Checking out and restoring a draft open a session.
LEMMA AdoptOpens ==
  ASSUME IInv, IInv', RInv', NEW d, Adopt(d)
  PROVE  Sessions!Open
  <1> DEFINE e == drafts'[nextId]
  <1>1. /\ nextId \notin DOMAIN drafts
        /\ DOMAIN drafts' = DOMAIN drafts \cup {nextId}
        /\ \A id \in DOMAIN drafts : drafts'[id] = drafts[id]
        /\ UNCHANGED <<canonical, version, accepts>>
    BY DEF IInv, TypeOK, Adopt, Put
  <1>2. /\ accepts \in SUBSET Values /\ EntryInv(accepts, e, canonical, version)
        /\ AllRecover(e.draft)
    BY <1>1 DEF IInv, TypeOK, RInv, AllRecover
  <1> HIDE DEF e
  <1>3. Sessions!WellFormed(SessionOf(e), canonical)
    BY <1>2, SessionWellFormed
  <1>4. QED  BY <1>1, <1>3 DEF Sessions!Open, Sessions!Keeps, e

\* A step that leaves every draft's fields, status and registration alone is
\* not seen by the user.
LEMMA FieldsUnseen ==
  ASSUME DOMAIN drafts' = DOMAIN drafts, UNCHANGED canonical,
         \A id \in DOMAIN drafts : SessionOf(drafts'[id]) = SessionOf(drafts[id])
  PROVE  UNCHANGED Sessions!svars
  BY DEF Sessions!svars

\* The session of a draft says nothing of its check, its ancestors or its stamp.
LEMMA SameSession ==
  ASSUME NEW e, NEW n, n.rebases = e.rebases, n.draft.status = e.draft.status,
         n.draft.fields = e.draft.fields
  PROVE  SessionOf(n) = SessionOf(e)
  BY DEF SessionOf, KindOf, Conflicts

\* The check is not part of a session.
LEMMA CheckUnseen ==
  ASSUME IInv, NEW id \in DOMAIN drafts, NEW c,
         Update(id, [drafts[id].draft EXCEPT !.check = c]), UNCHANGED canonical
  PROVE  UNCHANGED Sessions!svars
  <1> DEFINE d == [drafts[id].draft EXCEPT !.check = c]
             n == [drafts[id] EXCEPT !.draft = d]
  <1>1. drafts[id] \in EntryType /\ drafts[id].draft \in DraftType
    BY DEF IInv, TypeOK, EntryType
  <1>2. d.fields = drafts[id].draft.fields /\ d.status = drafts[id].draft.status
    BY <1>1 DEF DraftType
  <1>3. drafts' = [drafts EXCEPT ![id] = n]  BY DEF Update
  <1> HIDE DEF d
  <1>4. n.draft = d /\ n.rebases = drafts[id].rebases  BY <1>1 DEF EntryType
  <1> HIDE DEF n
  <1>5. SessionOf(n) = SessionOf(drafts[id])  BY <1>2, <1>4, SameSession
  <1>6. /\ DOMAIN drafts' = DOMAIN drafts
        /\ \A i \in DOMAIN drafts : drafts'[i] = IF i = id THEN n ELSE drafts[i]
    BY <1>3 DEF IInv, TypeOK
  <1>7. \A i \in DOMAIN drafts : SessionOf(drafts'[i]) = SessionOf(drafts[i])
    BY <1>5, <1>6
  <1>8. QED  BY <1>6, <1>7, FieldsUnseen

\* A setter or a resolver is an edit of one field.
LEMMA EditFieldEdits ==
  ASSUME IInv, NEW id \in DOMAIN drafts, NEW f \in Fields, NEW y, EditField(id, f, y),
         LET x == drafts[id].draft.fields[f]
         IN  \/ \E r \in Raws : y = TrySet(accepts, x, r)
             \/ y \in {KeepMine(x), TakeTheirs(x)}
  PROVE  Sessions!Edit
  <1> DEFINE d == drafts[id].draft
             fields == [d.fields EXCEPT ![f] = y]
             g == Guarded(d, fields)
             n == [drafts[id] EXCEPT !.draft = g]
  <1>1. /\ drafts[id] \in EntryType /\ d \in DraftType /\ accepts \in SUBSET Values
    BY DEF IInv, TypeOK, EntryType
  <1>2. d.fields[f] \in FieldType  BY <1>1 DEF DraftType
  <1>3. y \in FieldType  BY <1>1, <1>2, TrySetType, ResolveType
  <1>4. IsConflicted(y) => IsConflicted(d.fields[f])
    BY <1>2, EditStartsNoDispute
  <1>5. fields \in [Fields -> FieldType]  BY <1>1, <1>3 DEF DraftType
  <1>6. /\ fields[f] = y
        /\ \A h \in Fields \ {f} : fields[h] = d.fields[h]
    BY <1>1 DEF DraftType
  <1>7. drafts' = [drafts EXCEPT ![id] = n] /\ UNCHANGED canonical
    BY DEF EditField, SetField, Update
  <1> HIDE DEF fields
  <1>8. g.fields = fields /\ g.status = d.status
    BY <1>1, <1>5, GuardedType
  <1> HIDE DEF g
  <1>9. n.draft = g /\ n.rebases = drafts[id].rebases  BY <1>1 DEF EntryType
  <1> HIDE DEF n
  <1>10. /\ DOMAIN drafts' = DOMAIN drafts /\ drafts'[id] = n
         /\ \A i \in DOMAIN drafts \ {id} : drafts'[i] = drafts[i]
    BY <1>7 DEF IInv, TypeOK
  <1>11. SessionOf(n).kind = SessionOf(drafts[id]).kind
    BY <1>8, <1>9 DEF SessionOf, KindOf
  <1>12. \A h \in Fields \ {f} : SessionOf(n).edits[h] = SessionOf(drafts[id]).edits[h]
    BY <1>6, <1>8, <1>9 DEF SessionOf
  <1>13. /\ SessionOf(drafts[id]).contested \ {f} \subseteq SessionOf(n).contested
         /\ SessionOf(n).contested \subseteq SessionOf(drafts[id]).contested
    BY <1>4, <1>6, <1>8, <1>9 DEF SessionOf, Conflicts
  <1>14. QED
    BY <1>7, <1>10, <1>11, <1>12, <1>13 DEF Sessions!Edit, Sessions!Keeps

\* A new entity, for the drafts in S: each one's session follows it.
LEMMA ApplyFollows ==
  ASSUME IInv, RInv, NEW S \in SUBSET DOMAIN drafts, NEW entity \in Entities(accepts),
         Apply([id \in S |-> drafts[id]], entity)
  PROVE  Sessions!AllFollow(S, entity) /\ entity # NoValue /\ canonical' = entity
  <1> DEFINE r(id) == [drafts[id] EXCEPT !.draft =
                         RebaseDraft(drafts[id].draft, entity, version + 1)]
  <1>1. /\ TypeOK /\ version + 1 \in Nat /\ entity # NoValue
        /\ entity \in [Fields -> Values]
    BY NoValueIsNoEntity, CanonicalType DEF IInv, TypeOK
  <1>2. /\ DOMAIN drafts' = S /\ canonical' = entity
        /\ \A id \in S : drafts'[id] = IF drafts[id].rebases THEN r(id) ELSE drafts[id]
    BY DEF Apply, Rebased
  <1>3. \A id \in S : /\ EntryInv(accepts, drafts[id], canonical, version)
                      /\ drafts[id] \in EntryType /\ drafts[id].draft \in DraftType
                      /\ AllRecover(drafts[id].draft)
    BY DEF IInv, EntryInv, EntryType, RInv, AllRecover
  <1>4. ASSUME NEW id \in S, KindOf(drafts[id]) = "based"
        PROVE  Sessions!FollowsTo(SessionOf(drafts[id]), SessionOf(drafts'[id]), entity)
    <2>1. drafts[id].rebases  BY <1>4 DEF KindOf
    <2>2. drafts'[id] = r(id)  BY <1>2, <2>1
    <2>3. QED  BY <1>1, <1>3, <1>4, <2>2, SessionFollows
  <1>5. ASSUME NEW id \in S, KindOf(drafts[id]) # "based"
        PROVE  drafts'[id] = drafts[id]
    <2>1. CASE ~drafts[id].rebases  BY <1>2, <2>1
    <2>2. CASE drafts[id].rebases
      <3>1. drafts[id].draft.status = "Orphaned"  BY <1>5, <2>2 DEF KindOf
      <3>2. RebaseDraft(drafts[id].draft, entity, version + 1) = drafts[id].draft
        BY <3>1 DEF RebaseDraft
      <3>3. drafts'[id] = [drafts[id] EXCEPT !.draft = drafts[id].draft]
        BY <1>2, <2>2, <3>2
      <3>4. QED  BY <1>3, <3>3 DEF EntryType
    <2>3. QED  BY <2>1, <2>2
  <1>6. \A id \in DOMAIN drafts : SessionOf(drafts[id]).kind = KindOf(drafts[id])
    BY DEF SessionOf
  <1> HIDE DEF r
  <1>7. \A id \in S :
          IF SessionOf(drafts[id]).kind = "based"
          THEN Sessions!FollowsTo(SessionOf(drafts[id]), SessionOf(drafts'[id]), entity)
          ELSE SessionOf(drafts'[id]) = SessionOf(drafts[id])
    BY <1>4, <1>5, <1>6
  <1>8. QED  BY <1>1, <1>2, <1>7 DEF Sessions!AllFollow

\* A deletion orphans the based sessions and keeps their edits and disputes.
LEMMA DeleteOrphans ==
  ASSUME IInv, DeleteCanonical
  PROVE  Sessions!CanonicalDeleted
  <1> DEFINE o(id) == [draft |-> Orphan(drafts[id].draft), rebases |-> FALSE]
  <1>1. /\ DOMAIN drafts' = DOMAIN drafts /\ canonical' = NoValue
        /\ \A id \in DOMAIN drafts :
             drafts'[id] = IF drafts[id].rebases THEN o(id) ELSE drafts[id]
    BY DEF DeleteCanonical
  <1>2. ASSUME NEW id \in DOMAIN drafts
        PROVE  SessionOf(drafts'[id]) = IF SessionOf(drafts[id]).kind = "based"
                                        THEN [SessionOf(drafts[id]) EXCEPT !.kind = "orphan"]
                                        ELSE SessionOf(drafts[id])
    <2> DEFINE e == drafts[id]
               n == drafts'[id]
    <2>1. e \in EntryType /\ e.draft \in DraftType /\ e.draft.status \in {"Live", "Orphaned"}
      BY DEF IInv, TypeOK, EntryType, DraftType
    <2>2. SessionOf(e).kind = KindOf(e)  BY DEF SessionOf
    <2>3. CASE ~e.rebases
      BY <1>1, <2>2, <2>3 DEF KindOf
    <2>4. CASE e.rebases
      <3>1. n = o(id)  BY <1>1, <2>4
      <3>2. n.draft.status = "Orphaned" /\ n.draft.fields = e.draft.fields
        BY <2>1, <3>1 DEF Orphan, DraftType
      <3> HIDE DEF e, n, o
      <3>3. SessionOf(n) = [kind |-> "orphan",
                            edits |-> [f \in Fields |-> EditOf(e.draft.fields[f])],
                            contested |-> Conflicts(e.draft)]
        BY <3>2 DEF SessionOf, KindOf, Conflicts
      <3>4. SessionOf(e) = [kind |-> KindOf(e),
                            edits |-> [f \in Fields |-> EditOf(e.draft.fields[f])],
                            contested |-> Conflicts(e.draft)]
        BY DEF SessionOf
      <3>5. KindOf(e) \in {"orphan", "based"}  BY <2>4 DEF KindOf
      <3>6. SessionOf(n) = IF SessionOf(e).kind = "based"
                           THEN [SessionOf(e) EXCEPT !.kind = "orphan"]
                           ELSE SessionOf(e)
        BY <3>3, <3>4, <3>5
      <3>7. QED  BY <3>6 DEF e, n
    <2>5. QED  BY <2>3, <2>4
  <1> HIDE DEF o
  <1>3. QED  BY <1>1, <1>2 DEF Sessions!CanonicalDeleted

\* A submit merges the edits of an undisputed session into the live entity.
LEMMA SubmitMerges ==
  ASSUME IInv, RInv, NEW id \in DOMAIN drafts, Submit(id)
  PROVE  Sessions!Submit
  <1> DEFINE e == drafts[id]
             d == e.draft
             s == SessionOf(e)
             entity == EntityOf(d)
  <1>1. /\ TypeOK /\ EntryInv(accepts, e, canonical, version)
        /\ d \in DraftType /\ accepts \in SUBSET Values
    BY DEF IInv, TypeOK, EntryInv, EntryType
  <1>2. /\ d.status = "Live" /\ Conflicts(d) = {}
        /\ \A f \in Fields : d.fields[f].validity = "Valid" /\ d.fields[f] \in FieldType
    BY <1>1 DEF Submit, CommitOk, IsValid, DraftType
  <1>3. entity \in Entities(accepts)
    BY <1>1, CommitsAnEntity DEF Submit
  <1>4. Apply([i \in DOMAIN drafts \ {id} |-> drafts[i]], entity)
    BY DEF Submit, Without
  <1>5. /\ entity \in [Fields -> Values]
        /\ \A f \in Fields : entity[f] = d.fields[f].raw /\ entity[f] # NoValue
    <2>1. accepts \in AcceptSets  BY <1>1 DEF TypeOK
    <2>2. \A f \in Fields : entity[f] = d.fields[f].raw  BY DEF EntityOf
    <2> HIDE DEF entity
    <2>3. entity \in [Fields -> Values]  BY <1>3, <2>1, CanonicalType
    <2>4. QED  BY <2>2, <2>3, NoValueIsNoValue
  <1> HIDE DEF entity
  <1>6. /\ Sessions!AllFollow(DOMAIN drafts \ {id}, entity)
        /\ entity # NoValue /\ canonical' = entity
    BY <1>3, <1>4, ApplyFollows
  <1>7. \A f \in Fields : s.edits[f] = IF IsDirty(d.fields[f]) THEN entity[f] ELSE NoValue
    BY <1>2, <1>5 DEF SessionOf, EditOf, Conflicts
  <1>8. s.kind # "orphan" /\ s.contested = {}
    BY <1>2 DEF SessionOf, KindOf
  <1>9. s.kind = "create" => \A f \in Fields : IsDirty(d.fields[f])
    <2>1. s.kind = "create" => ~e.rebases  BY DEF SessionOf, KindOf
    <2>2. ~e.rebases => \A f \in Fields : d.fields[f].base = NoValue
      BY <1>1, <1>2 DEF EntryInv
    <2>3. QED  BY <1>2, <1>5, <2>1, <2>2 DEF IsDirty
  <1>10. ASSUME NEW f \in Fields, ~IsDirty(d.fields[f])
         PROVE  entity[f] = canonical[f]
    <2>1. s.kind # "create"  BY <1>9, <1>10
    <2>2. e.rebases  BY <1>2, <2>1 DEF SessionOf, KindOf
    <2>3. Tracks(d.fields[f], canonical[f])  BY <1>1, <1>2, <2>2 DEF EntryInv
    <2>4. d.fields[f].base = canonical[f]  BY <1>2, <2>3 DEF Tracks, Conflicts
    <2>5. QED  BY <1>2, <1>5, <1>10, <2>4 DEF IsDirty
  <1>11. \A f \in Fields : /\ s.edits[f] \in Values \cup {NoValue}
                           /\ entity[f] = IF s.edits[f] # NoValue THEN s.edits[f]
                                          ELSE canonical[f]
    BY <1>5, <1>7, <1>10
  <1>12. s.kind = "create" => \A f \in Fields : s.edits[f] # NoValue
    BY <1>5, <1>7, <1>9
  <1> HIDE DEF s
  <1>13. QED
    BY <1>6, <1>8, <1>11, <1>12 DEF Sessions!Submit, s, e

\* A step of the store is a step of the edit sessions, or none they can tell.
LEMMA StepImplements ==
  ASSUME IInv, RInv, IInv', RInv', [Next]_vars
  PROVE  [Sessions!SNext]_(Sessions!svars)
  <1>1. CASE Checkout \/ Restore
    BY <1>1, AdoptOpens DEF Checkout, Restore, Sessions!SNext
  <1>2. ASSUME NEW id \in DOMAIN drafts, UserStep(id)
        PROVE  Sessions!SNext \/ UNCHANGED Sessions!svars
    <2>1. CASE \/ \E f \in Fields, r \in Raws : SetRaw(id, f, r)
               \/ \E f \in Fields : ResolveKeepMine(id, f) \/ ResolveTakeTheirs(id, f)
      <3>1. Sessions!Edit
        BY <2>1, EditFieldEdits DEF SetRaw, ResolveKeepMine, ResolveTakeTheirs
      <3>2. QED  BY <3>1 DEF Sessions!SNext
    <2>2. CASE BeginCheck(id)  BY <2>2, CheckUnseen DEF BeginCheck
    <2>3. CASE Submit(id)  BY <2>3, SubmitMerges DEF Sessions!SNext
    <2>4. CASE Close(id)
      <3>1. /\ DOMAIN drafts' = DOMAIN drafts \ {id} /\ UNCHANGED canonical
            /\ \A i \in DOMAIN drafts \ {id} : drafts'[i] = drafts[i]
        BY <2>4 DEF Close, Without
      <3>2. Sessions!Close  BY <3>1 DEF Sessions!Close, Sessions!Keeps
      <3>3. QED  BY <3>2 DEF Sessions!SNext
    <2>5. CASE SaveStash(id)  BY <2>5 DEF SaveStash, Sessions!svars
    <2>6. QED  BY <1>2, <2>1, <2>2, <2>3, <2>4, <2>5 DEF UserStep
  <1>3. ASSUME NEW token \in tokens, NEW verdict \in Verdicts, CompleteCheck(token, verdict)
        PROVE  UNCHANGED Sessions!svars
    <2>1. CASE token.id \in DOMAIN drafts
      BY <1>3, <2>1, CheckUnseen DEF CompleteCheck
    <2>2. CASE token.id \notin DOMAIN drafts
      BY <1>3, <2>2 DEF CompleteCheck, Sessions!svars
    <2>3. QED  BY <2>1, <2>2
  <1>4. ASSUME NEW entity \in Entities(accepts), ApplyCanonical(entity)
        PROVE  Sessions!SNext
    <2>1. Apply([id \in DOMAIN drafts |-> drafts[id]], entity)
      BY <1>4 DEF ApplyCanonical, IInv, TypeOK
    <2>2. Sessions!AllFollow(DOMAIN drafts, entity) /\ entity # NoValue /\ canonical' = entity
      BY <2>1, ApplyFollows
    <2>3. Sessions!CanonicalChanges  BY <2>2 DEF Sessions!CanonicalChanges
    <2>4. QED  BY <2>3 DEF Sessions!SNext
  <1>5. CASE DeleteCanonical  BY <1>5, DeleteOrphans DEF Sessions!SNext
  <1>6. CASE ProcessDeath
    <2>1. DOMAIN drafts' = {}  BY <1>6 DEF ProcessDeath, Empty
    <2>2. Sessions!Restart  BY <2>1 DEF Sessions!Restart
    <2>3. QED  BY <2>2 DEF Sessions!SNext
  <1>7. CASE UNCHANGED vars \/ \E id \in 0..nextId : SubmitRefused(id)
    BY <1>7 DEF SubmitRefused, vars, Sessions!svars
  <1>8. QED
    BY <1>1, <1>2, <1>3, <1>4, <1>5, <1>6, <1>7 DEF Next

\* Whatever the store does to versions, ancestors, stamps and registrations,
\* a user sees edit sessions over the live canonical (C02, C03, C04, C07, C11,
\* C12, C19, C21).
THEOREM StoreImplementsSessions == Spec => ImplementsEditSessions
  <1>1. Init => Sessions!SInit  BY DEF Init, Empty, Sessions!SInit
  <1>2. IInv /\ RInv /\ IInv' /\ RInv' /\ [Next]_vars =>
          [Sessions!SNext]_(Sessions!svars)
    BY StepImplements
  <1>3. QED
    BY <1>1, <1>2, Invariant, RecoverInvariant, PTL
       DEF Spec, ImplementsEditSessions, Sessions!SSpec
=============================================================================
