-------------------------- MODULE Collection_proofs --------------------------
(***************************************************************************)
(* For any ids, titles and timestamps: a row draft follows its own row and *)
(* no other, an edit that lands changes what its user has seen, and what a *)
(* window reads is a sorted list of the matching rows that its pages tile. *)
(*                                                                         *)
(* DraftsFollowTheirRow is not inductive alone: a draft that creates a row *)
(* must have no conflict (or keeping mine would give it an ancestor), and  *)
(* what a draft holds must be titles (or its submit would not commit one). *)
(***************************************************************************)
EXTENDS Inbox, Field_proofs, FiniteSetTheorems, SequenceTheorems

USE FieldAssumption, CollectionAssumption

\* What is true of one registry entry over the canonical rows R.
EntryInv(d, R) ==
  /\ d \in RowDraft
  /\ Admitted(Titles, d.title)
  /\ d.rebases <=> (IsBased(d) /\ d.status = "Live")
  /\ ~IsBased(d) => ~IsConflicted(d.title)
  /\ d.rebases => d.id \in DOMAIN R /\ Tracks(d.title, R[d.id].title)

RowsInv(R) == DOMAIN R \subseteq Ids /\ R \in [DOMAIN R -> Row]

IInv ==
  /\ CollectionTypeOK
  /\ \A n \in DOMAIN drafts : EntryInv(drafts[n], rows)

\* A row's title is a value.
LEMMA RowTitle ==
  ASSUME RowsInv(rows), NEW id \in DOMAIN rows
  PROVE  rows[id].title \in Titles /\ rows[id].title \in Values /\ rows[id].updatedAt \in Stamps
  BY DEF RowsInv, Row

\* An entry that does not follow row id is indifferent to what becomes of it.
LEMMA OtherRow ==
  ASSUME NEW d, NEW R, NEW S, NEW id, EntryInv(d, R), ~Moves(d, id),
         DOMAIN R \ {id} \subseteq DOMAIN S, \A i \in DOMAIN R \ {id} : S[i] = R[i]
  PROVE  EntryInv(d, S)
  BY DEF EntryInv, Moves, RowDraft

\* A rebase onto a row keeps the entry's invariant over any rows that hold it.
LEMMA RebasedEntry ==
  ASSUME NEW d \in RowDraft, Admitted(Titles, d.title), d.status = "Live", IsBased(d),
         d.rebases, NEW R, d.id \in DOMAIN R, NEW row \in Row, R[d.id] = row, NEW v \in Nat
  PROVE  EntryInv(RebaseRow(d, row, v), R)
  <1> DEFINE x == Rebase(d.title, row.title)
             e == [id |-> d.id, title |-> x, updatedAt |-> row.updatedAt,
                   status |-> "Live", baseVersion |-> v, rebases |-> TRUE]
  <1>1. row.title \in Titles /\ row.title \in Values /\ row.updatedAt \in Stamps
    BY DEF Row
  <1>2. d.title \in FieldType /\ d.title.base # NoValue  BY DEF RowDraft, IsBased
  <1>3. x \in FieldType  BY <1>1, <1>2, RebaseType
  <1>4. Admitted(Titles, x)  BY <1>1, <1>2, RebaseAdmits
  <1>5. Tracks(x, row.title)  BY <1>1, <1>2, RebaseTracks
  <1>6. x.base # NoValue  BY <1>1, <1>2, AncestorStays
  <1>7. RebaseRow(d, row, v) = e  BY DEF RebaseRow, RowDraft
  <1>8. EntryInv(e, R)
    <2> HIDE DEF x
    <2>1. e \in RowDraft  BY <1>1, <1>3 DEF RowDraft
    <2>2. QED  BY <2>1, <1>4, <1>5, <1>6 DEF EntryInv, IsBased
  <1>9. QED  BY <1>7, <1>8

\* An upsert keeps the invariant of every entry of the registry reg.
LEMMA UpsertedEntries ==
  ASSUME RowsInv(rows), version \in Nat, NEW id \in Ids, NEW row \in Row, Insert(id, row),
         NEW reg, \A n \in DOMAIN reg : EntryInv(reg[n], rows)
  PROVE  /\ RowsInv(rows')
         /\ \A n \in DOMAIN reg : EntryInv(Upserted(reg, id, row)[n], rows')
  <1>1. /\ DOMAIN rows' = DOMAIN rows \cup {id} /\ rows'[id] = row
        /\ \A i \in DOMAIN rows \ {id} : rows'[i] = rows[i]
    BY DEF Insert
  <1>2. RowsInv(rows')  BY DEF Insert, RowsInv
  <1>3. ASSUME NEW n \in DOMAIN reg
        PROVE  EntryInv(Upserted(reg, id, row)[n], rows')
    <2> DEFINE d == reg[n]
    <2>1. EntryInv(d, rows)  OBVIOUS
    <2>2. CASE ~Moves(d, id)
      <3>1. Upserted(reg, id, row)[n] = d  BY <2>2 DEF Upserted
      <3>2. QED  BY <1>1, <2>1, <2>2, <3>1, OtherRow
    <2>3. CASE Moves(d, id)
      <3>1. d \in RowDraft /\ Admitted(Titles, d.title) /\ d.status = "Live" /\ IsBased(d)
              /\ d.id = id /\ d.rebases
        BY <2>1, <2>3 DEF EntryInv, Moves
      <3>2. EntryInv(RebaseRow(d, row, version + 1), rows')
        BY <1>1, <3>1, RebasedEntry
      <3>3. Upserted(reg, id, row)[n] = RebaseRow(d, row, version + 1)
        BY <2>3 DEF Upserted
      <3>4. QED  BY <3>2, <3>3
    <2>4. QED  BY <2>2, <2>3
  <1>4. QED  BY <1>2, <1>3

\* A delete keeps it too: what followed the row is orphaned.
LEMMA DeletedEntries ==
  ASSUME RowsInv(rows), NEW id \in Ids, rows' = [i \in DOMAIN rows \ {id} |-> rows[i]],
         NEW reg, \A n \in DOMAIN reg : EntryInv(reg[n], rows)
  PROVE  /\ RowsInv(rows')
         /\ \A n \in DOMAIN reg : EntryInv(Deleted(reg, id)[n], rows')
  <1>1. RowsInv(rows')  BY DEF RowsInv
  <1>2. ASSUME NEW n \in DOMAIN reg
        PROVE  EntryInv(Deleted(reg, id)[n], rows')
    <2> DEFINE d == reg[n]
    <2>1. EntryInv(d, rows)  OBVIOUS
    <2>2. CASE ~Moves(d, id)
      <3>1. Deleted(reg, id)[n] = d  BY <2>2 DEF Deleted
      <3>2. QED  BY <2>1, <2>2, <3>1, OtherRow
    <2>3. CASE Moves(d, id)
      <3>1. d \in RowDraft /\ Admitted(Titles, d.title) /\ IsBased(d)
        BY <2>1, <2>3 DEF EntryInv, Moves
      <3>2. EntryInv(OrphanRow(d), rows')
        BY <3>1 DEF EntryInv, OrphanRow, RowDraft, IsBased
      <3>3. Deleted(reg, id)[n] = OrphanRow(d)  BY <2>3 DEF Deleted
      <3>4. QED  BY <3>2, <3>3
    <2>4. QED  BY <2>2, <2>3
  <1>3. QED  BY <1>1, <1>2

\* An edit of the title keeps an entry's invariant.
LEMMA EditedEntry ==
  ASSUME NEW d, RowsInv(rows), EntryInv(d, rows),
         NEW x \in {KeepMine(d.title), TakeTheirs(d.title)}
                     \cup {TrySet(Titles, d.title, raw) : raw \in Raws}
  PROVE  EntryInv([d EXCEPT !.title = x], rows)
  <1> DEFINE e == [d EXCEPT !.title = x]
  <1>1. d \in RowDraft /\ d.title \in FieldType /\ Titles \in SUBSET Values
    BY DEF EntryInv, RowDraft
  <1>2. x \in FieldType  BY <1>1, TrySetType, ResolveType
  <1>3. Admitted(Titles, x)  BY <1>1, EditAdmits DEF EntryInv
  <1>4. e \in RowDraft /\ e.title = x /\ e.id = d.id /\ e.status = d.status
          /\ e.rebases = d.rebases
    BY <1>1, <1>2 DEF RowDraft
  <1>5. ASSUME IsBased(d) PROVE EntryInv(e, rows)
    <2>1. x.base # NoValue  BY <1>1, <1>5, AncestorStays DEF IsBased
    <2>2. d.rebases => Tracks(x, rows[d.id].title)
      <3> HAVE d.rebases
      <3>1. d.id \in DOMAIN rows /\ Tracks(d.title, rows[d.id].title)  BY DEF EntryInv
      <3>2. rows[d.id].title \in Values  BY <3>1, RowTitle
      <3>3. QED  BY <1>1, <3>1, <3>2, EditTracks
    <2> HIDE DEF e
    <2>3. QED  BY <1>3, <1>4, <1>5, <2>1, <2>2 DEF EntryInv, IsBased
  <1>6. ASSUME ~IsBased(d) PROVE EntryInv(e, rows)
    <2>1. d.title.base = NoValue /\ ~IsConflicted(d.title) /\ ~d.rebases
      BY <1>6 DEF EntryInv, IsBased
    <2>2. x.base = NoValue /\ ~IsConflicted(x)
      BY <1>1, <2>1, EditStaysCreateFlow
    <2> HIDE DEF e
    <2>3. QED  BY <1>3, <1>4, <2>1, <2>2 DEF EntryInv, IsBased
  <1>7. QED  BY <1>5, <1>6

-----------------------------------------------------------------------------
(* Every step keeps the invariant *)

\* What the type invariant says of rows and windows.
WindowsInv ==
  /\ nextWindowId \in Nat /\ DOMAIN windows \subseteq Nat
  /\ \A w \in DOMAIN windows : w < nextWindowId
  /\ windows \in [DOMAIN windows -> [query : Query, range : Ranges]]

\* The invariant, put together from its parts.
LEMMA Assembled ==
  ASSUME RowsInv(rows), version \in Nat, nextDraftId \in Nat, DOMAIN drafts \subseteq Nat,
         \A n \in DOMAIN drafts : n < nextDraftId,
         drafts = [n \in DOMAIN drafts |-> drafts[n]],
         \A n \in DOMAIN drafts : EntryInv(drafts[n], rows), WindowsInv
  PROVE  IInv
  BY DEF IInv, CollectionTypeOK, EntryInv, RowsInv, WindowsInv

\* And the parts of the invariant.
LEMMA Parts ==
  ASSUME IInv
  PROVE  /\ RowsInv(rows) /\ version \in Nat /\ nextDraftId \in Nat
         /\ DOMAIN drafts \subseteq Nat /\ \A n \in DOMAIN drafts : n < nextDraftId
         /\ drafts = [n \in DOMAIN drafts |-> drafts[n]]
         /\ \A n \in DOMAIN drafts : EntryInv(drafts[n], rows)
         /\ WindowsInv
  BY DEF IInv, CollectionTypeOK, RowsInv, WindowsInv

\* Whatever leaves the store with other rows and a registry that satisfies the
\* entries' invariant, under ids it has issued.
LEMMA NewRegistry ==
  ASSUME IInv, RowsInv(rows'), version' \in Nat, nextDraftId' = nextDraftId,
         UNCHANGED windowVars,
         DOMAIN drafts' \subseteq DOMAIN drafts,
         drafts' = [n \in DOMAIN drafts' |-> drafts'[n]],
         \A n \in DOMAIN drafts' : EntryInv(drafts'[n], rows')
  PROVE  IInv'
  BY DEF IInv, CollectionTypeOK, RowsInv, windowVars, EntryInv

\* An upsert keeps the invariant.
LEMMA UpsertInv ==
  ASSUME IInv, NEW id \in Ids, NEW row \in Row, Upsert(id, row)
  PROVE  IInv'
  <1>1. RowsInv(rows') /\ \A n \in DOMAIN drafts : EntryInv(Upserted(drafts, id, row)[n], rows')
    BY Parts, UpsertedEntries DEF Upsert
  <1>2. DOMAIN drafts' = DOMAIN drafts /\ drafts' = [n \in DOMAIN drafts' |-> drafts'[n]]
    BY DEF Upsert, Upserted
  <1>3. version' \in Nat  BY Parts DEF Upsert
  <1>4. QED  BY <1>1, <1>2, <1>3, NewRegistry DEF Upsert

\* A delete keeps the invariant.
LEMMA DeleteInv ==
  ASSUME IInv, NEW id \in Ids, Delete(id)
  PROVE  IInv'
  <1>1. RowsInv(rows') /\ \A n \in DOMAIN drafts : EntryInv(Deleted(drafts, id)[n], rows')
    BY Parts, DeletedEntries DEF Delete
  <1>2. DOMAIN drafts' = DOMAIN drafts /\ drafts' = [n \in DOMAIN drafts' |-> drafts'[n]]
    BY DEF Delete, Deleted
  <1>3. version' \in Nat  BY Parts DEF Delete, DeletionVersion
  <1>4. QED  BY <1>1, <1>2, <1>3, NewRegistry DEF Delete

\* What a draft that may commit would make of its row.
LEMMA CommittedRow ==
  ASSUME NEW d, EntryInv(d, rows), Commits(d)
  PROVE  /\ d.id \in Ids
         /\ [title |-> FieldValue(d.title), updatedAt |-> d.updatedAt] \in Row
  BY DEF EntryInv, RowDraft, Commits, Admitted, FieldValue, Row

\* A submit that lands keeps the invariant.
LEMMA SubmitInv ==
  ASSUME IInv, NEW n \in DOMAIN drafts, Submit(n)
  PROVE  IInv'
  <1> DEFINE d   == drafts[n]
             row == [title |-> FieldValue(d.title), updatedAt |-> d.updatedAt]
             reg == Without(n)
  <1>1. EntryInv(d, rows)  BY Parts
  <1>2. d.id \in Ids /\ row \in Row  BY <1>1, CommittedRow DEF Submit
  <1>3. DOMAIN reg \subseteq DOMAIN drafts /\ \A m \in DOMAIN reg : EntryInv(reg[m], rows)
    BY Parts DEF Without
  <1>4. /\ Insert(d.id, row) /\ drafts' = Upserted(reg, d.id, row)
        /\ version' = version + 1 /\ UNCHANGED <<nextDraftId, windowVars>>
    BY DEF Submit
  <1> HIDE DEF d, row, reg
  <1>5. RowsInv(rows') /\ \A m \in DOMAIN reg : EntryInv(Upserted(reg, d.id, row)[m], rows')
    BY <1>2, <1>3, <1>4, Parts, UpsertedEntries
  <1>6. DOMAIN drafts' = DOMAIN reg /\ drafts' = [m \in DOMAIN drafts' |-> drafts'[m]]
    BY <1>4 DEF Upserted
  <1>7. version' \in Nat  BY <1>4, Parts
  <1>8. QED  BY <1>3, <1>4, <1>5, <1>6, <1>7, NewRegistry

\* Releasing a draft keeps the invariant.
LEMMA CloseInv ==
  ASSUME IInv, NEW n \in DOMAIN drafts, Close(n)
  PROVE  IInv'
  <1>1. DOMAIN drafts' \subseteq DOMAIN drafts /\ drafts' = [m \in DOMAIN drafts' |-> drafts'[m]]
          /\ \A m \in DOMAIN drafts' : drafts'[m] = drafts[m]
    BY DEF Close, Without
  <1>2. rows' = rows /\ version' = version /\ nextDraftId' = nextDraftId
    BY DEF Close, rowVars
  <1>3. QED  BY <1>1, <1>2, Parts, NewRegistry DEF Close

\* An edit of one draft that keeps its entry's invariant.
LEMMA EditInv ==
  ASSUME IInv, NEW n \in DOMAIN drafts, NEW d, EntryInv(d, rows), EditDraft(n, d)
  PROVE  IInv'
  <1>1. DOMAIN drafts' = DOMAIN drafts /\ drafts' = [m \in DOMAIN drafts' |-> drafts'[m]]
    <2>1. drafts \in [DOMAIN drafts -> RowDraft] /\ d \in RowDraft
      BY DEF IInv, CollectionTypeOK, EntryInv
    <2>2. drafts' \in [DOMAIN drafts -> RowDraft]  BY <2>1 DEF EditDraft
    <2>3. QED  BY <2>2
  <1>2. \A m \in DOMAIN drafts' : drafts'[m] = IF m = n THEN d ELSE drafts[m]
    BY Parts DEF EditDraft
  <1>3. rows' = rows /\ version' = version /\ nextDraftId' = nextDraftId
    BY DEF EditDraft, rowVars
  <1>4. QED  BY <1>1, <1>2, <1>3, Parts, NewRegistry DEF EditDraft

\* Registering a new draft that keeps the entries' invariant.
LEMMA AdoptInv ==
  ASSUME IInv, NEW d, EntryInv(Adopted(d), rows), Adopt(d)
  PROVE  IInv'
  <1>1. /\ DOMAIN drafts' = DOMAIN drafts \cup {nextDraftId}
        /\ drafts' = [m \in DOMAIN drafts' |-> drafts'[m]]
        /\ \A m \in DOMAIN drafts' :
             drafts'[m] = IF m = nextDraftId THEN Adopted(d) ELSE drafts[m]
        /\ nextDraftId' = nextDraftId + 1
    BY DEF Adopt
  <1>2. rows' = rows /\ version' = version /\ UNCHANGED windowVars
    BY DEF Adopt, rowVars
  <1>3. DOMAIN drafts' \subseteq Nat /\ nextDraftId' \in Nat
          /\ \A m \in DOMAIN drafts' : m < nextDraftId'
    <2>1. /\ nextDraftId \in Nat /\ DOMAIN drafts \subseteq Nat
          /\ \A m \in DOMAIN drafts : m < nextDraftId
      BY Parts
    <2>2. QED  BY <1>1, <2>1
  <1>4. \A m \in DOMAIN drafts' : EntryInv(drafts'[m], rows')
    BY <1>1, <1>2, Parts
  <1>5. drafts' \in [DOMAIN drafts' -> RowDraft]
    BY <1>1, <1>4 DEF EntryInv
  <1>6. RowsInv(rows') /\ version' \in Nat /\ WindowsInv'
    BY <1>2, Parts DEF WindowsInv, windowVars
  <1>7. QED
    BY <1>3, <1>4, <1>5, <1>6 DEF IInv, CollectionTypeOK, RowsInv, WindowsInv

\* A draft of a row as it is now.
LEMMA CheckoutInv ==
  ASSUME IInv, NEW id \in Ids, Checkout(id)
  PROVE  IInv'
  <1> DEFINE d == NewDraft(id, FromBase(rows[id].title), rows[id].updatedAt)
             e == [d EXCEPT !.rebases = TRUE]
             x == FromBase(rows[id].title)
  <1>1. id \in DOMAIN rows /\ rows[id] \in Row /\ version \in Nat
    BY Parts DEF Checkout, RowsInv
  <1>2. /\ rows[id].title \in Titles /\ rows[id].title \in Values
        /\ rows[id].updatedAt \in Stamps /\ rows[id].title # NoValue
    BY <1>1, NoValueIsNoValue DEF Row
  <1>3. x \in FieldType /\ x.base = rows[id].title /\ Admitted(Titles, x)
    BY <1>2, FromBaseType DEF FromBase, Admitted, Option
  <1>4. e \in RowDraft /\ e.title = x /\ e.status = "Live" /\ e.id = id /\ e.rebases
    <2> HIDE DEF x
    <2>1. d \in RowDraft /\ d.title = x /\ d.status = "Live" /\ d.id = id
      BY <1>1, <1>2, <1>3 DEF NewDraft, RowDraft, x
    <2> HIDE DEF d
    <2>2. QED  BY <2>1 DEF RowDraft
  <1>5. EntryInv(RebaseRow(e, rows[id], version), rows)
    <2> HIDE DEF e, x
    <2>1. IsBased(e)  BY <1>2, <1>3, <1>4 DEF IsBased
    <2>2. QED  BY <1>1, <1>3, <1>4, <2>1, RebasedEntry
  <1>6. Adopted(d) = RebaseRow(e, rows[id], version)
    BY <1>1, <1>2, <1>3 DEF Adopted, IsBased, NewDraft
  <1>7. Adopt(d)  BY DEF Checkout
  <1> HIDE DEF d, e
  <1>8. QED  BY <1>5, <1>6, <1>7, AdoptInv

\* A draft that creates a row.
LEMMA CheckoutNewInv ==
  ASSUME IInv, NEW id \in Ids, NEW stamp \in Stamps, CheckoutNew(id, stamp)
  PROVE  IInv'
  <1> DEFINE d == NewDraft(id, NewUnset, stamp)
  <1>1. d \in RowDraft
    <2>1. version \in Nat  BY Parts
    <2>2. QED  BY <2>1, NewUnsetType DEF NewDraft, RowDraft
  <1>2. d.title = NewUnset /\ ~d.rebases  BY DEF NewDraft
  <1>3. Adopted(d) = [d EXCEPT !.rebases = FALSE]
    BY <1>2 DEF Adopted, IsBased, NewUnset
  <1> HIDE DEF d
  <1>4. Adopted(d) = d  BY <1>1, <1>2, <1>3 DEF RowDraft
  <1>5. EntryInv(d, rows)
    BY <1>1, <1>2 DEF EntryInv, Admitted, IsBased, IsConflicted, NewUnset, Option
  <1>6. Adopt(d)  BY DEF CheckoutNew, d
  <1>7. QED  BY <1>4, <1>5, <1>6, AdoptInv

-----------------------------------------------------------------------------
(* The theorems *)

\* The empty store satisfies the invariant.
LEMMA InitInv == Init => IInv
  BY DEF Init, IInv, CollectionTypeOK

\* Every operation on drafts keeps the invariant.
LEMMA DraftStep ==
  ASSUME IInv, DraftEvent
  PROVE  IInv'
  <1>1. ASSUME NEW n \in DOMAIN drafts, NEW raw \in Raws, TrySetTitle(n, raw)
        PROVE  IInv'
    <2> DEFINE x == TrySet(Titles, drafts[n].title, raw)
    <2>1. EntryInv([drafts[n] EXCEPT !.title = x], rows)  BY Parts, EditedEntry
    <2>2. QED  BY <1>1, <2>1, EditInv DEF TrySetTitle
  <1>2. ASSUME NEW n \in DOMAIN drafts, Resolve(n)
        PROVE  IInv'
    <2>1. PICK x \in {KeepMine(drafts[n].title), TakeTheirs(drafts[n].title)} :
            EditDraft(n, [drafts[n] EXCEPT !.title = x])
      BY <1>2 DEF Resolve
    <2>2. EntryInv([drafts[n] EXCEPT !.title = x], rows)  BY Parts, EditedEntry
    <2>3. QED  BY <2>1, <2>2, EditInv
  <1>3. ASSUME NEW n \in DOMAIN drafts, NEW stamp \in Stamps, SetUpdatedAt(n, stamp)
        PROVE  IInv'
    <2>1. EntryInv([drafts[n] EXCEPT !.updatedAt = stamp], rows)
      BY Parts DEF EntryInv, RowDraft, IsBased
    <2>2. QED  BY <1>3, <2>1, EditInv DEF SetUpdatedAt
  <1>4. QED
    BY <1>1, <1>2, <1>3, CheckoutInv, CheckoutNewInv, SubmitInv, CloseInv DEF DraftEvent

\* Every step of the store keeps the invariant.
LEMMA NextInv == IInv /\ [Next]_vars => IInv'
  <1> SUFFICES ASSUME IInv, [Next]_vars PROVE IInv'  OBVIOUS
  <1>1. CASE CanonicalEvent  BY <1>1, UpsertInv, DeleteInv DEF CanonicalEvent
  <1>2. CASE DraftEvent  BY <1>2, DraftStep
  <1>3. CASE WindowEvent
    <2>1. UNCHANGED <<rowVars, draftVars>>
      BY <1>3 DEF WindowEvent, OpenWindow, SetQuery, SetRange, CloseWindow, draftVars
    <2>2. WindowsInv'
      <3>1. WindowsInv  BY Parts
      <3>2. CASE \E query \in Query, range \in Ranges : OpenWindow(query, range)
        BY <3>1, <3>2 DEF OpenWindow, WindowsInv
      <3>3. CASE \E query \in Query, w \in DOMAIN windows : SetQuery(w, query)
        BY <3>1, <3>3 DEF SetQuery, WindowsInv
      <3>4. CASE \E range \in Ranges, w \in DOMAIN windows : SetRange(w, range)
        BY <3>1, <3>4 DEF SetRange, WindowsInv
      <3>5. CASE \E w \in DOMAIN windows : CloseWindow(w)
        BY <3>1, <3>5 DEF CloseWindow, WindowsInv
      <3>6. QED  BY <1>3, <3>2, <3>3, <3>4, <3>5 DEF WindowEvent
    <2>3. QED
      BY <2>1, <2>2 DEF IInv, CollectionTypeOK, WindowsInv, EntryInv, rowVars, draftVars
  <1>4. CASE UNCHANGED vars  BY <1>4 DEF vars, IInv, CollectionTypeOK, EntryInv
  <1>5. QED  BY <1>1, <1>2, <1>3, <1>4 DEF Next

\* The invariant holds in every reachable state.
LEMMA Invariant == Spec => []IInv
  BY InitInv, NextInv, PTL DEF Spec

\* Every row's title is one the constraints admit, and ids are never reused.
THEOREM CollectionTypes == Spec => []CollectionTypeOK
  <1>1. IInv => CollectionTypeOK  BY DEF IInv
  <1>2. QED  BY <1>1, Invariant, PTL

\* W8, W9, W11, W12: a row draft follows its own row as it is now, until the row
\* is deleted, and only an orphan or a draft that creates a row follows none.
THEOREM DraftsAlwaysFollow == Spec => []DraftsFollowTheirRow
  <1>1. IInv => DraftsFollowTheirRow
    BY DEF IInv, DraftsFollowTheirRow, EntryInv
  <1>2. QED  BY <1>1, Invariant, PTL

\* C07, C11: an edit never lands on a text its user has not seen, nor brings a
\* deleted row back, whatever happened to the row in between.
THEOREM EditsNeverLandBlind == Spec => EditsLandOnWhatTheySaw
  <1>1. ASSUME IInv, NEW n \in DOMAIN drafts, Submit(n), IsBased(drafts[n])
        PROVE  /\ drafts[n].id \in DOMAIN rows
               /\ rows[drafts[n].id].title = drafts[n].title.base
    <2>1. EntryInv(drafts[n], rows) /\ Commits(drafts[n])
      BY <1>1, Parts DEF Submit
    <2>2. QED  BY <1>1, <2>1 DEF EntryInv, Commits, Tracks
  <1>2. IInv /\ [Next]_vars =>
          [\A n \in DOMAIN drafts :
             Submit(n) /\ IsBased(drafts[n]) =>
               drafts[n].id \in DOMAIN rows /\ rows[drafts[n].id].title = drafts[n].title.base]_vars
    BY <1>1
  <1>3. QED  BY <1>2, Invariant, PTL DEF Spec, EditsLandOnWhatTheySaw

-----------------------------------------------------------------------------
(* What a window shows: the matching rows, each once and in order.         *)

\* Both orders are strict and total over the rows: the id settles every tie.
LEMMA OrderIsTotal ==
  ASSUME NEW R, RowsInv(R), NEW sort \in {"UpdatedDesc", "TitleAsc"}
  PROVE  /\ \A i \in DOMAIN R : ~Before(R, sort, i, i)
         /\ \A i, j \in DOMAIN R : i # j => Before(R, sort, i, j) \/ Before(R, sort, j, i)
         /\ \A i, j, k \in DOMAIN R :
              Before(R, sort, i, j) /\ Before(R, sort, j, k) => Before(R, sort, i, k)
  <1>1. \A i \in DOMAIN R : /\ i \in Nat /\ R[i].updatedAt \in Nat
                            /\ R[i].title \in Titles /\ TitleRank[R[i].title] \in Nat
    BY DEF RowsInv, Row
  <1>2. \A i, j \in DOMAIN R :
          R[i].title = R[j].title <=> TitleRank[R[i].title] = TitleRank[R[j].title]
    BY <1>1
  <1>3. CASE sort = "UpdatedDesc"  BY <1>1, <1>3 DEF Before
  <1>4. CASE sort = "TitleAsc"  BY <1>1, <1>2, <1>4 DEF Before
  <1>5. QED  BY <1>3, <1>4

\* The rows that match are rows, and finitely many.
LEMMA MatchingIsFinite ==
  ASSUME NEW R, IsFiniteSet(DOMAIN R), NEW query
  PROVE  /\ Matching(R, query) \subseteq DOMAIN R /\ IsFiniteSet(Matching(R, query))
         /\ Cardinality(Matching(R, query)) \in Nat
  BY FS_Subset, FS_CardinalityType DEF Matching

\* An earlier row has fewer rows before it, and no rank reaches the total.
LEMMA RanksGrow ==
  ASSUME NEW R, RowsInv(R), IsFiniteSet(DOMAIN R), NEW query \in Query,
         NEW i \in Matching(R, query)
  PROVE  /\ Rank(R, query, i) \in Nat
         /\ Rank(R, query, i) < Cardinality(Matching(R, query))
         /\ \A j \in Matching(R, query) :
              Before(R, query.sort, i, j) => Rank(R, query, i) < Rank(R, query, j)
  <1> DEFINE M == Matching(R, query)
             Below(j) == {k \in M : Before(R, query.sort, k, j)}
  <1>1. M \subseteq DOMAIN R /\ IsFiniteSet(M)  BY MatchingIsFinite
  <1>2. query.sort \in {"UpdatedDesc", "TitleAsc"}  BY DEF Query
  <1>3. /\ \A j \in M : ~Before(R, query.sort, j, j)
        /\ \A j, k, l \in M : Before(R, query.sort, j, k) /\ Before(R, query.sort, k, l)
                                => Before(R, query.sort, j, l)
    BY <1>1, <1>2, OrderIsTotal
  <1>4. \A j \in M : /\ IsFiniteSet(Below(j)) /\ Cardinality(Below(j)) \in Nat
                     /\ Rank(R, query, j) = Cardinality(Below(j))
    BY <1>1, FS_Subset, FS_CardinalityType DEF Rank
  <1>5. ASSUME NEW T \in SUBSET M, Below(i) \subseteq T, i \in T
        PROVE  Cardinality(Below(i)) < Cardinality(T)
    <2> HIDE DEF M, Below
    <2>1. i \notin Below(i)  BY <1>3 DEF Below
    <2>2. Cardinality(Below(i) \cup {i}) = Cardinality(Below(i)) + 1
      BY <1>4, <2>1, FS_AddElement DEF M
    <2>3. IsFiniteSet(T)  BY <1>1, FS_Subset
    <2>4. Cardinality(Below(i) \cup {i}) <= Cardinality(T)
      BY <1>5, <2>3, FS_Subset
    <2>5. Cardinality(T) \in Nat  BY <2>3, FS_CardinalityType
    <2>6. QED  BY <1>4, <2>2, <2>4, <2>5 DEF M
  <1>6. Rank(R, query, i) < Cardinality(M)
    <2>1. Below(i) \subseteq M /\ i \in M /\ M \in SUBSET M  OBVIOUS
    <2> HIDE DEF Below, M
    <2>2. Cardinality(Below(i)) < Cardinality(M)  BY <1>5, <2>1
    <2>3. QED  BY <1>4, <2>1, <2>2
  <1>7. ASSUME NEW j \in M, Before(R, query.sort, i, j)
        PROVE  Rank(R, query, i) < Rank(R, query, j)
    <2>1. Below(i) \subseteq Below(j) /\ i \in Below(j)  BY <1>3, <1>7
    <2>2. Cardinality(Below(i)) < Cardinality(Below(j))
      <3> HIDE DEF Below
      <3>1. Below(j) \in SUBSET M  BY DEF Below
      <3>2. QED  BY <1>5, <2>1, <3>1
    <2>3. QED  BY <1>4, <2>2
  <1>8. QED  BY <1>4, <1>6, <1>7

\* Different rows have different ranks.
LEMMA RanksDiffer ==
  ASSUME NEW R, RowsInv(R), IsFiniteSet(DOMAIN R), NEW query \in Query,
         NEW i \in Matching(R, query), NEW j \in Matching(R, query),
         Rank(R, query, i) = Rank(R, query, j)
  PROVE  i = j
  <1>1. i \in DOMAIN R /\ j \in DOMAIN R  BY MatchingIsFinite
  <1>2. query.sort \in {"UpdatedDesc", "TitleAsc"}  BY DEF Query
  <1>3. i # j => Before(R, query.sort, i, j) \/ Before(R, query.sort, j, i)
    BY <1>1, <1>2, OrderIsTotal
  <1>4. /\ Rank(R, query, i) \in Nat /\ Rank(R, query, j) \in Nat
        /\ Before(R, query.sort, i, j) => Rank(R, query, i) < Rank(R, query, j)
        /\ Before(R, query.sort, j, i) => Rank(R, query, j) < Rank(R, query, i)
    BY RanksGrow
  <1>5. QED  BY <1>3, <1>4

\* Every place of the list is some row's rank: n rows with different ranks below
\* n leave no rank out.
LEMMA RanksFill ==
  ASSUME NEW R, RowsInv(R), IsFiniteSet(DOMAIN R), NEW query \in Query,
         NEW k \in 1..Cardinality(Matching(R, query))
  PROVE  \E i \in Matching(R, query) : Rank(R, query, i) = k - 1
  <1> DEFINE M == Matching(R, query)
             n == Cardinality(M)
             places == (0..(n - 1)) \ {k - 1}
             rank == [i \in M |-> Rank(R, query, i)]
  <1>1. IsFiniteSet(M) /\ n \in Nat  BY MatchingIsFinite
  <1>2. IsFiniteSet(0..(n - 1)) /\ Cardinality(0..(n - 1)) = n
    <2> HIDE DEF n
    <2>1. 0 \in Int /\ n - 1 \in Int  BY <1>1
    <2>2. /\ IsFiniteSet(0..(n - 1))
          /\ Cardinality(0..(n - 1)) = IF 0 > n - 1 THEN 0 ELSE (n - 1) - 0 + 1
      BY <2>1, FS_Interval
    <2>3. (IF 0 > n - 1 THEN 0 ELSE (n - 1) - 0 + 1) = n  BY <1>1
    <2>4. QED  BY <2>2, <2>3
  <1>3. k - 1 \in 0..(n - 1)  BY <1>1
  <1>4. IsFiniteSet(places) /\ Cardinality(places) = n - 1
    <2> DEFINE all == 0..(n - 1)
    <2>1. IsFiniteSet(all) /\ Cardinality(all) = n /\ k - 1 \in all  BY <1>2, <1>3
    <2> HIDE DEF all
    <2>2. IsFiniteSet(all \ {k - 1}) /\ Cardinality(all \ {k - 1}) = Cardinality(all) - 1
      BY <2>1, FS_RemoveElement
    <2>3. places = all \ {k - 1}  BY DEF all
    <2> HIDE DEF places, n
    <2>4. QED  BY <2>1, <2>2, <2>3
  <1>5. SUFFICES ASSUME \A i \in M : Rank(R, query, i) # k - 1
                 PROVE  FALSE
    OBVIOUS
  <1>6. rank \in [M -> places]
    <2>1. \A i \in M : Rank(R, query, i) \in Nat /\ Rank(R, query, i) < n
      BY RanksGrow
    <2> HIDE DEF M, n
    <2>2. QED  BY <1>1, <1>5, <2>1
  <1>7. Cardinality(places) < Cardinality(M)  BY <1>1, <1>4
  <1>8. \E i, j \in M : i # j /\ rank[i] = rank[j]
    <2> HIDE DEF M, places, rank, n
    <2>1. QED  BY <1>1, <1>4, <1>6, <1>7, FS_PigeonHole
  <1>9. QED  BY <1>8, RanksDiffer

\* project() is a sort of what the filter lets through: the list has the matching
\* rows, every one, none twice, and each before those it sorts before.
LEMMA ProjectSorts ==
  ASSUME NEW R, RowsInv(R), IsFiniteSet(DOMAIN R), NEW query \in Query
  PROVE  LET list == Project(R, query)
             n    == Cardinality(Matching(R, query))
         IN  /\ n \in Nat /\ DOMAIN list = 1..n
             /\ list \in [1..n -> Matching(R, query)]
             /\ \A i \in Matching(R, query) : \E k \in 1..n : list[k] = i
             /\ \A k, l \in 1..n : k < l => Before(R, query.sort, list[k], list[l])
  <1> DEFINE M == Matching(R, query)
             list == Project(R, query)
             n == Cardinality(M)
  <1>1. n \in Nat /\ M \subseteq DOMAIN R  BY MatchingIsFinite
  <1>2. \A k \in 1..n : list[k] \in M /\ Rank(R, query, list[k]) = k - 1
    BY RanksFill DEF Project
  <1>3. list \in [1..n -> M]  BY <1>2 DEF Project
  <1>4. ASSUME NEW i \in M PROVE \E k \in 1..n : list[k] = i
    <2>1. Rank(R, query, i) \in Nat /\ Rank(R, query, i) < n  BY RanksGrow
    <2> DEFINE k == Rank(R, query, i) + 1
    <2>2. k \in 1..n  BY <1>1, <2>1
    <2>3. list[k] = i  BY <1>2, <2>1, <2>2, RanksDiffer
    <2>4. QED  BY <2>2, <2>3
  <1>5. ASSUME NEW k \in 1..n, NEW l \in 1..n, k < l
        PROVE  Before(R, query.sort, list[k], list[l])
    <2>1. list[k] \in M /\ list[l] \in M  BY <1>2
    <2>2. list[k] # list[l] /\ ~Before(R, query.sort, list[l], list[k])
      <3> HIDE DEF M, list
      <3>1. Rank(R, query, list[k]) = k - 1 /\ Rank(R, query, list[l]) = l - 1
        BY <1>2
      <3>2. k - 1 < l - 1 /\ k - 1 \in Int /\ l - 1 \in Int  BY <1>1, <1>5
      <3>3. ~(l - 1 < k - 1)  BY <3>2
      <3>4. Before(R, query.sort, list[l], list[k]) =>
              Rank(R, query, list[l]) < Rank(R, query, list[k])
        BY <2>1, RanksGrow DEF M
      <3>5. QED  BY <3>1, <3>2, <3>3, <3>4
    <2>3. list[k] \in DOMAIN R /\ list[l] \in DOMAIN R  BY <1>1, <2>1
    <2>4. query.sort \in {"UpdatedDesc", "TitleAsc"}  BY DEF Query
    <2> HIDE DEF M, list
    <2>5. QED  BY <2>2, <2>3, <2>4, OrderIsTotal
  <1>6. QED  BY <1>1, <1>3, <1>4, <1>5

\* What a slice of the list shows at place k.
Shown(R, list, k) == LET i == list[k] IN [id |-> i, row |-> R[i]]

Slice(R, list, s, e) == [k \in 1..(e - s) |-> Shown(R, list, s + k)]

\* A sequence that continues one with another is the two joined.
LEMMA SequencesJoin ==
  ASSUME NEW S, NEW left \in Seq(S), NEW right \in Seq(S), NEW all \in Seq(S),
         Len(all) = Len(left) + Len(right),
         \A k \in 1..Len(left) : left[k] = all[k],
         \A k \in 1..Len(right) : right[k] = all[Len(left) + k]
  PROVE  left \o right = all
  <1>1. Len(left) \in Nat /\ Len(right) \in Nat  BY LenProperties
  <1>2. /\ left \o right \in Seq(S) /\ Len(left \o right) = Len(left) + Len(right)
        /\ \A k \in 1..(Len(left) + Len(right)) :
             (left \o right)[k] = IF k <= Len(left) THEN left[k] ELSE right[k - Len(left)]
    BY ConcatProperties
  <1>3. ASSUME NEW k \in 1..(Len(left) + Len(right))
        PROVE  (left \o right)[k] = all[k]
    <2>1. CASE k <= Len(left)
      <3>1. k \in 1..Len(left)  BY <1>1, <2>1
      <3>2. QED  BY <1>2, <2>1, <3>1
    <2>2. CASE ~(k <= Len(left))
      <3>1. k - Len(left) \in 1..Len(right) /\ Len(left) + (k - Len(left)) = k
        BY <1>1, <2>2
      <3>2. right[k - Len(left)] = all[k]  BY <3>1
      <3>3. QED  BY <1>2, <2>2, <3>2
    <2>3. QED  BY <2>1, <2>2
  <1>4. QED  BY <1>2, <1>3, SeqEqual

Join(u, v, whole) == u \o v = whole

\* Slices that meet join without a gap or a repeat.
LEMMA SlicesJoin ==
  ASSUME NEW R, NEW list, NEW s \in Nat, NEW m \in Nat, NEW e \in Nat, s <= m, m <= e
  PROVE  Join(Slice(R, list, s, m), Slice(R, list, m, e), Slice(R, list, s, e))
  <1> DEFINE S == {Shown(R, list, k) : k \in Nat}
  <1>1. ASSUME NEW i \in Nat, NEW j \in Nat, i <= j
        PROVE  /\ Slice(R, list, i, j) \in Seq(S) /\ Len(Slice(R, list, i, j)) = j - i
               /\ \A k \in 1..(j - i) : Slice(R, list, i, j)[k] = Shown(R, list, i + k)
    <2>1. j - i \in Nat  BY <1>1
    <2>2. \A k \in 1..(j - i) : Shown(R, list, i + k) \in S  BY <1>1
    <2> HIDE DEF S
    <2>3. QED  BY <2>1, <2>2, IsASeq DEF Slice
  <1> DEFINE left == Slice(R, list, s, m)
             right == Slice(R, list, m, e)
             all == Slice(R, list, s, e)
  <1>2. s <= e  OBVIOUS
  <1>3. /\ left \in Seq(S) /\ Len(left) = m - s
        /\ \A k \in 1..(m - s) : left[k] = Shown(R, list, s + k)
    BY <1>1
  <1>4. /\ right \in Seq(S) /\ Len(right) = e - m
        /\ \A k \in 1..(e - m) : right[k] = Shown(R, list, m + k)
    BY <1>1
  <1>5. /\ all \in Seq(S) /\ Len(all) = e - s
        /\ \A k \in 1..(e - s) : all[k] = Shown(R, list, s + k)
    BY <1>1, <1>2
  <1> HIDE DEF left, right, all, S
  <1>6. Len(all) = Len(left) + Len(right)  BY <1>3, <1>4, <1>5
  <1>7. \A k \in 1..Len(left) : left[k] = all[k]  BY <1>3, <1>5
  <1>8. ASSUME NEW k \in 1..Len(right) PROVE right[k] = all[Len(left) + k]
    <2>1. k \in 1..(e - m) /\ (m - s) + k \in 1..(e - s) /\ s + ((m - s) + k) = m + k
      BY <1>4
    <2>2. QED  BY <1>3, <1>4, <1>5, <2>1
  <1>9. left \o right = all  BY <1>3, <1>4, <1>5, <1>6, <1>7, <1>8, SequencesJoin
  <1>10. QED  BY <1>9 DEF left, right, all, Join

\* A page is the slice between the clamped ends of its range.
LEMMA PageIsSlice ==
  ASSUME NEW R, NEW list, Len(list) \in Nat, NEW i \in Nat, NEW j \in Nat, i <= j
  PROVE  /\ Least(i, Len(list)) \in Nat /\ Least(i, Len(list)) <= Least(j, Len(list))
         /\ Page(R, list, [start |-> i, end |-> j]).rows =
              Slice(R, list, Least(i, Len(list)), Least(j, Len(list)))
  <1>1. /\ Least(i, Len(list)) \in Nat /\ Least(j, Len(list)) \in Nat
        /\ Least(i, Len(list)) <= Least(j, Len(list))
    BY DEF Least
  <1>2. ClampRange([start |-> i, end |-> j], Len(list)) =
          [start |-> Least(i, Len(list)), end |-> Least(j, Len(list))]
    BY <1>1 DEF ClampRange
  <1>3. QED  BY <1>1, <1>2 DEF Page, Slice, Shown

\* Pages whose ranges meet join, wherever the list ends.
LEMMA PagesJoin ==
  ASSUME NEW R, NEW list, Len(list) \in Nat,
         NEW a \in Nat, NEW b \in Nat, NEW c \in Nat, a <= b, b <= c
  PROVE  Join(Page(R, list, [start |-> a, end |-> b]).rows,
              Page(R, list, [start |-> b, end |-> c]).rows,
              Page(R, list, [start |-> a, end |-> c]).rows)
  <1> DEFINE i == Least(a, Len(list))
             j == Least(b, Len(list))
             k == Least(c, Len(list))
  <1>1. a <= c  OBVIOUS
  <1>2. i \in Nat /\ j \in Nat /\ k \in Nat  BY DEF Least
  <1>3. i <= j /\ j <= k  BY PageIsSlice
  <1>4. /\ Page(R, list, [start |-> a, end |-> b]).rows = Slice(R, list, i, j)
        /\ Page(R, list, [start |-> b, end |-> c]).rows = Slice(R, list, j, k)
        /\ Page(R, list, [start |-> a, end |-> c]).rows = Slice(R, list, i, k)
    BY <1>1, PageIsSlice
  <1> HIDE DEF i, j, k
  <1>5. Join(Slice(R, list, i, j), Slice(R, list, j, k), Slice(R, list, i, k))
    BY <1>2, <1>3, SlicesJoin
  <1>6. QED  BY <1>4, <1>5

FiniteRows == IsFiniteSet(DOMAIN rows)

\* A step adds at most one row.
LEMMA RowsStayFinite == FiniteRows /\ [Next]_vars => FiniteRows'
  <1> SUFFICES ASSUME FiniteRows, [Next]_vars
               PROVE  FiniteRows'
    OBVIOUS
  <1>1. \E id : DOMAIN rows' \subseteq DOMAIN rows \cup {id}
    <2>1. CASE CanonicalEvent  BY <2>1 DEF CanonicalEvent, Delete, Upsert, Insert
    <2>2. CASE DraftEvent
      BY <2>2 DEF DraftEvent, Checkout, CheckoutNew, Adopt, TrySetTitle, SetUpdatedAt, Resolve,
                  EditDraft, Submit, Insert, Close, rowVars
    <2>3. CASE WindowEvent
      BY <2>3 DEF WindowEvent, OpenWindow, SetQuery, SetRange, CloseWindow, rowVars
    <2>4. CASE UNCHANGED vars  BY <2>4 DEF vars
    <2>5. QED  BY <2>1, <2>2, <2>3, <2>4 DEF Next
  <1>2. PICK id : DOMAIN rows' \subseteq DOMAIN rows \cup {id}  BY <1>1
  <1>3. IsFiniteSet(DOMAIN rows \cup {id})  BY FS_AddElement DEF FiniteRows
  <1>4. QED  BY <1>2, <1>3, FS_Subset DEF FiniteRows

\* The rows are well formed and finitely many in every reachable state.
LEMMA RowsAreFinite == Spec => [](RowsInv(rows) /\ FiniteRows)
  <1>1. Init => FiniteRows  BY FS_EmptySet DEF Init, FiniteRows
  <1>2. IInv => RowsInv(rows)  BY Parts
  <1>3. QED  BY <1>1, <1>2, RowsStayFinite, Invariant, PTL DEF Spec

\* The list holds the rows that match, each of them once, in the order of the
\* query.
ListsSorted ==
  \A query \in Query : \A list \in {Project(rows, query)} :
    /\ list \in [1..Cardinality(Matching(rows, query)) -> Matching(rows, query)]
    /\ \A i \in Matching(rows, query) : \E k \in DOMAIN list : list[k] = i
    /\ \A k, l \in DOMAIN list : k < l => Before(rows, query.sort, list[k], list[l])

\* project(): whatever the rows and the query, what a window reads from is a
\* sort of what its filter lets through.
THEOREM ProjectionsSort == Spec => []ListsSorted
  <1>1. RowsInv(rows) /\ FiniteRows => ListsSorted
    BY ProjectSorts DEF ListsSorted, FiniteRows
  <1>2. QED  BY <1>1, RowsAreFinite, PTL

\* W3, W4, W15: for any rows, query and ranges, windows whose ranges meet show
\* every row they span once and none twice.
THEOREM PagesAlwaysTile == Spec => []PagesTile
  <1>1. RowsInv(rows) /\ FiniteRows => PagesTile
    <2> SUFFICES ASSUME RowsInv(rows), FiniteRows,
                        NEW query \in Query, NEW list \in {Project(rows, query)},
                        NEW c \in 0..MaxEnd, NEW b \in 0..c, NEW a \in 0..b
                 PROVE  Page(rows, list, [start |-> a, end |-> b]).rows
                          \o Page(rows, list, [start |-> b, end |-> c]).rows
                          = Page(rows, list, [start |-> a, end |-> c]).rows
      BY Zenon DEF PagesTile
    <2>1. Len(list) \in Nat
      <3>1. /\ Cardinality(Matching(rows, query)) \in Nat
            /\ list \in [1..Cardinality(Matching(rows, query)) -> Matching(rows, query)]
        BY ProjectSorts DEF FiniteRows
      <3>2. list \in Seq(Matching(rows, query))  BY <3>1
      <3>3. QED  BY <3>2, LenProperties
    <2>2. a \in Nat /\ b \in Nat /\ c \in Nat /\ a <= b /\ b <= c  BY RangeAssumption
    <2>3. Join(Page(rows, list, [start |-> a, end |-> b]).rows,
               Page(rows, list, [start |-> b, end |-> c]).rows,
               Page(rows, list, [start |-> a, end |-> c]).rows)
      BY <2>1, <2>2, PagesJoin
    <2>4. QED  BY <2>3 DEF Join
  <1>2. QED  BY <1>1, RowsAreFinite, PTL

-----------------------------------------------------------------------------
(* Observers: what an observer holds is never ahead of the store, and a     *)
(* snapshot of the store's version is what latest() answers now.            *)

Abreast(w) ==
  /\ seen[w].version \in Nat /\ seen[w].version <= version
  /\ seen[w].version = version => seen[w] = Latest(w)

InboxInv == version \in Nat /\ \A w \in DOMAIN windows : Abreast(w)

\* What a window answers depends on its query and range, the rows and the
\* version.
LEMMA LatestStays ==
  ASSUME NEW w, windows'[w] = windows[w], UNCHANGED rowVars
  PROVE  Latest(w)' = Latest(w)
  BY DEF Latest, rowVars

\* No canonical event leaves the version as it is, and none touches a window.
LEMMA EventsTick ==
  ASSUME version \in Nat, CanonicalEvent \/ DraftEvent
  PROVE  UNCHANGED windowVars /\ (UNCHANGED rowVars \/ version' = version + 1)
<1> USE DEF rowVars, windowVars, draftVars
<1>1. ASSUME CanonicalEvent PROVE UNCHANGED windowVars /\ version' = version + 1
  BY <1>1 DEF CanonicalEvent, Delete, DeletionVersion, Upsert
<1>2. \A d : Adopt(d) => UNCHANGED windowVars /\ UNCHANGED rowVars
  BY DEF Adopt
<1>3. \A n, d : EditDraft(n, d) => UNCHANGED windowVars /\ UNCHANGED rowVars
  BY DEF EditDraft
<1>4. \A n : /\ Submit(n) => UNCHANGED windowVars /\ version' = version + 1
             /\ Close(n) => UNCHANGED windowVars /\ UNCHANGED rowVars
  BY DEF Submit, Close
<1>5. \A n, a : TrySetTitle(n, a) \/ SetUpdatedAt(n, a) \/ Resolve(n)
                  => UNCHANGED windowVars /\ UNCHANGED rowVars
  BY <1>3 DEF TrySetTitle, SetUpdatedAt, Resolve
<1>6. \A id, stamp : Checkout(id) \/ CheckoutNew(id, stamp)
                       => UNCHANGED windowVars /\ UNCHANGED rowVars
  BY <1>2 DEF Checkout, CheckoutNew
<1> QED BY <1>1, <1>4, <1>5, <1>6 DEF DraftEvent

\* An event leaves every observer abreast of the store, or behind it.
LEMMA EventsKeepAbreast ==
  ASSUME InboxInv, CanonicalEvent \/ DraftEvent, UNCHANGED seen
  PROVE  InboxInv'
<1>1. UNCHANGED windowVars /\ (UNCHANGED rowVars \/ version' = version + 1)
  BY EventsTick DEF InboxInv
<1>2. version' \in Nat /\ windows' = windows
  BY <1>1 DEF InboxInv, rowVars, windowVars
<1>3. ASSUME NEW w \in DOMAIN windows PROVE Abreast(w)'
  <2>1. Abreast(w)  BY DEF InboxInv
  <2>2. CASE version' = version + 1
    BY <2>1, <2>2, <1>2 DEF Abreast, InboxInv
  <2>3. CASE UNCHANGED rowVars
    <3>1. Latest(w)' = Latest(w)  BY <1>2, <2>3, LatestStays
    <3>2. QED BY <2>1, <2>3, <3>1 DEF Abreast, rowVars
  <2>4. QED BY <1>1, <2>2, <2>3
<1>4. QED BY <1>2, <1>3 DEF InboxInv

\* Reading brings one observer abreast and leaves the others where they are.
LEMMA ReadingKeepsAbreast ==
  ASSUME InboxInv, UNCHANGED rowVars, NEW w,
         \A u \in DOMAIN windows' \ {w} : u \in DOMAIN windows /\ windows'[u] = windows[u],
         \/ Observe(w)
         \/ w \notin DOMAIN windows' /\ seen' = [u \in DOMAIN windows' |-> seen[u]]
  PROVE  InboxInv'
<1>1. version' \in Nat /\ version' = version  BY DEF InboxInv, rowVars
<1>2. ASSUME NEW u \in DOMAIN windows' \ {w} PROVE Abreast(u)'
  <2>1. Abreast(u)  BY DEF InboxInv
  <2>2. Latest(u)' = Latest(u)  BY LatestStays
  <2>3. seen'[u] = seen[u]  BY DEF Observe
  <2>4. QED BY <1>1, <2>1, <2>2, <2>3 DEF Abreast
<1>3. ASSUME w \in DOMAIN windows' PROVE Abreast(w)'
  <2>1. seen'[w] = Latest(w)'  BY <1>3 DEF Observe
  <2>2. Latest(w)'.version = version'  BY DEF Latest
  <2>3. QED BY <1>1, <2>1, <2>2 DEF Abreast
<1>4. QED BY <1>1, <1>2, <1>3 DEF InboxInv

\* The steps of an observer are of that shape.
LEMMA ReadsKeepAbreast == InboxInv /\ ReadSide => InboxInv'
<1> SUFFICES ASSUME InboxInv, ReadSide PROVE InboxInv'
  OBVIOUS
<1>1. ASSUME Open PROVE InboxInv'
  <2>1. PICK query \in Query, range \in Ranges :
          OpenWindow(query, range) /\ Observe(nextWindowId)
    BY <1>1 DEF Open
  <2>2. /\ UNCHANGED rowVars
        /\ \A u \in DOMAIN windows' \ {nextWindowId} :
             u \in DOMAIN windows /\ windows'[u] = windows[u]
    BY <2>1 DEF OpenWindow
  <2>3. QED BY <2>1, <2>2, ReadingKeepsAbreast
<1>2. ASSUME NEW w \in DOMAIN windows, Change(w) PROVE InboxInv'
  <2>1. PICK to : windows' = [windows EXCEPT ![w] = to]
    BY <1>2 DEF Change, SetQuery, SetRange
  <2>2. UNCHANGED rowVars /\ Observe(w)
    BY <1>2 DEF Change, SetQuery, SetRange
  <2>3. \A u \in DOMAIN windows' \ {w} : u \in DOMAIN windows /\ windows'[u] = windows[u]
    BY <2>1
  <2>4. QED BY <2>2, <2>3, ReadingKeepsAbreast
<1>3. ASSUME NEW w \in DOMAIN windows, Poll(w) PROVE InboxInv'
  <2>1. UNCHANGED <<rowVars, windows>> /\ Observe(w)
    BY <1>3 DEF Poll, vars, rowVars
  <2>2. QED BY <2>1, ReadingKeepsAbreast
<1>4. ASSUME NEW w \in DOMAIN windows, Shut(w) PROVE InboxInv'
  <2>1. /\ UNCHANGED rowVars /\ seen' = [u \in DOMAIN windows' |-> seen[u]]
        /\ windows' = [u \in DOMAIN windows \ {w} |-> windows[u]]
    BY <1>4 DEF Shut, CloseWindow
  <2>2. /\ w \notin DOMAIN windows'
        /\ \A u \in DOMAIN windows' \ {w} : u \in DOMAIN windows /\ windows'[u] = windows[u]
    BY <2>1
  <2>3. QED BY <2>1, <2>2, ReadingKeepsAbreast
<1>5. QED BY <1>1, <1>2, <1>3, <1>4 DEF ReadSide

\* W6, D37: an observer that compares versions misses nothing, whatever rows,
\* queries and ranges there are and though nothing is ever delivered to it.
THEOREM VersionIsEnough == InboxSpec => []SameVersionMeansCurrent
<1>1. InboxInit => InboxInv
  BY DEF InboxInit, Init, InboxInv
<1>2. InboxInv /\ [InboxNext]_inboxVars => InboxInv'
  <2> SUFFICES ASSUME InboxInv, [InboxNext]_inboxVars PROVE InboxInv'
    OBVIOUS
  <2>1. CASE UNCHANGED inboxVars
    <3>1. UNCHANGED <<rowVars, windows, seen>>  BY <2>1 DEF inboxVars, vars, rowVars
    <3>2. \A w : Latest(w)' = Latest(w)  BY <3>1, LatestStays
    <3>3. QED BY <3>1, <3>2 DEF InboxInv, Abreast, rowVars
  <2>2. CASE InboxNext
    BY <2>2, EventsKeepAbreast, ReadsKeepAbreast DEF InboxNext, EditSide
  <2>3. QED BY <2>1, <2>2
<1>3. InboxInv => SameVersionMeansCurrent
  BY DEF InboxInv, Abreast, SameVersionMeansCurrent
<1>4. QED BY <1>1, <1>2, <1>3, PTL DEF InboxSpec
=============================================================================
