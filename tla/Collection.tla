----------------------------- MODULE Collection -----------------------------
(***************************************************************************)
(* The collection facet (spikes/collection, collection-core): one store of *)
(* many canonical rows, edited through row drafts and read through         *)
(* windows.  It is a peer of Store over the same Field.                    *)
(*                                                                         *)
(* A row is [title, updatedAt]; a title is a Value of Field.  A query's     *)
(* filter is the set of titles that contain the needle.                    *)
(***************************************************************************)
EXTENDS Field, FiniteSets, Sequences

CONSTANTS
  Ids,        \* the entity keys
  Titles,     \* the sanitized texts of 1..40 characters
  Stamps,     \* timestamps, an input
  TitleRank,  \* the byte order of titles
  Filters,    \* what a needle can select
  MaxEnd,     \* bound: the largest end of a range asked for
  MaxVersion, \* bound: no event is pushed beyond this version
  MaxDrafts,  \* bound: drafts ever issued
  MaxWindows  \* bound: windows ever opened

ASSUME CollectionAssumption ==
  /\ Ids \subseteq Nat /\ Stamps \subseteq Nat
  /\ Titles \subseteq Values /\ TitleRank \in [Titles -> Nat]
  /\ \A v, w \in Titles : TitleRank[v] = TitleRank[w] => v = w
  /\ Filters \subseteq SUBSET Titles

ASSUME RangeAssumption == MaxEnd \in Nat

VARIABLES
  rows,       \* id -> the canonical row
  version,
  drafts,     \* live row drafts: id -> RowDraft
  nextDraftId,
  windows,    \* open windows: id -> [query, range]
  nextWindowId

rowVars    == <<rows, version>>
draftVars  == <<drafts, nextDraftId>>
windowVars == <<windows, nextWindowId>>
vars       == <<rows, version, drafts, nextDraftId, windows, nextWindowId>>

Row == [title : Titles, updatedAt : Stamps]

\* A registry entry and its draft.
RowDraft == [id : Ids, title : FieldType, updatedAt : Stamps,
             status : {"Live", "Orphaned"}, baseVersion : Nat, rebases : BOOLEAN]

Query  == [sort : {"UpdatedDesc", "TitleAsc"}, filter : Filters]
Ranges == [start : 0..MaxEnd, end : 0..MaxEnd]

-----------------------------------------------------------------------------
(* Windows read the rows through their query; `table` is rows as of then *)

\* Both orders end in the id, so they are total.
Before(table, sort, i, j) ==
  LET a == table[i]
      b == table[j]
  IN  \/ sort = "UpdatedDesc" /\ a.updatedAt > b.updatedAt
      \/ sort = "TitleAsc" /\ TitleRank[a.title] < TitleRank[b.title]
      \/ i < j /\ IF sort = "UpdatedDesc" THEN a.updatedAt = b.updatedAt
                                          ELSE a.title = b.title

Matching(table, query) == {i \in DOMAIN table : table[i].title \in query.filter}

\* How many rows a sorted list of the matching rows has before i.
Rank(table, query, i) ==
  Cardinality({j \in Matching(table, query) : Before(table, query.sort, j, i)})

\* Filter first, then sort.
Project(table, query) ==
  [k \in 1..Cardinality(Matching(table, query)) |->
     CHOOSE i \in Matching(table, query) : Rank(table, query, i) = k - 1]

Least(m, n) == IF m < n THEN m ELSE n

\* Mutant: a start past the tail is brought back to the last row.
ClampToLast(range, total) ==
  LET start == IF range.start < total \/ total = 0 THEN Least(range.start, total)
                                                  ELSE total - 1
      end   == Least(range.end, total)
  IN  [start |-> start, end |-> IF end < start THEN start ELSE end]

\* An out-of-range start collapses to an empty range at the tail.
ClampRange(range, total) ==
  LET start == Least(range.start, total)
      end   == Least(range.end, total)
  IN  [start |-> start, end |-> IF end < start THEN start ELSE end]

\* The part of the projection a window asked for.
Page(table, ordered, asked) ==
  LET range == ClampRange(asked, Len(ordered))
  IN  [total |-> Len(ordered), range |-> range,
       rows |-> [k \in 1..(range.end - range.start) |->
                   LET i == ordered[range.start + k] IN [id |-> i, row |-> table[i]]]]

\* latest(): newest wins, nothing is queued.
Latest(w) ==
  [version |-> version, page |-> Page(rows, Project(rows, windows[w].query), windows[w].range)]

OpenWindow(query, range) ==
  /\ nextWindowId < MaxWindows
  /\ nextWindowId' = nextWindowId + 1
  /\ windows' = [w \in DOMAIN windows \cup {nextWindowId} |->
                   IF w = nextWindowId THEN [query |-> query, range |-> range]
                   ELSE windows[w]]
  /\ UNCHANGED <<rowVars, draftVars>>

SetRange(w, range) ==
  /\ windows' = [windows EXCEPT ![w].range = range]
  /\ UNCHANGED <<nextWindowId, rowVars, draftVars>>

SetQuery(w, query) ==
  /\ windows' = [windows EXCEPT ![w].query = query]
  /\ UNCHANGED <<nextWindowId, rowVars, draftVars>>

CloseWindow(w) ==
  /\ windows' = [u \in DOMAIN windows \ {w} |-> windows[u]]
  /\ UNCHANGED <<nextWindowId, rowVars, draftVars>>

-----------------------------------------------------------------------------
(* Canonical events *)

\* updatedAt adopts theirs; an orphan does not rebase.
RebaseRow(d, row, v) ==
  IF d.status = "Orphaned" THEN d
  ELSE [id |-> d.id, title |-> Rebase(d.title, row.title),
        updatedAt |-> row.updatedAt, status |-> d.status, baseVersion |-> v,
        rebases |-> d.rebases]

OrphanRow(d) == [[d EXCEPT !.status = "Orphaned"] EXCEPT !.rebases = FALSE]

\* Mutant: the fan-out of a single-entity store.
MovesAll(d, id) == d.rebases

Moves(d, id) == d.rebases /\ d.id = id

\* apply_canonical(Upsert) over the given registry.
Upserted(reg, id, row) ==
  [n \in DOMAIN reg |->
     IF Moves(reg[n], id) THEN RebaseRow(reg[n], row, version + 1) ELSE reg[n]]

Insert(id, row) ==
  rows' = [i \in DOMAIN rows \cup {id} |-> IF i = id THEN row ELSE rows[i]]

Upsert(id, row) ==
  /\ version < MaxVersion
  /\ version' = version + 1
  /\ Insert(id, row)
  /\ drafts' = Upserted(drafts, id, row)
  /\ UNCHANGED <<nextDraftId, windowVars>>

Deleted(reg, id) ==
  [n \in DOMAIN reg |->
     IF Moves(reg[n], id) THEN OrphanRow(reg[n]) ELSE reg[n]]

\* Mutant: a delete moves no version.
DeletionTick(id) == version

\* Every event is announced, that of an absent row too.
DeletionVersion(id) == version + 1

Delete(id) ==
  /\ version < MaxVersion
  /\ version' = DeletionVersion(id)
  /\ rows' = [i \in DOMAIN rows \ {id} |-> rows[i]]
  /\ drafts' = Deleted(drafts, id)
  /\ UNCHANGED <<nextDraftId, windowVars>>

-----------------------------------------------------------------------------
(* Row drafts *)

IsBased(d) == d.title.base # NoValue

\* adopt()
Adopted(d) ==
  IF ~IsBased(d) THEN [d EXCEPT !.rebases = FALSE]
  ELSE IF d.id \in DOMAIN rows
  THEN RebaseRow([d EXCEPT !.rebases = TRUE], rows[d.id], version)
  ELSE OrphanRow(d)

Adopt(d) ==
  /\ nextDraftId < MaxDrafts
  /\ nextDraftId' = nextDraftId + 1
  /\ drafts' = [n \in DOMAIN drafts \cup {nextDraftId} |->
                  IF n = nextDraftId THEN Adopted(d) ELSE drafts[n]]
  /\ UNCHANGED <<rowVars, windowVars>>

NewDraft(id, title, stamp) ==
  [id |-> id, title |-> title, updatedAt |-> stamp, status |-> "Live",
   baseVersion |-> version, rebases |-> FALSE]

Checkout(id) ==
  /\ id \in DOMAIN rows
  /\ Adopt(NewDraft(id, FromBase(rows[id].title), rows[id].updatedAt))

\* The key of a row to create is the client's.
CheckoutNew(id, stamp) == Adopt(NewDraft(id, NewUnset, stamp))

EditDraft(n, d) ==
  /\ drafts' = [drafts EXCEPT ![n] = d]
  /\ UNCHANGED <<nextDraftId, rowVars, windowVars>>

TrySetTitle(n, raw) ==
  EditDraft(n, [drafts[n] EXCEPT !.title = TrySet(Titles, drafts[n].title, raw)])

SetUpdatedAt(n, stamp) == EditDraft(n, [drafts[n] EXCEPT !.updatedAt = stamp])

Resolve(n) ==
  \E title \in {KeepMine(drafts[n].title), TakeTheirs(drafts[n].title)} :
    EditDraft(n, [drafts[n] EXCEPT !.title = title])

\* Mutant: an orphan may commit.
CommitsOrphans(d) == ~IsConflicted(d.title) /\ d.title.validity = "Valid"

\* Mutant: what is typed need not be valid.
CommitsAnyText(d) == d.status = "Live" /\ ~IsConflicted(d.title)

\* commit_gates lets the draft through; a refused one goes back unchanged.
Commits(d) ==
  d.status = "Live" /\ ~IsConflicted(d.title) /\ d.title.validity = "Valid"

Without(n) == [m \in DOMAIN drafts \ {n} |-> drafts[m]]

Submit(n) ==
  LET d   == drafts[n]
      row == [title |-> FieldValue(d.title), updatedAt |-> d.updatedAt]
  IN  /\ Commits(d)
      /\ version' = version + 1
      /\ Insert(d.id, row)
      /\ drafts' = Upserted(Without(n), d.id, row)
      /\ UNCHANGED <<nextDraftId, windowVars>>

Close(n) ==
  /\ drafts' = Without(n)
  /\ UNCHANGED <<nextDraftId, rowVars, windowVars>>

-----------------------------------------------------------------------------
Init ==
  /\ rows = <<>> /\ version = 0
  /\ drafts = <<>> /\ nextDraftId = 0
  /\ windows = <<>> /\ nextWindowId = 0

CanonicalEvent ==
  \E id \in Ids : Delete(id) \/ \E row \in Row : Upsert(id, row)

DraftEvent ==
  \/ \E id \in Ids : Checkout(id) \/ \E stamp \in Stamps : CheckoutNew(id, stamp)
  \/ \E n \in DOMAIN drafts :
       \/ \E raw \in Raws : TrySetTitle(n, raw)
       \/ \E stamp \in Stamps : SetUpdatedAt(n, stamp)
       \/ Resolve(n) \/ Submit(n) \/ Close(n)

WindowEvent ==
  \/ \E query \in Query, range \in Ranges :
       \/ OpenWindow(query, range)
       \/ \E w \in DOMAIN windows : SetQuery(w, query) \/ SetRange(w, range)
  \/ \E w \in DOMAIN windows : CloseWindow(w)

Next == CanonicalEvent \/ DraftEvent \/ WindowEvent

Spec == Init /\ [][Next]_vars

-----------------------------------------------------------------------------
(* What the store promises *)

CollectionTypeOK ==
  /\ DOMAIN rows \subseteq Ids /\ rows \in [DOMAIN rows -> Row]
  /\ version \in Nat
  /\ nextDraftId \in Nat /\ DOMAIN drafts \subseteq Nat
  /\ \A n \in DOMAIN drafts : n < nextDraftId
  /\ drafts \in [DOMAIN drafts -> RowDraft]
  /\ nextWindowId \in Nat /\ DOMAIN windows \subseteq Nat
  /\ \A w \in DOMAIN windows : w < nextWindowId
  /\ windows \in [DOMAIN windows -> [query : Query, range : Ranges]]

\* W8, W9, W11, W12: a draft follows the row it was checked out from, and only
\* that row, until the row is deleted; one that follows nothing is an orphan or
\* creates a row of its own.
DraftsFollowTheirRow ==
  \A n \in DOMAIN drafts :
    LET d == drafts[n]
    IN  /\ d.rebases <=> (IsBased(d) /\ d.status = "Live")
        /\ d.rebases => d.id \in DOMAIN rows /\ Tracks(d.title, rows[d.id].title)

\* C07, C11 over many rows: an edit that lands changes a row the user has seen
\* as it is now, and never brings a deleted row back.
EditsLandOnWhatTheySaw ==
  [][\A n \in DOMAIN drafts :
       Submit(n) /\ IsBased(drafts[n]) =>
         drafts[n].id \in DOMAIN rows /\ rows[drafts[n].id].title = drafts[n].title.base]_vars

\* W3, W4, W15: windows with one query whose ranges meet show every row they
\* span once and none twice, wherever the clamping cut them.
PagesTile ==
  \A query \in Query : \A ordered \in {Project(rows, query)} :
    LET Between(i, j) == Page(rows, ordered, [start |-> i, end |-> j]).rows
    IN  \A c \in 0..MaxEnd : \A b \in 0..c : \A a \in 0..b :
          Between(a, b) \o Between(b, c) = Between(a, c)
=============================================================================
