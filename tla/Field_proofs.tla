---------------------------- MODULE Field_proofs ----------------------------
(***************************************************************************)
(* Lemmas about the operators on fields, for every set of texts and every  *)
(* sanitizer.  The proofs about drafts, stores and collections cite them.  *)
(***************************************************************************)
EXTENDS Field, TLAPS

USE FieldAssumption

\* NoValue is no value, so a value is never mistaken for "none".
LEMMA NoValueIsNoValue == NoValue \notin Values /\ Values \subseteq Raws
  BY DEF Values

\* Parsing yields an accepted value or nothing.
LEMMA TryNewType ==
  ASSUME NEW accepts \in SUBSET Values, NEW r \in Raws
  PROVE  TryNew(accepts, r) \in Option(Values)
  BY DEF TryNew, Option, Values

-----------------------------------------------------------------------------
(* Field operators keep the field's type *)

\* Field::from_base of a value is a field.
LEMMA FromBaseType ==
  ASSUME NEW v \in Values PROVE FromBase(v) \in FieldType
  BY NoValueIsNoValue DEF FromBase, FieldType, Option

\* Field::new_unset is a field.
LEMMA NewUnsetType == NewUnset \in FieldType
  BY DEF NewUnset, FieldType, Option

\* Field::try_set keeps a field a field, whatever is typed.
LEMMA TrySetType ==
  ASSUME NEW accepts \in SUBSET Values, NEW x \in FieldType, NEW r \in Raws
  PROVE  TrySet(accepts, x, r) \in FieldType
  <1> DEFINE v == TryNew(accepts, r)
  <1>1. v \in Option(Values)  BY TryNewType
  <1>2. CASE v = NoValue
    BY <1>2 DEF TrySet, FieldType, Option
  <1>3. CASE v # NoValue /\ v = x.theirs
    <2>1. v \in Values  BY <1>1, <1>3 DEF Option
    <2>2. TrySet(accepts, x, r) = FromBase(v)  BY <1>3 DEF TrySet
    <2>3. QED  BY <2>1, <2>2, FromBaseType
  <1>4. CASE v # NoValue /\ v # x.theirs
    BY <1>1, <1>4, NoValueIsNoValue DEF TrySet, FieldType, Option
  <1>5. QED  BY <1>2, <1>3, <1>4

\* Field::resolve_keep_mine and resolve_take_theirs keep a field a field.
LEMMA ResolveType ==
  ASSUME NEW x \in FieldType
  PROVE  KeepMine(x) \in FieldType /\ TakeTheirs(x) \in FieldType
  <1>1. KeepMine(x) \in FieldType
    BY DEF KeepMine, IsConflicted, FieldType, Option
  <1>2. TakeTheirs(x) \in FieldType
    <2>1. CASE IsConflicted(x)
      <3>1. x.theirs \in Values  BY <2>1 DEF IsConflicted, FieldType, Option
      <3>2. QED  BY <2>1, <3>1, FromBaseType DEF TakeTheirs
    <2>2. CASE ~IsConflicted(x)  BY <2>2 DEF TakeTheirs
    <2>3. QED  BY <2>1, <2>2
  <1>3. QED  BY <1>1, <1>2

\* Field::rebase keeps a field a field.
LEMMA RebaseType ==
  ASSUME NEW x \in FieldType, NEW t \in Values
  PROVE  Rebase(x, t) \in FieldType
  BY FromBaseType DEF Rebase, FieldType, Option

\* Field::from_stash yields a field with no conflict, whatever was stashed.
LEMMA UnstashFieldType ==
  ASSUME NEW accepts \in SUBSET Values, NEW s \in FieldStashType
  PROVE  /\ UnstashField(accepts, s) \in FieldType
         /\ ~IsConflicted(UnstashField(accepts, s))
  <1> DEFINE p == IF s.base = NoValue THEN NoValue ELSE TryNew(accepts, s.base)
             x == IF p = NoValue THEN NewUnset ELSE FromBase(p)
  <1>1. p \in Option(Values)
    BY TryNewType, NoValueIsNoValue DEF FieldStashType, Option
  <1>2. x \in FieldType
    BY <1>1, NewUnsetType, FromBaseType DEF Option
  <1>3. x.theirs = NoValue  BY DEF NewUnset, FromBase
  <1>4. s.raw # NoValue => s.raw \in Raws  BY DEF FieldStashType, Option
  <1>5. s.raw # NoValue =>
          /\ TrySet(accepts, x, s.raw) \in FieldType
          /\ TrySet(accepts, x, s.raw).theirs = NoValue
    <2> HAVE s.raw # NoValue
    <2>1. TrySet(accepts, x, s.raw) \in FieldType
      BY <1>2, <1>4, TrySetType
    <2>2. TrySet(accepts, x, s.raw).theirs = NoValue
      BY <1>2, <1>3 DEF TrySet, FromBase, FieldType
    <2>3. QED  BY <2>1, <2>2
  <1>6. UnstashField(accepts, s) = IF s.raw = NoValue THEN x
                                   ELSE TrySet(accepts, x, s.raw)
    BY DEF UnstashField
  <1>7. QED  BY <1>2, <1>3, <1>5, <1>6 DEF IsConflicted

-----------------------------------------------------------------------------
(* What the three-way merge does *)

\* After a rebase onto t the field is up to date with t (C15, C19).
LEMMA RebaseTracks ==
  ASSUME NEW x \in FieldType, NEW t \in Values
  PROVE  Tracks(Rebase(x, t), t)
  BY NoValueIsNoValue DEF Tracks, Rebase, IsConflicted, FromBase, FieldType, Option

\* Rebasing twice onto the same canonical value equals rebasing once (C19).
THEOREM RebaseIdempotent ==
  ASSUME NEW x \in FieldType, NEW t \in Values
  PROVE  Rebase(Rebase(x, t), t) = Rebase(x, t)
  <1>1. CASE x.base = t
    BY <1>1 DEF Rebase, FieldType
  <1>2. CASE x.base # t /\ ~IsConflicted(x) /\ (~IsDirty(x) \/ FieldValue(x) = t)
    BY <1>2 DEF Rebase, FromBase
  <1>3. CASE x.base # t /\ ~(~IsConflicted(x) /\ (~IsDirty(x) \/ FieldValue(x) = t))
    <2>1. Rebase(x, t) = [x EXCEPT !.theirs = t]  BY <1>3 DEF Rebase
    <2>2. IsConflicted(Rebase(x, t))
      BY <2>1, NoValueIsNoValue DEF IsConflicted, FieldType
    <2>3. Rebase(x, t).base # t  BY <1>3, <2>1 DEF FieldType
    <2>4. Rebase(Rebase(x, t), t) = [Rebase(x, t) EXCEPT !.theirs = t]
      BY <2>2, <2>3 DEF Rebase
    <2>5. QED  BY <2>1, <2>4 DEF FieldType
  <1>4. QED  BY <1>1, <1>2, <1>3

\* A rebase leaves a dirty edit as it was, and what it does not leave in
\* conflict agrees with t or was made over t (C03, C04).
LEMMA RebaseKeepsDirtyEdit ==
  ASSUME NEW x \in FieldType, NEW t \in Values, IsDirty(x)
  PROVE  /\ Rebase(x, t).raw = x.raw
         /\ Rebase(x, t).validity = x.validity
         /\ IsConflicted(Rebase(x, t)) \/ t \in {FieldValue(x), x.base}
  <1>1. t # NoValue  BY NoValueIsNoValue
  <1>2. CASE x.base = t
    BY <1>2 DEF Rebase, FieldType
  <1>3. CASE x.base # t /\ ~IsConflicted(x) /\ FieldValue(x) = t
    BY <1>1, <1>3 DEF Rebase, FromBase, FieldValue, FieldType
  <1>4. CASE x.base # t /\ ~(~IsConflicted(x) /\ FieldValue(x) = t)
    BY <1>1, <1>4 DEF Rebase, IsConflicted, FieldType
  <1>5. QED  BY <1>2, <1>3, <1>4

\* No edit and no resolution takes a field out of step with canonical.
LEMMA EditTracks ==
  ASSUME NEW accepts \in SUBSET Values, NEW x \in FieldType,
         NEW t \in Values, Tracks(x, t)
  PROVE  /\ \A r \in Raws : Tracks(TrySet(accepts, x, r), t)
         /\ Tracks(KeepMine(x), t)
         /\ Tracks(TakeTheirs(x), t)
  <1>1. \A r \in Raws : Tracks(TrySet(accepts, x, r), t)
    BY NoValueIsNoValue
    DEF Tracks, TrySet, IsConflicted, FromBase, FieldType, Option
  <1>2. Tracks(KeepMine(x), t)
    BY DEF Tracks, KeepMine, IsConflicted, FieldType
  <1>3. Tracks(TakeTheirs(x), t)
    BY DEF Tracks, TakeTheirs, IsConflicted, FromBase, FieldType
  <1>4. QED  BY <1>1, <1>2, <1>3

\* No edit and no resolution gives a field without ancestor and conflict one.
LEMMA EditStaysCreateFlow ==
  ASSUME NEW accepts \in SUBSET Values, NEW x \in FieldType,
         x.base = NoValue, ~IsConflicted(x)
  PROVE  /\ \A r \in Raws : /\ TrySet(accepts, x, r).base = NoValue
                            /\ ~IsConflicted(TrySet(accepts, x, r))
         /\ KeepMine(x) = x /\ TakeTheirs(x) = x
  BY DEF TrySet, KeepMine, TakeTheirs, IsConflicted, FieldType

\* A field that has an ancestor never loses it while the process lives (C12).
LEMMA AncestorStays ==
  ASSUME NEW accepts \in SUBSET Values, NEW x \in FieldType, x.base # NoValue
  PROVE  /\ \A r \in Raws : TrySet(accepts, x, r).base # NoValue
         /\ KeepMine(x).base # NoValue
         /\ TakeTheirs(x).base # NoValue
         /\ \A t \in Values : Rebase(x, t).base # NoValue
  <1>1. \A r \in Raws : TrySet(accepts, x, r).base # NoValue
    BY DEF TrySet, FromBase, FieldType
  <1>2. KeepMine(x).base # NoValue /\ TakeTheirs(x).base # NoValue
    BY DEF KeepMine, TakeTheirs, IsConflicted, FromBase, FieldType
  <1>3. \A t \in Values : Rebase(x, t).base # NoValue
    BY NoValueIsNoValue DEF Rebase, FromBase, FieldType
  <1>4. QED  BY <1>1, <1>2, <1>3

-----------------------------------------------------------------------------
(* Fields hold only what this build's constraints admit *)

\* A valid value, an ancestor and a conflicting value all passed try_new.
Admitted(accepts, x) ==
  /\ x.validity = "Valid" => x.raw \in accepts
  /\ x.base \in Option(accepts)
  /\ x.theirs \in Option(accepts)

\* No operation on a field lets a value in that the constraints reject (C01).
LEMMA EditAdmits ==
  ASSUME NEW accepts \in SUBSET Values, NEW x \in FieldType, Admitted(accepts, x)
  PROVE  /\ \A r \in Raws : Admitted(accepts, TrySet(accepts, x, r))
         /\ Admitted(accepts, KeepMine(x))
         /\ Admitted(accepts, TakeTheirs(x))
  <1>1. \A r \in Raws : Admitted(accepts, TrySet(accepts, x, r))
    BY DEF Admitted, TrySet, TryNew, FromBase, FieldType, Option
  <1>2. Admitted(accepts, KeepMine(x))
    BY DEF Admitted, KeepMine, IsConflicted, FieldType, Option
  <1>3. Admitted(accepts, TakeTheirs(x))
    BY DEF Admitted, TakeTheirs, IsConflicted, FromBase, FieldType, Option
  <1>4. QED  BY <1>1, <1>2, <1>3

\* A rebase onto an admitted value lets no other in.
LEMMA RebaseAdmits ==
  ASSUME NEW accepts \in SUBSET Values, NEW x \in FieldType, NEW t \in accepts,
         Admitted(accepts, x)
  PROVE  Admitted(accepts, Rebase(x, t))
  BY DEF Admitted, Rebase, FromBase, FieldType, Option

\* Whatever an older build stashed, this build restores only what it admits.
LEMMA UnstashFieldAdmits ==
  ASSUME NEW accepts \in SUBSET Values, NEW s \in FieldStashType
  PROVE  Admitted(accepts, UnstashField(accepts, s))
  <1> DEFINE p == IF s.base = NoValue THEN NoValue ELSE TryNew(accepts, s.base)
             x == IF p = NoValue THEN NewUnset ELSE FromBase(p)
  <1>1. p \in Option(accepts)  BY DEF TryNew, Option
  <1>2. x \in FieldType
    BY <1>1, NewUnsetType, FromBaseType DEF Option
  <1>3. Admitted(accepts, x)
    BY <1>1 DEF Admitted, NewUnset, FromBase, Option
  <1>4. s.raw # NoValue => s.raw \in Raws  BY DEF FieldStashType, Option
  <1>5. s.raw # NoValue => Admitted(accepts, TrySet(accepts, x, s.raw))
    BY <1>2, <1>3, <1>4, EditAdmits
  <1>6. UnstashField(accepts, s) = IF s.raw = NoValue THEN x
                                   ELSE TrySet(accepts, x, s.raw)
    BY DEF UnstashField
  <1>7. QED  BY <1>3, <1>5, <1>6

-----------------------------------------------------------------------------
(* Fields that a stash can bring back *)

\* An unset field has nothing to lose, a valid one holds what this build
\* accepts, and an invalid one a text this build rejects.
Recoverable(accepts, x) ==
  /\ x.validity = "Unset" => /\ x.raw = NoValue /\ x.base = NoValue /\ x.theirs = NoValue
  /\ x.validity = "Valid" => x.raw \in accepts
  /\ x.validity = "Invalid" => x.raw \in Raws /\ TryNew(accepts, x.raw) = NoValue

\* A value of this build parses to itself.
LEMMA TryNewOfAccepted ==
  ASSUME NEW accepts \in SUBSET Values, NEW v \in accepts
  PROVE  TryNew(accepts, v) = v /\ v # NoValue /\ v \in Raws
  BY NoValueIsNoValue DEF TryNew, Values

\* A new field, and one taken from canonical, is recoverable.
LEMMA NewFieldsRecover ==
  ASSUME NEW accepts \in SUBSET Values
  PROVE  /\ Recoverable(accepts, NewUnset)
         /\ \A v \in accepts : Recoverable(accepts, FromBase(v))
  BY DEF Recoverable, NewUnset, FromBase

\* No edit and no resolution makes a field that could not be brought back.
LEMMA EditRecovers ==
  ASSUME NEW accepts \in SUBSET Values, NEW x \in FieldType,
         Admitted(accepts, x), Recoverable(accepts, x)
  PROVE  /\ \A r \in Raws : Recoverable(accepts, TrySet(accepts, x, r))
         /\ Recoverable(accepts, KeepMine(x))
         /\ Recoverable(accepts, TakeTheirs(x))
  <1>1. ASSUME NEW r \in Raws PROVE Recoverable(accepts, TrySet(accepts, x, r))
    <2> DEFINE v == TryNew(accepts, r)
    <2>1. v # NoValue => v \in accepts  BY DEF TryNew
    <2>2. CASE v = NoValue
      <3>1. TrySet(accepts, x, r) = [x EXCEPT !.validity = "Invalid", !.raw = r]
        BY <2>2 DEF TrySet
      <3>2. QED  BY <2>2, <3>1 DEF Recoverable, FieldType
    <2>3. CASE v # NoValue /\ v = x.theirs
      <3>1. TrySet(accepts, x, r) = FromBase(v)  BY <2>3 DEF TrySet
      <3>2. QED  BY <2>1, <2>3, <3>1, NewFieldsRecover
    <2>4. CASE v # NoValue /\ v # x.theirs
      <3>1. TrySet(accepts, x, r) = [x EXCEPT !.validity = "Valid", !.raw = v]
        BY <2>4 DEF TrySet
      <3> HIDE DEF v
      <3>2. QED  BY <2>1, <2>4, <3>1 DEF Recoverable, FieldType
    <2>5. QED  BY <2>2, <2>3, <2>4
  <1>2. Recoverable(accepts, KeepMine(x))
    BY DEF Recoverable, KeepMine, IsConflicted, FieldType
  <1>3. Recoverable(accepts, TakeTheirs(x))
    <2>1. IsConflicted(x) => x.theirs \in accepts  BY DEF Admitted, IsConflicted, Option
    <2>2. QED  BY <2>1, NewFieldsRecover DEF TakeTheirs
  <1>4. QED  BY <1>1, <1>2, <1>3

\* Nor does a rebase.
LEMMA RebaseRecovers ==
  ASSUME NEW accepts \in SUBSET Values, NEW x \in FieldType, NEW t \in accepts,
         Recoverable(accepts, x)
  PROVE  Recoverable(accepts, Rebase(x, t))
  <1>1. CASE x.base = t
    BY <1>1 DEF Rebase, Recoverable, FieldType
  <1>2. CASE x.base # t /\ ~IsConflicted(x) /\ (~IsDirty(x) \/ FieldValue(x) = t)
    BY <1>2, NewFieldsRecover DEF Rebase
  <1>3. CASE x.base # t /\ ~(~IsConflicted(x) /\ (~IsDirty(x) \/ FieldValue(x) = t))
    <2>1. Rebase(x, t) = [x EXCEPT !.theirs = t]  BY <1>3 DEF Rebase
    <2>2. x.validity # "Unset"
      BY <1>3 DEF Recoverable, IsConflicted, IsDirty
    <2>3. QED  BY <2>1, <2>2 DEF Recoverable, FieldType
  <1>4. QED  BY <1>1, <1>2, <1>3

\* What from_stash makes of any stash can be stashed again.
LEMMA UnstashRecovers ==
  ASSUME NEW accepts \in SUBSET Values, NEW s \in FieldStashType
  PROVE  Recoverable(accepts, UnstashField(accepts, s))
  <1> DEFINE p == IF s.base = NoValue THEN NoValue ELSE TryNew(accepts, s.base)
             x == IF p = NoValue THEN NewUnset ELSE FromBase(p)
  <1>1. p # NoValue => p \in accepts  BY DEF TryNew
  <1>2. x \in FieldType /\ Admitted(accepts, x) /\ Recoverable(accepts, x)
    <2>1. CASE p = NoValue
      BY <2>1, NewUnsetType, NewFieldsRecover DEF Admitted, NewUnset, Option
    <2>2. CASE p # NoValue
      BY <1>1, <2>2, FromBaseType, NewFieldsRecover DEF Admitted, FromBase, Option
    <2>3. QED  BY <2>1, <2>2
  <1>3. s.raw # NoValue => s.raw \in Raws  BY DEF FieldStashType, Option
  <1>4. s.raw # NoValue => Recoverable(accepts, TrySet(accepts, x, s.raw))
    BY <1>2, <1>3, EditRecovers
  <1>5. UnstashField(accepts, s) = IF s.raw = NoValue THEN x
                                   ELSE TrySet(accepts, x, s.raw)
    BY DEF UnstashField
  <1>6. QED  BY <1>2, <1>4, <1>5

\* A recoverable field comes back from its stash as it was, in sync.
LEMMA UnstashOfStash ==
  ASSUME NEW accepts \in SUBSET Values, NEW x \in FieldType,
         Admitted(accepts, x), Recoverable(accepts, x)
  PROVE  UnstashField(accepts, StashField(x)) = [x EXCEPT !.theirs = NoValue]
  <1> DEFINE s == StashField(x)
             p == IF s.base = NoValue THEN NoValue ELSE TryNew(accepts, s.base)
             f == IF p = NoValue THEN NewUnset ELSE FromBase(p)
             y == UnstashField(accepts, s)
  <1>1. s.raw = x.raw /\ s.base = x.base  BY DEF StashField
  <1>2. p = x.base
    BY <1>1, TryNewOfAccepted DEF Admitted, Option
  <1>3. f \in FieldType /\ f.base = x.base /\ f.theirs = NoValue
    <2>1. x.base \in Option(Values)  BY DEF FieldType
    <2>2. QED  BY <1>2, <2>1, NewUnsetType, FromBaseType DEF NewUnset, FromBase, Option
  <1>4. y = IF s.raw = NoValue THEN f ELSE TrySet(accepts, f, s.raw)
    BY DEF UnstashField
  <1>5. CASE x.validity = "Unset"
    <2>1. y = NewUnset  BY <1>1, <1>2, <1>4, <1>5 DEF Recoverable
    <2>2. x = [validity |-> "Unset", raw |-> NoValue, theirs |-> NoValue, base |-> NoValue]
      BY <1>5 DEF Recoverable, FieldType
    <2>3. QED  BY <2>1, <2>2 DEF NewUnset
  <1>6. CASE x.validity = "Valid"
    <2>1. x.raw \in accepts  BY <1>6 DEF Recoverable
    <2>2. TryNew(accepts, x.raw) = x.raw /\ x.raw # NoValue
      BY <2>1, TryNewOfAccepted
    <2> HIDE DEF f
    <2>3. TrySet(accepts, f, x.raw) = [f EXCEPT !.validity = "Valid", !.raw = x.raw]
      BY <1>3, <2>2 DEF TrySet
    <2>4. y = [f EXCEPT !.validity = "Valid", !.raw = x.raw]
      BY <1>1, <1>4, <2>2, <2>3
    <2>5. QED  BY <1>3, <1>6, <2>4 DEF FieldType
  <1>7. CASE x.validity = "Invalid"
    <2>1. x.raw \in Raws /\ TryNew(accepts, x.raw) = NoValue /\ x.raw # NoValue
      BY <1>7 DEF Recoverable
    <2> HIDE DEF f
    <2>2. y = [f EXCEPT !.validity = "Invalid", !.raw = x.raw]
      BY <1>1, <1>4, <2>1 DEF TrySet
    <2>3. QED  BY <1>3, <1>7, <2>2 DEF FieldType
  <1>8. QED  BY <1>5, <1>6, <1>7 DEF FieldType

\* A field that is up to date with canonical value t survives a stash, a death
\* and a restore over t, but for a conflict its edit has come to agree with.
LEMMA StashRestores ==
  ASSUME NEW accepts \in SUBSET Values, NEW x \in FieldType, NEW t \in accepts,
         Admitted(accepts, x), Recoverable(accepts, x), Tracks(x, t)
  PROVE  LET y == Rebase(UnstashField(accepts, StashField(x)), t)
         IN  \/ y = x
             \/ /\ IsConflicted(x)
                /\ FieldValue(x) \in {x.base, x.theirs}
                /\ y = FromBase(x.theirs)
  <1> DEFINE z == [x EXCEPT !.theirs = NoValue]
             y == Rebase(z, t)
  <1>1. UnstashField(accepts, StashField(x)) = z  BY UnstashOfStash
  <1>2. /\ z.theirs = NoValue /\ z.base = x.base /\ z.raw = x.raw
        /\ z.validity = x.validity
    BY DEF FieldType
  <1>3. FieldValue(z) = FieldValue(x) /\ (IsDirty(z) <=> IsDirty(x)) /\ ~IsConflicted(z)
    BY <1>2 DEF FieldValue, IsDirty, IsConflicted
  <1>4. CASE ~IsConflicted(x)
    <2>1. x.base = t /\ x.theirs = NoValue  BY <1>4 DEF Tracks, IsConflicted
    <2>2. y = x  BY <1>2, <2>1 DEF Rebase, FieldType
    <2>3. QED  BY <1>1, <2>2
  <1>5. CASE IsConflicted(x)
    <2>1. x.theirs = t /\ x.base # t  BY <1>5 DEF Tracks
    <2>2. x.validity # "Unset"  BY <1>5 DEF Recoverable, IsConflicted
    <2>3. CASE ~IsDirty(x) \/ FieldValue(x) = t
      <3>1. y = FromBase(t)  BY <1>2, <1>3, <2>1, <2>3 DEF Rebase
      <3>2. FieldValue(x) \in {x.base, x.theirs}
        BY <2>1, <2>2, <2>3 DEF IsDirty, FieldValue, FieldType
      <3>3. QED  BY <1>1, <1>5, <2>1, <3>1, <3>2
    <2>4. CASE IsDirty(x) /\ FieldValue(x) # t
      <3>1. y = [z EXCEPT !.theirs = t]  BY <1>2, <1>3, <2>1, <2>4 DEF Rebase
      <3>2. y = x  BY <2>1, <3>1 DEF FieldType
      <3>3. QED  BY <1>1, <3>2
    <2>5. QED  BY <2>3, <2>4
  <1>6. QED  BY <1>4, <1>5
=============================================================================
