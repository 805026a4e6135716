------------------------------- MODULE Field -------------------------------
(***************************************************************************)
(* One editable field of a draft (bolted-core/src/field.rs): a validity    *)
(* dimension and a sync dimension over a shared ancestor, `base`.          *)
(*                                                                         *)
(* Text is abstract.  Raws is what a user can type or a stash can hold,    *)
(* Sanitize is the value type's sanitizer (trim, lowercase), and a value   *)
(* IS its sanitized text, so into_raw is the identity on values.  Which    *)
(* sanitized texts satisfy the constraints is the parameter `accepts` of   *)
(* the parsing operators, because a new build of the app may tighten them. *)
(***************************************************************************)
EXTENDS Naturals

CONSTANTS
  Raws,      \* every text an input control or a stash can hand over
  Sanitize,  \* [Raws -> Raws], the value type's sanitizer
  NoValue    \* Rust's None

ASSUME FieldAssumption ==
  /\ NoValue \notin Raws
  /\ Sanitize \in [Raws -> Raws]
  /\ \A r \in Raws : Sanitize[Sanitize[r]] = Sanitize[r]

Values == {r \in Raws : Sanitize[r] = r}

Option(S) == S \cup {NoValue}

\* `raw` is the value of a Valid field and the rejected text of an Invalid
\* one; `theirs` = NoValue is SyncState::InSync.
FieldType == [validity : {"Unset", "Valid", "Invalid"},
              raw      : Option(Raws),
              theirs   : Option(Values),
              base     : Option(Values)]

\* Field::new_unset
NewUnset ==
  [validity |-> "Unset", raw |-> NoValue, theirs |-> NoValue, base |-> NoValue]

\* Field::from_base
FromBase(v) ==
  [validity |-> "Valid", raw |-> v, theirs |-> NoValue, base |-> v]

\* Value::try_new: sanitize, then validate.
TryNew(accepts, r) == IF Sanitize[r] \in accepts THEN Sanitize[r] ELSE NoValue

FieldValue(f) == IF f.validity = "Valid" THEN f.raw ELSE NoValue

IsConflicted(f) == f.theirs # NoValue

\* Value-based dirtiness: never a record of which fields were touched.
IsDirty(f) ==
  \/ f.validity = "Invalid"
  \/ f.validity = "Valid" /\ f.raw # f.base
  \/ f.validity = "Unset" /\ f.base # NoValue

\* A set that lands exactly on `theirs` resolves the conflict (C14); a
\* rejected one keeps the raw attempt and leaves base and sync alone (C06).
TrySet(accepts, f, r) ==
  LET v == TryNew(accepts, r)
  IN  IF v = NoValue       THEN [f EXCEPT !.validity = "Invalid", !.raw = r]
      ELSE IF v = f.theirs THEN FromBase(v)
      ELSE                      [f EXCEPT !.validity = "Valid", !.raw = v]

\* Mutant: forgets to adopt theirs as the new ancestor.
KeepMineOldBase(f) == [f EXCEPT !.theirs = NoValue]

KeepMine(f) ==
  IF IsConflicted(f) THEN [f EXCEPT !.base = f.theirs, !.theirs = NoValue] ELSE f

TakeTheirs(f) == IF IsConflicted(f) THEN FromBase(f.theirs) ELSE f

\* Mutant: the two-way merge the code had before C19.
RebaseTwoWay(f, t) ==
  IF ~IsConflicted(f) /\ (~IsDirty(f) \/ FieldValue(f) = t)
  THEN FromBase(t)
  ELSE [f EXCEPT !.theirs = t]

\* Mutant: a first canonical move replaces a dirty edit.
RebaseOverwriting(f, t) ==
  IF f.base = t THEN [f EXCEPT !.theirs = NoValue]
  ELSE IF ~IsConflicted(f) THEN FromBase(t)
  ELSE [f EXCEPT !.theirs = t]

\* The three-way merge.  Nobody else moved the field: keep yours, clear the
\* conflict.  Clean, or already equal to t: adopt t.  Otherwise (and whenever
\* the field is conflicted already): t becomes `theirs`, base does not move.
Rebase(f, t) ==
  IF f.base = t
  THEN [f EXCEPT !.theirs = NoValue]
  ELSE IF ~IsConflicted(f) /\ (~IsDirty(f) \/ FieldValue(f) = t)
  THEN FromBase(t)
  ELSE [f EXCEPT !.theirs = t]

\* Field x is up to date with canonical value t: a conflict names t and has
\* another ancestor, and without one the ancestor is t.
Tracks(x, t) ==
  IF IsConflicted(x) THEN x.theirs = t /\ x.base # t ELSE x.base = t

\* FieldStash: the last attempt and its ancestor.  Never the sync state.
FieldStashType == [raw : Option(Raws), base : Option(Values)]

\* Mutant: stashes the edit itself as the ancestor.
StashFieldNoAncestor(f) == [raw |-> f.raw, base |-> FieldValue(f)]

StashField(f) == [raw |-> f.raw, base |-> f.base]

\* An ancestor that no longer parses degrades to None; a raw that no longer
\* parses lands as Invalid, as if just typed.
UnstashField(accepts, s) ==
  LET parsed == IF s.base = NoValue THEN NoValue ELSE TryNew(accepts, s.base)
      f      == IF parsed = NoValue THEN NewUnset ELSE FromBase(parsed)
  IN  IF s.raw = NoValue THEN f ELSE TrySet(accepts, f, s.raw)
=============================================================================
