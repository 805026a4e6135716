------------------------------- MODULE Draft -------------------------------
(***************************************************************************)
(* A draft: one field per entity field, the asynchronous check pinned to   *)
(* one of them, and the lifecycle bits.  The shape every declared entity   *)
(* has; fixture-profile/src/profile.rs writes it out by hand and           *)
(* bolted-macros/src/entity.rs generates it.                               *)
(***************************************************************************)
EXTENDS SingleFlight

CONSTANTS
  Fields,       \* the entity's fields
  Checked,      \* the field the asynchronous check is pinned to (username)
  Ruled,        \* the other field of the tier-2 rule (email)
  Forbidden     \* the <<Checked value, Ruled value>> pairs the rule rejects

ASSUME DraftAssumption ==
  /\ {Checked, Ruled} \subseteq Fields
  /\ Forbidden \subseteq Values \X Values
  /\ NoValue \notin [Fields -> Values]

Entities(accepts) == [Fields -> Values \cap accepts]

DraftType == [fields      : [Fields -> FieldType],
              check       : CheckType,
              status      : {"Live", "Orphaned"},
              baseVersion : Nat]

StashType == [fields : [Fields -> FieldStashType], baseVersion : Nat,
              orphaned : BOOLEAN]

FromCanonical(entity, version) ==
  [fields      |-> [f \in Fields |-> FromBase(entity[f])],
   check       |-> NewCheck, status |-> "Live", baseVersion |-> version]

CreateFlow(version) ==
  [fields      |-> [f \in Fields |-> NewUnset],
   check       |-> NewCheck, status |-> "Live", baseVersion |-> version]

\* with_username_guard: whatever turned `before` into `fields`, the check is
\* reset iff the checked field's value moved (C13).
Guarded(d, fields) ==
  [d EXCEPT !.fields = fields,
            !.check  = IF FieldValue(fields[Checked]) = FieldValue(d.fields[Checked])
                       THEN @ ELSE Reset(@)]

SetField(d, f, x) == Guarded(d, [d.fields EXCEPT ![f] = x])

\* Mutant: an orphan rebases too.
RebaseDraftOrphans(d, entity, version) ==
  [Guarded(d, [f \in Fields |-> Rebase(d.fields[f], entity[f])])
     EXCEPT !.baseVersion = version]

\* StoreDraft::rebase: an orphan is based on no canonical at all.
RebaseDraft(d, entity, version) ==
  IF d.status = "Orphaned" THEN d
  ELSE [Guarded(d, [f \in Fields |-> Rebase(d.fields[f], entity[f])])
          EXCEPT !.baseVersion = version]

Orphan(d) == [d EXCEPT !.status = "Orphaned"]

\* An ancestor in any field makes the draft entity-backed (C12).
IsBased(d) == \E f \in Fields : d.fields[f].base # NoValue

Conflicts(d) == {f \in Fields : IsConflicted(d.fields[f])}

\* bolted_ffi::text_of, the text a checker is asked about.
TextOf(d) == d.fields[Checked].raw

\* Tier 1 (every field valid), tier 2 (the rule, over valid values only) and
\* the check, as validate() reports them.
IsValid(d) ==
  /\ \A f \in Fields : d.fields[f].validity = "Valid"
  /\ <<d.fields[Checked].raw, d.fields[Ruled].raw>> \notin Forbidden
  /\ ~Blocks(d.check, IsDirty(d.fields[Checked]))

\* Mutant: commits over an unresolved conflict.
CommitOkConflicted(d) == d.status = "Live" /\ IsValid(d)

\* commit's gates: Orphaned, then Conflicted, then Validation.
CommitOk(d) == d.status = "Live" /\ Conflicts(d) = {} /\ IsValid(d)

EntityOf(d) == [f \in Fields |-> d.fields[f].raw]

Stash(d) ==
  [fields      |-> [f \in Fields |-> StashField(d.fields[f])],
   baseVersion |-> d.baseVersion,
   orphaned    |-> d.status = "Orphaned"]

\* The verdict does not survive: a restored check is Idle with a fresh seq.
FromStash(accepts, s) ==
  [fields      |-> [f \in Fields |-> UnstashField(accepts, s.fields[f])],
   check       |-> NewCheck,
   status      |-> IF s.orphaned THEN "Orphaned" ELSE "Live",
   baseVersion |-> s.baseVersion]
=============================================================================
