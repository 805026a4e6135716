---------------------------- MODULE Facet_proofs ----------------------------
(***************************************************************************)
(* The facet, for any number of threads and drafts: no draft outlives its  *)
(* handle, no checker is lost or asked twice at once, a check that shows   *)
(* Pending is in the hands of a thread that will settle it, and what the   *)
(* shell shows settles on the version its draft is based on.               *)
(*                                                                         *)
(* None of these is inductive.  FInv adds the invariants of the store      *)
(* under the lock, what a thread carries from one critical section of its  *)
(* call to the next (ThreadOK), and that no two threads carry one token;   *)
(* ShowsInv says of the version a draft is based on that it is shown,      *)
(* about to be read, in the draft's ring, still to be pushed, or lost.     *)
(***************************************************************************)
EXTENDS Facet, Store_proofs, FiniteSetTheorems

USE FieldAssumption, DraftAssumption, StoreAssumption

Holding == {"begin", "pending", "outcall", "giveBack"}
Driving == {"pending", "outcall", "giveBack", "complete"}

\* The thread has the five components of Idle.
Shaped(x) == DOMAIN x = {"at", "handle", "token", "verdict", "emits"}

\* What a thread carries through its call, over the handles and tokens there are.
ThreadOK(x, handles, toks) ==
  /\ Shaped(x)
  /\ x.handle \in handles \cup {NoValue}
  /\ x.at \in Holding \cup {"subscribe", "read", "take", "complete"} => x.handle \in handles
  /\ x.at \in {"pending", "outcall", "complete"} => x.token # NoValue
  /\ x.token # NoValue => /\ x.at \in Driving
                          /\ x.token \in toks /\ x.token.id = x.handle
                          /\ x.at \in {"giveBack", "complete"} => x.verdict \in Verdicts

ThreadsInv ==
  /\ threads = [t \in Threads |-> threads[t]]
  /\ \A t \in Threads : ThreadOK(threads[t], Handles, tokens)
  /\ \A t, u \in Threads :
       threads[t].token # NoValue /\ threads[t].token = threads[u].token => t = u

Holds(x, id) == x.handle = id /\ x.at \in Holding

\* A checker is out exactly while a thread holds it, and one thread does.
SlotsInv ==
  \A id \in Handles :
    /\ checkers[id] = "out" <=> \E t \in Threads : Holds(threads[t], id)
    /\ \A t, u \in Threads : Holds(threads[t], id) /\ Holds(threads[u], id) => t = u

\* A stream is subscribed to only while its handle is there.
StreamsInv ==
  DOMAIN rings \subseteq Handles /\ DOMAIN lost = DOMAIN rings /\ DOMAIN shown = DOMAIN rings

HandlesInv ==
  /\ Handles \subseteq 0..(nextId - 1)
  /\ \A h \in Handles : checkers[h] \in {"none", "in", "out"}
  /\ StreamsInv
  /\ NoZombies

FInv == IInv /\ CInv /\ HandlesInv /\ ThreadsInv /\ SlotsInv /\ PendingIsDriven

-----------------------------------------------------------------------------
(* What a step of the store does to the checks *)

\* No check is begun, and what is pending stays as it is or is reset.
QuietStep ==
  \A id \in DOMAIN drafts' :
    drafts'[id].draft.check.state = "Pending" =>
      id \in DOMAIN drafts /\ drafts'[id].draft.check = drafts[id].draft.check

\* An edit or a resolution.
LEMMA EditIsQuiet ==
  ASSUME IInv, NEW id \in DOMAIN drafts, NEW f \in Fields, NEW y, EditField(id, f, y),
         LET x == drafts[id].draft.fields[f]
         IN  \/ \E r \in Raws : y = TrySet(accepts, x, r)
             \/ y \in {KeepMine(x), TakeTheirs(x)}
  PROVE  QuietStep
  <1> DEFINE d == drafts[id].draft
             fields == [d.fields EXCEPT ![f] = y]
             g == Guarded(d, fields)
             e == [drafts[id] EXCEPT !.draft = g]
  <1>1. d \in DraftType /\ accepts \in SUBSET Values /\ drafts[id] \in EntryType
    BY DEF IInv, TypeOK, EntryType
  <1>2. d.fields[f] \in FieldType  BY <1>1 DEF DraftType
  <1>3. y \in FieldType  BY <1>1, <1>2, TrySetType, ResolveType
  <1>4. fields \in [Fields -> FieldType]  BY <1>1, <1>3 DEF DraftType
  <1> HIDE DEF d, fields
  <1>5. g.check = d.check \/ g.check = Reset(d.check)
    BY <1>1, <1>4, GuardedType
  <1>6. Reset(d.check).state = "Idle"  BY DEF Reset
  <1>7. drafts' = [drafts EXCEPT ![id] = e]
    BY DEF EditField, SetField, Update, d, fields
  <1> HIDE DEF g
  <1>8. e.draft = g  BY <1>1 DEF EntryType
  <1> HIDE DEF e
  <1>9. /\ DOMAIN drafts' = DOMAIN drafts
        /\ \A i \in DOMAIN drafts : drafts'[i] = IF i = id THEN e ELSE drafts[i]
    BY <1>7 DEF IInv, TypeOK
  <1>10. drafts'[id].draft.check = drafts[id].draft.check \/ drafts'[id].draft.check.state = "Idle"
    BY <1>5, <1>6, <1>8, <1>9 DEF d
  <1>11. \A i \in DOMAIN drafts \ {id} : drafts'[i] = drafts[i]
    BY <1>9
  <1>12. ASSUME NEW i \in DOMAIN drafts', drafts'[i].draft.check.state = "Pending"
         PROVE  i \in DOMAIN drafts /\ drafts'[i].draft.check = drafts[i].draft.check
    <2>1. CASE i = id  BY <1>10, <1>12, <2>1
    <2>2. CASE i # id  BY <1>9, <1>11, <1>12, <2>2
    <2>3. QED  BY <2>1, <2>2
  <1>13. QED  BY <1>12 DEF QuietStep

\* A draft that is rebased or orphaned keeps its check, or has it reset.
LEMMA RebaseIsQuiet ==
  ASSUME NEW d \in DraftType, NEW entity \in [Fields -> Values], NEW v \in Nat
  PROVE  \/ RebaseDraft(d, entity, v).check = d.check
         \/ RebaseDraft(d, entity, v).check.state = "Idle"
  <1> DEFINE fields == [f \in Fields |-> Rebase(d.fields[f], entity[f])]
  <1>1. CASE d.status = "Orphaned"  BY <1>1 DEF RebaseDraft
  <1>2. CASE d.status = "Live"
    <2>1. fields \in [Fields -> FieldType]  BY RebaseType DEF DraftType
    <2> HIDE DEF fields
    <2>2. d.status = "Live" =>
            RebaseDraft(d, entity, v).check =
              Guarded(d, [f \in Fields |-> Rebase(d.fields[f], entity[f])]).check
      BY RebaseDraftType
    <2>3. RebaseDraft(d, entity, v).check = Guarded(d, fields).check
      BY <1>2, <2>2, Zenon DEF fields
    <2>4. Guarded(d, fields).check \in {d.check, Reset(d.check)}
      BY <2>1, GuardedType
    <2>5. Reset(d.check).state = "Idle"  BY DEF Reset
    <2>6. QED  BY <2>3, <2>4, <2>5
  <1>3. QED  BY <1>1, <1>2 DEF DraftType

\* apply_canonical.
LEMMA ApplyIsQuiet ==
  ASSUME IInv, NEW S \in SUBSET DOMAIN drafts, NEW entity \in Entities(accepts),
         Apply([id \in S |-> drafts[id]], entity)
  PROVE  QuietStep
  <1> DEFINE r(id) == RebaseDraft(drafts[id].draft, entity, version + 1)
             n(id) == IF drafts[id].rebases THEN [drafts[id] EXCEPT !.draft = r(id)]
                      ELSE drafts[id]
  <1>1. drafts' = [id \in S |-> n(id)]  BY DEF Apply, Rebased
  <1>2. version + 1 \in Nat /\ entity \in [Fields -> Values]
    BY CanonicalType DEF IInv, TypeOK
  <1>3. \A id \in S : drafts[id] \in EntryType /\ drafts[id].draft \in DraftType
    BY DEF IInv, TypeOK, EntryType
  <1>4. \A id \in S : r(id).check = drafts[id].draft.check \/ r(id).check.state = "Idle"
    BY <1>2, <1>3, RebaseIsQuiet
  <1> HIDE DEF r
  <1>5. \A id \in S : n(id).draft \in {r(id), drafts[id].draft}
    BY <1>3 DEF EntryType
  <1> HIDE DEF n
  <1>6. QED  BY <1>1, <1>4, <1>5 DEF QuietStep

\* adopt: the check of a new draft is idle.
LEMMA AdoptIsQuiet ==
  ASSUME IInv, NEW d \in DraftType, d.check = NewCheck, Adopt(d)
  PROVE  QuietStep
  <1> DEFINE e == AdoptedEntry(d)
  <1>1. drafts' = [i \in DOMAIN drafts \cup {nextId} |->
                     IF i = nextId THEN e ELSE drafts[i]]
    BY DEF Adopt, Put
  <1>2. e.draft.check.state = "Idle"
    <2>1. NewCheck.state = "Idle"  BY DEF NewCheck
    <2>2. CASE IsBased(d) /\ canonical # NoValue
      <3>1. canonical \in [Fields -> Values] /\ version \in Nat
        BY <2>2, CanonicalType DEF IInv, TypeOK
      <3>2. e.draft = RebaseDraft(d, canonical, version)
        BY <2>2 DEF AdoptedEntry
      <3>3. QED  BY <2>1, <3>1, <3>2, RebaseIsQuiet
    <2>3. CASE ~(IsBased(d) /\ canonical # NoValue)
      <3>1. e.draft \in {d, Orphan(d)}  BY <2>3 DEF AdoptedEntry
      <3>2. Orphan(d).check = d.check  BY DEF Orphan, DraftType
      <3>3. QED  BY <2>1, <3>1, <3>2
    <2>4. QED  BY <2>2, <2>3
  <1> HIDE DEF e
  <1>3. QED  BY <1>1, <1>2 DEF QuietStep

\* Every step of the store but begin_check and complete_check.
LEMMA StoreIsQuiet ==
  ASSUME IInv,
         \/ Checkout \/ Restore \/ DeleteCanonical \/ UNCHANGED drafts
         \/ \E entity \in Entities(accepts) : ApplyCanonical(entity)
         \/ \E id \in DOMAIN drafts :
              \/ \E f \in Fields : \/ \E r \in Raws : SetRaw(id, f, r)
                                   \/ ResolveKeepMine(id, f) \/ ResolveTakeTheirs(id, f)
              \/ Submit(id) \/ Close(id)
  PROVE  QuietStep
  <1>1. TypeOK  BY DEF IInv
  <1>2. CASE Checkout
    <2> DEFINE d == IF canonical = NoValue THEN CreateFlow(version)
                    ELSE FromCanonical(canonical, version)
    <2>1. d \in DraftType  BY <1>1, CheckoutDraft
    <2>2. d.check = NewCheck  BY DEF CreateFlow, FromCanonical
    <2>3. Adopt(d)  BY <1>2 DEF Checkout
    <2> HIDE DEF d
    <2>4. QED  BY <2>1, <2>2, <2>3, AdoptIsQuiet
  <1>3. CASE Restore
    <2>1. stash \in StashType  BY <1>1, <1>3 DEF Restore, TypeOK
    <2>2. FromStash(accepts, stash) \in DraftType  BY <1>1, <2>1, RestoredDraft
    <2>3. FromStash(accepts, stash).check = NewCheck  BY DEF FromStash
    <2>4. QED  BY <1>3, <2>2, <2>3, AdoptIsQuiet DEF Restore
  <1>4. CASE DeleteCanonical
    <2>1. \A id \in DOMAIN drafts :
            /\ drafts[id].draft \in DraftType
            /\ Orphan(drafts[id].draft).check = drafts[id].draft.check
      BY <1>1 DEF TypeOK, EntryType, Orphan, DraftType
    <2>2. /\ DOMAIN drafts' = DOMAIN drafts
          /\ \A id \in DOMAIN drafts :
               drafts'[id].draft \in {drafts[id].draft, Orphan(drafts[id].draft)}
      BY <1>4 DEF DeleteCanonical
    <2>3. QED  BY <2>1, <2>2 DEF QuietStep
  <1>5. CASE UNCHANGED drafts  BY <1>5 DEF QuietStep
  <1>6. CASE \E entity \in Entities(accepts) : ApplyCanonical(entity)
    <2>1. drafts = [id \in DOMAIN drafts |-> drafts[id]]  BY <1>1 DEF TypeOK
    <2>2. QED  BY <1>6, <2>1, ApplyIsQuiet DEF ApplyCanonical
  <1>7. ASSUME NEW id \in DOMAIN drafts, NEW f \in Fields,
               \/ \E r \in Raws : SetRaw(id, f, r)
               \/ ResolveKeepMine(id, f) \/ ResolveTakeTheirs(id, f)
        PROVE  QuietStep
    BY <1>7, EditIsQuiet DEF SetRaw, ResolveKeepMine, ResolveTakeTheirs
  <1>8. ASSUME NEW id \in DOMAIN drafts, Submit(id) PROVE QuietStep
    <2>1. EntityOf(drafts[id].draft) \in Entities(accepts)
      BY <1>1, <1>8, CommitsAnEntity DEF Submit, IInv
    <2>2. Apply([i \in DOMAIN drafts \ {id} |-> drafts[i]], EntityOf(drafts[id].draft))
      BY <1>8 DEF Submit, Without
    <2>3. QED  BY <2>1, <2>2, ApplyIsQuiet
  <1>9. ASSUME NEW id \in DOMAIN drafts, Close(id) PROVE QuietStep
    BY <1>9 DEF Close, Without, QuietStep
  <1>10. QED  BY <1>2, <1>3, <1>4, <1>5, <1>6, <1>7, <1>8, <1>9

-----------------------------------------------------------------------------
(* What a step of one thread leaves of the others *)

\* The threads, when t moves on to x and at most its own token is consumed.
LEMMA ThreadStep ==
  ASSUME ThreadsInv, NEW t \in Threads, NEW x, threads' = [threads EXCEPT ![t] = x],
         ThreadOK(x, Handles', tokens'), Handles \subseteq Handles',
         tokens \ {threads[t].token} \subseteq tokens',
         x.token # NoValue => \A u \in Threads \ {t} : x.token # threads[u].token
  PROVE  ThreadsInv'
  <1>1. /\ threads' = [u \in Threads |-> threads'[u]]
        /\ threads'[t] = x /\ \A u \in Threads \ {t} : threads'[u] = threads[u]
    BY DEF ThreadsInv
  <1>2. ASSUME NEW u \in Threads \ {t} PROVE ThreadOK(threads[u], Handles', tokens')
    <2>1. ThreadOK(threads[u], Handles, tokens)  BY DEF ThreadsInv
    <2>2. threads[u].token # NoValue => threads[u].token # threads[t].token
      BY DEF ThreadsInv
    <2>3. QED  BY <2>1, <2>2 DEF ThreadOK
  <1>3. \A u \in Threads : ThreadOK(threads'[u], Handles', tokens')
    BY <1>1, <1>2
  <1>4. ASSUME NEW u \in Threads, NEW v \in Threads,
               threads'[u].token # NoValue, threads'[u].token = threads'[v].token
        PROVE  u = v
    BY <1>1, <1>4 DEF ThreadsInv
  <1>5. QED  BY <1>1, <1>3, <1>4 DEF ThreadsInv

\* The slots, when t holds afterwards what it held before.
LEMMA SlotsStep ==
  ASSUME ThreadsInv, SlotsInv, NEW t \in Threads, NEW x,
         threads' = [threads EXCEPT ![t] = x],
         \A id : Holds(x, id) <=> Holds(threads[t], id),
         \A id \in Handles' : IF id \in Handles THEN checkers'[id] = checkers[id]
                              ELSE checkers'[id] # "out"
  PROVE  SlotsInv'
  <1>1. threads'[t] = x /\ \A u \in Threads \ {t} : threads'[u] = threads[u]
    BY DEF ThreadsInv
  <1>2. \A u \in Threads : \A id : Holds(threads'[u], id) <=> Holds(threads[u], id)
    BY <1>1
  <1>3. \A u \in Threads : \A id : Holds(threads[u], id) => id \in Handles
    BY DEF ThreadsInv, ThreadOK, Holds
  <1>4. QED  BY <1>2, <1>3 DEF SlotsInv

\* The pending checks, when t keeps the token it drives one with.
LEMMA DrivenStep ==
  ASSUME ThreadsInv, PendingIsDriven, QuietStep, NEW t \in Threads, NEW x,
         threads' = [threads EXCEPT ![t] = x],
         threads[t].token # NoValue => x.at \in Driving /\ x.token = threads[t].token
  PROVE  PendingIsDriven'
  <1>1. threads'[t] = x /\ \A u \in Threads \ {t} : threads'[u] = threads[u]
    BY DEF ThreadsInv
  <1>2. \A u \in Threads : threads[u].token # NoValue /\ threads[u].at \in Driving =>
          threads'[u].at \in Driving /\ threads'[u].token = threads[u].token
    BY <1>1
  <1>3. QED  BY <1>2 DEF PendingIsDriven, QuietStep, Driving

\* The streams a step subscribes to.
Subscribes(ids) == /\ DOMAIN rings' = DOMAIN rings \cup ids
                   /\ DOMAIN lost' = DOMAIN lost \cup ids
                   /\ DOMAIN shown' = DOMAIN shown \cup ids

\* A push and an unchanged stream subscribe to nothing.
LEMMA NoNewStream ==
  ASSUME \/ UNCHANGED streamVars
         \/ UNCHANGED shown /\ \E stream, v : Offer(stream, v)
  PROVE  Subscribes({})
  BY DEF Subscribes, streamVars, Offer

\* The handles, when a step opens and drops none.
LEMMA HandlesStep ==
  ASSUME HandlesInv, UNCHANGED checkers, nextId' = nextId,
         DOMAIN drafts' \subseteq DOMAIN drafts, NEW ids \in SUBSET Handles, Subscribes(ids)
  PROVE  HandlesInv' /\ Handles' = Handles
  BY DEF HandlesInv, StreamsInv, NoZombies, Handles, Subscribes

\* A step that neither takes part in a check nor touches a slot.
LEMMA QuietCall ==
  ASSUME FInv, IInv', CInv', HandlesInv', QuietStep, tokens \subseteq tokens',
         Handles \subseteq Handles', NEW t \in Threads, NEW x,
         threads[t].at \notin Holding \cup Driving,
         threads' = [threads EXCEPT ![t] = x], Shaped(x), x.token = NoValue,
         \/ x.at \in {"idle", "push"} /\ x.handle \in Handles' \cup {NoValue}
         \/ x.at \in {"subscribe", "read", "take"} /\ x.handle \in Handles',
         \A id \in Handles' : IF id \in Handles THEN checkers'[id] = checkers[id]
                              ELSE checkers'[id] # "out"
  PROVE  FInv'
  <1>1. ThreadOK(x, Handles', tokens')
    BY DEF ThreadOK, Holding
  <1>2. ThreadsInv'
    BY <1>1, ThreadStep DEF FInv
  <1>3. \A id : Holds(x, id) <=> Holds(threads[t], id)
    BY DEF Holds, Holding
  <1>4. SlotsInv'
    BY <1>3, SlotsStep DEF FInv
  <1>5. threads[t].token = NoValue
    BY DEF FInv, ThreadsInv, ThreadOK
  <1>6. PendingIsDriven'
    BY <1>5, DrivenStep DEF FInv
  <1>7. QED  BY <1>2, <1>4, <1>6 DEF FInv

\* A thread that enters a call, or leaves one.
LEMMA IdleShape ==
  /\ Shaped(Idle) /\ Idle.token = NoValue /\ Idle.at = "idle" /\ Idle.handle = NoValue
  /\ \A at, h : LET x == [Idle EXCEPT !.at = at, !.handle = h]
                IN  Shaped(x) /\ x.token = NoValue /\ x.at = at /\ x.handle = h
  <1>1. Shaped(Idle) /\ Idle.token = NoValue /\ Idle.at = "idle" /\ Idle.handle = NoValue
    BY DEF Shaped, Idle
  <1>2. ASSUME NEW at, NEW h
        PROVE  LET x == [Idle EXCEPT !.at = at, !.handle = h]
               IN  Shaped(x) /\ x.token = NoValue /\ x.at = at /\ x.handle = h
    BY DEF Shaped, Idle
  <1>3. QED  BY <1>1, <1>2

\* flush: the thread is left with snapshots to push, or its call is over.
LEMMA FlushShape ==
  ASSUME NEW t, NEW h, NEW emits, Flush(t, h, emits)
  PROVE  \E x : /\ threads' = [threads EXCEPT ![t] = x]
                /\ Shaped(x) /\ x.at \in {"idle", "push"}
                /\ x.token = NoValue /\ x.handle \in {h, NoValue}
  <1> DEFINE x == IF emits = {} THEN Idle
                  ELSE [Idle EXCEPT !.at = "push", !.handle = h, !.emits = emits]
  <1>1. threads' = [threads EXCEPT ![t] = x]  BY DEF Flush
  <1>2. /\ Shaped(x) /\ x.at \in {"idle", "push"}
        /\ x.token = NoValue /\ x.handle \in {h, NoValue}
    BY DEF Shaped, Idle
  <1> HIDE DEF x
  <1>3. QED  BY <1>1, <1>2

\* The steps of the store that a call makes under the lock.
LEMMA CoreStep ==
  ASSUME FInv, [Next]_vars PROVE IInv' /\ CInv'
  BY NextInv, CheckNext DEF FInv

\* What the steps of the store leave alone.
LEMMA StoreFrame ==
  ASSUME \/ DeleteCanonical \/ UNCHANGED vars
         \/ \E entity \in Entities(accepts) : ApplyCanonical(entity)
         \/ \E id \in DOMAIN drafts :
              \/ \E f \in Fields : \/ \E r \in Raws : SetRaw(id, f, r)
                                   \/ ResolveKeepMine(id, f) \/ ResolveTakeTheirs(id, f)
              \/ Submit(id) \/ Close(id)
  PROVE  tokens' = tokens /\ nextId' = nextId /\ DOMAIN drafts' \subseteq DOMAIN drafts
  <1>1. CASE DeleteCanonical \/ UNCHANGED vars  BY <1>1 DEF DeleteCanonical, vars
  <1>2. CASE \E entity \in Entities(accepts) : ApplyCanonical(entity)
    BY <1>2 DEF ApplyCanonical, Apply, Rebased
  <1>3. ASSUME NEW id, NEW f, NEW y, EditField(id, f, y)
        PROVE  tokens' = tokens /\ nextId' = nextId /\ DOMAIN drafts' \subseteq DOMAIN drafts
    BY <1>3 DEF EditField, Update
  <1>4. CASE \E id \in DOMAIN drafts : Submit(id) \/ Close(id)
    BY <1>4 DEF Submit, Close, Apply, Rebased, Without
  <1>5. QED
    BY <1>1, <1>2, <1>3, <1>4 DEF SetRaw, ResolveKeepMine, ResolveTakeTheirs

-----------------------------------------------------------------------------
(* The calls *)

\* Calls of one critical section, and a thread that pushes what it left.
LEMMA SectionKeeps ==
  ASSUME FInv, NEW t \in Threads,
         \/ /\ threads[t] = Idle
            /\ \/ \E id \in Handles \cap DOMAIN drafts : CallEdit(t, id) \/ CallSubmit(t, id)
               \/ CallApplyCanonical(t) \/ CallDeleteCanonical(t)
         \/ Push(t)
  PROVE  FInv'
  <1> DEFINE Core == \/ DeleteCanonical \/ UNCHANGED vars
                     \/ \E entity \in Entities(accepts) : ApplyCanonical(entity)
                     \/ \E id \in DOMAIN drafts :
                          \/ \E f \in Fields :
                               \/ \E r \in Raws : SetRaw(id, f, r)
                               \/ ResolveKeepMine(id, f) \/ ResolveTakeTheirs(id, f)
                          \/ Submit(id) \/ Close(id)
  <1>1. /\ Core /\ UNCHANGED checkers /\ Subscribes({})
        /\ threads[t].at \in {"idle", "push"}
        /\ \E h \in Handles \cup {NoValue} : \E emits : Flush(t, h, emits)
    <2>1. ASSUME NEW id \in Handles \cap DOMAIN drafts, CallEdit(t, id) \/ CallSubmit(t, id)
          PROVE  /\ Core /\ UNCHANGED <<checkers, streamVars>>
                 /\ \E h \in Handles \cup {NoValue} : \E emits : Flush(t, h, emits)
      BY <2>1 DEF CallEdit, CallSubmit
    <2>2. ASSUME CallApplyCanonical(t) \/ CallDeleteCanonical(t)
          PROVE  /\ Core /\ UNCHANGED <<checkers, streamVars>>
                 /\ \E h \in Handles \cup {NoValue} : \E emits : Flush(t, h, emits)
      BY <2>2 DEF CallApplyCanonical, CallDeleteCanonical
    <2>3. ASSUME Push(t)
          PROVE  /\ UNCHANGED <<vars, checkers>> /\ threads[t].at = "push"
                 /\ Subscribes({})
                 /\ \E h \in Handles \cup {NoValue} : \E emits : Flush(t, h, emits)
      <3>1. threads[t].handle \in Handles \cup {NoValue}
        BY DEF FInv, ThreadsInv, ThreadOK
      <3>2. Subscribes({})  BY <2>3, NoNewStream DEF Push
      <3>3. QED  BY <2>3, <3>1, <3>2 DEF Push
    <2>4. Idle.at = "idle"  BY DEF Idle
    <2> HIDE DEF Core
    <2>5. UNCHANGED vars => Core  BY DEF Core
    <2>6. UNCHANGED streamVars => Subscribes({})  BY NoNewStream
    <2>7. QED  BY <2>1, <2>2, <2>3, <2>4, <2>5, <2>6
  <1>2. [Next]_vars  BY <1>1 DEF Next, UserStep
  <1>3. QuietStep /\ tokens' = tokens /\ nextId' = nextId /\ DOMAIN drafts' \subseteq DOMAIN drafts
    BY <1>1, StoreIsQuiet, StoreFrame DEF FInv, vars
  <1> HIDE DEF Core
  <1>4. IInv' /\ CInv'  BY <1>2, CoreStep
  <1>5. HandlesInv' /\ Handles' = Handles
    BY <1>1, <1>3, HandlesStep DEF FInv
  <1>6. PICK h \in Handles \cup {NoValue} : \E emits : Flush(t, h, emits)  BY <1>1
  <1>7. PICK x : /\ threads' = [threads EXCEPT ![t] = x]
                 /\ Shaped(x) /\ x.at \in {"idle", "push"}
                 /\ x.token = NoValue /\ x.handle \in {h, NoValue}
    BY <1>6, FlushShape
  <1>8. QED
    BY <1>1, <1>3, <1>4, <1>5, <1>7, QuietCall DEF Holding, Driving

\* checkout, restore, the subscription and the first read; a check asked for,
\* and one that is refused because there is no checker in the slot.
LEMMA OpenKeeps ==
  ASSUME FInv, NEW t \in Threads,
         \/ threads[t] = Idle /\ CallOpen(t)
         \/ threads[t] = Idle /\ \E id \in Handles \cap DOMAIN drafts : RunCheck(t, id)
         \/ Subscribe(t) \/ ReadFirst(t)
         \/ Take(t) /\ checkers[threads[t].handle] # "in"
  PROVE  FInv'
  <1>0. /\ threads[t].at = "idle" \/ threads[t].handle \in Handles \/ threads[t].at = "push"
        /\ Idle.at = "idle"
    BY DEF FInv, ThreadsInv, ThreadOK, Idle, Take, Subscribe, ReadFirst
  <1>1. CASE threads[t] = Idle /\ CallOpen(t)
    <2> DEFINE x == [Idle EXCEPT !.at = "subscribe", !.handle = nextId]
    <2>1. /\ Shaped(x) /\ x.token = NoValue /\ x.at = "subscribe" /\ x.handle = nextId
      BY IdleShape
    <2>2. /\ Checkout \/ Restore
          /\ threads' = [threads EXCEPT ![t] = x] /\ UNCHANGED streamVars
          /\ \E slot \in {"none", "in"} :
               checkers' = [h \in Handles \cup {nextId} |->
                              IF h = nextId THEN slot ELSE checkers[h]]
      BY <1>1 DEF CallOpen, InCall
    <2> HIDE DEF x
    <2>3. [Next]_vars /\ QuietStep  BY <2>2, StoreIsQuiet DEF Next, FInv
    <2>4. IInv' /\ CInv'  BY <2>3, CoreStep
    <2>5. /\ tokens' = tokens /\ nextId' = nextId + 1
          /\ DOMAIN drafts' = DOMAIN drafts \cup {nextId}
      BY <2>2 DEF Checkout, Restore, Adopt, Put
    <2>6. nextId \in Nat /\ nextId \notin Handles  BY DEF FInv, IInv, TypeOK, HandlesInv
    <2>7. Handles' = Handles \cup {nextId}  BY <2>2 DEF Handles
    <2>8. HandlesInv'
      <3>1. Handles' \subseteq 0..(nextId' - 1)
        BY <2>5, <2>6, <2>7 DEF FInv, HandlesInv
      <3>2. \A h \in Handles' : checkers'[h] \in {"none", "in", "out"}
        BY <2>2, <2>7 DEF FInv, HandlesInv
      <3>3. NoZombies' /\ StreamsInv'
        BY <2>2, <2>5, <2>7 DEF FInv, HandlesInv, NoZombies, StreamsInv, streamVars
      <3>4. QED  BY <3>1, <3>2, <3>3 DEF HandlesInv
    <2>9. \A id \in Handles' : IF id \in Handles THEN checkers'[id] = checkers[id]
                               ELSE checkers'[id] # "out"
      BY <2>2, <2>6, <2>7
    <2>10. threads[t].at \notin Holding \cup Driving
      BY <1>0, <1>1 DEF Holding, Driving
    <2>11. x.handle \in Handles'  BY <2>1, <2>7
    <2>12. QED
      BY <2>1, <2>2, <2>3, <2>4, <2>5, <2>7, <2>8, <2>9, <2>10, <2>11, QuietCall
  <1>2. CASE \/ threads[t] = Idle /\ \E id \in Handles \cap DOMAIN drafts : RunCheck(t, id)
             \/ Subscribe(t) \/ ReadFirst(t)
             \/ Take(t) /\ checkers[threads[t].handle] # "in"
    <2>1. /\ UNCHANGED <<vars, checkers>>
          /\ \E ids \in SUBSET Handles : Subscribes(ids)
          /\ threads[t].at \in {"idle", "subscribe", "read", "take"}
      <3>1. CASE Subscribe(t)
        <4>1. threads[t].handle \in Handles
          BY <3>1 DEF Subscribe, FInv, ThreadsInv, ThreadOK
        <4>2. Subscribes({threads[t].handle})
          BY <3>1 DEF Subscribe, Subscribed, Subscribes
        <4>3. QED  BY <3>1, <4>1, <4>2 DEF Subscribe
      <3>2. CASE ReadFirst(t)
        <4>1. Subscribes({})  BY <3>2 DEF ReadFirst, Subscribes
        <4>2. QED  BY <3>2, <4>1 DEF ReadFirst
      <3>3. CASE \/ threads[t] = Idle /\ \E id \in Handles \cap DOMAIN drafts : RunCheck(t, id)
                 \/ Take(t) /\ checkers[threads[t].handle] # "in"
        <4>1. UNCHANGED <<vars, checkers, streamVars>>  BY <3>3 DEF RunCheck, Take
        <4>2. Subscribes({})  BY <4>1, NoNewStream
        <4>3. QED  BY <1>0, <3>3, <4>1, <4>2 DEF Take
      <3>4. QED  BY <1>2, <3>1, <3>2, <3>3
    <2>2. \E x : /\ threads' = [threads EXCEPT ![t] = x]
                 /\ Shaped(x) /\ x.token = NoValue
                 /\ \/ x.at = "idle" /\ x.handle = NoValue
                    \/ x.at \in {"take", "read"} /\ x.handle \in Handles
      <3>1. ASSUME NEW id \in Handles, RunCheck(t, id)
            PROVE  \E x : /\ threads' = [threads EXCEPT ![t] = x]
                          /\ Shaped(x) /\ x.token = NoValue
                          /\ x.at = "take" /\ x.handle \in Handles
        <4> DEFINE x == [Idle EXCEPT !.at = "take", !.handle = id]
        <4>1. threads' = [threads EXCEPT ![t] = x]  BY <3>1 DEF RunCheck, InCall
        <4>2. Shaped(x) /\ x.token = NoValue /\ x.at = "take" /\ x.handle = id
          BY IdleShape
        <4> HIDE DEF x
        <4>3. QED  BY <4>1, <4>2
      <3>2. CASE Subscribe(t)
        <4> DEFINE x == [threads[t] EXCEPT !.at = "read"]
        <4>1. threads' = [threads EXCEPT ![t] = x]  BY <3>2 DEF Subscribe, Goto
        <4>2. /\ ThreadOK(threads[t], Handles, tokens) /\ threads[t].at = "subscribe"
          BY <3>2 DEF Subscribe, FInv, ThreadsInv
        <4>3. /\ Shaped(x) /\ x.token = NoValue /\ x.at = "read" /\ x.handle \in Handles
          BY <4>2 DEF ThreadOK, Shaped, Driving
        <4> HIDE DEF x
        <4>4. QED  BY <4>1, <4>3
      <3>3. CASE \/ ReadFirst(t)
                 \/ Take(t) /\ checkers[threads[t].handle] # "in"
        <4>1. threads' = [threads EXCEPT ![t] = Idle]
          BY <3>3 DEF ReadFirst, Take, Return
        <4>2. Shaped(Idle) /\ Idle.token = NoValue /\ Idle.at = "idle" /\ Idle.handle = NoValue
          BY IdleShape
        <4>3. QED  BY <4>1, <4>2
      <3>4. CASE \E id \in Handles \cap DOMAIN drafts : RunCheck(t, id)
        BY <3>1, <3>4
      <3>5. QED
        <4>1. \/ Subscribe(t) \/ ReadFirst(t)
              \/ Take(t) /\ checkers[threads[t].handle] # "in"
              \/ \E id \in Handles \cap DOMAIN drafts : RunCheck(t, id)
          BY <1>2
        <4>2. QED  BY <3>2, <3>3, <3>4, <4>1
    <2>3. PICK x : /\ threads' = [threads EXCEPT ![t] = x]
                   /\ Shaped(x) /\ x.token = NoValue
                   /\ \/ x.at = "idle" /\ x.handle = NoValue
                      \/ x.at \in {"take", "read"} /\ x.handle \in Handles
      BY <2>2
    <2>4. QuietStep /\ tokens' = tokens /\ nextId' = nextId /\ drafts' = drafts
      BY <2>1, StoreIsQuiet DEF vars, FInv
    <2>5. IInv' /\ CInv'  BY <2>1, CoreStep
    <2>6. HandlesInv' /\ Handles' = Handles
      BY <2>1, <2>4, HandlesStep DEF FInv
    <2>7. QED  BY <2>1, <2>3, <2>4, <2>5, <2>6, QuietCall DEF Holding, Driving
  <1>3. QED  BY <1>1, <1>2

\* What a thread's own components say of it.
LEMMA ThreadFacts ==
  ASSUME FInv, NEW t \in Threads
  PROVE  /\ ThreadOK(threads[t], Handles, tokens)
         /\ \A id : Holds(threads[t], id) => id \in Handles
         /\ \A u \in Threads \ {t} :
              threads[t].token # NoValue => threads[t].token # threads[u].token
  BY DEF FInv, ThreadsInv, ThreadOK, Holds

\* The checker leaves its slot: it was in it, so no thread held it.
LEMMA TakeKeeps ==
  ASSUME FInv, NEW t \in Threads, Take(t), checkers[threads[t].handle] = "in"
  PROVE  FInv'
  <1> DEFINE id == threads[t].handle
             x == [threads[t] EXCEPT !.at = "begin"]
  <1>1. /\ threads[t].at = "take" /\ threads' = [threads EXCEPT ![t] = x]
        /\ checkers' = [checkers EXCEPT ![id] = "out"] /\ UNCHANGED <<vars, streamVars>>
    BY DEF Take, Goto
  <1>2. ThreadOK(threads[t], Handles, tokens)  BY ThreadFacts
  <1>3. /\ id \in Handles /\ threads[t].token = NoValue
        /\ Shaped(x) /\ x.at = "begin" /\ x.handle = id /\ x.token = NoValue
    BY <1>1, <1>2 DEF ThreadOK, Shaped, Driving
  <1>4. ThreadOK(x, Handles, tokens)
    BY <1>3 DEF ThreadOK
  <1> HIDE DEF x
  <1>5. QuietStep /\ UNCHANGED <<tokens, nextId, drafts>>
    BY <1>1, StoreIsQuiet DEF vars, FInv
  <1>6. IInv' /\ CInv'  BY <1>1, CoreStep
  <1>7. /\ Handles' = Handles
        /\ \A h \in Handles : checkers'[h] = IF h = id THEN "out" ELSE checkers[h]
    BY <1>1 DEF Handles
  <1>8. HandlesInv'
    BY <1>1, <1>5, <1>7 DEF FInv, HandlesInv, NoZombies, StreamsInv, streamVars
  <1>9. ThreadsInv'
    BY <1>1, <1>3, <1>4, <1>5, <1>7, ThreadStep DEF FInv
  <1>10. SlotsInv'
    <2>1. threads'[t] = x /\ \A u \in Threads \ {t} : threads'[u] = threads[u]
      BY <1>1 DEF FInv, ThreadsInv
    <2>2. \A u \in Threads : ~Holds(threads[u], id)
      BY <1>3 DEF FInv, SlotsInv
    <2>3. \A h : Holds(x, h) <=> h = id
      BY <1>3 DEF Holds, Holding
    <2>4. \A h : ~Holds(threads[t], h)
      BY <1>1 DEF Holds, Holding
    <2>5. \A u \in Threads, h \in Handles :
            Holds(threads'[u], h) <=> IF h = id THEN u = t ELSE Holds(threads[u], h)
      BY <2>1, <2>2, <2>3, <2>4
    <2>6. QED  BY <1>3, <1>7, <2>5 DEF FInv, SlotsInv
  <1>11. PendingIsDriven'
    BY <1>1, <1>3, <1>5, DrivenStep DEF FInv
  <1>12. QED  BY <1>6, <1>8, <1>9, <1>10, <1>11 DEF FInv

\* The thread moves on through the outcall: it keeps handle, token and slot.
LEMMA OutcallKeeps ==
  ASSUME FInv, NEW t \in Threads,
         \/ PushPending(t) \/ Answer(t)
         \/ BeginOutcall(t) /\ threads[t].handle \notin DOMAIN drafts
  PROVE  FInv'
  <1> DEFINE y == threads[t]
  <1>1. ThreadOK(y, Handles, tokens)  BY ThreadFacts
  <1>2. /\ UNCHANGED <<vars, checkers>> /\ Subscribes({})
        /\ y.at \in Holding
        /\ \E x : /\ threads' = [threads EXCEPT ![t] = x] /\ Shaped(x)
                  /\ x.handle = y.handle /\ x.token = y.token /\ x.at \in Holding
                  /\ x.at = "outcall" => y.at = "pending"
                  /\ x.at \in {"outcall", "giveBack"}
                  /\ x.at = "giveBack" => y.at = "begin" \/ x.verdict \in Verdicts
    <2>1. CASE PushPending(t)
      <3> DEFINE x == [y EXCEPT !.at = "outcall", !.emits = {}]
      <3>1. threads' = [threads EXCEPT ![t] = x] /\ UNCHANGED <<vars, checkers>>
        BY <2>1 DEF PushPending
      <3>2. /\ Shaped(x) /\ x.handle = y.handle /\ x.token = y.token /\ x.at = "outcall"
        BY <1>1 DEF ThreadOK, Shaped
      <3>3. y.at = "pending" /\ Subscribes({})
        BY <2>1, NoNewStream DEF PushPending
      <3> HIDE DEF x
      <3>4. QED  BY <3>1, <3>2, <3>3 DEF Holding
    <2>2. CASE Answer(t)
      <3>1. PICK verdict \in Verdicts :
              threads' = [threads EXCEPT ![t].at = "giveBack", ![t].verdict = verdict]
        BY <2>2 DEF Answer
      <3> DEFINE x == [y EXCEPT !.at = "giveBack", !.verdict = verdict]
      <3>2. threads' = [threads EXCEPT ![t] = x]
        BY <3>1
      <3>3. /\ Shaped(x) /\ x.handle = y.handle /\ x.token = y.token
            /\ x.at = "giveBack" /\ x.verdict = verdict
        BY <1>1 DEF ThreadOK, Shaped
      <3>4. y.at = "outcall" /\ UNCHANGED <<vars, checkers>> /\ Subscribes({})
        BY <2>2, NoNewStream DEF Answer
      <3> HIDE DEF x
      <3>5. QED  BY <3>2, <3>3, <3>4 DEF Holding
    <2>3. CASE BeginOutcall(t) /\ threads[t].handle \notin DOMAIN drafts
      <3> DEFINE x == [y EXCEPT !.at = "giveBack"]
      <3>1. /\ threads' = [threads EXCEPT ![t] = x]
            /\ y.at = "begin" /\ UNCHANGED <<vars, checkers>> /\ Subscribes({})
        BY <2>3, NoNewStream DEF BeginOutcall, Goto
      <3>2. /\ Shaped(x) /\ x.handle = y.handle /\ x.token = y.token /\ x.at = "giveBack"
        BY <1>1 DEF ThreadOK, Shaped
      <3> HIDE DEF x
      <3>3. QED  BY <3>1, <3>2 DEF Holding
    <2>4. QED  BY <2>1, <2>2, <2>3
  <1>3. PICK x : /\ threads' = [threads EXCEPT ![t] = x] /\ Shaped(x)
                 /\ x.handle = y.handle /\ x.token = y.token /\ x.at \in Holding
                 /\ x.at = "outcall" => y.at = "pending"
                 /\ x.at \in {"outcall", "giveBack"}
                 /\ x.at = "giveBack" => y.at = "begin" \/ x.verdict \in Verdicts
    BY <1>2
  <1>4. QuietStep /\ UNCHANGED <<tokens, nextId, drafts>>
    BY <1>2, StoreIsQuiet DEF vars, FInv
  <1>5. IInv' /\ CInv'  BY <1>2, CoreStep
  <1>6. HandlesInv' /\ Handles' = Handles
    BY <1>2, <1>4, HandlesStep DEF FInv
  <1>7. ThreadOK(x, Handles, tokens)
    BY <1>1, <1>2, <1>3 DEF ThreadOK, Holding, Driving
  <1>8. ThreadsInv'
    BY <1>3, <1>4, <1>6, <1>7, ThreadFacts, ThreadStep DEF FInv
  <1>9. SlotsInv'
    BY <1>2, <1>3, <1>6, SlotsStep DEF FInv, Holds
  <1>10. PendingIsDriven'
    BY <1>3, <1>4, DrivenStep DEF FInv, Driving
  <1>11. QED  BY <1>5, <1>6, <1>8, <1>9, <1>10 DEF FInv

\* The checker goes back: its one holder lets it go.
LEMMA GiveBackKeeps ==
  ASSUME FInv, NEW t \in Threads, GiveBack(t)
  PROVE  FInv'
  <1> DEFINE y == threads[t]
             id == y.handle
  <1>1. ThreadOK(y, Handles, tokens)  BY ThreadFacts
  <1>2. /\ y.at = "giveBack" /\ checkers' = [checkers EXCEPT ![id] = "in"]
        /\ UNCHANGED <<vars, streamVars>> /\ id \in Handles
    BY <1>1 DEF GiveBack, SlotAfter, ThreadOK, Holding
  <1>3. \E x : /\ threads' = [threads EXCEPT ![t] = x] /\ Shaped(x)
               /\ x.token = y.token
               /\ \/ x.token = NoValue /\ x.at = "idle" /\ x.handle = NoValue
                  \/ /\ x.token # NoValue /\ x.at = "complete"
                     /\ x.handle = id /\ x.verdict = y.verdict
    <2>1. CASE y.token = NoValue
      <3>1. threads' = [threads EXCEPT ![t] = Idle]
        BY <2>1 DEF GiveBack, Return
      <3>2. QED  BY <2>1, <3>1, IdleShape
    <2>2. CASE y.token # NoValue
      <3> DEFINE x == [y EXCEPT !.at = "complete"]
      <3>1. threads' = [threads EXCEPT ![t] = x]
        BY <2>2 DEF GiveBack, Goto
      <3>2. /\ Shaped(x) /\ x.token = y.token /\ x.at = "complete"
            /\ x.handle = id /\ x.verdict = y.verdict
        BY <1>1 DEF ThreadOK, Shaped
      <3> HIDE DEF x
      <3>3. QED  BY <2>2, <3>1, <3>2
    <2>3. QED  BY <2>1, <2>2
  <1>4. PICK x : /\ threads' = [threads EXCEPT ![t] = x] /\ Shaped(x)
                 /\ x.token = y.token
                 /\ \/ x.token = NoValue /\ x.at = "idle" /\ x.handle = NoValue
                    \/ /\ x.token # NoValue /\ x.at = "complete"
                       /\ x.handle = id /\ x.verdict = y.verdict
    BY <1>3
  <1>5. QuietStep /\ UNCHANGED <<tokens, nextId, drafts>>
    BY <1>2, StoreIsQuiet DEF vars, FInv
  <1>6. IInv' /\ CInv'  BY <1>2, CoreStep
  <1>7. /\ Handles' = Handles
        /\ \A h \in Handles : checkers'[h] = IF h = id THEN "in" ELSE checkers[h]
    BY <1>2 DEF Handles
  <1>8. HandlesInv'
    BY <1>2, <1>5, <1>7 DEF FInv, HandlesInv, NoZombies, StreamsInv, streamVars
  <1>9. ThreadOK(x, Handles, tokens)
    BY <1>1, <1>2, <1>4 DEF ThreadOK, Holding, Driving
  <1>10. ThreadsInv'
    BY <1>4, <1>5, <1>7, <1>9, ThreadFacts, ThreadStep DEF FInv
  <1>11. SlotsInv'
    <2>1. threads'[t] = x /\ \A u \in Threads \ {t} : threads'[u] = threads[u]
      BY <1>4 DEF FInv, ThreadsInv
    <2>2. \A u \in Threads \ {t} : ~Holds(threads[u], id)
      BY <1>2 DEF FInv, SlotsInv, Holds, Holding
    <2>3. \A h : ~Holds(x, h)
      BY <1>4 DEF Holds, Holding
    <2>4. \A h : Holds(y, h) => h = id
      BY DEF Holds
    <2>5. \A u \in Threads, h \in Handles :
            Holds(threads'[u], h) <=> h # id /\ Holds(threads[u], h)
      BY <2>1, <2>2, <2>3, <2>4
    <2>6. QED  BY <1>2, <1>7, <2>5 DEF FInv, SlotsInv
  <1>12. PendingIsDriven'
    BY <1>4, <1>5, DrivenStep DEF FInv, Driving
  <1>13. QED  BY <1>6, <1>8, <1>10, <1>11, <1>12 DEF FInv

\* begin_check, for a draft that is still there: the token it mints is new, so
\* no other thread carries it.
LEMMA BeginKeeps ==
  ASSUME FInv, NEW t \in Threads, BeginOutcall(t), threads[t].handle \in DOMAIN drafts
  PROVE  FInv'
  <1> DEFINE y == threads[t]
             id == y.handle
             c == Begin(drafts[id].draft.check, TextOf(drafts[id].draft))
             token == [id |-> id, seq |-> c.seq, text |-> c.about]
             minted == CHOOSE k \in tokens' : k \notin tokens
             emits == DraftEmits({id})
             x == [y EXCEPT !.at = "pending", !.token = minted, !.emits = emits]
  <1>1. ThreadOK(y, Handles, tokens)  BY ThreadFacts
  <1>2. /\ y.at = "begin" /\ BeginCheck(id) /\ UNCHANGED <<checkers, streamVars>>
        /\ threads' = [threads EXCEPT ![t] = x]
    BY DEF BeginOutcall
  <1>3. id \in Handles /\ id \in DOMAIN drafts /\ y.token = NoValue
    BY <1>1, <1>2 DEF ThreadOK, Holding, Driving
  <1> HIDE DEF emits, minted
  <1>4. Shaped(x) /\ x.at = "pending" /\ x.token = minted /\ x.handle = id
    BY <1>1 DEF ThreadOK, Shaped
  <1> HIDE DEF x
  <1> USE DEF minted
  <1>5. /\ tokens' = tokens \cup {token} /\ UNCHANGED nextId
        /\ Update(id, [drafts[id].draft EXCEPT !.check = c])
    BY <1>2 DEF BeginCheck
  <1>6. drafts[id] \in EntryType /\ drafts[id].draft \in DraftType /\ drafts[id].draft.check.seq \in Nat
    BY <1>3 DEF FInv, IInv, TypeOK, EntryType, DraftType, CheckType
  <1>7. c.seq = drafts[id].draft.check.seq + 1 /\ c.state = "Pending"
    BY DEF Begin
  <1>8. token.id = id /\ token.seq = c.seq  OBVIOUS
  <1> HIDE DEF c, token
  <1>9. IInv' /\ CInv'
    BY <1>2, <1>3, CoreStep DEF Next, UserStep
  <1>10. token \in TokenType
    BY <1>5, <1>9 DEF IInv, TypeOK
  <1>11. token \notin tokens /\ token # NoValue
    <2>1. \A k \in tokens : k.id = id => k.seq <= drafts[id].draft.check.seq /\ k.seq \in Nat
      BY <1>3 DEF FInv, CInv, CheckInv, IInv, TypeOK, TokenType
    <2>2. QED  BY <1>6, <1>7, <1>8, <1>10, <2>1, FacetAssumption
  <1>12. minted = token
    BY <1>5, <1>11
  <1> HIDE DEF minted
  <1>13. /\ DOMAIN drafts' = DOMAIN drafts
         /\ drafts'[id].draft.check = c
         /\ \A i \in DOMAIN drafts \ {id} : drafts'[i] = drafts[i]
    BY <1>3, <1>5, <1>6 DEF Update, EntryType, DraftType
  <1>14. HandlesInv' /\ Handles' = Handles
    BY <1>2, <1>5, <1>13, NoNewStream, HandlesStep DEF FInv
  <1>15. ThreadsInv'
    <2>1. ThreadOK(x, Handles, tokens')
      BY <1>3, <1>4, <1>5, <1>8, <1>11, <1>12 DEF ThreadOK, Holding, Driving
    <2>2. \A u \in Threads : threads[u].token # token
      BY <1>11 DEF FInv, ThreadsInv, ThreadOK
    <2>3. QED
      BY <1>2, <1>4, <1>5, <1>12, <1>14, <2>1, <2>2, ThreadStep DEF FInv
  <1>16. SlotsInv'
    BY <1>2, <1>4, <1>14, SlotsStep DEF FInv, Holds, Holding
  <1>17. PendingIsDriven'
    <2>1. threads'[t] = x /\ \A u \in Threads \ {t} : threads'[u] = threads[u]
      BY <1>2 DEF FInv, ThreadsInv
    <2>2. Accepts(c, token)
      BY <1>7, <1>8 DEF Accepts
    <2>3. \A i \in DOMAIN drafts \ {id} :
            drafts[i].draft.check.state = "Pending" =>
              \E u \in Threads \ {t} :
                /\ threads[u].at \in {"pending", "outcall", "giveBack", "complete"}
                /\ threads[u].token # NoValue /\ threads[u].token.id = i
                /\ Accepts(drafts[i].draft.check, threads[u].token)
      BY <1>3 DEF FInv, PendingIsDriven
    <2>4. \A i \in DOMAIN drafts \ {id} :
            drafts'[i].draft.check.state = "Pending" =>
              \E u \in Threads :
                /\ threads'[u].at \in {"pending", "outcall", "giveBack", "complete"}
                /\ threads'[u].token # NoValue /\ threads'[u].token.id = i
                /\ Accepts(drafts'[i].draft.check, threads'[u].token)
      BY <1>13, <2>1, <2>3
    <2>5. /\ threads'[t].at \in {"pending", "outcall", "giveBack", "complete"}
          /\ threads'[t].token # NoValue /\ threads'[t].token.id = id
          /\ Accepts(drafts'[id].draft.check, threads'[t].token)
      BY <1>4, <1>8, <1>11, <1>12, <1>13, <2>1, <2>2
    <2>6. QED  BY <1>13, <2>4, <2>5 DEF PendingIsDriven
  <1>18. QED  BY <1>9, <1>14, <1>15, <1>16, <1>17 DEF FInv

\* complete_check: the answer settles the check its thread drove, or finds it
\* superseded, and no other.
LEMMA SettleKeeps ==
  ASSUME FInv, NEW t \in Threads, Settle(t)
  PROVE  FInv'
  <1> DEFINE y == threads[t]
             token == y.token
  <1>1. ThreadOK(y, Handles, tokens)  BY ThreadFacts
  <1>2. /\ y.at = "complete" /\ CompleteCheck(token, y.verdict) /\ UNCHANGED <<checkers, streamVars>>
        /\ \E emits : Flush(t, y.handle, emits)
    BY DEF Settle
  <1>3. token \in tokens /\ token # NoValue /\ y.verdict \in Verdicts /\ y.handle \in Handles
    BY <1>1, <1>2 DEF ThreadOK
  <1>4. PICK x : /\ threads' = [threads EXCEPT ![t] = x]
                 /\ Shaped(x) /\ x.at \in {"idle", "push"}
                 /\ x.token = NoValue /\ x.handle \in {y.handle, NoValue}
    BY <1>2, FlushShape
  <1>5. IInv' /\ CInv'
    BY <1>2, <1>3, CoreStep DEF Next
  <1>6. /\ tokens' = tokens \ {token} /\ UNCHANGED nextId /\ DOMAIN drafts' = DOMAIN drafts
    BY <1>2 DEF CompleteCheck, Update
  <1>7. \A i \in DOMAIN drafts :
          drafts'[i].draft.check.state = "Pending" =>
            /\ drafts'[i].draft.check = drafts[i].draft.check
            /\ i = token.id => ~Accepts(drafts[i].draft.check, token)
    <2>1. CASE token.id \in DOMAIN drafts
      <3> DEFINE d == drafts[token.id].draft
                 c == Complete(d.check, token, y.verdict)
                 n == [d EXCEPT !.check = c]
      <3>1. Update(token.id, n)  BY <1>2, <2>1 DEF CompleteCheck
      <3>2. drafts[token.id] \in EntryType /\ d \in DraftType /\ d.check \in CheckType
        BY <2>1 DEF FInv, IInv, TypeOK, EntryType, DraftType
      <3>3. c.state = "Pending" => c = d.check /\ ~Accepts(d.check, token)
        BY <1>3, <3>2 DEF Complete, CheckType, Verdicts
      <3> HIDE DEF c
      <3>4. n.check = c  BY <3>2 DEF DraftType
      <3> HIDE DEF n
      <3>5. /\ drafts'[token.id].draft = n
            /\ \A i \in DOMAIN drafts \ {token.id} : drafts'[i] = drafts[i]
        BY <2>1, <3>1, <3>2 DEF Update, EntryType
      <3>6. QED  BY <3>3, <3>4, <3>5
    <2>2. CASE token.id \notin DOMAIN drafts
      BY <1>2, <2>2 DEF CompleteCheck
    <2>3. QED  BY <2>1, <2>2
  <1>8. HandlesInv' /\ Handles' = Handles
    BY <1>2, <1>6, NoNewStream, HandlesStep DEF FInv
  <1>9. ThreadsInv'
    <2>1. ThreadOK(x, Handles, tokens')
      BY <1>3, <1>4 DEF ThreadOK, Holding
    <2>2. QED
      BY <1>4, <1>6, <1>8, <2>1, ThreadStep DEF FInv
  <1>10. SlotsInv'
    BY <1>2, <1>4, <1>8, SlotsStep DEF FInv, Holds, Holding
  <1>11. PendingIsDriven'
    <2>1. \A u \in Threads \ {t} : threads'[u] = threads[u]
      BY <1>4 DEF FInv, ThreadsInv
    <2>2. ASSUME NEW i \in DOMAIN drafts, drafts'[i].draft.check.state = "Pending"
          PROVE  \E u \in Threads :
                   /\ threads'[u].at \in {"pending", "outcall", "giveBack", "complete"}
                   /\ threads'[u].token # NoValue /\ threads'[u].token.id = i
                   /\ Accepts(drafts'[i].draft.check, threads'[u].token)
      <3>1. drafts'[i].draft.check = drafts[i].draft.check
        BY <1>7, <2>2
      <3>2. PICK u \in Threads :
              /\ threads[u].at \in {"pending", "outcall", "giveBack", "complete"}
              /\ threads[u].token # NoValue /\ threads[u].token.id = i
              /\ Accepts(drafts[i].draft.check, threads[u].token)
        BY <2>2, <3>1 DEF FInv, PendingIsDriven
      <3>3. u # t  BY <1>7, <2>2, <3>2
      <3>4. QED  BY <2>1, <3>1, <3>2, <3>3
    <2>3. QED  BY <1>6, <2>2 DEF PendingIsDriven
  <1>12. QED  BY <1>5, <1>8, <1>9, <1>10, <1>11 DEF FInv

-----------------------------------------------------------------------------
(* The handles *)

\* stash, of a draft or of a tombstone.
LEMMA StashKeeps ==
  ASSUME FInv, NEW id \in Handles, CallStash(id) PROVE FInv'
  <1>1. /\ UNCHANGED <<canonical, version, drafts, nextId, tokens, accepts>>
        /\ UNCHANGED <<checkers, threads, streamVars>>
    BY DEF CallStash, SaveStash
  <1>2. IInv'
    <2>1. CASE id \in DOMAIN drafts
      BY <2>1, CoreStep DEF CallStash, Next, UserStep
    <2>2. CASE id \notin DOMAIN drafts
      <3>1. stash' = Stash(CreateFlow(0))  BY <2>2 DEF CallStash
      <3>2. CreateFlow(0) \in DraftType
        <4>1. NewCheck \in CheckType  BY DEF NewCheck, CheckType, Option
        <4>2. NewUnset \in FieldType  BY NewUnsetType
        <4> HIDE DEF NewUnset
        <4>3. QED  BY <4>1, <4>2 DEF CreateFlow, DraftType
      <3>3. stash' \in StashType  BY <3>1, <3>2, StashOfDraft
      <3>4. QED  BY <1>1, <3>3, Assembled DEF FInv, IInv, TypeOK
    <2>3. QED  BY <2>1, <2>2
  <1>3. CInv'  BY <1>1 DEF FInv, CInv
  <1>4. HandlesInv' /\ ThreadsInv' /\ SlotsInv' /\ PendingIsDriven'
    BY <1>1 DEF FInv, HandlesInv, NoZombies, StreamsInv, streamVars, Handles, ThreadsInv,
                SlotsInv, PendingIsDriven
  <1>5. QED  BY <1>2, <1>3, <1>4 DEF FInv

\* Drop: the draft goes with its handle, which no thread is in a call of.
LEMMA DropKeeps ==
  ASSUME FInv, NEW id \in Handles, DropHandle(id) PROVE FInv'
  <1>1. /\ \A t \in Threads : threads[t].handle # id
        /\ UNCHANGED threads
        /\ checkers' = [h \in Handles \ {id} |-> checkers[h]]
        /\ rings' = [s \in DOMAIN rings \ {id} |-> rings[s]]
        /\ lost' = [s \in DOMAIN lost \ {id} |-> lost[s]]
        /\ shown' = [s \in DOMAIN shown \ {id} |-> shown[s]]
    BY DEF DropHandle
  <1>2. \/ id \in DOMAIN drafts /\ Close(id)
        \/ id \notin DOMAIN drafts /\ UNCHANGED vars
    BY DEF DropHandle, Release
  <1>3. IInv' /\ CInv'
    BY <1>2, CoreStep DEF Next, UserStep
  <1>4. /\ UNCHANGED <<tokens, nextId>> /\ DOMAIN drafts' = DOMAIN drafts \ {id}
        /\ \A i \in DOMAIN drafts' : drafts'[i] = drafts[i]
    <2>1. CASE id \in DOMAIN drafts /\ Close(id)  BY <2>1 DEF Close, Without
    <2>2. CASE id \notin DOMAIN drafts /\ UNCHANGED vars  BY <2>2 DEF vars
    <2>3. QED  BY <1>2, <2>1, <2>2
  <1>5. Handles' = Handles \ {id} /\ \A h \in Handles' : checkers'[h] = checkers[h]
    BY <1>1 DEF Handles
  <1>6. HandlesInv'
    BY <1>1, <1>4, <1>5 DEF FInv, HandlesInv, NoZombies, StreamsInv
  <1>7. ThreadsInv'
    <2>1. \A t \in Threads : ThreadOK(threads[t], Handles', tokens)
      BY <1>1, <1>5 DEF FInv, ThreadsInv, ThreadOK
    <2>2. QED  BY <1>1, <1>4, <2>1 DEF FInv, ThreadsInv
  <1>8. SlotsInv'
    BY <1>1, <1>5 DEF FInv, SlotsInv
  <1>9. PendingIsDriven'
    BY <1>1, <1>4 DEF FInv, PendingIsDriven
  <1>10. QED  BY <1>3, <1>6, <1>7, <1>8, <1>9 DEF FInv

\* A delivery changes what is in the ring and what is shown.
LEMMA DeliverKeeps ==
  ASSUME FInv, NEW stream \in DOMAIN rings, Deliver(stream) PROVE FInv'
  <1>1. /\ UNCHANGED <<vars, checkers, threads>> /\ UNCHANGED <<drafts, tokens, nextId>>
        /\ DOMAIN rings' = DOMAIN rings /\ DOMAIN lost' = DOMAIN lost
        /\ DOMAIN shown' = DOMAIN shown
    BY DEF Deliver, vars
  <1>2. IInv' /\ CInv'  BY <1>1, CoreStep
  <1>3. QED
    BY <1>1, <1>2 DEF FInv, HandlesInv, NoZombies, StreamsInv, Handles, ThreadsInv,
                       SlotsInv, PendingIsDriven

-----------------------------------------------------------------------------
(* The invariant *)

\* new(): nothing is open and no thread is in a call.
LEMMA FacetInitInv == FacetInit => FInv
  <1> SUFFICES ASSUME FacetInit PROVE FInv  OBVIOUS
  <1>1. /\ IInv /\ drafts = Empty /\ tokens = {} /\ nextId = 0
        /\ checkers = Empty /\ rings = Empty /\ lost = Empty /\ shown = Empty
    BY InitInv DEF FacetInit, Init
  <1>2. threads = [t \in Threads |-> threads[t]] /\ \A t \in Threads : threads[t] = Idle
    BY DEF FacetInit
  <1>3. CInv /\ HandlesInv /\ Handles = {}
    BY <1>1 DEF CInv, HandlesInv, NoZombies, StreamsInv, Handles, Empty
  <1>4. \A t \in Threads : ThreadOK(threads[t], Handles, tokens)
    BY <1>2, IdleShape DEF ThreadOK, Holding
  <1>5. ThreadsInv
    BY <1>2, <1>4, IdleShape DEF ThreadsInv
  <1>6. SlotsInv /\ PendingIsDriven
    BY <1>1, <1>3 DEF SlotsInv, PendingIsDriven, Empty
  <1>7. QED  BY <1>1, <1>3, <1>5, <1>6 DEF FInv

\* A call, a continuation of one, an answer, or the handles.
LEMMA FacetNextInv == FInv /\ [FacetNext]_facetVars => FInv'
  <1> SUFFICES ASSUME FInv, [FacetNext]_facetVars PROVE FInv'  OBVIOUS
  <1>1. ASSUME NEW t \in Threads, Call(t) PROVE FInv'
    BY <1>1, SectionKeeps, OpenKeeps DEF Call
  <1>2. ASSUME NEW t \in Threads, Continue(t) PROVE FInv'
    <2>1. CASE Push(t)  BY <2>1, SectionKeeps
    <2>2. CASE Subscribe(t) \/ ReadFirst(t)  BY <2>2, OpenKeeps
    <2>3. CASE Take(t)  BY <2>3, TakeKeeps, OpenKeeps
    <2>4. CASE BeginOutcall(t)  BY <2>4, BeginKeeps, OutcallKeeps
    <2>5. CASE PushPending(t)  BY <2>5, OutcallKeeps
    <2>6. CASE GiveBack(t)  BY <2>6, GiveBackKeeps
    <2>7. CASE Settle(t)  BY <2>7, SettleKeeps
    <2>8. QED
      BY <1>2, <2>1, <2>2, <2>3, <2>4, <2>5, <2>6, <2>7 DEF Continue
  <1>3. ASSUME NEW t \in Threads, Answer(t) PROVE FInv'
    BY <1>3, OutcallKeeps
  <1>4. ASSUME NEW id \in Handles, CallStash(id) \/ DropHandle(id) PROVE FInv'
    BY <1>4, StashKeeps, DropKeeps
  <1>5. ASSUME NEW stream \in DOMAIN rings, Deliver(stream) PROVE FInv'
    BY <1>5, DeliverKeeps
  <1>6. CASE UNCHANGED facetVars
    <2>1. /\ UNCHANGED vars /\ UNCHANGED <<checkers, threads, streamVars>>
          /\ UNCHANGED <<drafts, tokens, nextId>>
      BY <1>6 DEF facetVars, vars
    <2>2. IInv' /\ CInv'  BY <2>1, CoreStep
    <2>3. QED
      BY <2>1, <2>2 DEF FInv, HandlesInv, NoZombies, StreamsInv, streamVars, Handles,
                         ThreadsInv, SlotsInv, PendingIsDriven
  <1>7. QED
    BY <1>1, <1>2, <1>3, <1>4, <1>5, <1>6 DEF FacetNext

\* FInv is an invariant.
LEMMA FacetInvariant == FacetSpec => []FInv
  BY FacetInitInv, FacetNextInv, PTL DEF FacetSpec

-----------------------------------------------------------------------------
(* What the shell shows *)

BaseOf(ds, id) == ds[id].draft.baseVersion

\* What a thread has still to push: of each draft a snapshot at a version the
\* draft has had.
EmitsOK(x, ds, n) ==
  /\ x.emits # {} <=> x.at \in {"push", "pending"}
  /\ x.at = "pending" => \A e, o \in x.emits : e = o
  /\ \A e \in x.emits :
       e.stream # StoreStream =>
         /\ e.stream \in 0..(n - 1)
         /\ e.version \in Nat
         /\ e.stream \in DOMAIN ds => e.version <= BaseOf(ds, e.stream)

Reads(x, id) == x.at = "read" /\ x.handle = id
Carries(x, id, v) == \E m \in x.emits : m.stream = id /\ m.version = v

\* A ring holds versions, and no more than its slots.
Fits(ring) == ring \in Seq(Nat) /\ Len(ring) <= RingCapacity

\* Version v is in the ring.
InRing(ring, v) == \E k \in 1..Len(ring) : ring[k] = v

\* Neither the ring nor what it lost is ahead of version `base`.
RingOK(ring, dropped, base) ==
  /\ dropped \in Nat /\ dropped <= base
  /\ \A v \in Nat : InRing(ring, v) => v <= base

\* Of a draft whose stream is subscribed to, the shell is about to read the
\* version; or it shows no version ahead of it, and it shows this one, has lost
\* it, or has it in the ring or on its way there.
Followed(id) ==
  /\ RingOK(rings[id], lost[id], BaseOf(drafts, id))
  /\ \/ \E t \in Threads : Reads(threads[t], id)
     \/ /\ shown[id] \in Nat /\ shown[id] <= BaseOf(drafts, id)
        /\ \/ shown[id] = BaseOf(drafts, id) \/ lost[id] = BaseOf(drafts, id)
           \/ InRing(rings[id], BaseOf(drafts, id))
           \/ \E t \in Threads : Carries(threads[t], id, BaseOf(drafts, id))

\* Every such draft is followed, and every ring keeps its size.
ShowsInv ==
  /\ nextId <= MaxDrafts
  /\ \A t \in Threads : EmitsOK(threads[t], drafts, nextId)
  /\ \A s \in DOMAIN rings : Fits(rings[s])
  /\ \A id \in DOMAIN drafts \cap DOMAIN rings : Followed(id)

\* A push into a ring.
LEMMA Appended ==
  ASSUME NEW ring \in Seq(Nat), NEW v \in Nat
  PROVE  /\ Append(ring, v) \in Seq(Nat) /\ Len(Append(ring, v)) = Len(ring) + 1
         /\ \A w : InRing(Append(ring, v), w) <=> w = v \/ InRing(ring, w)
  <1>1. /\ Append(ring, v) \in Seq(Nat) /\ Len(Append(ring, v)) = Len(ring) + 1
        /\ Len(ring) \in Nat /\ Append(ring, v)[Len(ring) + 1] = v
        /\ \A k \in 1..Len(ring) : Append(ring, v)[k] = ring[k]
    OBVIOUS
  <1>2. 1..(Len(ring) + 1) = 1..Len(ring) \cup {Len(ring) + 1}
    BY <1>1
  <1>3. QED  BY <1>1, <1>2, Zenon DEF InRing

\* A delivery from a ring.
LEMMA Delivered ==
  ASSUME NEW ring \in Seq(Nat), ring # <<>>
  PROVE  /\ Tail(ring) \in Seq(Nat) /\ Len(Tail(ring)) <= Len(ring) /\ Head(ring) \in Nat
         /\ \A w : InRing(ring, w) <=> w = Head(ring) \/ InRing(Tail(ring), w)
  <1>1. /\ Tail(ring) \in Seq(Nat) /\ Len(Tail(ring)) = Len(ring) - 1
        /\ Len(ring) \in Nat \ {0} /\ Head(ring) = ring[1] /\ Head(ring) \in Nat
        /\ \A k \in 1..Len(Tail(ring)) : Tail(ring)[k] = ring[k + 1]
    OBVIOUS
  <1>2. ASSUME NEW w, InRing(ring, w) PROVE w = Head(ring) \/ InRing(Tail(ring), w)
    <2>1. PICK k \in 1..Len(ring) : ring[k] = w  BY <1>2 DEF InRing
    <2>2. CASE k = 1  BY <1>1, <2>1, <2>2
    <2>3. CASE k # 1
      <3>1. k - 1 \in 1..Len(Tail(ring)) /\ Tail(ring)[k - 1] = w
        BY <1>1, <2>1, <2>3
      <3>2. QED  BY <3>1 DEF InRing
    <2>4. QED  BY <2>2, <2>3
  <1>3. ASSUME NEW w, InRing(Tail(ring), w) PROVE InRing(ring, w)
    <2>1. PICK k \in 1..Len(Tail(ring)) : Tail(ring)[k] = w  BY <1>3 DEF InRing
    <2>2. k + 1 \in 1..Len(ring) /\ ring[k + 1] = w  BY <1>1, <2>1
    <2>3. QED  BY <2>2 DEF InRing
  <1>4. InRing(ring, Head(ring))  BY <1>1 DEF InRing
  <1>5. QED  BY <1>1, <1>2, <1>3, <1>4

\* The snapshots a critical section leaves are of its drafts as it leaves them.
LEMMA DraftEmitsShape ==
  ASSUME IInv', NEW ids \in SUBSET DOMAIN drafts'
  PROVE  /\ \A e \in DraftEmits(ids) :
              /\ e.stream \in ids /\ e.stream \in 0..(nextId' - 1)
              /\ e.version \in Nat /\ e.version = BaseOf(drafts', e.stream)
         /\ \A id \in ids : \E e \in DraftEmits(ids) :
              e.stream = id /\ e.version = BaseOf(drafts', id)
  <1>1. \A id \in ids : BaseOf(drafts', id) \in Nat /\ id \in 0..(nextId' - 1)
    BY DEF IInv, TypeOK, EntryType, DraftType, BaseOf
  <1> DEFINE E(id) == [stream |-> id, version |-> drafts'[id].draft.baseVersion]
  <1>2. \A id \in ids : E(id).stream = id /\ E(id).version = BaseOf(drafts', id)
    BY DEF BaseOf
  <1>3. DraftEmits(ids) = {E(id) : id \in ids}
    BY DEF DraftEmits
  <1> HIDE DEF E
  <1>4. ASSUME NEW e \in DraftEmits(ids)
        PROVE  /\ e.stream \in ids /\ e.stream \in 0..(nextId' - 1)
               /\ e.version \in Nat /\ e.version = BaseOf(drafts', e.stream)
    <2>1. PICK id \in ids : e = E(id)  BY <1>3
    <2>2. QED  BY <1>1, <1>2, <2>1
  <1>5. ASSUME NEW id \in ids
        PROVE  \E e \in DraftEmits(ids) : e.stream = id /\ e.version = BaseOf(drafts', id)
    BY <1>2, <1>3
  <1>6. QED  BY <1>4, <1>5

\* The versions drafts are based on are numbers.
LEMMA BasesAreNat ==
  ASSUME IInv PROVE \A id \in DOMAIN drafts : BaseOf(drafts, id) \in Nat /\ id \in 0..(nextId - 1)
  BY DEF IInv, TypeOK, EntryType, DraftType, BaseOf

\* A thread that had nothing to push and was not reading moves on to x, which
\* carries the new version of every draft that was moved.
LEMMA ShowsStep ==
  ASSUME FInv, IInv', ShowsInv, NEW t \in Threads, NEW x,
         threads' = [threads EXCEPT ![t] = x],
         threads[t].emits = {}, threads[t].at # "read", UNCHANGED streamVars,
         EmitsOK(x, drafts', nextId'), nextId <= nextId', nextId' <= MaxDrafts,
         \A id \in DOMAIN drafts' : id \in DOMAIN drafts \/ id = nextId,
         \A id \in DOMAIN drafts' \cap DOMAIN drafts :
           \/ BaseOf(drafts', id) = BaseOf(drafts, id)
           \/ /\ BaseOf(drafts, id) <= BaseOf(drafts', id)
              /\ Carries(x, id, BaseOf(drafts', id))
  PROVE  ShowsInv'
  <1>1. threads'[t] = x /\ \A u \in Threads \ {t} : threads'[u] = threads[u]
    BY DEF FInv, ThreadsInv
  <1>2. /\ \A id \in DOMAIN drafts : BaseOf(drafts, id) \in Nat /\ id \in 0..(nextId - 1)
        /\ \A id \in DOMAIN drafts' : BaseOf(drafts', id) \in Nat /\ id \in 0..(nextId' - 1)
    <2>1. \A id \in DOMAIN drafts : BaseOf(drafts, id) \in Nat /\ id \in 0..(nextId - 1)
      BY BasesAreNat DEF FInv
    <2>2. \A id \in DOMAIN drafts' : BaseOf(drafts', id) \in Nat /\ id \in 0..(nextId' - 1)
      BY DEF IInv, TypeOK, EntryType, DraftType, BaseOf
    <2>3. QED  BY <2>1, <2>2
  <1>3. nextId \in Nat /\ nextId' \in Nat /\ MaxDrafts \in Nat
    BY DEF FInv, IInv, TypeOK
  <1>4. /\ rings' = rings /\ lost' = lost /\ shown' = shown
        /\ \A id \in DOMAIN drafts' \cap DOMAIN rings : id \in DOMAIN drafts
    BY <1>2, <1>3 DEF FInv, HandlesInv, StreamsInv, streamVars
  <1>5. \A id \in DOMAIN drafts' \cap DOMAIN drafts : BaseOf(drafts, id) <= BaseOf(drafts', id)
    BY <1>2
  <1>6. ASSUME NEW u \in Threads \ {t} PROVE EmitsOK(threads[u], drafts', nextId')
    <2>1. EmitsOK(threads[u], drafts, nextId)  BY DEF ShowsInv
    <2>2. ASSUME NEW e \in threads[u].emits, e.stream # StoreStream
          PROVE  /\ e.stream \in 0..(nextId' - 1)
                 /\ e.version \in Nat
                 /\ e.stream \in DOMAIN drafts' => e.version <= BaseOf(drafts', e.stream)
      <3>1. /\ e.stream \in 0..(nextId - 1)
            /\ e.version \in Nat
            /\ e.stream \in DOMAIN drafts => e.version <= BaseOf(drafts, e.stream)
        BY <2>1, <2>2 DEF EmitsOK
      <3>2. e.stream \in 0..(nextId' - 1)  BY <1>3, <3>1
      <3>3. e.stream \in DOMAIN drafts' => e.stream \in DOMAIN drafts
        BY <1>3, <3>1
      <3>4. e.stream \in DOMAIN drafts' => e.version <= BaseOf(drafts', e.stream)
        BY <1>2, <1>5, <3>1, <3>3
      <3>5. QED  BY <3>1, <3>2, <3>4
    <2>3. QED  BY <2>1, <2>2 DEF EmitsOK
  <1>7. \A u \in Threads : EmitsOK(threads'[u], drafts', nextId')
    BY <1>1, <1>6
  <1>8. ASSUME NEW id \in DOMAIN drafts' \cap DOMAIN rings PROVE Followed(id)'
    <2>1. /\ id \in DOMAIN drafts
          /\ BaseOf(drafts, id) \in Nat /\ BaseOf(drafts', id) \in Nat
          /\ BaseOf(drafts, id) <= BaseOf(drafts', id)
      BY <1>2, <1>4, <1>5
    <2>2. RingOK(rings[id], lost[id], BaseOf(drafts, id))
      BY <2>1 DEF ShowsInv, Followed
    <2>3. \/ \E u \in Threads : Reads(threads[u], id)
          \/ /\ shown[id] \in Nat /\ shown[id] <= BaseOf(drafts, id)
             /\ \/ shown[id] = BaseOf(drafts, id) \/ lost[id] = BaseOf(drafts, id)
                \/ InRing(rings[id], BaseOf(drafts, id))
                \/ \E u \in Threads : Carries(threads[u], id, BaseOf(drafts, id))
      BY <2>1 DEF ShowsInv, Followed
    <2>4. RingOK(rings[id], lost[id], BaseOf(drafts', id))
      BY <2>1, <2>2 DEF RingOK
    <2>5. \A u \in Threads : Reads(threads[u], id) => Reads(threads'[u], id)
      BY <1>1 DEF Reads
    <2>6. \A u \in Threads : \A v : Carries(threads[u], id, v) => Carries(threads'[u], id, v)
      BY <1>1 DEF Carries
    <2>7. CASE BaseOf(drafts', id) = BaseOf(drafts, id)
      BY <1>4, <2>3, <2>4, <2>5, <2>6, <2>7 DEF Followed, BaseOf
    <2>8. CASE Carries(x, id, BaseOf(drafts', id))
      BY <1>1, <1>4, <2>1, <2>3, <2>4, <2>5, <2>8 DEF Followed, BaseOf
    <2>9. QED  BY <2>1, <2>7, <2>8
  <1>9. QED  BY <1>4, <1>7, <1>8 DEF ShowsInv

\* flush: the thread is left with what it has to push.
LEMMA FlushCarries ==
  ASSUME NEW t, NEW h, NEW emits, Flush(t, h, emits)
  PROVE  \E x : /\ threads' = [threads EXCEPT ![t] = x] /\ x.emits = emits
                /\ x.at = IF emits = {} THEN "idle" ELSE "push"
  <1> DEFINE x == IF emits = {} THEN Idle
                  ELSE [Idle EXCEPT !.at = "push", !.handle = h, !.emits = emits]
  <1>1. threads' = [threads EXCEPT ![t] = x]  BY DEF Flush
  <1>2. x.emits = emits /\ x.at = IF emits = {} THEN "idle" ELSE "push"
    BY DEF Idle
  <1> HIDE DEF x
  <1>3. QED  BY <1>1, <1>2

\* A critical section that leaves a snapshot of every draft it moved.
LEMMA FlushShows ==
  ASSUME FInv, IInv', ShowsInv, NEW t \in Threads,
         threads[t].emits = {}, threads[t].at # "read", UNCHANGED streamVars,
         nextId' = nextId, DOMAIN drafts' \subseteq DOMAIN drafts,
         NEW ids \in SUBSET DOMAIN drafts', NEW h, NEW emits, Flush(t, h, emits),
         DraftEmits(ids) \subseteq emits,
         \A e \in emits : e \in DraftEmits(ids) \/ e.stream = StoreStream,
         \A id \in DOMAIN drafts' :
           \/ BaseOf(drafts', id) = BaseOf(drafts, id)
           \/ id \in ids /\ BaseOf(drafts, id) <= BaseOf(drafts', id)
  PROVE  ShowsInv'
  <1>1. PICK x : /\ threads' = [threads EXCEPT ![t] = x] /\ x.emits = emits
                 /\ x.at = IF emits = {} THEN "idle" ELSE "push"
    BY FlushCarries
  <1>2. /\ \A e \in DraftEmits(ids) :
             /\ e.stream \in ids /\ e.stream \in 0..(nextId' - 1)
             /\ e.version \in Nat
             /\ e.version = BaseOf(drafts', e.stream)
        /\ \A id \in ids : \E e \in DraftEmits(ids) :
             e.stream = id /\ e.version = BaseOf(drafts', id)
    BY DraftEmitsShape
  <1>3. EmitsOK(x, drafts', nextId')
    <2>1. \A e \in x.emits :
            e.stream # StoreStream =>
              /\ e.stream \in 0..(nextId' - 1)
              /\ e.version \in Nat
              /\ e.stream \in DOMAIN drafts' => e.version <= BaseOf(drafts', e.stream)
      BY <1>1, <1>2
    <2>2. x.emits # {} <=> x.at \in {"push", "pending"}
      BY <1>1
    <2>3. x.at # "pending"  BY <1>1
    <2>4. QED  BY <2>1, <2>2, <2>3 DEF EmitsOK
  <1>4. \A id \in ids : Carries(x, id, BaseOf(drafts', id))
    BY <1>1, <1>2 DEF Carries
  <1>5. nextId <= nextId' /\ nextId' <= MaxDrafts
    BY DEF FInv, IInv, TypeOK, ShowsInv
  <1>6. \A id \in DOMAIN drafts' : id \in DOMAIN drafts \/ id = nextId
    OBVIOUS
  <1>7. \A id \in DOMAIN drafts' \cap DOMAIN drafts :
           \/ BaseOf(drafts', id) = BaseOf(drafts, id)
           \/ /\ BaseOf(drafts, id) <= BaseOf(drafts', id)
              /\ Carries(x, id, BaseOf(drafts', id))
    BY <1>4
  <1>8. QED
    BY <1>1, <1>3, <1>5, <1>6, <1>7, ShowsStep

\* A push puts the version into the ring of its stream, or loses it there.
LEMMA OfferEffect ==
  ASSUME FInv, ShowsInv, NEW t \in Threads, NEW e \in threads[t].emits,
         Offer(e.stream, e.version)
  PROVE  /\ DOMAIN rings' = DOMAIN rings
         /\ \A s \in DOMAIN rings : Fits(rings'[s])
         /\ \A id \in DOMAIN drafts \cap DOMAIN rings :
              /\ RingOK(rings'[id], lost'[id], BaseOf(drafts, id))
              /\ lost[id] = BaseOf(drafts, id) => lost'[id] = BaseOf(drafts, id)
              /\ InRing(rings[id], BaseOf(drafts, id)) => InRing(rings'[id], BaseOf(drafts, id))
              /\ e.stream = id /\ e.version = BaseOf(drafts, id) =>
                   lost'[id] = BaseOf(drafts, id) \/ InRing(rings'[id], BaseOf(drafts, id))
  <1> DEFINE stream == e.stream
             v == e.version
  <1>1. /\ \A s \in DOMAIN rings : Fits(rings[s])
        /\ \A id \in DOMAIN drafts \cap DOMAIN rings : RingOK(rings[id], lost[id], BaseOf(drafts, id))
        /\ EmitsOK(threads[t], drafts, nextId) /\ nextId <= MaxDrafts
    BY DEF ShowsInv, Followed
  <1>2. /\ \A id \in DOMAIN drafts : BaseOf(drafts, id) \in Nat
        /\ nextId \in Nat /\ MaxDrafts \in Nat /\ DOMAIN lost = DOMAIN rings
        /\ DOMAIN rings \subseteq 0..(nextId - 1)
    BY BasesAreNat DEF FInv, IInv, TypeOK, HandlesInv, StreamsInv
  <1>3. stream \in DOMAIN rings =>
          v \in Nat /\ (stream \in DOMAIN drafts => v <= BaseOf(drafts, stream))
    BY <1>1, <1>2 DEF EmitsOK, StoreStream
  <1>4. CASE stream \notin DOMAIN rings
    BY <1>1, <1>4 DEF Offer
  <1>5. CASE stream \in DOMAIN rings /\ Len(rings[stream]) < RingCapacity
    <2>1. /\ rings' = [rings EXCEPT ![stream] = Append(@, v)] /\ lost' = lost
      BY <1>1, <1>5, RingAssumption DEF Offer, Fits
    <2>2. /\ DOMAIN rings' = DOMAIN rings /\ rings'[stream] = Append(rings[stream], v)
          /\ \A s \in DOMAIN rings \ {stream} : rings'[s] = rings[s]
      BY <1>5, <2>1
    <2>3. /\ Append(rings[stream], v) \in Seq(Nat)
          /\ Len(Append(rings[stream], v)) = Len(rings[stream]) + 1
          /\ \A w : InRing(Append(rings[stream], v), w) <=> w = v \/ InRing(rings[stream], w)
      BY <1>1, <1>3, <1>5, Appended DEF Fits
    <2>4. Fits(Append(rings[stream], v))
      <3>1. Len(rings[stream]) \in Nat  BY <1>1, <1>5 DEF Fits
      <3>2. QED  BY <1>5, <2>3, <3>1, RingAssumption DEF Fits
    <2>5. \A s \in DOMAIN rings : Fits(rings'[s])
      BY <1>1, <2>2, <2>4
    <2>6. ASSUME NEW id \in DOMAIN drafts \cap DOMAIN rings
          PROVE  /\ RingOK(rings'[id], lost'[id], BaseOf(drafts, id))
                 /\ InRing(rings[id], BaseOf(drafts, id)) => InRing(rings'[id], BaseOf(drafts, id))
                 /\ stream = id /\ v = BaseOf(drafts, id) => InRing(rings'[id], BaseOf(drafts, id))
      <3>1. CASE id = stream
        <4>1. \A w : InRing(rings'[id], w) <=> w = v \/ InRing(rings[id], w)
          BY <2>2, <2>3, <3>1
        <4>2. RingOK(rings'[id], lost'[id], BaseOf(drafts, id))
          BY <1>1, <1>3, <2>1, <3>1, <4>1 DEF RingOK
        <4>3. QED  BY <4>1, <4>2
      <3>2. CASE id # stream
        BY <1>1, <2>1, <2>2, <3>2
      <3>3. QED  BY <3>1, <3>2
    <2>7. QED  BY <2>1, <2>2, <2>5, <2>6
  <1>6. CASE stream \in DOMAIN rings /\ Len(rings[stream]) >= RingCapacity
    <2>1. rings' = rings /\ lost' = [lost EXCEPT ![stream] = IF @ < v THEN v ELSE @]
      BY <1>1, <1>6, RingAssumption DEF Offer, Fits
    <2>2. /\ lost'[stream] = IF lost[stream] < v THEN v ELSE lost[stream]
          /\ \A s \in DOMAIN rings \ {stream} : lost'[s] = lost[s]
      BY <1>2, <1>6, <2>1
    <2>3. ASSUME NEW id \in DOMAIN drafts \cap DOMAIN rings
          PROVE  /\ RingOK(rings'[id], lost'[id], BaseOf(drafts, id))
                 /\ lost[id] = BaseOf(drafts, id) => lost'[id] = BaseOf(drafts, id)
                 /\ stream = id /\ v = BaseOf(drafts, id) => lost'[id] = BaseOf(drafts, id)
      <3>1. RingOK(rings[id], lost[id], BaseOf(drafts, id))  BY <1>1
      <3>2. CASE id = stream
        BY <1>2, <1>3, <2>1, <2>2, <3>1, <3>2 DEF RingOK
      <3>3. CASE id # stream
        BY <2>1, <2>2, <3>1, <3>3
      <3>4. QED  BY <3>2, <3>3
    <2>4. QED  BY <1>1, <2>1, <2>3
  <1>7. QED
    <2>1. stream \in DOMAIN rings => Len(rings[stream]) \in Nat  BY <1>1 DEF Fits
    <2>2. RingCapacity \in Nat  BY RingAssumption
    <2>3. QED  BY <1>4, <1>5, <1>6, <2>1, <2>2

\* A snapshot is pushed, and its thread keeps at most the others.
LEMMA PushShows ==
  ASSUME FInv, ShowsInv, NEW t \in Threads, NEW e \in threads[t].emits,
         Offer(e.stream, e.version), UNCHANGED shown,
         threads[t].at # "read", UNCHANGED <<drafts, nextId>>,
         NEW x, threads' = [threads EXCEPT ![t] = x], x.at # "pending",
         x.emits # {} <=> x.at = "push",
         x.emits \subseteq threads[t].emits, threads[t].emits \subseteq x.emits \cup {e}
  PROVE  ShowsInv'
  <1>1. threads'[t] = x /\ \A u \in Threads \ {t} : threads'[u] = threads[u]
    BY DEF FInv, ThreadsInv
  <1>2. EmitsOK(threads[t], drafts, nextId)
    BY DEF ShowsInv
  <1>3. EmitsOK(x, drafts, nextId)
    BY <1>2 DEF EmitsOK
  <1>4. \A u \in Threads : EmitsOK(threads'[u], drafts, nextId)
    BY <1>1, <1>3 DEF ShowsInv
  <1>5. \A u \in Threads : \A id : Reads(threads[u], id) => Reads(threads'[u], id)
    BY <1>1 DEF Reads
  <1>6. ASSUME NEW u \in Threads, NEW id, NEW v, Carries(threads[u], id, v)
        PROVE  \/ Carries(threads'[u], id, v)
               \/ e.stream = id /\ e.version = v
    <2>1. PICK o \in threads[u].emits : o.stream = id /\ o.version = v
      BY <1>6 DEF Carries
    <2>2. CASE o \in threads'[u].emits  BY <2>1, <2>2 DEF Carries
    <2>3. CASE o \notin threads'[u].emits
      <3>1. u = t  BY <1>1, <2>1, <2>3
      <3>2. o \in x.emits \cup {e} /\ o \notin x.emits
        BY <1>1, <2>1, <2>3, <3>1
      <3>3. QED  BY <2>1, <3>2
    <2>4. QED  BY <2>2, <2>3
  <1>7. /\ DOMAIN rings' = DOMAIN rings
        /\ \A s \in DOMAIN rings : Fits(rings'[s])
        /\ \A id \in DOMAIN drafts \cap DOMAIN rings :
             /\ RingOK(rings'[id], lost'[id], BaseOf(drafts, id))
             /\ lost[id] = BaseOf(drafts, id) => lost'[id] = BaseOf(drafts, id)
             /\ InRing(rings[id], BaseOf(drafts, id)) => InRing(rings'[id], BaseOf(drafts, id))
             /\ e.stream = id /\ e.version = BaseOf(drafts, id) =>
                  lost'[id] = BaseOf(drafts, id) \/ InRing(rings'[id], BaseOf(drafts, id))
    BY OfferEffect
  <1>8. ASSUME NEW id \in DOMAIN drafts \cap DOMAIN rings PROVE Followed(id)'
    <2>1. \/ \E u \in Threads : Reads(threads[u], id)
          \/ /\ shown[id] \in Nat /\ shown[id] <= BaseOf(drafts, id)
             /\ \/ shown[id] = BaseOf(drafts, id) \/ lost[id] = BaseOf(drafts, id)
                \/ InRing(rings[id], BaseOf(drafts, id))
                \/ \E u \in Threads : Carries(threads[u], id, BaseOf(drafts, id))
      BY DEF ShowsInv, Followed
    <2> USE DEF Followed, BaseOf
    <2>2. CASE \E u \in Threads : Reads(threads[u], id)
      BY <1>5, <1>7, <2>2
    <2>3. CASE \E u \in Threads : Carries(threads[u], id, BaseOf(drafts, id))
      <3>1. PICK u \in Threads : Carries(threads[u], id, BaseOf(drafts, id))  BY <2>3
      <3>2. \/ Carries(threads'[u], id, BaseOf(drafts, id))
            \/ lost'[id] = BaseOf(drafts, id) \/ InRing(rings'[id], BaseOf(drafts, id))
        BY <1>6, <1>7, <3>1, Zenon
      <3>3. QED  BY <1>5, <1>7, <2>1, <3>2
    <2>4. CASE shown[id] = BaseOf(drafts, id) \/ lost[id] = BaseOf(drafts, id)
               \/ InRing(rings[id], BaseOf(drafts, id))
      BY <1>5, <1>7, <2>1, <2>4
    <2>5. QED  BY <2>1, <2>2, <2>3, <2>4
  <1>9. nextId <= MaxDrafts  BY DEF ShowsInv
  <1>10. QED  BY <1>4, <1>7, <1>8, <1>9 DEF ShowsInv

\* A step of a thread that had nothing to push, by which no draft moves and
\* nothing new is to be pushed.
LEMMA SilentShows ==
  ASSUME FInv, IInv', ShowsInv, NEW t \in Threads, NEW x,
         threads' = [threads EXCEPT ![t] = x],
         threads[t].at \notin {"push", "pending", "read"},
         x.emits = {}, x.at \notin {"push", "pending"},
         UNCHANGED streamVars, UNCHANGED <<drafts, nextId>>
  PROVE  ShowsInv'
  <1>1. threads[t].emits = {}  BY DEF ShowsInv, EmitsOK
  <1>2. EmitsOK(x, drafts', nextId')  BY DEF EmitsOK
  <1>3. nextId <= nextId' /\ nextId' <= MaxDrafts
    BY DEF FInv, IInv, TypeOK, ShowsInv
  <1>4. /\ \A id \in DOMAIN drafts' : id \in DOMAIN drafts \/ id = nextId
        /\ \A id \in DOMAIN drafts' \cap DOMAIN drafts : BaseOf(drafts', id) = BaseOf(drafts, id)
    OBVIOUS
  <1>5. QED  BY <1>1, <1>2, <1>3, <1>4, ShowsStep

-----------------------------------------------------------------------------
(* Which versions a critical section moves *)

\* An edit or a resolution keeps the version a draft is based on.
LEMMA EditKeepsBases ==
  ASSUME IInv, NEW id \in DOMAIN drafts, NEW f \in Fields, NEW y, EditField(id, f, y),
         LET x == drafts[id].draft.fields[f]
         IN  \/ \E r \in Raws : y = TrySet(accepts, x, r)
             \/ y \in {KeepMine(x), TakeTheirs(x)}
  PROVE  /\ DOMAIN drafts' = DOMAIN drafts /\ nextId' = nextId
         /\ \A i \in DOMAIN drafts : BaseOf(drafts', i) = BaseOf(drafts, i)
  <1> DEFINE d == drafts[id].draft
             fields == [d.fields EXCEPT ![f] = y]
             g == Guarded(d, fields)
             e == [drafts[id] EXCEPT !.draft = g]
  <1>1. d \in DraftType /\ accepts \in SUBSET Values /\ drafts[id] \in EntryType
    BY DEF IInv, TypeOK, EntryType
  <1>2. d.fields[f] \in FieldType  BY <1>1 DEF DraftType
  <1>3. y \in FieldType  BY <1>1, <1>2, TrySetType, ResolveType
  <1>4. fields \in [Fields -> FieldType]  BY <1>1, <1>3 DEF DraftType
  <1> HIDE DEF d, fields
  <1>5. g.baseVersion = d.baseVersion
    BY <1>1, <1>4, GuardedType
  <1>6. drafts' = [drafts EXCEPT ![id] = e] /\ nextId' = nextId
    BY DEF EditField, SetField, Update, d, fields
  <1> HIDE DEF g
  <1>7. e.draft = g  BY <1>1 DEF EntryType
  <1> HIDE DEF e
  <1>8. /\ DOMAIN drafts' = DOMAIN drafts
        /\ \A i \in DOMAIN drafts : drafts'[i] = IF i = id THEN e ELSE drafts[i]
    BY <1>6 DEF IInv, TypeOK
  <1>9. drafts'[id].draft.baseVersion = drafts[id].draft.baseVersion
    BY <1>5, <1>7, <1>8 DEF d
  <1>10. \A i \in DOMAIN drafts \ {id} : drafts'[i] = drafts[i]
    BY <1>8
  <1>11. ASSUME NEW i \in DOMAIN drafts PROVE BaseOf(drafts', i) = BaseOf(drafts, i)
    <2>1. CASE i = id  BY <1>9, <2>1 DEF BaseOf
    <2>2. CASE i # id  BY <1>10, <2>2 DEF BaseOf
    <2>3. QED  BY <2>1, <2>2
  <1>12. QED  BY <1>6, <1>8, <1>11

\* The check of a draft is replaced: so are no versions.
LEMMA CheckKeepsBases ==
  ASSUME IInv, NEW id \in DOMAIN drafts, NEW c,
         Update(id, [drafts[id].draft EXCEPT !.check = c])
  PROVE  /\ DOMAIN drafts' = DOMAIN drafts
         /\ \A i \in DOMAIN drafts : BaseOf(drafts', i) = BaseOf(drafts, i)
  <1> DEFINE d == drafts[id].draft
             n == [d EXCEPT !.check = c]
  <1>1. drafts[id] \in EntryType /\ d \in DraftType
    BY DEF IInv, TypeOK, EntryType
  <1>2. n.baseVersion = d.baseVersion  BY <1>1 DEF DraftType
  <1>3. Update(id, n)  OBVIOUS
  <1> HIDE DEF n
  <1>4. /\ DOMAIN drafts' = DOMAIN drafts /\ drafts'[id].draft = n
        /\ \A i \in DOMAIN drafts \ {id} : drafts'[i] = drafts[i]
    BY <1>1, <1>3 DEF Update, EntryType, IInv, TypeOK
  <1>5. QED  BY <1>2, <1>4 DEF BaseOf

\* A live draft is rebased onto the new version, an orphan not at all.
LEMMA RebasedBase ==
  ASSUME NEW d \in DraftType, NEW entity \in [Fields -> Values], NEW v \in Nat
  PROVE  /\ d.status = "Orphaned" => RebaseDraft(d, entity, v) = d
         /\ d.status = "Live" => RebaseDraft(d, entity, v).baseVersion = v
         /\ d.status \in {"Live", "Orphaned"}
  <1>1. d.status \in {"Live", "Orphaned"}  BY DEF DraftType
  <1>2. d.status = "Orphaned" => RebaseDraft(d, entity, v) = d
    BY DEF RebaseDraft
  <1>3. ASSUME d.status = "Live" PROVE RebaseDraft(d, entity, v).baseVersion = v
    <2> DEFINE fields == [f \in Fields |-> Rebase(d.fields[f], entity[f])]
               g == Guarded(d, fields)
    <2>1. fields \in [Fields -> FieldType]  BY RebaseType DEF DraftType
    <2>2. RebaseDraft(d, entity, v) = [g EXCEPT !.baseVersion = v]
      BY <1>3 DEF RebaseDraft
    <2> HIDE DEF fields
    <2>3. g \in DraftType  BY <2>1, GuardedType
    <2> HIDE DEF g
    <2>4. QED  BY <2>2, <2>3 DEF DraftType
  <1>4. QED  BY <1>1, <1>2, <1>3

\* apply_canonical, over all drafts or over all but the submitted one: only
\* registered drafts move, and only upwards.
LEMMA ApplyMovesBases ==
  ASSUME IInv, NEW S \in SUBSET DOMAIN drafts, NEW entity \in Entities(accepts),
         Apply([id \in S |-> drafts[id]], entity)
  PROVE  /\ DOMAIN drafts' = S /\ nextId' = nextId
         /\ \A id \in S : \/ BaseOf(drafts', id) = BaseOf(drafts, id)
                         \/ /\ id \in Registered
                            /\ BaseOf(drafts, id) <= BaseOf(drafts', id)
  <1> DEFINE r(id) == RebaseDraft(drafts[id].draft, entity, version + 1)
             n(id) == IF drafts[id].rebases THEN [drafts[id] EXCEPT !.draft = r(id)]
                      ELSE drafts[id]
  <1>1. drafts' = [id \in S |-> n(id)] /\ nextId' = nextId  BY DEF Apply, Rebased
  <1>2. version \in Nat /\ version + 1 \in Nat /\ entity \in [Fields -> Values]
    BY CanonicalType DEF IInv, TypeOK
  <1>3. \A id \in S : drafts[id] \in EntryType /\ drafts[id].draft \in DraftType
    BY DEF IInv, TypeOK, EntryType
  <1>4. \A id \in S : /\ drafts[id].draft.status = "Orphaned" => r(id) = drafts[id].draft
                      /\ drafts[id].draft.status = "Live" => r(id).baseVersion = version + 1
    BY <1>2, <1>3, RebasedBase
  <1>5. \A id \in S : drafts[id].rebases /\ drafts[id].draft.status = "Live" =>
                      drafts[id].draft.baseVersion = version
    BY DEF IInv, EntryInv
  <1>6. \A id \in S : drafts[id].draft.status \in {"Live", "Orphaned"}
    BY <1>3 DEF DraftType
  <1> HIDE DEF r
  <1>7. \A id \in S : n(id).draft = IF drafts[id].rebases THEN r(id) ELSE drafts[id].draft
    BY <1>3 DEF EntryType
  <1> HIDE DEF n
  <1>8. \A id \in S : BaseOf(drafts', id) = n(id).draft.baseVersion
    BY <1>1 DEF BaseOf
  <1>9. ASSUME NEW id \in S
        PROVE  \/ BaseOf(drafts', id) = BaseOf(drafts, id)
               \/ /\ id \in Registered
                  /\ BaseOf(drafts, id) <= BaseOf(drafts', id)
    <2>1. CASE ~drafts[id].rebases
      BY <1>7, <1>8, <2>1 DEF BaseOf
    <2>2. CASE drafts[id].rebases /\ drafts[id].draft.status = "Orphaned"
      BY <1>4, <1>7, <1>8, <2>2 DEF BaseOf
    <2>3. CASE drafts[id].rebases /\ drafts[id].draft.status = "Live"
      <3>1. BaseOf(drafts', id) = version + 1
        BY <1>4, <1>7, <1>8, <2>3
      <3>2. BaseOf(drafts, id) = version  BY <1>5, <2>3 DEF BaseOf
      <3>3. id \in Registered  BY <2>3 DEF Registered
      <3>4. QED  BY <1>2, <3>1, <3>2, <3>3
    <2>4. QED  BY <1>6, <2>1, <2>2, <2>3
  <1>10. QED  BY <1>1, <1>9

-----------------------------------------------------------------------------
(* Every step keeps it *)

\* A thread that can enter a call has nothing to push.
LEMMA IdleCarriesNothing ==
  ASSUME ShowsInv, NEW t \in Threads, threads[t] = Idle
  PROVE  threads[t].emits = {} /\ threads[t].at # "read"
  <1>1. Idle.emits = {} /\ Idle.at # "read"  BY DEF Idle
  <1>2. QED  BY <1>1

\* The calls of one critical section.
LEMMA SectionShows ==
  ASSUME FInv, FInv', ShowsInv, NEW t \in Threads, threads[t] = Idle,
         \/ \E id \in Handles \cap DOMAIN drafts : CallEdit(t, id) \/ CallSubmit(t, id)
         \/ CallApplyCanonical(t) \/ CallDeleteCanonical(t)
  PROVE  ShowsInv'
  <1>1. /\ IInv /\ IInv' /\ TypeOK
        /\ threads[t].emits = {} /\ threads[t].at # "read"
    BY IdleCarriesNothing DEF FInv, IInv
  <1>2. ASSUME NEW id \in DOMAIN drafts, CallEdit(t, id)
        PROVE  ShowsInv'
    <2>1. /\ \E f \in Fields :
                \/ \E r \in Raws : SetRaw(id, f, r)
                \/ ResolveKeepMine(id, f)
                \/ ResolveTakeTheirs(id, f)
          /\ Flush(t, id, DraftEmits({id})) /\ UNCHANGED streamVars
      BY <1>2 DEF CallEdit
    <2>2. /\ DOMAIN drafts' = DOMAIN drafts /\ nextId' = nextId
          /\ \A i \in DOMAIN drafts : BaseOf(drafts', i) = BaseOf(drafts, i)
      BY <1>1, <2>1, EditKeepsBases DEF SetRaw, ResolveKeepMine, ResolveTakeTheirs
    <2>3. {id} \in SUBSET DOMAIN drafts'  BY <2>2
    <2>4. QED  BY <1>1, <2>1, <2>2, <2>3, FlushShows
  <1>3. ASSUME NEW S \in SUBSET DOMAIN drafts, NEW entity \in Entities(accepts), NEW h,
               Apply([id \in S |-> drafts[id]], entity),
               Flush(t, h, SubmitEmits(Registered \cap S)), UNCHANGED streamVars
        PROVE  ShowsInv'
    <2>1. /\ DOMAIN drafts' = S /\ nextId' = nextId
          /\ \A id \in S : \/ BaseOf(drafts', id) = BaseOf(drafts, id)
                          \/ /\ id \in Registered
                             /\ BaseOf(drafts, id) <= BaseOf(drafts', id)
      BY <1>1, <1>3, ApplyMovesBases
    <2>2. Registered \cap S \in SUBSET DOMAIN drafts'  BY <2>1
    <2>3. \A e \in StoreEmit : e.stream = StoreStream
      BY DEF StoreEmit
    <2>4. /\ DraftEmits(Registered \cap S) \subseteq SubmitEmits(Registered \cap S)
          /\ \A e \in SubmitEmits(Registered \cap S) :
               e \in DraftEmits(Registered \cap S) \/ e.stream = StoreStream
      BY <2>3 DEF SubmitEmits
    <2>5. \A id \in DOMAIN drafts' :
             \/ BaseOf(drafts', id) = BaseOf(drafts, id)
             \/ id \in Registered \cap S /\ BaseOf(drafts, id) <= BaseOf(drafts', id)
      BY <2>1
    <2>6. QED  BY <1>1, <1>3, <2>1, <2>2, <2>4, <2>5, FlushShows
  <1>4. ASSUME NEW id \in DOMAIN drafts, CallSubmit(t, id)
        PROVE  ShowsInv'
    <2>1. /\ Submit(id) /\ Flush(t, id, SubmitEmits(Registered \ {id})) /\ UNCHANGED streamVars
      BY <1>4 DEF CallSubmit
    <2>2. EntityOf(drafts[id].draft) \in Entities(accepts)
      BY <1>1, <2>1, CommitsAnEntity DEF Submit, IInv
    <2>3. Apply([i \in DOMAIN drafts \ {id} |-> drafts[i]], EntityOf(drafts[id].draft))
      BY <2>1 DEF Submit, Without
    <2>4. Registered \ {id} = Registered \cap (DOMAIN drafts \ {id})
      BY DEF Registered
    <2>5. QED  BY <1>3, <2>1, <2>2, <2>3, <2>4
  <1>5. CASE CallApplyCanonical(t)
    <2>1. PICK entity \in Entities(accepts) : ApplyCanonical(entity)
      BY <1>5 DEF CallApplyCanonical
    <2>2. Flush(t, NoValue, SubmitEmits(Registered)) /\ UNCHANGED streamVars
      BY <1>5 DEF CallApplyCanonical
    <2>3. drafts = [id \in DOMAIN drafts |-> drafts[id]]  BY <1>1 DEF TypeOK
    <2>4. Apply([id \in DOMAIN drafts |-> drafts[id]], entity)
      BY <2>1, <2>3 DEF ApplyCanonical
    <2>5. Registered = Registered \cap DOMAIN drafts  BY DEF Registered
    <2>6. QED  BY <1>3, <2>2, <2>4, <2>5
  <1>6. CASE CallDeleteCanonical(t)
    <2>1. DeleteCanonical /\ Flush(t, NoValue, DraftEmits(Registered)) /\ UNCHANGED streamVars
      BY <1>6 DEF CallDeleteCanonical
    <2>2. \A id \in DOMAIN drafts :
            Orphan(drafts[id].draft).baseVersion = drafts[id].draft.baseVersion
      BY <1>1 DEF TypeOK, EntryType, Orphan, DraftType
    <2>3. /\ DOMAIN drafts' = DOMAIN drafts /\ nextId' = nextId
          /\ \A id \in DOMAIN drafts :
               drafts'[id].draft \in {drafts[id].draft, Orphan(drafts[id].draft)}
      BY <2>1 DEF DeleteCanonical
    <2>4. \A id \in DOMAIN drafts' : BaseOf(drafts', id) = BaseOf(drafts, id)
      BY <2>2, <2>3 DEF BaseOf
    <2>5. Registered \in SUBSET DOMAIN drafts'  BY <2>3 DEF Registered
    <2>6. QED  BY <1>1, <2>1, <2>3, <2>4, <2>5, FlushShows
  <1>7. QED  BY <1>2, <1>4, <1>5, <1>6

\* checkout and restore: nobody shows the new draft yet.
LEMMA OpenShows ==
  ASSUME FInv, FInv', ShowsInv, NEW t \in Threads, threads[t] = Idle, CallOpen(t)
  PROVE  ShowsInv'
  <1> DEFINE x == [Idle EXCEPT !.at = "subscribe", !.handle = nextId]
  <1>1. threads[t].emits = {} /\ threads[t].at # "read"  BY IdleCarriesNothing
  <1>2. /\ Checkout \/ Restore
        /\ threads' = [threads EXCEPT ![t] = x] /\ UNCHANGED streamVars
    BY DEF CallOpen, InCall
  <1>3. x.emits = {} /\ x.at = "subscribe"  BY DEF Idle
  <1> HIDE DEF x
  <1>4. /\ nextId < MaxDrafts /\ nextId' = nextId + 1
        /\ DOMAIN drafts' = DOMAIN drafts \cup {nextId}
        /\ \A id \in DOMAIN drafts \ {nextId} : drafts'[id] = drafts[id]
    BY <1>2 DEF Checkout, Restore, Adopt, Put
  <1>5. nextId \in Nat /\ nextId \notin DOMAIN drafts
    BY DEF FInv, IInv, TypeOK
  <1>6. EmitsOK(x, drafts', nextId')  BY <1>3 DEF EmitsOK
  <1>7. nextId <= nextId' /\ nextId' <= MaxDrafts  BY <1>4, <1>5
  <1>8. \A id \in DOMAIN drafts' \cap DOMAIN drafts : BaseOf(drafts', id) = BaseOf(drafts, id)
    BY <1>4, <1>5 DEF BaseOf
  <1>9. \A id \in DOMAIN drafts' : id \in DOMAIN drafts \/ id = nextId
    BY <1>4
  <1>10. IInv'  BY DEF FInv
  <1>11. QED  BY <1>1, <1>2, <1>6, <1>7, <1>8, <1>9, <1>10, ShowsStep

\* complete_check: the check changes and the version does not.
LEMMA SettleShows ==
  ASSUME FInv, FInv', ShowsInv, NEW t \in Threads, Settle(t)
  PROVE  ShowsInv'
  <1> DEFINE y == threads[t]
             id == y.handle
  <1>1. /\ y.at = "complete" /\ CompleteCheck(y.token, y.verdict) /\ UNCHANGED streamVars
        /\ Flush(t, id, DraftEmits({id} \cap DOMAIN drafts))
    BY DEF Settle
  <1>2. IInv /\ IInv'  BY DEF FInv
  <1>3. y.emits = {} /\ y.at # "read"
    BY <1>1 DEF ShowsInv, EmitsOK
  <1>4. /\ DOMAIN drafts' = DOMAIN drafts /\ nextId' = nextId
        /\ \A i \in DOMAIN drafts : BaseOf(drafts', i) = BaseOf(drafts, i)
    <2>1. nextId' = nextId  BY <1>1 DEF CompleteCheck
    <2>2. CASE y.token.id \in DOMAIN drafts
      <3>1. \E c : Update(y.token.id, [drafts[y.token.id].draft EXCEPT !.check = c])
        BY <1>1, <2>2 DEF CompleteCheck
      <3>2. QED  BY <1>2, <2>1, <2>2, <3>1, CheckKeepsBases
    <2>3. CASE y.token.id \notin DOMAIN drafts
      BY <1>1, <2>1, <2>3 DEF CompleteCheck
    <2>4. QED  BY <2>2, <2>3
  <1>5. {id} \cap DOMAIN drafts \in SUBSET DOMAIN drafts'  BY <1>4
  <1>6. QED  BY <1>1, <1>2, <1>3, <1>4, <1>5, FlushShows

\* begin_check: the Pending snapshot is at the version the draft has.
LEMMA BeginShows ==
  ASSUME FInv, FInv', ShowsInv, NEW t \in Threads, BeginOutcall(t),
         threads[t].handle \in DOMAIN drafts
  PROVE  ShowsInv'
  <1> DEFINE y == threads[t]
             id == y.handle
             emits == DraftEmits({id})
             minted == CHOOSE k \in tokens' : k \notin tokens
             x == [y EXCEPT !.at = "pending", !.token = minted, !.emits = emits]
  <1>1. /\ y.at = "begin" /\ BeginCheck(id) /\ UNCHANGED streamVars
        /\ threads' = [threads EXCEPT ![t] = x]
    BY DEF BeginOutcall
  <1>2. IInv /\ IInv' /\ Shaped(y)
    BY DEF FInv, ThreadsInv, ThreadOK
  <1>3. y.emits = {} /\ y.at # "read"
    BY <1>1 DEF ShowsInv, EmitsOK
  <1> HIDE DEF emits, minted
  <1>4. x.at = "pending" /\ x.emits = emits
    BY <1>2 DEF Shaped
  <1> HIDE DEF x
  <1>5. /\ DOMAIN drafts' = DOMAIN drafts /\ nextId' = nextId
        /\ \A i \in DOMAIN drafts : BaseOf(drafts', i) = BaseOf(drafts, i)
    <2>1. nextId' = nextId  BY <1>1 DEF BeginCheck
    <2>2. \E c : Update(id, [drafts[id].draft EXCEPT !.check = c])
      BY <1>1 DEF BeginCheck
    <2>3. QED  BY <1>2, <2>1, <2>2, CheckKeepsBases
  <1>6. {id} \in SUBSET DOMAIN drafts'  BY <1>5
  <1>7. /\ \A e \in emits :
             /\ e.stream \in {id} /\ e.stream \in 0..(nextId' - 1)
             /\ e.version \in Nat
             /\ e.version = BaseOf(drafts', e.stream)
        /\ \E e \in emits : e.stream = id
    BY <1>2, <1>6, DraftEmitsShape DEF emits
  <1>8. \A e, o \in emits : e = o  BY DEF emits, DraftEmits
  <1>9. EmitsOK(x, drafts', nextId')
    <2>1. x.emits # {} /\ \A e, o \in x.emits : e = o
      BY <1>4, <1>7, <1>8
    <2>2. \A e \in x.emits :
            e.stream # StoreStream =>
              /\ e.stream \in 0..(nextId' - 1)
              /\ e.version \in Nat
              /\ e.stream \in DOMAIN drafts' => e.version <= BaseOf(drafts', e.stream)
      BY <1>4, <1>7
    <2>3. QED  BY <1>4, <2>1, <2>2 DEF EmitsOK
  <1>10. nextId <= nextId' /\ nextId' <= MaxDrafts
    BY <1>5 DEF FInv, IInv, TypeOK, ShowsInv
  <1>11. /\ \A i \in DOMAIN drafts' : i \in DOMAIN drafts \/ i = nextId
         /\ \A i \in DOMAIN drafts' \cap DOMAIN drafts : BaseOf(drafts', i) = BaseOf(drafts, i)
    BY <1>5
  <1>12. QED  BY <1>1, <1>2, <1>3, <1>9, <1>10, <1>11, ShowsStep

\* The steps of a call that push nothing and move no draft.
LEMMA SilentSteps ==
  ASSUME FInv, FInv', ShowsInv, NEW t \in Threads,
         \/ threads[t] = Idle /\ \E id \in Handles \cap DOMAIN drafts : RunCheck(t, id)
         \/ Take(t) \/ Answer(t) \/ GiveBack(t)
         \/ BeginOutcall(t) /\ threads[t].handle \notin DOMAIN drafts
  PROVE  ShowsInv'
  <1> DEFINE y == threads[t]
  <1>1. Shaped(y) /\ IInv' /\ EmitsOK(y, drafts, nextId)
    BY DEF FInv, ThreadsInv, ThreadOK, ShowsInv
  <1>2. /\ UNCHANGED vars /\ UNCHANGED streamVars
        /\ y.at \notin {"push", "pending", "read"}
    BY DEF RunCheck, Take, Answer, GiveBack, BeginOutcall, Idle
  <1>3. y.emits = {}  BY <1>1, <1>2 DEF EmitsOK
  <1>4. UNCHANGED <<drafts, nextId>>  BY <1>2 DEF vars
  <1>5. \E x : /\ threads' = [threads EXCEPT ![t] = x]
               /\ x.emits = {} /\ x.at \notin {"push", "pending"}
    <2>1. ASSUME NEW id, RunCheck(t, id)
          PROVE  \E x : /\ threads' = [threads EXCEPT ![t] = x]
                        /\ x.emits = {} /\ x.at \notin {"push", "pending"}
      <3> DEFINE x == [Idle EXCEPT !.at = "take", !.handle = id]
      <3>1. threads' = [threads EXCEPT ![t] = x]  BY <2>1 DEF RunCheck, InCall
      <3>2. x.emits = {} /\ x.at = "take"  BY DEF Idle
      <3> HIDE DEF x
      <3>3. QED  BY <3>1, <3>2
    <2>2. ASSUME NEW at \in {"begin", "giveBack", "complete"}, Goto(t, at)
          PROVE  \E x : /\ threads' = [threads EXCEPT ![t] = x]
                        /\ x.emits = {} /\ x.at \notin {"push", "pending"}
      <3> DEFINE x == [y EXCEPT !.at = at]
      <3>1. threads' = [threads EXCEPT ![t] = x]  BY <2>2 DEF Goto
      <3>2. x.emits = {} /\ x.at = at  BY <1>1, <1>3 DEF Shaped
      <3> HIDE DEF x
      <3>3. QED  BY <3>1, <3>2
    <2>3. ASSUME Return(t)
          PROVE  \E x : /\ threads' = [threads EXCEPT ![t] = x]
                        /\ x.emits = {} /\ x.at \notin {"push", "pending"}
      <3>1. Idle.emits = {} /\ Idle.at = "idle"  BY DEF Idle
      <3>2. QED  BY <2>3, <3>1 DEF Return
    <2>4. CASE Answer(t)
      <3>1. PICK verdict \in Verdicts :
              threads' = [threads EXCEPT ![t].at = "giveBack", ![t].verdict = verdict]
        BY <2>4 DEF Answer
      <3> DEFINE x == [y EXCEPT !.at = "giveBack", !.verdict = verdict]
      <3>2. threads' = [threads EXCEPT ![t] = x]  BY <3>1
      <3>3. x.emits = {} /\ x.at = "giveBack"  BY <1>1, <1>3 DEF Shaped
      <3> HIDE DEF x
      <3>4. QED  BY <3>2, <3>3
    <2>5. CASE Take(t)
      BY <2>2, <2>3, <2>5 DEF Take
    <2>6. CASE GiveBack(t)
      BY <2>2, <2>3, <2>6 DEF GiveBack
    <2>7. CASE BeginOutcall(t) /\ threads[t].handle \notin DOMAIN drafts
      BY <2>2, <2>7 DEF BeginOutcall
    <2>8. QED  BY <2>1, <2>4, <2>5, <2>6, <2>7
  <1>6. QED  BY <1>1, <1>2, <1>4, <1>5, SilentShows

\* flush: the first of the snapshots leaves, the others stay.
LEMMA PushSteps ==
  ASSUME FInv, ShowsInv, NEW t \in Threads, Push(t) \/ PushPending(t)
  PROVE  ShowsInv'
  <1> DEFINE y == threads[t]
  <1>1. EmitsOK(y, drafts, nextId) /\ Shaped(y)
    BY DEF FInv, ThreadsInv, ThreadOK, ShowsInv
  <1>2. CASE Push(t)
    <2>1. PICK e \in Firsts(y.emits) :
            Offer(e.stream, e.version) /\ Flush(t, y.handle, y.emits \ {e})
      BY <1>2 DEF Push
    <2>2. PICK x : /\ threads' = [threads EXCEPT ![t] = x] /\ x.emits = y.emits \ {e}
                   /\ x.at = IF y.emits \ {e} = {} THEN "idle" ELSE "push"
      BY <2>1, FlushCarries
    <2>3. e \in y.emits  BY DEF Firsts
    <2>4. UNCHANGED <<drafts, nextId, shown>> /\ y.at = "push"  BY <1>2 DEF Push, vars
    <2>5. /\ x.at # "pending" /\ (x.emits # {} <=> x.at = "push")
          /\ x.emits \subseteq y.emits /\ y.emits \subseteq x.emits \cup {e}
      BY <2>2
    <2>6. QED  BY <2>1, <2>2, <2>3, <2>4, <2>5, PushShows
  <1>3. CASE PushPending(t)
    <2>1. PICK e \in y.emits : Offer(e.stream, e.version)
      BY <1>3 DEF PushPending
    <2> DEFINE x == [y EXCEPT !.at = "outcall", !.emits = {}]
    <2>2. /\ threads' = [threads EXCEPT ![t] = x] /\ y.at = "pending"
          /\ UNCHANGED <<drafts, nextId, shown>>
      BY <1>3 DEF PushPending, vars
    <2>3. x.emits = {} /\ x.at = "outcall"  BY <1>1 DEF Shaped
    <2> HIDE DEF x
    <2>4. y.emits \subseteq x.emits \cup {e}  BY <1>1, <2>2 DEF EmitsOK
    <2>5. /\ x.at # "pending" /\ (x.emits # {} <=> x.at = "push")
          /\ x.emits \subseteq y.emits
      BY <2>3
    <2>6. QED  BY <2>1, <2>2, <2>4, <2>5, PushShows
  <1>4. QED  BY <1>2, <1>3

\* The shell subscribes, and its thread is about to read.
LEMMA SubscribeShows ==
  ASSUME FInv, ShowsInv, NEW t \in Threads, Subscribe(t)
  PROVE  ShowsInv'
  <1> DEFINE y == threads[t]
             id == y.handle
             x == [y EXCEPT !.at = "read"]
  <1>1. EmitsOK(y, drafts, nextId) /\ Shaped(y)
    BY DEF FInv, ThreadsInv, ThreadOK, ShowsInv
  <1>2. /\ y.at = "subscribe" /\ UNCHANGED <<drafts, nextId>>
        /\ threads' = [threads EXCEPT ![t] = x]
        /\ rings' = Subscribed(rings, id, <<>>) /\ lost' = Subscribed(lost, id, 0)
        /\ shown' = Subscribed(shown, id, NoValue)
    BY DEF Subscribe, Goto, vars
  <1>3. x.emits = {} /\ x.at = "read" /\ x.handle = id
    BY <1>1, <1>2 DEF Shaped, EmitsOK
  <1> HIDE DEF x
  <1>4. threads'[t] = x /\ \A u \in Threads \ {t} : threads'[u] = threads[u]
    BY <1>2 DEF FInv, ThreadsInv
  <1>5. EmitsOK(x, drafts, nextId)  BY <1>3 DEF EmitsOK
  <1>6. \A u \in Threads : EmitsOK(threads'[u], drafts, nextId)
    BY <1>4, <1>5 DEF ShowsInv
  <1>7. Reads(threads'[t], id)  BY <1>3, <1>4 DEF Reads
  <1>8. \A u \in Threads : \A i : Reads(threads[u], i) => Reads(threads'[u], i)
    BY <1>2, <1>4 DEF Reads
  <1>9. y.emits = {}  BY <1>1, <1>2 DEF EmitsOK
  <1>10. \A u \in Threads : \A i, v : Carries(threads[u], i, v) => Carries(threads'[u], i, v)
    BY <1>4, <1>9 DEF Carries
  <1>11. /\ DOMAIN rings' = DOMAIN rings \cup {id} /\ rings'[id] = <<>> /\ lost'[id] = 0
         /\ \A i \in DOMAIN rings \ {id} :
              rings'[i] = rings[i] /\ lost'[i] = lost[i] /\ shown'[i] = shown[i]
    BY <1>2 DEF Subscribed, FInv, HandlesInv, StreamsInv
  <1>12. Fits(<<>>) /\ \A v : ~InRing(<<>>, v)
    BY RingAssumption DEF Fits, InRing
  <1>13. \A s \in DOMAIN rings' : Fits(rings'[s])
    BY <1>11, <1>12 DEF ShowsInv
  <1>14. ASSUME NEW i \in DOMAIN drafts \cap DOMAIN rings' PROVE Followed(i)'
    <2>1. CASE i = id
      <3>1. BaseOf(drafts, i) \in Nat  BY BasesAreNat DEF FInv
      <3>2. RingOK(rings'[i], lost'[i], BaseOf(drafts, i))
        BY <1>11, <1>12, <2>1, <3>1 DEF RingOK
      <3>3. QED  BY <1>2, <1>7, <2>1, <3>2 DEF Followed, BaseOf
    <2>2. CASE i # id
      <3>1. /\ i \in DOMAIN drafts \cap DOMAIN rings
            /\ rings'[i] = rings[i] /\ lost'[i] = lost[i] /\ shown'[i] = shown[i]
        BY <1>11, <2>2
      <3>2. Followed(i)  BY <3>1 DEF ShowsInv
      <3>3. QED  BY <1>2, <1>8, <1>10, <3>1, <3>2 DEF Followed, BaseOf
    <2>3. QED  BY <2>1, <2>2
  <1>15. nextId <= MaxDrafts  BY DEF ShowsInv
  <1>16. QED  BY <1>2, <1>6, <1>13, <1>14, <1>15 DEF ShowsInv

\* What the shell first shows is the version it read.
LEMMA ReadShows ==
  ASSUME FInv, ShowsInv, NEW t \in Threads, ReadFirst(t)
  PROVE  ShowsInv'
  <1> DEFINE y == threads[t]
             id == y.handle
  <1>1. EmitsOK(y, drafts, nextId)  BY DEF ShowsInv
  <1>2. /\ y.at = "read" /\ UNCHANGED <<drafts, nextId, rings, lost>>
        /\ threads' = [threads EXCEPT ![t] = Idle]
        /\ shown' = [shown EXCEPT ![id] = VersionOf(id)]
    BY DEF ReadFirst, Return, vars
  <1>3. Idle.emits = {} /\ Idle.at = "idle"  BY DEF Idle
  <1>4. threads'[t] = Idle /\ \A u \in Threads \ {t} : threads'[u] = threads[u]
    BY <1>2 DEF FInv, ThreadsInv
  <1>5. EmitsOK(Idle, drafts, nextId)  BY <1>3 DEF EmitsOK
  <1>6. \A u \in Threads : EmitsOK(threads'[u], drafts, nextId)
    BY <1>4, <1>5 DEF ShowsInv
  <1>7. \A u \in Threads : \A i : Reads(threads[u], i) => i = id \/ Reads(threads'[u], i)
    BY <1>4 DEF Reads
  <1>8. y.emits = {}  BY <1>1, <1>2 DEF EmitsOK
  <1>9. \A u \in Threads : \A i, v : Carries(threads[u], i, v) => Carries(threads'[u], i, v)
    BY <1>4, <1>8 DEF Carries
  <1>10. \A i \in DOMAIN rings : shown'[i] = IF i = id THEN VersionOf(id) ELSE shown[i]
    BY <1>2 DEF FInv, HandlesInv, StreamsInv
  <1>11. ASSUME NEW i \in DOMAIN drafts \cap DOMAIN rings PROVE Followed(i)'
    <2>1. Followed(i)  BY DEF ShowsInv
    <2>2. CASE i # id
      <3>1. shown'[i] = shown[i]  BY <1>10, <2>2
      <3>2. QED  BY <1>2, <1>7, <1>9, <2>1, <2>2, <3>1 DEF Followed, BaseOf
    <2>3. CASE i = id
      <3>1. shown'[i] = BaseOf(drafts, i)  BY <1>10, <2>3 DEF VersionOf, BaseOf
      <3>2. BaseOf(drafts, i) \in Nat  BY BasesAreNat DEF FInv
      <3>3. QED  BY <1>2, <2>1, <3>1, <3>2 DEF Followed, BaseOf
    <2>4. QED  BY <2>2, <2>3
  <1>12. nextId <= MaxDrafts /\ \A s \in DOMAIN rings : Fits(rings[s])
    BY DEF ShowsInv
  <1>13. QED  BY <1>2, <1>6, <1>11, <1>12 DEF ShowsInv

\* A delivery shows what it takes from the ring, unless that is older.
LEMMA DeliverShows ==
  ASSUME FInv, ShowsInv, NEW stream \in DOMAIN rings, Deliver(stream)
  PROVE  ShowsInv'
  <1> DEFINE ring == rings[stream]
  <1>1. /\ UNCHANGED <<drafts, nextId, threads, lost>>
        /\ ring # <<>> /\ ~Reading(stream)
        /\ rings' = [rings EXCEPT ![stream] = Tail(ring)]
        /\ shown' = [shown EXCEPT ![stream] = Reconcile(shown[stream], Head(ring))]
    BY DEF Deliver, vars
  <1>2. Fits(ring) /\ ring \in Seq(Nat)  BY DEF ShowsInv, Fits
  <1>3. /\ Tail(ring) \in Seq(Nat) /\ Len(Tail(ring)) <= Len(ring) /\ Head(ring) \in Nat
        /\ \A w : InRing(ring, w) <=> w = Head(ring) \/ InRing(Tail(ring), w)
    BY <1>1, <1>2, Delivered
  <1>4. /\ DOMAIN rings' = DOMAIN rings
        /\ rings'[stream] = Tail(ring) /\ shown'[stream] = Reconcile(shown[stream], Head(ring))
        /\ \A s \in DOMAIN rings \ {stream} : rings'[s] = rings[s] /\ shown'[s] = shown[s]
    BY <1>1 DEF FInv, HandlesInv, StreamsInv
  <1>5. Fits(Tail(ring))
    <2>1. Len(Tail(ring)) \in Nat /\ Len(ring) \in Nat /\ RingCapacity \in Nat
      BY <1>2, <1>3, RingAssumption
    <2>2. QED  BY <1>2, <1>3, <2>1 DEF Fits
  <1>6. \A s \in DOMAIN rings : Fits(rings'[s])
    BY <1>4, <1>5 DEF ShowsInv
  <1>7. ASSUME NEW id \in DOMAIN drafts \cap DOMAIN rings PROVE Followed(id)'
    <2>1. Followed(id)  BY DEF ShowsInv
    <2>2. CASE id # stream
      BY <1>1, <1>4, <2>1, <2>2 DEF Followed, BaseOf
    <2>3. CASE id = stream
      <3>1. /\ RingOK(ring, lost[id], BaseOf(drafts, id))
            /\ shown[id] \in Nat /\ shown[id] <= BaseOf(drafts, id)
            /\ \/ shown[id] = BaseOf(drafts, id) \/ lost[id] = BaseOf(drafts, id)
               \/ InRing(ring, BaseOf(drafts, id))
               \/ \E t \in Threads : Carries(threads[t], id, BaseOf(drafts, id))
        BY <1>1, <2>1, <2>3 DEF Followed, Reading, Reads
      <3>2. BaseOf(drafts, id) \in Nat  BY BasesAreNat DEF FInv
      <3>3. Head(ring) <= BaseOf(drafts, id)
        BY <1>3, <3>1 DEF RingOK
      <3>4. /\ shown'[id] \in Nat /\ shown'[id] <= BaseOf(drafts, id)
            /\ shown[id] = BaseOf(drafts, id) => shown'[id] = BaseOf(drafts, id)
            /\ Head(ring) = BaseOf(drafts, id) => shown'[id] = BaseOf(drafts, id)
        BY <1>3, <1>4, <2>3, <3>1, <3>2, <3>3 DEF Reconcile
      <3>5. RingOK(Tail(ring), lost[id], BaseOf(drafts, id))
        BY <1>3, <3>1 DEF RingOK
      <3>6. \/ shown'[id] = BaseOf(drafts, id) \/ lost[id] = BaseOf(drafts, id)
            \/ InRing(Tail(ring), BaseOf(drafts, id))
            \/ \E t \in Threads : Carries(threads[t], id, BaseOf(drafts, id))
        BY <1>3, <3>1, <3>4
      <3>7. QED  BY <1>1, <1>4, <2>3, <3>4, <3>5, <3>6 DEF Followed, BaseOf
    <2>4. QED  BY <2>2, <2>3
  <1>8. nextId <= MaxDrafts /\ \A t \in Threads : EmitsOK(threads[t], drafts, nextId)
    BY DEF ShowsInv
  <1>9. QED  BY <1>1, <1>4, <1>6, <1>7, <1>8 DEF ShowsInv

\* stash changes no draft; a dropped draft is shown no more.
LEMMA HandleShows ==
  ASSUME FInv, ShowsInv, NEW id \in Handles, CallStash(id) \/ DropHandle(id)
  PROVE  ShowsInv'
  <1>1. CASE CallStash(id)
    <2>1. UNCHANGED <<drafts, nextId, threads, rings, lost, shown>>
      BY <1>1 DEF CallStash, SaveStash, streamVars
    <2>2. QED  BY <2>1 DEF ShowsInv, Followed
  <1>2. CASE DropHandle(id)
    <2>1. /\ threads' = threads
          /\ rings' = [s \in DOMAIN rings \ {id} |-> rings[s]]
          /\ lost' = [s \in DOMAIN lost \ {id} |-> lost[s]]
          /\ shown' = [s \in DOMAIN shown \ {id} |-> shown[s]]
      BY <1>2 DEF DropHandle
    <2>2. /\ nextId' = nextId /\ DOMAIN drafts' = DOMAIN drafts \ {id}
          /\ \A i \in DOMAIN drafts' : drafts'[i] = drafts[i]
      <3>1. CASE id \in DOMAIN drafts /\ Close(id)  BY <3>1 DEF Close, Without
      <3>2. CASE id \notin DOMAIN drafts /\ UNCHANGED vars  BY <3>2 DEF vars
      <3>3. QED  BY <1>2, <3>1, <3>2 DEF DropHandle, Release
    <2>3. \A i \in DOMAIN drafts' : i \in DOMAIN drafts /\ BaseOf(drafts', i) = BaseOf(drafts, i)
      BY <2>2 DEF BaseOf
    <2>4. ASSUME NEW u \in Threads PROVE EmitsOK(threads[u], drafts', nextId)
      <3>1. EmitsOK(threads[u], drafts, nextId)  BY DEF ShowsInv
      <3>2. QED  BY <2>3, <3>1 DEF EmitsOK
    <2>5. \A i \in DOMAIN rings' : /\ i \in DOMAIN rings
                                   /\ rings'[i] = rings[i] /\ lost'[i] = lost[i] /\ shown'[i] = shown[i]
      BY <2>1 DEF FInv, HandlesInv, StreamsInv
    <2>6. ASSUME NEW i \in DOMAIN drafts' \cap DOMAIN rings' PROVE Followed(i)'
      <3>1. i \in DOMAIN drafts \cap DOMAIN rings  BY <2>3, <2>5
      <3>2. Followed(i)  BY <3>1 DEF ShowsInv
      <3>3. BaseOf(drafts, i) = BaseOf(drafts', i)  BY <2>3
      <3>4. QED  BY <2>1, <2>5, <3>2, <3>3 DEF Followed, BaseOf
    <2>7. nextId <= MaxDrafts  BY DEF ShowsInv
    <2>8. \A s \in DOMAIN rings' : Fits(rings'[s])
      BY <2>5 DEF ShowsInv
    <2>9. QED  BY <2>1, <2>2, <2>4, <2>6, <2>7, <2>8 DEF ShowsInv
  <1>3. QED  BY <1>1, <1>2

\* Every step of the facet keeps what it shows.
LEMMA ShowsNext ==
  FInv /\ FInv' /\ ShowsInv /\ [FacetNext]_facetVars => ShowsInv'
  <1> SUFFICES ASSUME FInv, FInv', ShowsInv, [FacetNext]_facetVars PROVE ShowsInv'
    OBVIOUS
  <1>1. ASSUME NEW t \in Threads, Call(t) PROVE ShowsInv'
    <2>1. threads[t] = Idle  BY <1>1 DEF Call
    <2>2. \/ \E id \in Handles \cap DOMAIN drafts : CallEdit(t, id) \/ CallSubmit(t, id)
          \/ CallApplyCanonical(t) \/ CallDeleteCanonical(t)
          \/ \E id \in Handles \cap DOMAIN drafts : RunCheck(t, id)
          \/ CallOpen(t)
      BY <1>1 DEF Call
    <2>3. CASE \/ \E id \in Handles \cap DOMAIN drafts : CallEdit(t, id) \/ CallSubmit(t, id)
               \/ CallApplyCanonical(t) \/ CallDeleteCanonical(t)
      BY <2>1, <2>3, SectionShows
    <2>4. CASE \E id \in Handles \cap DOMAIN drafts : RunCheck(t, id)
      BY <2>1, <2>4, SilentSteps
    <2>5. CASE CallOpen(t)  BY <2>1, <2>5, OpenShows
    <2>6. QED  BY <2>2, <2>3, <2>4, <2>5
  <1>2. ASSUME NEW t \in Threads, Continue(t) PROVE ShowsInv'
    <2>1. CASE Push(t) \/ PushPending(t)  BY <2>1, PushSteps
    <2>2. CASE Subscribe(t)  BY <2>2, SubscribeShows
    <2>3. CASE ReadFirst(t)  BY <2>3, ReadShows
    <2>4. CASE Take(t) \/ GiveBack(t)  BY <2>4, SilentSteps
    <2>5. CASE BeginOutcall(t)  BY <2>5, BeginShows, SilentSteps
    <2>6. CASE Settle(t)  BY <2>6, SettleShows
    <2>7. QED  BY <1>2, <2>1, <2>2, <2>3, <2>4, <2>5, <2>6 DEF Continue
  <1>3. ASSUME NEW t \in Threads, Answer(t) PROVE ShowsInv'
    BY <1>3, SilentSteps
  <1>4. ASSUME NEW id \in Handles, CallStash(id) \/ DropHandle(id) PROVE ShowsInv'
    BY <1>4, HandleShows
  <1>5. ASSUME NEW stream \in DOMAIN rings, Deliver(stream) PROVE ShowsInv'
    BY <1>5, DeliverShows
  <1>6. CASE UNCHANGED facetVars
    <2>1. UNCHANGED <<drafts, nextId, threads, rings, lost, shown>>
      BY <1>6 DEF facetVars, vars, streamVars
    <2>2. QED  BY <2>1 DEF ShowsInv, Followed
  <1>7. QED
    BY <1>1, <1>2, <1>3, <1>4, <1>5, <1>6 DEF FacetNext

\* new(): nothing is open and nothing is shown.
LEMMA ShowsInit == FacetInit => ShowsInv
  <1> SUFFICES ASSUME FacetInit PROVE ShowsInv  OBVIOUS
  <1>1. /\ DOMAIN drafts = {} /\ DOMAIN rings = {} /\ nextId = 0
        /\ \A t \in Threads : threads[t] = Idle
    BY DEF FacetInit, Init, Empty
  <1>2. Idle.emits = {} /\ Idle.at = "idle"  BY DEF Idle
  <1>3. EmitsOK(Idle, drafts, nextId)  BY <1>2 DEF EmitsOK
  <1>4. QED  BY <1>1, <1>3 DEF ShowsInv

\* ShowsInv is an invariant.
LEMMA ShowsInvariant == FacetSpec => []ShowsInv
  BY FacetInvariant, ShowsInit, ShowsNext, PTL DEF FacetSpec

-----------------------------------------------------------------------------
(* The theorems *)

\* Every variable of the facet always holds what its type holds, under any
\* interleaving of the shell's calls.
THEOREM FacetTypes == FacetSpec => []FacetTypeOK
  <1>1. FInv /\ ShowsInv => FacetTypeOK
    BY DEF FInv, IInv, HandlesInv, StreamsInv, ThreadsInv, ThreadOK, ShowsInv, Fits, FacetTypeOK
  <1>2. QED  BY <1>1, FacetInvariant, ShowsInvariant, PTL

\* A draft exists only while its handle does: Drop, whenever the runtime runs
\* it, takes the draft along, and nothing brings it back (C18, C22).
THEOREM NeverAZombie == FacetSpec => []NoZombies
  <1>1. FInv => NoZombies  BY DEF FInv, HandlesInv
  <1>2. QED  BY <1>1, FacetInvariant, PTL

\* A checker is in its slot or with exactly one thread, whoever drops the draft
\* in the meantime and however the call ends (D34).
THEOREM CheckerNeverLost == FacetSpec => []CheckerIsNeverLost
  <1>1. ASSUME FInv PROVE CheckerIsNeverLost
    <2>1. \A id \in Handles :
            Holders(id) = {t \in Threads : Holds(threads[t], id)}
      BY DEF Holders, Holds, Holding
    <2>2. ASSUME NEW id \in Handles, checkers[id] = "out"
          PROVE  Cardinality(Holders(id)) = 1
      <3>1. PICK t \in Threads : Holds(threads[t], id)
        BY <1>1, <2>2 DEF FInv, SlotsInv
      <3>2. \A u \in Threads : Holds(threads[u], id) => u = t
        BY <1>1, <3>1 DEF FInv, SlotsInv
      <3>3. {u \in Threads : Holds(threads[u], id)} = {t}
        BY <3>1, <3>2
      <3>4. Holders(id) = {t}  BY <2>1, <3>3
      <3>5. QED  BY <3>4, FS_Singleton
    <2>3. ASSUME NEW id \in Handles, checkers[id] # "out"
          PROVE  Holders(id) = {}
      <3>1. \A u \in Threads : ~Holds(threads[u], id)
        BY <1>1, <2>3 DEF FInv, SlotsInv
      <3>2. QED  BY <2>1, <3>1
    <2>4. QED  BY <2>2, <2>3 DEF CheckerIsNeverLost
  <1>2. QED  BY <1>1, FacetInvariant, PTL

\* A check that shows Pending is in the hands of a thread that will settle it
\* with the token that does (C10).
THEOREM PendingAlwaysDriven == FacetSpec => []PendingIsDriven
  <1>1. FInv => PendingIsDriven  BY DEF FInv
  <1>2. QED  BY <1>1, FacetInvariant, PTL

\* The calls of any number of threads are steps of the store one at a time:
\* what the store keeps, it keeps under the facet (C13, C15).
THEOREM StoreKeptUnderCalls == FacetSpec => [](SyncTracksCanonical /\ VerdictIsValueBound)
  <1>1. FInv => SyncTracksCanonical
    BY DEF FInv, IInv, SyncTracksCanonical, EntryInv, Live
  <1>2. FInv => VerdictIsValueBound
    BY DEF FInv, CInv, CheckInv, VerdictIsValueBound
  <1>3. QED  BY <1>1, <1>2, FacetInvariant, PTL

\* When no snapshot of a draft is on its way, the shell shows the version the
\* draft is based on, or its ring lost a snapshot of that version: it is the
\* ring's size alone, and never the order in which concurrent calls pushed what
\* they had built, that leaves an old rebase on screen (C15).
THEOREM ShownVersionsSettle == FacetSpec => []ShownVersionSettles
  <1>1. ASSUME FInv, ShowsInv, NEW id \in DOMAIN drafts \cap DOMAIN shown, Quiet(id)
        PROVE  \/ shown[id] = BaseOf(drafts, id)
               \/ shown[id] < BaseOf(drafts, id) /\ lost[id] = BaseOf(drafts, id)
    <2>1. Followed(id)
      BY <1>1 DEF FInv, HandlesInv, StreamsInv, ShowsInv
    <2>2. \A v : ~InRing(rings[id], v)
      BY <1>1 DEF Quiet, InRing
    <2>3. \A t \in Threads : ~Reads(threads[t], id) /\ \A v : ~Carries(threads[t], id, v)
      BY <1>1 DEF Quiet, Reading, Reads, Carries
    <2>4. BaseOf(drafts, id) \in Nat  BY <1>1, BasesAreNat DEF FInv
    <2>5. QED  BY <2>1, <2>2, <2>3, <2>4 DEF Followed
  <1>2. FInv /\ ShowsInv => ShownVersionSettles
    BY <1>1 DEF ShownVersionSettles, BaseOf
  <1>3. QED  BY <1>2, FacetInvariant, ShowsInvariant, PTL
=============================================================================
