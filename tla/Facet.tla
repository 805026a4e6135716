------------------------------- MODULE Facet -------------------------------
(***************************************************************************)
(* The facet a native shell links against (gen-profile-ffi/generated.rs):  *)
(* the store behind one lock, a snapshot stream per draft and one for the  *)
(* canonical entity, and the foreign checker.                              *)
(*                                                                         *)
(* Threads of the shell call in concurrently.  A call is one critical      *)
(* section, a step of Store; the snapshots it built are pushed afterwards, *)
(* one at a time, with the lock released.  run_username_check is several   *)
(* critical sections with an outcall to the checker in the middle.         *)
(*                                                                         *)
(* A subscription is a ring of a fixed size: what is pushed into a full    *)
(* one is dropped, the newest first, and nobody is told.  The shell is the *)
(* view model of apple/profile-app: it shows the last snapshot of its      *)
(* draft that was delivered and passed its version guard.                  *)
(*                                                                         *)
(* Of a snapshot the version is kept; Shell models what it says of fields. *)
(* The runtime moves snapshots from the ring to an unbounded queue of its  *)
(* own, which only delays them: delivery is one step.  What the view model *)
(* reads after its own calls only shows a later version sooner: the first  *)
(* read of a draft is modelled.  Nobody subscribes to the canonical stream *)
(* here, which feeds one line of the form, without a guard.                *)
(***************************************************************************)
EXTENDS Store, FiniteSets, Sequences

CONSTANTS
  Threads,       \* the shell's threads
  RingCapacity   \* slots of a subscription's ring

ASSUME FacetAssumption == NoValue \notin TokenType

ASSUME RingAssumption == RingCapacity \in Nat \ {0}

VARIABLES
  checkers,   \* handle -> "none" | "in" | "out": the checker and its slot
  threads,    \* thread -> the call it is in
  rings,      \* subscribed stream -> the versions of the snapshots in its ring
  lost,       \* subscribed stream -> the newest version a full ring dropped, or 0
  shown       \* subscribed stream -> the version the shell shows, or NoValue

streamVars == <<rings, lost, shown>>

facetVars == <<vars, checkers, threads, streamVars>>

Handles == DOMAIN checkers

\* The stream of canonical snapshots; the others are named by draft ids.
StoreStream == MaxDrafts

\* The version snapshot() reads of a handle: a released draft is a tombstone.
VersionOf(id) == IF id \in DOMAIN drafts THEN drafts[id].draft.baseVersion ELSE 0

Idle == [at |-> "idle", handle |-> NoValue, token |-> NoValue,
         verdict |-> NoValue, emits |-> {}]

InCall(t, at, handle) ==
  threads' = [threads EXCEPT ![t] = [Idle EXCEPT !.at = at, !.handle = handle]]

Goto(t, at) == threads' = [threads EXCEPT ![t].at = at]

Return(t) == threads' = [threads EXCEPT ![t] = Idle]

-----------------------------------------------------------------------------
(* Streams *)

\* The snapshots of drafts `ids` as the critical section leaves them.
DraftEmits(ids) ==
  {[stream |-> id, version |-> drafts'[id].draft.baseVersion] : id \in ids}

StoreEmit == {[stream |-> StoreStream, version |-> version']}

\* What a submit reports of the drafts it moved.
SubmitEmits(moved) == DraftEmits(moved) \cup StoreEmit

\* Snapshots leave in the order of the drafts' ids, the canonical one last.
Firsts(emits) == {e \in emits : \A o \in emits : e.stream <= o.stream}

\* flush, once the lock is released.
Flush(t, handle, emits) ==
  threads' = [threads EXCEPT ![t] =
                IF emits = {} THEN Idle
                ELSE [Idle EXCEPT !.at = "push", !.handle = handle, !.emits = emits]]

\* Mutant: every snapshot is taken.
ReconcileUnguarded(old, new) == new

\* A snapshot stamped with an older version is a stale rebase; an equal one
\* is an edit or a check.
Reconcile(old, new) == IF new < old THEN old ELSE new

\* Mutant: a push revives the stream of a handle that is gone.
OfferAlways(stream, v) ==
  /\ rings' = [s \in DOMAIN rings \cup {stream} |->
                 IF s = stream THEN <<v>> ELSE rings[s]]
  /\ UNCHANGED lost

\* StreamProducer::push.  A stream nobody subscribed to, or whose handle is
\* gone, reaches nobody.
Offer(stream, v) ==
  \/ /\ stream \in DOMAIN rings /\ Len(rings[stream]) < RingCapacity
     /\ rings' = [rings EXCEPT ![stream] = Append(@, v)]
     /\ UNCHANGED lost
  \/ /\ stream \in DOMAIN rings /\ Len(rings[stream]) >= RingCapacity
     /\ lost' = [lost EXCEPT ![stream] = IF @ < v THEN v ELSE @]
     /\ UNCHANGED rings
  \/ stream \notin DOMAIN rings /\ UNCHANGED <<rings, lost>>

Push(t) ==
  /\ threads[t].at = "push"
  /\ \E e \in Firsts(threads[t].emits) :
       /\ Offer(e.stream, e.version)
       /\ Flush(t, threads[t].handle, threads[t].emits \ {e})
  /\ UNCHANGED <<vars, checkers, shown>>

\* Between subscribing to a draft and reading it the shell takes no delivery.
Reading(stream) == \E t \in Threads : threads[t].at = "read" /\ threads[t].handle = stream

\* The loop over a draft's stream.
Deliver(stream) ==
  /\ rings[stream] # <<>> /\ ~Reading(stream)
  /\ shown' = [shown EXCEPT ![stream] = Reconcile(@, Head(rings[stream]))]
  /\ rings' = [rings EXCEPT ![stream] = Tail(@)]
  /\ UNCHANGED <<vars, checkers, threads, lost>>

-----------------------------------------------------------------------------
(* Calls of one critical section *)

CallEdit(t, id) ==
  /\ \E f \in Fields :
       \/ \E r \in Raws : SetRaw(id, f, r)
       \/ ResolveKeepMine(id, f)
       \/ ResolveTakeTheirs(id, f)
  /\ Flush(t, id, DraftEmits({id}))
  /\ UNCHANGED <<checkers, streamVars>>

Registered == {id \in DOMAIN drafts : drafts[id].rebases}

CallSubmit(t, id) ==
  /\ Submit(id)
  /\ Flush(t, id, SubmitEmits(Registered \ {id}))
  /\ UNCHANGED <<checkers, streamVars>>

CallApplyCanonical(t) ==
  /\ \E entity \in Entities(accepts) : ApplyCanonical(entity)
  /\ Flush(t, NoValue, SubmitEmits(Registered))
  /\ UNCHANGED <<checkers, streamVars>>

\* There is no canonical left to snapshot: the store's stream is silent.
CallDeleteCanonical(t) ==
  /\ DeleteCanonical
  /\ Flush(t, NoValue, DraftEmits(Registered))
  /\ UNCHANGED <<checkers, streamVars>>

\* A released draft stashes as an empty create-flow draft.
CallStash(id) ==
  /\ IF id \in DOMAIN drafts THEN SaveStash(id)
     ELSE /\ stash' = Stash(CreateFlow(0))
          /\ UNCHANGED <<canonical, version, drafts, nextId, tokens, accepts>>
  /\ UNCHANGED <<checkers, threads, streamVars>>

\* checkout and restore: a new handle, with a checker or without.
CallOpen(t) ==
  /\ Checkout \/ Restore
  /\ \E slot \in {"none", "in"} :
       checkers' = [h \in Handles \cup {nextId} |->
                      IF h = nextId THEN slot ELSE checkers[h]]
  /\ InCall(t, "subscribe", nextId)
  /\ UNCHANGED streamVars

Subscribed(function, id, x) ==
  [s \in DOMAIN function \cup {id} |-> IF s = id THEN x ELSE function[s]]

\* The shell subscribes to the new draft's stream ...
Subscribe(t) ==
  LET id == threads[t].handle
  IN  /\ threads[t].at = "subscribe"
      /\ rings' = Subscribed(rings, id, <<>>)
      /\ lost' = Subscribed(lost, id, 0)
      /\ shown' = Subscribed(shown, id, NoValue)
      /\ Goto(t, "read")
      /\ UNCHANGED <<vars, checkers>>

\* ... and then reads it; what was pushed in between is delivered afterwards.
ReadFirst(t) ==
  LET id == threads[t].handle
  IN  /\ threads[t].at = "read"
      /\ shown' = [shown EXCEPT ![id] = VersionOf(id)]
      /\ Return(t)
      /\ UNCHANGED <<vars, checkers, rings, lost>>

\* Mutant: the handle goes and the draft stays.
ReleaseNothing(id) == UNCHANGED vars

\* What Drop does to the store.
Release(id) == IF id \in DOMAIN drafts THEN Close(id) ELSE UNCHANGED vars

\* The runtime drops a handle no thread is in a call of.
DropHandle(id) ==
  /\ \A t \in Threads : threads[t].handle # id
  /\ Release(id)
  /\ checkers' = [h \in Handles \ {id} |-> checkers[h]]
  /\ rings' = [s \in DOMAIN rings \ {id} |-> rings[s]]
  /\ lost' = [s \in DOMAIN lost \ {id} |-> lost[s]]
  /\ shown' = [s \in DOMAIN shown \ {id} |-> shown[s]]
  /\ UNCHANGED threads

-----------------------------------------------------------------------------
(* run_username_check *)

RunCheck(t, id) ==
  /\ id \in DOMAIN drafts
  /\ InCall(t, "take", id)
  /\ UNCHANGED <<vars, checkers, streamVars>>

\* No checker, or another call is using it: Ok(false).
Take(t) ==
  LET id == threads[t].handle
  IN  /\ threads[t].at = "take"
      /\ IF checkers[id] = "in"
         THEN Goto(t, "begin") /\ checkers' = [checkers EXCEPT ![id] = "out"]
         ELSE Return(t) /\ UNCHANGED checkers
      /\ UNCHANGED <<vars, streamVars>>

\* The draft may have been released in the meantime.
BeginOutcall(t) ==
  LET id == threads[t].handle
  IN  /\ threads[t].at = "begin"
      /\ IF id \in DOMAIN drafts
         THEN /\ BeginCheck(id)
              /\ threads' = [threads EXCEPT ![t] = [@ EXCEPT
                   !.at    = "pending",
                   !.token = CHOOSE token \in tokens' : token \notin tokens,
                   !.emits = DraftEmits({id})]]
         ELSE Goto(t, "giveBack") /\ UNCHANGED vars
      /\ UNCHANGED <<checkers, streamVars>>

PushPending(t) ==
  /\ threads[t].at = "pending"
  /\ \E e \in threads[t].emits : Offer(e.stream, e.version)
  /\ threads' = [threads EXCEPT ![t] = [@ EXCEPT !.at = "outcall", !.emits = {}]]
  /\ UNCHANGED <<vars, checkers, shown>>

\* The foreign checker answers; no lock is held.
Answer(t) ==
  /\ threads[t].at = "outcall"
  /\ \E verdict \in Verdicts :
       threads' = [threads EXCEPT ![t].at = "giveBack", ![t].verdict = verdict]
  /\ UNCHANGED <<vars, checkers, streamVars>>

\* Mutant: a call whose draft is gone keeps the checker.
SlotAfterKept(t) == IF threads[t].token = NoValue THEN "out" ELSE "in"

\* The checker goes back into its slot on both paths.
SlotAfter(t) == "in"

GiveBack(t) ==
  /\ threads[t].at = "giveBack"
  /\ checkers' = [checkers EXCEPT ![threads[t].handle] = SlotAfter(t)]
  /\ IF threads[t].token = NoValue THEN Return(t) ELSE Goto(t, "complete")
  /\ UNCHANGED <<vars, streamVars>>

\* Mutant: an error of the checker's returns early.
SettleUnlessFailed(t) ==
  LET id == threads[t].handle
  IN  /\ threads[t].at = "complete"
      /\ IF threads[t].verdict = "Fail" THEN Return(t) /\ UNCHANGED vars
         ELSE /\ CompleteCheck(threads[t].token, threads[t].verdict)
              /\ Flush(t, id, DraftEmits({id} \cap DOMAIN drafts))
      /\ UNCHANGED <<checkers, streamVars>>

\* complete_check; a draft released meanwhile is told nothing.
Settle(t) ==
  LET id == threads[t].handle
  IN  /\ threads[t].at = "complete"
      /\ CompleteCheck(threads[t].token, threads[t].verdict)
      /\ Flush(t, id, DraftEmits({id} \cap DOMAIN drafts))
      /\ UNCHANGED <<checkers, streamVars>>

-----------------------------------------------------------------------------
\* new(): no canonical yet.
FacetInit ==
  /\ Init /\ canonical = NoValue
  /\ checkers = Empty
  /\ threads = [t \in Threads |-> Idle]
  /\ rings = Empty /\ lost = Empty /\ shown = Empty

\* The calls an idle thread can make.
Call(t) ==
  /\ threads[t] = Idle
  /\ \/ \E id \in Handles \cap DOMAIN drafts :
          CallEdit(t, id) \/ CallSubmit(t, id) \/ RunCheck(t, id)
     \/ CallApplyCanonical(t)
     \/ CallDeleteCanonical(t)
     \/ CallOpen(t)

\* What a thread that is in a call does next.
Continue(t) ==
  \/ Push(t) \/ Subscribe(t) \/ ReadFirst(t)
  \/ Take(t) \/ BeginOutcall(t) \/ PushPending(t) \/ GiveBack(t) \/ Settle(t)

FacetNext ==
  \/ \E t \in Threads : Call(t) \/ Continue(t) \/ Answer(t)
  \/ \E id \in Handles : CallStash(id) \/ DropHandle(id)
  \/ \E stream \in DOMAIN rings : Deliver(stream)

FacetSpec == FacetInit /\ [][FacetNext]_facetVars

\* A thread inside a call runs on, and the foreign checker returns.
FairFacetSpec ==
  FacetSpec /\ \A t \in Threads : WF_facetVars(Continue(t)) /\ WF_facetVars(Answer(t))

-----------------------------------------------------------------------------
(* Properties *)

\* Threads that hold the checker of handle id.
Holders(id) ==
  {t \in Threads : /\ threads[t].handle = id
                   /\ threads[t].at \in {"begin", "pending", "outcall", "giveBack"}}

FacetTypeOK ==
  /\ TypeOK
  /\ Handles \subseteq 0..(nextId - 1)
  /\ \A id \in Handles : checkers[id] \in {"none", "in", "out"}
  /\ \A t \in Threads : threads[t].handle \in Handles \cup {NoValue}
  /\ DOMAIN rings \subseteq Handles
  /\ \A s \in DOMAIN rings : Len(rings[s]) <= RingCapacity

\* D34 and the outcall: a checker is in its slot or with exactly one thread,
\* however its call ends, so it is never asked twice at once and never lost.
CheckerIsNeverLost ==
  \A id \in Handles :
    /\ checkers[id] = "out" => Cardinality(Holders(id)) = 1
    /\ checkers[id] # "out" => Holders(id) = {}

\* C18, C22: a draft exists only while its handle does.
NoZombies == DOMAIN drafts \subseteq Handles

\* C10: a check that shows Pending has a thread that will complete it with
\* the token that settles it.
PendingIsDriven ==
  \A id \in DOMAIN drafts :
    drafts[id].draft.check.state = "Pending" =>
      \E t \in Threads :
        /\ threads[t].at \in {"pending", "outcall", "giveBack", "complete"}
        /\ threads[t].token # NoValue /\ threads[t].token.id = id
        /\ Accepts(drafts[id].draft.check, threads[t].token)

\* No snapshot of `stream` is on its way.
Quiet(stream) ==
  /\ rings[stream] = <<>> /\ ~Reading(stream)
  /\ \A t \in Threads : \A e \in threads[t].emits : e.stream # stream

\* C15, and the version guard of the shells: when no snapshot is on its way,
\* the shell shows the version its draft is based on, whatever order the
\* pushes of concurrent calls arrived in.  Short of it it stays only when a
\* full ring dropped a snapshot of that very version: the getter that would
\* recover it is not called for that.
ShownVersionSettles ==
  \A id \in DOMAIN drafts \cap DOMAIN shown :
    LET base == drafts[id].draft.baseVersion
    IN  Quiet(id) => \/ shown[id] = base
                     \/ shown[id] < base /\ lost[id] = base

\* Check number k of draft id is under way.
UnderWay(id, k) ==
  /\ id \in DOMAIN drafts
  /\ drafts[id].draft.check.state = "Pending" /\ drafts[id].draft.check.seq = k

\* C10: every check begun is answered, superseded or abandoned with its draft;
\* no spinner turns for ever.
ChecksSettle ==
  \A id \in 0..(MaxDrafts - 1), k \in 1..MaxSeq : UnderWay(id, k) ~> ~UnderWay(id, k)
=============================================================================
