---------------------------- MODULE Sync_proofs ----------------------------
(***************************************************************************)
(* What the runs of MCSync show on small instances, for any number of      *)
(* windows, clients, drafts, ticks and deaths of the daemon.               *)
(*                                                                         *)
(* None of the properties is inductive: all but two speak of a window that *)
(* has settled, and nothing in them says how it got there.  WindowInv says *)
(* what holds of every window at every moment: what it shows is what the   *)
(* daemon has, or it has a reason to fetch it - a step left of its own     *)
(* operation, or a tick in its socket or still in the hands of a thread of *)
(* the daemon (Coming).  A settled window has no reason left.              *)
(*                                                                         *)
(* The proof has three layers.  DaemonInv is the daemon's own: its store   *)
(* keeps the invariants of Store_proofs and Merge_proofs, whose steps its  *)
(* requests are, and every draft and token has one owner.  Leaves(c) is    *)
(* all a step of somebody else can do to connection c: it takes no draft   *)
(* and no tick away, and announces whatever it moves.  WindowOK(x) is one  *)
(* window's: Leaves keeps it (OthersKeep), and so does every step of its   *)
(* own, one lemma per action.                                              *)
(***************************************************************************)
EXTENDS SyncWindow, Merge_proofs, WellFoundedInduction

-----------------------------------------------------------------------------
(* What a thread writes first *)

\* A set of numbers has a least one.
LEMMA LeastNumber ==
  ASSUME NEW S \in SUBSET Nat, S # {}
  PROVE  \E n \in S : \A m \in S : n <= m
  <1>1. S \subseteq Nat  OBVIOUS
  <1>2. PICK x \in S : \A y \in S : <<y, x>> \notin OpToRel(<, Nat)
    BY <1>1, WFMin, NatLessThanWellFounded, Zenon
  <1>3. \A y \in S : ~(y < x)
    BY <1>2, Zenon DEF OpToRel
  <1>4. QED  BY <1>3

USE FieldAssumption, DraftAssumption, StoreAssumption, SyncdAssumption

\* flush: what it writes first is one of the emits.
LEMMA FirstIsAnEmit ==
  ASSUME NEW emits \in SUBSET [to : Nat, tick : Tick], emits # {}
  PROVE  First(emits) \in emits
  <1> DEFINE tos == {e.to : e \in emits}
  <1>1. PICK n \in tos : \A m \in tos : n <= m
    <2>1. tos \in SUBSET Nat /\ tos # {}  OBVIOUS
    <2>2. QED  BY <2>1, LeastNumber
  <1> DEFINE sames == {e \in emits : e.to = n}
             seconds == {Rank(e)[2] : e \in sames}
  <1>2. \A e \in emits : Rank(e)[1] = e.to /\ Rank(e)[2] \in Nat
    BY DEF Rank, Tick, Option
  <1>3. PICK k \in seconds : \A m \in seconds : k <= m
    <2>1. seconds \in SUBSET Nat /\ seconds # {}  BY <1>1, <1>2
    <2>2. QED  BY <2>1, LeastNumber
  <1>4. PICK e \in sames : Rank(e)[2] = k  OBVIOUS
  <1>5. \A f \in emits : Precedes(Rank(e), Rank(f))
    <2> SUFFICES ASSUME NEW f \in emits PROVE Precedes(Rank(e), Rank(f))  OBVIOUS
    <2>1. n \in Nat /\ f.to \in Nat /\ n <= f.to  BY <1>1
    <2>2. CASE f.to = n
      BY <1>2, <1>3, <1>4, <2>2 DEF Precedes
    <2>3. CASE f.to # n
      BY <1>2, <1>4, <2>1, <2>3 DEF Precedes
    <2>4. QED  BY <2>2, <2>3
  <1>6. QED  BY <1>5 DEF First

-----------------------------------------------------------------------------
(* The daemon *)

\* What is connected and what is on its way.
WiresOK ==
  /\ nextConn \in Nat
  /\ conns \in [DOMAIN conns -> Conn]
  /\ \A c \in DOMAIN conns : c \in Nat /\ c < nextConn
  /\ sockets \in [DOMAIN conns -> Seq(Tick)]
  /\ peers \in [DOMAIN conns -> Peers]

\* Ownership, one draft and one token at a time.
OwnedOneByOne ==
  /\ \A id : id \in DOMAIN drafts <=> \E c \in DOMAIN conns : id \in conns[c].drafts
  /\ \A t : t \in tokens <=> \E c \in DOMAIN conns : t \in conns[c].tokens
  /\ \A c, d \in DOMAIN conns : \A id :
       id \in conns[c].drafts /\ id \in conns[d].drafts => c = d

\* No two connections hold the same token.
TokensAreApart ==
  \A c, d \in DOMAIN conns : \A t :
    t \in conns[c].tokens /\ t \in conns[d].tokens => c = d

\* What its store keeps whatever the requests.
StoreInv == IInv /\ CInv /\ RInv

\* The daemon's inductive invariant.
DaemonInv == StoreInv /\ WiresOK /\ OwnedOneByOne /\ TokensAreApart

\* handle_request on connection c: every request that changes state.
Handler(c) ==
  \/ HandleCheckout(c)
  \/ \E blob \in StashType : HandleRestore(c, blob)
  \/ HandleTogglePaused(c)
  \/ \E id \in conns[c].drafts :
       \/ \E f \in Fields, r \in Raws : HandleTrySet(c, id, f, r)
       \/ \E f \in Fields : HandleResolve(c, id, f)
       \/ HandleBeginCheck(c, id)
       \/ \E token \in conns[c].tokens, verdict \in Verdicts :
            HandleCompleteCheck(c, id, token, verdict)
       \/ HandleSubmit(c, id)
       \/ HandleClose(c, id)

\* A draft a connection holds is live, and a token it holds is kept.
LEMMA HeldIsLive ==
  ASSUME DaemonInv, NEW c \in DOMAIN conns
  PROVE  /\ conns[c] \in Conn
         /\ conns[c].drafts \subseteq DOMAIN drafts
         /\ conns[c].tokens \subseteq tokens
         /\ DOMAIN drafts \subseteq Nat
         /\ \A id \in DOMAIN drafts : drafts[id] \in EntryType /\ drafts[id].draft \in DraftType
  <1>1. conns[c] \in Conn  BY DEF DaemonInv, WiresOK
  <1>2. conns[c].drafts \subseteq DOMAIN drafts  BY DEF DaemonInv, OwnedOneByOne
  <1>3. conns[c].tokens \subseteq tokens  BY DEF DaemonInv, OwnedOneByOne
  <1>4. DOMAIN drafts \subseteq Nat /\ \A id \in DOMAIN drafts : drafts[id] \in EntryType
    BY DEF DaemonInv, StoreInv, IInv, TypeOK
  <1>5. QED  BY <1>1, <1>2, <1>3, <1>4 DEF EntryType

\* What leaves the store alone keeps its invariant.
LEMMA StoreKept ==
  ASSUME StoreInv, UNCHANGED vars PROVE StoreInv'
  BY NextInv, CheckNext, RecoverNext DEF StoreInv

\* Every step of Store keeps it.
LEMMA StoreSteps ==
  ASSUME StoreInv, Next PROVE StoreInv'
  BY NextInv, CheckNext, RecoverNext DEF StoreInv

\* complete_check over the wire: the token of another draft settles nothing.
LEMMA WireCompleteKeeps ==
  ASSUME StoreInv, NEW id \in DOMAIN drafts, NEW token \in tokens, NEW verdict \in Verdicts,
         IF Settles(token, id)
         THEN LET d == drafts[id].draft
              IN  Update(id, [d EXCEPT !.check = Complete(d.check, token, verdict)])
         ELSE UNCHANGED drafts,
         tokens' = tokens \ {token},
         UNCHANGED <<canonical, version, nextId, stash, accepts>>
  PROVE  StoreInv'
  <1>1. CASE token.id = id
    <2>1. CompleteCheck(token, verdict)  BY <1>1 DEF CompleteCheck, Settles
    <2>2. QED  BY <2>1, StoreSteps DEF Next
  <1>2. CASE token.id # id
    <2>1. UNCHANGED drafts  BY <1>2 DEF Settles
    <2>2. IInv'  BY <2>1, Assembled DEF StoreInv, IInv, TypeOK
    <2>3. CInv' /\ RInv'  BY <2>1 DEF StoreInv, CInv, CheckInv, RInv
    <2>4. QED  BY <2>2, <2>3 DEF StoreInv
  <1>3. QED  BY <1>1, <1>2

\* from_canonical, adopted.
LEMMA CheckoutKeeps ==
  ASSUME StoreInv, Checkout PROVE StoreInv'
  BY StoreSteps DEF Next

\* from_stash, adopted.
LEMMA RestoreKeeps ==
  ASSUME StoreInv, NEW blob \in StashType, Adopt(FromStash(accepts, blob))
  PROVE  StoreInv'
  <1> DEFINE d == FromStash(accepts, blob)
  <1>1. IInv /\ CInv /\ RInv /\ TypeOK  BY DEF StoreInv, IInv
  <1>2. /\ d \in DraftType
        /\ \A f \in Fields : Admitted(accepts, d.fields[f]) /\ ~IsConflicted(d.fields[f])
    BY <1>1, RestoredDraft
  <1>3. d.check = NewCheck  BY DEF FromStash
  <1>4. AllRecover(d)
    <2>1. \A f \in Fields : d.fields[f] = UnstashField(accepts, blob.fields[f])
      BY DEF FromStash
    <2>2. \A f \in Fields : blob.fields[f] \in FieldStashType  BY DEF StashType
    <2>3. QED  BY <1>1, <2>1, <2>2, UnstashRecovers DEF AllRecover, TypeOK
  <1>5. Adopt(d)  OBVIOUS
  <1> HIDE DEF d
  <1>6. IInv'  BY <1>1, <1>2, <1>5, AdoptInv
  <1>7. CInv'  BY <1>1, <1>2, <1>3, <1>5, AdoptCheck
  <1>8. RInv'  BY <1>1, <1>2, <1>4, <1>5, AdoptRecovers
  <1>9. QED  BY <1>6, <1>7, <1>8 DEF StoreInv

\* toggle_paused applies an entity the constraints accept.
LEMMA FlippedIsAnEntity ==
  ASSUME TypeOK, canonical # NoValue, NEW v \in Values \cap accepts
  PROVE  [canonical EXCEPT ![Paused] = v] \in Entities(accepts)
  BY DEF TypeOK, Entities

\* A request is a step of the store.
LEMMA HandlerKeepsStore ==
  ASSUME DaemonInv, NEW c, Handler(c) PROVE StoreInv'
  <1>1. StoreInv /\ TypeOK  BY DEF DaemonInv, StoreInv, IInv
  <1>2. c \in DOMAIN conns
    BY DEF Handler, HandleCheckout, HandleRestore, HandleTogglePaused, HandleTrySet,
           HandleResolve, HandleBeginCheck, HandleCompleteCheck, HandleSubmit, HandleClose,
           Serving
  <1>3. conns[c].drafts \subseteq DOMAIN drafts /\ conns[c].tokens \subseteq tokens
    BY <1>2, HeldIsLive
  <1>4. CASE HandleCheckout(c)
    BY <1>1, <1>4, CheckoutKeeps DEF HandleCheckout
  <1>5. CASE \E blob \in StashType : HandleRestore(c, blob)
    BY <1>1, <1>5, RestoreKeeps DEF HandleRestore
  <1>6. CASE HandleTogglePaused(c)
    <2>1. PICK v \in Values \cap accepts : ApplyCanonical([canonical EXCEPT ![Paused] = v])
      BY <1>6 DEF HandleTogglePaused
    <2>2. canonical # NoValue  BY <1>6 DEF HandleTogglePaused
    <2>3. [canonical EXCEPT ![Paused] = v] \in Entities(accepts)
      BY <1>1, <2>2, FlippedIsAnEntity
    <2>4. Next  BY <2>1, <2>3 DEF Next
    <2>5. QED  BY <1>1, <2>4, StoreSteps
  <1>7. ASSUME NEW id \in conns[c].drafts,
               \/ \E f \in Fields, r \in Raws : HandleTrySet(c, id, f, r)
               \/ \E f \in Fields : HandleResolve(c, id, f)
               \/ HandleBeginCheck(c, id)
               \/ HandleSubmit(c, id)
               \/ HandleClose(c, id)
        PROVE  StoreInv'
    <2>1. id \in DOMAIN drafts  BY <1>3
    <2>2. UserStep(id)
      BY <1>7 DEF UserStep, HandleTrySet, HandleResolve, HandleBeginCheck, HandleSubmit,
                  HandleClose
    <2>3. Next  BY <2>1, <2>2 DEF Next
    <2>4. QED  BY <1>1, <2>3, StoreSteps
  <1>8. ASSUME NEW id \in conns[c].drafts, NEW token \in conns[c].tokens,
               NEW verdict \in Verdicts, HandleCompleteCheck(c, id, token, verdict)
        PROVE  StoreInv'
    <2>1. id \in DOMAIN drafts /\ token \in tokens  BY <1>3
    <2>2. QED  BY <1>1, <1>8, <2>1, WireCompleteKeeps DEF HandleCompleteCheck
  <1>9. QED  BY <1>4, <1>5, <1>6, <1>7, <1>8 DEF Handler

\* The reader thread prunes what the connection held.
LEMMA DisconnectKeepsStore ==
  ASSUME DaemonInv, NEW c, Disconnect(c) PROVE StoreInv'
  <1>1. /\ drafts' = [id \in DOMAIN drafts \ conns[c].drafts |-> drafts[id]]
        /\ tokens' \subseteq tokens
        /\ UNCHANGED <<canonical, version, nextId, stash, accepts>>
    BY DEF Disconnect, PrunedDrafts
  <1>2. IInv /\ CInv /\ RInv  BY DEF DaemonInv, StoreInv
  <1>3. \A id \in DOMAIN drafts' : EntryInv(accepts', drafts'[id], canonical', version')
    BY <1>1, <1>2 DEF IInv
  <1>4. IInv'  BY <1>1, <1>2, <1>3, Assembled DEF IInv, TypeOK
  <1>5. CInv' /\ RInv'  BY <1>1, <1>2 DEF CInv, CheckInv, RInv
  <1>6. QED  BY <1>4, <1>5 DEF StoreInv

\* The next daemon boots with the seed.
LEMMA DieKeepsStore ==
  ASSUME DaemonInv, Die PROVE StoreInv'
  <1>1. DOMAIN drafts' = {} /\ drafts' = [id \in DOMAIN drafts' |-> drafts'[id]]
    BY DEF Die, Empty
  <1>2. IInv /\ accepts \in AcceptSets /\ Seed \in Entities(accepts)
    BY DEF DaemonInv, StoreInv, IInv, TypeOK
  <1>3. /\ canonical' = Seed /\ version' = 0 /\ nextId' = 0 /\ tokens' = {}
        /\ stash' = stash /\ accepts' = accepts
    BY DEF Die
  <1>4. IInv'  BY <1>1, <1>2, <1>3, Assembled DEF IInv, TypeOK
  <1>5. CInv' /\ RInv'  BY <1>1, <1>3 DEF CInv, RInv
  <1>6. QED  BY <1>4, <1>5 DEF StoreInv

-----------------------------------------------------------------------------
(* What a request does to drafts and connections *)

\* The connection holds one more draft, a new one.
Registers(c) ==
  /\ nextId \notin DOMAIN drafts
  /\ DOMAIN drafts' = DOMAIN drafts \cup {nextId}
  /\ \A i \in DOMAIN drafts : drafts'[i] = drafts[i]
  /\ conns' = [conns EXCEPT ![c].drafts = @ \cup {nextId}]
  /\ UNCHANGED <<canonical, version, accepts, tokens>>

\* One of the connection's drafts changes, and what tokens it holds.
Touches(c, id) ==
  /\ id \in conns[c].drafts
  /\ DOMAIN drafts' = DOMAIN drafts
  /\ \A i \in DOMAIN drafts \ {id} : drafts'[i] = drafts[i]
  /\ \/ UNCHANGED <<conns, tokens>>
     \/ /\ tokens \subseteq tokens'
        /\ conns' = [conns EXCEPT ![c].tokens = @ \cup (tokens' \ tokens)]
     \/ \E token \in conns[c].tokens :
          /\ tokens' = tokens \ {token}
          /\ conns' = [conns EXCEPT ![c].tokens = @ \ {token}]
  /\ UNCHANGED <<canonical, version, accepts>>

\* One of its drafts is gone.
Drops(c, id) ==
  /\ id \in conns[c].drafts
  /\ DOMAIN drafts' = DOMAIN drafts \ {id}
  /\ \A i \in DOMAIN drafts' : drafts'[i] = drafts[i]
  /\ conns' = [conns EXCEPT ![c].drafts = @ \ {id}]
  /\ UNCHANGED <<canonical, version, accepts, tokens>>

\* Canonical changes, by a draft of the connection or by none, and every draft
\* that is rebased is announced to its owner.
Changes(c, id) ==
  /\ id \in conns[c].drafts \/ id = NoValue
  /\ DOMAIN drafts' = DOMAIN drafts \ {id}
  /\ \A i \in DOMAIN drafts' :
       drafts'[i] = IF drafts[i].rebases
                    THEN [drafts[i] EXCEPT !.draft =
                            RebaseDraft(drafts[i].draft, canonical', version')]
                    ELSE drafts[i]
  /\ Announce(c, id, Registered \ {id})
  /\ canonical' \in Entities(accepts)
  /\ version' = version + 1
  /\ UNCHANGED <<accepts, tokens>>

\* toggle_paused changes canonical on nobody's behalf.
LEMMA ToggleShape ==
  ASSUME DaemonInv, NEW c, HandleTogglePaused(c)
  PROVE  Changes(c, NoValue)
  <1>1. TypeOK /\ version \in Nat /\ DOMAIN drafts \subseteq Nat
    BY DEF DaemonInv, StoreInv, IInv, TypeOK
  <1>2. PICK v \in Values \cap accepts : ApplyCanonical([canonical EXCEPT ![Paused] = v])
    BY DEF HandleTogglePaused
  <1>3. canonical # NoValue /\ Announce(c, NoValue, Registered)
    BY DEF HandleTogglePaused
  <1>4. [canonical EXCEPT ![Paused] = v] \in Entities(accepts)
    BY <1>1, <1>3, FlippedIsAnEntity
  <1>5. DOMAIN drafts \ {NoValue} = DOMAIN drafts /\ Registered \ {NoValue} = Registered
    <2>1. NoValue \notin Nat  BY SyncdAssumption
    <2>2. NoValue \notin DOMAIN drafts  BY <1>1, <2>1
    <2>3. Registered \subseteq DOMAIN drafts  BY DEF Registered
    <2>4. NoValue \notin Registered  BY <2>2, <2>3
    <2>5. ASSUME NEW S, NoValue \notin S PROVE S \ {NoValue} = S
      <3>1. \A x : x \in S \ {NoValue} <=> x \in S  BY <2>5
      <3>2. QED  BY <3>1, SMT
    <2>6. QED  BY <2>2, <2>4, <2>5, Zenon
  <1>6. /\ DOMAIN drafts' = DOMAIN drafts \ {NoValue}
        /\ canonical' = [canonical EXCEPT ![Paused] = v] /\ version' = version + 1
        /\ UNCHANGED <<accepts, tokens>>
        /\ \A i \in DOMAIN drafts' :
             drafts'[i] = IF drafts[i].rebases
                          THEN [drafts[i] EXCEPT !.draft =
                                  RebaseDraft(drafts[i].draft, canonical', version')]
                          ELSE drafts[i]
    BY <1>2, <1>5 DEF ApplyCanonical, Apply, Rebased
  <1>7. Announce(c, NoValue, Registered \ {NoValue})
    BY <1>3, <1>5, Zenon
  <1>8. QED  BY <1>4, <1>6, <1>7 DEF Changes

\* Every request is one of these, by a thread with nothing left to write.
LEMMA HandlerShape ==
  ASSUME DaemonInv, NEW c, Handler(c)
  PROVE  /\ Serving(c)
         /\ UNCHANGED <<nextConn, sockets, peers>>
         /\ \/ Registers(c)
            \/ \E id \in conns[c].drafts : Touches(c, id) \/ Drops(c, id)
            \/ \E id \in conns[c].drafts \cup {NoValue} : Changes(c, id)
  <1>1. Serving(c) /\ UNCHANGED <<nextConn, sockets, peers>>
    BY DEF Handler, HandleCheckout, HandleRestore, HandleTogglePaused, HandleTrySet,
           HandleResolve, HandleBeginCheck, HandleCompleteCheck, HandleSubmit, HandleClose,
           KeepWires
  <1>2. c \in DOMAIN conns  BY <1>1 DEF Serving
  <1>3. /\ conns[c].drafts \subseteq DOMAIN drafts
        /\ DOMAIN drafts \subseteq Nat
        /\ \A id \in DOMAIN drafts : drafts[id] \in EntryType
    BY <1>2, HeldIsLive
  <1>4. TypeOK /\ nextId \notin DOMAIN drafts /\ version \in Nat
    BY DEF DaemonInv, StoreInv, IInv, TypeOK
  <1>5. ASSUME NEW d, Adopt(d), Register(c, nextId) PROVE Registers(c)
    BY <1>4, <1>5 DEF Adopt, Register, Put, Registers
  <1>6. CASE HandleCheckout(c) \/ \E blob \in StashType : HandleRestore(c, blob)
    BY <1>1, <1>5, <1>6 DEF HandleCheckout, HandleRestore, Checkout
  <1>7. ASSUME NEW id \in DOMAIN drafts, NEW d, Update(id, d)
        PROVE  /\ DOMAIN drafts' = DOMAIN drafts
               /\ \A i \in DOMAIN drafts \ {id} : drafts'[i] = drafts[i]
    BY <1>7 DEF Update
  <1>8. ASSUME NEW id \in conns[c].drafts,
               \/ \E f \in Fields, r \in Raws : HandleTrySet(c, id, f, r)
               \/ \E f \in Fields : HandleResolve(c, id, f)
        PROVE  Touches(c, id)
    BY <1>3, <1>7, <1>8
       DEF HandleTrySet, HandleResolve, SetRaw, ResolveKeepMine, ResolveTakeTheirs, EditField,
           Touches
  <1>9. ASSUME NEW id \in conns[c].drafts, HandleBeginCheck(c, id) PROVE Touches(c, id)
    <2>1. tokens \subseteq tokens' /\ UNCHANGED <<canonical, version, accepts>>
      BY <1>9 DEF HandleBeginCheck, BeginCheck
    <2>2. conns' = [conns EXCEPT ![c].tokens = @ \cup (tokens' \ tokens)]
      BY <1>9 DEF HandleBeginCheck
    <2>3. \E d : Update(id, d)  BY <1>9 DEF HandleBeginCheck, BeginCheck
    <2>4. QED  BY <1>3, <1>7, <2>1, <2>2, <2>3 DEF Touches
  <1>10. ASSUME NEW id \in conns[c].drafts, NEW token \in conns[c].tokens,
                NEW verdict \in Verdicts, HandleCompleteCheck(c, id, token, verdict)
         PROVE  Touches(c, id)
    <2>1. /\ tokens' = tokens \ {token}
          /\ conns' = [conns EXCEPT ![c].tokens = @ \ {token}]
          /\ UNCHANGED <<canonical, version, accepts>>
      BY <1>10 DEF HandleCompleteCheck
    <2>2. UNCHANGED drafts \/ \E d : Update(id, d)
      BY <1>10 DEF HandleCompleteCheck
    <2>3. QED  BY <1>3, <1>7, <2>1, <2>2 DEF Touches
  <1>11. ASSUME NEW id \in conns[c].drafts, HandleClose(c, id) PROVE Drops(c, id)
    BY <1>11 DEF HandleClose, Close, Without, Drops
  <1>12. ASSUME NEW id \in conns[c].drafts, HandleSubmit(c, id) PROVE Changes(c, id)
    <2>1. EntityOf(drafts[id].draft) \in Entities(accepts)
      BY <1>3, <1>4, <1>12, CommitsAnEntity DEF HandleSubmit, Submit, DaemonInv, StoreInv, IInv
    <2>2. Apply(Without(id), EntityOf(drafts[id].draft))
      BY <1>12 DEF HandleSubmit, Submit
    <2>3. Announce(c, id, Registered \ {id})  BY <1>12 DEF HandleSubmit
    <2>4. /\ DOMAIN drafts' = DOMAIN drafts \ {id}
          /\ canonical' = EntityOf(drafts[id].draft) /\ version' = version + 1
          /\ UNCHANGED <<accepts, tokens>>
          /\ \A i \in DOMAIN drafts' :
               drafts'[i] = IF drafts[i].rebases
                            THEN [drafts[i] EXCEPT !.draft =
                                    RebaseDraft(drafts[i].draft, canonical', version')]
                            ELSE drafts[i]
      BY <2>2 DEF Apply, Rebased, Without
    <2>5. QED  BY <2>1, <2>3, <2>4 DEF Changes
  <1>13. CASE HandleTogglePaused(c)  BY <1>1, <1>13, ToggleShape
  <1>14. QED
    BY <1>1, <1>6, <1>8, <1>9, <1>10, <1>11, <1>12, <1>13 DEF Handler

-----------------------------------------------------------------------------
(* Ownership and the wires *)

\* broadcast: its emits, and the ticks that are surely among them.
LEMMA BroadcastSends ==
  ASSUME NEW c, NEW owned, \A d \in DOMAIN owned : d \in Nat /\ owned[d] \subseteq Nat,
         NEW v \in Nat, NEW moved
  PROVE  /\ Broadcast(c, owned, v, moved) \subseteq [to : Nat, tick : Tick]
         /\ \A d \in DOMAIN owned :
              [to |-> d, tick |-> [draft |-> NoValue, version |-> v]]
                \in Broadcast(c, owned, v, moved)
         /\ \A d \in DOMAIN owned : \A id \in moved \cap owned[d] :
              [to |-> d, tick |-> [draft |-> id, version |-> v]]
                \in Broadcast(c, owned, v, moved)
  <1>1. [to : DOMAIN owned, tick : {[draft |-> NoValue, version |-> v]}]
          \subseteq [to : Nat, tick : Tick]
    BY DEF Tick, Option
  <1>2. ASSUME NEW d \in DOMAIN owned
        PROVE  [to : {d}, tick : [draft : moved \cap owned[d], version : {v}]]
                 \subseteq [to : Nat, tick : Tick]
    BY DEF Tick, Option
  <1>3. QED  BY <1>1, <1>2 DEF Broadcast

\* Announce, connection by connection.
LEMMA AnnounceDoes ==
  ASSUME DaemonInv, NEW c \in DOMAIN conns, NEW id, NEW moved, Announce(c, id, moved),
         version' \in Nat
  PROVE  /\ DOMAIN conns' = DOMAIN conns
         /\ conns' \in [DOMAIN conns -> Conn]
         /\ \A d \in DOMAIN conns : /\ conns'[d].drafts = conns[d].drafts \ {id}
                                    /\ conns'[d].tokens = conns[d].tokens
                                    /\ d # c => conns'[d].emits = conns[d].emits
         /\ \A d \in DOMAIN conns :
              [to |-> d, tick |-> [draft |-> NoValue, version |-> version']] \in conns'[c].emits
         /\ \A d \in DOMAIN conns : \A i \in moved \cap (conns[d].drafts \ {id}) :
              [to |-> d, tick |-> [draft |-> i, version |-> version']] \in conns'[c].emits
  <1> DEFINE owned == [d \in DOMAIN conns |-> conns[d].drafts \ {id}]
             sent == Broadcast(c, owned, version', moved)
  <1>1. /\ \A d \in DOMAIN conns : conns[d] \in Conn /\ d \in Nat
        /\ DOMAIN owned = DOMAIN conns
        /\ \A d \in DOMAIN conns : owned[d] = conns[d].drafts \ {id}
    BY DEF DaemonInv, WiresOK
  <1>2. \A d \in DOMAIN owned : d \in Nat /\ owned[d] \subseteq Nat
    BY <1>1 DEF Conn
  <1>3. conns' = [d \in DOMAIN conns |->
                    [conns[d] EXCEPT !.drafts = owned[d],
                                     !.emits = IF d = c THEN sent ELSE @]]
    BY DEF Announce
  <1> HIDE DEF owned
  <1>4. /\ sent \subseteq [to : Nat, tick : Tick]
        /\ \A d \in DOMAIN owned :
             [to |-> d, tick |-> [draft |-> NoValue, version |-> version']] \in sent
        /\ \A d \in DOMAIN owned : \A i \in moved \cap owned[d] :
             [to |-> d, tick |-> [draft |-> i, version |-> version']] \in sent
    BY <1>2, BroadcastSends
  <1> HIDE DEF sent
  <1>5. ASSUME NEW d \in DOMAIN conns
        PROVE  /\ conns'[d] \in Conn
               /\ conns'[d].drafts = owned[d]
               /\ conns'[d].tokens = conns[d].tokens
               /\ conns'[d].emits = IF d = c THEN sent ELSE conns[d].emits
    <2>1. conns'[d] = [conns[d] EXCEPT !.drafts = owned[d],
                                       !.emits = IF d = c THEN sent ELSE @]
      BY <1>3
    <2>2. conns[d] \in Conn /\ owned[d] \subseteq Nat  BY <1>1, <1>2
    <2>3. conns'[d] = [drafts |-> owned[d], tokens |-> conns[d].tokens,
                       emits |-> IF d = c THEN sent ELSE conns[d].emits]
      BY <2>1, <2>2 DEF Conn
    <2>4. (IF d = c THEN sent ELSE conns[d].emits) \in SUBSET [to : Nat, tick : Tick]
      BY <1>4, <2>2 DEF Conn
    <2>5. QED  BY <2>2, <2>3, <2>4 DEF Conn
  <1>6. DOMAIN conns' = DOMAIN conns /\ conns' \in [DOMAIN conns -> Conn]
    <2>1. conns' = [d \in DOMAIN conns |-> conns'[d]]  BY <1>3
    <2>2. QED  BY <1>5, <2>1
  <1>7. QED  BY <1>1, <1>4, <1>5, <1>6

\* What a connection becomes when the drafts it holds change.
LEMMA DraftsSet ==
  ASSUME WiresOK, NEW c \in DOMAIN conns, NEW ds \in SUBSET Nat,
         conns' = [conns EXCEPT ![c].drafts = ds]
  PROVE  /\ DOMAIN conns' = DOMAIN conns /\ conns' \in [DOMAIN conns -> Conn]
         /\ \A d \in DOMAIN conns : d # c => conns'[d] = conns[d]
         /\ conns'[c].drafts = ds
         /\ conns'[c].tokens = conns[c].tokens /\ conns'[c].emits = conns[c].emits
  <1>1. conns[c] \in Conn /\ conns \in [DOMAIN conns -> Conn]  BY DEF WiresOK
  <1>2. [conns[c] EXCEPT !.drafts = ds] =
          [drafts |-> ds, tokens |-> conns[c].tokens, emits |-> conns[c].emits]
    BY <1>1 DEF Conn
  <1>3. [drafts |-> ds, tokens |-> conns[c].tokens, emits |-> conns[c].emits] \in Conn
    BY <1>1 DEF Conn
  <1>4. conns' = [conns EXCEPT ![c] = [drafts |-> ds, tokens |-> conns[c].tokens,
                                       emits |-> conns[c].emits]]
    BY <1>2
  <1>5. PICK r \in Conn : r = [drafts |-> ds, tokens |-> conns[c].tokens, emits |-> conns[c].emits]
    BY <1>3
  <1>6. conns' = [conns EXCEPT ![c] = r]  BY <1>4, <1>5
  <1>7. DOMAIN conns' = DOMAIN conns /\ conns'[c] = r
    BY <1>1, <1>6
  <1>8. \A d \in DOMAIN conns : d # c => conns'[d] = conns[d]
    BY <1>1, <1>6
  <1>9. conns' \in [DOMAIN conns -> Conn]  BY <1>1, <1>6
  <1>10. QED  BY <1>5, <1>7, <1>8, <1>9

\* ... and when its tokens do.
LEMMA TokensSet ==
  ASSUME WiresOK, NEW c \in DOMAIN conns, NEW ts \in SUBSET TokenType,
         conns' = [conns EXCEPT ![c].tokens = ts]
  PROVE  /\ DOMAIN conns' = DOMAIN conns /\ conns' \in [DOMAIN conns -> Conn]
         /\ \A d \in DOMAIN conns : d # c => conns'[d] = conns[d]
         /\ conns'[c].tokens = ts
         /\ conns'[c].drafts = conns[c].drafts /\ conns'[c].emits = conns[c].emits
  <1>1. conns[c] \in Conn /\ conns \in [DOMAIN conns -> Conn]  BY DEF WiresOK
  <1>2. [conns[c] EXCEPT !.tokens = ts] =
          [drafts |-> conns[c].drafts, tokens |-> ts, emits |-> conns[c].emits]
    BY <1>1 DEF Conn
  <1>3. [drafts |-> conns[c].drafts, tokens |-> ts, emits |-> conns[c].emits] \in Conn
    BY <1>1 DEF Conn
  <1>4. conns' = [conns EXCEPT ![c] = [drafts |-> conns[c].drafts, tokens |-> ts,
                                       emits |-> conns[c].emits]]
    BY <1>2
  <1>5. PICK r \in Conn : r = [drafts |-> conns[c].drafts, tokens |-> ts, emits |-> conns[c].emits]
    BY <1>3
  <1>6. conns' = [conns EXCEPT ![c] = r]  BY <1>4, <1>5
  <1>7. DOMAIN conns' = DOMAIN conns /\ conns'[c] = r
    BY <1>1, <1>6
  <1>8. \A d \in DOMAIN conns : d # c => conns'[d] = conns[d]
    BY <1>1, <1>6
  <1>9. conns' \in [DOMAIN conns -> Conn]  BY <1>1, <1>6
  <1>10. QED  BY <1>5, <1>7, <1>8, <1>9

\* ... and when one of its emits has been written.
LEMMA EmitsSet ==
  ASSUME WiresOK, NEW c \in DOMAIN conns, NEW es \in SUBSET [to : Nat, tick : Tick],
         conns' = [conns EXCEPT ![c].emits = es]
  PROVE  /\ DOMAIN conns' = DOMAIN conns /\ conns' \in [DOMAIN conns -> Conn]
         /\ \A d \in DOMAIN conns : d # c => conns'[d] = conns[d]
         /\ conns'[c].emits = es
         /\ conns'[c].drafts = conns[c].drafts /\ conns'[c].tokens = conns[c].tokens
  <1>1. conns[c] \in Conn /\ conns \in [DOMAIN conns -> Conn]  BY DEF WiresOK
  <1>2. [conns[c] EXCEPT !.emits = es] =
          [drafts |-> conns[c].drafts, tokens |-> conns[c].tokens, emits |-> es]
    BY <1>1 DEF Conn
  <1>3. [drafts |-> conns[c].drafts, tokens |-> conns[c].tokens, emits |-> es] \in Conn
    BY <1>1 DEF Conn
  <1>4. conns' = [conns EXCEPT ![c] = [drafts |-> conns[c].drafts,
                                       tokens |-> conns[c].tokens, emits |-> es]]
    BY <1>2
  <1>5. PICK r \in Conn : r = [drafts |-> conns[c].drafts, tokens |-> conns[c].tokens, emits |-> es]
    BY <1>3
  <1>6. conns' = [conns EXCEPT ![c] = r]  BY <1>4, <1>5
  <1>7. DOMAIN conns' = DOMAIN conns /\ conns'[c] = r
    BY <1>1, <1>6
  <1>8. \A d \in DOMAIN conns : d # c => conns'[d] = conns[d]
    BY <1>1, <1>6
  <1>9. conns' \in [DOMAIN conns -> Conn]  BY <1>1, <1>6
  <1>10. QED  BY <1>5, <1>7, <1>8, <1>9

\* The wires, from the connections of the next state.
LEMMA WiresKept ==
  ASSUME WiresOK, UNCHANGED <<nextConn, sockets, peers>>,
         DOMAIN conns' = DOMAIN conns, conns' \in [DOMAIN conns -> Conn]
  PROVE  WiresOK'
  BY DEF WiresOK

\* A draft is registered.
LEMMA RegistersKeeps ==
  ASSUME DaemonInv, NEW c \in DOMAIN conns, Registers(c), UNCHANGED <<nextConn, sockets, peers>>
  PROVE  WiresOK' /\ OwnedOneByOne' /\ TokensAreApart'
  <1>1. conns[c].drafts \cup {nextId} \in SUBSET Nat
    BY HeldIsLive DEF DaemonInv, StoreInv, IInv, TypeOK, Conn
  <1>2. WiresOK /\ conns' = [conns EXCEPT ![c].drafts = conns[c].drafts \cup {nextId}]
    BY DEF Registers, DaemonInv
  <1>3. /\ DOMAIN conns' = DOMAIN conns /\ conns' \in [DOMAIN conns -> Conn]
        /\ \A d \in DOMAIN conns : d # c => conns'[d] = conns[d]
        /\ conns'[c].drafts = conns[c].drafts \cup {nextId}
        /\ conns'[c].tokens = conns[c].tokens
    BY <1>1, <1>2, DraftsSet
  <1>4. WiresOK'  BY <1>2, <1>3, WiresKept
  <1>5. /\ nextId \notin DOMAIN drafts /\ DOMAIN drafts' = DOMAIN drafts \cup {nextId}
        /\ tokens' = tokens
    BY DEF Registers
  <1>6. OwnedOneByOne /\ TokensAreApart  BY DEF DaemonInv
  <1>7. OwnedOneByOne' /\ TokensAreApart'
    BY <1>3, <1>5, <1>6 DEF OwnedOneByOne, TokensAreApart
  <1>8. QED  BY <1>4, <1>7

\* A draft or its check changes.
LEMMA TouchesKeeps ==
  ASSUME DaemonInv, NEW c \in DOMAIN conns, NEW id, Touches(c, id),
         tokens' \subseteq TokenType, UNCHANGED <<nextConn, sockets, peers>>
  PROVE  WiresOK' /\ OwnedOneByOne' /\ TokensAreApart'
  <1>1. OwnedOneByOne /\ TokensAreApart /\ WiresOK /\ conns[c] \in Conn
    BY HeldIsLive DEF DaemonInv
  <1>2. DOMAIN drafts' = DOMAIN drafts  BY DEF Touches
  <1>3. CASE UNCHANGED <<conns, tokens>>
    <2>1. WiresOK'  BY <1>1, <1>3 DEF WiresOK
    <2>2. OwnedOneByOne' /\ TokensAreApart'
      BY <1>1, <1>2, <1>3 DEF OwnedOneByOne, TokensAreApart
    <2>3. QED  BY <2>1, <2>2
  <1>4. CASE /\ tokens \subseteq tokens'
             /\ conns' = [conns EXCEPT ![c].tokens = @ \cup (tokens' \ tokens)]
    <2>1. conns[c].tokens \cup (tokens' \ tokens) \in SUBSET TokenType
      BY <1>1 DEF Conn
    <2>2. conns' = [conns EXCEPT ![c].tokens = conns[c].tokens \cup (tokens' \ tokens)]
      BY <1>4
    <2>3. /\ DOMAIN conns' = DOMAIN conns /\ conns' \in [DOMAIN conns -> Conn]
          /\ \A d \in DOMAIN conns : d # c => conns'[d] = conns[d]
          /\ conns'[c].tokens = conns[c].tokens \cup (tokens' \ tokens)
          /\ conns'[c].drafts = conns[c].drafts
      BY <1>1, <2>1, <2>2, TokensSet
    <2>4. WiresOK'  BY <1>1, <2>3, WiresKept
    <2>5. OwnedOneByOne' /\ TokensAreApart'
      BY <1>1, <1>2, <1>4, <2>3 DEF OwnedOneByOne, TokensAreApart
    <2>6. QED  BY <2>4, <2>5
  <1>5. ASSUME NEW token \in conns[c].tokens, tokens' = tokens \ {token},
               conns' = [conns EXCEPT ![c].tokens = @ \ {token}]
        PROVE  WiresOK' /\ OwnedOneByOne' /\ TokensAreApart'
    <2>1. conns[c].tokens \ {token} \in SUBSET TokenType
      BY <1>1 DEF Conn
    <2>2. conns' = [conns EXCEPT ![c].tokens = conns[c].tokens \ {token}]
      BY <1>5
    <2>3. /\ DOMAIN conns' = DOMAIN conns /\ conns' \in [DOMAIN conns -> Conn]
          /\ \A d \in DOMAIN conns : d # c => conns'[d] = conns[d]
          /\ conns'[c].tokens = conns[c].tokens \ {token}
          /\ conns'[c].drafts = conns[c].drafts
      BY <1>1, <2>1, <2>2, TokensSet
    <2>4. WiresOK'  BY <1>1, <2>3, WiresKept
    <2>5. OwnedOneByOne' /\ TokensAreApart'
      BY <1>1, <1>2, <1>5, <2>3 DEF OwnedOneByOne, TokensAreApart
    <2>6. QED  BY <2>4, <2>5
  <1>6. QED  BY <1>3, <1>4, <1>5 DEF Touches

\* A draft is closed.
LEMMA DropsKeeps ==
  ASSUME DaemonInv, NEW c \in DOMAIN conns, NEW id, Drops(c, id),
         UNCHANGED <<nextConn, sockets, peers>>
  PROVE  WiresOK' /\ OwnedOneByOne' /\ TokensAreApart'
  <1>1. OwnedOneByOne /\ TokensAreApart /\ WiresOK /\ conns[c] \in Conn
    BY HeldIsLive DEF DaemonInv
  <1>2. /\ DOMAIN drafts' = DOMAIN drafts \ {id} /\ tokens' = tokens
        /\ id \in conns[c].drafts
        /\ conns' = [conns EXCEPT ![c].drafts = conns[c].drafts \ {id}]
    BY DEF Drops
  <1>3. conns[c].drafts \ {id} \in SUBSET Nat  BY <1>1 DEF Conn
  <1>4. /\ DOMAIN conns' = DOMAIN conns /\ conns' \in [DOMAIN conns -> Conn]
        /\ \A d \in DOMAIN conns : d # c => conns'[d] = conns[d]
        /\ conns'[c].drafts = conns[c].drafts \ {id}
        /\ conns'[c].tokens = conns[c].tokens
    BY <1>1, <1>2, <1>3, DraftsSet
  <1>5. WiresOK'  BY <1>1, <1>4, WiresKept
  <1>6. OwnedOneByOne' /\ TokensAreApart'
    BY <1>1, <1>2, <1>4 DEF OwnedOneByOne, TokensAreApart
  <1>7. QED  BY <1>5, <1>6

\* Canonical changes.
LEMMA ChangesKeeps ==
  ASSUME DaemonInv, NEW c \in DOMAIN conns, NEW id, Changes(c, id),
         UNCHANGED <<nextConn, sockets, peers>>
  PROVE  WiresOK' /\ OwnedOneByOne' /\ TokensAreApart'
  <1>1. OwnedOneByOne /\ TokensAreApart /\ WiresOK
    BY DEF DaemonInv
  <1>2. /\ DOMAIN drafts' = DOMAIN drafts \ {id} /\ tokens' = tokens
        /\ Announce(c, id, Registered \ {id})
        /\ version' \in Nat
    BY DEF Changes, DaemonInv, StoreInv, IInv, TypeOK
  <1>3. /\ DOMAIN conns' = DOMAIN conns /\ conns' \in [DOMAIN conns -> Conn]
        /\ \A d \in DOMAIN conns : /\ conns'[d].drafts = conns[d].drafts \ {id}
                                   /\ conns'[d].tokens = conns[d].tokens
    BY <1>2, AnnounceDoes
  <1>4. WiresOK'  BY <1>1, <1>3, WiresKept
  <1>5. OwnedOneByOne' /\ TokensAreApart'
    BY <1>1, <1>2, <1>3 DEF OwnedOneByOne, TokensAreApart
  <1>6. QED  BY <1>4, <1>5

\* A request keeps the daemon's invariant.
LEMMA HandlerKeeps ==
  ASSUME DaemonInv, NEW c, Handler(c) PROVE DaemonInv'
  <1>1. StoreInv'  BY HandlerKeepsStore
  <1>2. tokens' \subseteq TokenType  BY <1>1 DEF StoreInv, IInv, TypeOK
  <1>3. c \in DOMAIN conns  BY HandlerShape DEF Serving
  <1>4. WiresOK' /\ OwnedOneByOne' /\ TokensAreApart'
    BY <1>2, <1>3, HandlerShape, RegistersKeeps, TouchesKeeps, DropsKeeps, ChangesKeeps
  <1>5. QED  BY <1>1, <1>4 DEF DaemonInv

\* A connection comes.
LEMMA AcceptKeeps ==
  ASSUME DaemonInv, NEW peer \in Peers, Accept(peer) PROVE DaemonInv'
  <1>1. StoreInv'
    BY StoreKept DEF Accept, DaemonInv
  <1>2. /\ OwnedOneByOne /\ TokensAreApart /\ WiresOK
        /\ DOMAIN drafts' = DOMAIN drafts /\ tokens' = tokens
    BY DEF DaemonInv, Accept, vars
  <1>3. [drafts |-> {}, tokens |-> {}, emits |-> {}] \in Conn  BY DEF Conn
  <1>4. nextConn \notin DOMAIN conns  BY <1>2 DEF WiresOK
  <1>5. /\ DOMAIN conns' = DOMAIN conns \cup {nextConn}
        /\ \A d \in DOMAIN conns : conns'[d] = conns[d]
        /\ conns'[nextConn] = [drafts |-> {}, tokens |-> {}, emits |-> {}]
        /\ conns' \in [DOMAIN conns \cup {nextConn} -> Conn]
    BY <1>2, <1>3, <1>4 DEF Accept, WiresOK
  <1>6. /\ sockets' \in [DOMAIN conns \cup {nextConn} -> Seq(Tick)]
        /\ peers' \in [DOMAIN conns \cup {nextConn} -> Peers]
    BY <1>2 DEF Accept, WiresOK
  <1>7. WiresOK'
    BY <1>2, <1>5, <1>6 DEF WiresOK, Accept
  <1>8. OwnedOneByOne' /\ TokensAreApart'
    BY <1>2, <1>5 DEF OwnedOneByOne, TokensAreApart
  <1>9. QED  BY <1>1, <1>7, <1>8 DEF DaemonInv

\* A connection goes, and what it held goes with it.
LEMMA DisconnectKeeps ==
  ASSUME DaemonInv, NEW c, Disconnect(c) PROVE DaemonInv'
  <1>1. StoreInv'  BY DisconnectKeepsStore
  <1>2. OwnedOneByOne /\ TokensAreApart /\ WiresOK
    BY DEF DaemonInv
  <1>3. /\ DOMAIN conns' = DOMAIN conns \ {c}
        /\ \A d \in DOMAIN conns \ {c} : conns'[d] = conns[d]
        /\ conns' \in [DOMAIN conns \ {c} -> Conn]
        /\ sockets' \in [DOMAIN conns \ {c} -> Seq(Tick)]
        /\ peers' \in [DOMAIN conns \ {c} -> Peers]
        /\ nextConn' = nextConn
        /\ c \in DOMAIN conns
    BY <1>2 DEF Disconnect, WiresOK, Serving
  <1>4. WiresOK'  BY <1>2, <1>3 DEF WiresOK
  <1>5. DOMAIN drafts' = DOMAIN drafts \ conns[c].drafts /\ tokens' = tokens \ conns[c].tokens
    BY DEF Disconnect, PrunedDrafts
  <1>6. OwnedOneByOne' /\ TokensAreApart'
    BY <1>2, <1>3, <1>5 DEF OwnedOneByOne, TokensAreApart
  <1>7. QED  BY <1>1, <1>4, <1>6 DEF DaemonInv

\* flush: the tick leaves the thread's hands for the socket of a window.
LEMMA FlushDoes ==
  ASSUME DaemonInv, NEW c, Flush(c)
  PROVE  /\ c \in DOMAIN conns
         /\ First(conns[c].emits) \in conns[c].emits
         /\ DOMAIN conns' = DOMAIN conns /\ conns' \in [DOMAIN conns -> Conn]
         /\ \A d \in DOMAIN conns : d # c => conns'[d] = conns[d]
         /\ conns'[c].emits = conns[c].emits \ {First(conns[c].emits)}
         /\ conns'[c].drafts = conns[c].drafts /\ conns'[c].tokens = conns[c].tokens
         /\ LET e == First(conns[c].emits)
            IN  sockets' = IF e.to \in DOMAIN conns /\ peers[e.to] = "window"
                           THEN [sockets EXCEPT ![e.to] = Append(@, e.tick)] ELSE sockets
         /\ UNCHANGED <<vars, nextConn, peers>>
  <1>1. c \in DOMAIN conns /\ conns[c].emits # {} /\ WiresOK /\ conns[c] \in Conn
    BY HeldIsLive DEF Flush, DaemonInv
  <1>2. First(conns[c].emits) \in conns[c].emits
    BY <1>1, FirstIsAnEmit DEF Conn
  <1>3. conns[c].emits \ {First(conns[c].emits)} \in SUBSET [to : Nat, tick : Tick]
    BY <1>1 DEF Conn
  <1>4. conns' = [conns EXCEPT ![c].emits = conns[c].emits \ {First(conns[c].emits)}]
    BY DEF Flush
  <1>5. PICK es \in SUBSET [to : Nat, tick : Tick] : es = conns[c].emits \ {First(conns[c].emits)}
    BY <1>3
  <1>6. conns' = [conns EXCEPT ![c].emits = es]  BY <1>4, <1>5
  <1>7. /\ DOMAIN conns' = DOMAIN conns /\ conns' \in [DOMAIN conns -> Conn]
        /\ \A d \in DOMAIN conns : d # c => conns'[d] = conns[d]
        /\ conns'[c].emits = es
        /\ conns'[c].drafts = conns[c].drafts /\ conns'[c].tokens = conns[c].tokens
    BY <1>1, <1>6, EmitsSet
  <1>8. /\ LET e == First(conns[c].emits)
           IN  sockets' = IF e.to \in DOMAIN conns /\ peers[e.to] = "window"
                          THEN [sockets EXCEPT ![e.to] = Append(@, e.tick)] ELSE sockets
        /\ UNCHANGED <<vars, nextConn, peers>>
    BY DEF Flush
  <1>9. QED  BY <1>1, <1>2, <1>5, <1>7, <1>8

\* ... and the daemon's invariant stays.
LEMMA FlushKeeps ==
  ASSUME DaemonInv, NEW c, Flush(c) PROVE DaemonInv'
  <1>1. PICK e : e = First(conns[c].emits)  OBVIOUS
  <1>2. /\ c \in DOMAIN conns /\ e \in conns[c].emits
        /\ DOMAIN conns' = DOMAIN conns /\ conns' \in [DOMAIN conns -> Conn]
        /\ \A d \in DOMAIN conns : d # c => conns'[d] = conns[d]
        /\ conns'[c].drafts = conns[c].drafts /\ conns'[c].tokens = conns[c].tokens
        /\ sockets' = IF e.to \in DOMAIN conns /\ peers[e.to] = "window"
                      THEN [sockets EXCEPT ![e.to] = Append(@, e.tick)] ELSE sockets
        /\ UNCHANGED <<vars, nextConn, peers>>
    BY <1>1, FlushDoes
  <1>3. OwnedOneByOne /\ TokensAreApart /\ WiresOK /\ e.tick \in Tick
    BY <1>2, HeldIsLive DEF DaemonInv, Conn
  <1>4. StoreInv'  BY <1>2, StoreKept DEF DaemonInv
  <1>5. sockets' \in [DOMAIN conns -> Seq(Tick)]
    <2>1. sockets \in [DOMAIN conns -> Seq(Tick)]  BY <1>3 DEF WiresOK
    <2>2. \A d \in DOMAIN conns : Append(sockets[d], e.tick) \in Seq(Tick)
      BY <1>3, <2>1
    <2>3. QED  BY <1>2, <2>1, <2>2
  <1>6. WiresOK'  BY <1>2, <1>3, <1>5 DEF WiresOK
  <1>7. OwnedOneByOne' /\ TokensAreApart'
    BY <1>2, <1>3 DEF OwnedOneByOne, TokensAreApart, vars
  <1>8. QED  BY <1>4, <1>6, <1>7 DEF DaemonInv

\* The daemon dies.
LEMMA DieKeeps ==
  ASSUME DaemonInv, Die PROVE DaemonInv'
  <1>1. StoreInv'  BY DieKeepsStore
  <1>2. /\ DOMAIN conns' = {} /\ conns' = sockets' /\ sockets' = peers'
        /\ conns' = [c \in {} |-> NoValue]
        /\ DOMAIN drafts' = {} /\ tokens' = {} /\ nextConn' = nextConn
    BY DEF Die, Empty
  <1>3. WiresOK'  BY <1>2 DEF WiresOK, DaemonInv
  <1>4. OwnedOneByOne' /\ TokensAreApart'
    BY <1>2 DEF OwnedOneByOne, TokensAreApart
  <1>5. QED  BY <1>1, <1>3, <1>4 DEF DaemonInv

\* A step that only moves bytes or tells the daemon a peer is gone.
LEMMA WireStepKeeps ==
  ASSUME DaemonInv, UNCHANGED <<vars, conns, nextConn>>,
         sockets' \in [DOMAIN conns -> Seq(Tick)], peers' \in [DOMAIN conns -> Peers]
  PROVE  DaemonInv'
  <1>1. StoreInv'  BY StoreKept DEF DaemonInv
  <1>2. WiresOK' /\ OwnedOneByOne' /\ TokensAreApart'
    BY DEF DaemonInv, WiresOK, OwnedOneByOne, TokensAreApart, vars
  <1>3. QED  BY <1>1, <1>2 DEF DaemonInv

-----------------------------------------------------------------------------
(* Ticks on their way, and what a step of somebody else does *)

\* Tick t is in the hands of a thread, or in the socket of connection c.
Coming(c, t) ==
  \/ \E i \in DOMAIN sockets[c] : sockets[c][i] = t
  \/ \E d \in DOMAIN conns : [to |-> c, tick |-> t] \in conns[d].emits

CanonicalComing(c) == \E t \in Tick : t.draft = NoValue /\ Coming(c, t)

RebasedComing(c) == \E t \in Tick : t.draft # NoValue /\ Coming(c, t)

\* A draft stays, or is rebased onto the new canonical.
StaysOrRebased(d, e) ==
  e = d \/ (canonical' \in Entities(accepts) /\ e = RebaseDraft(d, canonical', version'))

\* A step of somebody else, seen from connection c: it keeps its drafts, and
\* whatever changes under it is announced to it.
Leaves(c) ==
  /\ UNCHANGED accepts /\ nextConn <= nextConn'
  /\ c \in DOMAIN conns' =>
       /\ c \in DOMAIN conns /\ peers'[c] = peers[c]
       /\ conns'[c].drafts = conns[c].drafts
       /\ \A t \in Tick : Coming(c, t) => Coming(c, t)'
       /\ canonical' = canonical \/ CanonicalComing(c)'
       /\ \A id \in conns[c].drafts :
            /\ StaysOrRebased(drafts[id].draft, drafts'[id].draft)
            /\ drafts'[id].draft = drafts[id].draft \/ RebasedComing(c)'

\* No request takes a tick back.
LEMMA HandlerKeepsTicks ==
  ASSUME DaemonInv, NEW c, Handler(c), NEW d \in DOMAIN conns, NEW t, Coming(d, t)
  PROVE  Coming(d, t)'
  <1>1. c \in DOMAIN conns /\ conns[c].emits = {} /\ UNCHANGED sockets
    BY HandlerShape DEF Serving
  <1>2. WiresOK /\ conns[c] \in Conn  BY <1>1, HeldIsLive DEF DaemonInv
  <1>3. DOMAIN conns' = DOMAIN conns /\ \A e \in DOMAIN conns : e # c => conns'[e].emits = conns[e].emits
    <2>1. CASE Registers(c)
      BY <1>2, <2>1 DEF Registers, WiresOK
    <2>2. CASE \E id \in conns[c].drafts : Touches(c, id) \/ Drops(c, id)
      BY <1>2, <2>2 DEF Touches, Drops, WiresOK
    <2>3. ASSUME NEW id, Changes(c, id)
          PROVE  /\ DOMAIN conns' = DOMAIN conns
                 /\ \A e \in DOMAIN conns : e # c => conns'[e].emits = conns[e].emits
      <3>1. Announce(c, id, Registered \ {id}) /\ version' \in Nat
        BY <2>3 DEF Changes, DaemonInv, StoreInv, IInv, TypeOK
      <3>2. QED  BY <1>1, <3>1, AnnounceDoes
    <2>4. QED  BY <2>1, <2>2, <2>3, HandlerShape
  <1>4. QED  BY <1>1, <1>3 DEF Coming

\* Canonical changes: every connection but the one that submits keeps its drafts,
\* and whatever was rebased is announced to it, the one that asked included.
LEMMA ChangesLeaves ==
  ASSUME DaemonInv, NEW c, Handler(c), NEW id \in conns[c].drafts \cup {NoValue}, Changes(c, id),
         NEW d \in DOMAIN conns, id \notin conns[d].drafts
  PROVE  Leaves(d)
  <1>1. c \in DOMAIN conns /\ UNCHANGED <<nextConn, sockets, peers>>
    BY HandlerShape DEF Serving
  <1>2. /\ conns[d].drafts \subseteq DOMAIN drafts
        /\ version \in Nat /\ nextConn \in Nat
    BY <1>1, HeldIsLive DEF DaemonInv, StoreInv, IInv, TypeOK, WiresOK
  <1>3. \A t \in Tick : Coming(d, t) => Coming(d, t)'
    BY HandlerKeepsTicks
  <1>4. /\ Announce(c, id, Registered \ {id}) /\ version' \in Nat
        /\ accepts' = accepts /\ canonical' \in Entities(accepts)
    BY <1>2 DEF Changes
  <1>5. conns[d].drafts \ {id} = conns[d].drafts
    <2>1. \A i : i \in conns[d].drafts \ {id} <=> i \in conns[d].drafts  OBVIOUS
    <2>2. QED  BY <2>1, SMT
  <1>6. /\ DOMAIN conns' = DOMAIN conns /\ conns'[d].drafts = conns[d].drafts
        /\ [to |-> d, tick |-> [draft |-> NoValue, version |-> version']] \in conns'[c].emits
        /\ \A i \in (Registered \ {id}) \cap conns[d].drafts :
             [to |-> d, tick |-> [draft |-> i, version |-> version']] \in conns'[c].emits
    BY <1>1, <1>4, <1>5, AnnounceDoes
  <1>7. CanonicalComing(d)'
    <2>1. PICK t \in Tick : t = [draft |-> NoValue, version |-> version']
      BY <1>4 DEF Tick, Option
    <2>2. Coming(d, t)'  BY <1>1, <1>6, <2>1 DEF Coming
    <2>3. QED  BY <2>1, <2>2 DEF CanonicalComing
  <1>8. ASSUME NEW i \in conns[d].drafts
        PROVE  /\ StaysOrRebased(drafts[i].draft, drafts'[i].draft)
               /\ drafts'[i].draft = drafts[i].draft \/ RebasedComing(d)'
    <2>1. i \in DOMAIN drafts' /\ i \in DOMAIN drafts /\ i \in Nat /\ i # id
      BY <1>2 DEF Changes, DaemonInv, StoreInv, IInv, TypeOK
    <2>2. CASE ~drafts[i].rebases
      BY <2>1, <2>2 DEF Changes, StaysOrRebased
    <2>3. CASE drafts[i].rebases
      <3>1. drafts[i] \in EntryType  BY <2>1 DEF DaemonInv, StoreInv, IInv, TypeOK
      <3>2. drafts'[i].draft = RebaseDraft(drafts[i].draft, canonical', version')
        BY <2>1, <2>3, <3>1 DEF Changes, EntryType
      <3>3. PICK t \in Tick : t = [draft |-> i, version |-> version']
        BY <1>4, <2>1 DEF Tick, Option
      <3>4. i \in (Registered \ {id}) \cap conns[d].drafts
        BY <2>1, <2>3 DEF Registered
      <3>5. Coming(d, t)'  BY <1>1, <1>6, <3>3, <3>4 DEF Coming
      <3>6. t.draft # NoValue  BY <2>1, <3>3, SyncdAssumption
      <3>7. RebasedComing(d)'  BY <3>5, <3>6 DEF RebasedComing
      <3>8. QED  BY <1>4, <3>2, <3>7 DEF StaysOrRebased
    <2>4. QED  BY <2>2, <2>3
  <1>9. QED  BY <1>1, <1>2, <1>3, <1>4, <1>6, <1>7, <1>8 DEF Leaves

\* A request of another connection.
LEMMA HandlerLeaves ==
  ASSUME DaemonInv, NEW c, Handler(c), NEW d \in DOMAIN conns, d # c
  PROVE  Leaves(d)
  <1>1. c \in DOMAIN conns /\ UNCHANGED <<nextConn, sockets, peers>>
    BY HandlerShape DEF Serving
  <1>2. /\ WiresOK /\ conns[c] \in Conn /\ conns[d] \in Conn
        /\ conns[d].drafts \subseteq DOMAIN drafts
        /\ \A id \in conns[c].drafts : id \notin conns[d].drafts
        /\ version \in Nat /\ nextConn \in Nat
    BY <1>1, HeldIsLive DEF DaemonInv, OwnedOneByOne, StoreInv, IInv, TypeOK, WiresOK
  <1>3. \A t \in Tick : Coming(d, t) => Coming(d, t)'
    BY HandlerKeepsTicks
  <1>4. CASE Registers(c)
    <2>1. /\ conns'[d] = conns[d] /\ accepts' = accepts /\ canonical' = canonical
          /\ \A id \in conns[d].drafts : drafts'[id] = drafts[id]
      BY <1>1, <1>2, <1>4 DEF Registers, WiresOK
    <2>2. QED  BY <1>1, <1>2, <1>3, <2>1 DEF Leaves, StaysOrRebased
  <1>5. ASSUME NEW id \in conns[c].drafts, Touches(c, id) \/ Drops(c, id)
        PROVE  Leaves(d)
    <2>1. conns'[d] = conns[d] /\ accepts' = accepts /\ canonical' = canonical
      BY <1>1, <1>2, <1>5 DEF Touches, Drops, WiresOK
    <2>2. \A i \in conns[d].drafts : drafts'[i] = drafts[i]
      BY <1>2, <1>5 DEF Touches, Drops
    <2>3. QED  BY <1>1, <1>2, <1>3, <2>1, <2>2 DEF Leaves, StaysOrRebased
  <1>6. ASSUME NEW id \in conns[c].drafts \cup {NoValue}, Changes(c, id) PROVE Leaves(d)
    <2>1. DOMAIN drafts \subseteq Nat /\ NoValue \notin Nat
      BY SyncdAssumption DEF DaemonInv, StoreInv, IInv, TypeOK
    <2>2. id \notin conns[d].drafts  BY <1>2, <2>1
    <2>3. QED  BY <1>6, <2>2, ChangesLeaves
  <1>7. QED  BY <1>4, <1>5, <1>6, HandlerShape

\* The connection of a window: none, or an issued number with a window at the
\* other end.
WindowsConn(c) ==
  /\ c = NoValue \/ (c \in Nat /\ c < nextConn)
  /\ c \in DOMAIN conns => peers[c] = "window"

\* A step that leaves the store and the connections alone.
LEMMA WireStepLeaves ==
  ASSUME NEW c, UNCHANGED <<vars, conns, nextConn>>, nextConn \in Nat,
         c \in DOMAIN conns => peers'[c] = peers[c] /\ sockets'[c] = sockets[c]
  PROVE  Leaves(c)
  BY DEF Leaves, StaysOrRebased, Coming, vars

\* A connection comes.
LEMMA AcceptLeaves ==
  ASSUME DaemonInv, NEW peer, Accept(peer), NEW c, WindowsConn(c)
  PROVE  Leaves(c)
  <1>1. WiresOK  BY DEF DaemonInv
  <1>2. /\ nextConn' = nextConn + 1 /\ nextConn \in Nat
        /\ DOMAIN conns' = DOMAIN conns \cup {nextConn}
        /\ nextConn \notin DOMAIN conns
        /\ \A d \in DOMAIN conns : /\ conns'[d] = conns[d] /\ peers'[d] = peers[d]
                                   /\ sockets'[d] = sockets[d]
        /\ UNCHANGED vars
    BY <1>1 DEF Accept, WiresOK
  <1>3. c # nextConn  BY <1>2, SyncdAssumption DEF WindowsConn
  <1>4. c \in DOMAIN conns' => c \in DOMAIN conns  BY <1>2, <1>3
  <1>5. ASSUME c \in DOMAIN conns, NEW t, Coming(c, t) PROVE Coming(c, t)'
    BY <1>2, <1>5 DEF Coming
  <1>6. QED  BY <1>2, <1>4, <1>5 DEF Leaves, StaysOrRebased, vars

\* Another connection goes; its thread had nothing left to write.
LEMMA DisconnectLeaves ==
  ASSUME DaemonInv, NEW c, Disconnect(c), NEW d, WindowsConn(d)
  PROVE  Leaves(d)
  <1>1. WiresOK /\ OwnedOneByOne  BY DEF DaemonInv
  <1>2. /\ c \in DOMAIN conns /\ conns[c].emits = {} /\ peers[c] = "gone"
        /\ UNCHANGED <<canonical, version, accepts, nextConn>> /\ nextConn \in Nat
        /\ DOMAIN conns' = DOMAIN conns \ {c}
        /\ \A e \in DOMAIN conns \ {c} :
             conns'[e] = conns[e] /\ sockets'[e] = sockets[e] /\ peers'[e] = peers[e]
        /\ drafts' = [id \in DOMAIN drafts \ conns[c].drafts |-> drafts[id]]
    BY <1>1 DEF Disconnect, Serving, WiresOK, PrunedDrafts
  <1>3. ASSUME d \in DOMAIN conns'
        PROVE  /\ d \in DOMAIN conns /\ d # c
               /\ \A t : Coming(d, t) => Coming(d, t)'
               /\ \A id \in conns[d].drafts : drafts'[id] = drafts[id]
    <2>1. d \in DOMAIN conns /\ d # c  BY <1>2, <1>3
    <2>2. ASSUME NEW t, Coming(d, t) PROVE Coming(d, t)'
      <3>1. CASE \E i \in DOMAIN sockets[d] : sockets[d][i] = t
        BY <1>2, <2>1, <3>1 DEF Coming
      <3>2. CASE \E e \in DOMAIN conns : [to |-> d, tick |-> t] \in conns[e].emits
        BY <1>2, <3>2 DEF Coming
      <3>3. QED  BY <2>2, <3>1, <3>2 DEF Coming
    <2>3. \A id \in conns[d].drafts : id \in DOMAIN drafts \ conns[c].drafts
      BY <1>1, <1>2, <2>1 DEF OwnedOneByOne
    <2>4. QED  BY <1>2, <2>1, <2>2, <2>3
  <1>4. ASSUME d \in DOMAIN conns'
        PROVE  /\ conns'[d].drafts = conns[d].drafts /\ peers'[d] = peers[d]
               /\ \A id \in conns[d].drafts :
                    /\ drafts'[id].draft = drafts[id].draft
                    /\ StaysOrRebased(drafts[id].draft, drafts'[id].draft)
    BY <1>2, <1>3, <1>4 DEF StaysOrRebased
  <1>5. accepts' = accepts /\ canonical' = canonical /\ nextConn <= nextConn'  BY <1>2
  <1>6. QED  BY <1>3, <1>4, <1>5 DEF Leaves

\* A tick moves from a thread to the socket of its window.
LEMMA FlushLeaves ==
  ASSUME DaemonInv, NEW c, Flush(c), NEW d, WindowsConn(d)
  PROVE  Leaves(d)
  <1>1. PICK e : e = First(conns[c].emits)  OBVIOUS
  <1>2. WiresOK  BY DEF DaemonInv
  <1>3. /\ c \in DOMAIN conns /\ e \in conns[c].emits
        /\ DOMAIN conns' = DOMAIN conns
        /\ \A f \in DOMAIN conns : f # c => conns'[f] = conns[f]
        /\ conns'[c].emits = conns[c].emits \ {e}
        /\ conns'[c].drafts = conns[c].drafts
        /\ sockets' = IF e.to \in DOMAIN conns /\ peers[e.to] = "window"
                      THEN [sockets EXCEPT ![e.to] = Append(@, e.tick)] ELSE sockets
        /\ UNCHANGED <<vars, nextConn, peers>>
    BY <1>1, FlushDoes
  <1>4. nextConn \in Nat  BY <1>2 DEF WiresOK
  <1>5. ASSUME d \in DOMAIN conns, NEW t \in Tick, Coming(d, t) PROVE Coming(d, t)'
    <2>1. sockets \in [DOMAIN conns -> Seq(Tick)] /\ conns[c] \in Conn
      BY <1>2, <1>3 DEF WiresOK
    <2>2. sockets[d] \in Seq(Tick) /\ e.tick \in Tick /\ e \in [to : Nat, tick : Tick]
      BY <1>3, <1>5, <2>1 DEF Conn
    <2>3. sockets'[d] = sockets[d] \/ sockets'[d] = Append(sockets[d], e.tick)
      BY <1>3, <1>5, <2>1
    <2>4. CASE \E i \in DOMAIN sockets[d] : sockets[d][i] = t
      <3>1. PICK i \in DOMAIN sockets[d] : sockets[d][i] = t  BY <2>4
      <3>2. i \in DOMAIN sockets'[d] /\ sockets'[d][i] = t
        BY <2>2, <2>3, <3>1
      <3>3. QED  BY <3>2 DEF Coming
    <2>5. CASE [to |-> d, tick |-> t] # e /\ \E f \in DOMAIN conns : [to |-> d, tick |-> t] \in conns[f].emits
      BY <1>3, <2>5 DEF Coming
    <2>6. CASE [to |-> d, tick |-> t] = e
      <3>1. e.to = d /\ e.tick = t  BY <2>6
      <3>2. sockets' = [sockets EXCEPT ![d] = Append(@, t)]
        BY <1>3, <1>5, <3>1 DEF WindowsConn
      <3>3. sockets'[d] = Append(sockets[d], t)  BY <1>5, <2>1, <3>2
      <3>4. Len(sockets[d]) + 1 \in DOMAIN sockets'[d]
            /\ sockets'[d][Len(sockets[d]) + 1] = t
        BY <2>2, <3>3
      <3>5. QED  BY <3>4 DEF Coming
    <2>7. QED  BY <1>5, <2>4, <2>5, <2>6 DEF Coming
  <1>6. d \in DOMAIN conns => conns'[d].drafts = conns[d].drafts
    BY <1>3
  <1>7. QED  BY <1>3, <1>4, <1>5, <1>6 DEF Leaves, StaysOrRebased, vars

\* The daemon dies, and every connection with it.
LEMMA DieLeaves ==
  ASSUME DaemonInv, Die, NEW c PROVE Leaves(c)
  <1>1. DOMAIN conns' = {} /\ UNCHANGED <<accepts, nextConn>>  BY DEF Die, Empty
  <1>2. nextConn \in Nat  BY DEF DaemonInv, WiresOK
  <1>3. QED  BY <1>1, <1>2 DEF Leaves

-----------------------------------------------------------------------------
(* The window *)

\* What an operation has left to do when it is between two requests.
Todos == {<<>>, <<"wire", "canonical", "restore">>, <<"canonical", "restore">>, <<"restore">>,
          <<"canonical">>, <<"draft">>, <<"draft", "stash">>, <<"stash">>,
          <<"complete", "draft">>}

FetchesCanonical(todo) ==
  todo \in {<<"wire", "canonical", "restore">>, <<"canonical", "restore">>, <<"canonical">>}

FetchesDraft(todo) == todo \in {<<"draft">>, <<"draft", "stash">>, <<"complete", "draft">>}

Stashes(todo) == todo \in {<<"draft", "stash">>, <<"stash">>}

Judges(todo) == todo = <<"complete", "draft">>

\* Until the restore is done a window shows no draft.
ShowsNothing(todo) ==
  todo \in {<<"wire", "canonical", "restore">>, <<"canonical", "restore">>, <<"restore">>}

WindowType ==
  [state : {"idle", "connected", "disconnected", "failed"}, conn : Option(Nat),
   wired : BOOLEAN, eof : {"none", "queued", "lost"},
   pane : Option([Fields -> Values]), shown : Option([id : Nat, draft : DraftType]),
   blob : Option(StashType), target : Option(Nat), token : Option(TokenType),
   todo : Todos]

\* What is in window x's stash can be typed again.
BlobOK(x) ==
  x.blob # NoValue =>
    \A f \in Fields :
      LET r == x.blob.fields[f].raw
      IN  r # NoValue /\ Sanitize[r] \in accepts => Sanitize[r] = r

\* It shows the canonical, or has a reason to fetch it.
PaneOK(x) ==
  \/ x.pane = canonical
  \/ FetchesCanonical(x.todo)
  \/ CanonicalComing(x.conn)

\* It shows one of its drafts as it is, or has a reason to fetch it.
ShownOK(x) ==
  x.shown # NoValue =>
    /\ x.shown.id \in conns[x.conn].drafts
    /\ \/ x.shown.draft = drafts[x.shown.id].draft
       \/ FetchesDraft(x.todo)
       \/ RebasedComing(x.conn)

\* Its operation is about one of its drafts, the one it shows if it shows one.
TargetOK(x) ==
  /\ FetchesDraft(x.todo) \/ Stashes(x.todo) =>
       /\ x.target \in conns[x.conn].drafts
       /\ x.shown # NoValue => x.shown.id = x.target
  /\ ShowsNothing(x.todo) => x.shown = NoValue
  /\ Judges(x.todo) => x.shown # NoValue

\* What is dirty in draft id is in its stash.
Stashed(x, id) ==
  \A f \in Fields :
    LET y == drafts[id].draft.fields[f]
    IN  IsDirty(y) => x.blob # NoValue /\ x.blob.fields[f].raw = y.raw

\* What is dirty is stashed, or about to be.
StashedOK(x) ==
  ~Stashes(x.todo) =>
    /\ x.shown # NoValue => Stashed(x, x.shown.id)
    /\ FetchesDraft(x.todo) => Stashed(x, x.target)

\* As long as the checked field is dirty, the window's snapshot holds its text,
\* and a check that is about to complete was begun for it.
JudgedOK(x) ==
  x.shown # NoValue =>
    LET d == drafts[x.shown.id].draft
    IN  IsDirty(d.fields[Checked]) =>
          /\ ~FetchesDraft(x.todo) \/ Judges(x.todo) => TextOf(d) = TextOf(x.shown.draft)
          /\ Judges(x.todo) => x.token.text = TextOf(d)

\* The inductive invariant of one window.
WindowOK(x) ==
  /\ x \in WindowType
  /\ x.wired <=> x.state = "connected"
  /\ x.wired => x.todo # <<"wire", "canonical", "restore">>
  /\ ~x.wired => x.shown = NoValue /\ x.todo \in {<<>>, <<"wire", "canonical", "restore">>}
  /\ WindowsConn(x.conn)
  /\ BlobOK(x)
  /\ x.wired /\ x.conn \in DOMAIN conns =>
       PaneOK(x) /\ ShownOK(x) /\ TargetOK(x) /\ StashedOK(x) /\ JudgedOK(x)

\* No two windows are on one connection.
WindowsApart ==
  \A v, w \in Windows :
    v # w /\ windows[v].conn # NoValue => windows[v].conn # windows[w].conn

\* The inductive invariant.
WindowInv ==
  /\ DaemonInv
  /\ windows = [w \in Windows |-> windows[w]]
  /\ \A w \in Windows : WindowOK(windows[w])
  /\ WindowsApart

\* Which is which.
LEMMA TodosAre ==
  ASSUME NEW t
  PROVE  /\ t = <<>> =>
              ~FetchesCanonical(t) /\ ~FetchesDraft(t) /\ ~Stashes(t) /\ ~Judges(t) /\ ~ShowsNothing(t)
         /\ t = <<"wire", "canonical", "restore">> =>
              FetchesCanonical(t) /\ ~FetchesDraft(t) /\ ~Stashes(t) /\ ~Judges(t) /\ ShowsNothing(t)
         /\ t = <<"canonical", "restore">> =>
              FetchesCanonical(t) /\ ~FetchesDraft(t) /\ ~Stashes(t) /\ ~Judges(t) /\ ShowsNothing(t)
         /\ t = <<"restore">> =>
              ~FetchesCanonical(t) /\ ~FetchesDraft(t) /\ ~Stashes(t) /\ ~Judges(t) /\ ShowsNothing(t)
         /\ t = <<"canonical">> =>
              FetchesCanonical(t) /\ ~FetchesDraft(t) /\ ~Stashes(t) /\ ~Judges(t) /\ ~ShowsNothing(t)
         /\ t = <<"draft">> =>
              ~FetchesCanonical(t) /\ FetchesDraft(t) /\ ~Stashes(t) /\ ~Judges(t) /\ ~ShowsNothing(t)
         /\ t = <<"draft", "stash">> =>
              ~FetchesCanonical(t) /\ FetchesDraft(t) /\ Stashes(t) /\ ~Judges(t) /\ ~ShowsNothing(t)
         /\ t = <<"stash">> =>
              ~FetchesCanonical(t) /\ ~FetchesDraft(t) /\ Stashes(t) /\ ~Judges(t) /\ ~ShowsNothing(t)
         /\ t = <<"complete", "draft">> =>
              ~FetchesCanonical(t) /\ FetchesDraft(t) /\ ~Stashes(t) /\ Judges(t) /\ ~ShowsNothing(t)
  BY DEF FetchesCanonical, FetchesDraft, Stashes, Judges, ShowsNothing

\* What comes next, and what is left then.
LEMMA TodoHeads ==
  ASSUME NEW t \in Todos, t # <<>>
  PROVE  \/ t = <<"wire", "canonical", "restore">> /\ Head(t) = "wire" /\ Tail(t) = <<"canonical", "restore">>
         \/ t = <<"canonical", "restore">> /\ Head(t) = "canonical" /\ Tail(t) = <<"restore">>
         \/ t = <<"restore">> /\ Head(t) = "restore" /\ Tail(t) = <<>>
         \/ t = <<"canonical">> /\ Head(t) = "canonical" /\ Tail(t) = <<>>
         \/ t = <<"draft">> /\ Head(t) = "draft" /\ Tail(t) = <<>>
         \/ t = <<"draft", "stash">> /\ Head(t) = "draft" /\ Tail(t) = <<"stash">>
         \/ t = <<"stash">> /\ Head(t) = "stash" /\ Tail(t) = <<>>
         \/ t = <<"complete", "draft">> /\ Head(t) = "complete" /\ Tail(t) = <<"draft">>
  <1>1. ASSUME NEW a, t = <<a>> PROVE Head(t) = a /\ Tail(t) = <<>>
    BY <1>1
  <1>2. ASSUME NEW a, NEW b, t = <<a, b>> PROVE Head(t) = a /\ Tail(t) = <<b>>
    BY <1>2
  <1>3. ASSUME NEW a, NEW b, NEW c, t = <<a, b, c>> PROVE Head(t) = a /\ Tail(t) = <<b, c>>
    BY <1>3
  <1>4. CASE t \in {<<"wire", "canonical", "restore">>}  BY <1>3, <1>4, Zenon
  <1>5. CASE t \in {<<"canonical", "restore">>, <<"draft", "stash">>, <<"complete", "draft">>}
    BY <1>2, <1>5, Zenon
  <1>6. CASE t \in {<<"restore">>, <<"canonical">>, <<"draft">>, <<"stash">>}
    BY <1>1, <1>6, Zenon
  <1>7. QED  BY <1>4, <1>5, <1>6, Zenon DEF Todos

-----------------------------------------------------------------------------
(* A window while others act *)

\* A rebase makes no field dirty, and one that stays dirty keeps its text.
LEMMA RebaseSoilsNothing ==
  ASSUME NEW x \in FieldType, NEW t \in Values, IsDirty(Rebase(x, t))
  PROVE  IsDirty(x) /\ Rebase(x, t).raw = x.raw
  <1>1. CASE x.base = t
    BY <1>1 DEF Rebase, IsDirty, FieldType
  <1>2. CASE x.base # t /\ ~IsConflicted(x) /\ (~IsDirty(x) \/ FieldValue(x) = t)
    <2>1. Rebase(x, t) = FromBase(t)  BY <1>2 DEF Rebase
    <2>2. ~IsDirty(FromBase(t))  BY DEF FromBase, IsDirty
    <2>3. QED  BY <2>1, <2>2
  <1>3. CASE x.base # t /\ ~(~IsConflicted(x) /\ (~IsDirty(x) \/ FieldValue(x) = t))
    BY <1>3 DEF Rebase, IsDirty, FieldType
  <1>4. QED  BY <1>1, <1>2, <1>3

\* ... of a draft, whatever becomes of it.
LEMMA RebasedStaysTyped ==
  ASSUME NEW d \in DraftType, NEW entity \in [Fields -> Values], NEW v \in Nat,
         NEW f \in Fields, IsDirty(RebaseDraft(d, entity, v).fields[f])
  PROVE  IsDirty(d.fields[f]) /\ RebaseDraft(d, entity, v).fields[f].raw = d.fields[f].raw
  <1>1. CASE d.status = "Orphaned"
    BY <1>1 DEF RebaseDraft
  <1>2. CASE d.status = "Live"
    <2>1. RebaseDraft(d, entity, v).fields = [g \in Fields |-> Rebase(d.fields[g], entity[g])]
      BY <1>2, RebaseDraftType
    <2>2. RebaseDraft(d, entity, v).fields[f] = Rebase(d.fields[f], entity[f])
      BY <2>1
    <2>3. d.fields[f] \in FieldType /\ entity[f] \in Values  BY DEF DraftType
    <2>4. QED  BY <2>2, <2>3, RebaseSoilsNothing
  <1>3. QED  BY <1>1, <1>2 DEF DraftType

\* ... and of one that somebody else's step may have rebased.
LEMMA LeftStaysTyped ==
  ASSUME DaemonInv, version' \in Nat, NEW d \in DraftType, NEW e, StaysOrRebased(d, e),
         NEW f \in Fields, IsDirty(e.fields[f])
  PROVE  IsDirty(d.fields[f]) /\ e.fields[f].raw = d.fields[f].raw
  <1>1. CASE e = d  BY <1>1
  <1>2. CASE canonical' \in Entities(accepts) /\ e = RebaseDraft(d, canonical', version')
    <2>1. canonical' \in [Fields -> Values]
      BY <1>2, CanonicalType DEF DaemonInv, StoreInv, IInv, TypeOK
    <2>2. QED  BY <1>2, <2>1, RebasedStaysTyped
  <1>3. QED  BY <1>1, <1>2 DEF StaysOrRebased

\* What somebody else does leaves a window in order.
LEMMA OthersKeep ==
  ASSUME DaemonInv, DaemonInv', NEW x, WindowOK(x), Leaves(x.conn)
  PROVE  WindowOK(x)'
  <1>1. x \in WindowType /\ x.conn \in Option(Nat)  BY DEF WindowOK, WindowType
  <1>2. WindowsConn(x.conn)'
    <2>1. nextConn \in Nat /\ nextConn' \in Nat /\ nextConn <= nextConn'
      BY DEF DaemonInv, WiresOK, Leaves
    <2>2. x.conn \in DOMAIN conns' => peers'[x.conn] = "window"
      BY DEF WindowOK, WindowsConn, Leaves
    <2>3. x.conn = NoValue \/ (x.conn \in Nat /\ x.conn < nextConn)
      BY DEF WindowOK, WindowsConn
    <2>4. QED  BY <2>1, <2>2, <2>3 DEF WindowsConn
  <1>3. BlobOK(x)'  BY DEF WindowOK, BlobOK, Leaves
  <1>4. ASSUME x.wired, x.conn \in DOMAIN conns'
        PROVE  PaneOK(x)' /\ ShownOK(x)' /\ TargetOK(x)' /\ StashedOK(x)' /\ JudgedOK(x)'
    <2>1. /\ x.conn \in DOMAIN conns
          /\ conns'[x.conn].drafts = conns[x.conn].drafts
          /\ \A t \in Tick : Coming(x.conn, t) => Coming(x.conn, t)'
          /\ canonical' = canonical \/ CanonicalComing(x.conn)'
          /\ \A id \in conns[x.conn].drafts :
               /\ StaysOrRebased(drafts[id].draft, drafts'[id].draft)
               /\ drafts'[id].draft = drafts[id].draft \/ RebasedComing(x.conn)'
      BY <1>4 DEF Leaves
    <2>2. PaneOK(x) /\ ShownOK(x) /\ TargetOK(x) /\ StashedOK(x) /\ JudgedOK(x)
      BY <1>4, <2>1 DEF WindowOK
    <2>3. /\ CanonicalComing(x.conn) => CanonicalComing(x.conn)'
          /\ RebasedComing(x.conn) => RebasedComing(x.conn)'
      BY <2>1 DEF CanonicalComing, RebasedComing
    <2>4. PaneOK(x)'  BY <2>1, <2>2, <2>3 DEF PaneOK
    <2>5. ShownOK(x)'
      BY <2>1, <2>2, <2>3 DEF ShownOK
    <2>6. TargetOK(x)'  BY <2>1, <2>2 DEF TargetOK
    <2>7. ASSUME NEW id \in conns[x.conn].drafts, NEW f \in Fields,
                 IsDirty(drafts'[id].draft.fields[f])
          PROVE  /\ IsDirty(drafts[id].draft.fields[f])
                 /\ drafts'[id].draft.fields[f].raw = drafts[id].draft.fields[f].raw
      <3>1. drafts[id].draft \in DraftType  BY <2>1, HeldIsLive
      <3>2. version' \in Nat  BY DEF DaemonInv, StoreInv, IInv, TypeOK
      <3>3. QED  BY <2>1, <2>7, <3>1, <3>2, LeftStaysTyped
    <2>8. StashedOK(x)'
      <3>1. \A id \in conns[x.conn].drafts : Stashed(x, id) => Stashed(x, id)'
        BY <2>7 DEF Stashed
      <3>2. QED  BY <2>2, <3>1 DEF StashedOK, ShownOK, TargetOK
    <2>9. JudgedOK(x)'
      <3>1. Checked \in Fields  OBVIOUS
      <3>2. CASE x.shown # NoValue
        <4>1. x.shown.id \in conns[x.conn].drafts  BY <2>2, <3>2 DEF ShownOK
        <4>2. QED  BY <2>2, <2>7, <3>1, <4>1 DEF JudgedOK, TextOf
      <3>3. CASE x.shown = NoValue  BY <3>3 DEF JudgedOK
      <3>4. QED  BY <3>2, <3>3
    <2>10. QED  BY <2>4, <2>5, <2>6, <2>8, <2>9
  <1>5. /\ x.wired <=> x.state = "connected"
        /\ x.wired => x.todo # <<"wire", "canonical", "restore">>
        /\ ~x.wired => x.shown = NoValue /\ x.todo \in {<<>>, <<"wire", "canonical", "restore">>}
    BY DEF WindowOK
  <1>6. QED  BY <1>1, <1>2, <1>3, <1>4, <1>5 DEF WindowOK

-----------------------------------------------------------------------------
(* A window's own steps that leave the daemon alone *)

\* The invariant, of a step of window w that makes it y.
LEMMA WindowStep ==
  ASSUME WindowInv, NEW w \in Windows, NEW y, Set(w, y), DaemonInv', WindowOK(y)',
         \A v \in Windows \ {w} : Leaves(windows[v].conn),
         \A v \in Windows \ {w} : y.conn # NoValue => y.conn # windows[v].conn
  PROVE  WindowInv'
  <1>1. /\ windows' = [v \in Windows |-> windows'[v]]
        /\ windows'[w] = y
        /\ \A v \in Windows \ {w} : windows'[v] = windows[v]
    BY DEF WindowInv, Set
  <1>2. \A v \in Windows : WindowOK(windows[v])'
    <2>1. ASSUME NEW v \in Windows \ {w} PROVE WindowOK(windows[v])'
      <3>1. PICK x : x = windows[v]  OBVIOUS
      <3>2. WindowOK(x)'  BY <3>1, OthersKeep DEF WindowInv
      <3>3. QED  BY <1>1, <3>1, <3>2
    <2>2. WindowOK(windows[w])'  BY <1>1
    <2>3. QED  BY <2>1, <2>2
  <1>3. WindowsApart'
    BY <1>1 DEF WindowInv, WindowsApart
  <1>4. QED  BY <1>1, <1>2, <1>3 DEF WindowInv

\* A step that leaves the daemon alone.
LEMMA QuietStep ==
  ASSUME WindowInv, NEW w \in Windows, NEW y, Set(w, y), UNCHANGED daemonVars, WindowOK(y),
         y.conn \in {windows[w].conn, NoValue}
  PROVE  WindowInv'
  <1>1. DaemonInv'
    <2>1. WiresOK /\ UNCHANGED <<vars, conns, nextConn, sockets, peers>>
      BY DEF WindowInv, DaemonInv, daemonVars
    <2>2. sockets' \in [DOMAIN conns -> Seq(Tick)] /\ peers' \in [DOMAIN conns -> Peers]
      BY <2>1 DEF WiresOK
    <2>3. QED  BY <2>1, <2>2, WireStepKeeps DEF WindowInv
  <1>2. \A c : Leaves(c)
    BY WireStepLeaves DEF daemonVars, WindowInv, DaemonInv, WiresOK
  <1>3. WindowOK(y)'
    BY <1>1, <1>2, OthersKeep DEF WindowInv
  <1>4. \A v \in Windows \ {w} : y.conn # NoValue => y.conn # windows[v].conn
    BY DEF WindowInv, WindowsApart
  <1>5. QED  BY <1>1, <1>2, <1>3, <1>4, WindowStep

\* What holds of a window that is about to send its next request.
LEMMA TodoIs ==
  ASSUME WindowInv, NEW w \in Windows, NEW step, Todo(w, step), step # "wire",
         NEW x, x = windows[w]
  PROVE  /\ WindowOK(x) /\ x \in WindowType /\ x.wired /\ x.state = "connected"
         /\ x.conn \in DOMAIN conns /\ Serving(x.conn) /\ x.todo # <<>> /\ Head(x.todo) = step
         /\ PaneOK(x) /\ ShownOK(x) /\ TargetOK(x) /\ StashedOK(x) /\ JudgedOK(x)
  <1>1. /\ WindowOK(x) /\ x.conn \in DOMAIN conns /\ Serving(x.conn)
        /\ x.todo # <<>> /\ Head(x.todo) = step
    BY DEF WindowInv, Todo, Broken
  <1>2. x \in WindowType /\ x.todo \in Todos  BY <1>1 DEF WindowOK, WindowType
  <1>3. x.todo # <<"wire", "canonical", "restore">>
    BY <1>1, <1>2, TodoHeads
  <1>4. x.wired /\ x.state = "connected"  BY <1>1, <1>3 DEF WindowOK
  <1>5. QED  BY <1>1, <1>2, <1>4 DEF WindowOK

\* A window once a step is done.
LEMMA DoneIs ==
  ASSUME WindowInv, NEW w \in Windows, NEW x, x = windows[w], x.todo # <<>>
  PROVE  /\ Done(w) \in WindowType
         /\ Done(w).todo = Tail(x.todo)
         /\ Tail(x.todo) # <<>> => Done(w).target = x.target
         /\ Done(w).state = x.state /\ Done(w).conn = x.conn /\ Done(w).wired = x.wired
         /\ Done(w).eof = x.eof /\ Done(w).pane = x.pane /\ Done(w).shown = x.shown
         /\ Done(w).blob = x.blob /\ Done(w).token = x.token
  <1>1. x \in WindowType  BY DEF WindowInv, WindowOK
  <1>2. x.todo \in Todos  BY <1>1 DEF WindowType
  <1>3. Tail(x.todo) \in Todos  BY <1>2, TodoHeads DEF Todos
  <1>4. PICK rest \in Todos : rest = Tail(x.todo)  BY <1>3
  <1>5. PICK target \in Option(Nat) : target = IF rest = <<>> THEN NoValue ELSE x.target
    BY <1>1 DEF WindowType, Option
  <1>6. Done(w) = [x EXCEPT !.todo = rest, !.target = target]
    BY <1>1, <1>4, <1>5 DEF Done, WindowType
  <1>7. QED  BY <1>1, <1>4, <1>5, <1>6 DEF WindowType

\* canonical, and the drafts a connection holds, are what their types say.
LEMMA HeldTypes ==
  ASSUME WindowInv, NEW c \in DOMAIN conns
  PROVE  /\ canonical \in Option([Fields -> Values])
         /\ \A id \in conns[c].drafts : id \in Nat /\ drafts[id].draft \in DraftType
         /\ \A id \in conns[c].drafts, f \in Fields :
              /\ drafts[id].draft.fields[f] \in FieldType
              /\ Recoverable(accepts, drafts[id].draft.fields[f])
         /\ accepts \in SUBSET Values
  <1>1. IInv /\ RInv /\ TypeOK  BY DEF WindowInv, DaemonInv, StoreInv, IInv
  <1>2. canonical \in Option([Fields -> Values]) /\ accepts \in SUBSET Values
    BY <1>1, CanonicalType DEF TypeOK, Option
  <1>3. /\ conns[c].drafts \subseteq DOMAIN drafts
        /\ \A id \in conns[c].drafts : id \in Nat /\ drafts[id].draft \in DraftType
    BY HeldIsLive DEF WindowInv
  <1>4. \A id \in conns[c].drafts, f \in Fields :
          /\ drafts[id].draft.fields[f] \in FieldType
          /\ Recoverable(accepts, drafts[id].draft.fields[f])
    BY <1>1, <1>3 DEF RInv, DraftType
  <1>5. QED  BY <1>2, <1>3, <1>4

\* The window listens: its todo says fetch, and it shows no draft yet.
LEMMA WireKeeps ==
  ASSUME WindowInv, NEW w \in Windows, Wire(w) PROVE WindowInv'
  <1> DEFINE y == [Done(w) EXCEPT !.wired = TRUE, !.state = "connected"]
  <1>1. PICK x : x = windows[w]  OBVIOUS
  <1>2. WindowOK(x) /\ x \in WindowType  BY <1>1 DEF WindowInv, WindowOK
  <1>3. x.todo # <<>> /\ Head(x.todo) = "wire"  BY <1>1 DEF Wire, Todo
  <1>4. x.todo = <<"wire", "canonical", "restore">> /\ Tail(x.todo) = <<"canonical", "restore">>
    BY <1>2, <1>3, TodoHeads DEF WindowType
  <1>5. x.shown = NoValue
    BY <1>2, <1>4 DEF WindowOK
  <1>6. /\ y \in WindowType /\ y.todo = <<"canonical", "restore">> /\ y.wired /\ y.state = "connected"
        /\ y.conn = x.conn /\ y.shown = NoValue /\ y.blob = x.blob
    <2>1. /\ Done(w) \in WindowType /\ Done(w).todo = Tail(x.todo) /\ Done(w).conn = x.conn
          /\ Done(w).shown = x.shown /\ Done(w).blob = x.blob
      BY <1>1, <1>3, DoneIs
    <2>2. QED  BY <1>4, <1>5, <2>1 DEF WindowType
  <1>7. Set(w, y) /\ UNCHANGED daemonVars  BY DEF Wire
  <1> HIDE DEF y
  <1>8. PaneOK(y) /\ ShownOK(y) /\ TargetOK(y) /\ StashedOK(y) /\ JudgedOK(y)
    BY <1>6, TodosAre DEF PaneOK, ShownOK, TargetOK, StashedOK, JudgedOK
  <1>9. WindowOK(y)
    <2>1. WindowsConn(y.conn) /\ BlobOK(y)  BY <1>2, <1>6 DEF WindowOK, BlobOK
    <2>2. y.todo # <<"wire", "canonical", "restore">>  BY <1>6
    <2>3. QED  BY <1>6, <1>8, <2>1, <2>2 DEF WindowOK
  <1>10. QED  BY <1>1, <1>6, <1>7, <1>9, QuietStep

\* What keeps WindowOK when a connected window goes on.
LEMMA GoesOn ==
  ASSUME NEW x, WindowOK(x), x.wired, NEW y \in WindowType, y.state = x.state, y.wired = x.wired,
         y.conn = x.conn, y.todo # <<"wire", "canonical", "restore">>, BlobOK(y),
         PaneOK(y), ShownOK(y), TargetOK(y), StashedOK(y), JudgedOK(y)
  PROVE  WindowOK(y)
  BY DEF WindowOK

\* The canonical arrives.
LEMMA RefetchCanonicalKeeps ==
  ASSUME WindowInv, NEW w \in Windows, RefetchCanonical(w) PROVE WindowInv'
  <1> DEFINE y == [Done(w) EXCEPT !.pane = canonical]
  <1>1. PICK x : x = windows[w]  OBVIOUS
  <1>2. /\ WindowOK(x) /\ x \in WindowType /\ x.wired
        /\ x.conn \in DOMAIN conns /\ x.todo # <<>> /\ Head(x.todo) = "canonical"
        /\ ShownOK(x) /\ TargetOK(x) /\ StashedOK(x) /\ JudgedOK(x)
    BY <1>1, TodoIs DEF RefetchCanonical
  <1>3. \/ x.todo = <<"canonical", "restore">> /\ Tail(x.todo) = <<"restore">>
        \/ x.todo = <<"canonical">> /\ Tail(x.todo) = <<>>
    BY <1>2, TodoHeads DEF WindowType
  <1>4. /\ y \in WindowType /\ y.todo = Tail(x.todo) /\ y.state = x.state /\ y.wired = x.wired
        /\ y.conn = x.conn /\ y.shown = x.shown /\ y.blob = x.blob /\ y.pane = canonical
    <2>1. x.todo # <<>>  BY <1>2
    <2>2. /\ Done(w) \in WindowType /\ Done(w).todo = Tail(x.todo) /\ Done(w).conn = x.conn
          /\ Done(w).state = x.state /\ Done(w).wired = x.wired
          /\ Done(w).shown = x.shown /\ Done(w).blob = x.blob
      BY <1>1, <2>1, DoneIs
    <2>3. canonical \in Option([Fields -> Values])  BY <1>2, HeldTypes
    <2>4. QED  BY <2>2, <2>3 DEF WindowType
  <1>5. Set(w, y) /\ UNCHANGED daemonVars  BY DEF RefetchCanonical
  <1> HIDE DEF y
  <1>6. PaneOK(y)  BY <1>4 DEF PaneOK
  <1>7. /\ ~FetchesDraft(x.todo) /\ ~Stashes(x.todo) /\ ~FetchesDraft(y.todo)
        /\ ~Stashes(y.todo) /\ ~Judges(y.todo) /\ ~Judges(x.todo)
        /\ ShowsNothing(y.todo) => ShowsNothing(x.todo)
        /\ y.todo # <<"wire", "canonical", "restore">>
    BY <1>3, <1>4, TodosAre
  <1>8. ShownOK(y) /\ TargetOK(y) /\ StashedOK(y) /\ JudgedOK(y)
    <2>1. ShownOK(y)  BY <1>2, <1>4, <1>7 DEF ShownOK
    <2>2. TargetOK(y)  BY <1>2, <1>4, <1>7 DEF TargetOK
    <2>3. StashedOK(y)  BY <1>2, <1>4, <1>7 DEF StashedOK, Stashed
    <2>4. JudgedOK(y)  BY <1>2, <1>4, <1>7 DEF JudgedOK
    <2>5. QED  BY <2>1, <2>2, <2>3, <2>4
  <1>9. BlobOK(y)  BY <1>2, <1>4 DEF WindowOK, BlobOK
  <1>10. WindowOK(y)  BY <1>2, <1>4, <1>6, <1>7, <1>8, <1>9, GoesOn
  <1>11. QED  BY <1>1, <1>4, <1>5, <1>10, QuietStep

\* There is no stash to restore.
LEMMA NothingToRestoreKeeps ==
  ASSUME WindowInv, NEW w \in Windows, NothingToRestore(w) PROVE WindowInv'
  <1>1. PICK x : x = windows[w]  OBVIOUS
  <1>2. PICK y : y = Done(w)  OBVIOUS
  <1>3. /\ WindowOK(x) /\ x \in WindowType /\ x.wired
        /\ x.conn \in DOMAIN conns /\ x.todo # <<>> /\ Head(x.todo) = "restore"
        /\ PaneOK(x) /\ TargetOK(x)
    BY <1>1, TodoIs DEF NothingToRestore
  <1>4. x.todo = <<"restore">> /\ Tail(x.todo) = <<>>
    BY <1>3, TodoHeads DEF WindowType
  <1>5. /\ y \in WindowType /\ y.todo = <<>> /\ y.state = x.state /\ y.wired = x.wired
        /\ y.conn = x.conn /\ y.shown = x.shown /\ y.blob = x.blob /\ y.pane = x.pane
    <2>1. x.todo # <<>>  BY <1>3
    <2>2. /\ y \in WindowType /\ y.todo = Tail(x.todo) /\ y.state = x.state
          /\ y.wired = x.wired /\ y.conn = x.conn /\ y.shown = x.shown /\ y.blob = x.blob
          /\ y.pane = x.pane
      BY <1>1, <1>2, <2>1, DoneIs
    <2>3. QED  BY <1>4, <2>2
  <1>6. Set(w, y) /\ UNCHANGED daemonVars  BY <1>2 DEF NothingToRestore
  <1>7. y.shown = NoValue
    BY <1>3, <1>4, <1>5, TodosAre DEF TargetOK
  <1>8. PaneOK(y) /\ ShownOK(y) /\ TargetOK(y) /\ StashedOK(y) /\ JudgedOK(y) /\ BlobOK(y)
    <2>1. PaneOK(y)  BY <1>3, <1>4, <1>5, TodosAre DEF PaneOK
    <2>2. ShownOK(y) /\ TargetOK(y) /\ StashedOK(y) /\ JudgedOK(y)
      BY <1>5, <1>7, TodosAre DEF ShownOK, TargetOK, StashedOK, JudgedOK
    <2>3. BlobOK(y)  BY <1>3, <1>5 DEF WindowOK, BlobOK
    <2>4. QED  BY <2>1, <2>2, <2>3
  <1>9. y.todo # <<"wire", "canonical", "restore">>  BY <1>5
  <1>10. WindowOK(y)  BY <1>3, <1>5, <1>8, <1>9, GoesOn
  <1>11. QED  BY <1>1, <1>5, <1>6, <1>10, QuietStep

\* The draft arrives.
LEMMA RefetchDraftKeeps ==
  ASSUME WindowInv, NEW w \in Windows, RefetchDraft(w) PROVE WindowInv'
  <1>1. PICK x : x = windows[w]  OBVIOUS
  <1>2. /\ WindowOK(x) /\ x \in WindowType /\ x.wired
        /\ x.conn \in DOMAIN conns /\ x.todo # <<>> /\ Head(x.todo) = "draft"
        /\ PaneOK(x) /\ TargetOK(x) /\ StashedOK(x)
    BY <1>1, TodoIs DEF RefetchDraft
  <1>3. \/ x.todo = <<"draft">> /\ Tail(x.todo) = <<>>
        \/ x.todo = <<"draft", "stash">> /\ Tail(x.todo) = <<"stash">>
    BY <1>2, TodoHeads DEF WindowType
  <1>4. /\ FetchesDraft(x.todo) /\ ~FetchesCanonical(x.todo)
        /\ ~FetchesDraft(Tail(x.todo)) /\ ~Judges(Tail(x.todo)) /\ ~ShowsNothing(Tail(x.todo))
        /\ Stashes(x.todo) <=> Stashes(Tail(x.todo))
        /\ Stashes(Tail(x.todo)) => Tail(x.todo) # <<>>
        /\ Tail(x.todo) # <<"wire", "canonical", "restore">>
    BY <1>3, TodosAre
  <1>5. PICK id : id = x.target  OBVIOUS
  <1>6. id \in conns[x.conn].drafts  BY <1>2, <1>4, <1>5 DEF TargetOK
  <1>7. PICK shown \in [id : Nat, draft : DraftType] : shown = [id |-> id, draft |-> drafts[id].draft]
    BY <1>2, <1>6, HeldTypes
  <1>8. shown.id = id /\ shown.draft = drafts[id].draft  BY <1>7
  <1> DEFINE y == [Done(w) EXCEPT !.shown = shown]
  <1>9. Set(w, y) /\ UNCHANGED daemonVars
    BY <1>1, <1>5, <1>6, <1>7 DEF RefetchDraft, Owns
  <1>10. /\ y \in WindowType /\ y.todo = Tail(x.todo) /\ y.state = x.state /\ y.wired = x.wired
         /\ y.conn = x.conn /\ y.shown = shown /\ y.blob = x.blob /\ y.pane = x.pane
         /\ Tail(x.todo) # <<>> => y.target = id
    <2>1. x.todo # <<>>  BY <1>2
    <2>2. /\ Done(w) \in WindowType /\ Done(w).todo = Tail(x.todo) /\ Done(w).conn = x.conn
          /\ Done(w).state = x.state /\ Done(w).wired = x.wired
          /\ Done(w).pane = x.pane /\ Done(w).blob = x.blob
          /\ Tail(x.todo) # <<>> => Done(w).target = x.target
      BY <1>1, <2>1, DoneIs
    <2>3. QED  BY <1>5, <2>2 DEF WindowType, Option
  <1> HIDE DEF y
  <1>11. PaneOK(y)  BY <1>2, <1>4, <1>10 DEF PaneOK
  <1>12. ShownOK(y)  BY <1>6, <1>8, <1>10 DEF ShownOK
  <1>13. TargetOK(y)  BY <1>4, <1>6, <1>8, <1>10 DEF TargetOK
  <1>14. StashedOK(y)
    BY <1>2, <1>4, <1>5, <1>8, <1>10 DEF StashedOK, Stashed
  <1>15. JudgedOK(y)  BY <1>4, <1>8, <1>10 DEF JudgedOK
  <1>16. BlobOK(y)  BY <1>2, <1>10 DEF WindowOK, BlobOK
  <1>17. y.todo # <<"wire", "canonical", "restore">>  BY <1>4, <1>10
  <1>18. WindowOK(y)
    BY <1>2, <1>10, <1>11, <1>12, <1>13, <1>14, <1>15, <1>16, <1>17, GoesOn
  <1>19. QED  BY <1>1, <1>9, <1>10, <1>18, QuietStep

\* The stash arrives: all the draft holds, and all of it can be typed again.
LEMMA RefreshStashKeeps ==
  ASSUME WindowInv, NEW w \in Windows, RefreshStash(w) PROVE WindowInv'
  <1>1. PICK x : x = windows[w]  OBVIOUS
  <1>2. /\ WindowOK(x) /\ x \in WindowType /\ x.wired
        /\ x.conn \in DOMAIN conns /\ x.todo # <<>> /\ Head(x.todo) = "stash"
        /\ PaneOK(x) /\ ShownOK(x) /\ TargetOK(x) /\ JudgedOK(x)
    BY <1>1, TodoIs DEF RefreshStash
  <1>3. x.todo = <<"stash">> /\ Tail(x.todo) = <<>>
    BY <1>2, TodoHeads DEF WindowType
  <1>4. PICK id : id = x.target  OBVIOUS
  <1>5. id \in conns[x.conn].drafts /\ (x.shown # NoValue => x.shown.id = id)
    BY <1>2, <1>3, <1>4, TodosAre DEF TargetOK
  <1>6. PICK blob \in StashType : blob = Stash(drafts[id].draft)
    BY <1>2, <1>5, HeldTypes, StashOfDraft
  <1>7. \A f \in Fields : blob.fields[f].raw = drafts[id].draft.fields[f].raw
    BY <1>6 DEF Stash, StashField
  <1>8. blob # NoValue  BY <1>6, SyncdAssumption
  <1> DEFINE y == [Done(w) EXCEPT !.blob = blob]
  <1>9. Set(w, y) /\ UNCHANGED daemonVars
    BY <1>1, <1>4, <1>5, <1>6 DEF RefreshStash, Owns
  <1>10. /\ y \in WindowType /\ y.todo = <<>> /\ y.state = x.state /\ y.wired = x.wired
         /\ y.conn = x.conn /\ y.shown = x.shown /\ y.blob = blob /\ y.pane = x.pane
    <2>1. x.todo # <<>>  BY <1>2
    <2>2. /\ Done(w) \in WindowType /\ Done(w).todo = Tail(x.todo) /\ Done(w).conn = x.conn
          /\ Done(w).state = x.state /\ Done(w).wired = x.wired
          /\ Done(w).pane = x.pane /\ Done(w).shown = x.shown
      BY <1>1, <2>1, DoneIs
    <2>3. QED  BY <1>3, <2>2 DEF WindowType, Option
  <1> HIDE DEF y
  <1>11. PaneOK(y)  BY <1>2, <1>3, <1>10, TodosAre DEF PaneOK
  <1>12. ShownOK(y)  BY <1>2, <1>3, <1>10, TodosAre DEF ShownOK
  <1>13. TargetOK(y)  BY <1>10, TodosAre DEF TargetOK
  <1>14. StashedOK(y)
    <2>1. Stashed(y, id)  BY <1>7, <1>8, <1>10 DEF Stashed
    <2>2. QED  BY <1>5, <1>10, <2>1, TodosAre DEF StashedOK
  <1>15. JudgedOK(y)  BY <1>2, <1>3, <1>10, TodosAre DEF JudgedOK
  <1>16. BlobOK(y)
    <2> SUFFICES ASSUME NEW f \in Fields, NEW r, r = drafts[id].draft.fields[f].raw,
                        r # NoValue, Sanitize[r] \in accepts
                 PROVE  Sanitize[r] = r
      BY <1>7, <1>10 DEF BlobOK
    <2>1. PICK z : z = drafts[id].draft.fields[f]  OBVIOUS
    <2>2. z \in FieldType /\ Recoverable(accepts, z) /\ accepts \in SUBSET Values
      BY <1>2, <1>5, <2>1, HeldTypes
    <2>3. z.raw = r  BY <2>1
    <2>4. CASE z.validity = "Valid"
      BY <2>2, <2>3, <2>4 DEF Recoverable, Values
    <2>5. CASE z.validity = "Invalid"
      BY <2>2, <2>3, <2>5, NoValueIsNoValue DEF Recoverable, TryNew
    <2>6. CASE z.validity = "Unset"
      BY <2>2, <2>3, <2>6 DEF Recoverable
    <2>7. QED  BY <2>2, <2>4, <2>5, <2>6 DEF FieldType
  <1>17. y.todo # <<"wire", "canonical", "restore">>  BY <1>10
  <1>18. WindowOK(y)
    BY <1>2, <1>10, <1>11, <1>12, <1>13, <1>14, <1>15, <1>16, <1>17, GoesOn
  <1>19. QED  BY <1>1, <1>9, <1>10, <1>18, QuietStep

\* The end of a connection is announced, or every request left returns nil.
LEMMA EndingKeeps ==
  ASSUME WindowInv, NEW w \in Windows, AnnounceEnd(w) \/ GiveUpRequests(w) PROVE WindowInv'
  <1>1. PICK x : x = windows[w]  OBVIOUS
  <1>2. WindowOK(x) /\ x \in WindowType /\ x.conn \notin DOMAIN conns
    BY <1>1 DEF WindowInv, WindowOK, AnnounceEnd, GiveUpRequests, Broken
  <1>3. ASSUME NEW y \in WindowType, y.conn = x.conn, y.state = x.state, y.wired = x.wired,
               y.shown = x.shown, y.blob = x.blob, y.todo = x.todo \/ y.todo = <<>>
        PROVE  WindowOK(y)
    BY <1>2, <1>3 DEF WindowOK, BlobOK
  <1>4. CASE AnnounceEnd(w)
    <2>0. PICK eof \in {"queued", "lost"} : eof = IF x.wired THEN "queued" ELSE "lost"  OBVIOUS
    <2>1. Set(w, [x EXCEPT !.eof = eof])
      <3>1. Set(w, [x EXCEPT !.eof = IF x.wired THEN "queued" ELSE "lost"])
        BY <1>1, <1>4 DEF AnnounceEnd
      <3>2. QED  BY <2>0, <3>1
    <2> DEFINE y == [x EXCEPT !.eof = eof]
    <2>2. /\ y \in WindowType /\ y.conn = x.conn /\ y.state = x.state /\ y.wired = x.wired
          /\ y.shown = x.shown /\ y.blob = x.blob /\ y.todo = x.todo
      BY <1>2 DEF WindowType
    <2>3. Set(w, y) /\ UNCHANGED daemonVars  BY <1>4, <2>1 DEF AnnounceEnd
    <2> HIDE DEF y
    <2>4. WindowOK(y)  BY <1>3, <2>2
    <2>5. QED  BY <1>1, <2>2, <2>3, <2>4, QuietStep
  <1>5. CASE GiveUpRequests(w)
    <2> DEFINE y == [x EXCEPT !.target = NoValue, !.token = NoValue, !.todo = <<>>]
    <2>1. /\ y \in WindowType /\ y.conn = x.conn /\ y.state = x.state /\ y.wired = x.wired
          /\ y.shown = x.shown /\ y.blob = x.blob /\ y.todo = <<>>
      BY <1>2 DEF WindowType, Todos, Option
    <2>2. Set(w, y) /\ UNCHANGED daemonVars  BY <1>1, <1>5 DEF GiveUpRequests
    <2> HIDE DEF y
    <2>3. WindowOK(y)  BY <1>3, <2>1
    <2>4. QED  BY <1>1, <2>1, <2>2, <2>3, QuietStep
  <1>6. QED  BY <1>4, <1>5

\* The window learns that its connection is gone, or never came to be.
LEMMA EndedKeeps ==
  ASSUME WindowInv, NEW w \in Windows, OnDisconnect(w) \/ ConnectFailed(w) PROVE WindowInv'
  <1>1. PICK x : x = windows[w]  OBVIOUS
  <1>2. WindowOK(x) /\ x \in WindowType  BY <1>1 DEF WindowInv, WindowOK
  <1>3. ASSUME NEW y \in WindowType, y.conn = NoValue, y.state # "connected", ~y.wired,
               y.shown = NoValue, y.blob = x.blob, y.todo = <<>>
        PROVE  WindowOK(y)
    <2>1. NoValue \notin DOMAIN conns  BY SyncdAssumption DEF WindowInv, DaemonInv, WiresOK
    <2>2. QED  BY <1>2, <1>3, <2>1 DEF WindowOK, WindowsConn, BlobOK
  <1>4. CASE OnDisconnect(w)
    <2> DEFINE y == [x EXCEPT !.state = "disconnected", !.conn = NoValue, !.eof = "none",
                              !.wired = FALSE, !.shown = NoValue]
    <2>1. /\ y \in WindowType /\ y.conn = NoValue /\ y.state # "connected" /\ ~y.wired
          /\ y.shown = NoValue /\ y.blob = x.blob /\ y.todo = x.todo
      BY <1>2 DEF WindowType, Option
    <2>2. x.todo = <<>>  BY <1>1, <1>4 DEF OnDisconnect, Free
    <2>3. Set(w, y) /\ UNCHANGED daemonVars  BY <1>1, <1>4 DEF OnDisconnect
    <2> HIDE DEF y
    <2>4. WindowOK(y)  BY <1>3, <2>1, <2>2
    <2>5. QED  BY <2>1, <2>3, <2>4, QuietStep
  <1>5. CASE ConnectFailed(w)
    <2> DEFINE y == [x EXCEPT !.state = "failed", !.conn = NoValue, !.eof = "none", !.todo = <<>>]
    <2>1. ~x.wired /\ x.shown = NoValue  BY <1>1, <1>2, <1>5 DEF ConnectFailed, WindowOK
    <2>2. /\ y \in WindowType /\ y.conn = NoValue /\ y.state # "connected" /\ ~y.wired
          /\ y.shown = NoValue /\ y.blob = x.blob /\ y.todo = <<>>
      <3>1. PICK none \in Todos : none = <<>>  BY DEF Todos
      <3>2. y = [x EXCEPT !.state = "failed", !.conn = NoValue, !.eof = "none", !.todo = none]
        BY <3>1
      <3>3. QED  BY <1>2, <2>1, <3>1, <3>2 DEF WindowType, Option
    <2>3. Set(w, y) /\ UNCHANGED daemonVars  BY <1>1, <1>5 DEF ConnectFailed
    <2> HIDE DEF y
    <2>4. WindowOK(y)  BY <1>3, <2>2
    <2>5. y.conn \in {windows[w].conn, NoValue}  BY <2>2
    <2>6. QED  BY <2>3, <2>4, <2>5, QuietStep
  <1>6. QED  BY <1>4, <1>5

-----------------------------------------------------------------------------
(* A window's own requests that change the daemon *)

\* What every request leaves alone.
LEMMA HandlerSays ==
  ASSUME DaemonInv, NEW c, Handler(c)
  PROVE  /\ c \in DOMAIN conns /\ DOMAIN conns' = DOMAIN conns
         /\ UNCHANGED <<accepts, nextConn, sockets, peers>>
  <1>1. c \in DOMAIN conns /\ conns[c].emits = {} /\ UNCHANGED <<nextConn, sockets, peers>>
    BY HandlerShape DEF Serving
  <1>2. CASE Registers(c)
    BY <1>1, <1>2 DEF Registers
  <1>3. CASE \E id \in conns[c].drafts : Touches(c, id) \/ Drops(c, id)
    BY <1>1, <1>3 DEF Touches, Drops
  <1>4. ASSUME NEW id, Changes(c, id)
        PROVE  DOMAIN conns' = DOMAIN conns /\ UNCHANGED accepts
    BY <1>1, <1>4 DEF Changes, Announce
  <1>5. QED  BY <1>1, <1>2, <1>3, <1>4, HandlerShape

\* The invariant, of a request of a connected window that makes it y.
LEMMA HandlerStep ==
  ASSUME WindowInv, NEW w \in Windows, NEW x, x = windows[w], x.wired, Handler(x.conn),
         NEW y \in WindowType, Set(w, y), y.conn = x.conn, y.state = x.state, y.wired = x.wired,
         y.todo # <<"wire", "canonical", "restore">>, y.blob \in {x.blob, NoValue},
         PaneOK(y)', ShownOK(y)', TargetOK(y)', StashedOK(y)', JudgedOK(y)'
  PROVE  WindowInv'
  <1>1. DaemonInv /\ DaemonInv' /\ NoValue \notin Nat /\ WindowOK(x)
    BY HandlerKeeps, SyncdAssumption DEF WindowInv
  <1>2. /\ x.conn \in DOMAIN conns /\ DOMAIN conns' = DOMAIN conns
        /\ UNCHANGED <<accepts, nextConn, sockets, peers>>
    BY <1>1, HandlerSays
  <1>3. WindowOK(y)'
    <2>1. WindowsConn(y.conn)'  BY <1>1, <1>2 DEF WindowOK, WindowsConn
    <2>2. BlobOK(y)'  BY <1>1, <1>2 DEF WindowOK, BlobOK
    <2>3. x.state = "connected"  BY <1>1 DEF WindowOK
    <2>4. QED  BY <2>1, <2>2, <2>3 DEF WindowOK
  <1>4. \A v \in Windows \ {w} : y.conn # NoValue => y.conn # windows[v].conn
    BY DEF WindowInv, WindowsApart
  <1>5. ASSUME NEW v \in Windows \ {w} PROVE Leaves(windows[v].conn)
    <2>1. PICK d : d = windows[v].conn  OBVIOUS
    <2>2. d # x.conn
      <3>1. x.conn \in Nat  BY <1>1, <1>2 DEF DaemonInv, WiresOK
      <3>2. QED  BY <1>1, <1>4, <2>1, <3>1
    <2>3. CASE d \in DOMAIN conns  BY <1>1, <2>1, <2>2, <2>3, HandlerLeaves
    <2>4. CASE d \notin DOMAIN conns
      <3>1. nextConn <= nextConn'  BY <1>1, <1>2 DEF DaemonInv, WiresOK
      <3>2. QED  BY <1>2, <2>1, <2>4, <3>1 DEF Leaves
    <2>5. QED  BY <2>3, <2>4
  <1>6. QED  BY <1>1, <1>3, <1>4, <1>5, WindowStep

\* A connected window that is not doing anything.
LEMMA ReadyIs ==
  ASSUME WindowInv, NEW w \in Windows, Ready(w), NEW x, x = windows[w]
  PROVE  /\ WindowOK(x) /\ x \in WindowType /\ x.wired /\ x.state = "connected"
         /\ x.conn \in DOMAIN conns /\ x.todo = <<>>
         /\ PaneOK(x) /\ ShownOK(x) /\ TargetOK(x) /\ StashedOK(x) /\ JudgedOK(x)
         /\ DaemonInv
  BY DEF WindowInv, Ready, Free, Broken, WindowOK

\* The pane, of a request that leaves canonical alone.
LEMMA PaneKept ==
  ASSUME DaemonInv, NEW x, x.conn \in DOMAIN conns, Handler(x.conn), UNCHANGED canonical,
         PaneOK(x), NEW y, y.pane = x.pane, y.conn = x.conn,
         FetchesCanonical(x.todo) => FetchesCanonical(y.todo)
  PROVE  PaneOK(y)'
  <1>1. CanonicalComing(x.conn) => CanonicalComing(x.conn)'
    BY HandlerKeepsTicks DEF CanonicalComing
  <1>2. QED  BY <1>1 DEF PaneOK

\* A draft that is registered is the connection's.
LEMMA RegisterHolds ==
  ASSUME DaemonInv, NEW c \in DOMAIN conns, Register(c, nextId)
  PROVE  nextId \in Nat /\ nextId \in conns'[c].drafts
  <1>1. nextId \in Nat /\ WiresOK /\ conns[c] \in Conn
    BY HeldIsLive DEF DaemonInv, StoreInv, IInv, TypeOK
  <1>2. conns[c].drafts \cup {nextId} \in SUBSET Nat  BY <1>1 DEF Conn
  <1>3. conns' = [conns EXCEPT ![c].drafts = conns[c].drafts \cup {nextId}]  BY DEF Register
  <1>4. conns'[c].drafts = conns[c].drafts \cup {nextId}
    BY <1>1, <1>2, <1>3, DraftsSet
  <1>5. QED  BY <1>1, <1>4

\* A draft is checked out, and then fetched.
LEMMA OpenEditorKeeps ==
  ASSUME WindowInv, NEW w \in Windows, OpenEditor(w) PROVE WindowInv'
  <1>1. PICK x : x = windows[w]  OBVIOUS
  <1>2. /\ WindowOK(x) /\ x \in WindowType /\ x.wired /\ x.state = "connected"
        /\ x.conn \in DOMAIN conns /\ x.todo = <<>> /\ PaneOK(x) /\ x.shown = NoValue /\ DaemonInv
    BY <1>1, ReadyIs DEF OpenEditor
  <1>3. HandleCheckout(x.conn) /\ Handler(x.conn)  BY <1>1 DEF OpenEditor, Handler
  <1>4. PICK id \in Nat : id = nextId
    BY <1>2 DEF DaemonInv, StoreInv, IInv, TypeOK
  <1>5. canonical' = canonical /\ id \in conns'[x.conn].drafts
    BY <1>2, <1>3, <1>4, RegisterHolds DEF HandleCheckout, Checkout, Adopt
  <1>6. PICK todo \in Todos : todo = <<"draft", "stash">>  BY DEF Todos
  <1> DEFINE y == [x EXCEPT !.target = id, !.todo = todo]
  <1>7. Set(w, y)  BY <1>1, <1>4, <1>6 DEF OpenEditor, Then
  <1>8. /\ y \in WindowType /\ y.todo = <<"draft", "stash">> /\ y.conn = x.conn /\ y.state = x.state
        /\ y.wired = x.wired /\ y.shown = NoValue /\ y.blob = x.blob /\ y.pane = x.pane
        /\ y.target = id
    BY <1>2, <1>6 DEF WindowType, Option
  <1> HIDE DEF y
  <1>9. PaneOK(y)'  BY <1>2, <1>3, <1>5, <1>8, PaneKept, TodosAre
  <1>10. ShownOK(y)' /\ TargetOK(y)' /\ StashedOK(y)' /\ JudgedOK(y)'
    <2>1. TargetOK(y)'  BY <1>5, <1>8, TodosAre DEF TargetOK
    <2>2. ShownOK(y)' /\ StashedOK(y)' /\ JudgedOK(y)'
      BY <1>8, TodosAre DEF ShownOK, StashedOK, JudgedOK
    <2>3. QED  BY <2>1, <2>2
  <1>11. y.todo # <<"wire", "canonical", "restore">>  BY <1>8
  <1>12. QED  BY <1>1, <1>2, <1>3, <1>7, <1>8, <1>9, <1>10, <1>11, HandlerStep

\* An edit or a resolution of the draft it shows: it fetches draft and stash.
LEMMA EditKeeps ==
  ASSUME WindowInv, NEW w \in Windows, Ready(w), windows[w].shown # NoValue,
         Edit(w, windows[w].shown.id)
  PROVE  WindowInv'
  <1>1. PICK x : x = windows[w]  OBVIOUS
  <1>2. /\ WindowOK(x) /\ x \in WindowType /\ x.wired /\ x.state = "connected"
        /\ x.conn \in DOMAIN conns /\ x.todo = <<>> /\ PaneOK(x) /\ ShownOK(x)
        /\ x.shown # NoValue /\ DaemonInv
    BY <1>1, ReadyIs
  <1>3. PICK id : id = x.shown.id  OBVIOUS
  <1>4. id \in conns[x.conn].drafts /\ id \in Nat
    BY <1>2, <1>3, HeldTypes DEF ShownOK
  <1>5. PICK f \in Fields : \/ \E r \in Raws : HandleTrySet(x.conn, id, f, r)
                            \/ HandleResolve(x.conn, id, f)
    BY <1>1, <1>3 DEF Edit
  <1>6. Handler(x.conn)  BY <1>4, <1>5 DEF Handler
  <1>7. UNCHANGED <<canonical, conns>>
    BY <1>5 DEF HandleTrySet, HandleResolve, SetRaw, ResolveKeepMine, ResolveTakeTheirs, EditField
  <1>8. PICK todo \in Todos : todo = <<"draft", "stash">>  BY DEF Todos
  <1> DEFINE y == [x EXCEPT !.target = id, !.todo = todo]
  <1>9. Set(w, y)
    <2>1. Then(w, id, EditSteps)  BY <1>1, <1>3 DEF Edit
    <2>2. QED  BY <1>1, <1>8, <2>1 DEF Then, EditSteps
  <1>10. /\ y \in WindowType /\ y.todo = <<"draft", "stash">> /\ y.conn = x.conn
         /\ y.state = x.state /\ y.wired = x.wired /\ y.shown = x.shown /\ y.blob = x.blob
         /\ y.pane = x.pane /\ y.target = id
    BY <1>2, <1>4, <1>8 DEF WindowType, Option
  <1> HIDE DEF y
  <1>11. PaneOK(y)'  BY <1>2, <1>6, <1>7, <1>10, PaneKept, TodosAre
  <1>12. ShownOK(y)' /\ TargetOK(y)' /\ StashedOK(y)' /\ JudgedOK(y)'
    <2>1. TargetOK(y)'  BY <1>3, <1>4, <1>7, <1>10, TodosAre DEF TargetOK
    <2>2. ShownOK(y)' /\ StashedOK(y)' /\ JudgedOK(y)'
      BY <1>3, <1>4, <1>7, <1>10, TodosAre DEF ShownOK, StashedOK, JudgedOK
    <2>3. QED  BY <2>1, <2>2
  <1>13. y.todo # <<"wire", "canonical", "restore">>  BY <1>10
  <1>14. QED  BY <1>1, <1>2, <1>6, <1>9, <1>10, <1>11, <1>12, <1>13, HandlerStep

\* The stash of a draft whose fields are what they were.
LEMMA StashedKept ==
  ASSUME NEW x, NEW y, NEW id, y.blob = x.blob,
         drafts'[id].draft.fields = drafts[id].draft.fields, Stashed(x, id)
  PROVE  Stashed(y, id)'
  BY DEF Stashed

\* begin_check hands out one token, of the text the draft holds.
LEMMA TokenIsNew ==
  ASSUME DaemonInv, NEW c \in DOMAIN conns, NEW id \in conns[c].drafts, HandleBeginCheck(c, id)
  PROVE  LET t == CHOOSE t \in tokens' : t \notin tokens
         IN  /\ t \in TokenType /\ t.text = TextOf(drafts[id].draft)
             /\ drafts'[id].draft.fields = drafts[id].draft.fields
             /\ conns'[c].drafts = conns[c].drafts
             /\ canonical' = canonical
  <1> DEFINE d == drafts[id].draft
             k == Begin(d.check, TextOf(d))
             n == [d EXCEPT !.check = k]
             token == [id |-> id, seq |-> k.seq, text |-> k.about]
  <1>1. /\ id \in DOMAIN drafts /\ id \in Nat /\ d \in DraftType /\ drafts[id] \in EntryType
        /\ tokens \in SUBSET TokenType /\ conns[c] \in Conn /\ WiresOK
        /\ CheckInv(d, id, tokens)
    BY HeldIsLive DEF DaemonInv, StoreInv, IInv, TypeOK, CInv
  <1>2. Update(id, n) /\ tokens' = tokens \cup {token} /\ canonical' = canonical
    BY DEF HandleBeginCheck, BeginCheck
  <1>3. d.check.seq \in Nat  BY <1>1 DEF DraftType, CheckType
  <1>4. k.seq = d.check.seq + 1 /\ k.about = TextOf(d)  BY DEF Begin
  <1>5. \A t \in tokens : t.id = id => t.seq \in Nat /\ t.seq <= d.check.seq
    BY <1>1 DEF CheckInv, TokenType
  <1>6. token \notin tokens
    <2>1. token.id = id /\ token.seq = d.check.seq + 1  BY <1>4
    <2> HIDE DEF token
    <2>2. QED  BY <1>3, <1>5, <2>1
  <1>7. token \in TokenType /\ token.text = TextOf(d)
    <2>1. TextOf(d) \in Option(Raws)  BY <1>1 DEF TextOf, DraftType, FieldType
    <2>2. QED  BY <1>1, <1>3, <1>4, <2>1 DEF TokenType
  <1>8. drafts'[id].draft.fields = d.fields
    <2>1. n.fields = d.fields  BY <1>1 DEF DraftType
    <2> HIDE DEF n, d
    <2>2. drafts'[id].draft = n  BY <1>1, <1>2 DEF Update, EntryType
    <2>3. QED  BY <2>1, <2>2
  <1>9. conns'[c].drafts = conns[c].drafts
    <2>1. conns' = [conns EXCEPT ![c].tokens = conns[c].tokens \cup (tokens' \ tokens)]
      BY DEF HandleBeginCheck
    <2>2. conns[c].tokens \cup (tokens' \ tokens) \in SUBSET TokenType
      BY <1>1, <1>2, <1>7 DEF Conn
    <2>3. QED  BY <1>1, <2>1, <2>2, TokensSet
  <1> HIDE DEF d, k, n, token
  <1>10. (CHOOSE t \in tokens' : t \notin tokens) = token
    BY <1>2, <1>6
  <1>11. QED  BY <1>2, <1>7, <1>8, <1>9, <1>10 DEF d

\* A check begins: the window's snapshot holds the text the token was issued for.
LEMMA BeginFolderCheckKeeps ==
  ASSUME WindowInv, NEW w \in Windows, Ready(w), windows[w].shown # NoValue,
         BeginFolderCheck(w, windows[w].shown.id)
  PROVE  WindowInv'
  <1>1. PICK x : x = windows[w]  OBVIOUS
  <1>2. /\ WindowOK(x) /\ x \in WindowType /\ x.wired /\ x.state = "connected"
        /\ x.conn \in DOMAIN conns /\ x.todo = <<>> /\ PaneOK(x) /\ ShownOK(x) /\ StashedOK(x)
        /\ JudgedOK(x) /\ x.shown # NoValue /\ DaemonInv
    BY <1>1, ReadyIs
  <1>3. PICK id : id = x.shown.id  OBVIOUS
  <1>4. id \in conns[x.conn].drafts /\ id \in Nat
    BY <1>2, <1>3, HeldTypes DEF ShownOK
  <1>5. HandleBeginCheck(x.conn, id) /\ Handler(x.conn)
    BY <1>1, <1>3, <1>4 DEF BeginFolderCheck, Handler
  <1>6. PICK token : token = CHOOSE t \in tokens' : t \notin tokens  OBVIOUS
  <1>7. /\ token \in TokenType /\ token.text = TextOf(drafts[id].draft)
        /\ drafts'[id].draft.fields = drafts[id].draft.fields
        /\ conns'[x.conn].drafts = conns[x.conn].drafts
        /\ canonical' = canonical
    BY <1>2, <1>4, <1>5, <1>6, TokenIsNew
  <1>8. PICK todo \in Todos : todo = <<"complete", "draft">>  BY DEF Todos
  <1> DEFINE y == [x EXCEPT !.target = id, !.token = token, !.todo = todo]
  <1>9. Set(w, y)  BY <1>1, <1>3, <1>6, <1>8 DEF BeginFolderCheck
  <1>10. /\ y \in WindowType /\ y.todo = <<"complete", "draft">> /\ y.conn = x.conn
         /\ y.state = x.state /\ y.wired = x.wired /\ y.shown = x.shown /\ y.blob = x.blob
         /\ y.pane = x.pane /\ y.target = id /\ y.token = token
    BY <1>2, <1>4, <1>7, <1>8 DEF WindowType, Option
  <1> HIDE DEF y
  <1>11. PaneOK(y)'  BY <1>2, <1>5, <1>7, <1>10, PaneKept, TodosAre
  <1>12. ShownOK(y)' /\ TargetOK(y)'
    <2>1. TargetOK(y)'  BY <1>2, <1>3, <1>4, <1>7, <1>10, TodosAre DEF TargetOK
    <2>2. ShownOK(y)'  BY <1>3, <1>4, <1>7, <1>10, TodosAre DEF ShownOK
    <2>3. QED  BY <2>1, <2>2
  <1>13. StashedOK(y)'
    <2>1. Stashed(x, id)  BY <1>2, <1>3, TodosAre DEF StashedOK
    <2>2. Stashed(y, id)'  BY <1>7, <1>10, <2>1, StashedKept
    <2>3. QED  BY <1>3, <1>10, <2>2 DEF StashedOK
  <1>14. JudgedOK(y)'
    <2>1. TextOf(drafts'[id].draft) = TextOf(drafts[id].draft)  BY <1>7 DEF TextOf
    <2>2. IsDirty(drafts'[id].draft.fields[Checked]) =>
            IsDirty(drafts[id].draft.fields[Checked])
      BY <1>7
    <2>3. IsDirty(drafts[id].draft.fields[Checked]) =>
            TextOf(drafts[id].draft) = TextOf(x.shown.draft)
      BY <1>2, <1>3, TodosAre DEF JudgedOK
    <2>4. QED  BY <1>3, <1>7, <1>10, <2>1, <2>2, <2>3 DEF JudgedOK
  <1>15. y.todo # <<"wire", "canonical", "restore">>  BY <1>10
  <1>16. QED  BY <1>1, <1>2, <1>5, <1>9, <1>10, <1>11, <1>12, <1>13, <1>14, <1>15, HandlerStep

\* A verdict reaches the daemon: fields, and so stash and text, are what they were.
LEMMA CompleteFolderCheckKeeps ==
  ASSUME WindowInv, NEW w \in Windows, CompleteFolderCheck(w) PROVE WindowInv'
  <1>1. PICK x : x = windows[w]  OBVIOUS
  <1>2. /\ WindowOK(x) /\ x \in WindowType /\ x.wired
        /\ x.conn \in DOMAIN conns /\ x.todo # <<>> /\ Head(x.todo) = "complete"
        /\ PaneOK(x) /\ ShownOK(x) /\ TargetOK(x) /\ StashedOK(x)
    BY <1>1, TodoIs DEF CompleteFolderCheck
  <1>3. x.todo = <<"complete", "draft">> /\ Tail(x.todo) = <<"draft">>
    BY <1>2, TodoHeads DEF WindowType
  <1>4. PICK id : id = x.target  OBVIOUS
  <1>5. id \in conns[x.conn].drafts /\ x.shown # NoValue /\ x.shown.id = id
    BY <1>2, <1>3, <1>4, TodosAre DEF TargetOK
  <1>6. PICK verdict \in Verdicts : HandleCompleteCheck(x.conn, id, x.token, verdict)
    BY <1>1, <1>4 DEF CompleteFolderCheck
  <1>7. x.token \in conns[x.conn].tokens  BY <1>6 DEF HandleCompleteCheck
  <1>8. Handler(x.conn)  BY <1>5, <1>6, <1>7 DEF Handler
  <1>9. DaemonInv  BY DEF WindowInv
  <1>10. /\ canonical' = canonical
         /\ conns' = [conns EXCEPT ![x.conn].tokens = conns[x.conn].tokens \ {x.token}]
    BY <1>6 DEF HandleCompleteCheck
  <1>11. conns'[x.conn].drafts = conns[x.conn].drafts
    <2>1. conns[x.conn].tokens \ {x.token} \in SUBSET TokenType
      BY <1>2, <1>9, HeldIsLive DEF Conn
    <2>2. QED  BY <1>2, <1>9, <1>10, <2>1, TokensSet DEF DaemonInv
  <1>12. drafts'[id].draft.fields = drafts[id].draft.fields
    <2> DEFINE d == drafts[id].draft
               n == [d EXCEPT !.check = Complete(d.check, x.token, verdict)]
    <2>1. id \in DOMAIN drafts /\ drafts[id] \in EntryType /\ d \in DraftType
      BY <1>2, <1>5, <1>9, HeldIsLive
    <2>2. UNCHANGED drafts \/ Update(id, n)  BY <1>6 DEF HandleCompleteCheck
    <2>3. n.fields = d.fields  BY <2>1 DEF DraftType
    <2> HIDE DEF n, d
    <2>4. Update(id, n) => drafts'[id].draft = n  BY <2>1 DEF Update, EntryType
    <2>5. QED  BY <2>2, <2>3, <2>4 DEF d
  <1>13. PICK y : y = [Done(w) EXCEPT !.token = NoValue] /\ Set(w, y)
    BY DEF CompleteFolderCheck
  <1>14. /\ y \in WindowType /\ y.todo = <<"draft">> /\ y.state = x.state /\ y.wired = x.wired
         /\ y.conn = x.conn /\ y.shown = x.shown /\ y.blob = x.blob /\ y.pane = x.pane
         /\ y.target = id
    <2>1. x.todo # <<>>  BY <1>2
    <2>2. /\ Done(w) \in WindowType /\ Done(w).todo = Tail(x.todo) /\ Done(w).conn = x.conn
          /\ Done(w).state = x.state /\ Done(w).wired = x.wired /\ Done(w).shown = x.shown
          /\ Done(w).pane = x.pane /\ Done(w).blob = x.blob
          /\ Tail(x.todo) # <<>> => Done(w).target = x.target
      BY <1>1, <2>1, DoneIs
    <2>3. Tail(x.todo) # <<>>  BY <1>3
    <2>4. QED  BY <1>3, <1>4, <1>13, <2>2, <2>3 DEF WindowType, Option
  <1>15. PaneOK(y)'  BY <1>2, <1>3, <1>8, <1>9, <1>10, <1>14, PaneKept, TodosAre
  <1>16. TargetOK(y)'  BY <1>5, <1>11, <1>14, TodosAre DEF TargetOK
  <1>17. ShownOK(y)'  BY <1>5, <1>11, <1>14, TodosAre DEF ShownOK
  <1>18. StashedOK(y)'
    <2>1. Stashed(x, id)  BY <1>2, <1>3, <1>4, TodosAre DEF StashedOK
    <2>2. Stashed(y, id)'  BY <1>12, <1>14, <2>1, StashedKept
    <2>3. QED  BY <1>5, <1>14, <2>2 DEF StashedOK
  <1>19. JudgedOK(y)'  BY <1>14, TodosAre DEF JudgedOK
  <1>20. y.todo # <<"wire", "canonical", "restore">>  BY <1>14
  <1>21. /\ y \in WindowType /\ y.conn = x.conn /\ y.state = x.state /\ y.wired = x.wired
         /\ y.blob \in {x.blob, NoValue} /\ x.wired
    BY <1>2, <1>14
  <1>22. Set(w, y)  BY <1>13
  <1>23. QED
    BY <1>1, <1>8, <1>15, <1>16, <1>17, <1>18, <1>19, <1>20, <1>21, <1>22, HandlerStep

\* A submit is refused: the daemon is as it was, and the draft is fetched.
LEMMA SubmitDraftRefusedKeeps ==
  ASSUME WindowInv, NEW w \in Windows, Ready(w), windows[w].shown # NoValue,
         SubmitDraftRefused(w, windows[w].shown.id)
  PROVE  WindowInv'
  <1>1. PICK x : x = windows[w]  OBVIOUS
  <1>2. /\ WindowOK(x) /\ x \in WindowType /\ x.wired
        /\ x.conn \in DOMAIN conns /\ x.todo = <<>> /\ PaneOK(x) /\ ShownOK(x) /\ StashedOK(x)
        /\ x.shown # NoValue
    BY <1>1, ReadyIs
  <1>3. PICK id : id = x.shown.id  OBVIOUS
  <1>4. id \in conns[x.conn].drafts /\ id \in Nat
    BY <1>2, <1>3, HeldTypes DEF ShownOK
  <1>5. PICK todo \in Todos : todo = <<"draft">>  BY DEF Todos
  <1> DEFINE y == [x EXCEPT !.target = id, !.todo = todo]
  <1>6. Set(w, y) /\ UNCHANGED daemonVars
    BY <1>1, <1>3, <1>5 DEF SubmitDraftRefused, SubmitRefused, Then, daemonVars
  <1>7. /\ y \in WindowType /\ y.todo = <<"draft">> /\ y.conn = x.conn
        /\ y.state = x.state /\ y.wired = x.wired /\ y.shown = x.shown /\ y.blob = x.blob
        /\ y.pane = x.pane /\ y.target = id
    BY <1>2, <1>4, <1>5 DEF WindowType, Option
  <1> HIDE DEF y
  <1>8. PaneOK(y)  BY <1>2, <1>7, TodosAre DEF PaneOK
  <1>9. ShownOK(y) /\ TargetOK(y)
    <2>1. TargetOK(y)  BY <1>3, <1>4, <1>7, TodosAre DEF TargetOK
    <2>2. ShownOK(y)  BY <1>3, <1>4, <1>7, TodosAre DEF ShownOK
    <2>3. QED  BY <2>1, <2>2
  <1>10. StashedOK(y)
    <2>1. Stashed(x, id)  BY <1>2, <1>3, TodosAre DEF StashedOK
    <2>2. Stashed(y, id)  BY <1>7, <2>1 DEF Stashed
    <2>3. QED  BY <1>3, <1>7, <2>2 DEF StashedOK
  <1>11. JudgedOK(y)  BY <1>7, TodosAre DEF JudgedOK
  <1>12. BlobOK(y)  BY <1>2, <1>7 DEF WindowOK, BlobOK
  <1>13. y.todo # <<"wire", "canonical", "restore">>  BY <1>7
  <1>14. WindowOK(y)  BY <1>2, <1>7, <1>8, <1>9, <1>10, <1>11, <1>12, <1>13, GoesOn
  <1>15. QED  BY <1>1, <1>6, <1>7, <1>14, QuietStep

\* A submit goes through: the draft is gone, and canonical is fetched.
LEMMA SubmitDraftKeeps ==
  ASSUME WindowInv, NEW w \in Windows, Ready(w), windows[w].shown # NoValue,
         SubmitDraft(w, windows[w].shown.id)
  PROVE  WindowInv'
  <1>1. PICK x : x = windows[w]  OBVIOUS
  <1>2. WindowOK(x) /\ x \in WindowType /\ x.wired /\ ShownOK(x) /\ x.shown # NoValue
    BY <1>1, ReadyIs
  <1>3. HandleSubmit(x.conn, x.shown.id) /\ Handler(x.conn)
    BY <1>1, <1>2 DEF SubmitDraft, Handler, ShownOK
  <1>4. PICK todo \in Todos : todo = <<"canonical">>  BY DEF Todos
  <1> DEFINE y == [x EXCEPT !.shown = NoValue, !.blob = NoValue, !.todo = todo]
  <1>5. Set(w, y)  BY <1>1, <1>4 DEF SubmitDraft
  <1>6. /\ y \in WindowType /\ y.todo = <<"canonical">> /\ y.conn = x.conn
        /\ y.state = x.state /\ y.wired = x.wired /\ y.shown = NoValue /\ y.blob = NoValue
    BY <1>2, <1>4 DEF WindowType, Option
  <1> HIDE DEF y
  <1>7. PaneOK(y)'  BY <1>6, TodosAre DEF PaneOK
  <1>8. ShownOK(y)' /\ TargetOK(y)' /\ StashedOK(y)' /\ JudgedOK(y)'
    BY <1>6, TodosAre DEF ShownOK, TargetOK, StashedOK, JudgedOK
  <1>9. y.todo # <<"wire", "canonical", "restore">>  BY <1>6
  <1>10. QED  BY <1>1, <1>2, <1>3, <1>5, <1>6, <1>7, <1>8, <1>9, HandlerStep

\* The editor is closed, and its draft with it.
LEMMA CloseEditorKeeps ==
  ASSUME WindowInv, NEW w \in Windows, Ready(w), windows[w].shown # NoValue,
         CloseEditor(w, windows[w].shown.id)
  PROVE  WindowInv'
  <1>1. PICK x : x = windows[w]  OBVIOUS
  <1>2. /\ WindowOK(x) /\ x \in WindowType /\ x.wired /\ x.conn \in DOMAIN conns
        /\ x.todo = <<>> /\ PaneOK(x) /\ ShownOK(x) /\ x.shown # NoValue /\ DaemonInv
    BY <1>1, ReadyIs
  <1>3. HandleClose(x.conn, x.shown.id) /\ Handler(x.conn) /\ canonical' = canonical
    BY <1>1, <1>2 DEF CloseEditor, Handler, ShownOK, HandleClose, Close
  <1> DEFINE y == [x EXCEPT !.shown = NoValue, !.blob = NoValue]
  <1>4. Set(w, y)  BY <1>1 DEF CloseEditor
  <1>5. /\ y \in WindowType /\ y.todo = x.todo /\ y.conn = x.conn /\ y.pane = x.pane
        /\ y.state = x.state /\ y.wired = x.wired /\ y.shown = NoValue /\ y.blob = NoValue
    BY <1>2 DEF WindowType, Option
  <1> HIDE DEF y
  <1>6. y.todo = <<>>  BY <1>2, <1>5
  <1>7. PaneOK(y)'  BY <1>2, <1>3, <1>5, PaneKept
  <1>8. ShownOK(y)' /\ TargetOK(y)' /\ StashedOK(y)' /\ JudgedOK(y)'
    BY <1>5, <1>6, TodosAre DEF ShownOK, TargetOK, StashedOK, JudgedOK
  <1>9. y.todo # <<"wire", "canonical", "restore">>  BY <1>6
  <1>10. QED  BY <1>1, <1>2, <1>3, <1>4, <1>5, <1>7, <1>8, <1>9, HandlerStep

\* Settings are paused or resumed: canonical is fetched, and a draft of its own
\* that was rebased is announced to it like to anybody.
LEMMA TogglePausedKeeps ==
  ASSUME WindowInv, NEW w \in Windows, TogglePaused(w) PROVE WindowInv'
  <1>1. PICK x : x = windows[w]  OBVIOUS
  <1>2. /\ WindowOK(x) /\ x \in WindowType /\ x.wired /\ x.conn \in DOMAIN conns
        /\ x.todo = <<>> /\ DaemonInv
    BY <1>1, ReadyIs DEF TogglePaused
  <1>3. HandleTogglePaused(x.conn) /\ Handler(x.conn)  BY <1>1 DEF TogglePaused, Handler
  <1>4. Leaves(x.conn)
    <2>1. NoValue \notin conns[x.conn].drafts
      BY <1>2, HeldIsLive, SyncdAssumption
    <2>2. Changes(x.conn, NoValue)  BY <1>2, <1>3, ToggleShape
    <2>3. QED  BY <1>2, <1>3, <2>1, <2>2, ChangesLeaves
  <1>5. WindowOK(x)'  BY <1>2, <1>3, <1>4, HandlerKeeps, OthersKeep
  <1>6. x.conn \in DOMAIN conns'  BY <1>2, <1>3, HandlerSays
  <1>7. ShownOK(x)' /\ StashedOK(x)' /\ JudgedOK(x)'
    BY <1>2, <1>5, <1>6 DEF WindowOK
  <1>8. PICK todo \in Todos : todo = <<"canonical">>  BY DEF Todos
  <1> DEFINE y == [x EXCEPT !.target = NoValue, !.todo = todo]
  <1>9. Set(w, y)  BY <1>1, <1>8 DEF TogglePaused, Then
  <1>10. /\ y \in WindowType /\ y.todo = <<"canonical">> /\ y.conn = x.conn
         /\ y.state = x.state /\ y.wired = x.wired /\ y.shown = x.shown /\ y.blob = x.blob
    BY <1>2, <1>8 DEF WindowType, Option
  <1> HIDE DEF y
  <1>11. PaneOK(y)' /\ TargetOK(y)'
    BY <1>10, TodosAre DEF PaneOK, TargetOK
  <1>12. ShownOK(y)'  BY <1>2, <1>7, <1>10, TodosAre DEF ShownOK
  <1>13. StashedOK(y)'
    <2>1. x.shown # NoValue => Stashed(x, x.shown.id)'
      BY <1>2, <1>7, TodosAre DEF StashedOK
    <2>2. x.shown # NoValue => Stashed(y, x.shown.id)'
      BY <1>10, <2>1 DEF Stashed
    <2>3. QED  BY <1>10, <2>2, TodosAre DEF StashedOK
  <1>14. JudgedOK(y)'  BY <1>2, <1>7, <1>10, TodosAre DEF JudgedOK
  <1>15. y.todo # <<"wire", "canonical", "restore">>  BY <1>10
  <1>16. QED
    BY <1>1, <1>2, <1>3, <1>9, <1>10, <1>11, <1>12, <1>13, <1>14, <1>15, HandlerStep

\* What is dirty in a restored field is what its stash held, when what the stash
\* holds can be typed again.
LEMMA UnstashKeepsText ==
  ASSUME NEW s \in FieldStashType,
         s.raw # NoValue /\ Sanitize[s.raw] \in accepts => Sanitize[s.raw] = s.raw,
         IsDirty(UnstashField(accepts, s)), accepts \in SUBSET Values
  PROVE  UnstashField(accepts, s).raw = s.raw
  <1> DEFINE p == IF s.base = NoValue THEN NoValue ELSE TryNew(accepts, s.base)
             x == IF p = NoValue THEN NewUnset ELSE FromBase(p)
  <1>1. UnstashField(accepts, s) = IF s.raw = NoValue THEN x ELSE TrySet(accepts, x, s.raw)
    BY DEF UnstashField
  <1>2. PICK z : z = x  OBVIOUS
  <1>3. ~IsDirty(z) /\ z.theirs = NoValue
    BY <1>2 DEF NewUnset, FromBase, IsDirty
  <1>4. z \in [validity : {"Unset", "Valid", "Invalid"}, raw : Option(Raws),
               theirs : Option(Values), base : Option(Values)]
    <2>1. p \in Option(Values)  BY DEF TryNew, Option
    <2> HIDE DEF p
    <2>2. QED  BY <1>2, <2>1 DEF NewUnset, FromBase, Option, Values
  <1>5. s.raw # NoValue  BY <1>1, <1>2, <1>3
  <1>6. UnstashField(accepts, s) = TrySet(accepts, z, s.raw)  BY <1>1, <1>2, <1>5
  <1> HIDE DEF x
  <1>7. CASE TryNew(accepts, s.raw) = NoValue
    <2>1. TrySet(accepts, z, s.raw) = [z EXCEPT !.validity = "Invalid", !.raw = s.raw]
      BY <1>7 DEF TrySet
    <2>2. QED  BY <1>4, <1>6, <2>1
  <1>8. CASE TryNew(accepts, s.raw) # NoValue
    <2>1. TryNew(accepts, s.raw) = s.raw  BY <1>5, <1>8 DEF TryNew
    <2>2. TrySet(accepts, z, s.raw) = [z EXCEPT !.validity = "Valid", !.raw = s.raw]
      BY <1>3, <1>5, <2>1 DEF TrySet
    <2>3. QED  BY <1>4, <1>6, <2>2
  <1>9. QED  BY <1>7, <1>8

\* A restored draft's dirty text is in the stash it came from.
LEMMA RestoredIsStashed ==
  ASSUME DaemonInv, NEW blob \in StashType, Adopt(FromStash(accepts, blob)),
         \A f \in Fields : LET r == blob.fields[f].raw
                           IN  r # NoValue /\ Sanitize[r] \in accepts => Sanitize[r] = r,
         NEW f \in Fields, IsDirty(drafts'[nextId].draft.fields[f])
  PROVE  blob.fields[f].raw = drafts'[nextId].draft.fields[f].raw
  <1> DEFINE d == FromStash(accepts, blob)
             e == AdoptedEntry(d).draft
  <1>1. TypeOK /\ version \in Nat /\ accepts \in SUBSET Values
    BY DEF DaemonInv, StoreInv, IInv, TypeOK
  <1>2. d \in DraftType  BY <1>1, RestoredDraft
  <1>3. drafts'[nextId].draft = e  BY DEF Adopt, Put
  <1>4. d.fields[f] = UnstashField(accepts, blob.fields[f])  BY DEF FromStash
  <1>5. blob.fields[f] \in FieldStashType  BY DEF StashType
  <1>6. IsDirty(d.fields[f]) => d.fields[f].raw = blob.fields[f].raw
    BY <1>1, <1>4, <1>5, UnstashKeepsText
  <1>7. e = d \/ e = Orphan(d) \/ (canonical # NoValue /\ e = RebaseDraft(d, canonical, version))
    BY DEF AdoptedEntry
  <1> HIDE DEF d, e
  <1>8. Orphan(d).fields = d.fields  BY <1>2 DEF Orphan, DraftType
  <1>9. CASE canonical # NoValue /\ e = RebaseDraft(d, canonical, version)
    <2>1. canonical \in [Fields -> Values]
      BY <1>1, <1>9, CanonicalType DEF TypeOK
    <2>2. QED  BY <1>1, <1>2, <1>3, <1>6, <1>9, <2>1, RebasedStaysTyped
  <1>10. QED  BY <1>3, <1>6, <1>7, <1>8, <1>9

\* The stash is restored: it is still the window's, for the draft it became.
LEMMA RestoreBlobKeeps ==
  ASSUME WindowInv, NEW w \in Windows, RestoreBlob(w) PROVE WindowInv'
  <1>1. PICK x : x = windows[w]  OBVIOUS
  <1>2. /\ WindowOK(x) /\ x \in WindowType /\ x.wired
        /\ x.conn \in DOMAIN conns /\ x.todo # <<>> /\ Head(x.todo) = "restore"
        /\ PaneOK(x) /\ TargetOK(x)
    BY <1>1, TodoIs DEF RestoreBlob
  <1>3. x.todo = <<"restore">>
    BY <1>2, TodoHeads DEF WindowType
  <1>4. x.shown = NoValue  BY <1>2, <1>3, TodosAre DEF TargetOK
  <1>5. PICK blob \in StashType : blob = x.blob
    BY <1>1, <1>2 DEF RestoreBlob, WindowType, Option
  <1>6. HandleRestore(x.conn, blob) /\ Handler(x.conn)
    BY <1>1, <1>5 DEF RestoreBlob, Handler
  <1>7. DaemonInv  BY DEF WindowInv
  <1>8. Adopt(FromStash(accepts, blob)) /\ Register(x.conn, nextId) /\ canonical' = canonical
    BY <1>6 DEF HandleRestore, Adopt
  <1>9. PICK id : id = nextId  OBVIOUS
  <1>10. id \in Nat /\ id \in conns'[x.conn].drafts  BY <1>2, <1>7, <1>8, <1>9, RegisterHolds
  <1>11. PICK todo \in Todos : todo = <<"draft">>  BY DEF Todos
  <1> DEFINE y == [x EXCEPT !.target = id, !.todo = todo]
  <1>12. Set(w, y)  BY <1>1, <1>9, <1>11 DEF RestoreBlob, Then
  <1>13. /\ y \in WindowType /\ y.todo = <<"draft">> /\ y.conn = x.conn /\ y.target = id
         /\ y.state = x.state /\ y.wired = x.wired /\ y.shown = NoValue /\ y.blob = blob
         /\ y.pane = x.pane
    BY <1>2, <1>4, <1>5, <1>10, <1>11 DEF WindowType, Option
  <1> HIDE DEF y
  <1>14. PaneOK(y)'  BY <1>2, <1>3, <1>6, <1>7, <1>8, <1>13, PaneKept, TodosAre
  <1>15. ShownOK(y)' /\ JudgedOK(y)'  BY <1>13 DEF ShownOK, JudgedOK
  <1>16. TargetOK(y)'  BY <1>10, <1>13, TodosAre DEF TargetOK
  <1>17. StashedOK(y)'
    <2>1. \A f \in Fields : LET r == blob.fields[f].raw
                            IN  r # NoValue /\ Sanitize[r] \in accepts => Sanitize[r] = r
      <3>1. blob # NoValue  BY SyncdAssumption
      <3>2. QED  BY <1>2, <1>5, <3>1 DEF WindowOK, BlobOK
    <2>2. \A f \in Fields : IsDirty(drafts'[id].draft.fields[f]) =>
                              blob.fields[f].raw = drafts'[id].draft.fields[f].raw
      BY <1>7, <1>8, <1>9, <2>1, RestoredIsStashed
    <2>3. blob # NoValue  BY SyncdAssumption
    <2>4. Stashed(y, id)'  BY <1>13, <2>2, <2>3 DEF Stashed
    <2>5. QED  BY <1>13, <2>4 DEF StashedOK
  <1>18. y.todo # <<"wire", "canonical", "restore">>  BY <1>13
  <1>19. y.blob \in {x.blob, NoValue}  BY <1>5, <1>13
  <1>20. QED
    BY <1>1, <1>2, <1>6, <1>12, <1>13, <1>14, <1>15, <1>16, <1>17, <1>18, <1>19, HandlerStep

-----------------------------------------------------------------------------
(* Ticks, and connections that come and go *)

\* A tick is read; every other tick is still on its way.
LEMMA TickRead ==
  ASSUME WindowInv, NEW w \in Windows, NEW x, x = windows[w], x.conn \in DOMAIN conns,
         sockets[x.conn] # <<>>,
         sockets' = [sockets EXCEPT ![x.conn] = Tail(@)],
         UNCHANGED <<vars, conns, nextConn, peers>>
  PROVE  /\ DaemonInv'
         /\ \A v \in Windows \ {w} : Leaves(windows[v].conn)
         /\ Head(sockets[x.conn]) \in Tick
         /\ \A t : Coming(x.conn, t) /\ t # Head(sockets[x.conn]) => Coming(x.conn, t)'
  <1>1. DaemonInv /\ WiresOK  BY DEF WindowInv, DaemonInv
  <1>2. PICK q \in Seq(Tick) : q = sockets[x.conn]  BY <1>1 DEF WiresOK
  <1>3. q # <<>>  BY <1>2
  <1>4. Head(q) \in Tick /\ Tail(q) \in Seq(Tick)  BY <1>3
  <1>5. sockets' = [sockets EXCEPT ![x.conn] = Tail(q)]  BY <1>2
  <1>6. /\ sockets' \in [DOMAIN conns -> Seq(Tick)]
        /\ sockets'[x.conn] = Tail(q)
        /\ \A c \in DOMAIN conns : c # x.conn => sockets'[c] = sockets[c]
    <2>1. PICK Q : Q = Seq(Tick)  OBVIOUS
    <2>2. PICK rest \in Q : rest = Tail(q)  BY <1>4, <2>1
    <2>3. sockets' = [sockets EXCEPT ![x.conn] = rest]  BY <1>5, <2>2
    <2>4. sockets \in [DOMAIN conns -> Q]  BY <1>1, <2>1 DEF WiresOK
    <2>5. PICK D : D = DOMAIN conns  OBVIOUS
    <2>6. PICK k \in D : k = x.conn  BY <2>5
    <2>7. sockets \in [D -> Q] /\ sockets' = [sockets EXCEPT ![k] = rest]
      BY <2>3, <2>4, <2>5, <2>6
    <2>8. sockets' \in [D -> Q]  BY <2>2, <2>6, <2>7
    <2>9. sockets'[k] = rest  BY <2>6, <2>7
    <2>10. \A c \in D : c # k => sockets'[c] = sockets[c]  BY <2>7
    <2>11. QED  BY <2>1, <2>2, <2>5, <2>6, <2>8, <2>9, <2>10
  <1>7. DaemonInv'  BY <1>1, <1>6, WireStepKeeps DEF WiresOK
  <1>8. \A v \in Windows \ {w} : Leaves(windows[v].conn)
    <2>1. \A v \in Windows \ {w} : windows[v].conn # x.conn
      <3>1. x.conn # NoValue  BY <1>1, SyncdAssumption DEF WiresOK
      <3>2. QED  BY <3>1 DEF WindowInv, WindowsApart
    <2>2. nextConn \in Nat  BY <1>1 DEF WiresOK
    <2>3. QED  BY <1>6, <2>1, <2>2, WireStepLeaves
  <1>9. ASSUME NEW t, Coming(x.conn, t), t # Head(q) PROVE Coming(x.conn, t)'
    <2>1. CASE \E i \in DOMAIN q : q[i] = t
      <3>1. PICK i \in 1..Len(q) : q[i] = t  BY <2>1
      <3>2. i # 1  BY <1>3, <1>9, <3>1
      <3>3. /\ i - 1 \in 1..Len(Tail(q)) /\ Tail(q)[i - 1] = t
            /\ DOMAIN Tail(q) = 1..Len(Tail(q))
        BY <1>3, <1>4, <3>1, <3>2
      <3>4. QED  BY <1>6, <3>3 DEF Coming
    <2>2. QED  BY <1>2, <1>9, <2>1 DEF Coming
  <1>10. QED  BY <1>2, <1>4, <1>7, <1>8, <1>9

\* The invariant, of a window that becomes y when a tick is read.
LEMMA TickStep ==
  ASSUME WindowInv, NEW w \in Windows, NEW x, x = windows[w], x.conn \in DOMAIN conns,
         sockets[x.conn] # <<>>,
         sockets' = [sockets EXCEPT ![x.conn] = Tail(@)],
         UNCHANGED <<vars, conns, nextConn, peers>>,
         NEW y \in WindowType, Set(w, y), y.conn = x.conn, y.state = x.state,
         y.wired = x.wired, y.blob = x.blob, y.shown = x.shown,
         IF y.wired
         THEN /\ y.todo # <<"wire", "canonical", "restore">>
              /\ PaneOK(y)' /\ ShownOK(y)' /\ TargetOK(y)' /\ StashedOK(y)' /\ JudgedOK(y)'
         ELSE y.todo = x.todo
  PROVE  WindowInv'
  <1>1. WindowOK(x)  BY DEF WindowInv
  <1>2. DaemonInv' /\ \A v \in Windows \ {w} : Leaves(windows[v].conn)
    BY TickRead
  <1>3. WindowsConn(y.conn)' /\ BlobOK(y)'
    BY <1>1 DEF WindowOK, WindowsConn, BlobOK, vars
  <1>4. WindowOK(y)'  BY <1>1, <1>3 DEF WindowOK
  <1>5. \A v \in Windows \ {w} : y.conn # NoValue => y.conn # windows[v].conn
    BY DEF WindowInv, WindowsApart
  <1>6. QED  BY <1>2, <1>4, <1>5, WindowStep

\* Nobody listens yet: the window has still everything to fetch.
LEMMA DropTickKeeps ==
  ASSUME WindowInv, NEW w \in Windows, DropTick(w) PROVE WindowInv'
  <1>1. PICK x : x = windows[w]  OBVIOUS
  <1>2. x \in WindowType /\ ~x.wired /\ x.conn \in DOMAIN conns /\ sockets[x.conn] # <<>>
    BY <1>1 DEF WindowInv, WindowOK, DropTick, Broken
  <1>3. /\ sockets' = [sockets EXCEPT ![x.conn] = Tail(@)]
        /\ UNCHANGED <<vars, conns, nextConn, peers>>
    BY <1>1 DEF DropTick
  <1>4. Set(w, x)
    <2>1. windows' = windows /\ windows = [v \in Windows |-> windows[v]]
      BY DEF DropTick, WindowInv
    <2>2. [windows EXCEPT ![w] = windows[w]] = windows  BY <2>1
    <2>3. QED  BY <1>1, <2>1, <2>2 DEF Set
  <1>5. QED  BY <1>1, <1>2, <1>3, <1>4, TickStep

\* Tick, then fetch: what the tick was a reason for is now on the list.
LEMMA HandlePushKeeps ==
  ASSUME WindowInv, NEW w \in Windows, HandlePush(w) PROVE WindowInv'
  <1>1. PICK x : x = windows[w]  OBVIOUS
  <1>2. /\ WindowOK(x) /\ x \in WindowType /\ x.wired /\ x.conn \in DOMAIN conns
        /\ x.todo = <<>> /\ PaneOK(x) /\ ShownOK(x) /\ TargetOK(x) /\ StashedOK(x) /\ JudgedOK(x)
    BY <1>1, ReadyIs DEF HandlePush
  <1>3. /\ sockets[x.conn] # <<>> /\ sockets' = [sockets EXCEPT ![x.conn] = Tail(@)]
        /\ UNCHANGED <<vars, conns, nextConn, peers>>
    BY <1>1 DEF HandlePush
  <1>4. PICK head \in Tick : head = Head(sockets[x.conn])
    BY <1>1, <1>2, <1>3, TickRead
  <1>5. \A t : Coming(x.conn, t) /\ t # head => Coming(x.conn, t)'
    BY <1>1, <1>2, <1>3, <1>4, TickRead
  <1>6. /\ canonical' = canonical /\ drafts' = drafts /\ conns' = conns /\ accepts' = accepts
    BY <1>3 DEF vars
  <1>7. CASE head.draft = NoValue
    <2>1. RebasedComing(x.conn) => RebasedComing(x.conn)'
      BY <1>5, <1>7 DEF RebasedComing
    <2>2. PICK todo \in Todos : todo = <<"canonical">>  BY DEF Todos
    <2> DEFINE y == [x EXCEPT !.target = NoValue, !.todo = todo]
    <2>3. Set(w, y)
      <3>1. Then(w, NoValue, <<"canonical">>)  BY <1>1, <1>4, <1>7 DEF HandlePush
      <3>2. QED  BY <1>1, <2>2, <3>1 DEF Then
    <2>4. /\ y \in WindowType /\ y.todo = <<"canonical">> /\ y.conn = x.conn
          /\ y.state = x.state /\ y.wired = x.wired /\ y.shown = x.shown /\ y.blob = x.blob
      BY <1>2, <2>2 DEF WindowType, Option
    <2> HIDE DEF y
    <2>5. PaneOK(y)' /\ TargetOK(y)'  BY <2>4, TodosAre DEF PaneOK, TargetOK
    <2>6. ShownOK(y)'  BY <1>2, <1>6, <2>1, <2>4, TodosAre DEF ShownOK
    <2>7. StashedOK(y)'
      <3>1. x.shown # NoValue => Stashed(x, x.shown.id)  BY <1>2, TodosAre DEF StashedOK
      <3>2. x.shown # NoValue => Stashed(y, x.shown.id)'
        BY <1>6, <2>4, <3>1 DEF Stashed
      <3>3. QED  BY <2>4, <3>2, TodosAre DEF StashedOK
    <2>8. JudgedOK(y)'  BY <1>2, <1>6, <2>4, TodosAre DEF JudgedOK
    <2>9. y.todo # <<"wire", "canonical", "restore">>  BY <2>4
    <2>10. QED
      BY <1>1, <1>2, <1>3, <2>3, <2>4, <2>5, <2>6, <2>7, <2>8, <2>9, TickStep
  <1>8. CASE head.draft # NoValue
    <2>1. CanonicalComing(x.conn) => CanonicalComing(x.conn)'
      BY <1>5, <1>8 DEF CanonicalComing
    <2>2. CASE x.shown # NoValue
      <3>1. PICK id : id = x.shown.id  OBVIOUS
      <3>2. id \in conns[x.conn].drafts /\ id \in Nat
        BY <1>2, <2>2, <3>1, HeldTypes DEF ShownOK
      <3>3. PICK todo \in Todos : todo = <<"draft", "stash">>  BY DEF Todos
      <3> DEFINE y == [x EXCEPT !.target = id, !.todo = todo]
      <3>4. Set(w, y)
        <4>1. Then(w, id, <<"draft", "stash">>)
          BY <1>1, <1>4, <1>8, <2>2, <3>1 DEF HandlePush
        <4>2. QED  BY <1>1, <3>3, <4>1 DEF Then
      <3>5. /\ y \in WindowType /\ y.todo = <<"draft", "stash">> /\ y.conn = x.conn
            /\ y.state = x.state /\ y.wired = x.wired /\ y.shown = x.shown /\ y.blob = x.blob
            /\ y.pane = x.pane /\ y.target = id
        BY <1>2, <3>2, <3>3 DEF WindowType, Option
      <3> HIDE DEF y
      <3>6. PaneOK(y)'  BY <1>2, <1>6, <2>1, <3>5, TodosAre DEF PaneOK
      <3>7. ShownOK(y)'  BY <1>6, <3>1, <3>2, <3>5, TodosAre DEF ShownOK
      <3>8. TargetOK(y)'  BY <1>6, <3>1, <3>2, <3>5, TodosAre DEF TargetOK
      <3>9. StashedOK(y)' /\ JudgedOK(y)'  BY <3>5, TodosAre DEF StashedOK, JudgedOK
      <3>10. y.todo # <<"wire", "canonical", "restore">>  BY <3>5
      <3>11. QED
        BY <1>1, <1>2, <1>3, <3>4, <3>5, <3>6, <3>7, <3>8, <3>9, <3>10, TickStep
    <2>3. CASE x.shown = NoValue
      <3>1. Set(w, x)
        <4>1. windows' = windows /\ windows = [v \in Windows |-> windows[v]]
          BY <1>1, <1>4, <1>8, <2>3 DEF HandlePush, WindowInv
        <4>2. [windows EXCEPT ![w] = windows[w]] = windows  BY <4>1
        <4>3. QED  BY <1>1, <4>1, <4>2 DEF Set
      <3>2. PaneOK(x)'  BY <1>2, <1>6, <2>1, TodosAre DEF PaneOK
      <3>3. ShownOK(x)' /\ TargetOK(x)' /\ StashedOK(x)' /\ JudgedOK(x)'
        BY <1>2, <2>3, TodosAre DEF ShownOK, TargetOK, StashedOK, JudgedOK
      <3>4. x.todo # <<"wire", "canonical", "restore">>  BY <1>2
      <3>5. QED  BY <1>1, <1>2, <1>3, <3>1, <3>2, <3>3, <3>4, TickStep
    <2>4. QED  BY <2>2, <2>3
  <1>9. QED  BY <1>7, <1>8

\* A window connects, under a number nobody had.
LEMMA ConnectKeeps ==
  ASSUME WindowInv, NEW w \in Windows, Connect(w) PROVE WindowInv'
  <1>1. PICK x : x = windows[w]  OBVIOUS
  <1>2. WindowOK(x) /\ x \in WindowType /\ x.shown = NoValue /\ DaemonInv /\ WiresOK
    BY <1>1 DEF WindowInv, WindowOK, Connect, DaemonInv
  <1>3. Accept("window") /\ "window" \in Peers  BY DEF Connect, Peers
  <1>4. DaemonInv'  BY <1>2, <1>3, AcceptKeeps
  <1>5. \A v \in Windows \ {w} : Leaves(windows[v].conn)
    BY <1>2, <1>3, AcceptLeaves DEF WindowInv, WindowOK
  <1>6. PICK c \in Nat : c = nextConn  BY <1>2 DEF WiresOK
  <1>7. PICK todo \in Todos : todo = <<"wire", "canonical", "restore">>  BY DEF Todos
  <1> DEFINE y == [x EXCEPT !.conn = c, !.wired = FALSE, !.eof = "none", !.todo = todo]
  <1>8. Set(w, y)  BY <1>1, <1>6, <1>7 DEF Connect, ConnectSteps
  <1>9. /\ y \in WindowType /\ y.todo = <<"wire", "canonical", "restore">> /\ y.conn = c
        /\ y.state = x.state /\ ~y.wired /\ y.shown = NoValue /\ y.blob = x.blob
    BY <1>2, <1>6, <1>7 DEF WindowType, Option
  <1> HIDE DEF y
  <1>10. x.state # "connected"  BY <1>1 DEF Connect
  <1>11. WindowsConn(c)' /\ accepts' = accepts
    BY <1>3, <1>6 DEF Accept, WindowsConn, vars
  <1>12. BlobOK(y)'  BY <1>2, <1>9, <1>11 DEF WindowOK, BlobOK
  <1>13. WindowOK(y)'  BY <1>9, <1>10, <1>11, <1>12 DEF WindowOK
  <1>14. \A v \in Windows \ {w} : y.conn # windows[v].conn
    <2>1. \A v \in Windows : WindowsConn(windows[v].conn)  BY DEF WindowInv, WindowOK
    <2>2. NoValue \notin Nat  BY SyncdAssumption
    <2>3. QED  BY <1>6, <1>9, <2>1, <2>2 DEF WindowsConn
  <1>15. QED  BY <1>4, <1>5, <1>8, <1>13, <1>14, WindowStep

\* A window is killed: nothing of it is left, and the daemon learns it later.
LEMMA KillKeeps ==
  ASSUME WindowInv, NEW w \in Windows, Kill(w) PROVE WindowInv'
  <1>1. PICK c : c = windows[w].conn  OBVIOUS
  <1>2. DaemonInv /\ WiresOK  BY DEF WindowInv, DaemonInv
  <1>3. /\ peers' = [d \in DOMAIN peers |-> IF d = c THEN "gone" ELSE peers[d]]
        /\ UNCHANGED <<vars, conns, nextConn, sockets>>
    BY <1>1 DEF Kill
  <1>4. peers' \in [DOMAIN conns -> Peers] /\ sockets' \in [DOMAIN conns -> Seq(Tick)]
    BY <1>2, <1>3 DEF WiresOK, Peers
  <1>5. DaemonInv'  BY <1>2, <1>3, <1>4, WireStepKeeps
  <1>6. \A v \in Windows \ {w} : Leaves(windows[v].conn)
    <2>1. ASSUME NEW v \in Windows \ {w} PROVE Leaves(windows[v].conn)
      <3>1. PICK d : d = windows[v].conn  OBVIOUS
      <3>2. d # NoValue => d # c  BY <1>1, <3>1 DEF WindowInv, WindowsApart
      <3>3. d \in DOMAIN conns => d # NoValue  BY <1>2, SyncdAssumption DEF WiresOK
      <3>4. d \in DOMAIN conns => peers'[d] = peers[d] /\ sockets'[d] = sockets[d]
        BY <1>2, <1>3, <3>2, <3>3 DEF WiresOK
      <3>5. nextConn \in Nat  BY <1>2 DEF WiresOK
      <3>6. QED  BY <1>3, <3>1, <3>4, <3>5, WireStepLeaves
    <2>2. QED  BY <2>1
  <1>7. PICK y : y = Closed  OBVIOUS
  <1>8. /\ y \in WindowType /\ y.todo = <<>> /\ y.conn = NoValue /\ y.state = "idle"
        /\ ~y.wired /\ y.shown = NoValue /\ y.blob = NoValue
    BY <1>7 DEF Closed, WindowType, Todos, Option
  <1>9. WindowOK(y)'
    <2>1. NoValue \notin DOMAIN conns'  BY <1>5, SyncdAssumption DEF DaemonInv, WiresOK
    <2>2. QED  BY <1>8, <2>1 DEF WindowOK, WindowsConn, BlobOK
  <1>10. Set(w, y)  BY <1>7 DEF Kill
  <1>11. QED  BY <1>5, <1>6, <1>8, <1>9, <1>10, WindowStep

-----------------------------------------------------------------------------
(* Every step *)

\* The invariant, of a step that is no window's.
LEMMA OthersStep ==
  ASSUME WindowInv, UNCHANGED windows, DaemonInv', \A w \in Windows : Leaves(windows[w].conn)
  PROVE  WindowInv'
  <1>1. ASSUME NEW w \in Windows PROVE WindowOK(windows[w])'
    <2>1. PICK x : x = windows[w]  OBVIOUS
    <2>2. WindowOK(x)'  BY <2>1, OthersKeep DEF WindowInv
    <2>3. QED  BY <2>1, <2>2
  <1>2. QED  BY <1>1 DEF WindowInv, WindowsApart

\* What the daemon and its other clients do.
LEMMA DaemonStepKeeps ==
  ASSUME WindowInv, SyncdNext, UNCHANGED windows PROVE WindowInv'
  <1>1. DaemonInv /\ WiresOK /\ nextConn \in Nat  BY DEF WindowInv, DaemonInv, WiresOK
  <1>2. \A w \in Windows : WindowsConn(windows[w].conn)  BY DEF WindowInv, WindowOK
  <1>3. CASE Accept("client")
    <2>1. "client" \in Peers  BY DEF Peers
    <2>2. QED  BY <1>1, <1>2, <1>3, <2>1, AcceptKeeps, AcceptLeaves, OthersStep
  <1>4. ASSUME NEW c \in DOMAIN conns, HangUp(c) PROVE WindowInv'
    <2>1. /\ UNCHANGED <<vars, conns, nextConn, sockets>>
          /\ peers[c] = "client" /\ peers' = [peers EXCEPT ![c] = "gone"]
      BY <1>4 DEF HangUp
    <2>2. peers' \in [DOMAIN conns -> Peers] /\ sockets' \in [DOMAIN conns -> Seq(Tick)]
      BY <1>1, <2>1 DEF WiresOK, Peers
    <2>3. DaemonInv'  BY <1>1, <2>1, <2>2, WireStepKeeps
    <2>4. ASSUME NEW w \in Windows PROVE Leaves(windows[w].conn)
      <3>1. PICK d : d = windows[w].conn  OBVIOUS
      <3>2. d \in DOMAIN conns => peers'[d] = peers[d] /\ sockets'[d] = sockets[d]
        BY <1>1, <1>2, <2>1, <3>1 DEF WindowsConn, WiresOK
      <3>3. QED  BY <1>1, <2>1, <3>1, <3>2, WireStepLeaves
    <2>5. QED  BY <2>3, <2>4, OthersStep
  <1>5. ASSUME NEW c \in DOMAIN conns, Disconnect(c) PROVE WindowInv'
    BY <1>1, <1>2, <1>5, DisconnectKeeps, DisconnectLeaves, OthersStep
  <1>6. ASSUME NEW c \in DOMAIN conns, Flush(c) PROVE WindowInv'
    BY <1>1, <1>2, <1>6, FlushKeeps, FlushLeaves, OthersStep
  <1>7. ASSUME NEW c \in DOMAIN conns, Client(c) PROVE WindowInv'
    <2>1. Handler(c) /\ peers[c] = "client"  BY <1>7 DEF Client, Handler
    <2>2. DaemonInv' /\ DOMAIN conns' = DOMAIN conns /\ UNCHANGED <<accepts, nextConn>>
      BY <1>1, <2>1, HandlerKeeps, HandlerSays
    <2>3. ASSUME NEW w \in Windows PROVE Leaves(windows[w].conn)
      <3>1. PICK d : d = windows[w].conn  OBVIOUS
      <3>2. d \in DOMAIN conns => d # c  BY <1>2, <2>1, <3>1 DEF WindowsConn
      <3>3. CASE d \in DOMAIN conns  BY <1>1, <2>1, <3>1, <3>2, <3>3, HandlerLeaves
      <3>4. CASE d \notin DOMAIN conns  BY <1>1, <2>2, <3>1, <3>4 DEF Leaves
      <3>5. QED  BY <3>3, <3>4
    <2>4. QED  BY <2>2, <2>3, OthersStep
  <1>8. CASE Die
    BY <1>1, <1>8, DieKeeps, DieLeaves, OthersStep
  <1>9. QED  BY <1>3, <1>4, <1>5, <1>6, <1>7, <1>8 DEF SyncdNext

\* What the user does to the draft on show.
LEMMA OnDraftKeeps ==
  ASSUME WindowInv, NEW w \in Windows, OnDraft(w) PROVE WindowInv'
  BY EditKeeps, BeginFolderCheckKeeps, SubmitDraftKeeps, SubmitDraftRefusedKeeps, CloseEditorKeeps
     DEF OnDraft

\* The rest of an operation.
LEMMA ContinueKeeps ==
  ASSUME WindowInv, NEW w \in Windows, Continue(w) PROVE WindowInv'
  BY WireKeeps, RefetchCanonicalKeeps, RestoreBlobKeeps, NothingToRestoreKeeps, RefetchDraftKeeps,
     RefreshStashKeeps, CompleteFolderCheckKeeps, EndingKeeps, EndedKeeps
     DEF Continue

\* Every step preserves the invariant.
LEMMA WindowNextKeeps == WindowInv /\ [WindowNext]_windowVars => WindowInv'
  <1> SUFFICES ASSUME WindowInv, [WindowNext]_windowVars PROVE WindowInv'  OBVIOUS
  <1>1. CASE UNCHANGED windowVars
    <2>1. UNCHANGED <<vars, conns, nextConn, sockets, peers, windows>>
      BY <1>1 DEF windowVars, daemonVars
    <2>2. DaemonInv /\ WiresOK /\ nextConn \in Nat  BY DEF WindowInv, DaemonInv, WiresOK
    <2>3. sockets' \in [DOMAIN conns -> Seq(Tick)] /\ peers' \in [DOMAIN conns -> Peers]
      BY <2>1, <2>2 DEF WiresOK
    <2>4. DaemonInv'  BY <2>1, <2>2, <2>3, WireStepKeeps
    <2>5. \A w \in Windows : Leaves(windows[w].conn)  BY <2>1, <2>2, WireStepLeaves
    <2>6. QED  BY <2>1, <2>4, <2>5, OthersStep
  <1>2. CASE SyncdNext /\ UNCHANGED windows  BY <1>2, DaemonStepKeeps
  <1>3. ASSUME NEW w \in Windows,
               \/ Connect(w) \/ OpenEditor(w) \/ OnDraft(w) \/ TogglePaused(w)
               \/ DropTick(w) \/ HandlePush(w) \/ AnnounceEnd(w) \/ OnDisconnect(w)
               \/ Continue(w) \/ Kill(w)
        PROVE  WindowInv'
    BY <1>3, ConnectKeeps, OpenEditorKeeps, OnDraftKeeps, TogglePausedKeeps, DropTickKeeps,
       HandlePushKeeps, EndingKeeps, EndedKeeps, ContinueKeeps, KillKeeps
  <1>4. QED  BY <1>1, <1>2, <1>3 DEF WindowNext

\* At first nobody is connected.
LEMMA WindowInitially == WindowInit => WindowInv
  <1> SUFFICES ASSUME WindowInit PROVE WindowInv  OBVIOUS
  <1>1. /\ Init /\ DOMAIN drafts = {} /\ tokens = {}
        /\ conns = [c \in {} |-> NoValue] /\ sockets = conns /\ peers = conns /\ nextConn = 0
        /\ windows = [w \in Windows |-> Closed]
    BY DEF WindowInit, SyncdInit, Init, Empty
  <1>2. StoreInv  BY <1>1, InitInv DEF StoreInv, CInv, RInv
  <1>3. WiresOK /\ OwnedOneByOne /\ TokensAreApart
    BY <1>1 DEF WiresOK, OwnedOneByOne, TokensAreApart
  <1>4. PICK y : y = Closed  OBVIOUS
  <1>5. /\ y \in WindowType /\ y.todo = <<>> /\ y.conn = NoValue /\ y.state = "idle"
        /\ ~y.wired /\ y.shown = NoValue /\ y.blob = NoValue
    BY <1>4 DEF Closed, WindowType, Todos, Option
  <1>6. WindowOK(y)
    <2>1. NoValue \notin DOMAIN conns  BY <1>1
    <2>2. QED  BY <1>5, <2>1 DEF WindowOK, WindowsConn, BlobOK
  <1>7. \A w \in Windows : windows[w] = y  BY <1>1, <1>4
  <1>8. windows = [w \in Windows |-> windows[w]]  BY <1>1
  <1>9. \A w \in Windows : WindowOK(windows[w])  BY <1>6, <1>7
  <1>10. WindowsApart  BY <1>5, <1>7 DEF WindowsApart
  <1>11. QED  BY <1>2, <1>3, <1>8, <1>9, <1>10 DEF WindowInv, DaemonInv

\* The daemon's invariant and every window's.
LEMMA WindowInvariant == WindowSpec => []WindowInv
  BY WindowInitially, WindowNextKeeps, PTL DEF WindowSpec

-----------------------------------------------------------------------------
(* What they give *)

\* It is the property of the run.
LEMMA OwnedEither == DraftsAreOwned <=> OwnedOneByOne
  <1>1. DOMAIN drafts = UNION {conns[c].drafts : c \in DOMAIN conns}
        <=> \A id : id \in DOMAIN drafts <=> \E c \in DOMAIN conns : id \in conns[c].drafts
    <2> DEFINE D == DOMAIN drafts
               U == UNION {conns[c].drafts : c \in DOMAIN conns}
    <2>1. \A id : id \in U <=> \E c \in DOMAIN conns : id \in conns[c].drafts
      OBVIOUS
    <2> HIDE DEF D, U
    <2>2. D = U <=> \A id : id \in D <=> id \in U  OBVIOUS
    <2>3. QED  BY <2>1, <2>2 DEF D, U
  <1>2. tokens = UNION {conns[c].tokens : c \in DOMAIN conns}
        <=> \A t : t \in tokens <=> \E c \in DOMAIN conns : t \in conns[c].tokens
    OBVIOUS
  <1>3. (\A c, d \in DOMAIN conns : c # d => conns[c].drafts \cap conns[d].drafts = {})
        <=> \A c, d \in DOMAIN conns : \A id :
              id \in conns[c].drafts /\ id \in conns[d].drafts => c = d
    OBVIOUS
  <1>4. QED  BY <1>1, <1>2, <1>3 DEF DraftsAreOwned, OwnedOneByOne


\* Every variable of the daemon holds what its Rust type holds.
THEOREM DaemonTypes == WindowSpec => []SyncdTypeOK
  <1>1. WindowInv => SyncdTypeOK
    <2> SUFFICES ASSUME WindowInv PROVE SyncdTypeOK  OBVIOUS
    <2>1. TypeOK /\ WiresOK  BY DEF WindowInv, DaemonInv, StoreInv, IInv
    <2>2. QED  BY <2>1 DEF WiresOK, SyncdTypeOK
  <1>2. QED  BY <1>1, WindowInvariant, PTL

\* E2: nothing outlives the client that asked for it.
THEOREM EveryDraftIsOwned == WindowSpec => []DraftsAreOwned
  <1>1. WindowInv => DraftsAreOwned
    BY OwnedEither DEF WindowInv, DaemonInv
  <1>2. QED  BY <1>1, WindowInvariant, PTL

\* A settled window has nothing to wait for.
LEMMA SettledIs ==
  ASSUME WindowInv, NEW w \in Windows, Settled(w), NEW x, x = windows[w]
  PROVE  /\ x.todo = <<>> /\ x.conn \in DOMAIN conns
         /\ PaneOK(x) /\ ShownOK(x) /\ StashedOK(x)
         /\ ~CanonicalComing(x.conn) /\ ~RebasedComing(x.conn)
  <1>1. /\ x.todo = <<>> /\ x.conn \in DOMAIN conns /\ PaneOK(x) /\ ShownOK(x) /\ StashedOK(x)
    BY ReadyIs DEF Settled
  <1>2. ASSUME NEW t PROVE ~Coming(x.conn, t)
    <2>1. sockets[x.conn] = <<>>  BY DEF Settled
    <2>2. \A d \in DOMAIN conns : [to |-> x.conn, tick |-> t] \notin conns[d].emits
      BY DEF Settled
    <2>3. QED  BY <2>1, <2>2 DEF Coming
  <1>3. QED  BY <1>1, <1>2 DEF CanonicalComing, RebasedComing

\* U1, E1: in whatever order ticks, requests and deaths of the daemon come, a
\* window that has nothing left to fetch shows the daemon's canonical.
THEOREM ThePaneSettles == WindowSpec => []PaneSettles
  <1>1. WindowInv => PaneSettles
    <2> SUFFICES ASSUME WindowInv, NEW w \in Windows, Settled(w)
                 PROVE  windows[w].pane = canonical
      BY DEF PaneSettles
    <2>1. PICK x : x = windows[w]  OBVIOUS
    <2>2. x.todo = <<>> /\ PaneOK(x) /\ ~CanonicalComing(x.conn)  BY <2>1, SettledIs
    <2>3. QED  BY <2>1, <2>2, TodosAre DEF PaneOK
  <1>2. QED  BY <1>1, WindowInvariant, PTL

\* U3: ... and the draft it shows is the daemon's, and the window's own.
THEOREM TheShownDraftSettles == WindowSpec => []ShownDraftSettles
  <1>1. WindowInv => ShownDraftSettles
    <2> SUFFICES ASSUME WindowInv, NEW w \in Windows, Settled(w), windows[w].shown # NoValue
                 PROVE  /\ Owns(windows[w].conn, windows[w].shown.id)
                        /\ windows[w].shown.draft = drafts[windows[w].shown.id].draft
      BY DEF ShownDraftSettles
    <2>1. PICK x : x = windows[w]  OBVIOUS
    <2>2. x.todo = <<>> /\ ShownOK(x) /\ ~RebasedComing(x.conn)  BY <2>1, SettledIs
    <2>3. QED  BY <2>1, <2>2, TodosAre DEF ShownOK, Owns
  <1>2. QED  BY <1>1, WindowInvariant, PTL

\* U4: what the user had typed is in the window's stash whenever the daemon may
\* die on a settled window.
THEOREM TypedTextIsAlwaysStashed == WindowSpec => []TypedTextIsStashed
  <1>1. WindowInv => TypedTextIsStashed
    <2> SUFFICES ASSUME WindowInv, NEW w \in Windows, Settled(w), windows[w].shown # NoValue,
                        NEW f \in Fields,
                        IsDirty(drafts[windows[w].shown.id].draft.fields[f])
                 PROVE  /\ windows[w].blob # NoValue
                        /\ windows[w].blob.fields[f].raw =
                             drafts[windows[w].shown.id].draft.fields[f].raw
      BY DEF TypedTextIsStashed
    <2>1. PICK x : x = windows[w]  OBVIOUS
    <2>2. x.todo = <<>> /\ StashedOK(x)  BY <2>1, SettledIs
    <2>3. Stashed(x, x.shown.id)  BY <2>1, <2>2, TodosAre DEF StashedOK
    <2>4. QED  BY <2>1, <2>3 DEF Stashed
  <1>2. QED  BY <1>1, WindowInvariant, PTL

\* B2: as long as the core's draft holds what the user typed, the text the window
\* judges is the text the accepted verdict is recorded for.
THEOREM TypedTextIsJudged == WindowSpec => []JudgesTheTypedText
  <1>1. WindowInv => JudgesTheTypedText
    <2> SUFFICES ASSUME WindowInv, NEW w \in Windows, Todo(w, "complete"),
                        IsDirty(drafts[windows[w].target].draft.fields[Checked])
                 PROVE  windows[w].token.text = TextOf(windows[w].shown.draft)
      BY DEF JudgesTheTypedText
    <2>1. PICK x : x = windows[w]  OBVIOUS
    <2>2. /\ x \in WindowType /\ x.todo # <<>> /\ Head(x.todo) = "complete"
          /\ TargetOK(x) /\ JudgedOK(x)
      BY <2>1, TodoIs
    <2>3. x.todo = <<"complete", "draft">>  BY <2>2, TodoHeads DEF WindowType
    <2>4. Judges(x.todo) /\ FetchesDraft(x.todo)  BY <2>3, TodosAre
    <2>5. x.shown # NoValue /\ x.shown.id = x.target  BY <2>2, <2>4 DEF TargetOK
    <2>6. QED  BY <2>1, <2>2, <2>4, <2>5 DEF JudgedOK
  <1>2. QED  BY <1>1, WindowInvariant, PTL
=============================================================================
