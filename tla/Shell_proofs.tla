---------------------------- MODULE Shell_proofs ----------------------------
(***************************************************************************)
(* The shells over the store: what the echo rule promises, for any number  *)
(* of fields, texts, drafts, checks under way and undelivered snapshots.   *)
(***************************************************************************)
EXTENDS Shells, Store_proofs

\* What the shell shows is what it knows, but for the control typed into.
Follows == \A f \in Fields : ~(touched /\ focused = f) => buffers[f] = Known[f]

\* Nothing is to be repainted any more before the main thread is idle again.
Painted ==
  \/ MainIdle
  \/ main.at = "pushing" /\ main.then \notin {"edited", "resolved"}

\* The echo rule's variables, and the drafts the main thread holds.
EchoInv ==
  /\ kind \in Kinds
  /\ main.at \in {"launch", "idle", "pushing", "submitted"}
  /\ kind = "web" => main.at # "pushing"
  /\ buffers \in [Fields -> Option(Raws)]
  /\ control \in Option(Fields) /\ focused \in {control, NoValue}
  /\ touched \in BOOLEAN /\ (touched => focused # NoValue)
  /\ timers \subseteq Nat /\ editGen \in Nat
  /\ main.at = "launch" => ~touched
  /\ kind = "web" => /\ focused = control
                     /\ main.at = "submitted" => control = NoValue
  /\ Painted => Follows

\* The shell holds one draft at a time.
OneDraft ==
  /\ main.at = "launch" => (nextId = 0 /\ DOMAIN drafts = {})
  /\ main.at \in {"idle", "pushing"} => DOMAIN drafts = {draftId}
  /\ main.at = "submitted" => DOMAIN drafts = {}

\* A snapshot that was built from a draft before or now, and before the submit
\* of the draft that is gone.
Built(s) ==
  /\ s \in SnapshotType
  /\ s.version <= version
  /\ main.at = "submitted" => s.version < version

\* A thread of run_username_check: what it has yet to push, and its token.
CallOK(c) ==
  /\ c = [id |-> c.id, at |-> c.at, emit |-> c.emit, token |-> c.token, no |-> c.no]
  /\ c.at \in {"called", "pending", "outcall", "push"}
  /\ c.id \in Nat
  /\ c.at \in {"pending", "push"} => Built(c.emit)
  /\ c.at \in {"pending", "outcall"} => c.token \in tokens /\ c.token.id = c.id

CallsInv ==
  /\ \A c \in calls : CallOK(c)
  /\ \A c, d \in calls :
       /\ c.at \in {"pending", "outcall"} /\ d.at \in {"pending", "outcall"}
       /\ c.id = d.id
       => c = d

\* What is left of a phone's process can be restored over a canonical entity.
StashInv ==
  stash # NoValue =>
    /\ ~stash.orphaned
    /\ \A f \in Fields : stash.fields[f].base \in Option(accepts)
    /\ \E f \in Fields : stash.fields[f].base # NoValue

\* The subscribed stream carries snapshots of the draft the shell holds.
QueueOK ==
  /\ queue \in Seq(SnapshotType)
  /\ \A i \in 1..Len(queue) : queue[i].of = draftId /\ Built(queue[i])

\* What a phone shows, and what is on its way to it.
ScreenInv ==
  IF main.at = "launch"
  THEN screen = NoValue /\ queue = <<>> /\ inHand = NoValue /\ calls = {}
  ELSE /\ screen \in SnapshotType
       /\ screen.of = draftId /\ screen.version <= version
       /\ QueueOK
       /\ inHand # NoValue => /\ kind = "apple" /\ inHand \in SnapshotType
                              /\ inHand.version < screen.version
       /\ main.at = "pushing" => Built(main.emit)

\* A phone's drafts follow canonical, which nobody deletes.
Rebasing ==
  /\ canonical # NoValue
  /\ \A id \in DOMAIN drafts : Live(id) /\ drafts[id].rebases

PhoneInv == CInv /\ Rebasing /\ StashInv /\ ScreenInv /\ CallsInv

WebInv == screen = NoValue /\ queue = <<>> /\ inHand = NoValue /\ calls = {}

\* The inductive invariant.
ShellInv ==
  /\ IInv /\ OneDraft /\ EchoInv
  /\ IF kind = "web" THEN WebInv ELSE PhoneInv

-----------------------------------------------------------------------------
(* Snapshots, repaints and what follows *)

USE ShellAssumption, StoreAssumption, DraftAssumption, FieldAssumption

\* A snapshot of a draft says which draft it is of, and at which version.
LEMMA ViewIsSnapshot ==
  ASSUME NEW d \in DraftType, NEW id \in Nat
  PROVE  /\ View(id, d) \in SnapshotType
         /\ View(id, d).of = id /\ View(id, d).version = d.baseVersion
         /\ View(id, d).text = Texts(d)
         /\ Texts(d) \in [Fields -> Option(Raws)]
  <1>1. Texts(d) \in [Fields -> Option(Raws)]
    BY DEF Texts, DraftType, FieldType
  <1>2. d.baseVersion \in Nat  BY DEF DraftType
  <1> HIDE DEF Texts
  <1>3. QED  BY <1>1, <1>2 DEF View, SnapshotType

\* After a repaint every control shows the new text but the protected one, and
\* that one has been typed into.
LEMMA Repainted ==
  ASSUME NEW texts \in [Fields -> Option(Raws)], NEW force, NEW focus,
         buffers \in [Fields -> Option(Raws)], touched \in BOOLEAN,
         Repaint(focus, texts, force)
  PROVE  /\ buffers' \in [Fields -> Option(Raws)]
         /\ touched' \in BOOLEAN /\ (touched' => touched)
         /\ \A f \in Fields : ~(touched' /\ focus = f) => buffers'[f] = texts[f]
  <1>1. /\ buffers' = [f \in Fields |-> IF Keeps(focus, f, force) THEN buffers[f] ELSE texts[f]]
        /\ touched' = (touched /\ force # focus)
    BY DEF Repaint
  <1>2. ASSUME NEW f \in Fields, Keeps(focus, f, force)
        PROVE  touched /\ focus = f /\ force # focus
    BY <1>2 DEF Keeps
  <1>3. buffers' \in [Fields -> Option(Raws)]
    BY <1>1
  <1>4. ASSUME NEW f \in Fields, ~(touched' /\ focus = f)
        PROVE  buffers'[f] = texts[f]
    BY <1>1, <1>2, <1>4
  <1>5. QED  BY <1>1, <1>3, <1>4

\* A repaint that nothing forces leaves live keystrokes alone.
LEMMA RepaintSpares ==
  ASSUME NEW texts, EchoInv, touched, Repaint(focused, texts, NoValue)
  PROVE  buffers'[focused] = buffers[focused] /\ touched'
  <1>1. focused \in Fields /\ focused # NoValue
    BY DEF EchoInv, Option
  <1>2. Keeps(focused, focused, NoValue)
    BY <1>1 DEF Keeps
  <1>3. QED  BY <1>1, <1>2 DEF Repaint

-----------------------------------------------------------------------------
(* The beginning *)

\* A shell starts with a seeded store and an empty screen.
LEMMA ShellStarts == ShellInit => ShellInv
  <1> SUFFICES ASSUME ShellInit PROVE ShellInv  OBVIOUS
  <1>1. IInv  BY InitInv DEF ShellInit
  <1>2. main.at = "launch" /\ ~MainIdle
    BY DEF ShellInit, IdleMain, MainIdle
  <1>3. OneDraft
    BY <1>2 DEF ShellInit, Init, Empty, OneDraft
  <1>4. EchoInv
    <2>1. buffers \in [Fields -> Option(Raws)]  BY DEF ShellInit, Option
    <2>2. kind \in Kinds /\ control = NoValue /\ focused = NoValue /\ touched = FALSE
      BY DEF ShellInit
    <2>3. timers \subseteq Nat /\ editGen \in Nat  BY DEF ShellInit
    <2>4. ~Painted  BY <1>2 DEF Painted
    <2>5. QED  BY <1>2, <2>1, <2>2, <2>3, <2>4 DEF EchoInv, Option
  <1>5. screen = NoValue /\ queue = <<>> /\ inHand = NoValue /\ calls = {}
    BY DEF ShellInit
  <1>6. PhoneInv
    <2>1. CInv  BY DEF ShellInit, Init, CInv, Empty
    <2>2. canonical # NoValue
      BY DEF ShellInit
    <2>3. Rebasing  BY <1>2, <1>3, <2>2 DEF Rebasing, OneDraft
    <2>4. StashInv  BY DEF ShellInit, Init, StashInv
    <2>5. ScreenInv  BY <1>2, <1>5 DEF ScreenInv
    <2>6. CallsInv  BY <1>5 DEF CallsInv
    <2>7. QED  BY <2>1, <2>3, <2>4, <2>5, <2>6 DEF PhoneInv
  <1>7. WebInv  BY <1>5 DEF WebInv
  <1>8. QED  BY <1>1, <1>3, <1>4, <1>6, <1>7 DEF ShellInv

-----------------------------------------------------------------------------
(* A phone's drafts follow canonical *)

\* An edit or a check leaves the draft live and registered.
LEMMA UpdateRebasing ==
  ASSUME IInv, Rebasing, NEW id \in DOMAIN drafts, NEW d, Update(id, d),
         d.status = drafts[id].draft.status, canonical' = canonical
  PROVE  Rebasing' /\ DOMAIN drafts' = DOMAIN drafts
  <1> DEFINE e == [drafts[id] EXCEPT !.draft = d]
  <1>1. drafts' = [drafts EXCEPT ![id] = e]  BY DEF Update
  <1>2. drafts[id] \in EntryType /\ drafts[id].draft.status = "Live" /\ drafts[id].rebases
    BY DEF IInv, TypeOK, Rebasing, Live
  <1>3. e.draft.status = "Live" /\ e.rebases
    BY <1>2 DEF EntryType
  <1> HIDE DEF e
  <1>4. /\ DOMAIN drafts' = DOMAIN drafts
        /\ \A i \in DOMAIN drafts : drafts'[i] = IF i = id THEN e ELSE drafts[i]
    BY <1>1 DEF IInv, TypeOK
  <1>5. QED  BY <1>3, <1>4 DEF Rebasing, Live

\* A rebase changes no status.
LEMMA RebaseStatus ==
  ASSUME NEW d \in DraftType, NEW entity, NEW v
  PROVE  RebaseDraft(d, entity, v).status = d.status
  BY DEF RebaseDraft, Guarded, DraftType

\* So does a canonical change.
LEMMA ApplyRebasing ==
  ASSUME IInv, Rebasing, NEW S \in SUBSET DOMAIN drafts, NEW entity \in Entities(accepts),
         Apply([id \in S |-> drafts[id]], entity)
  PROVE  Rebasing' /\ DOMAIN drafts' = S
  <1> DEFINE r(id) == RebaseDraft(drafts[id].draft, entity, version + 1)
  <1>1. drafts' = [id \in S |-> [drafts[id] EXCEPT !.draft = r(id)]]
    BY DEF Apply, Rebased, Rebasing
  <1>2. entity \in [Fields -> Values] /\ entity # NoValue /\ version + 1 \in Nat
    BY CanonicalType, NoValueIsNoEntity DEF IInv, TypeOK
  <1>3. \A id \in S : /\ drafts[id] \in EntryType /\ drafts[id].draft \in DraftType
                      /\ drafts[id].draft.status = "Live" /\ drafts[id].rebases
    BY DEF IInv, TypeOK, Rebasing, Live, EntryType
  <1>4. \A id \in S : r(id).status = "Live"
    BY <1>3, RebaseStatus
  <1> HIDE DEF r
  <1>5. \A id \in S : drafts'[id].draft.status = "Live" /\ drafts'[id].rebases
    BY <1>1, <1>3, <1>4 DEF EntryType
  <1>6. DOMAIN drafts' = S /\ canonical' = entity  BY <1>1 DEF Apply
  <1>7. QED  BY <1>2, <1>5, <1>6 DEF Rebasing, Live

\* A draft that is opened with an ancestor is registered.
LEMMA OpenRebasing ==
  ASSUME IInv, Rebasing, NEW d \in DraftType, IsBased(d), d.status = "Live",
         drafts' = Put(nextId, AdoptedEntry(d)), canonical' = canonical
  PROVE  Rebasing' /\ DOMAIN drafts' = DOMAIN drafts \cup {nextId}
  <1> DEFINE r == RebaseDraft(d, canonical, version)
  <1>1. canonical \in [Fields -> Values] /\ version \in Nat /\ canonical # NoValue
    BY CanonicalType DEF IInv, TypeOK, Rebasing
  <1>2. r.status = "Live"  BY RebaseStatus
  <1>3. AdoptedEntry(d) = [draft |-> r, rebases |-> TRUE]
    BY <1>1 DEF AdoptedEntry
  <1> HIDE DEF r
  <1>4. drafts' = [i \in DOMAIN drafts \cup {nextId} |->
                     IF i = nextId THEN [draft |-> r, rebases |-> TRUE] ELSE drafts[i]]
    BY <1>3 DEF Put
  <1>5. QED  BY <1>1, <1>2, <1>4 DEF Rebasing, Live

\* So every draft of a phone carries the store's version, and a snapshot of it.
LEMMA AtVersion ==
  ASSUME IInv', Rebasing', NEW id \in DOMAIN drafts'
  PROVE  LET snap == View(id, drafts'[id].draft)
         IN  /\ snap \in SnapshotType /\ snap.of = id /\ snap.version = version'
             /\ snap.text \in [Fields -> Option(Raws)]
             /\ version' \in Nat
  <1>1. /\ drafts'[id].draft \in DraftType /\ id \in Nat /\ version' \in Nat
        /\ drafts'[id].draft.baseVersion = version'
    BY DEF IInv, TypeOK, EntryInv, EntryType, Rebasing, Live
  <1>2. QED  BY <1>1, ViewIsSnapshot

-----------------------------------------------------------------------------
(* What is on its way stays in order *)

\* Versions only grow, and a submit makes a new one.
Onward ==
  /\ version \in Nat /\ version' \in Nat /\ version <= version'
  /\ main'.at = "submitted" => version < version' \/ main.at = "submitted"

\* Built, in the next state.
BuiltStill(s) ==
  /\ s \in SnapshotType
  /\ s.version <= version'
  /\ main'.at = "submitted" => s.version < version'

\* What was built stays built.
LEMMA BuiltLater ==
  ASSUME Onward, NEW s, Built(s) PROVE BuiltStill(s)
  BY DEF Onward, Built, BuiltStill, SnapshotType

\* The stream, when nothing is pushed.
LEMMA QueueLater ==
  ASSUME Onward, QueueOK, queue' = queue, nextId' = nextId PROVE QueueOK'
  <1>1. \A i \in 1..Len(queue) : BuiltStill(queue[i])
    BY BuiltLater DEF QueueOK
  <1>2. QED  BY <1>1 DEF QueueOK, draftId, Built, BuiltStill

\* A push of what was built.
LEMMA QueueGrows ==
  ASSUME Onward, QueueOK, NEW s, Built(s), Enqueue(s), nextId' = nextId PROVE QueueOK'
  <1>1. BuiltStill(s) /\ \A i \in 1..Len(queue) : BuiltStill(queue[i])
    BY BuiltLater DEF QueueOK
  <1>2. s \in SnapshotType /\ draftId' = draftId  BY DEF Built, draftId
  <1>3. CASE s.of # draftId
    <2>1. queue' = queue  BY <1>3 DEF Enqueue
    <2>2. QED  BY <2>1, QueueLater
  <1>4. CASE s.of = draftId
    <2>1. queue' = Append(queue, s)  BY <1>4 DEF Enqueue
    <2>2. queue \in Seq(SnapshotType) /\ queue' \in Seq(SnapshotType)
      BY <1>2, <2>1 DEF QueueOK
    <2>3. /\ Len(queue') = Len(queue) + 1
          /\ \A i \in 1..Len(queue') : queue'[i] = IF i <= Len(queue) THEN queue[i] ELSE s
      BY <1>2, <2>1, <2>2
    <2>4. ASSUME NEW i \in 1..Len(queue')
          PROVE  queue'[i].of = draftId' /\ BuiltStill(queue'[i])
      <3>1. CASE i <= Len(queue)
        <4>1. i \in 1..Len(queue)  BY <2>2, <2>3, <2>4, <3>1
        <4>2. queue'[i] = queue[i]  BY <2>3, <3>1
        <4>3. BuiltStill(queue[i]) /\ queue[i].of = draftId
          BY <1>1, <4>1 DEF QueueOK
        <4>4. QED  BY <1>2, <4>2, <4>3
      <3>2. CASE ~(i <= Len(queue))
        <4>1. queue'[i] = s  BY <2>3, <3>2
        <4>2. QED  BY <1>1, <1>2, <1>4, <4>1
      <3>3. QED  BY <3>1, <3>2
    <2>5. QED  BY <2>2, <2>4 DEF QueueOK, Built, BuiltStill
  <1>5. QED  BY <1>3, <1>4

\* The checks under way, when none of them moves and no token is consumed.
LEMMA CallsLater ==
  ASSUME Onward, CallsInv, calls' \subseteq calls, tokens \subseteq tokens' PROVE CallsInv'
  <1>1. ASSUME NEW c \in calls PROVE CallOK(c)'
    <2>1. CallOK(c)  BY DEF CallsInv
    <2>2. c.at \in {"pending", "push"} => BuiltStill(c.emit)
      BY <2>1, BuiltLater DEF CallOK
    <2>3. QED  BY <2>1, <2>2 DEF CallOK, Built, BuiltStill
  <1>2. QED  BY <1>1 DEF CallsInv

-----------------------------------------------------------------------------
(* What a phone's handlers do to its screen *)

\* A snapshot that is taken is shown, and one that is not changes nothing: the
\* version shown never goes back.
LEMMA Shown ==
  ASSUME EchoInv, kind # "web", screen \in SnapshotType,
         NEW snap \in SnapshotType, NEW force,
         \/ ShowSnapshot(snap, force)
         \/ Reconcile(snap) /\ (Painted \/ screen.version <= snap.version)
  PROVE  /\ screen' \in {screen, snap} /\ screen' \in SnapshotType
         /\ Reconcile(snap) => screen.version <= screen'.version
         /\ buffers' \in [Fields -> Option(Raws)]
         /\ touched' \in BOOLEAN /\ (touched' => touched)
         /\ \A f \in Fields : ~(touched' /\ focused = f) => buffers'[f] = screen'.text[f]
  <1>1. /\ buffers \in [Fields -> Option(Raws)] /\ touched \in BOOLEAN
        /\ Painted => \A f \in Fields : ~(touched /\ focused = f) => buffers[f] = screen.text[f]
    BY DEF EchoInv, Follows, Known
  <1>2. /\ snap.text \in [Fields -> Option(Raws)]
        /\ snap.version \in Nat /\ screen.version \in Nat
    BY DEF SnapshotType
  <1>3. ASSUME NEW g, ShowSnapshot(snap, g)
        PROVE  /\ screen' = snap
               /\ buffers' \in [Fields -> Option(Raws)]
               /\ touched' \in BOOLEAN /\ (touched' => touched)
               /\ \A f \in Fields : ~(touched' /\ focused = f) => buffers'[f] = screen'.text[f]
    BY <1>1, <1>2, <1>3, Repainted DEF ShowSnapshot
  <1>4. CASE Reconcile(snap) /\ (Painted \/ screen.version <= snap.version)
    <2>1. CASE Outdated(snap)
      <3>1. screen' = screen /\ buffers' = buffers /\ touched' = touched
        BY <1>4, <2>1 DEF Reconcile
      <3>2. Painted  BY <1>2, <1>4, <2>1 DEF Outdated
      <3>3. QED  BY <1>1, <1>2, <3>1, <3>2
    <2>2. CASE ~Outdated(snap)
      <3>1. ShowSnapshot(snap, NoValue)  BY <1>4, <2>2 DEF Reconcile
      <3>2. screen.version <= snap.version  BY <1>2, <2>2 DEF Outdated
      <3>3. QED  BY <1>3, <3>1, <3>2
    <2>3. QED  BY <2>1, <2>2
  <1>5. CASE ShowSnapshot(snap, force)
    <2>1. screen' = snap  BY <1>3, <1>5
    <2>2. Reconcile(snap) => screen.version <= screen'.version
      BY <1>2, <2>1 DEF Reconcile, Outdated
    <2>3. QED  BY <1>3, <1>5, <2>2
  <1>6. QED  BY <1>4, <1>5

\* The echo rule's variables after such a step.
LEMMA EchoAfter ==
  ASSUME EchoInv, kind # "web", UNCHANGED <<kind, control, focused, editGen>>,
         timers' \subseteq Nat, main'.at \in {"idle", "pushing", "submitted"},
         buffers' \in [Fields -> Option(Raws)], touched' \in BOOLEAN,
         touched' => focused # NoValue,
         Painted' => \A f \in Fields : ~(touched' /\ focused = f) => buffers'[f] = screen'.text[f]
  PROVE  EchoInv'
  <1>1. Painted' => Follows'  BY DEF Follows, Known
  <1>2. QED  BY <1>1 DEF EchoInv

\* A step that leaves the store alone.
LEMMA SameVars ==
  ASSUME ShellInv, UNCHANGED vars
  PROVE  /\ IInv' /\ version' = version /\ version \in Nat /\ nextId' = nextId
         /\ nextId \in Nat
         /\ tokens' = tokens /\ drafts' = drafts
         /\ kind # "web" => CInv' /\ Rebasing' /\ StashInv'
  <1>1. IInv /\ [Next]_vars  BY DEF ShellInv
  <1>2. IInv'  BY <1>1, NextInv
  <1>3. ASSUME kind # "web" PROVE CInv' /\ Rebasing' /\ StashInv'
    <2>1. CInv /\ Rebasing /\ StashInv  BY <1>3 DEF ShellInv, PhoneInv
    <2>2. CInv'  BY <1>1, <2>1, CheckNext
    <2>3. Rebasing' /\ StashInv'
      BY <2>1 DEF Rebasing, StashInv, Live, vars
    <2>4. QED  BY <2>2, <2>3
  <1>4. QED  BY <1>1, <1>2, <1>3 DEF vars, IInv, TypeOK

\* A phone that stays in the hands of its user, the store left alone.
LEMMA PhoneStays ==
  ASSUME ShellInv, kind # "web", UNCHANGED vars, kind' = kind,
         main.at \in {"idle", "pushing"}, main'.at = "idle", EchoInv',
         screen' \in SnapshotType, screen'.of = draftId, screen'.version <= version,
         QueueOK', CallsInv',
         inHand' # NoValue => /\ kind = "apple" /\ inHand' \in SnapshotType
                              /\ inHand'.version < screen'.version
  PROVE  ShellInv'
  <1>1. /\ IInv' /\ version' = version /\ nextId' = nextId /\ drafts' = drafts
        /\ CInv' /\ Rebasing' /\ StashInv'
    BY SameVars
  <1>2. OneDraft'
    <2>1. DOMAIN drafts = {draftId}  BY DEF ShellInv, OneDraft
    <2>2. QED  BY <1>1, <2>1 DEF OneDraft, draftId
  <1>3. ScreenInv'
    BY <1>1 DEF ScreenInv, draftId
  <1>4. PhoneInv'  BY <1>1, <1>3 DEF PhoneInv
  <1>5. QED  BY <1>1, <1>2, <1>4 DEF ShellInv

-----------------------------------------------------------------------------
(* The phones, step by step: what leaves the store alone *)

\* What is known of a phone that is past its launch.
LEMMA PhoneRunning ==
  ASSUME ShellInv, kind # "web", main.at # "launch"
  PROVE  /\ IInv /\ EchoInv /\ CInv /\ Rebasing /\ StashInv /\ CallsInv
         /\ screen \in SnapshotType /\ screen.of = draftId /\ screen.version <= version
         /\ QueueOK
         /\ inHand # NoValue => /\ kind = "apple" /\ inHand \in SnapshotType
                                /\ inHand.version < screen.version
         /\ main.at = "pushing" => Built(main.emit)
         /\ screen.version \in Nat /\ version \in Nat
  <1>1. PhoneInv /\ IInv /\ EchoInv  BY DEF ShellInv
  <1>2. ScreenInv  BY <1>1 DEF PhoneInv
  <1>3. QED  BY <1>1, <1>2 DEF PhoneInv, ScreenInv, SnapshotType, IInv, TypeOK

\* The user moves between the controls.
LEMMA PhoneFocusBlur ==
  ASSUME ShellInv, kind # "web", NEW g \in Fields, Focus(g) \/ Blur PROVE ShellInv'
  <1>1. /\ main.at = "idle" /\ MainIdle /\ main' = main
    BY DEF Focus, Blur, MainIdle, IdleMain
  <1>2. /\ UNCHANGED <<vars, kind, timerVars, phoneVars>> /\ touched' = FALSE
        /\ control' \in Option(Fields) /\ focused' = control'
        /\ buffers' = buffers \/ buffers' = Known
    BY DEF Focus, Blur, Option
  <1>3. /\ EchoInv /\ CallsInv /\ screen \in SnapshotType /\ QueueOK
    BY <1>1, PhoneRunning
  <1>4. /\ Onward /\ UNCHANGED <<queue, nextId, calls, tokens>>
    BY <1>1, <1>2, SameVars DEF Onward, phoneVars, vars
  <1>5. QueueOK' /\ CallsInv'
    BY <1>3, <1>4, QueueLater, CallsLater
  <1>6. EchoInv'
    <2>1. Known = screen.text /\ Known' = screen.text
      BY <1>2 DEF Known, phoneVars
    <2>2. screen.text \in [Fields -> Option(Raws)]  BY <1>3 DEF SnapshotType
    <2>3. \A f \in Fields : buffers'[f] = screen.text[f]
      <3>1. CASE buffers' = Known  BY <2>1, <3>1
      <3>2. CASE Focus(g)
        <4>1. control = NoValue /\ buffers' = buffers  BY <3>2 DEF Focus
        <4>2. ~touched  BY <1>3, <4>1 DEF EchoInv
        <4>3. Follows  BY <1>1, <1>3 DEF EchoInv, Painted
        <4>4. QED  BY <2>1, <4>1, <4>2, <4>3 DEF Follows
      <3>3. QED  BY <3>1, <3>2 DEF Blur
    <2>4. Follows'  BY <2>1, <2>3 DEF Follows
    <2>5. buffers' \in [Fields -> Option(Raws)]
      BY <1>2, <1>3, <2>1, <2>2 DEF EchoInv
    <2>6. QED  BY <1>1, <1>2, <1>3, <2>4, <2>5 DEF EchoInv, timerVars
  <1>7. QED
    BY <1>1, <1>2, <1>5, <1>6, PhoneRunning, PhoneStays DEF phoneVars

\* The rest of a handler: what it pushes may be out of date, what it reads is
\* not.
LEMMA PhoneReturnInv ==
  ASSUME ShellInv, kind # "web", PhoneReturn PROVE ShellInv'
  <1>1. /\ main.at = "pushing" /\ main'.at = "idle" /\ Enqueue(main.emit)
        /\ UNCHANGED <<vars, kind, control, focused, editGen, inHand>>
    BY DEF PhoneReturn, IdleMain
  <1>2. /\ EchoInv /\ CallsInv /\ screen \in SnapshotType /\ QueueOK /\ Built(main.emit)
        /\ screen.of = draftId /\ screen.version <= version
        /\ screen.version \in Nat /\ version \in Nat
    BY <1>1, PhoneRunning
  <1>3. /\ Onward /\ UNCHANGED <<nextId, tokens, drafts, version>>
    BY <1>1, SameVars DEF Onward
  <1>4. calls' \subseteq calls /\ timers' \subseteq Nat
    <2>1. /\ Uncancelled \subseteq calls /\ Rearmed(Draft) \subseteq Nat /\ timers \subseteq Nat
      BY <1>2 DEF Uncancelled, Rearmed, EchoInv
    <2>2. QED  BY <2>1 DEF PhoneReturn
  <1>5. QueueOK' /\ CallsInv'
    BY <1>2, <1>3, <1>4, <1>1, QueueGrows, CallsLater
  <1> DEFINE snap == View(draftId, Draft)
  <1>6. snap \in SnapshotType /\ snap.of = draftId /\ snap.version = version
    <2>1. draftId \in DOMAIN drafts  BY <1>1 DEF ShellInv, OneDraft
    <2>2. IInv' /\ Rebasing'  BY <1>1, SameVars
    <2>3. View(draftId, drafts'[draftId].draft) = snap  BY <1>3 DEF Draft
    <2> HIDE DEF snap
    <2>4. QED  BY <1>3, <2>1, <2>2, <2>3, AtVersion
  <1>7. \/ Reconcile(snap)
        \/ ShowSnapshot(snap, main.field)
        \/ Painted /\ UNCHANGED <<screen, buffers, touched>>
    BY <1>1 DEF PhoneReturn, Painted
  <1> HIDE DEF snap
  <1>8. /\ screen' \in {screen, snap} /\ screen' \in SnapshotType
        /\ screen.version <= screen'.version
        /\ buffers' \in [Fields -> Option(Raws)]
        /\ touched' \in BOOLEAN /\ (touched' => touched)
        /\ \A f \in Fields : ~(touched' /\ focused = f) => buffers'[f] = screen'.text[f]
    <2>1. CASE Reconcile(snap)
      BY <1>2, <1>6, <2>1, Shown
    <2>2. CASE ShowSnapshot(snap, main.field)
      BY <1>2, <1>6, <2>2, Shown
    <2>3. CASE Painted /\ UNCHANGED <<screen, buffers, touched>>
      BY <1>2, <2>3 DEF EchoInv, Follows, Known
    <2>4. QED  BY <1>7, <2>1, <2>2, <2>3
  <1>9. EchoInv'
    BY <1>1, <1>2, <1>4, <1>8, EchoAfter DEF EchoInv
  <1>10. /\ screen'.of = draftId /\ screen'.version <= version
         /\ inHand' # NoValue => /\ kind = "apple" /\ inHand' \in SnapshotType
                                 /\ inHand'.version < screen'.version
    <2>1. screen'.of = draftId /\ screen'.version <= version
      BY <1>2, <1>6, <1>8
    <2>2. ASSUME inHand' # NoValue
          PROVE  /\ kind = "apple" /\ inHand' \in SnapshotType
                 /\ inHand'.version < screen'.version
      <3>1. /\ kind = "apple" /\ inHand' \in SnapshotType
            /\ inHand'.version < screen.version
        BY <1>1, <2>2, PhoneRunning
      <3>2. QED  BY <1>2, <1>8, <3>1 DEF SnapshotType
    <2>3. QED  BY <2>1, <2>2
  <1>11. QED  BY <1>1, <1>5, <1>8, <1>9, <1>10, PhoneStays

\* The stream without its head.
LEMMA QueueShrinks ==
  ASSUME Onward, QueueOK, queue # <<>>, queue' = Tail(queue), nextId' = nextId
  PROVE  /\ QueueOK'
         /\ Head(queue) \in SnapshotType /\ Head(queue).of = draftId /\ Built(Head(queue))
  <1>1. queue \in Seq(SnapshotType)  BY DEF QueueOK
  <1>2. /\ Len(queue) \in Nat \ {0} /\ 1 \in 1..Len(queue)
        /\ Head(queue) = queue[1]
        /\ queue' \in Seq(SnapshotType) /\ Len(queue') = Len(queue) - 1
        /\ \A i \in 1..Len(queue') : queue'[i] = queue[i + 1] /\ i + 1 \in 1..Len(queue)
    BY <1>1
  <1>3. \A i \in 1..Len(queue) : BuiltStill(queue[i]) /\ queue[i].of = draftId
    BY BuiltLater DEF QueueOK
  <1>4. ASSUME NEW i \in 1..Len(queue')
        PROVE  BuiltStill(queue'[i]) /\ queue'[i].of = draftId
    BY <1>2, <1>3
  <1>5. QueueOK'  BY <1>2, <1>4 DEF QueueOK, Built, BuiltStill, draftId
  <1>6. Built(queue[1]) /\ queue[1].of = draftId  BY <1>2 DEF QueueOK
  <1>7. QED  BY <1>2, <1>5, <1>6 DEF Built

\* The stream hands the next snapshot over.
LEMMA PhoneDeliverInv ==
  ASSUME ShellInv, kind # "web", PhoneDeliver PROVE ShellInv'
  <1>1. /\ main.at = "idle" /\ MainIdle /\ main' = main /\ queue # <<>> /\ queue' = Tail(queue)
        /\ Reconcile(Head(queue)) /\ Painted
        /\ UNCHANGED <<vars, kind, main, control, focused, timers, editGen, inHand, calls>>
    BY DEF PhoneDeliver, MainIdle, IdleMain, Painted, timerVars
  <1>2. /\ EchoInv /\ CallsInv /\ screen \in SnapshotType /\ QueueOK
        /\ screen.of = draftId /\ screen.version <= version
        /\ screen.version \in Nat /\ version \in Nat
    BY <1>1, PhoneRunning
  <1>3. /\ Onward /\ UNCHANGED <<nextId, tokens, drafts, version>>
    BY <1>1, SameVars DEF Onward
  <1> DEFINE snap == Head(queue)
  <1>4. /\ QueueOK' /\ snap \in SnapshotType /\ snap.of = draftId /\ Built(snap)
    BY <1>1, <1>2, <1>3, QueueShrinks
  <1>5. CallsInv'  BY <1>1, <1>2, <1>3, CallsLater
  <1>6. Reconcile(snap)  BY <1>1
  <1> HIDE DEF snap
  <1>7. /\ screen' \in {screen, snap} /\ screen' \in SnapshotType
        /\ screen.version <= screen'.version
        /\ buffers' \in [Fields -> Option(Raws)]
        /\ touched' \in BOOLEAN /\ (touched' => touched)
        /\ \A f \in Fields : ~(touched' /\ focused = f) => buffers'[f] = screen'.text[f]
    BY <1>1, <1>2, <1>4, <1>6, Shown
  <1>8. EchoInv'
    BY <1>1, <1>2, <1>7, EchoAfter DEF EchoInv
  <1>9. screen'.of = draftId /\ screen'.version <= version
    BY <1>2, <1>4, <1>7 DEF Built
  <1>10. ASSUME inHand' # NoValue
         PROVE  /\ kind = "apple" /\ inHand' \in SnapshotType
                /\ inHand'.version < screen'.version
    <2>1. /\ kind = "apple" /\ inHand' \in SnapshotType
          /\ inHand'.version < screen.version
      BY <1>1, <1>10, PhoneRunning
    <2>2. QED  BY <1>2, <1>7, <2>1 DEF SnapshotType
  <1>11. QED  BY <1>1, <1>4, <1>5, <1>7, <1>8, <1>9, <1>10, PhoneStays

\* A snapshot of the draft before arrives late: it is out of date.
LEMMA AppleLateInv ==
  ASSUME ShellInv, kind # "web", AppleLateDelivery PROVE ShellInv'
  <1>1. /\ main.at = "idle" /\ main' = main /\ inHand # NoValue /\ inHand' = NoValue
        /\ Reconcile(inHand)
        /\ UNCHANGED <<vars, kind, control, focused, timers, editGen, queue, calls>>
    BY DEF AppleLateDelivery, MainIdle, IdleMain, timerVars
  <1>2. /\ EchoInv /\ CallsInv /\ screen \in SnapshotType /\ QueueOK
        /\ screen.of = draftId /\ screen.version <= version
        /\ inHand.version < screen.version
    BY <1>1, PhoneRunning
  <1>3. /\ Onward /\ UNCHANGED <<nextId, tokens, drafts, version>>
    BY <1>1, SameVars DEF Onward
  <1>4. QueueOK' /\ CallsInv'
    BY <1>1, <1>2, <1>3, QueueLater, CallsLater
  <1>5. screen' = screen /\ buffers' = buffers /\ touched' = touched
    BY <1>1, <1>2 DEF Reconcile, Outdated
  <1>6. EchoInv'
    <2>1. Painted' => Painted  BY <1>1 DEF Painted, MainIdle
    <2>2. Painted => \A f \in Fields : ~(touched /\ focused = f) => buffers[f] = screen.text[f]
      BY <1>2 DEF EchoInv, Follows, Known
    <2>3. QED
      BY <1>1, <1>2, <1>5, <2>1, <2>2, EchoAfter DEF EchoInv
  <1>7. QED  BY <1>1, <1>2, <1>4, <1>5, <1>6, PhoneStays

\* A timer fires: a call goes to a thread of its own.
LEMMA PhoneTimerInv ==
  ASSUME ShellInv, kind # "web", PhoneTimer PROVE ShellInv'
  <1> DEFINE n == CHOOSE n \in 0..MaxCalls : \A c \in calls : c.no # n
             new == [id |-> draftId, at |-> "called", emit |-> NoValue, token |-> NoValue, no |-> n]
  <1>1. /\ main.at = "idle" /\ main' = main /\ timers' = {} /\ calls' = calls \cup {new}
        /\ UNCHANGED <<vars, kind, buffers, control, focused, touched, editGen, screen, queue, inHand>>
    BY DEF PhoneTimer, MainIdle, IdleMain, echoVars
  <1> HIDE DEF n
  <1>2. /\ EchoInv /\ CallsInv /\ screen \in SnapshotType /\ QueueOK
        /\ screen.of = draftId /\ screen.version <= version
    BY <1>1, PhoneRunning
  <1>3. /\ Onward /\ UNCHANGED <<nextId, tokens, drafts, version>>
    BY <1>1, SameVars DEF Onward
  <1>4. QueueOK'  BY <1>1, <1>2, <1>3, QueueLater
  <1>5. CallsInv'
    <2>1. draftId \in Nat
      <3>1. draftId \in DOMAIN drafts  BY <1>1 DEF ShellInv, OneDraft
      <3>2. DOMAIN drafts \subseteq 0..(nextId - 1) /\ nextId \in Nat
        BY DEF ShellInv, IInv, TypeOK
      <3>3. QED  BY <3>1, <3>2
    <2>2. \A c : c = new => CallOK(c)' /\ c.at = "called"
      BY <2>1 DEF CallOK
    <2>3. \A c \in calls : CallOK(c)'
      BY <1>1, <1>2, <1>3 DEF CallsInv, CallOK, Built
    <2> HIDE DEF new
    <2>4. \A c \in calls' : CallOK(c)'
      BY <1>1, <2>2, <2>3
    <2>5. QED  BY <1>1, <1>2, <2>2, <2>4 DEF CallsInv
  <1>6. EchoInv'
    <2>1. Painted' => Painted  BY <1>1 DEF Painted, MainIdle
    <2>2. Painted => \A f \in Fields : ~(touched /\ focused = f) => buffers[f] = screen.text[f]
      BY <1>2 DEF EchoInv, Follows, Known
    <2>3. QED
      BY <1>1, <1>2, <2>1, <2>2, EchoAfter DEF EchoInv
  <1>7. QED  BY <1>1, <1>2, <1>4, <1>5, <1>6, PhoneRunning, PhoneStays

-----------------------------------------------------------------------------
(* The phones, step by step: what moves the store *)

\* The draft the shell holds is one of the store's.
LEMMA HeldDraft ==
  ASSUME ShellInv, main.at \in {"idle", "pushing"}
  PROVE  draftId \in DOMAIN drafts /\ DOMAIN drafts = {draftId} /\ draftId \in Nat
  <1>1. DOMAIN drafts = {draftId}  BY DEF ShellInv, OneDraft
  <1>2. DOMAIN drafts \subseteq 0..(nextId - 1) /\ nextId \in Nat
    BY DEF ShellInv, IInv, TypeOK
  <1>3. QED  BY <1>1, <1>2

\* An edit, a resolution or a canonical change, under the phone's one draft.
LEMMA PhoneStoreStep ==
  ASSUME ShellInv, kind # "web", main.at \in {"idle", "pushing"},
         \/ \E f \in Fields, r \in Raws : SetRaw(draftId, f, r)
         \/ \E f \in Fields : ResolveKeepMine(draftId, f) \/ ResolveTakeTheirs(draftId, f)
         \/ \E entity \in Entities(accepts) : ApplyCanonical(entity)
  PROVE  /\ IInv' /\ CInv' /\ Rebasing' /\ DOMAIN drafts' = DOMAIN drafts
         /\ UNCHANGED <<nextId, tokens, stash, accepts>>
         /\ version' \in {version, version + 1}
  <1>1. draftId \in DOMAIN drafts  BY HeldDraft
  <1>2. /\ IInv /\ CInv /\ Rebasing  BY PhoneRunning DEF ShellInv, PhoneInv
  <1>3. [Next]_vars  BY <1>1 DEF Next, UserStep
  <1>4. IInv' /\ CInv'  BY <1>2, <1>3, NextInv, CheckNext
  <1>5. ASSUME NEW f \in Fields, NEW x, EditField(draftId, f, x)
        PROVE  /\ Rebasing' /\ DOMAIN drafts' = DOMAIN drafts
               /\ UNCHANGED <<nextId, tokens, stash, accepts>> /\ version' = version
    <2> DEFINE d == SetField(drafts[draftId].draft, f, x)
    <2>1. /\ Update(draftId, d) /\ UNCHANGED <<canonical, version, nextId, tokens, stash, accepts>>
      BY <1>5 DEF EditField
    <2>2. drafts[draftId].draft \in DraftType
      BY <1>1, <1>2 DEF IInv, TypeOK, EntryType
    <2>3. d.status = drafts[draftId].draft.status
      BY <2>2 DEF SetField, Guarded, DraftType
    <2> HIDE DEF d
    <2>4. QED  BY <1>1, <1>2, <2>1, <2>3, UpdateRebasing
  <1>6. ASSUME NEW entity \in Entities(accepts), ApplyCanonical(entity)
        PROVE  /\ Rebasing' /\ DOMAIN drafts' = DOMAIN drafts
               /\ UNCHANGED <<nextId, tokens, stash, accepts>> /\ version' = version + 1
    <2>1. drafts = [id \in DOMAIN drafts |-> drafts[id]]  BY <1>2 DEF IInv, TypeOK
    <2>2. Apply([id \in DOMAIN drafts |-> drafts[id]], entity)
      BY <1>6, <2>1 DEF ApplyCanonical
    <2>3. Rebasing' /\ DOMAIN drafts' = DOMAIN drafts
      BY <1>2, <2>2, ApplyRebasing
    <2>4. QED  BY <2>2, <2>3 DEF Apply
  <1>7. CASE \E f \in Fields, r \in Raws : SetRaw(draftId, f, r)
    BY <1>4, <1>5, <1>7 DEF SetRaw
  <1>8. CASE \E f \in Fields : ResolveKeepMine(draftId, f) \/ ResolveTakeTheirs(draftId, f)
    BY <1>4, <1>5, <1>8 DEF ResolveKeepMine, ResolveTakeTheirs
  <1>9. CASE \E entity \in Entities(accepts) : ApplyCanonical(entity)
    BY <1>4, <1>6, <1>9
  <1>10. QED  BY <1>7, <1>8, <1>9

\* The critical section of a handler: its snapshot is in the thread's hands.
LEMMA PhoneHandler ==
  ASSUME ShellInv, kind # "web", main.at = "idle", NEW then, NEW g,
         \/ \E f \in Fields, r \in Raws : SetRaw(draftId, f, r)
         \/ \E f \in Fields : ResolveKeepMine(draftId, f) \/ ResolveTakeTheirs(draftId, f)
         \/ \E entity \in Entities(accepts) : ApplyCanonical(entity),
         main' = Pushing(View(draftId, drafts'[draftId].draft), then, g),
         UNCHANGED <<kind, phoneVars>>
  PROVE  /\ IInv' /\ OneDraft' /\ PhoneInv' /\ main'.at = "pushing" /\ main'.then = then
  <1> DEFINE snap == View(draftId, drafts'[draftId].draft)
  <1>1. /\ IInv' /\ CInv' /\ Rebasing' /\ DOMAIN drafts' = DOMAIN drafts
        /\ UNCHANGED <<nextId, tokens, stash, accepts>>
        /\ version' \in {version, version + 1}
    BY PhoneStoreStep
  <1>2. draftId \in DOMAIN drafts /\ DOMAIN drafts = {draftId}  BY HeldDraft
  <1>3. snap \in SnapshotType /\ snap.of = draftId /\ snap.version = version'
    BY <1>1, <1>2, AtVersion
  <1> HIDE DEF snap
  <1>4. main'.at = "pushing" /\ main'.then = then /\ main'.emit = snap
    BY DEF Pushing, snap
  <1>5. /\ CallsInv /\ StashInv /\ screen \in SnapshotType /\ QueueOK
        /\ screen.of = draftId /\ screen.version <= version
        /\ screen.version \in Nat /\ version \in Nat
        /\ inHand # NoValue => /\ kind = "apple" /\ inHand \in SnapshotType
                               /\ inHand.version < screen.version
    BY PhoneRunning
  <1>6. Onward  BY <1>1, <1>4, <1>5 DEF Onward
  <1>7. QueueOK' /\ CallsInv'
    BY <1>1, <1>5, <1>6, QueueLater, CallsLater DEF phoneVars
  <1>8. OneDraft'  BY <1>1, <1>2, <1>4 DEF OneDraft, draftId
  <1>9. Built(main.emit)'
    BY <1>1, <1>3, <1>4, <1>5 DEF Built, SnapshotType
  <1>10. ScreenInv'
    BY <1>1, <1>4, <1>5, <1>7, <1>9 DEF ScreenInv, phoneVars, draftId
  <1>11. StashInv'  BY <1>1, <1>5 DEF StashInv
  <1>12. QED  BY <1>1, <1>4, <1>7, <1>8, <1>10, <1>11 DEF PhoneInv

\* A keystroke: the buffer is the user's until the handler returns.
LEMMA PhoneTypeInv ==
  ASSUME ShellInv, kind # "web", NEW f \in Fields, NEW r \in Raws, PhoneType(f, r)
  PROVE  ShellInv'
  <1>1. /\ main.at = "idle" /\ control = f /\ buffers' = [buffers EXCEPT ![f] = r]
        /\ touched' = (touched \/ focused = f)
        /\ UNCHANGED <<kind, control, focused, timers, editGen>>
    BY DEF PhoneType, Keystroke, MainIdle, IdleMain, timerVars
  <1>2. /\ IInv' /\ OneDraft' /\ PhoneInv' /\ main'.at = "pushing" /\ main'.then = "edited"
    BY <1>1, PhoneHandler DEF PhoneType
  <1>3. EchoInv  BY DEF ShellInv
  <1>4. /\ buffers' \in [Fields -> Option(Raws)] /\ touched' \in BOOLEAN
        /\ touched' => focused # NoValue
    BY <1>1, <1>3 DEF EchoInv, Option
  <1>5. ~Painted'  BY <1>2 DEF Painted, MainIdle, IdleMain
  <1>6. EchoInv'  BY <1>1, <1>2, <1>3, <1>4, <1>5 DEF EchoInv
  <1>7. QED  BY <1>1, <1>2, <1>6 DEF ShellInv

\* A resolution, and the simulated server.
LEMMA PhoneResolveServerInv ==
  ASSUME ShellInv, kind # "web", PhoneServer \/ \E f \in Fields : PhoneResolve(f)
  PROVE  ShellInv'
  <1>1. /\ main.at = "idle" /\ MainIdle
        /\ UNCHANGED <<kind, buffers, control, focused, touched, timers, editGen, screen>>
    BY DEF PhoneServer, PhoneResolve, MainIdle, IdleMain, timerVars, echoVars, phoneVars
  <1>2. /\ IInv' /\ OneDraft' /\ PhoneInv' /\ main'.at = "pushing"
    BY <1>1, PhoneHandler DEF PhoneServer, PhoneResolve
  <1>3. EchoInv  BY DEF ShellInv
  <1>4. \A f \in Fields : ~(touched /\ focused = f) => buffers[f] = screen.text[f]
    BY <1>1, <1>3 DEF EchoInv, Painted, Follows, Known
  <1>5. EchoInv'
    BY <1>1, <1>2, <1>3, <1>4, EchoAfter DEF EchoInv
  <1>6. QED  BY <1>1, <1>2, <1>5 DEF ShellInv

\* A submit: the draft is gone, and what was built of it is out of date.
LEMMA PhoneSubmitInv ==
  ASSUME ShellInv, kind # "web", PhoneSubmit PROVE ShellInv'
  <1>1. /\ main.at = "idle" /\ main'.at = "submitted" /\ Submit(draftId)
        /\ UNCHANGED <<kind, echoVars, timerVars, phoneVars>>
    BY DEF PhoneSubmit, MainIdle, IdleMain
  <1>2. draftId \in DOMAIN drafts /\ DOMAIN drafts = {draftId}  BY <1>1, HeldDraft
  <1>3. /\ IInv /\ CInv /\ Rebasing /\ EchoInv /\ CallsInv /\ StashInv
        /\ screen \in SnapshotType /\ QueueOK
        /\ screen.of = draftId /\ screen.version <= version
        /\ screen.version \in Nat /\ version \in Nat
        /\ inHand # NoValue => /\ kind = "apple" /\ inHand \in SnapshotType
                               /\ inHand.version < screen.version
    BY <1>1, PhoneRunning
  <1>4. [Next]_vars  BY <1>1, <1>2 DEF Next, UserStep
  <1>5. IInv' /\ CInv'  BY <1>3, <1>4, NextInv, CheckNext
  <1> DEFINE entity == EntityOf(drafts[draftId].draft)
  <1>6. entity \in Entities(accepts)
    <2>1. TypeOK /\ EntryInv(accepts, drafts[draftId], canonical, version)
      BY <1>2, <1>3 DEF IInv
    <2>2. CommitOk(drafts[draftId].draft)  BY <1>1 DEF Submit
    <2>3. QED  BY <2>1, <2>2, CommitsAnEntity
  <1>7. Apply([i \in DOMAIN drafts \ {draftId} |-> drafts[i]], entity)
    BY <1>1 DEF Submit, Without
  <1> HIDE DEF entity
  <1>8. Rebasing' /\ DOMAIN drafts' = {}
    <2>1. Rebasing' /\ DOMAIN drafts' = DOMAIN drafts \ {draftId}
      BY <1>3, <1>6, <1>7, ApplyRebasing
    <2>2. QED  BY <1>2, <2>1
  <1>9. version' = version + 1 /\ UNCHANGED <<nextId, tokens, stash, accepts>>
    BY <1>7 DEF Apply
  <1>10. Onward  BY <1>3, <1>9 DEF Onward
  <1>11. QueueOK' /\ CallsInv'
    BY <1>1, <1>3, <1>9, <1>10, QueueLater, CallsLater DEF phoneVars
  <1>12. ScreenInv'
    BY <1>1, <1>3, <1>9, <1>11 DEF ScreenInv, phoneVars, draftId
  <1>13. EchoInv'
    <2>1. ~Painted'  BY <1>1 DEF Painted, MainIdle, IdleMain
    <2>2. UNCHANGED <<kind, buffers, control, focused, touched, timers, editGen>>
      BY <1>1 DEF echoVars, timerVars
    <2>3. QED  BY <1>1, <1>3, <2>1, <2>2 DEF EchoInv
  <1>14. OneDraft' /\ StashInv'
    BY <1>1, <1>3, <1>8, <1>9 DEF OneDraft, StashInv
  <1>15. QED
    BY <1>1, <1>5, <1>8, <1>11, <1>12, <1>13, <1>14 DEF ShellInv, PhoneInv

\* A draft is opened: its own snapshot is on the screen, and nothing of the one
\* before is newer.
LEMMA PhoneOpened ==
  ASSUME ShellInv, kind # "web", main.at \in {"launch", "submitted"}, PhoneOpen,
         IInv', CInv', Rebasing', StashInv', DOMAIN drafts' = {nextId},
         nextId' = nextId + 1, version' = version, tokens' = tokens,
         inHand' # NoValue => /\ kind = "apple" /\ inHand' \in SnapshotType
                              /\ inHand'.version < version
  PROVE  ShellInv'
  <1> DEFINE snap == View(nextId, drafts'[nextId].draft)
  <1>1. /\ main' = IdleMain /\ main'.at = "idle" /\ focused' = NoValue /\ touched' = FALSE
        /\ screen' = snap /\ buffers' = snap.text /\ queue' = <<>>
        /\ UNCHANGED <<kind, control, timers, editGen, calls>>
    BY DEF PhoneOpen, IdleMain, timerVars
  <1>2. /\ snap \in SnapshotType /\ snap.of = nextId /\ snap.version = version'
        /\ snap.text \in [Fields -> Option(Raws)]
    BY AtVersion
  <1> HIDE DEF snap
  <1>3. version \in Nat /\ nextId \in Nat /\ draftId' = nextId
    BY DEF ShellInv, IInv, TypeOK, draftId
  <1>4. OneDraft'  BY <1>1, <1>3 DEF OneDraft, draftId
  <1>5. CallsInv'
    <2>1. Onward  BY <1>1, <1>3 DEF Onward
    <2>2. CallsInv  BY DEF ShellInv, PhoneInv
    <2>3. QED  BY <1>1, <2>1, <2>2, CallsLater
  <1>6. QueueOK'  BY <1>1 DEF QueueOK
  <1>7. ScreenInv'
    BY <1>1, <1>2, <1>3, <1>6 DEF ScreenInv
  <1>8. EchoInv'
    <2>1. EchoInv  BY DEF ShellInv
    <2>2. Follows'  BY <1>1 DEF Follows, Known
    <2>3. focused' \in {control', NoValue}  BY <1>1
    <2>4. QED  BY <1>1, <1>2, <2>1, <2>2, <2>3 DEF EchoInv
  <1>9. QED  BY <1>1, <1>4, <1>5, <1>7, <1>8 DEF ShellInv, PhoneInv

\* A checkout over a canonical entity has an ancestor in every field.
LEMMA CheckoutIsBased ==
  ASSUME IInv, canonical # NoValue
  PROVE  LET d == FromCanonical(canonical, version)
         IN  /\ d \in DraftType /\ d.status = "Live" /\ IsBased(d) /\ d.check = NewCheck
             /\ \A f \in Fields : Admitted(accepts, d.fields[f]) /\ ~IsConflicted(d.fields[f])
  <1> DEFINE d == FromCanonical(canonical, version)
  <1>1. /\ d \in DraftType
        /\ \A f \in Fields : Admitted(accepts, d.fields[f]) /\ ~IsConflicted(d.fields[f])
    BY CheckoutDraft DEF IInv
  <1>2. canonical[Checked] \in Values /\ Checked \in Fields
    BY CanonicalType DEF IInv, TypeOK
  <1>3. d.fields[Checked].base = canonical[Checked]
    BY <1>2 DEF FromCanonical, FromBase
  <1>4. IsBased(d)  BY <1>2, <1>3, NoValueIsNoValue DEF IsBased
  <1>5. QED  BY <1>1, <1>4 DEF FromCanonical

\* recheckout, and the first checkout of the Apple shell.
LEMMA PhoneCheckout ==
  ASSUME ShellInv, kind # "web", main.at \in {"launch", "submitted"}, Checkout
  PROVE  /\ IInv' /\ CInv' /\ Rebasing' /\ StashInv' /\ DOMAIN drafts' = {nextId}
         /\ nextId' = nextId + 1 /\ version' = version /\ tokens' = tokens
  <1>1. /\ IInv /\ CInv /\ Rebasing /\ StashInv /\ canonical # NoValue
        /\ DOMAIN drafts = {}
    BY DEF ShellInv, PhoneInv, Rebasing, OneDraft
  <1>2. [Next]_vars  BY DEF Next
  <1>3. IInv' /\ CInv'  BY <1>1, <1>2, NextInv, CheckNext
  <1> DEFINE d == FromCanonical(canonical, version)
  <1>4. d \in DraftType /\ d.status = "Live" /\ IsBased(d)
    BY <1>1, CheckoutIsBased
  <1>5. Adopt(d)  BY <1>1 DEF Checkout
  <1> HIDE DEF d
  <1>6. /\ drafts' = Put(nextId, AdoptedEntry(d)) /\ nextId' = nextId + 1
        /\ UNCHANGED <<canonical, version, tokens, stash, accepts>>
    BY <1>5 DEF Adopt
  <1>7. Rebasing' /\ DOMAIN drafts' = {nextId}
    BY <1>1, <1>4, <1>6, OpenRebasing
  <1>8. StashInv'  BY <1>1, <1>6 DEF StashInv
  <1>9. QED  BY <1>3, <1>6, <1>7, <1>8

\* Opening a draft on Apple: the cancelled stream may still hand one over.
LEMMA AppleOpensInv ==
  ASSUME ShellInv, kind = "apple", AppleOpens PROVE ShellInv'
  <1>1. /\ main.at \in {"launch", "submitted"} /\ Checkout /\ PhoneOpen /\ kind # "web"
        /\ inHand' \in {inHand} \cup {queue[i] : i \in 1..Len(queue) \cap {1}}
    BY DEF AppleOpens
  <1>2. ASSUME inHand' # NoValue
        PROVE  inHand' \in SnapshotType /\ inHand'.version < version
    <2>1. CASE main.at = "launch"
      <3>1. queue = <<>> /\ inHand = NoValue
        BY <1>1, <2>1 DEF ShellInv, PhoneInv, ScreenInv
      <3>2. QED  BY <1>1, <1>2, <3>1
    <2>2. CASE main.at = "submitted"
      <3>1. /\ QueueOK /\ screen.version <= version
            /\ screen.version \in Nat /\ version \in Nat
            /\ inHand # NoValue => /\ inHand \in SnapshotType
                                   /\ inHand.version < screen.version
        BY <1>1, <2>2, PhoneRunning
      <3>2. CASE inHand' = inHand
        BY <1>2, <3>1, <3>2 DEF SnapshotType
      <3>3. ASSUME NEW i \in 1..Len(queue), inHand' = queue[i]
            PROVE  inHand' \in SnapshotType /\ inHand'.version < version
        BY <2>2, <3>1, <3>3 DEF QueueOK, Built
      <3>4. QED  BY <1>1, <3>2, <3>3
    <2>3. QED  BY <1>1, <2>1, <2>2
  <1>3. QED  BY <1>1, <1>2, PhoneCheckout, PhoneOpened

\* An Android shell after a submit.
LEMMA AndroidRecheckoutInv ==
  ASSUME ShellInv, kind = "android", AndroidRecheckout PROVE ShellInv'
  <1>1. /\ main.at = "submitted" /\ Checkout /\ PhoneOpen /\ kind # "web" /\ inHand' = inHand
    BY DEF AndroidRecheckout
  <1>2. inHand' = NoValue  BY <1>1, PhoneRunning
  <1>3. QED  BY <1>1, <1>2, PhoneCheckout, PhoneOpened

\* The stash of a live draft can be brought back by the next process.
LEMMA StashIsRestorable ==
  ASSUME NEW d \in DraftType, IsBased(d), d.status = "Live", NEW a,
         \A f \in Fields : Admitted(a, d.fields[f])
  PROVE  /\ ~Stash(d).orphaned
         /\ \A f \in Fields : Stash(d).fields[f].base \in Option(a)
         /\ \E f \in Fields : Stash(d).fields[f].base # NoValue
  <1>1. /\ Stash(d).orphaned = FALSE
        /\ \A f \in Fields : Stash(d).fields[f].base = d.fields[f].base
    BY DEF Stash, StashField
  <1>2. QED  BY <1>1 DEF IsBased, Admitted

\* And so it is: live, with an ancestor.
LEMMA RestoredIsBased ==
  ASSUME IInv, StashInv, stash # NoValue
  PROVE  LET d == FromStash(accepts, stash)
         IN  /\ d \in DraftType /\ d.status = "Live" /\ IsBased(d) /\ d.check = NewCheck
             /\ \A f \in Fields : Admitted(accepts, d.fields[f]) /\ ~IsConflicted(d.fields[f])
  <1> DEFINE d == FromStash(accepts, stash)
  <1>1. stash \in StashType /\ accepts \in SUBSET Values
    BY DEF IInv, TypeOK
  <1>2. /\ d \in DraftType
        /\ \A f \in Fields : Admitted(accepts, d.fields[f]) /\ ~IsConflicted(d.fields[f])
    BY <1>1, RestoredDraft DEF IInv
  <1>3. PICK f \in Fields : stash.fields[f].base # NoValue  BY DEF StashInv
  <1>4. stash.fields[f].base \in accepts  BY <1>3 DEF StashInv, Option
  <1>5. stash.fields[f] \in FieldStashType  BY <1>1 DEF StashType
  <1> DEFINE s == stash.fields[f]
  <1>6. TryNew(accepts, s.base) = s.base /\ s.base # NoValue /\ s.base \in Values
    BY <1>1, <1>4, TryNewOfAccepted
  <1>7. FromBase(s.base) \in FieldType /\ FromBase(s.base).base = s.base
    BY <1>6, FromBaseType DEF FromBase
  <1>8. UnstashField(accepts, s).base # NoValue
    <2>1. UnstashField(accepts, s) = IF s.raw = NoValue THEN FromBase(s.base)
                                     ELSE TrySet(accepts, FromBase(s.base), s.raw)
      BY <1>6 DEF UnstashField
    <2>2. s.raw \in Option(Raws)  BY <1>5 DEF FieldStashType
    <2> HIDE DEF s
    <2>3. \A r \in Raws : TrySet(accepts, FromBase(s.base), r).base # NoValue
      BY <1>1, <1>6, <1>7, AncestorStays
    <2>4. QED  BY <1>6, <1>7, <2>1, <2>2, <2>3 DEF Option
  <1>9. d.fields[f] = UnstashField(accepts, s)  BY DEF FromStash
  <1>10. IsBased(d)  BY <1>8, <1>9 DEF IsBased
  <1>11. d.check = NewCheck /\ d.status = "Live"
    BY DEF FromStash, StashInv
  <1>12. QED  BY <1>2, <1>10, <1>11

\* The system kills the app: what is left is the stash.
LEMMA AndroidDiesInv ==
  ASSUME ShellInv, kind = "android", AndroidDies PROVE ShellInv'
  <1>1. main.at = "idle" /\ kind # "web"  BY DEF AndroidDies, MainIdle, IdleMain
  <1>2. /\ IInv /\ Rebasing /\ EchoInv /\ inHand = NoValue
    BY <1>1, PhoneRunning
  <1>3. draftId \in DOMAIN drafts  BY <1>1, HeldDraft
  <1> DEFINE d == drafts[draftId].draft
  <1>4. /\ d \in DraftType /\ d.status = "Live" /\ IsBased(d)
        /\ \A f \in Fields : Admitted(accepts, d.fields[f])
    BY <1>2, <1>3 DEF IInv, EntryInv, EntryType, Rebasing, Live
  <1>5. stash' = Stash(d)
    BY <1>2, <1>3 DEF AndroidDies, IsLive, Rebasing, Draft
  <1> HIDE DEF d
  <1>6. /\ canonical' \in Entities(accepts) /\ accepts' = accepts
        /\ version' = 0 /\ drafts' = Empty /\ nextId' = 0 /\ tokens' = {}
        /\ main'.at = "launch" /\ main' # IdleMain /\ kind' = kind
        /\ control' = NoValue /\ focused' = NoValue /\ touched' = FALSE
        /\ timers' = {} /\ editGen' = editGen
        /\ queue' = <<>> /\ calls' = {} /\ screen' = NoValue /\ inHand' = inHand
        /\ buffers' = [f \in Fields |-> NoValue]
    BY DEF AndroidDies, IdleMain
  <1>7. DOMAIN drafts' = {} /\ drafts' = [id \in DOMAIN drafts' |-> drafts'[id]]
    BY <1>6 DEF Empty
  <1>8. canonical' # NoValue  BY <1>2, <1>6, NoValueIsNoEntity DEF IInv, TypeOK
  <1>9. stash' \in StashType  BY <1>4, <1>5, StashOfDraft
  <1>10. IInv'
    <2>1. accepts' \in AcceptSets  BY <1>2, <1>6 DEF IInv, TypeOK
    <2>2. canonical' \in Entities(accepts') \cup {NoValue} /\ tokens' \subseteq TokenType
      BY <1>6
    <2>3. /\ version' \in Nat /\ nextId' \in Nat /\ DOMAIN drafts' \subseteq 0..(nextId' - 1)
          /\ \A id \in DOMAIN drafts' : EntryInv(accepts', drafts'[id], canonical', version')
      BY <1>6, <1>7
    <2>4. QED  BY <1>7, <1>9, <2>1, <2>2, <2>3, Assembled
  <1>11. CInv' /\ Rebasing'  BY <1>6, <1>7, <1>8 DEF CInv, Rebasing
  <1>12. StashInv'
    BY <1>4, <1>5, <1>6, StashIsRestorable DEF StashInv
  <1>13. OneDraft'  BY <1>6, <1>7 DEF OneDraft
  <1>14. ScreenInv' /\ CallsInv'
    BY <1>2, <1>6 DEF ScreenInv, CallsInv
  <1>15. EchoInv'
    <2>1. ~Painted'  BY <1>6 DEF Painted, MainIdle
    <2>2. buffers' \in [Fields -> Option(Raws)]  BY <1>6 DEF Option
    <2>3. kind' \in Kinds /\ editGen' \in Nat  BY <1>2, <1>6 DEF EchoInv
    <2>4. QED  BY <1>1, <1>6, <2>1, <2>2, <2>3 DEF EchoInv, Option
  <1>16. QED
    BY <1>1, <1>6, <1>10, <1>11, <1>12, <1>13, <1>14, <1>15 DEF ShellInv, PhoneInv

\* A new process restores the stash, or checks out afresh.
LEMMA AndroidLaunchInv ==
  ASSUME ShellInv, kind = "android", AndroidLaunch PROVE ShellInv'
  <1>1. /\ main.at = "launch" /\ PhoneOpen /\ kind # "web" /\ stash' = NoValue
        /\ nextId' = nextId + 1
        /\ UNCHANGED <<canonical, version, tokens, accepts, inHand>>
    BY DEF AndroidLaunch
  <1>2. /\ IInv /\ CInv /\ Rebasing /\ StashInv /\ canonical # NoValue
        /\ DOMAIN drafts = {} /\ nextId = 0 /\ inHand = NoValue
    BY <1>1 DEF ShellInv, PhoneInv, Rebasing, OneDraft, ScreenInv
  <1> DEFINE d == IF stash = NoValue THEN FromCanonical(canonical, version)
                  ELSE FromStash(accepts, stash)
             e == AdoptedEntry(d)
  <1>3. /\ d \in DraftType /\ d.status = "Live" /\ IsBased(d) /\ d.check = NewCheck
        /\ \A f \in Fields : Admitted(accepts, d.fields[f]) /\ ~IsConflicted(d.fields[f])
    BY <1>2, CheckoutIsBased, RestoredIsBased
  <1>4. drafts' = Put(nextId, e)  BY DEF AndroidLaunch
  <1> HIDE DEF d
  <1>5. EntryInv(accepts, e, canonical, version) /\ CheckInv(e.draft, nextId, tokens)
    BY <1>2, <1>3, AdoptedEntryInv, AdoptedCheck DEF IInv
  <1>6. Rebasing' /\ DOMAIN drafts' = {nextId}
    BY <1>1, <1>2, <1>3, <1>4, OpenRebasing
  <1> HIDE DEF e
  <1>7. drafts' = [i \in {nextId} |-> e]
    BY <1>2, <1>4 DEF Put
  <1>8. IInv'
    <2>1. /\ \A id \in DOMAIN drafts' : EntryInv(accepts', drafts'[id], canonical', version')
          /\ drafts' = [id \in DOMAIN drafts' |-> drafts'[id]]
          /\ DOMAIN drafts' \subseteq 0..(nextId' - 1) /\ nextId' \in Nat
      BY <1>1, <1>2, <1>5, <1>7
    <2>2. QED  BY <1>1, <1>2, <2>1, Assembled DEF IInv, TypeOK
  <1>9. CInv'
    <2>1. \A id \in DOMAIN drafts' : CheckInv(drafts'[id].draft, id, tokens')
      BY <1>1, <1>5, <1>7
    <2>2. \A token \in tokens' : token.id < nextId'
      BY <1>1, <1>2 DEF CInv, IInv, TypeOK, TokenType
    <2>3. QED  BY <2>1, <2>2 DEF CInv
  <1>10. StashInv'  BY <1>1 DEF StashInv
  <1>11. QED  BY <1>1, <1>2, <1>6, <1>8, <1>9, <1>10, PhoneOpened

-----------------------------------------------------------------------------
(* The checks on threads of their own *)

\* CallOK, in the next state.
CallStill(c) ==
  /\ c = [id |-> c.id, at |-> c.at, emit |-> c.emit, token |-> c.token, no |-> c.no]
  /\ c.at \in {"called", "pending", "outcall", "push"}
  /\ c.id \in Nat
  /\ c.at \in {"pending", "push"} => BuiltStill(c.emit)
  /\ c.at \in {"pending", "outcall"} => c.token \in tokens' /\ c.token.id = c.id

\* One call moves, or returns.
LEMMA CallsStepped ==
  ASSUME CallsInv, Onward, NEW c \in calls, NEW d,
         \/ calls' = (calls \ {c}) \cup {d} /\ CallStill(d)
         \/ calls' = calls \ {c},
         d.at \in {"pending", "outcall"} =>
           \A o \in calls \ {c} : o.at \in {"pending", "outcall"} => o.id # d.id,
         \A o \in calls \ {c} : o.at \in {"pending", "outcall"} => o.token \in tokens'
  PROVE  CallsInv'
  <1>1. ASSUME NEW o \in calls \ {c} PROVE CallStill(o)
    <2>1. CallOK(o)  BY DEF CallsInv
    <2>2. o.at \in {"pending", "push"} => BuiltStill(o.emit)
      BY <2>1, BuiltLater DEF CallOK
    <2>3. QED  BY <2>1, <2>2 DEF CallOK, CallStill
  <1>2. \A o \in calls' : CallStill(o)  BY <1>1
  <1>3. \A o \in calls' : CallOK(o)'
    BY <1>2 DEF CallOK, CallStill, Built, BuiltStill
  <1>4. \A o, e \in calls' :
          /\ o.at \in {"pending", "outcall"} /\ e.at \in {"pending", "outcall"}
          /\ o.id = e.id
          => o = e
    BY DEF CallsInv
  <1>5. QED  BY <1>3, <1>4 DEF CallsInv

\* What a step of such a thread leaves alone.
LEMMA CallAssembled ==
  ASSUME ShellInv, kind # "web", main.at # "launch",
         UNCHANGED <<kind, main, echoVars, timerVars, screen, inHand>>,
         IInv', CInv', Rebasing', DOMAIN drafts' = DOMAIN drafts,
         UNCHANGED <<version, nextId, stash, accepts>>, QueueOK', CallsInv'
  PROVE  ShellInv'
  <1>1. /\ EchoInv /\ StashInv /\ screen \in SnapshotType
        /\ screen.of = draftId /\ screen.version <= version
        /\ inHand # NoValue => /\ kind = "apple" /\ inHand \in SnapshotType
                               /\ inHand.version < screen.version
        /\ main.at = "pushing" => Built(main.emit)
    BY PhoneRunning
  <1>2. OneDraft /\ OneDraft'  BY DEF ShellInv, OneDraft, draftId
  <1>3. StashInv'  BY <1>1 DEF StashInv
  <1>4. ScreenInv'  BY <1>1 DEF ScreenInv, draftId, Built
  <1>5. EchoInv'
    BY <1>1 DEF EchoInv, echoVars, timerVars, Painted, MainIdle, Follows, Known
  <1>6. QED  BY <1>2, <1>3, <1>4, <1>5 DEF ShellInv, PhoneInv

\* A thread's record has its five fields and no other.
LEMMA CallRecord ==
  ASSUME NEW c, CallOK(c)
  PROVE  \E p, q, r, s, n : c = [id |-> p, at |-> q, emit |-> r, token |-> s, no |-> n]
  BY Zenon DEF CallOK

\* A call whose pending state is shown.
LEMMA CallShown ==
  ASSUME NEW c, CallOK(c), NEW a, NEW e
  PROVE  [c EXCEPT !.at = a, !.emit = e]
           = [id |-> c.id, at |-> a, emit |-> e, token |-> c.token, no |-> c.no]
  <1>1. PICK p, q, r, s, n : c = [id |-> p, at |-> q, emit |-> r, token |-> s, no |-> n]
    BY CallRecord
  <1> DEFINE P == {p}  Q == {q, a}  R == {r, e}  S == {s}  N == {n}
             T == [id : P, at : Q, emit : R, token : S, no : N]
             d == [c EXCEPT !.at = a, !.emit = e]
  <1>2. c \in T /\ a \in Q /\ e \in R
    BY <1>1
  <1> HIDE DEF P, Q, R, S, N
  <1>3. /\ d \in T /\ d.id = c.id /\ d.at = a /\ d.emit = e /\ d.token = c.token /\ d.no = c.no
    BY <1>2
  <1> HIDE DEF d
  <1>4. d = [id |-> c.id, at |-> a, emit |-> e, token |-> c.token, no |-> c.no]  BY <1>3
  <1>5. QED  BY <1>4 DEF d

\* A call that finds the checker in its slot begins a check.
LEMMA CallTakesInv ==
  ASSUME ShellInv, kind # "web", NEW c \in calls, CallTakes(c),
         UNCHANGED <<kind, main, echoVars, timerVars, screen, inHand>>
  PROVE  ShellInv'
  <1> DEFINE id == Handle(c)
  <1>1. main.at # "launch"  BY DEF ShellInv, PhoneInv, ScreenInv
  <1>2. /\ IInv /\ CInv /\ Rebasing /\ CallsInv /\ QueueOK /\ version \in Nat
    BY <1>1, PhoneRunning
  <1>3. queue' = queue  BY DEF CallTakes
  <1>4. CASE id \notin DOMAIN drafts \/ Busy(id)
    <2>1. calls' = calls \ {c} /\ UNCHANGED vars  BY <1>4 DEF CallTakes
    <2>2. /\ Onward /\ UNCHANGED <<version, nextId, tokens, drafts, stash, accepts>>
      BY <2>1, SameVars DEF Onward, vars
    <2>3. CallsInv' /\ QueueOK'
      BY <1>2, <1>3, <2>1, <2>2, CallsLater, QueueLater
    <2>4. QED  BY <1>1, <2>1, <2>2, <2>3, SameVars, CallAssembled
  <1>5. CASE id \in DOMAIN drafts /\ ~Busy(id)
    <2> DEFINE d == drafts[id].draft
               b == Begin(d.check, TextOf(d))
               t == [id |-> id, seq |-> b.seq, text |-> b.about]
               token == CHOOSE u \in tokens' : u \notin tokens
               snap == View(id, drafts'[id].draft)
               new == [c EXCEPT !.id = id, !.at = "pending", !.emit = snap, !.token = token]
    <2>1. BeginCheck(id) /\ calls' = (calls \ {c}) \cup {new}
      BY <1>5 DEF CallTakes, Step
    <2>2. [Next]_vars  BY <1>5, <2>1 DEF Next, UserStep
    <2>3. IInv' /\ CInv'  BY <1>2, <2>2, NextInv, CheckNext
    <2>4. /\ Update(id, [d EXCEPT !.check = b]) /\ tokens' = tokens \cup {t}
          /\ UNCHANGED <<canonical, version, nextId, stash, accepts>>
      BY <2>1 DEF BeginCheck
    <2>5. d \in DraftType /\ CheckInv(d, id, tokens) /\ id \in Nat
      BY <1>2, <1>5 DEF IInv, TypeOK, EntryType, CInv
    <2>6. token = t
      <3>1. d.check.seq \in Nat /\ b.seq = d.check.seq + 1
        BY <2>5 DEF DraftType, CheckType, Begin
      <3>2. \A u \in tokens : u.id = id => u.seq <= d.check.seq
        BY <2>5 DEF CheckInv
      <3> HIDE DEF d, b, id
      <3>3. t.id = id /\ t.seq = b.seq  OBVIOUS
      <3> HIDE DEF t
      <3>4. t \notin tokens  BY <3>1, <3>2, <3>3
      <3>5. QED  BY <2>4, <3>4
    <2>7. Rebasing' /\ DOMAIN drafts' = DOMAIN drafts
      <3>1. [d EXCEPT !.check = b].status = d.status  BY <2>5 DEF DraftType
      <3> HIDE DEF b
      <3>2. QED  BY <1>2, <1>5, <2>4, <3>1, UpdateRebasing
    <2>8. /\ snap \in SnapshotType /\ snap.version = version'
      BY <1>5, <2>3, <2>7, AtVersion
    <2>9. t.id = id /\ t \in tokens'  BY <2>4
    <2> HIDE DEF t, token, snap, id
    <2>10. /\ new = [id |-> id, at |-> "pending", emit |-> snap, token |-> t, no |-> c.no]
      <3>1. CallOK(c)  BY <1>2 DEF CallsInv
      <3>2. PICK p, q, r, s, n : c = [id |-> p, at |-> q, emit |-> r, token |-> s, no |-> n]
        BY <3>1, CallRecord
      <3> DEFINE P == {p, id}  Q == {q, "pending"}  R == {r, snap}  S == {s, token}  N == {n}
                 T == [id : P, at : Q, emit : R, token : S, no : N]
      <3>3. c \in T /\ id \in P /\ "pending" \in Q /\ snap \in R /\ token \in S
        BY <3>2
      <3> HIDE DEF P, Q, R, S, N
      <3>4. /\ new \in T /\ new.id = id /\ new.at = "pending" /\ new.emit = snap
            /\ new.token = token /\ new.no = c.no
        BY <3>3
      <3> HIDE DEF new
      <3>5. QED  BY <2>6, <3>4
    <2> HIDE DEF new
    <2>11. main'.at # "submitted"
      BY <1>5 DEF ShellInv, OneDraft
    <2>12. BuiltStill(snap)
      BY <1>2, <2>4, <2>8, <2>11 DEF BuiltStill, SnapshotType
    <2>13. CallStill(new)
      BY <2>5, <2>9, <2>10, <2>12 DEF CallStill
    <2>14. Onward  BY <1>2, <2>4 DEF Onward
    <2>15. \A o \in calls : o.at \in {"pending", "outcall"} => o.id # id /\ o.token \in tokens'
      BY <1>2, <1>5, <2>4 DEF Busy, CallsInv, CallOK
    <2>16. new.id = id  BY <2>10
    <2>17. CallsInv'
      BY <1>2, <2>1, <2>13, <2>14, <2>15, <2>16, CallsStepped
    <2>18. QueueOK'  BY <1>2, <1>3, <2>4, <2>14, QueueLater
    <2>19. QED
      BY <1>1, <2>3, <2>4, <2>7, <2>17, <2>18, CallAssembled
  <1>6. QED  BY <1>4, <1>5

\* The pushes of a check.
LEMMA CallPushesInv ==
  ASSUME ShellInv, kind # "web", NEW c \in calls, CallShowsPending(c) \/ CallPushes(c),
         UNCHANGED <<kind, main, echoVars, timerVars, screen, inHand>>
  PROVE  ShellInv'
  <1> DEFINE new == [c EXCEPT !.at = "outcall", !.emit = NoValue]
  <1>1. main.at # "launch"  BY DEF ShellInv, PhoneInv, ScreenInv
  <1>2. /\ CallsInv /\ QueueOK  BY <1>1, PhoneRunning
  <1>3. /\ UNCHANGED vars /\ Enqueue(c.emit) /\ c.at \in {"pending", "push"}
    BY DEF CallShowsPending, CallPushes
  <1>4. /\ Onward /\ UNCHANGED <<version, nextId, tokens, drafts, stash, accepts>>
    BY <1>3, SameVars DEF Onward, vars
  <1>5. CallOK(c) /\ Built(c.emit)  BY <1>2, <1>3 DEF CallsInv, CallOK
  <1>6. QueueOK'  BY <1>2, <1>3, <1>4, <1>5, QueueGrows
  <1>7. CallsInv'
    <2>1. CASE CallPushes(c)
      <3>1. calls' \subseteq calls  BY <2>1 DEF CallPushes
      <3>2. QED  BY <1>2, <1>4, <3>1, CallsLater
    <2>2. CASE CallShowsPending(c)
      <3>1. calls' = (calls \ {c}) \cup {new} /\ c.at = "pending"
        BY <2>2 DEF CallShowsPending, Step
      <3>2. new = [id |-> c.id, at |-> "outcall", emit |-> NoValue, token |-> c.token, no |-> c.no]
        BY <1>5, CallShown, Zenon
      <3> HIDE DEF new
      <3>3. CallStill(new) /\ new.id = c.id
        BY <1>4, <1>5, <3>1, <3>2 DEF CallStill, CallOK
      <3>4. \A o \in calls \ {c} : o.at \in {"pending", "outcall"} =>
                                     o.id # c.id /\ o.token \in tokens'
        BY <1>2, <1>4, <3>1 DEF CallsInv, CallOK
      <3>5. QED  BY <1>2, <1>4, <3>1, <3>3, <3>4, CallsStepped
    <2>3. QED  BY <2>1, <2>2
  <1>8. QED  BY <1>1, <1>3, <1>4, <1>6, <1>7, SameVars, CallAssembled

\* The answer: the token is consumed, of a draft that may be gone.
LEMMA CallSettlesInv ==
  ASSUME ShellInv, kind # "web", NEW c \in calls, CallSettles(c),
         UNCHANGED <<kind, main, echoVars, timerVars, screen, inHand>>
  PROVE  ShellInv'
  <1>1. main.at # "launch"  BY DEF ShellInv, PhoneInv, ScreenInv
  <1>2. /\ IInv /\ CInv /\ Rebasing /\ CallsInv /\ QueueOK /\ version \in Nat
    BY <1>1, PhoneRunning
  <1>3. CallOK(c) /\ c.at = "outcall" /\ c.token \in tokens /\ c.token.id = c.id /\ queue' = queue
    BY <1>2 DEF CallsInv, CallOK, CallSettles
  <1>4. PICK verdict \in Verdicts : CompleteCheck(c.token, verdict)
    BY DEF CallSettles
  <1>5. [Next]_vars  BY <1>3, <1>4 DEF Next
  <1>6. IInv' /\ CInv'  BY <1>2, <1>5, NextInv, CheckNext
  <1>7. /\ tokens' = tokens \ {c.token}
        /\ UNCHANGED <<canonical, version, nextId, stash, accepts>>
    BY <1>4 DEF CompleteCheck
  <1>8. Rebasing' /\ DOMAIN drafts' = DOMAIN drafts
    <2>1. CASE c.id \in DOMAIN drafts
      <3> DEFINE d == drafts[c.id].draft
                 k == Complete(d.check, c.token, verdict)
      <3>1. Update(c.id, [d EXCEPT !.check = k])
        BY <1>3, <1>4, <2>1 DEF CompleteCheck
      <3>2. d \in DraftType  BY <1>2, <2>1 DEF IInv, TypeOK, EntryType
      <3> HIDE DEF k
      <3>3. [d EXCEPT !.check = k].status = d.status  BY <3>2 DEF DraftType
      <3>4. QED  BY <1>2, <1>7, <2>1, <3>1, <3>3, UpdateRebasing
    <2>2. CASE c.id \notin DOMAIN drafts
      <3>1. drafts' = drafts  BY <1>3, <1>4, <2>2 DEF CompleteCheck
      <3>2. QED  BY <1>2, <1>7, <3>1 DEF Rebasing, Live
    <2>3. QED  BY <2>1, <2>2
  <1>9. Onward  BY <1>2, <1>7 DEF Onward
  <1>10. \A o \in calls \ {c} : o.at \in {"pending", "outcall"} => o.token \in tokens'
    BY <1>2, <1>3, <1>7 DEF CallsInv, CallOK
  <1>11. CallsInv'
    <2>1. CASE c.id \in DOMAIN drafts
      <3> DEFINE snap == View(c.id, drafts'[c.id].draft)
                 new == [c EXCEPT !.at = "push", !.token = NoValue, !.emit = snap]
      <3>1. calls' = (calls \ {c}) \cup {new}  BY <2>1 DEF CallSettles, Step
      <3>2. snap \in SnapshotType /\ snap.version = version'
        BY <1>6, <1>8, <2>1, AtVersion
      <3> HIDE DEF snap
      <3>3. new = [id |-> c.id, at |-> "push", emit |-> snap, token |-> NoValue, no |-> c.no]
        <4>1. PICK p, q, r, s, n : c = [id |-> p, at |-> q, emit |-> r, token |-> s, no |-> n]
          BY <1>3, CallRecord
        <4> DEFINE P == {p}  Q == {q, "push"}  R == {r, snap}  S == {s, NoValue}  N == {n}
                   T == [id : P, at : Q, emit : R, token : S, no : N]
        <4>2. c \in T /\ "push" \in Q /\ snap \in R /\ NoValue \in S
          BY <4>1
        <4> HIDE DEF P, Q, R, S, N
        <4>3. /\ new \in T /\ new.id = c.id /\ new.at = "push" /\ new.emit = snap
              /\ new.token = NoValue /\ new.no = c.no
          BY <4>2
        <4> HIDE DEF new
        <4>4. QED  BY <4>3
      <3> HIDE DEF new
      <3>4. main'.at # "submitted"  BY <2>1 DEF ShellInv, OneDraft
      <3>5. BuiltStill(snap)
        BY <1>2, <1>7, <3>2, <3>4 DEF BuiltStill, SnapshotType
      <3>6. CallStill(new) /\ new.at = "push"
        BY <1>3, <3>3, <3>5 DEF CallStill, CallOK
      <3>7. QED  BY <1>2, <1>9, <1>10, <3>1, <3>6, CallsStepped
    <2>2. CASE c.id \notin DOMAIN drafts
      <3>1. calls' = calls \ {c}  BY <2>2 DEF CallSettles
      <3>2. c.at \in {"pending", "outcall"} =>
              \A o \in calls \ {c} : o.at \in {"pending", "outcall"} => o.id # c.id
        BY <1>2 DEF CallsInv
      <3>3. QED  BY <1>2, <1>9, <1>10, <3>1, <3>2, CallsStepped
    <2>3. QED  BY <2>1, <2>2
  <1>12. QueueOK'  BY <1>2, <1>3, <1>7, <1>9, QueueLater
  <1>13. QED
    BY <1>1, <1>6, <1>7, <1>8, <1>11, <1>12, CallAssembled

-----------------------------------------------------------------------------
(* The web controller, step by step *)

\* The draft of a web controller that is idle, alive or orphaned.
LEMMA WebRunning ==
  ASSUME ShellInv, kind = "web", MainIdle
  PROVE  /\ IInv /\ EchoInv /\ WebInv /\ main.at = "idle"
         /\ draftId \in DOMAIN drafts /\ DOMAIN drafts = {draftId} /\ draftId \in Nat
         /\ drafts[draftId] \in EntryType /\ Draft \in DraftType
         /\ focused = control
         /\ \A f \in Fields : ~(touched /\ focused = f) => buffers[f] = Texts(Draft)[f]
  <1>1. IInv /\ EchoInv /\ WebInv /\ main.at = "idle"
    BY DEF ShellInv, MainIdle, IdleMain
  <1>2. /\ draftId \in DOMAIN drafts /\ DOMAIN drafts = {draftId} /\ draftId \in Nat
    BY <1>1, HeldDraft
  <1>3. drafts[draftId] \in EntryType /\ Draft \in DraftType
    BY <1>1, <1>2 DEF IInv, TypeOK, EntryType, Draft
  <1>4. Follows /\ focused = control
    BY <1>1 DEF EchoInv, Painted
  <1>5. QED  BY <1>1, <1>2, <1>3, <1>4 DEF Follows, Known

\* A step of an idle web controller that keeps its draft, whatever it does to
\* it, and shows what the draft says then.
LEMMA WebKept ==
  ASSUME ShellInv, kind = "web", MainIdle, UNCHANGED <<kind, main, phoneVars, nextId>>,
         IInv', DOMAIN drafts' = DOMAIN drafts,
         control' \in Option(Fields), focused' = control',
         touched' \in BOOLEAN, touched' => focused' # NoValue,
         buffers' \in [Fields -> Option(Raws)], timers' \subseteq Nat, editGen' \in Nat,
         \A f \in Fields : ~(touched' /\ focused' = f) =>
           buffers'[f] = Texts(drafts'[draftId].draft)[f]
  PROVE  ShellInv'
  <1>1. /\ WebInv /\ main.at = "idle" /\ main' = main /\ draftId' = draftId
        /\ DOMAIN drafts = {draftId}
    BY WebRunning DEF draftId
  <1>2. Draft' = drafts'[draftId].draft  BY <1>1 DEF Draft
  <1>3. Texts(Draft)' = Texts(drafts'[draftId].draft)  BY <1>2 DEF Texts
  <1>4. Follows'  BY <1>3 DEF Follows, Known
  <1>5. EchoInv'
    <2>1. EchoInv  BY DEF ShellInv
    <2>2. QED  BY <1>1, <1>4, <2>1 DEF EchoInv, Option
  <1>6. OneDraft'  BY <1>1 DEF OneDraft
  <1>7. WebInv'  BY <1>1 DEF WebInv, phoneVars
  <1>8. QED  BY <1>5, <1>6, <1>7 DEF ShellInv

\* The texts of a draft whose check alone has moved.
LEMMA CheckMovesNoText ==
  ASSUME NEW id \in DOMAIN drafts, drafts[id] \in EntryType, NEW k \in CheckType,
         drafts = [i \in DOMAIN drafts |-> drafts[i]],
         Update(id, [drafts[id].draft EXCEPT !.check = k])
  PROVE  /\ DOMAIN drafts' = DOMAIN drafts
         /\ Texts(drafts'[id].draft) = Texts(drafts[id].draft)
  <1> DEFINE d == [drafts[id].draft EXCEPT !.check = k]
             e == [drafts[id] EXCEPT !.draft = d]
  <1>1. drafts' = [drafts EXCEPT ![id] = e]  BY DEF Update
  <1>2. drafts[id].draft \in DraftType  BY DEF EntryType
  <1>3. d.fields = drafts[id].draft.fields /\ e.draft = d
    BY <1>2 DEF DraftType, EntryType
  <1> HIDE DEF d, e
  <1>4. drafts'[id] = e /\ DOMAIN drafts' = DOMAIN drafts  BY <1>1
  <1>5. QED  BY <1>3, <1>4 DEF Texts

\* The user moves between the controls.
LEMMA WebFocusBlur ==
  ASSUME ShellInv, kind = "web", NEW g \in Fields, Focus(g) \/ Blur PROVE ShellInv'
  <1>1. /\ MainIdle /\ UNCHANGED <<vars, kind, main, timers, editGen, phoneVars>>
        /\ touched' = FALSE /\ control' \in Option(Fields) /\ focused' = control'
        /\ buffers' = Known \/ (buffers' = buffers /\ control = NoValue)
    BY DEF Focus, Blur, Option, timerVars
  <1>2. /\ EchoInv /\ Draft \in DraftType /\ focused = control
        /\ \A f \in Fields : ~(touched /\ focused = f) => buffers[f] = Texts(Draft)[f]
    BY <1>1, WebRunning
  <1>3. Texts(Draft) \in [Fields -> Option(Raws)]
    BY <1>2 DEF Texts, DraftType, FieldType
  <1>4. /\ buffers' \in [Fields -> Option(Raws)]
        /\ \A f \in Fields : buffers'[f] = Texts(Draft)[f]
    <2>1. CASE buffers' = Known  BY <1>3, <2>1 DEF Known
    <2>2. CASE buffers' = buffers /\ control = NoValue
      BY <1>2, <2>2 DEF EchoInv
    <2>3. QED  BY <1>1, <2>1, <2>2
  <1>5. /\ IInv' /\ nextId' = nextId /\ drafts' = drafts
    BY <1>1, SameVars
  <1>6. Texts(drafts'[draftId].draft) = Texts(Draft)  BY <1>5 DEF Draft
  <1>7. timers' \subseteq Nat /\ editGen' \in Nat  BY <1>1, <1>2 DEF EchoInv
  <1>8. QED  BY <1>1, <1>4, <1>5, <1>6, <1>7, WebKept

\* A keystroke moves the text of its own field only.
LEMMA WebTypeInv ==
  ASSUME ShellInv, kind = "web", NEW f \in Fields, NEW r \in Raws, WebType(f, r)
  PROVE  ShellInv'
  <1>1. /\ MainIdle /\ control = f /\ buffers' = [buffers EXCEPT ![f] = r]
        /\ touched' = (touched \/ focused = f)
        /\ UNCHANGED <<kind, main, control, focused, phoneVars>>
    BY DEF WebType, Keystroke
  <1>2. /\ IInv /\ EchoInv /\ Draft \in DraftType /\ focused = control
        /\ draftId \in DOMAIN drafts /\ drafts[draftId] \in EntryType
        /\ \A g \in Fields : ~(touched /\ focused = g) => buffers[g] = Texts(Draft)[g]
    BY <1>1, WebRunning
  <1>3. f # NoValue  OBVIOUS
  <1>4. /\ touched' = TRUE /\ buffers' \in [Fields -> Option(Raws)]
        /\ control' \in Option(Fields) /\ focused' = control' /\ focused' # NoValue
    BY <1>1, <1>2, <1>3 DEF EchoInv, Option
  <1>5. timers' \subseteq Nat /\ editGen' \in Nat
    BY <1>2 DEF WebType, EchoInv, timerVars
  <1>6. /\ IInv' /\ nextId' = nextId /\ DOMAIN drafts' = DOMAIN drafts
        /\ \A g \in Fields \ {f} : Texts(drafts'[draftId].draft)[g] = Texts(Draft)[g]
    <2>1. CASE ~IsLive
      <3>1. UNCHANGED vars  BY <2>1 DEF WebType
      <3>2. QED  BY <3>1, SameVars DEF Draft
    <2>2. CASE IsLive
      <3> DEFINE x == TrySet(accepts, drafts[draftId].draft.fields[f], r)
                 d == SetField(drafts[draftId].draft, f, x)
                 e == [drafts[draftId] EXCEPT !.draft = d]
      <3>1. SetRaw(draftId, f, r)  BY <2>2 DEF WebType
      <3>2. IInv'
        <4>1. [Next]_vars  BY <1>2, <3>1 DEF Next, UserStep
        <4>2. QED  BY <1>2, <4>1, NextInv
      <3>3. drafts' = [drafts EXCEPT ![draftId] = e] /\ nextId' = nextId
        BY <3>1 DEF SetRaw, EditField, Update
      <3>4. d.fields = [Draft.fields EXCEPT ![f] = x]
        BY <1>2 DEF SetField, Guarded, DraftType, Draft
      <3>5. e.draft = d  BY <1>2 DEF EntryType
      <3>6. Draft.fields \in [Fields -> FieldType]  BY <1>2 DEF DraftType
      <3> HIDE DEF x, d, e
      <3>7. \A g \in Fields \ {f} : d.fields[g] = Draft.fields[g]
        BY <3>4, <3>6
      <3>8. drafts'[draftId].draft = d /\ DOMAIN drafts' = DOMAIN drafts
        BY <1>2, <3>3, <3>5
      <3>9. QED  BY <3>2, <3>3, <3>7, <3>8 DEF Texts
    <2>3. QED  BY <2>1, <2>2
  <1>7. ASSUME NEW g \in Fields, ~(touched' /\ focused' = g)
        PROVE  buffers'[g] = Texts(drafts'[draftId].draft)[g]
    <2>1. g # f /\ focused # g  BY <1>1, <1>2, <1>4, <1>7
    <2>2. buffers'[g] = buffers[g]  BY <1>1, <1>2, <2>1 DEF EchoInv
    <2>3. QED  BY <1>2, <1>6, <2>1, <2>2
  <1>8. QED  BY <1>1, <1>4, <1>5, <1>6, <1>7, WebKept

\* A step that moves the check of the held draft, or nothing of it.
LEMMA WebChecks ==
  ASSUME ShellInv, kind = "web", MainIdle, IInv',
         UNCHANGED <<kind, main, echoVars, editGen, phoneVars, nextId>>, timers' \subseteq timers,
         \/ drafts' = drafts
         \/ \E k \in CheckType : Update(draftId, [drafts[draftId].draft EXCEPT !.check = k])
  PROVE  ShellInv'
  <1>1. /\ IInv /\ EchoInv /\ draftId \in DOMAIN drafts /\ drafts[draftId] \in EntryType
        /\ focused = control
        /\ \A f \in Fields : ~(touched /\ focused = f) => buffers[f] = Texts(Draft)[f]
    BY WebRunning
  <1>2. /\ DOMAIN drafts' = DOMAIN drafts
        /\ Texts(drafts'[draftId].draft) = Texts(Draft)
    <2>1. CASE drafts' = drafts  BY <2>1 DEF Draft
    <2>2. ASSUME NEW k \in CheckType,
                 Update(draftId, [drafts[draftId].draft EXCEPT !.check = k])
          PROVE  /\ DOMAIN drafts' = DOMAIN drafts
                 /\ Texts(drafts'[draftId].draft) = Texts(Draft)
      <3>1. drafts = [i \in DOMAIN drafts |-> drafts[i]]  BY <1>1 DEF IInv, TypeOK
      <3>2. QED  BY <1>1, <2>2, <3>1, CheckMovesNoText DEF Draft
    <2>3. QED  BY <2>1, <2>2
  <1>3. /\ buffers' = buffers /\ control' = control /\ focused' = focused
        /\ touched' = touched /\ editGen' = editGen
    BY DEF echoVars
  <1>4. /\ buffers' \in [Fields -> Option(Raws)] /\ timers' \subseteq Nat /\ editGen' \in Nat
        /\ touched' \in BOOLEAN /\ (touched' => focused' # NoValue)
        /\ control' \in Option(Fields) /\ focused' = control'
    BY <1>1, <1>3 DEF EchoInv
  <1>5. QED  BY <1>1, <1>2, <1>3, <1>4, WebKept

\* A timer fires: the last edit's asks for a check, the others do nothing.
LEMMA WebTimerInv ==
  ASSUME ShellInv, kind = "web", NEW ticket, WebTimer(ticket) PROVE ShellInv'
  <1>1. /\ MainIdle /\ timers' \subseteq timers
        /\ UNCHANGED <<kind, main, editGen, echoVars, phoneVars>>
        /\ BeginCheck(draftId) \/ UNCHANGED vars
    BY DEF WebTimer
  <1>2. IInv /\ draftId \in DOMAIN drafts /\ Draft \in DraftType
    BY <1>1, WebRunning
  <1>3. CASE UNCHANGED vars
    <2>1. IInv' /\ nextId' = nextId /\ drafts' = drafts  BY <1>3, SameVars
    <2>2. QED  BY <1>1, <2>1, WebChecks
  <1>4. CASE BeginCheck(draftId)
    <2> DEFINE k == Begin(drafts[draftId].draft.check, TextOf(drafts[draftId].draft))
    <2>1. [Next]_vars  BY <1>2, <1>4 DEF Next, UserStep
    <2>2. IInv'  BY <1>2, <2>1, NextInv
    <2>3. /\ Update(draftId, [drafts[draftId].draft EXCEPT !.check = k])
          /\ nextId' = nextId
      BY <1>4 DEF BeginCheck
    <2>4. k \in CheckType
      <3>1. Draft.check \in CheckType /\ TextOf(Draft) \in Option(Raws)
        BY <1>2, DraftAssumption DEF DraftType, TextOf, FieldType
      <3>2. QED  BY <3>1 DEF Begin, CheckType, Draft
    <2> HIDE DEF k
    <2>5. QED  BY <1>1, <2>2, <2>3, <2>4, WebChecks
  <1>5. QED  BY <1>1, <1>3, <1>4

\* A lookup answers, whichever draft it was begun for.
LEMMA WebVerdictInv ==
  ASSUME ShellInv, kind = "web", NEW token \in tokens, NEW verdict \in Verdicts,
         WebVerdict(token, verdict)
  PROVE  ShellInv'
  <1>1. /\ MainIdle /\ tokens' = tokens \ {token}
        /\ UNCHANGED <<canonical, version, nextId, stash, accepts>>
        /\ UNCHANGED <<kind, main, echoVars, timers, editGen, phoneVars>>
    BY DEF WebVerdict, timerVars
  <1>2. IInv /\ draftId \in DOMAIN drafts /\ Draft \in DraftType
    BY <1>1, WebRunning
  <1>3. tokens \subseteq TokenType  BY <1>2 DEF IInv, TypeOK
  <1>4. CASE ~IsLive
    <2>1. drafts' = drafts  BY <1>4 DEF WebVerdict
    <2>2. IInv'
      BY <1>1, <1>2, <1>3, <2>1 DEF IInv, TypeOK, EntryInv
    <2>3. QED  BY <1>1, <2>1, <2>2, WebChecks
  <1>5. CASE IsLive
    <2> DEFINE k == Complete(drafts[draftId].draft.check, token, verdict)
    <2>1. Update(draftId, [drafts[draftId].draft EXCEPT !.check = k])
      BY <1>5 DEF WebVerdict, Draft
    <2>2. k \in CheckType
      <3>1. Draft.check \in CheckType /\ token.text \in Option(Raws)
        BY <1>2, <1>3 DEF DraftType, TokenType
      <3>2. QED  BY <3>1 DEF Complete, Accepts, CheckType, Draft
    <2> HIDE DEF k
    <2>3. EntryInv(accepts, drafts[draftId], canonical, version)
      BY <1>2 DEF IInv
    <2>4. EntryInv(accepts, [drafts[draftId] EXCEPT !.draft =
                               [drafts[draftId].draft EXCEPT !.check = k]], canonical, version)
      BY <2>2, <2>3, CheckedEntry
    <2>5. IInv'
      BY <1>1, <1>2, <1>3, <2>1, <2>4, UpdateInv
    <2>6. QED  BY <1>1, <2>1, <2>2, <2>5, WebChecks
  <1>6. QED  BY <1>4, <1>5

\* A step that repaints every control from the held draft, but the one typed
\* into.
LEMMA WebRepaints ==
  ASSUME ShellInv, kind = "web", MainIdle, IInv', NEW force,
         UNCHANGED <<kind, main, control, focused, timers, editGen, phoneVars, nextId>>,
         DOMAIN drafts' = DOMAIN drafts,
         Repaint(focused, Texts(drafts'[draftId].draft), force)
  PROVE  ShellInv'
  <1> DEFINE texts == Texts(drafts'[draftId].draft)
  <1>1. EchoInv /\ draftId \in DOMAIN drafts /\ focused = control
    BY WebRunning
  <1>2. drafts'[draftId].draft \in DraftType
    BY <1>1 DEF IInv, TypeOK, EntryType
  <1>3. texts \in [Fields -> Option(Raws)]
    BY <1>2 DEF Texts, DraftType, FieldType
  <1> HIDE DEF texts
  <1>4. /\ buffers' \in [Fields -> Option(Raws)] /\ touched' \in BOOLEAN
        /\ (touched' => touched)
        /\ \A f \in Fields : ~(touched' /\ focused = f) => buffers'[f] = texts[f]
    <2>1. buffers \in [Fields -> Option(Raws)] /\ touched \in BOOLEAN
      BY <1>1 DEF EchoInv
    <2>2. Repaint(focused, texts, force)  BY DEF texts
    <2>3. QED  BY <1>3, <2>1, <2>2, Repainted
  <1>5. /\ timers' \subseteq Nat /\ editGen' \in Nat /\ (touched' => focused' # NoValue)
        /\ control' \in Option(Fields) /\ focused' = control'
    BY <1>1, <1>4 DEF EchoInv
  <1>6. QED  BY <1>4, <1>5, WebKept DEF texts

\* A resolution.
LEMMA WebResolveInv ==
  ASSUME ShellInv, kind = "web", NEW f \in Fields, WebResolve(f) PROVE ShellInv'
  <1>1. /\ MainIdle
        /\ ResolveKeepMine(draftId, f) \/ ResolveTakeTheirs(draftId, f)
        /\ Repaint(focused, Texts(drafts'[draftId].draft), f)
        /\ UNCHANGED <<kind, main, control, focused, timers, editGen, phoneVars>>
    BY DEF WebResolve, timerVars
  <1>2. IInv /\ draftId \in DOMAIN drafts  BY <1>1, WebRunning
  <1>3. [Next]_vars
    <2>1. \E g \in Fields : ResolveKeepMine(draftId, g) \/ ResolveTakeTheirs(draftId, g)
      BY <1>1
    <2>2. UserStep(draftId)  BY <2>1 DEF UserStep
    <2>3. QED  BY <1>2, <2>2 DEF Next
  <1>4. IInv'  BY <1>2, <1>3, NextInv
  <1>5. nextId' = nextId /\ DOMAIN drafts' = DOMAIN drafts
    <2>1. ASSUME NEW x, EditField(draftId, f, x)
          PROVE  nextId' = nextId /\ DOMAIN drafts' = DOMAIN drafts
      BY <2>1 DEF EditField, Update
    <2>2. CASE ResolveKeepMine(draftId, f)  BY <2>1, <2>2 DEF ResolveKeepMine
    <2>3. CASE ResolveTakeTheirs(draftId, f)  BY <2>1, <2>3 DEF ResolveTakeTheirs
    <2>4. QED  BY <1>1, <2>2, <2>3
  <1>6. QED  BY <1>1, <1>4, <1>5, WebRepaints

\* The simulated server: a push repaints, a deletion leaves the orphan's texts.
LEMMA WebServerInv ==
  ASSUME ShellInv, kind = "web", WebServer PROVE ShellInv'
  <1>1. /\ MainIdle /\ UNCHANGED <<kind, main, control, focused, timers, editGen, phoneVars>>
    BY DEF WebServer, timerVars
  <1>2. /\ IInv /\ EchoInv /\ draftId \in DOMAIN drafts /\ drafts[draftId] \in EntryType
        /\ focused = control
        /\ \A f \in Fields : ~(touched /\ focused = f) => buffers[f] = Texts(Draft)[f]
    BY <1>1, WebRunning
  <1>3. [Next]_vars  BY DEF WebServer, Next
  <1>4. IInv'  BY <1>2, <1>3, NextInv
  <1>5. CASE /\ \E entity \in Entities(accepts) : ApplyCanonical(entity)
             /\ Repaint(focused, Texts(drafts'[draftId].draft), NoValue)
    <2>1. nextId' = nextId /\ DOMAIN drafts' = DOMAIN drafts
      BY <1>5 DEF ApplyCanonical, Apply, Rebased
    <2>2. QED  BY <1>1, <1>4, <1>5, <2>1, WebRepaints
  <1>6. CASE DeleteCanonical /\ UNCHANGED <<buffers, touched>>
    <2>1. /\ nextId' = nextId /\ DOMAIN drafts' = DOMAIN drafts
          /\ drafts'[draftId] = IF drafts[draftId].rebases
                                THEN [draft |-> Orphan(drafts[draftId].draft), rebases |-> FALSE]
                                ELSE drafts[draftId]
      BY <1>2, <1>6 DEF DeleteCanonical
    <2>2. Orphan(drafts[draftId].draft).fields = drafts[draftId].draft.fields
      BY <1>2 DEF Orphan, EntryType, DraftType
    <2>3. drafts'[draftId].draft.fields = drafts[draftId].draft.fields
      BY <2>1, <2>2
    <2>4. Texts(drafts'[draftId].draft) = Texts(Draft)
      BY <2>3 DEF Texts, Draft
    <2>5. /\ buffers' \in [Fields -> Option(Raws)] /\ touched' \in BOOLEAN
          /\ timers' \subseteq Nat /\ editGen' \in Nat /\ (touched' => focused' # NoValue)
          /\ control' \in Option(Fields) /\ focused' = control'
      BY <1>1, <1>2, <1>6 DEF EchoInv
    <2>6. \A f \in Fields : ~(touched' /\ focused' = f) =>
            buffers'[f] = Texts(drafts'[draftId].draft)[f]
      BY <1>1, <1>2, <1>6, <2>4
    <2>7. QED  BY <1>1, <1>4, <2>1, <2>5, <2>6, WebKept
  <1>7. QED  BY <1>5, <1>6 DEF WebServer

\* The commit: the draft is gone before the next one is opened.
LEMMA WebSubmitInv ==
  ASSUME ShellInv, kind = "web", WebSubmit PROVE ShellInv'
  <1>1. /\ MainIdle /\ control = NoValue /\ Submit(draftId) /\ main'.at = "submitted"
        /\ UNCHANGED <<kind, buffers, control, focused, touched, timers, editGen, phoneVars>>
    BY DEF WebSubmit, IdleMain, echoVars, timerVars
  <1>2. /\ IInv /\ EchoInv /\ WebInv /\ draftId \in DOMAIN drafts /\ DOMAIN drafts = {draftId}
    BY <1>1, WebRunning
  <1>3. [Next]_vars  BY <1>1, <1>2 DEF Next, UserStep
  <1>4. IInv'  BY <1>2, <1>3, NextInv
  <1>5. DOMAIN drafts' = {}
    <2>1. DOMAIN drafts' = DOMAIN drafts \ {draftId}
      BY <1>1 DEF Submit, Apply, Rebased, Without
    <2>2. QED  BY <1>2, <2>1
  <1>6. OneDraft'  BY <1>1, <1>5 DEF OneDraft
  <1>7. EchoInv'
    <2>1. ~Painted'  BY <1>1 DEF Painted, MainIdle, IdleMain
    <2>2. QED  BY <1>1, <1>2, <2>1 DEF EchoInv
  <1>8. WebInv'  BY <1>1, <1>2 DEF WebInv, phoneVars
  <1>9. QED  BY <1>1, <1>4, <1>6, <1>7, <1>8 DEF ShellInv

\* The first checkout and the one after a submit.
LEMMA WebOpensInv ==
  ASSUME ShellInv, kind = "web", WebOpen \/ WebRecheckout PROVE ShellInv'
  <1> DEFINE texts == Texts(drafts'[nextId].draft)
  <1>1. /\ main.at \in {"launch", "submitted"} /\ Checkout
        /\ main' = IdleMain /\ main'.at = "idle"
        /\ UNCHANGED <<kind, control, timers, editGen, phoneVars>>
    BY DEF WebOpen, WebRecheckout, timerVars, IdleMain
  <1>2. IInv /\ EchoInv /\ WebInv /\ DOMAIN drafts = {} /\ nextId \in Nat
    BY <1>1 DEF ShellInv, OneDraft, IInv, TypeOK
  <1>3. [Next]_vars  BY <1>1 DEF Next
  <1>4. IInv'  BY <1>2, <1>3, NextInv
  <1>5. nextId' = nextId + 1 /\ DOMAIN drafts' = {nextId}
    <2>1. \E d : Adopt(d)  BY <1>1 DEF Checkout
    <2>2. \E e : drafts' = Put(nextId, e) /\ nextId' = nextId + 1
      BY <2>1 DEF Adopt
    <2>3. QED  BY <1>2, <2>2 DEF Put
  <1>6. draftId' = nextId  BY <1>2, <1>5 DEF draftId
  <1>7. OneDraft'  BY <1>1, <1>5, <1>6 DEF OneDraft
  <1>8. texts \in [Fields -> Option(Raws)]
    <2>1. drafts'[nextId].draft \in DraftType
      BY <1>4, <1>5 DEF IInv, TypeOK, EntryType
    <2>2. QED  BY <2>1 DEF Texts, DraftType, FieldType
  <1> HIDE DEF texts
  <1>9. /\ buffers' \in [Fields -> Option(Raws)] /\ touched' = FALSE
        /\ focused' = control'
        /\ \A f \in Fields : buffers'[f] = texts[f]
    <2>1. CASE WebOpen
      <3>1. buffers' = texts /\ touched' = touched /\ focused' = focused /\ main.at = "launch"
        BY <2>1 DEF WebOpen, texts
      <3>2. touched = FALSE /\ focused = control
        BY <1>2, <3>1 DEF EchoInv
      <3>3. QED  BY <1>1, <1>8, <3>1, <3>2
    <2>2. CASE WebRecheckout
      <3>1. /\ Repaint(NoValue, texts, NoValue) /\ focused' = NoValue /\ main.at = "submitted"
        BY <2>2 DEF WebRecheckout, texts
      <3>2. touched' = FALSE  BY <3>1 DEF Repaint
      <3>3. buffers \in [Fields -> Option(Raws)] /\ touched \in BOOLEAN /\ control = NoValue
        BY <1>2, <3>1 DEF EchoInv
      <3>4. /\ buffers' \in [Fields -> Option(Raws)]
            /\ \A f \in Fields : ~(touched' /\ NoValue = f) => buffers'[f] = texts[f]
        BY <1>8, <3>1, <3>3, Repainted
      <3>5. QED  BY <1>1, <3>1, <3>2, <3>3, <3>4
    <2>3. QED  BY <2>1, <2>2
  <1>10. Follows'
    <2>1. Draft' = drafts'[nextId].draft  BY <1>6 DEF Draft
    <2>2. Texts(Draft)' = texts  BY <2>1 DEF Texts, texts
    <2>3. Known' = texts  BY <1>1, <2>2 DEF Known
    <2>4. QED  BY <1>9, <2>3 DEF Follows
  <1>11. EchoInv'
    BY <1>1, <1>2, <1>9, <1>10 DEF EchoInv
  <1>12. WebInv'  BY <1>1, <1>2 DEF WebInv, phoneVars
  <1>13. QED  BY <1>1, <1>4, <1>7, <1>11, <1>12 DEF ShellInv

-----------------------------------------------------------------------------
(* The invariant *)

\* Every step of every shell preserves it.
LEMMA ShellNextInv == ShellInv /\ [ShellNext]_shellVars => ShellInv'
  <1> SUFFICES ASSUME ShellInv, [ShellNext]_shellVars PROVE ShellInv'
    OBVIOUS
  <1>1. ASSUME kind # "web", PhoneUser \/ PhoneRuns PROVE ShellInv'
    <2>1. CASE Blur  BY <1>1, <2>1, PhoneFocusBlur, DraftAssumption
    <2>2. CASE PhoneSubmit  BY <1>1, <2>2, PhoneSubmitInv
    <2>3. CASE PhoneServer  BY <1>1, <2>3, PhoneResolveServerInv
    <2>4. ASSUME NEW f \in Fields, Focus(f) PROVE ShellInv'
      BY <1>1, <2>4, PhoneFocusBlur
    <2>5. ASSUME NEW f \in Fields, PhoneResolve(f) PROVE ShellInv'
      BY <1>1, <2>5, PhoneResolveServerInv
    <2>6. ASSUME NEW f \in Fields, NEW r \in Raws, PhoneType(f, r) PROVE ShellInv'
      BY <1>1, <2>6, PhoneTypeInv
    <2>7. CASE PhoneReturn  BY <1>1, <2>7, PhoneReturnInv
    <2>8. CASE PhoneDeliver  BY <1>1, <2>8, PhoneDeliverInv
    <2>9. CASE PhoneTimer  BY <1>1, <2>9, PhoneTimerInv
    <2>10. CASE CallSteps
      <3>1. UNCHANGED <<kind, main, echoVars, timerVars, screen, inHand>>
        BY <2>10 DEF CallSteps
      <3>2. PICK c \in calls : \/ CallTakes(c) \/ CallShowsPending(c)
                              \/ CallSettles(c) \/ CallPushes(c)
        BY <2>10 DEF CallSteps
      <3>3. CASE CallTakes(c)  BY <1>1, <3>1, <3>3, CallTakesInv
      <3>4. CASE CallShowsPending(c) \/ CallPushes(c)
        BY <1>1, <3>1, <3>4, CallPushesInv
      <3>5. CASE CallSettles(c)  BY <1>1, <3>1, <3>5, CallSettlesInv
      <3>6. QED  BY <3>2, <3>3, <3>4, <3>5
    <2>11. QED
      BY <1>1, <2>1, <2>2, <2>3, <2>4, <2>5, <2>6, <2>7, <2>8, <2>9, <2>10
      DEF PhoneUser, PhoneRuns
  <1>2. CASE WebNext
    <2>1. kind = "web"  BY <1>2 DEF WebNext
    <2>2. CASE Blur  BY <2>1, <2>2, WebFocusBlur, DraftAssumption
    <2>3. CASE WebSubmit  BY <2>1, <2>3, WebSubmitInv
    <2>4. CASE WebServer  BY <2>1, <2>4, WebServerInv
    <2>5. CASE WebOpen \/ WebRecheckout  BY <2>1, <2>5, WebOpensInv
    <2>6. ASSUME NEW f \in Fields, Focus(f) PROVE ShellInv'
      BY <2>1, <2>6, WebFocusBlur
    <2>7. ASSUME NEW f \in Fields, WebResolve(f) PROVE ShellInv'
      BY <2>1, <2>7, WebResolveInv
    <2>8. ASSUME NEW f \in Fields, NEW r \in Raws, WebType(f, r) PROVE ShellInv'
      BY <2>1, <2>8, WebTypeInv
    <2>9. ASSUME NEW ticket \in timers, WebTimer(ticket) PROVE ShellInv'
      BY <2>1, <2>9, WebTimerInv
    <2>10. ASSUME NEW token \in tokens, NEW verdict \in Verdicts, WebVerdict(token, verdict)
           PROVE  ShellInv'
      BY <2>1, <2>10, WebVerdictInv
    <2>11. QED
      BY <1>2, <2>2, <2>3, <2>4, <2>5, <2>6, <2>7, <2>8, <2>9, <2>10
      DEF WebNext, WebUser, WebRuns
  <1>3. CASE AppleNext
    <2>1. kind = "apple" /\ kind # "web"  BY <1>3 DEF AppleNext
    <2>2. CASE PhoneUser \/ PhoneRuns  BY <1>1, <2>1, <2>2
    <2>3. CASE AppleOpens  BY <2>1, <2>3, AppleOpensInv
    <2>4. CASE AppleLateDelivery  BY <2>1, <2>4, AppleLateInv
    <2>5. QED  BY <1>3, <2>2, <2>3, <2>4 DEF AppleNext
  <1>4. CASE AndroidNext
    <2>1. kind = "android" /\ kind # "web"  BY <1>4 DEF AndroidNext
    <2>2. CASE PhoneUser \/ PhoneRuns  BY <1>1, <2>1, <2>2
    <2>3. CASE AndroidRecheckout  BY <2>1, <2>3, AndroidRecheckoutInv
    <2>4. CASE AndroidLaunch  BY <2>1, <2>4, AndroidLaunchInv
    <2>5. CASE AndroidDies  BY <2>1, <2>5, AndroidDiesInv
    <2>6. QED  BY <1>4, <2>2, <2>3, <2>4, <2>5 DEF AndroidNext, AndroidRuns
  <1>5. CASE UNCHANGED shellVars
    <2>1. /\ UNCHANGED vars /\ UNCHANGED <<kind, main, buffers, control, focused, touched>>
          /\ UNCHANGED <<timers, editGen, screen, queue, inHand, calls>>
      BY <1>5 DEF shellVars, echoVars, timerVars, phoneVars
    <2>2. /\ IInv' /\ UNCHANGED <<version, nextId, tokens, drafts, stash, accepts, canonical>>
      BY <2>1, SameVars DEF vars
    <2>3. OneDraft'  BY <2>1, <2>2 DEF ShellInv, OneDraft, draftId
    <2>4. EchoInv'
      <3>1. EchoInv  BY DEF ShellInv
      <3>2. Painted' = Painted /\ Known' = Known
        BY <2>1, <2>2 DEF Painted, MainIdle, Known, Draft, draftId, Texts
      <3>3. QED  BY <2>1, <3>1, <3>2 DEF EchoInv, Follows
    <2>5. ASSUME kind # "web" PROVE PhoneInv'
      <3>1. CInv' /\ Rebasing' /\ StashInv'  BY <2>1, <2>5, SameVars
      <3>2. ScreenInv /\ CallsInv  BY <2>5 DEF ShellInv, PhoneInv
      <3>3. ScreenInv'
        BY <2>1, <2>2, <3>2 DEF ScreenInv, QueueOK, Built, draftId
      <3>4. CallsInv'
        BY <2>1, <2>2, <3>2 DEF CallsInv, CallOK, Built
      <3>5. QED  BY <3>1, <3>3, <3>4 DEF PhoneInv
    <2>6. kind = "web" => WebInv'  BY <2>1 DEF ShellInv, WebInv
    <2>7. QED  BY <2>1, <2>2, <2>3, <2>4, <2>5, <2>6 DEF ShellInv
  <1>6. QED  BY <1>2, <1>3, <1>4, <1>5 DEF ShellNext

\* The inductive invariant of the shells.
THEOREM ShellInvariant == ShellSpec => []ShellInv
  <1>1. ShellInit => ShellInv  BY ShellStarts
  <1>2. ShellInv /\ [ShellNext]_shellVars => ShellInv'  BY ShellNextInv
  <1>3. QED  BY <1>1, <1>2, PTL DEF ShellSpec

-----------------------------------------------------------------------------
(* What it gives *)

\* Every variable of every shell holds what its code's variable holds.
THEOREM ShellTypes == ShellSpec => []ShellTypeOK
  <1>1. ShellInv => ShellTypeOK
    <2> SUFFICES ASSUME ShellInv PROVE ShellTypeOK  OBVIOUS
    <2>1. TypeOK /\ EchoInv  BY DEF ShellInv, IInv
    <2>2. /\ screen \in Option(SnapshotType) /\ inHand \in Option(SnapshotType)
          /\ queue \in Seq(SnapshotType)
      <3>1. CASE kind = "web" \/ main.at = "launch"
        <4>1. screen = NoValue /\ queue = <<>> /\ inHand = NoValue
          BY <3>1 DEF ShellInv, WebInv, PhoneInv, ScreenInv
        <4>2. QED  BY <4>1 DEF Option
      <3>2. CASE kind # "web" /\ main.at # "launch"
        BY <3>2, PhoneRunning DEF QueueOK, Option
      <3>3. QED  BY <3>1, <3>2
    <2>3. QED  BY <2>1, <2>2 DEF ShellTypeOK, EchoInv
  <1>2. QED  BY <1>1, ShellInvariant, PTL

\* The echo rule: between two handlers every control shows what the shell knows
\* of the draft, but for the one the user is typing into.
THEOREM UntouchedControlsAlwaysFollow == ShellSpec => []UntouchedControlsFollow
  <1>1. ShellInv => UntouchedControlsFollow
    BY DEF ShellInv, EchoInv, Painted, Follows, UntouchedControlsFollow
  <1>2. QED  BY <1>1, ShellInvariant, PTL

\* The screen never goes back to a draft that was submitted, whatever of it is
\* still in a queue, in a thread or in a cancelled loop's hand.
THEOREM TheScreenIsOfThisDraft == ShellSpec => []ScreenIsOfThisDraft
  <1>1. ShellInv => ScreenIsOfThisDraft
    <2> SUFFICES ASSUME ShellInv, MainIdle, screen # NoValue PROVE screen.of = draftId
      BY DEF ScreenIsOfThisDraft
    <2>1. main.at # "launch"  BY DEF MainIdle, IdleMain
    <2>2. kind # "web"  BY DEF ShellInv, WebInv
    <2>3. QED  BY <2>1, <2>2, PhoneRunning
  <1>2. QED  BY <1>1, ShellInvariant, PTL

\* Live keystrokes are repainted by nobody: no push, delivery, verdict, timer
\* or server step takes the text or the protection away.
THEOREM KeystrokesAlwaysStay == ShellSpec => KeystrokesStay
  <1>1. ASSUME ShellInv, NotTheUser, touched
        PROVE  /\ buffers'[focused] = buffers[focused]
               /\ touched' /\ focused' = focused
    <2>1. EchoInv  BY <1>1 DEF ShellInv
    <2>2. ASSUME NEW texts, Repaint(focused, texts, NoValue)
          PROVE  buffers'[focused] = buffers[focused] /\ touched'
      BY <1>1, <2>1, <2>2, RepaintSpares
    <2>3. ASSUME NEW snap, Reconcile(snap)
          PROVE  buffers'[focused] = buffers[focused] /\ touched'
      <3>1. CASE Outdated(snap)  BY <1>1, <2>3, <3>1 DEF Reconcile
      <3>2. CASE ~Outdated(snap)  BY <2>2, <2>3, <3>2 DEF Reconcile, ShowSnapshot
      <3>3. QED  BY <3>1, <3>2
    <2>4. CASE kind = "web" /\ WebServer
      <3>1. focused' = focused  BY <2>4 DEF WebServer
      <3>2. CASE Repaint(focused, Texts(drafts'[draftId].draft), NoValue)
        BY <2>2, <3>1, <3>2
      <3>3. CASE UNCHANGED <<buffers, touched>>  BY <1>1, <3>1, <3>3
      <3>4. QED  BY <2>4, <3>2, <3>3 DEF WebServer
    <2>5. CASE kind = "web" /\ WebRuns
      <3>1. ~WebOpen  BY <1>1, <2>1 DEF WebOpen, EchoInv
      <3>2. ~WebRecheckout  BY <1>1, <2>1, <2>5 DEF WebRecheckout, EchoInv
      <3>3. UNCHANGED echoVars
        BY <2>5, <3>1, <3>2 DEF WebRuns, WebTimer, WebVerdict
      <3>4. QED  BY <1>1, <3>3 DEF echoVars
    <2>6. CASE PhoneServer \/ PhoneTimer \/ CallSteps
      <3>1. UNCHANGED echoVars  BY <2>6 DEF PhoneServer, PhoneTimer, CallSteps
      <3>2. QED  BY <1>1, <3>1 DEF echoVars
    <2>7. CASE PhoneDeliver
      BY <2>3, <2>7 DEF PhoneDeliver
    <2>8. CASE AppleLateDelivery
      BY <2>3, <2>8 DEF AppleLateDelivery
    <2>9. QED  BY <1>1, <2>4, <2>5, <2>6, <2>7, <2>8 DEF NotTheUser
  <1>2. ShellInv /\ [ShellNext]_shellVars =>
          [NotTheUser /\ touched =>
             /\ buffers'[focused] = buffers[focused]
             /\ touched' /\ focused' = focused]_shellVars
    BY <1>1
  <1>3. QED  BY <1>2, ShellInvariant, PTL DEF ShellSpec, KeystrokesStay

\* A submit from any of the shells merges exactly the dirty fields into the
\* entity as it is then.
THEOREM ShellCommitsMerge == ShellSpec => CommitIsMerge
  <1>1. ShellInv /\ [ShellNext]_shellVars =>
          [\A id \in DOMAIN drafts :
             Submit(id) /\ IsBased(drafts[id].draft) =>
               /\ canonical # NoValue
               /\ \A f \in Fields :
                    LET x == drafts[id].draft.fields[f]
                    IN  canonical'[f] = IF IsDirty(x) THEN FieldValue(x)
                                        ELSE canonical[f]]_vars
    BY CommitMerges DEF ShellInv
  <1>2. QED  BY <1>1, ShellInvariant, PTL DEF ShellSpec, CommitIsMerge

\* Under every shell the drafts stay in step with canonical.
THEOREM ShellDraftsTrackCanonical == ShellSpec => []SyncTracksCanonical
  <1>1. ShellInv => SyncTracksCanonical
    BY DEF ShellInv, IInv, SyncTracksCanonical, EntryInv, Live
  <1>2. QED  BY <1>1, ShellInvariant, PTL

\* A shell stays the shell it is.
LEMMA PhoneForGood ==
  ASSUME kind # "web", [ShellNext]_shellVars PROVE kind' # "web"
  <1>1. kind' = kind
    BY DEF ShellNext, WebNext, AppleNext, AndroidNext, shellVars, PhoneUser, PhoneRuns,
           AppleOpens, AppleLateDelivery, AndroidRuns, AndroidRecheckout, AndroidLaunch,
           AndroidDies, Focus, Blur, PhoneResolve, PhoneType, Keystroke, PhoneSubmit,
           PhoneServer, PhoneReturn, PhoneDeliver, PhoneTimer, CallSteps, PhoneOpen
  <1>2. QED  BY <1>1

\* The phones hold their drafts by the token: what the check says of a draft it
\* says of the value the draft holds.  (The web controller hands a verdict to
\* whichever draft it holds, and there it does not hold.)
THEOREM PhoneVerdictsAreBound ==
  ShellSpec /\ kind # "web" => []VerdictIsValueBound
  <1>1. kind # "web" /\ [ShellNext]_shellVars => (kind # "web")'
    BY PhoneForGood
  <1>2. ShellInv /\ kind # "web" => VerdictIsValueBound
    BY DEF ShellInv, PhoneInv, CInv, CheckInv, VerdictIsValueBound
  <1>3. QED  BY <1>1, <1>2, ShellInvariant, PTL DEF ShellSpec

\* And a phone commits no username that no checker passed.
THEOREM PhoneCommitsAreVerified ==
  ShellSpec /\ kind # "web" => CommittedValueIsVerified
  <1>1. kind # "web" /\ [ShellNext]_shellVars => (kind # "web")'
    BY PhoneForGood
  <1>2. ShellInv /\ kind # "web" /\ [ShellNext]_shellVars =>
          [\A id \in DOMAIN drafts :
             Submit(id) =>
               \/ canonical # NoValue /\ canonical'[Checked] = canonical[Checked]
               \/ LET c == drafts[id].draft.check
                  IN  c.state = "Pass" /\ c.about = canonical'[Checked]]_vars
    BY CommitVerifies DEF ShellInv, PhoneInv
  <1>3. QED
    BY <1>1, <1>2, ShellInvariant, PTL DEF ShellSpec, CommittedValueIsVerified
=============================================================================
