# A verification project for bolted

This directory holds TLA+ models of bolted, the TLC configurations that check
them on small instances, and proofs that the TLA+ proof system checks for
instances of every size. Paths are relative to the repository.

## 1. The system

bolted keeps the logic of a form-like app in Rust and lets native shells drive
it. One *entity* (a profile) has a *canonical* value; a user edits it through
*drafts*; the server may push or delete the canonical value at any time; and
every open draft is kept consistent with what canonical says now.

| component | state it keeps | operations | what is hard | what makes it correct |
|---|---|---|---|---|
| **Field** `bolted-core/src/field.rs` | validity, sync state, ancestor | `try_set`, `rebase`, `resolve_keep_mine`, `resolve_take_theirs`, `stash`, `from_stash` | a three-way merge whose inputs arrive in any order | no edit lost, no stale `theirs`, a stash loses nothing |
| **SingleFlight** `single_flight.rs` | a counter and the check's state | `begin`, `complete`, `reset`, `violation` | answers late, superseded, out of order | a verdict is about the value the field holds |
| **Draft** `draft.rs`, written out in `fixture-profile/src/profile.rs` and generated by `bolted-macros` | one field per entity field, the check, lifecycle bits, a version stamp | setters, resolvers, `rebase`, `orphan`, `validate`, `commit`, `stash`, `from_stash` | each path that moves a value must reset the check | commits are valid, unconflicted and verified |
| **Store** `store.rs` | canonical, version, live drafts and their registration | `checkout`, `restore`, `close`, `submit`, `apply_canonical`, `delete_canonical` | one change fans out to all drafts; restored drafts join late | drafts are edit sessions over the live canonical |
| **FFI facet** `gen-profile-ffi/src/generated.rs`, `bolted-ffi` | the store under a lock, a ring of snapshots per subscribed draft, the foreign checker | the store's, plus `run_username_check`, `snapshots`, `Drop` | snapshots pushed after unlock; a full ring drops the newest; the outcall holds no lock | a check begun is settled, no draft outlives its handle, a quiet stream is current unless its ring overflowed |
| **stream seam** `bolted-http/src/stream.rs`, `signal.rs`, `conformance/stream.rs` | a bounded ring, the next sequence number, a terminal | `deliver_chunk`, `drain`, `finish`, pause, resume, cancel | signals overtake each other; the ring at its limit | the body arrives whole or fails once; a paused producer is resumed |
| **HTTP FFI bridge** `bolted-http-ffi/src/lib.rs` | parked completions and chunk sinks by token | `send`, `complete_*`, `deliver_chunk`, `finish_body` | re-entry from native threads between two locks | one terminal per request, nothing parked for ever |
| **Linux, Apple and Android adapters** `bolted-http-linux/src/lib.rs`, `BoltedHttp.swift`, `BoltedHttp.kt` | a task per request, pause and cancel flags, the cause of its end, a file | send into memory, into a file, streamed; pause, resume, cancel; the deadline | cancel, deadline, response, redirects and file errors race | every request ends once, for a reason that is true; a success is whole |
| **sync daemon and its window** `spikes/os-integration` | one store, its connections with their drafts and tokens; a window with a stash of its own | one handler per request, connect, disconnect, idle exit; the window's operations | clients die; the daemon dies; ticks are written after unlock | drafts belong to live connections; a quiet window is current; no typed text is lost |
| **collection store** `spikes/collection/crates/collection-core` | rows, drafts over rows, windows | upsert, delete, checkout, submit, windows, `latest` | a fan-out per row; ranges past the end | each draft follows its row; an edit lands on what its user saw |
| **shells** `profile-web`, `apple/profile-app`, `android/profile-app` | text buffers, the focused control, a draft at a time, debounce timers, on the phones a snapshot | one handler per user event, timer, delivery, submit, relaunch | live keystrokes against rebases; late snapshots; late verdicts | controls follow the core unless the user types; nothing stale is shown or believed |
| **macros, generators, wire formats, conformance suites, build checks** | none at run time | | | not modelled: see section 7 |

How they interact: a shell calls the facet or the daemon; both take one lock,
call the store, collect snapshots or ticks as data, and send them after the
lock is dropped. The store calls drafts, a draft calls its fields and its
check. A checker, a server, a native HTTP stack and the operating system are
the environment. `PROJECT.json` lists every hazard at its line.

## 2. Modules

| module | models | state and actions |
|---|---|---|
| `Field` | `field.rs`, the value contract | no state; operators from field to field: `TrySet`, `Rebase`, `KeepMine`, `TakeTheirs`, `StashField`, `UnstashField` |
| `SingleFlight` | `single_flight.rs` | operators on a check: `Begin`, `Complete`, `Reset`, `Blocks` |
| `Draft` | `profile.rs`, `draft.rs` | operators on a draft; `Guarded` is `with_username_guard`, `CommitOk` is `commit_gates` |
| `Store` | `store.rs` and its environment | `canonical`, `version`, `drafts`, `nextId` are the store's own; `tokens` and `stash` are what the shell holds; `accepts` is the constraint set of the running build. One action per operation |
| `EditSessions` | the abstract specification of `Store` | `canonical` and a set of sessions of pending, possibly contested edits; no ancestors, stamps or registrations |
| `StoreSessions` | the refinement mapping from `Store` to `EditSessions` | a draft is the set of its dirty or conflicted fields |
| `Facet` | the generated FFI store and draft handles, the foreign checker, its view model | `Store`'s variables are the state under the lock; `threads` is where each shell thread is in its call and the snapshots it has yet to push; `checkers` is the slot of each handle; `rings` is what each subscription has not delivered, `lost` (history) the newest version it dropped; `shown` is what the shell displays per stream |
| `BodyStream` | `bolted-http/src/stream.rs` and its consumer, under any adapter: the abstract specification of a transfer | `stream` (ring, next sequence number, total), what the consumer has `taken`, the `outcome` |
| `StreamDriver` | the driver of `conformance/stream.rs`: slow consumer, emitter slot, pushed signals | one action per lock section or signal, shared by all adapters |
| `Stream` | the streaming mock and its three faults | the producer's place in its loop, `paused`, `cancel` |
| `Native` | the bridge, the deadline, the caller's cancel, redirects, the network and the disk | `request`, `network`, `cause`, `deadline`, `file`, `terminal`: what the three adapters have in common |
| `LinuxHttp`, `AppleHttp`, `AndroidHttp` | the three adapters | the task's place between its awaits; the delegate's queue; the dispatcher thread, its monitor and the watchdog |
| `Transfers` | one request on any of them | the sum of the four adapters over `BodyStream`, its properties and its instance |
| `Syncd` | the daemon: the store behind its mutex, a thread per connection | `conns` (drafts, tokens, the ticks a thread has yet to write), `sockets`; one critical section per request; deaths and idle exit |
| `SyncWindow` | the settings window, its connection and its operations against `Syncd` | `windows`: the queue of requests of the operation under way, what is shown, the stash |
| `Collection` | `collection-core`: many rows, their drafts and windows | `rows`, `version`, `drafts`, `windows`; one action per operation |
| `Inbox` | the observers of the windows, as the inbox app reads them | what each observer last read, and at which version |
| `Shell` | what the three shells share: the echo rule | `buffers`, `control`, `focused`, `touched`; `Repaint` is `refresh_buffers` and `syncBuffers` |
| `WebShell` | `controller.rs`, `app.rs` | one action per handler; timers and lookups are the view's |
| `PhoneShell`, `AppleShell`, `AndroidShell` | the two view models over the facet | `screen`, `queue` (the subscribed stream), `calls` (checks on threads of their own); handlers are a critical section, a push and the rest |
| `Shells` | the three of them | their next-state relation, fairness and properties |
| `MCStore`, `MCFacet`, `MCSync`, `MCCollection`, `MCShells` | | the instances of the runs |
| `*_proofs` | the theorems | |

What is abstract. Text is a member of a small set: a value *is* its sanitized
text, the sanitizer is a function, and the constraints of a build are the set
of values it accepts, so that a later build can be tighter. Tier-2 rules are a
set of forbidden pairs. A body is a number of chunks, a chunk its sequence
number and length. A needle of a collection query is the set of titles that
contain it. Error texts, reports and formatting are left out. `about` in a
check and `text` in a token are history: the code does not keep the text a
check was begun for, and the properties compare against it. So is `of` in a
phone's snapshot, the draft it was built from.

**The core.** The process may die at any step (`ProcessDeath`): everything but
the shell's saved stash is gone, a build whose constraints are the same or
tighter starts, and the canonical it finds may be another one or none. A
create-flow draft that is submitted over a canonical that appeared since its
checkout replaces it as a whole. That is rule C12 and is modelled so;
`CommitIsMerge` is about drafts that have an ancestor.

**The facet.** A call locks the store, changes it, builds snapshots, unlocks
and pushes them; `Flush` leaves them in the thread and `Push` sends one at a
time, so the pushes of two threads interleave as they can in the code. A subscription
is a ring of `RingCapacity` slots (256 in the code, `generated.rs:273`): `Offer`
puts a snapshot into it, or drops it when the ring is full, and nobody is told.
`Deliver` takes the oldest one out, whenever the shell comes to it, and
`Reconcile` shows it if it passes the version guard. Of a snapshot the version
is kept, since that is what the guard and the property compare. The runtime
moves snapshots on into an unbounded queue of its own; that only delays them,
and delivery is one step here. The view model reads the state after its own
calls too, which can only show a later version sooner; only the first read of a
draft is modelled. A call
that is refused changes nothing and is left out. `RunCheck` to `Settle` are the
six steps of `run_username_check`, of which the outcall holds no lock. A
runtime drops a handle only when no thread is inside a call of it.

**Transfers.** `BodyStream` lets an adapter deliver any chunk and end in any
way at any time; the mock and the three platform adapters implement it. The
mock delivers on a thread of its own from the moment `send_streaming` starts
it, so a Pause can find no emitter, and Pause and Resume can overtake each
other. The platform adapters share the driver and differ in everything else:
reqwest in a task whose every await is in a biased select, URLSession in a
serial queue of delegate callbacks over a task that runs on its own, OkHttp in
a thread that blocks. What is not in this repository is stated as an
assumption where it is used and is external in the map: a suspended URLSession
task reads nothing more but a queued callback still runs, and a cancelled one
completes with an error unless it had ended before; a read of a cancelled
OkHttp call throws or returns what was buffered; dropping a reqwest future
stops it at its await; a rename replaces a file in one step. The network
answers when and how it likes, or never; the disk may fail at any write.
Request and response headers, retries above this layer and upload progress are
left out.

**The daemon and its window.** A request is one critical section of the
daemon's mutex, a step of `Store`; the reply and then the ticks it caused are
written afterwards, one at a time. The wire token is a name of the core's
token. The window runs one operation at a time, which is a sequence of blocking
requests; ticks are only reasons to fetch. The daemon may die or exit when idle
at any step, and the window starts another one.

**The collection.** It is a peer of the store, over the same `Field`. The
observers are told nothing and poll by version.

**The shells.** The phones call the facet as `Facet` describes; only what a
shell can tell apart is kept: a handler changes the store (`main.at =
"pushing"`), pushes its snapshot, and then does the rest, while checks push
theirs from other threads. The outcall and the settling of a check, two steps
in `Facet`, are one here, since nothing but the checker's slot changes between
them. `control` is where the keyboard focus really is and `focused` what the
shell was last told: they differ after a submit, which resets the second. The
Swift loop over a cancelled stream may run its body once more with what it had
been handed (`AppleLateDelivery`); a cancelled coroutine is never resumed, and
a cancelled check that has not begun is not begun. The Kotlin check reads the
view model's `draft` on its own thread (`Handle`). On Android the system may
kill the app between two handlers; a new process restores the stash over the
canonical it finds.

## 3. Runs and what they show

All counts are distinct states. Every run sets `CHECK_DEADLOCK FALSE`: the
bounds on versions, drafts and check counters stop the system in states
where the code would go on, and a transfer that has ended has no more steps.

| run | instance | checks |
|---|---|---|
| `edits` | one field, three interchangeable values and one rejected text, two drafts, two canonical changes, a check counter of three; 578,838 states | `TypeOK`, `SyncTracksCanonical`, `VerdictIsValueBound`, `DirtyEditsSurvive`, `CreateFlowNeverMoves`, `CommittedValueIsVerified` |
| `restore` | stash, process death and restore under two builds, the second one tighter; 377,268 states | `UnregisteredIsCreateFlow`, `StashIsLossless`, `OrphanIsTerminal`, `ImplementsEditSessions` |
| `facet_shell` | two threads, one draft, two texts, two canonical changes, a check counter of two, a ring of two; 144,125 states | `FacetTypeOK`, `CheckerIsNeverLost`, `PendingIsDriven`, and with fairness `ChecksSettle` |
| `facet_sessions` | two interchangeable threads, two drafts, one text, stash and restore, rings of one; 2,892,491 states | `ShownVersionSettles`, `NoZombies` |
| `transfers` | one request on the mock or on a platform, of each sink, with each fault it can be built with; six chunks, a ring of four, one redirect allowed; 211,120 states | `TransferTypeOK`, `GaplessInOrder`, `VerifiedIsComplete`, `SuccessIsWhole`, `OutcomeHasItsCause`, `OverflowNeedsALostPause`, `OldOrWhole`, and with fairness `EveryTransferEnds` |
| `sync_window` | a window and another client, two connections ever, two texts and a rejected one, a check counter of two, and two canonical changes or two drafts; 1,320,292 states | `SyncdTypeOK`, `DraftsAreOwned`, `TypedTextIsStashed`, `PaneSettles`, `ShownDraftSettles`, `JudgesTheTypedText` |
| `collection` | two rows, two titles and a rejected one, two canonical events, and two drafts or one observed window (drafts and windows meet only in the rows); 218,590 states | `CollectionTypeOK`, `DraftsFollowTheirRow`, `PagesTile`, `SameVersionMeansCurrent`, `EditsLandOnWhatTheySaw` |
| `shells` | each of the three shells, two fields tied by a rule, a padded and a rejected text, two drafts one after the other, two versions (one from the server on the phones), a check counter of two, one check under way, one undelivered snapshot; 977,943 states | `ShellTypeOK`, `UntouchedControlsFollow`, `KeystrokesStay`, `ScreenIsOfThisDraft`, `CommitIsMerge` |
| `lost_terminal` | three chunks, a ring of two | `CancelledStillCompletes`, which the code does not have: section 6 |
| `stale_verdict` | the web shell, one field, three edits | `VerdictIsValueBound`, which the shell breaks: section 6 |
| `sync_judge` | the window and another client that edit one field, three drafts, two submits, a check counter of three, nobody dies | `JudgesTheAskedText`, which the code does not have: section 6 |
| `unasked` | the Apple shell, one field, one draft, two checks under way | `PhoneAsks`, which the code does not have: section 6 |

Why the bounds are enough. The merge of a field looks at three values (base,
theirs, the edit), and three values and a rejected one show every pattern of
equality among them. Drafts only meet through canonical, so a second one
shows what a submit does to the others. A check counter of three is a
question, a second one that supersedes it, and a reset. The theorems of
section 5 do not depend on any bound.

Two threads are all that a push order, a busy checker or a handle released
during an outcall take; two drafts show what a submit of one pushes to the
other. Rings of one and two slots are full as soon as the shell is one or two
snapshots behind, so both runs lose snapshots, also the newest ones: without its
second half `ShownVersionSettles` is refuted. In a transfer, a ring of four has a high-water mark of three, as the
real one has three quarters; six chunks fill the ring to that mark, leave it to
be drained and fill it again. One redirect allowed is one followed, and a
second one refused. Two connections are a window and another client, or a
window that comes back after a death; two versions are two changes whose ticks
overtake each other. Two rows show that a change of one leaves the drafts and
the windows' pages of the other alone; pages of up to two rows have every way a
range can meet the tail. In the shells a second field is what a control must
show while the user types into the first, a padded text is a clean field with
live keystrokes in it, and a rejected one gives a conflict in an alphabet of
two values. A second check under way is left to `facet_shell` and to
`unasked`.

Three constraints keep `sync_window` within reach: the second field is the
switch it is in the code, so nobody types a third text into it
(`PausedIsASwitch`); one life of the daemon sees two canonical changes or two
drafts, not both (`TwoChangesOrTwoDrafts`); and the other client edits the
switch and checks the folder at most once (`OthersLeaveTheFolder`). What they
leave out is in reach of the theorems of section 5, and of `sync_judge`, whose
scenario is fixed instead: the window's draft is the first, the other client has
one at a time, edits are about the folder.

Runs that do not look at stashes constrain the shell not to save one
(`NothingStashed`); the same actions are explored with stashes in `restore`.
Symmetry is used where no property singles a value out and no liveness is
checked.

**Fairness.** No liveness is claimed of the core: every operation returns at
once, and nothing has to happen in it unless a user or a server acts.
`ChecksSettle` assumes that a thread inside a call runs on (no call waits for
anything but a lock that is held briefly) and that the foreign checker returns,
which is the contract of the callback; no thread is assumed to make any call.
`EveryTransferEnds` assumes that the adapters' tasks, queues and threads and
the driver's loop run on, that a mutex or monitor that is free again and again
is taken in the end (the two strong fairness conditions), that a cancel under
way notifies, and that the deadline's timer fires. It assumes nothing of the
network, which may stay silent for ever, of the disk, of the caller, who may
cancel or not, or of the driver's tick budget. `PhoneAsks` assumes that timers
fire, the main thread and the checks' threads run on, pushed snapshots are
delivered and the checker returns; nobody has to touch the form.

Every property of a passing run has a mutant: a change of one modelled
definition of the kind a bug would make (a two-way merge, a verdict accepted
from any token, a stash without its ancestor, a tick written before the thread
is wired, a page clamped to the last row, a control repainted because its field
is clean), under which TLC finds the property violated in the same run.

## 4. The abstract specifications

`EditSessions` says what the store is for. A session is a set of edits over
the live canonical entity; a field without an edit follows canonical; a
canonical change never touches an edit except that one it agrees with may
dissolve, and it contests every other edit it moves under; a submit merges the
edits and needs every contested one settled. `StoreSessions` maps each draft to
the session of its dirty or conflicted fields. The run `restore` checks that
every step of `Store` is a step of `EditSessions` or a stutter, and
`StoreImplementsSessions` proves it.

`BodyStream` says what a core must bear from an adapter: any chunk, any end,
at any time. That every step of the mock and of the three platform adapters is
one of its steps is proved (`TransfersImplementBody`), so what holds of
`BodyStream` holds under all of them.

## 5. Proofs

Assumptions: `FieldAssumption` (sanitizing twice is sanitizing once),
`DraftAssumption` (the checked and the ruled field are fields, the rule is
about values, and the null value is no entity), `StoreAssumption` (builds accept
values; bounds are numbers), `BodyAssumption` and `NativeAssumption` (a positive
capacity; sizes, totals and bounds are numbers), `SyncdAssumption` (the switch is
a field that is not the checked one, the seed is accepted by every build, the
null value is neither a number nor a stash), `CollectionAssumption` (titles
are values, ordered without ties), `RangeAssumption` (ranges end at a number), `FacetAssumption` (no token is the null
value), `RingAssumption` (a ring has a slot), `ShellAssumption` (which shells there are, the store's seed,
bounds are numbers, no field is the null value). TLC evaluates them in the runs. `OverflowsNeedALostPause` assumes
besides that the ring holds more than one chunk; the code's holds 256
(`stream.rs:106`). In a ring of one the high-water mark is its capacity and the
first chunk fills it before any Pause can be out.

| theorem | says |
|---|---|
| `TypeCorrect` | `Spec => []TypeOK` |
| `SyncAlwaysTracksCanonical` | `Spec => []SyncTracksCanonical` |
| `UnregisteredAlwaysCreateFlow` | `Spec => []UnregisteredIsCreateFlow` |
| `VerdictAlwaysValueBound` | `Spec => []VerdictIsValueBound` |
| `CommitsOnlyVerified` | `Spec => CommittedValueIsVerified` |
| `CommitAlwaysMerges` | `Spec => CommitIsMerge` |
| `DirtyEditsAlwaysSurvive` | `Spec => DirtyEditsSurvive` |
| `CreateFlowStaysPut` | `Spec => CreateFlowNeverMoves` |
| `OrphanStaysTerminal` | `Spec => OrphanIsTerminal` |
| `StashAlwaysLossless` | `Spec => []StashIsLossless` |
| `StoreImplementsSessions` | `Spec => ImplementsEditSessions` |
| `RebaseIdempotent` | rebasing a field twice is rebasing it once |
| `FacetTypes` | `FacetSpec => []FacetTypeOK` |
| `NeverAZombie` | `FacetSpec => []NoZombies` |
| `CheckerNeverLost` | `FacetSpec => []CheckerIsNeverLost` |
| `PendingAlwaysDriven` | `FacetSpec => []PendingIsDriven` |
| `StoreKeptUnderCalls` | `FacetSpec => [](SyncTracksCanonical /\ VerdictIsValueBound)` |
| `ShownVersionsSettle` | `FacetSpec => []ShownVersionSettles` |
| `BodyInOrder` | `BodySpec => []GaplessInOrder` |
| `BodyTypes` | `BodySpec => []BodyTypeOK`, the ring within its capacity |
| `BodyComplete` | `BodySpec => []VerifiedIsComplete` |
| `TransfersImplementBody` | `TransfersSpec => BodySpec` |
| `TransfersComplete` | `TransfersSpec => []VerifiedIsComplete` |
| `TransfersInOrder` | `TransfersSpec => []GaplessInOrder` |
| `TransferTypes` | `TransfersSpec => []TransferTypeOK` |
| `OutcomesHaveTheirCause` | `TransfersSpec => []OutcomeHasItsCause` |
| `SuccessesAreWhole` | `TransfersSpec => []SuccessIsWhole` |
| `OverflowsNeedALostPause` | `TransfersSpec => []OverflowNeedsALostPause`, for `Capacity > 1` |
| `AlwaysOldOrWhole` | `TransfersSpec => []OldOrWhole` |
| `DaemonTypes` | `WindowSpec => []SyncdTypeOK` |
| `EveryDraftIsOwned` | `WindowSpec => []DraftsAreOwned` |
| `ThePaneSettles` | `WindowSpec => []PaneSettles` |
| `TheShownDraftSettles` | `WindowSpec => []ShownDraftSettles` |
| `TypedTextIsAlwaysStashed` | `WindowSpec => []TypedTextIsStashed` |
| `TypedTextIsJudged` | `WindowSpec => []JudgesTheTypedText` |
| `CollectionTypes` | `Spec => []CollectionTypeOK` |
| `DraftsAlwaysFollow` | `Spec => []DraftsFollowTheirRow` |
| `EditsNeverLandBlind` | `Spec => EditsLandOnWhatTheySaw` |
| `ProjectionsSort` | `Spec => []ListsSorted`: a window's list is a sort of the matching rows |
| `PagesAlwaysTile` | `Spec => []PagesTile` |
| `VersionIsEnough` | `InboxSpec => []SameVersionMeansCurrent` |
| `ShellInvariant` | `ShellSpec => []ShellInv`, the inductive invariant |
| `ShellTypes` | `ShellSpec => []ShellTypeOK` |
| `UntouchedControlsAlwaysFollow` | `ShellSpec => []UntouchedControlsFollow` |
| `KeystrokesAlwaysStay` | `ShellSpec => KeystrokesStay` |
| `TheScreenIsOfThisDraft` | `ShellSpec => []ScreenIsOfThisDraft` |
| `ShellCommitsMerge` | `ShellSpec => CommitIsMerge` |
| `ShellDraftsTrackCanonical` | `ShellSpec => []SyncTracksCanonical` |
| `PhoneVerdictsAreBound` | `ShellSpec /\ kind # "web" => []VerdictIsValueBound` |
| `PhoneCommitsAreVerified` | `ShellSpec /\ kind # "web" => CommittedValueIsVerified` |

**The core.** `Field_proofs` proves what each operator does to one field: its
type, that `Rebase` makes a field track the new canonical value, that an edit
of a field that tracks a value leaves it tracking that value, that an edit
keeps a field without ancestor without one, and that values that get into a
field were accepted. `Store_proofs` proves the inductive invariant `IInv`.
`TypeOK` is not inductive: `Submit` makes a draft's values canonical, and that
they form an entity of this build needs that every value and ancestor in a
live draft was accepted by it (`Admitted`). `SyncTracksCanonical` needs that a
registered draft has an ancestor (`IsBased`), or deleting it would leave a
live draft unregistered that is not create-flow. `IInv` is the conjunction of
these for every entry, and the proof has one step per action, each reduced to
the same statement about one entry (`EntryInv`).

For the check `Store_proofs` adds `CInv`: a pending check is about the text its field holds,
and the token with the counter's number carries that same text, while no token
is ahead of its draft's counter. This is why a late answer cannot endorse
another value *of its own draft*: it either has the number of the last question
or is dropped. The web shell answers another draft with it, and the theorem
does not speak of that (section 6). `Merge_proofs` proves the four action
properties from `IInv`: a step that changes canonical is one of three actions
(`CanonicalMoves`), and each reduces to a lemma about one field.

**Stashes and sessions.** That nothing is lost by a stash needs one more
invariant, `RInv`: every field can be brought back by this build from what
`StashField` writes (`Recoverable`). An unset field has nothing to write, an
invalid one holds a text this build rejects, so it comes back invalid, and a
valid one holds an accepted value. It holds because the constraints change only
with the process, and a restored field is parsed by the new build. With it,
`StashRestores` shows that unstashing and rebasing onto the canonical value the
field tracks gives the field back. The refinement rests on the same invariants:
`RebaseFollows` shows what a rebase makes of the edit and the dispute of one
field, `SessionFollows` lifts it to a draft and `ApplyFollows` to the store;
`SubmitMerges` needs that a clean field's ancestor is the canonical value
(`Tracks`), or the submitted entity would be the one of checkout time. The
check, the stash and a refused submit are stutters.

**The facet.** Its calls are the store's steps one at a time, so `IInv` and
`CInv` go through; what is new is between the locks. `Facet_proofs` has the invariant `FInv`: it adds what a thread
carries through its call (`ThreadOK`: at which point it has a handle, a token,
a verdict, and that the token is an open one of its own draft), that no two
threads carry one token, and that a checker is out of its slot exactly while one
thread holds it (`SlotsInv`). `PendingIsDriven` is then inductive: a check
becomes pending only in the call that takes the token on, every other step of
the store leaves a pending check as it is or resets it (`QuietStep`), and the
token is given up only in the step that settles or supersedes the check.
`ShownVersionsSettle` is about the end of a race of pushes, so its invariant
(`ShowsInv`) is about the race. It says of every subscribed draft (`Followed`)
that its shell is about to read it for the first time, or that its current
version is shown, or in its ring, or carried by a thread, or was dropped by the
full ring; and that no snapshot anywhere is ahead of its draft. A delivery of an
older one is turned away by the guard, a delivery of a current one settles the
screen, a push moves a snapshot from a thread into the ring or into `lost`, and
a step that makes a new version leaves a thread with its snapshot. The rings
hold what fits them (`Fits`), so `FacetTypes` rests on the same invariant.

**Transfers.** `BodyInvariant` proves `BodyInv`: the sequence numbers of what
the consumer has taken followed by what is in the ring are `0, 1, ...` up to
the next one expected, which is inductive because a chunk is appended only
when its number is that next one, and moving a prefix of the ring to the
consumer leaves the whole unchanged. `TransfersImplementBody` shows that every
step of the mock, of each platform adapter and of the driver is a step of
`BodyStream` or a stutter, from a small invariant (`TransferOK`: what a
producer holds for the gate is an end an adapter may report, and its place in
the body is within it). There is one lemma per adapter, and under it one step
per action, most of which leave the ingest alone (`QuietKeeps`).

**The collection.** `Collection_proofs` has the inductive invariant of one
entry: its draft is about an id that was issued, a registered draft has the row
as its ancestor field by field, and an edit of it keeps that. A canonical event
maps the registry entry by entry, so each action is again one lemma about one
entry, and `EditsLandOnWhatTheySaw` follows for the step that submits. An
observer is never ahead of the store, and what it saw at the store's version is
what it would be answered now (`InboxInv`): every step that can change an answer
makes a new version.

`Project` gives the row with `k - 1` rows before it the place `k`. That this is
a sort needs that both orders are total (`OrderIsTotal`: the id settles every
tie), that an earlier row has a smaller rank (`RanksGrow`), and that `n` rows
with different ranks below `n` leave no rank out (`RanksFill`, by the pigeonhole
principle); the rows are finitely many because a step adds at most one
(`RowsStayFinite`). `PagesTile` then follows from the clamping alone: a page is
the slice between two clamped ends (`PageIsSlice`), and slices that meet join
(`SlicesJoin`).

**The daemon and its window.** The properties speak of a window that has
settled, and nothing in them says how it got there, so none is inductive. The
invariant `WindowInv` of `Sync_proofs` says what holds of every window at every
moment: what it shows is what the daemon has, *or it has a reason to fetch it*,
which is a step left of its own operation, or a tick in its socket or still in
the hands of a thread of the daemon (`Coming`). It says the same of the stash,
and of the text of a check under way. A settled window has no reason left. Two
things had to be added to make this inductive: that a stash can be typed again
(`BlobOK`, or a restored draft's text would not be the stash's), and that the
window's operation is about the draft it shows (`TargetOK`). The proof has
three layers. `DaemonInv` is the daemon's own: a request is a step of `Store`, so
`IInv`, `CInv` and `RInv` go through, and ownership is proved for the four
shapes a request can have (`HandlerShape`: it registers a draft, touches one,
drops one, or changes canonical). `Leaves(c)` is all that a step of somebody else
can do to connection `c`: it takes neither draft nor tick away, a draft it moves
is rebased onto the new canonical, and whatever it moves is announced. Every
request, disconnect, flush and death has it (`HandlerLeaves`, ...), and it keeps
`WindowOK` of the window at `c` (`OthersKeep`), because a rebase makes no field
dirty and leaves the text of one that stays dirty alone. The steps of the window
itself are one lemma each.

The attempt to prove the last property, in an earlier form that did not ask the
field to be dirty still, failed for a good reason: it is false, and section 6
shows how.

**What transfers promise.** `OutcomeHasItsCause` and `SuccessIsWhole` compare the
terminal with what had happened before it, and the terminal is given in the last
of several steps: between them the driver and the adapter hold the end, and the
network, the disk and the caller go on. The invariant of `Stream_proofs` says of
every end that is held anywhere that it has its cause already and, if it is a
success, that the body is whole already; causes only accumulate, so a held end
stays true. `OverflowNeedsALostPause` is an invariant of its own (`PressureInv`):
while no Pause was lost, either the producer is paused, or a Pause is on its way
to it, or the ring is below its mark with the chunk in hand to spare.

`VerifiedIsComplete` compares a declared size with a sum over what the consumer
holds, so its invariant keeps a running total over the chunks taken and in the
ring (`SizeInv`), and that a sum grows by the size of an appended chunk needs
induction over the length of a sequence. The library states induction with an
operator as a parameter, which no prover here can instantiate; the lemma
`NaturalInduction` states it for sets of numbers instead and derives it from the
pigeon-hole principle of finite sets.

**The shells.** `ShellInv` has what all three shells share (`EchoInv`: every
control shows what the shell knows but for the one being typed into, *unless a
handler is under way that will repaint before it returns*; `OneDraft`: the last
draft opened is the only one) and a part for the phones (`PhoneInv`). The
phones' properties are about order without a lock: a version guard, and nothing
else, keeps the queue, the threads of the checks and the loop of a cancelled
subscription from putting an old draft back on the screen. The invariant says
why it is enough: no snapshot on its way is ahead of the store's version
(`Built`), a submit makes a new version, so whatever was built before it is
older than what the next draft is opened with, and what a cancelled loop holds
in its hand is older than the screen. That in turn needs every draft of a phone
to be at the store's version (`Rebasing`), because nobody deletes canonical
under a phone, and for Android that a stash it dies with can be brought back
live and with an ancestor (`StashInv`). The phones also keep `CInv`, since a
call settles the token it was given (`CallsInv`: no two calls carry a token of
one draft), and with it the two theorems about verdicts. The web controller does
not keep it (`stale_verdict`), which is why they speak of the phones. The proof
has one lemma per action of each shell.

Every safety property of the passing runs has its theorem. Only model-checked:
liveness under fairness (`ChecksSettle`, `EveryTransferEnds`), which is out of
the prover's reach with `ENABLED`; and the properties the code does not have
(section 6).

## 6. What the code does not keep

With a run:

- **A cancelled stream may never end on Android** (`lost_terminal`). The paused
  read loop of `streamResponse` returns when it finds its call cancelled
  (`BoltedHttp.kt:410`) and gives no terminal; its sink stays parked for ever.
  `signal.rs:47-48` says that a cancelled request still completes.
- **A verdict may settle the next draft's check** (`stale_verdict`). A
  `CheckToken` is a number that each draft counts from zero, and
  `ProfileController::complete_check` hands it to whatever draft is current. A
  lookup that is still out when its draft is submitted can so pass another
  username in the next one. The facet and the daemon are not exposed: they know
  the draft a token is of.
- **A verdict may be taken for another text than was judged** (`sync_judge`).
  The settings window judges the folder in its snapshot and the daemon takes the
  verdict for the text it held when the check began. In the run another client
  submits the very text the user typed, which makes the window's draft clean in
  that field, and then another text, which moves the clean field along, both
  before the window has served the two ticks. The window then begins a check of
  the text the daemon holds now and judges the one its snapshot still shows.
  `docs/design/architecture-core-evolution.md:120-122` says that a verdict
  "never endorses a value it wasn't computed for", and
  `docs/CONFORMANCE.md:73-74` that a surviving one "was computed for the value
  now in the field". As long as the core's draft holds what the user typed, the
  two texts are one (`JudgesTheTypedText`, proved).
- **A username may stay unchecked on the phones** (`unasked`). A debounced
  check that fires while the checker is out on the previous one is answered
  `Ok(false)` (`generated.rs:662`), the previous verdict is dropped as
  superseded, and nothing asks again. On Android a restored dirty username is
  not asked about either, since `init` never calls `scheduleCheck`.

Met while modelling, without a run of their own:

- `Store::adopt` registers every based draft over an existing canonical,
  orphans included (`store.rs:193`); `rebase` then does nothing to it, but it is
  counted by `rebasing_draft_count`, whose comment (`store.rs:144`) says an
  orphan is not one of them.
- When canonical moves in two steps to the very value of an edit, the field
  stays conflicted with `theirs` equal to the user's value, and submit is
  refused (`field.rs:230`, against `field.rs:85`).
- A snapshot of a check, built before an edit, can be pushed after the edit's
  and has the same version, so the view model shows it and nothing more is on
  its way (`generated.rs:585-591`; `ARCHITECTURE.md:164` promises the newest).
  The version itself settles (`ShownVersionSettles`) unless a full ring dropped
  it.
- A full ring drops the newest snapshot, and the view models do nothing about
  it. `generated.rs:740-741` calls `snapshot()` "the recovery getter that makes
  drop-newest stream overflow non-fatal", but a shell is not told of a drop and
  calls the getter only after its own calls. A stream that goes quiet after one
  leaves the older version on the screen until the user edits, although
  `ARCHITECTURE.md` (D37) guarantees the newest state. A dropped snapshot of a
  check's end leaves the spinner on, too. It takes a shell that does not
  drain 256 snapshots; the models show the same with rings of one and two.
- A request may be reported as timed out though its deadline did not fire. The
  adapters keep the timers of the stacks under them: OkHttp's ten seconds each
  for connecting, reading and writing, URLSession's sixty seconds idle, and
  whatever makes reqwest's `is_timeout()` true. They report all of them as
  `Timeout` (`BoltedHttp.kt:596-598`, `BoltedHttp.swift:608-609`,
  `bolted-http-linux/src/error.rs:24-26`), of which `bolted-http/src/error.rs:19`
  says "The deadline elapsed". A slow server so ends a request before its
  deadline, and the caller cannot tell. `OutcomeHasItsCause` says what is true:
  the deadline fired or the stack timed out.
- A Pause that finds no emitter is lost (`conformance/stream.rs:93-95`), and an
  adapter that honours every Pause it sees may overflow the ring;
  `OverflowNeedsALostPause` shows when. The mock's cancel notifies without the
  mutex its producer waits under.
- The settings window sets its callbacks only after its ping was answered, while
  the end of a connection is announced once, to whatever is set then: a daemon
  that dies in between leaves a window that counts itself connected for ever
  (`SyncViewModel.swift`, `wire(conn)`). `PaneSettles` speaks of connections
  that hear of their end.
- The file sinks of Apple and Android remove the old file before the new one is
  in place (`BoltedHttp.swift:417` and `BoltedHttp.kt:558` say atomic);
  `OldOrWhole` holds of Linux only, which for its part leaves the temporary file
  behind when the rename fails (`lib.rs:676`).
- A redirect that the Apple delegate refuses ends a streamed request as a
  success, and a cancel or a deadline that comes too late there keeps a refusal
  or a file error from being recorded (`RefusedRedirectLeaks`,
  `FailureIsMasked`). On Android every exception of the file sink is reported
  as Io, a cancel's too (`AndroidSinkBlamesTheFile`). The properties name these
  as exceptions and hold otherwise.
- `with_username_guard` compares values, and every rejected text has the same
  one (none), so a verdict about one rejected text survives an edit to another.
- After a submit a view model forgets which control has the focus while the
  control keeps it, so keystrokes into it are repainted at once, against the
  echo rule (`ARCHITECTURE.md:483`); a timer armed before a take-theirs asks
  about a username that is clean by then.
- `checkout_new` of the collection says that submit inserts the row; it replaces
  a row that a canonical event has put under the same id since.

## 7. Not modelled, and why

The macros and generators run at build time; what they write has the shape of
`Draft` and of the facet. The wire format and the HTTP data types keep no
state. Conformance suites, probes and test servers are test equipment (they
were read as a source of properties). The hand-written facet and the spikes
about callbacks are predecessors of modelled components. The command-line and
Finder clients are the generic clients of `Syncd`. Of the HTTP adapters and the
bridge, header handling, body uploads and their progress, and the construction
of clients are left out, which is why they are listed as partly modelled.
`PROJECT.json` gives the reason for each.

The model has one process per shell and per daemon, one request per transfer,
and no request of the window that times out while the daemon lives. Clocks are
left out: timers fire at any time after they are armed.

Of single components: nobody subscribes to the canonical stream in `Facet`
(it feeds one line of the form, without a guard), and a ring overflows only
there: the queue of `Shell` has a bound of the model (`MaxQueue`), at which
pushes wait. A Swift loop over a cancelled stream is handed one stale element
and not several; the version guard turns all of them away alike. A
`DraftClosed` thrown by `runUsernameCheck` on Android escapes
`viewModelScope.launch`; the model ends that check quietly, and no property
speaks of what comes after. The guard `deadlineMs > 0` of the Swift adapter
(`BoltedHttp.swift:170` and `216`) is left out: every request has a deadline
(`request.rs:212`), and only one of less than a millisecond is rounded to zero on its
way (`bolted-http-ffi/src/lib.rs:756`), which on Apple means none.

## 8. What could come next

1. Proofs: that the shells, as users of the facet, are one of the schedules
   `Facet` allows.
2. The registries of the bridge with several requests at a time, and uploads.
3. The requests of the window that time out while the daemon lives, and wire
   tokens of two drafts of one connection.
