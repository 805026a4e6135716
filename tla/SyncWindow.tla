----------------------------- MODULE SyncWindow -----------------------------
(***************************************************************************)
(* The settings window of the macOS client (SyncViewModel.swift over       *)
(* WireConnection.swift) against the daemon.                               *)
(*                                                                         *)
(* Its main thread runs one operation at a time and an operation is a      *)
(* sequence of blocking requests; the daemon, its other clients and the    *)
(* push ticks interleave between any two.  A tick is only a reason to      *)
(* fetch, and the window keeps a stash of its own against the daemon's     *)
(* death.  Reader thread, callback queue and main queue are one FIFO, the  *)
(* connection's socket.  A reply the daemon died before writing is a       *)
(* request it never read: all it changed died with it.                     *)
(***************************************************************************)
EXTENDS Syncd

CONSTANT Windows

VARIABLE windows    \* window -> Window

windowVars == <<daemonVars, windows>>

Steps == {"wire", "canonical", "restore", "draft", "stash", "complete"}

Closed ==
  [state |-> "idle", conn |-> NoValue, wired |-> FALSE,
   eof |-> "none",        \* or announced: "queued", or "lost" on nobody
   pane |-> NoValue,      \* the canonical it shows
   shown |-> NoValue,     \* the draft it shows, as [id, draft]
   blob |-> NoValue,      \* its stash
   target |-> NoValue,    \* the draft its operation is about
   token |-> NoValue,     \* and its check
   todo |-> <<>>]         \* and what is left of it

Broken(w) == windows[w].conn \notin DOMAIN conns

Free(w) == windows[w].todo = <<>>

Set(w, window) == windows' = [windows EXCEPT ![w] = window]

\* The operation goes on with `todo`, about draft `id`.
Then(w, id, todo) == Set(w, [windows[w] EXCEPT !.target = id, !.todo = todo])

Ready(w) == Free(w) /\ windows[w].state = "connected" /\ ~Broken(w)

-----------------------------------------------------------------------------
(* Operations, up to their first reply *)

\* Mutant: fetches before it listens.
ConnectStepsUnwired == <<"canonical", "wire", "restore">>

ConnectSteps == <<"wire", "canonical", "restore">>

\* connect() and the ping that proves the daemon is there.
Connect(w) ==
  /\ Free(w) /\ windows[w].state # "connected"
  /\ Accept("window")
  /\ Set(w, [windows[w] EXCEPT !.conn = nextConn, !.wired = FALSE, !.eof = "none",
                               !.todo = ConnectSteps])

OpenEditor(w) ==
  /\ Ready(w) /\ windows[w].shown = NoValue
  /\ HandleCheckout(windows[w].conn)
  /\ Then(w, nextId, <<"draft", "stash">>)

\* Mutant: the stash is left for later.
EditStepsUnstashed == <<"draft">>

\* Mutant: the judgement is left for later.
EditStepsUnfetched == <<"stash">>

EditSteps == <<"draft", "stash">>

\* What the user does to the draft the window shows.
Edit(w, id) ==
  /\ \E f \in Fields :
       \/ \E r \in Raws : HandleTrySet(windows[w].conn, id, f, r)
       \/ HandleResolve(windows[w].conn, id, f)
  /\ Then(w, id, EditSteps)

\* The report of the shown draft asks for a check.
CheckRequired(w) ==
  LET d == windows[w].shown.draft
  IN  d.check.state = "Idle" /\ IsDirty(d.fields[Checked])

BeginFolderCheck(w, id) ==
  /\ CheckRequired(w)
  /\ HandleBeginCheck(windows[w].conn, id)
  /\ Set(w, [windows[w] EXCEPT !.target = id,
                               !.token  = CHOOSE t \in tokens' : t \notin tokens,
                               !.todo   = <<"complete", "draft">>])

SubmitDraft(w, id) ==
  /\ HandleSubmit(windows[w].conn, id)
  /\ Set(w, [windows[w] EXCEPT !.shown = NoValue, !.blob = NoValue, !.todo = <<"canonical">>])

SubmitDraftRefused(w, id) ==
  /\ Serving(windows[w].conn) /\ id \in DOMAIN drafts /\ SubmitRefused(id)
  /\ Then(w, id, <<"draft">>)
  /\ UNCHANGED <<conns, nextConn, sockets, peers>>

CloseEditor(w, id) ==
  /\ HandleClose(windows[w].conn, id)
  /\ Set(w, [windows[w] EXCEPT !.shown = NoValue, !.blob = NoValue])

TogglePaused(w) ==
  /\ Ready(w)
  /\ HandleTogglePaused(windows[w].conn)
  /\ Then(w, NoValue, <<"canonical">>)

OnDraft(w) ==
  /\ Ready(w) /\ windows[w].shown # NoValue
  /\ LET id == windows[w].shown.id
     IN  \/ Edit(w, id) \/ BeginFolderCheck(w, id)
         \/ SubmitDraft(w, id) \/ SubmitDraftRefused(w, id) \/ CloseEditor(w, id)

-----------------------------------------------------------------------------
(* Pushes *)

\* Nobody listens yet.
DropTick(w) ==
  /\ ~Broken(w) /\ ~windows[w].wired /\ sockets[windows[w].conn] # <<>>
  /\ sockets' = [sockets EXCEPT ![windows[w].conn] = Tail(@)]
  /\ UNCHANGED <<vars, conns, nextConn, peers, windows>>

\* Tick, then fetch.
HandlePush(w) ==
  LET c == windows[w].conn
  IN  /\ Ready(w) /\ windows[w].wired /\ sockets[c] # <<>>
      /\ sockets' = [sockets EXCEPT ![c] = Tail(@)]
      /\ IF Head(sockets[c]).draft = NoValue THEN Then(w, NoValue, <<"canonical">>)
         ELSE IF windows[w].shown # NoValue
         THEN Then(w, windows[w].shown.id, <<"draft", "stash">>)
         ELSE UNCHANGED windows
      /\ UNCHANGED <<vars, conns, nextConn, peers>>

\* The reader thread sees the connection end and announces it, once.
AnnounceEnd(w) ==
  /\ windows[w].conn # NoValue /\ Broken(w) /\ windows[w].eof = "none"
  /\ Set(w, [windows[w] EXCEPT !.eof = IF windows[w].wired THEN "queued" ELSE "lost"])
  /\ UNCHANGED daemonVars

\* The daemon is gone and so is its store; the stash is ours.
OnDisconnect(w) ==
  /\ Free(w) /\ windows[w].eof = "queued"
  /\ Set(w, [windows[w] EXCEPT !.state = "disconnected", !.conn = NoValue, !.eof = "none",
                               !.wired = FALSE, !.shown = NoValue])
  /\ UNCHANGED daemonVars

-----------------------------------------------------------------------------
(* The rest of an operation, a request at a time *)

Todo(w, step) ==
  /\ windows[w].todo # <<>> /\ Head(windows[w].todo) = step
  /\ step = "wire" \/ (~Broken(w) /\ Serving(windows[w].conn))

\* What the window is once the step is done.
Done(w) ==
  LET rest == Tail(windows[w].todo)
  IN  [windows[w] EXCEPT !.todo   = rest,
                         !.target = IF rest = <<>> THEN NoValue ELSE @]

Wire(w) ==
  /\ Todo(w, "wire")
  /\ Set(w, [Done(w) EXCEPT !.wired = TRUE, !.state = "connected"])
  /\ UNCHANGED daemonVars

RefetchCanonical(w) ==
  /\ Todo(w, "canonical")
  /\ Set(w, [Done(w) EXCEPT !.pane = canonical])
  /\ UNCHANGED daemonVars

\* Coming back with a survival blob.
RestoreBlob(w) ==
  /\ Todo(w, "restore") /\ windows[w].blob # NoValue
  /\ HandleRestore(windows[w].conn, windows[w].blob)
  /\ Then(w, nextId, <<"draft">>)

NothingToRestore(w) ==
  /\ Todo(w, "restore") /\ windows[w].blob = NoValue
  /\ Set(w, Done(w))
  /\ UNCHANGED daemonVars

RefetchDraft(w) ==
  LET id == windows[w].target
  IN  /\ Todo(w, "draft")
      /\ Set(w, [Done(w) EXCEPT !.shown = IF Owns(windows[w].conn, id)
                                          THEN [id |-> id, draft |-> drafts[id].draft]
                                          ELSE @])
      /\ UNCHANGED daemonVars

RefreshStash(w) ==
  LET id == windows[w].target
  IN  /\ Todo(w, "stash")
      /\ Set(w, [Done(w) EXCEPT !.blob = IF Owns(windows[w].conn, id)
                                         THEN Stash(drafts[id].draft) ELSE @])
      /\ UNCHANGED daemonVars

\* The window judges the folder its snapshot shows.
CompleteFolderCheck(w) ==
  /\ Todo(w, "complete")
  /\ \E verdict \in Verdicts :
       HandleCompleteCheck(windows[w].conn, windows[w].target, windows[w].token, verdict)
  /\ Set(w, [Done(w) EXCEPT !.token = NoValue])

\* The connection broke: every request left returns nil.
GiveUpRequests(w) ==
  /\ windows[w].todo # <<>> /\ windows[w].wired /\ Broken(w)
  /\ Set(w, [windows[w] EXCEPT !.target = NoValue, !.token = NoValue, !.todo = <<>>])
  /\ UNCHANGED daemonVars

\* No pong.
ConnectFailed(w) ==
  /\ windows[w].todo # <<>> /\ ~windows[w].wired /\ Broken(w)
  /\ Set(w, [windows[w] EXCEPT !.state = "failed", !.conn = NoValue, !.eof = "none",
                               !.todo = <<>>])
  /\ UNCHANGED daemonVars

Continue(w) ==
  \/ Wire(w) \/ RefetchCanonical(w) \/ RestoreBlob(w) \/ NothingToRestore(w)
  \/ RefetchDraft(w) \/ RefreshStash(w) \/ CompleteFolderCheck(w)
  \/ GiveUpRequests(w) \/ ConnectFailed(w)

-----------------------------------------------------------------------------
\* The application is killed; its stash was in memory.
Kill(w) ==
  /\ windows[w] # Closed
  /\ Set(w, Closed)
  /\ peers' = [c \in DOMAIN peers |-> IF c = windows[w].conn THEN "gone" ELSE peers[c]]
  /\ UNCHANGED <<vars, conns, nextConn, sockets>>

WindowInit == SyncdInit /\ windows = [w \in Windows |-> Closed]

WindowNext ==
  \/ SyncdNext /\ UNCHANGED windows
  \/ \E w \in Windows :
       \/ Connect(w) \/ OpenEditor(w) \/ OnDraft(w) \/ TogglePaused(w)
       \/ DropTick(w) \/ HandlePush(w) \/ AnnounceEnd(w) \/ OnDisconnect(w)
       \/ Continue(w) \/ Kill(w)

WindowSpec == WindowInit /\ [][WindowNext]_windowVars

-----------------------------------------------------------------------------
(* Properties *)

\* Nothing is on its way to the window and it is not doing anything.
Settled(w) ==
  /\ Ready(w)
  /\ sockets[windows[w].conn] = <<>>
  /\ \A c \in DOMAIN conns : \A e \in conns[c].emits : e.to # windows[w].conn

\* U1, E1: whatever order the ticks of concurrent requests arrive in, and
\* however the daemon died and came back in between, a window that has
\* nothing left to fetch shows the daemon's canonical.
PaneSettles ==
  \A w \in Windows : Settled(w) => windows[w].pane = canonical

\* U3: ... and the draft it shows is the daemon's, conflicts, stamp and check
\* included.
ShownDraftSettles ==
  \A w \in Windows :
    Settled(w) /\ windows[w].shown # NoValue =>
      LET id == windows[w].shown.id
      IN  /\ Owns(windows[w].conn, id)
          /\ windows[w].shown.draft = drafts[id].draft

\* U4: whenever the daemon dies, what the user had typed by then is in the
\* window's hands: it is in the stash of the window that shows the draft.
TypedTextIsStashed ==
  \A w \in Windows :
    Settled(w) /\ windows[w].shown # NoValue =>
      \A f \in Fields :
        LET x == drafts[windows[w].shown.id].draft.fields[f]
        IN  IsDirty(x) => windows[w].blob # NoValue /\ windows[w].blob.fields[f].raw = x.raw

\* B2: the window judges the text of its snapshot, the core takes the verdict
\* for the text it asked about, and other clients move canonical in between;
\* as long as the core's draft still holds what the user typed, the two are
\* one text whenever the verdict is accepted.
JudgesTheTypedText ==
  \A w \in Windows :
    LET d == drafts[windows[w].target].draft
    IN  /\ Todo(w, "complete")
        /\ Accepts(d.check, windows[w].token)
        /\ IsDirty(d.fields[Checked])
        => windows[w].token.text = TextOf(windows[w].shown.draft)

\* C13 of the documents, whatever the draft holds by then: a verdict is
\* accepted for no text but the one that was judged.
JudgesTheAskedText ==
  \A w \in Windows :
    Todo(w, "complete") /\ Accepts(drafts[windows[w].target].draft.check, windows[w].token) =>
      windows[w].token.text = TextOf(windows[w].shown.draft)
=============================================================================
