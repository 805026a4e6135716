------------------------------- MODULE Syncd -------------------------------
(***************************************************************************)
(* The daemon of spikes/os-integration (crates/syncd/src/lib.rs): one      *)
(* store behind one mutex, a thread per connection.                        *)
(*                                                                         *)
(* A request is one critical section, a step of Store.  The reply and then *)
(* the ticks the request caused are written with the mutex released, one   *)
(* at a time, by the thread that served it; it reads its next line after.  *)
(*                                                                         *)
(* The client's wire token is a name for the core's token, so the model    *)
(* uses the core's.  Requests that only read, and those resolve() refuses, *)
(* change nothing and have no action.                                      *)
(***************************************************************************)
EXTENDS Store, Sequences

CONSTANTS
  Paused,       \* the field TogglePaused flips
  Seed,         \* the canonical the daemon boots with
  MaxConns      \* bound: connections ever made

ASSUME SyncdAssumption ==
  /\ Paused \in Fields \ {Checked}
  /\ \A accepted \in AcceptSets : Seed \in Entities(accepted)
  /\ MaxConns \in Nat
  /\ NoValue \notin Nat /\ NoValue \notin StashType

VARIABLES
  conns,        \* the live connections: id -> Conn
  nextConn,
  sockets,      \* connection -> the ticks written and not yet read
  peers         \* connection -> who is at the other end

daemonVars == <<vars, conns, nextConn, sockets, peers>>

\* A tick; the draft of a CanonicalChanged is NoValue.
Tick == [draft : Option(Nat), version : Nat]

\* emits: what the connection's thread has yet to write, and to whom.
Conn == [drafts : SUBSET Nat, tokens : SUBSET TokenType,
         emits  : SUBSET [to : Nat, tick : Tick]]

Peers == {"client", "window", "gone"}

\* The connection's thread has written everything and reads its next line.
Serving(c) == c \in DOMAIN conns /\ conns[c].emits = {}

\* resolve()
Owns(c, id) == id \in conns[c].drafts

KeepWires == UNCHANGED <<nextConn, sockets, peers>>

-----------------------------------------------------------------------------
(* Connections come and go *)

Accept(peer) ==
  /\ nextConn < MaxConns
  /\ nextConn' = nextConn + 1
  /\ conns' = [c \in DOMAIN conns \cup {nextConn} |->
                 IF c = nextConn THEN [drafts |-> {}, tokens |-> {}, emits |-> {}]
                 ELSE conns[c]]
  /\ sockets' = [c \in DOMAIN sockets \cup {nextConn} |->
                   IF c = nextConn THEN <<>> ELSE sockets[c]]
  /\ peers' = [c \in DOMAIN peers \cup {nextConn} |->
                 IF c = nextConn THEN peer ELSE peers[c]]
  /\ UNCHANGED vars

\* A client closes, or is killed; the daemon reads its EOF later.
HangUp(c) ==
  /\ peers[c] = "client"
  /\ peers' = [peers EXCEPT ![c] = "gone"]
  /\ UNCHANGED <<vars, conns, nextConn, sockets>>

\* Mutant: the connection goes and its drafts stay.
KeptDrafts(c) == drafts

PrunedDrafts(c) == [id \in DOMAIN drafts \ conns[c].drafts |-> drafts[id]]

\* The reader thread sees the EOF.
Disconnect(c) ==
  /\ Serving(c) /\ peers[c] = "gone"
  /\ drafts' = PrunedDrafts(c)
  /\ tokens' = tokens \ conns[c].tokens
  /\ conns' = [d \in DOMAIN conns \ {c} |-> conns[d]]
  /\ sockets' = [d \in DOMAIN sockets \ {c} |-> sockets[d]]
  /\ peers' = [d \in DOMAIN peers \ {c} |-> peers[d]]
  /\ UNCHANGED <<canonical, version, nextId, stash, accepts, nextConn>>

\* The first of a thread's emits: connection by connection, the canonical
\* tick before the rebased ones.
Rank(emit) == <<emit.to, IF emit.tick.draft = NoValue THEN 0 ELSE emit.tick.draft + 1>>

Precedes(a, b) == a[1] < b[1] \/ (a[1] = b[1] /\ a[2] <= b[2])

First(emits) == CHOOSE e \in emits : \A f \in emits : Precedes(Rank(e), Rank(f))

\* A write to a peer that is gone fails and is ignored; a client that is no
\* window needs no tick, for what it shows it asked for.
Flush(c) ==
  /\ c \in DOMAIN conns /\ conns[c].emits # {}
  /\ LET e == First(conns[c].emits)
     IN  /\ conns' = [conns EXCEPT ![c].emits = @ \ {e}]
         /\ sockets' = IF e.to \in DOMAIN conns /\ peers[e.to] = "window"
                       THEN [sockets EXCEPT ![e.to] = Append(@, e.tick)] ELSE sockets
  /\ UNCHANGED <<vars, nextConn, peers>>

-----------------------------------------------------------------------------
(* handle_request *)

\* Mutant: the connection that made the change is told nothing.
BroadcastToOthers(c, owned, v, moved) ==
  [to : DOMAIN owned \ {c}, tick : {[draft |-> NoValue, version |-> v]}]
    \cup {[to |-> d, tick |-> [draft |-> id, version |-> v]] :
            d \in DOMAIN owned \ {c}, id \in moved}

\* Mutant: only the canonical tick goes out.
BroadcastNoRebased(c, owned, v, moved) ==
  [to : DOMAIN owned, tick : {[draft |-> NoValue, version |-> v]}]

\* One canonical tick per connection, and one rebased tick to each rebased
\* draft's owner; `owned` is who owns what, `c` who caused it.
Broadcast(c, owned, v, moved) ==
  [to : DOMAIN owned, tick : {[draft |-> NoValue, version |-> v]}]
    \cup UNION {[to : {d}, tick : [draft : moved \cap owned[d], version : {v}]] :
                  d \in DOMAIN owned}

Registered == {id \in DOMAIN drafts : drafts[id].rebases}

Register(c, id) == conns' = [conns EXCEPT ![c].drafts = @ \cup {id}]

\* The connection lets go of the draft, and everybody is told what moved.
Announce(c, id, moved) ==
  LET owned == [d \in DOMAIN conns |-> conns[d].drafts \ {id}]
  IN  conns' = [d \in DOMAIN conns |->
                  [conns[d] EXCEPT !.drafts = owned[d],
                                   !.emits  = IF d = c
                                              THEN Broadcast(c, owned, version', moved)
                                              ELSE @]]

HandleCheckout(c) == Serving(c) /\ Checkout /\ Register(c, nextId) /\ KeepWires

HandleRestore(c, blob) ==
  /\ Serving(c) /\ Adopt(FromStash(accepts, blob))
  /\ Register(c, nextId) /\ KeepWires

HandleTrySet(c, id, f, r) ==
  /\ Serving(c) /\ Owns(c, id) /\ SetRaw(id, f, r)
  /\ UNCHANGED conns /\ KeepWires

HandleResolve(c, id, f) ==
  /\ Serving(c) /\ Owns(c, id)
  /\ ResolveKeepMine(id, f) \/ ResolveTakeTheirs(id, f)
  /\ UNCHANGED conns /\ KeepWires

\* The core's token stays here; the client gets a number for it.
HandleBeginCheck(c, id) ==
  /\ Serving(c) /\ Owns(c, id) /\ BeginCheck(id)
  /\ conns' = [conns EXCEPT ![c].tokens = @ \cup (tokens' \ tokens)]
  /\ KeepWires

Settles(token, id) == token.id = id

\* The token is consumed in any case; another draft's settles nothing.
HandleCompleteCheck(c, id, token, verdict) ==
  /\ Serving(c) /\ Owns(c, id) /\ token \in conns[c].tokens
  /\ IF Settles(token, id)
     THEN LET d == drafts[id].draft
          IN  Update(id, [d EXCEPT !.check = Complete(d.check, token, verdict)])
     ELSE UNCHANGED drafts
  /\ tokens' = tokens \ {token}
  /\ conns' = [conns EXCEPT ![c].tokens = @ \ {token}]
  /\ UNCHANGED <<canonical, version, nextId, stash, accepts>> /\ KeepWires

HandleSubmit(c, id) ==
  /\ Serving(c) /\ Owns(c, id) /\ Submit(id)
  /\ Announce(c, id, Registered \ {id}) /\ KeepWires

HandleClose(c, id) ==
  /\ Serving(c) /\ Owns(c, id) /\ Close(id)
  /\ conns' = [conns EXCEPT ![c].drafts = @ \ {id}]
  /\ KeepWires

\* toggle_paused validates the flipped entity in full, then applies it.
HandleTogglePaused(c) ==
  /\ Serving(c) /\ canonical # NoValue
  /\ \E v \in Values \cap accepts :
       LET flipped == [canonical EXCEPT ![Paused] = v]
       IN  /\ v # canonical[Paused]
           /\ <<flipped[Checked], flipped[Ruled]>> \notin Forbidden
           /\ ApplyCanonical(flipped)
  /\ Announce(c, NoValue, Registered) /\ KeepWires

\* A client at the end of its wire: syncctl, a probe, another shell.
Client(c) ==
  /\ peers[c] = "client"
  /\ \/ HandleCheckout(c)
     \/ HandleTogglePaused(c)
     \/ \E id \in conns[c].drafts :
          \/ \E f \in Fields, r \in Raws : HandleTrySet(c, id, f, r)
          \/ \E f \in Fields : HandleResolve(c, id, f)
          \/ HandleBeginCheck(c, id)
          \/ \E token \in conns[c].tokens, verdict \in Verdicts :
               HandleCompleteCheck(c, id, token, verdict)
          \/ HandleSubmit(c, id)
          \/ HandleClose(c, id)

-----------------------------------------------------------------------------
\* The process is killed, or its idle sweeper exits it: between any two
\* critical sections, whoever is connected.  The next one boots with the seed.
Die ==
  /\ conns # Empty \/ version # 0
  /\ canonical' = Seed /\ version' = 0
  /\ drafts' = Empty /\ nextId' = 0 /\ tokens' = {}
  /\ conns' = Empty /\ sockets' = Empty /\ peers' = Empty
  /\ UNCHANGED <<stash, accepts, nextConn>>

SyncdInit ==
  /\ Init /\ canonical = Seed
  /\ conns = Empty /\ nextConn = 0 /\ sockets = Empty /\ peers = Empty

SyncdNext ==
  \/ Accept("client")
  \/ \E c \in DOMAIN conns :
       HangUp(c) \/ Disconnect(c) \/ Flush(c) \/ Client(c)
  \/ Die

-----------------------------------------------------------------------------
(* Properties *)

SyncdTypeOK ==
  /\ TypeOK
  /\ \A c \in DOMAIN conns : c < nextConn /\ conns[c] \in Conn
  /\ DOMAIN sockets = DOMAIN conns /\ DOMAIN peers = DOMAIN conns
  /\ \A c \in DOMAIN peers : sockets[c] \in Seq(Tick) /\ peers[c] \in Peers

\* E2: a draft is held by exactly one connection that is still registered, a
\* connection holds no draft that is gone, and a token the daemon keeps is
\* some connection's; nothing outlives the client that asked for it.
DraftsAreOwned ==
  /\ DOMAIN drafts = UNION {conns[c].drafts : c \in DOMAIN conns}
  /\ tokens = UNION {conns[c].tokens : c \in DOMAIN conns}
  /\ \A c, d \in DOMAIN conns : c # d => conns[c].drafts \cap conns[d].drafts = {}
=============================================================================
