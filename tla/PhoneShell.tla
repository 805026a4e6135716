----------------------------- MODULE PhoneShell -----------------------------
(***************************************************************************)
(* What the view models of the phones have in common: they run on the main *)
(* thread, link the facet (see Facet) and show the snapshots of one        *)
(* stream.  A handler changes the store in one critical section (main is   *)
(* "pushing" then) and, once its snapshot is pushed, reads the draft anew. *)
(* Checks run on threads of their own, so theirs may be pushed in between. *)
(***************************************************************************)
EXTENDS Shell

\* The part of a snapshot the echo rule and the version guard look at; `of`
\* is history: the draft it was built from.
View(id, d) == [of |-> id, version |-> d.baseVersion, text |-> Texts(d)]

Pushing(snap, then, f) == [at |-> "pushing", emit |-> snap, then |-> then, field |-> f]

\* Mutant: every snapshot is taken.
OutdatedNever(snap) == FALSE

\* The subscribe-race guard: an older version is a stale rebase.
Outdated(snap) == snap.version < screen.version

ShowSnapshot(snap, force) == screen' = snap /\ Repaint(focused, snap.text, force)

Reconcile(snap) ==
  IF Outdated(snap) THEN UNCHANGED <<screen, buffers, touched>>
  ELSE ShowSnapshot(snap, NoValue)

HasRoom == Len(queue) < MaxQueue

\* A push reaches the stream of the draft the shell is subscribed to.
Enqueue(snap) == queue' = IF snap.of = draftId THEN Append(queue, snap) ELSE queue

-----------------------------------------------------------------------------
(* Handlers *)

PhoneType(f, r) ==
  /\ Keystroke(f, r)
  /\ SetRaw(draftId, f, r)
  /\ main' = Pushing(View(draftId, drafts'[draftId].draft), "edited", f)
  /\ UNCHANGED <<timerVars, phoneVars>>

PhoneResolve(f) ==
  /\ MainIdle
  /\ ResolveKeepMine(draftId, f) \/ ResolveTakeTheirs(draftId, f)
  /\ main' = Pushing(View(draftId, drafts'[draftId].draft), "resolved", f)
  /\ UNCHANGED <<kind, echoVars, timerVars, phoneVars>>

\* The simulated server: only the stream tells the view model.
PhoneServer ==
  /\ MainIdle /\ version < MaxPushes
  /\ \E entity \in Entities(accepts) : ApplyCanonical(entity)
  /\ main' = Pushing(View(draftId, drafts'[draftId].draft), "return", NoValue)
  /\ UNCHANGED <<kind, echoVars, timerVars, phoneVars>>

\* scheduleCheck: each edit cancels the timer and may start another.
Rearmed(d) == IF Askable(d) THEN {editGen} ELSE {}

\* Cancelling the coroutine stops a call that has not begun; a detached task
\* knows nothing of it.
Uncancelled == IF kind = "android" THEN {c \in calls : c.at # "called"} ELSE calls

\* The rest of a handler, once its snapshot is pushed.
PhoneReturn ==
  /\ main.at = "pushing" /\ HasRoom
  /\ Enqueue(main.emit)
  /\ LET snap == View(draftId, Draft)
     IN  CASE main.then = "edited"   -> Reconcile(snap)
           [] main.then = "resolved" -> ShowSnapshot(snap, main.field)
           [] OTHER                  -> UNCHANGED <<screen, buffers, touched>>
  /\ IF main.then = "edited" /\ main.field = Checked
     THEN timers' = Rearmed(Draft) /\ calls' = Uncancelled
     ELSE UNCHANGED <<timers, calls>>
  /\ main' = IdleMain
  /\ UNCHANGED <<vars, kind, control, focused, editGen, inHand>>

PhoneDeliver ==
  /\ MainIdle /\ queue # <<>>
  /\ queue' = Tail(queue)
  /\ Reconcile(Head(queue))
  /\ UNCHANGED <<vars, kind, main, control, focused, timerVars, inHand, calls>>

\* A refused submit changes nothing.
PhoneSubmit ==
  /\ MainIdle /\ Submit(draftId)
  /\ main' = [IdleMain EXCEPT !.at = "submitted"]
  /\ UNCHANGED <<kind, echoVars, timerVars, phoneVars>>

\* recheckout, and what construction does: another draft, another stream.
\* Armed timers are left alone.
PhoneOpen ==
  LET snap == View(nextId, drafts'[nextId].draft)
  IN  /\ main' = IdleMain
      /\ focused' = NoValue /\ touched' = FALSE
      /\ screen' = snap /\ buffers' = snap.text
      /\ queue' = <<>>
      /\ UNCHANGED <<kind, control, timerVars, calls>>

-----------------------------------------------------------------------------
(* run_username_check on a thread of its own *)

\* runCheckNow: nothing makes a check wait for the one before it.
PhoneTimer ==
  /\ MainIdle /\ timers # {} /\ Cardinality(calls) < MaxCalls
  /\ timers' = {}
  /\ calls' = calls \cup {[id |-> draftId, at |-> "called", emit |-> NoValue, token |-> NoValue,
                           no |-> CHOOSE n \in 0..MaxCalls : \A c \in calls : c.no # n]}
  /\ UNCHANGED <<vars, kind, main, echoVars, editGen, screen, queue, inHand>>

Step(c, d) == calls' = (calls \ {c}) \cup {d}

\* Another call has taken the checker of draft `id`.
Busy(id) == \E c \in calls : c.id = id /\ c.at \in {"pending", "outcall"}

\* The coroutine reads `draft` on its own thread, the detached task was given it.
Handle(c) == IF kind = "android" THEN draftId ELSE c.id

\* A call that finds the checker taken, or the draft gone, returns.
CallTakes(c) ==
  /\ c.at = "called"
  /\ LET id == Handle(c)
     IN  IF id \notin DOMAIN drafts \/ Busy(id)
         THEN calls' = calls \ {c} /\ UNCHANGED vars
         ELSE /\ BeginCheck(id)
              /\ Step(c, [c EXCEPT !.id = id, !.at = "pending",
                                   !.emit = View(id, drafts'[id].draft),
                                   !.token = CHOOSE t \in tokens' : t \notin tokens])
  /\ UNCHANGED queue

CallShowsPending(c) ==
  /\ c.at = "pending" /\ HasRoom
  /\ Enqueue(c.emit)
  /\ Step(c, [c EXCEPT !.at = "outcall", !.emit = NoValue])
  /\ UNCHANGED vars

\* The foreign checker answers, is given back, and the check is completed:
\* Facet has these steps apart.
CallSettles(c) ==
  /\ c.at = "outcall"
  /\ \E verdict \in Verdicts : CompleteCheck(c.token, verdict)
  /\ IF c.id \in DOMAIN drafts
     THEN Step(c, [c EXCEPT !.at = "push", !.token = NoValue, !.emit = View(c.id, drafts'[c.id].draft)])
     ELSE calls' = calls \ {c}
  /\ UNCHANGED queue

CallPushes(c) ==
  /\ c.at = "push" /\ HasRoom
  /\ Enqueue(c.emit)
  /\ calls' = calls \ {c}
  /\ UNCHANGED vars

CallSteps ==
  /\ \E c \in calls : CallTakes(c) \/ CallShowsPending(c)
                        \/ CallSettles(c) \/ CallPushes(c)
  /\ UNCHANGED <<kind, main, echoVars, timerVars, screen, inHand>>

PhoneUser ==
  \/ \E f \in Fields : Focus(f) \/ PhoneResolve(f) \/ \E r \in Raws : PhoneType(f, r)
  \/ Blur
  \/ PhoneSubmit
  \/ PhoneServer

PhoneRuns == PhoneReturn \/ PhoneDeliver \/ PhoneTimer \/ CallSteps
=============================================================================
