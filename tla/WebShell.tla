------------------------------ MODULE WebShell ------------------------------
(***************************************************************************)
(* The web controller (profile-web/src/controller.rs) and its view's       *)
(* timers (app.rs).  One thread: a handler is one step, but for submit,    *)
(* whose two calls of the store are two with nothing in between.  A lookup *)
(* that is under way is a token the shell holds.                           *)
(***************************************************************************)
EXTENDS Shell

\* Setters are inert on an orphan, but the control keeps the text.
WebType(f, r) ==
  /\ Keystroke(f, r)
  /\ IF IsLive THEN SetRaw(draftId, f, r) ELSE UNCHANGED vars
  /\ IF f = Checked
     THEN /\ editGen < MaxEdits
          /\ editGen' = editGen + 1 /\ timers' = timers \cup {editGen + 1}
     ELSE UNCHANGED timerVars
  /\ UNCHANGED <<main, phoneVars>>

IsCurrent(ticket) == ticket = editGen /\ IsLive

\* fire_check_if_current: a burst of edits asks once, about the last text.
WebTimer(ticket) ==
  /\ MainIdle
  /\ timers' = timers \ {ticket}
  /\ IF IsCurrent(ticket) /\ Askable(Draft) THEN BeginCheck(draftId) ELSE UNCHANGED vars
  /\ UNCHANGED <<kind, main, editGen, echoVars, phoneVars>>

\* complete_check: the verdict goes to the draft the controller holds now.
WebVerdict(token, verdict) ==
  /\ MainIdle
  /\ tokens' = tokens \ {token}
  /\ IF IsLive
     THEN Update(draftId, [Draft EXCEPT !.check = Complete(@, token, verdict)])
     ELSE UNCHANGED drafts
  /\ UNCHANGED <<canonical, version, nextId, stash, accepts,
                 kind, main, echoVars, timerVars, phoneVars>>

WebResolve(f) ==
  /\ MainIdle /\ IsLive
  /\ ResolveKeepMine(draftId, f) \/ ResolveTakeTheirs(draftId, f)
  /\ Repaint(focused, Texts(drafts'[draftId].draft), f)
  /\ UNCHANGED <<kind, main, control, focused, timerVars, phoneVars>>

\* The button takes the focus before it is clicked.  A refused submit
\* changes nothing.
WebSubmit ==
  /\ MainIdle /\ control = NoValue /\ draftId \in DOMAIN drafts
  /\ Submit(draftId)
  /\ main' = [IdleMain EXCEPT !.at = "submitted"]
  /\ UNCHANGED <<kind, echoVars, timerVars, phoneVars>>

\* The rest of submit: a fresh checkout.
WebRecheckout ==
  /\ main.at = "submitted"
  /\ Checkout
  /\ main' = IdleMain
  /\ focused' = NoValue
  /\ Repaint(NoValue, Texts(drafts'[nextId].draft), NoValue)
  /\ UNCHANGED <<kind, control, timerVars, phoneVars>>

\* The simulated server.
WebServer ==
  /\ MainIdle
  /\ \/ /\ \E entity \in Entities(accepts) : ApplyCanonical(entity)
        /\ Repaint(focused, Texts(drafts'[draftId].draft), NoValue)
     \/ DeleteCanonical /\ UNCHANGED <<buffers, touched>>
  /\ UNCHANGED <<kind, main, control, focused, timerVars, phoneVars>>

WebOpen ==
  /\ main.at = "launch"
  /\ Checkout
  /\ main' = IdleMain
  /\ buffers' = Texts(drafts'[nextId].draft)
  /\ UNCHANGED <<kind, control, focused, touched, timerVars, phoneVars>>

WebUser ==
  \/ \E f \in Fields : Focus(f) \/ WebResolve(f) \/ \E r \in Raws : WebType(f, r)
  \/ Blur
  \/ WebSubmit
  \/ WebServer

\* What the controller and its futures do by themselves.
WebRuns ==
  \/ WebOpen
  \/ WebRecheckout
  \/ \E ticket \in timers : WebTimer(ticket)
  \/ \E token \in tokens, verdict \in Verdicts : WebVerdict(token, verdict)

WebNext == kind = "web" /\ (WebUser \/ WebRuns)
=============================================================================
