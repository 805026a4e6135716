------------------------------- MODULE Shell -------------------------------
(***************************************************************************)
(* What every shell of the profile form keeps over its one draft: a text   *)
(* buffer per control, and which control the user is in (the echo rule).   *)
(* The web controller reads the store directly (WebShell); the phones show *)
(* a snapshot and link the facet (PhoneShell, AppleShell, AndroidShell).   *)
(*                                                                         *)
(* `control` is where the keyboard focus really is; `focused` is what the  *)
(* shell was last told.  They differ only after a submit, which resets the *)
(* one and not the other.                                                  *)
(***************************************************************************)
EXTENDS Store, Sequences, FiniteSets

CONSTANTS
  Kinds,      \* the shells to model: a subset of {"web", "apple", "android"}
  Seed,       \* the entity the store is seeded with
  MaxEdits,   \* bound: edits of the checked field in the web shell
  MaxQueue,   \* bound: snapshots pushed and not delivered yet
  MaxPushes,  \* bound: the version past which a phone's server is silent
  MaxCalls    \* bound: checks a phone has under way at once

ASSUME ShellAssumption ==
  /\ Kinds \subseteq {"web", "apple", "android"}
  /\ Seed \in [Fields -> Values]
  /\ NoValue \notin Fields
  /\ MaxEdits \in Nat /\ MaxQueue \in Nat \ {0} /\ MaxPushes \in Nat /\ MaxCalls \in Nat \ {0}

VARIABLES
  kind,       \* which shell this is; never changes
  main,       \* where the shell's main thread is
  buffers,    \* the text each control shows
  control,    \* the control with the keyboard focus, or NoValue
  focused,    \* the shell's own idea of it
  touched,    \* typed into since the shell last wrote that buffer?
  timers,     \* debounce timers that have not fired: the edits they are for
  editGen,    \* the last edit's number
  screen,     \* the snapshot a phone shows, or NoValue
  queue,      \* snapshots pushed to the subscribed stream, in order
  inHand,     \* a snapshot of a cancelled subscription on its way, or NoValue
  calls       \* calls of run_username_check on threads of their own

echoVars  == <<buffers, control, focused, touched>>
phoneVars == <<screen, queue, inHand, calls>>
timerVars == <<timers, editGen>>
shellVars == <<vars, kind, main, echoVars, timerVars, phoneVars>>

IdleMain == [at |-> "idle", emit |-> NoValue, then |-> "return", field |-> NoValue]

MainIdle == main = IdleMain

\* The shell holds one draft at a time: the last one it opened.
draftId == nextId - 1

Draft == drafts[draftId].draft

IsLive == draftId \in DOMAIN drafts /\ Live(draftId)

\* display: the value's text, the rejected text, or nothing.
Texts(d) == [f \in Fields |-> d.fields[f].raw]

\* What the shell knows of the draft.
Known == IF kind = "web" THEN Texts(Draft) ELSE screen.text

\* Only a valid and dirty username is worth a check.
Askable(d) == FieldValue(d.fields[Checked]) # NoValue /\ IsDirty(d.fields[Checked])

-----------------------------------------------------------------------------
(* The echo rule *)

\* Mutant: repaints a control whose field the sanitizer left clean.
KeepsDirty(focus, f, force) ==
  focus = f /\ force # f /\ buffers[f] # NoValue /\ IsDirty(Draft.fields[f])

\* Mutant: a focused control is protected even if nobody typed (before D9).
KeepsFocused(focus, f, force) == focus = f /\ force # f

\* A control is protected while focused and typed into; `force` names a field
\* whose value moved from outside a keystroke.
Keeps(focus, f, force) == focus = f /\ touched /\ force # f

\* refresh_buffers, syncBuffers
Repaint(focus, texts, force) ==
  /\ buffers' = [f \in Fields |-> IF Keeps(focus, f, force) THEN buffers[f] ELSE texts[f]]
  /\ touched' = (touched /\ force # focus)

\* A control loses the focus before another gets it.
Focus(f) ==
  /\ MainIdle /\ control = NoValue
  /\ control' = f /\ focused' = f /\ touched' = FALSE
  /\ UNCHANGED <<vars, kind, main, buffers, timerVars, phoneVars>>

\* Mutant: the flag outlives the focus.
BlurTouched ==
  /\ MainIdle /\ control # NoValue
  /\ control' = NoValue /\ focused' = NoValue
  /\ buffers' = Known
  /\ UNCHANGED <<vars, kind, main, touched, timerVars, phoneVars>>

Blur ==
  /\ MainIdle /\ control # NoValue
  /\ control' = NoValue /\ focused' = NoValue
  /\ buffers' = Known /\ touched' = FALSE
  /\ UNCHANGED <<vars, kind, main, timerVars, phoneVars>>

\* A keystroke leaves the text `r` in control f.
Keystroke(f, r) ==
  /\ MainIdle /\ control = f
  /\ buffers' = [buffers EXCEPT ![f] = r]
  /\ touched' = (touched \/ focused = f)
  /\ UNCHANGED <<kind, control, focused>>
=============================================================================
