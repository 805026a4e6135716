---------------------------- MODULE AndroidShell ----------------------------
(***************************************************************************)
(* The Android view model (android/profile-app, ProfileViewModel.kt): it   *)
(* saves the draft's stash when the system asks for it, and a new process  *)
(* restores it over whatever the server says then.                         *)
(***************************************************************************)
EXTENDS PhoneShell

\* A cancelled coroutine is never resumed with an element.
AndroidRecheckout ==
  /\ main.at = "submitted"
  /\ Checkout
  /\ PhoneOpen
  /\ UNCHANGED inHand

\* The saved-state provider builds the stash when the system is about to kill
\* a stopped app; the server may move while it is dead.
AndroidDies ==
  /\ MainIdle
  /\ stash' = IF IsLive THEN Stash(Draft) ELSE NoValue
  /\ canonical' \in Entities(accepts)
  /\ version' = 0 /\ drafts' = Empty /\ nextId' = 0 /\ tokens' = {}
  /\ main' = [IdleMain EXCEPT !.at = "launch"]
  /\ control' = NoValue /\ focused' = NoValue /\ touched' = FALSE
  /\ timers' = {} /\ queue' = <<>> /\ calls' = {}
  /\ buffers' = [f \in Fields |-> NoValue] /\ screen' = NoValue
  /\ UNCHANGED <<accepts, kind, editGen, inHand>>

\* init: restore the stash, or check out afresh.  The stash is not read again
\* before the next save replaces it.
AndroidLaunch ==
  /\ main.at = "launch"
  /\ drafts' = Put(nextId, AdoptedEntry(IF stash = NoValue THEN FromCanonical(canonical, version)
                                        ELSE FromStash(accepts, stash)))
  /\ nextId' = nextId + 1
  /\ stash' = NoValue
  /\ PhoneOpen
  /\ UNCHANGED <<canonical, version, tokens, accepts, inHand>>

AndroidRuns == AndroidRecheckout \/ AndroidLaunch

AndroidNext ==
  /\ kind = "android"
  /\ PhoneUser \/ PhoneRuns \/ AndroidRuns \/ AndroidDies
=============================================================================
