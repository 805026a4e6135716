----------------------------- MODULE AppleShell -----------------------------
(***************************************************************************)
(* The SwiftUI view model (apple/profile-app, ProfileViewModel.swift).     *)
(***************************************************************************)
EXTENDS PhoneShell

\* Cancelling the stream's task does not recall a snapshot its loop has
\* already been handed.
AppleOpens ==
  /\ main.at \in {"launch", "submitted"}
  /\ Checkout
  /\ PhoneOpen
  /\ inHand' \in {inHand} \cup {queue[i] : i \in 1..Len(queue) \cap {1}}

\* The loop of a cancelled task runs its body once more.
AppleLateDelivery ==
  /\ MainIdle /\ inHand # NoValue
  /\ inHand' = NoValue
  /\ Reconcile(inHand)
  /\ UNCHANGED <<vars, kind, main, control, focused, timerVars, queue, calls>>

AppleNext ==
  kind = "apple" /\ (PhoneUser \/ PhoneRuns \/ AppleOpens \/ AppleLateDelivery)
=============================================================================
