---------------------------- MODULE SingleFlight ----------------------------
(***************************************************************************)
(* The single-flight check of bolted-core/src/single_flight.rs: at most    *)
(* one check in flight, the latest begin wins, and any change of the       *)
(* checked value resets it.                                                *)
(*                                                                         *)
(* `seq` is the coordinator's counter; the code's Pending { seq } always   *)
(* holds the current counter, so the state alone tells Pending.  `about`   *)
(* is a history component: the text the check in `state` was asked about.  *)
(***************************************************************************)
EXTENDS Field

Verdicts == {"Pass", "Fail"}

CheckType == [seq   : Nat,
              state : {"Idle", "Pending"} \cup Verdicts,
              about : Option(Raws)]

NewCheck == [seq |-> 0, state |-> "Idle", about |-> NoValue]

Begin(c, text) == [seq |-> c.seq + 1, state |-> "Pending", about |-> text]

\* Mutant: any outstanding token settles the pending check.
AcceptsAny(c, token) == c.state = "Pending" /\ token.seq <= c.seq

\* A token is the sequence number begin handed out; `text` is history: what
\* the checker holding the token was asked about.
Accepts(c, token) == c.state = "Pending" /\ c.seq = token.seq

Complete(c, token, verdict) ==
  IF Accepts(c, token)
  THEN [c EXCEPT !.state = verdict, !.about = token.text]
  ELSE c

Reset(c) == [seq |-> c.seq + 1, state |-> "Idle", about |-> NoValue]

\* Mutant: an unrun check does not block (before C16).
BlocksOnceRun(c, pinnedDirty) == c.state \in {"Pending", "Fail"}

\* SingleFlight::violation: does this check block a commit?
Blocks(c, pinnedDirty) ==
  \/ c.state \in {"Pending", "Fail"}
  \/ c.state = "Idle" /\ pinnedDirty
=============================================================================
