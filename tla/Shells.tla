------------------------------- MODULE Shells -------------------------------
(***************************************************************************)
(* Every shell of the profile form: the echo rule, the drafts it opens one *)
(* after the other, and the checks it asks for.                            *)
(***************************************************************************)
EXTENDS WebShell, AppleShell, AndroidShell

\* new(), init: the store is seeded; the first checkout follows.
ShellInit ==
  /\ Init /\ canonical = Seed
  /\ kind \in Kinds
  /\ main = [IdleMain EXCEPT !.at = "launch"]
  /\ buffers = [f \in Fields |-> NoValue]
  /\ control = NoValue /\ focused = NoValue /\ touched = FALSE
  /\ timers = {} /\ editGen = 0
  /\ screen = NoValue /\ queue = <<>> /\ inHand = NoValue /\ calls = {}

ShellNext == WebNext \/ AppleNext \/ AndroidNext

ShellSpec == ShellInit /\ [][ShellNext]_shellVars

\* Timers fire, lookups and checkers answer, the main thread and the threads
\* of the checks run on.  Nobody has to touch the form.
FairShellSpec ==
  /\ ShellSpec
  /\ WF_shellVars(kind = "web" /\ (WebOpen \/ WebRecheckout))
  /\ \A ticket \in 1..MaxEdits : WF_shellVars(kind = "web" /\ ticket \in timers /\ WebTimer(ticket))
  /\ WF_shellVars(kind = "web" /\ \E token \in tokens, v \in Verdicts : WebVerdict(token, v))
  /\ WF_shellVars(kind # "web" /\ PhoneReturn)
  /\ WF_shellVars(kind # "web" /\ PhoneDeliver)
  /\ WF_shellVars(kind # "web" /\ PhoneTimer)
  /\ WF_shellVars(kind # "web" /\ CallSteps)

-----------------------------------------------------------------------------
(* Properties *)

SnapshotType == [of : Nat, version : Nat, text : [Fields -> Option(Raws)]]

ShellTypeOK ==
  /\ TypeOK
  /\ kind \in Kinds
  /\ main.at \in {"launch", "idle", "pushing", "submitted"}
  /\ buffers \in [Fields -> Option(Raws)]
  /\ control \in Option(Fields) /\ focused \in {control, NoValue}
  /\ touched => focused # NoValue
  /\ timers \subseteq Nat
  /\ screen \in Option(SnapshotType) /\ inHand \in Option(SnapshotType)
  /\ queue \in Seq(SnapshotType)

\* The echo rule: between two handlers a control the user is not typing into
\* shows exactly what the shell knows of the draft.
UntouchedControlsFollow ==
  MainIdle /\ (kind = "web" \/ IsLive) =>
    \A f \in Fields : ~(touched /\ focused = f) => buffers[f] = Known[f]

\* Steps that are not the user's own: pushes, deliveries, verdicts, timers
\* and the server.
NotTheUser ==
  \/ kind = "web" /\ (WebServer \/ WebRuns)
  \/ kind # "web" /\ (PhoneServer \/ PhoneDeliver \/ PhoneTimer \/ CallSteps)
  \/ kind = "apple" /\ AppleLateDelivery

\* The echo rule, the other half: live keystrokes are repainted by nobody.
KeystrokesStay ==
  [][NotTheUser /\ touched =>
       /\ buffers'[focused] = buffers[focused]
       /\ touched' /\ focused' = focused]_shellVars

\* After a submit no snapshot of the draft that is gone is shown any more.
ScreenIsOfThisDraft == MainIdle /\ screen # NoValue => screen.of = draftId

\* A valid, dirty username that nobody has asked about, and could still be.
Unasked ==
  /\ MainIdle /\ IsLive
  /\ Askable(Draft) /\ Draft.check.state = "Idle" /\ Draft.check.seq < MaxSeq

\* A dirty username does not stay unchecked while the user waits: the check is
\* asked for, or the user moves on.
PhoneAsks == (kind # "web" /\ Unasked) ~> ~Unasked
=============================================================================
