----------------------------- MODULE Transfers -----------------------------
(***************************************************************************)
(* One HTTP request on any of the platforms: the conformance mock          *)
(* (Stream), reqwest, URLSession or OkHttp, buffered, into a file or       *)
(* streamed, with any of the faults its adapter can be built with.         *)
(***************************************************************************)
EXTENDS Stream, LinuxHttp, AppleHttp, AndroidHttp

\* StreamFault of the native adapters; a buffered request knows none.
NativeFaults == {"None", "DropChunk", "SkipTerminal"}

NativeStart ==
  /\ producer = [at |-> "head", i |-> 0, end |-> Pending]
  /\ fault \in NativeFaults
  /\ ~Streaming => fault = "None"

MockStart ==
  /\ Streaming
  /\ producer = [at |-> "wait", i |-> 0, end |-> Pending]
  /\ fault \in Faults

TransfersInit ==
  /\ BodyInit /\ NativeInit
  /\ request \in [platform : Platforms, sink : Sinks]
  /\ terminal = Pending
  /\ signals = FALSE /\ pauseLost = FALSE /\ paused = FALSE /\ cancel = "no"
  /\ driver = [at |-> "start", last |-> FALSE]
  /\ IF On("Mock") THEN MockStart ELSE NativeStart

TransfersNext ==
  \/ On("Mock") /\ StreamNext /\ UNCHANGED nativeVars
  \/ On("Linux") /\ LinuxNext
  \/ On("Apple") /\ AppleNext
  \/ On("Android") /\ AndroidNext

TransfersSpec == TransfersInit /\ [][TransfersNext]_transferVars

\* Threads run on, a monitor that is free again and again is entered in the
\* end, a call of cancel() returns and a deadline passes. The network need
\* never answer and the disk never finish; only the mock needs no network.
FairTransfersSpec ==
  /\ TransfersSpec
  /\ WF_transferVars(On("Mock") /\ Producer /\ UNCHANGED nativeVars)
  /\ WF_transferVars(On("Mock") /\ Driver /\ UNCHANGED nativeVars)
  /\ SF_transferVars(On("Mock") /\ PushResume /\ UNCHANGED nativeVars)
  /\ WF_transferVars(On("Mock") /\ NotifyCancel /\ UNCHANGED nativeVars)
  /\ WF_transferVars(On("Linux") /\ LinuxTask)
  /\ WF_transferVars(On("Linux") /\ LinuxDriver)
  /\ WF_transferVars(On("Linux") /\ LinuxDeadline)
  /\ WF_transferVars(On("Apple") /\ AppleQueue)
  /\ WF_transferVars(On("Apple") /\ AppleDriver)
  /\ WF_transferVars(On("Apple") /\ (AppleDeadline \/ AppleStop))
  /\ WF_transferVars(On("Android") /\ AndroidThread)
  /\ WF_transferVars(On("Android") /\ stopped /\ AndroidIO)
  /\ WF_transferVars(On("Android") /\ AndroidDriver)
  /\ SF_transferVars(On("Android") /\ (AndroidResume \/ AndroidCancel))
  /\ WF_transferVars(On("Android") /\ AndroidDeadline)

-----------------------------------------------------------------------------
(* Properties *)

ProducerPlaces ==
  {"wait", "toSleep", "asleep", "check", "deliver", "pause", "finish", "record", "done",
   "head", "turn", "register", "registered", "notified", "read", "create", "write",
   "move", "remove", "rename", "body", "complete", "held", "lost", "closed"}

DriverType ==
  [at : {"start", "drain", "resume", "notify", "look", "done"}, last : BOOLEAN]

\* The type invariant of a transfer; the ring never exceeds its capacity.
TransferTypeOK ==
  /\ BodyTypeOK
  /\ terminal \in Ends \cup {Pending}
  /\ producer \in [at : ProducerPlaces, i : 0..Count, end : Ends \cup {Pending}]
  /\ driver \in DriverType
  /\ request \in [platform : Platforms, sink : Sinks]
  /\ network \in Networks
  /\ file \in FileType
  /\ cause \in Causes
  /\ hops \in 0..(Ceiling + 1)

\* URLSession ends a redirect the delegate refused as the response it is, and
\* the streaming branch of didCompleteWithError has no arm for that cause.
RefusedRedirectLeaks == On("Apple") /\ Streaming /\ network = "refused"

\* A cancel or a deadline that came too late keeps the refusal, or the file's
\* failure, from being recorded; the task, which saw no error, succeeds.
FailureIsMasked ==
  /\ On("Apple") /\ cause \in {"callerCancel", "deadline"}
  /\ file.failed \/ network = "refused"

\* Row 12 and row 15: a success is the whole body, at the consumer or in the
\* file, whatever the adapter dropped, however the drains and the terminal
\* interleave, and whenever a cancel came; but for the two cases above.
SuccessIsWhole ==
  terminal.error = "none" =>
    \/ Streaming /\ Len(taken) = Count
    \/ request.sink = "File" /\ file.dest = "whole"
    \/ request.sink = "Memory" /\ terminal.total = Count
    \/ RefusedRedirectLeaks \/ FailureIsMasked

\* OkHttp's exceptions of the file sink are all reported as Io.
AndroidSinkBlamesTheFile ==
  /\ On("Android") /\ request.sink = "File"
  /\ stopped \/ network \in {"broken", "timedOut"}

\* What an end of each kind says has happened before it.
HasItsCause(end) ==
  CASE end.error = "Cancelled"        -> cancel # "no"
    [] end.error = "Timeout"          -> deadline # "armed" \/ network = "timedOut"
    [] end.error = "Transport"        -> network = "broken" \/ fault \in {"Truncate", "DropChunk"}
    [] end.error = "Io"               -> file.failed \/ AndroidSinkBlamesTheFile
    [] end.error = "InsecureRedirect" -> network = "refused"
    [] end.error = "TooManyRedirects" -> hops > Ceiling
    [] OTHER -> TRUE

\* Rule 9: an outcome is classified by its cause. It names the cancel, a
\* timeout (the deadline's or the stack's own, told apart nowhere), the network,
\* the file or the refusal only if there was one, in whatever order they came.
OutcomeHasItsCause == HasItsCause(terminal)

\* Back-pressure is load-bearing: an adapter that honours a Pause overflows
\* the ring only if one was pushed before the driver had stored the emitter,
\* or if a cancel lifted the Pause (Android) while OkHttp had more buffered.
\* URLSession's suspend is no such promise.
OverflowNeedsALostPause ==
  terminal.error = "StreamOverflow" =>
    \/ fault = "IgnorePause" \/ pauseLost
    \/ On("Android") /\ cancel = "done"
    \/ On("Apple")

\* Reqwest's rename replaces the file in one step: whatever becomes of the
\* request, the old file or the whole new one is there.
OldOrWhole == On("Linux") => file.dest \in {"old", "whole"}

\* Rows 13 and 14: every request ends, even if the network never answers: by
\* the deadline, also under a suspended task or a loop that waits for its
\* Resume. Only a driver that gave up lets a thread sleep for ever, and only
\* a paused OkHttp loop whose call was cancelled returns without a terminal.
EveryTransferEnds ==
  <>(\/ terminal # Pending
     \/ fault = "SkipTerminal"
     \/ GaveUp /\ request.platform \in {"Mock", "Android"}
     \/ producer.at = "lost")

(* What the repository says and the code does not do *)

\* signal.rs: a cancelled request still completes.
CancelledStillCompletes ==
  cancel # "no" ~> terminal # Pending \/ fault = "SkipTerminal" \/ GaveUp
=============================================================================
