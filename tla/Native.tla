------------------------------- MODULE Native -------------------------------
(***************************************************************************)
(* What the three platform adapters have in common: one request, the       *)
(* bridge that parks its sink until the one terminal                       *)
(* (bolted-http-ffi/src/lib.rs), the total deadline, the caller's cancel,  *)
(* and the network.                                                        *)
(*                                                                         *)
(* A buffered request (sink "Memory" or "File") has no driver: its         *)
(* `terminal` is what the completion was given. The network answers when   *)
(* and how it likes; a body of Count chunks arrives in order.              *)
(***************************************************************************)
EXTENDS StreamDriver

CONSTANTS Ceiling   \* the hops a request may follow: RedirectCeiling, or the
                    \* OS's own cap

ASSUME NativeAssumption == Ceiling \in Nat /\ 0..Count \subseteq Totals

VARIABLES
  request,      \* [platform, sink], for ever
  deadline,     \* "armed" | "set" (the cause is recorded) | "done" (acted on)
  stopped,      \* was the OS task or call told to cancel?
  cause,        \* RequestContext.termination (Apple)
  network,      \* "ok" | "broken" | "timedOut" (a timer of the stack's own)
                \* | "refused" (an https to http redirect)
  hops,         \* the redirects followed
  parked,       \* does the bridge (or the task) still hold the sink?
  file          \* the file sink: [dest, temp, failed]

nativeVars == <<request, deadline, stopped, cause, network, hops, parked, file>>
exchange   == <<network, hops>>
adapterVars == <<deadline, stopped, cause, exchange, file>>
transferVars == <<streamVars, nativeVars>>

Platforms == {"Mock", "Linux", "Apple", "Android"}
Sinks == {"Stream", "Memory", "File"}
Networks == {"ok", "broken", "timedOut", "refused"}
Causes == {"none", "callerCancel", "deadline", "insecureRedirect", "ioFailure"}

\* The file a request finds, the file it asked for, a refused redirect's body.
FileType ==
  [dest : {"none", "old", "whole", "redirect"}, temp : BOOLEAN, failed : BOOLEAN]

On(platform) == request.platform = platform

Streaming == request.sink = "Stream"

-----------------------------------------------------------------------------
(* The bridge *)

\* complete_ok and complete_err: take_pending, then the completion.
CompleteWith(end) ==
  /\ terminal' = end
  /\ parked' = FALSE
  /\ Go("done")

\* The terminal a request is given, through finish_body or a completion.
EndsWith(end) ==
  IF Streaming THEN EndWith(end) /\ UNCHANGED <<terminal, parked>>
  ELSE CompleteWith(end)

\* The terminal withheld by the SkipTerminal fault.
EndsUnlessSkipped(end, keepsSink) ==
  IF Streaming /\ fault = "SkipTerminal"
  THEN Go("done") /\ parked' = keepsSink /\ UNCHANGED terminal
  ELSE EndsWith(end)

\* Every read is numbered but one that the DropChunk fault drops.
NextSeq == IF fault = "DropChunk" THEN producer.i - 1 ELSE producer.i

\* One transport read of a stream, and deliver_chunk under the registry's
\* lock: back to `again`, or on to what the core's refusal leads to.
DeliverRead(again) ==
  LET chunk == [seq |-> NextSeq, size |-> 1]
      read  == [producer EXCEPT !.i = @ + 1]
  IN  IF fault = "DropChunk" /\ producer.i = 0
      THEN producer' = [read EXCEPT !.at = again] /\ UNCHANGED bodyVars
      ELSE IF Accepts(chunk)
      THEN /\ DeliverChunk(chunk)
           /\ producer' = [read EXCEPT !.at = IF PauseDue THEN "pause" ELSE again]
      ELSE /\ producer' = [read EXCEPT !.at = "finish", !.end = Failed(Refusal(chunk))]
           /\ UNCHANGED bodyVars

\* finish_body, or the second half of a refused deliver_chunk: the sink leaves
\* the registry, then the ingest is closed.
CloseSink ==
  /\ FinishBody
  /\ parked' = FALSE
  /\ UNCHANGED <<request, adapterVars>>

CoreRefused == producer.end.error = "StreamOverflow"

\* The core refused a chunk: the adapter is told to stop.
RecordEnd ==
  /\ producer.at = "record"
  /\ terminal' = outcome
  /\ Go(IF CoreRefused /\ ~On("Linux") THEN "closed" ELSE "done")
  /\ UNCHANGED <<bodyVars, flowVars, driver, fault, nativeVars>>

\* streamClosedByCore: the task is cancelled and nothing more is finished.
StopReading ==
  /\ producer.at = "closed"
  /\ stopped' = TRUE
  /\ Go("done")
  /\ UNCHANGED <<bodyVars, terminal, flowVars, driver, fault,
                 request, deadline, cause, exchange, parked, file>>

NativePause(again) ==
  /\ producer.at = "pause"
  /\ PausePushed
  /\ Go(again)
  /\ UNCHANGED nativeVars

-----------------------------------------------------------------------------
(* The caller *)

\* The adapter has returned the emitter, or the handle of a buffered request.
Returned ==
  IF Streaming THEN SetSignals
  ELSE /\ driver.at = "start"
       /\ signals' = TRUE
       /\ Drive("done")
       /\ UNCHANGED <<bodyVars, terminal, pauseLost, paused, cancel, producer, fault>>

\* The driver's own steps; what a Resume does is the platform's.
NativeDriver ==
  /\ Returned \/ DrainStep \/ Look
  /\ UNCHANGED nativeVars

NativeGiveUp == GiveUp /\ UNCHANGED nativeVars

\* A signal finds its request only while the adapter keeps it: not once the
\* terminal is on its way.
InFlight == producer.at \notin {"finish", "record", "closed", "done"}

-----------------------------------------------------------------------------
(* The network *)

\* What an exchange may come to before the body: a redirect is followed, an
\* https to http one is not.
Redirected ==
  /\ hops <= Ceiling
  /\ hops' = hops + 1
  /\ UNCHANGED network

Downgraded == network' = "refused" /\ UNCHANGED hops

Broken == network' = "broken" /\ UNCHANGED hops

\* The stack below an adapter has timers of its own: connect, read, idle.
TimesOut == network' = "timedOut" /\ UNCHANGED hops

\* Every chunk has come; a refused redirect's own body is empty.
BodyEnded == producer.i = Count \/ network = "refused"

NativeInit ==
  /\ deadline = "armed" /\ stopped = FALSE /\ cause = "none"
  /\ network = "ok" /\ hops = 0 /\ parked = TRUE
  /\ file = [dest |-> "old", temp |-> FALSE, failed |-> FALSE]
=============================================================================
