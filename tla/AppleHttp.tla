----------------------------- MODULE AppleHttp -----------------------------
(***************************************************************************)
(* The URLSession adapter (BoltedHttp.swift): a session task that runs on  *)
(* its own, delegate callbacks one at a time on a serial queue, and        *)
(* signals and a timer that reach the task from other threads under a      *)
(* lock they release before they act on it.                                *)
(*                                                                         *)
(* What URLSession does between callbacks is external: a suspended task    *)
(* reads nothing (a callback already queued still runs), a cancelled task  *)
(* completes with an error unless it had ended first, and a redirect the   *)
(* delegate does not follow ends as the response it is.                    *)
(***************************************************************************)
EXTENDS Native

UnchangedBySession ==
  UNCHANGED <<flowVars, driver, fault, request, deadline, stopped>>

\* A termination is recorded once.
Terminated(why) == cause' = IF cause = "none" THEN why ELSE cause

-----------------------------------------------------------------------------
(* The delegate *)

\* The response's head; then a file is downloaded, the rest is received.
AppleHead ==
  /\ producer.at = "head"
  /\ \/ Go("body") /\ UNCHANGED <<cause, exchange>>
     \/ Redirected /\ hops' <= Ceiling /\ UNCHANGED <<producer, cause>>
     \/ /\ Downgraded
        /\ Terminated("insecureRedirect")
        /\ Go("body")
  /\ UNCHANGED <<bodyVars, terminal, parked, file>> /\ UnchangedBySession

\* didReceive data.
AppleReceive ==
  /\ producer.at = "body" /\ ~BodyEnded
  /\ IF Streaming THEN DeliverRead("body")
     ELSE /\ producer' = [producer EXCEPT !.i = Count,
                            !.at = IF request.sink = "File" THEN "move" ELSE "body"]
          /\ UNCHANGED bodyVars
  /\ UNCHANGED <<terminal, parked, cause, exchange, file>> /\ UnchangedBySession

\* The body of a refused redirect is downloaded like any other.
AppleDownloaded ==
  /\ producer.at = "body" /\ request.sink = "File" /\ network = "refused"
  /\ Go("move")
  /\ UNCHANGED <<bodyVars, terminal, parked, cause, exchange, file>> /\ UnchangedBySession

\* The catch of didFinishDownloadingTo; removing the temporary file may fail.
PersistFails ==
  /\ file' \in [dest : {file.dest}, temp : {FALSE, file.temp}, failed : {TRUE}]
  /\ Terminated("ioFailure")
  /\ Go("complete")

Downloaded == IF network = "refused" THEN "redirect" ELSE "whole"

\* didFinishDownloadingTo: into the directory, remove the old file, rename.
ApplePersist ==
  /\ \/ /\ producer.at = "move"
        /\ \/ file' = [file EXCEPT !.temp = TRUE] /\ Go("remove") /\ UNCHANGED cause
           \/ PersistFails
     \/ /\ producer.at = "remove"
        /\ \/ file' = [file EXCEPT !.dest = "none"] /\ Go("rename") /\ UNCHANGED cause
           \/ PersistFails
     \/ /\ producer.at = "rename"
        /\ \/ /\ file' = [file EXCEPT !.dest = Downloaded, !.temp = FALSE]
              /\ Go("complete")
              /\ UNCHANGED cause
           \/ PersistFails
  /\ UNCHANGED <<bodyVars, terminal, parked, exchange>> /\ UnchangedBySession

\* mapError of the URLError a cancelled task, or a broken exchange, ends with.
MapError(error) ==
  CASE error = "broken"    -> "Transport"
    [] error = "timedOut"  -> "Timeout"
    [] error = "exhausted" -> "TooManyRedirects"
    [] OTHER               -> IF cause = "deadline" THEN "Timeout" ELSE "Cancelled"

\* The terminal of a stream, by cause.
StreamEnd(error) ==
  CASE cause = "deadline"     -> Failed("Timeout")
    [] cause = "callerCancel" -> Failed("Cancelled")
    [] error # "none"         -> Failed(MapError(error))
    [] OTHER                  -> Complete(producer.i)

\* Mutant: a task without an error succeeded, whatever was recorded.
BufferedEndByError(error) ==
  IF error # "none" THEN Failed(MapError(error)) ELSE Complete(producer.i)

\* The completion of a buffered request, by cause.
BufferedEnd(error) ==
  CASE cause = "insecureRedirect" -> Failed("InsecureRedirect")
    [] cause = "ioFailure"        -> Failed("Io")
    [] error # "none"             -> Failed(MapError(error))
    [] OTHER                      -> Complete(producer.i)

\* didCompleteWithError.
AppleComplete(error) ==
  /\ IF Streaming THEN EndsUnlessSkipped(StreamEnd(error), TRUE)
     ELSE CompleteWith(BufferedEnd(error))
  /\ UNCHANGED <<bodyVars, cause, file>> /\ UnchangedBySession

AwaitsCompletion ==
  \/ producer.at = "complete"
  \/ producer.at = "body" /\ BodyEnded /\ request.sink # "File"

\* A cancelled task completes, one that has ended perhaps without an error.
AppleCompletes ==
  /\ \/ /\ stopped /\ producer.at \in {"head", "body", "complete"}
        /\ AppleComplete("cancelled")
     \/ /\ AwaitsCompletion
        /\ AppleComplete("none")
  /\ UNCHANGED exchange

AppleBreaks ==
  \/ /\ producer.at \in {"head", "body"} /\ ~BodyEnded
     /\ \/ Broken /\ AppleComplete("broken")
        \/ TimesOut /\ AppleComplete("timedOut")
  \/ /\ producer.at = "head"
     /\ Redirected /\ hops' > Ceiling
     /\ AppleComplete("exhausted")

-----------------------------------------------------------------------------
(* signal and deadlineFired *)

\* The cause is recorded under the lock ...
AppleCancel ==
  /\ cancel = "no" /\ signals /\ InFlight
  /\ cancel' = "set"
  /\ Terminated("callerCancel")
  /\ UNCHANGED <<bodyVars, terminal, signals, pauseLost, paused, producer, driver, fault,
                 request, deadline, stopped, exchange, parked, file>>

AppleDeadline ==
  /\ deadline = "armed" /\ InFlight /\ cause = "none"
  /\ deadline' = "set"
  /\ Terminated("deadline")
  /\ UNCHANGED <<streamVars, request, stopped, exchange, parked, file>>

\* ... and the task is cancelled once it is released.
AppleStop ==
  /\ \/ cancel = "set" /\ cancel' = "done" /\ UNCHANGED deadline
     \/ deadline = "set" /\ deadline' = "done" /\ UNCHANGED cancel
  /\ stopped' = TRUE
  /\ UNCHANGED <<bodyVars, terminal, signals, pauseLost, paused, producer, driver, fault,
                 request, cause, exchange, parked, file>>

AppleResume == ResumePushed(AfterStep) /\ UNCHANGED <<producer, nativeVars>>

AppleQueue ==
  \/ AppleDownloaded \/ ApplePersist \/ AppleCompletes \/ StopReading
  \/ NativePause("body") \/ CloseSink \/ RecordEnd

AppleIO == AppleHead \/ AppleReceive \/ AppleBreaks

AppleDriver == NativeDriver \/ AppleResume

AppleNext ==
  \/ AppleQueue \/ AppleIO \/ AppleDriver \/ NativeGiveUp
  \/ AppleCancel \/ AppleDeadline \/ AppleStop
=============================================================================
