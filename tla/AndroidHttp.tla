---------------------------- MODULE AndroidHttp ----------------------------
(***************************************************************************)
(* The OkHttp adapter (BoltedHttp.kt): one dispatcher thread per call,     *)
(* which waits on a monitor while paused, a signal from any thread, and    *)
(* OkHttp's own watchdog, which cancels the call at the deadline.          *)
(*                                                                         *)
(* External: a read of a cancelled call throws, or returns what OkHttp had *)
(* buffered.                                                               *)
(***************************************************************************)
EXTENDS Native

CallerCancelled == cancel # "no"

\* The exception at hand is an InterruptedIOException: of the call's total
\* timeout, or of a read, write or connect timeout, which OkHttp has by default.
InterruptedIO == deadline = "done" \/ network' = "timedOut"

\* Mutant: the exception's type is believed before the recorded cancel.
ClassifyByType == IF InterruptedIO THEN "Timeout" ELSE "Transport"

\* classify, by cause: a recorded cancel wins, then the exception's type.
Classify ==
  IF CallerCancelled THEN "Cancelled" ELSE IF InterruptedIO THEN "Timeout" ELSE "Transport"

\* The ProtocolException of OkHttp's own cap on a chain of redirects.
ClassifyExhausted == IF CallerCancelled THEN "Cancelled" ELSE "TooManyRedirects"

UnchangedByCall ==
  UNCHANGED <<flowVars, driver, fault, request, deadline, stopped, cause>>

\* An IOException: of a stopped call, or because the exchange failed.
Throws ==
  \/ stopped /\ UNCHANGED exchange
  \/ ~stopped /\ (Broken \/ TimesOut)

AndroidHead ==
  /\ producer.at = "head"
  /\ \/ /\ Go(CASE Streaming -> "turn" [] request.sink = "File" -> "write" [] OTHER -> "read")
        /\ UNCHANGED <<terminal, parked, exchange>>
     \/ /\ Redirected
        /\ IF hops' > Ceiling THEN EndsWith(Failed(ClassifyExhausted))
           ELSE UNCHANGED <<producer, terminal, parked>>
     \/ Downgraded /\ EndsWith(Failed("InsecureRedirect"))
     \/ Throws /\ EndsWith(Failed(Classify))
  /\ UNCHANGED <<bodyVars, file>> /\ UnchangedByCall

-----------------------------------------------------------------------------
(* streamResponse *)

\* The monitor is entered, and the call looked at only if the loop is paused.
AndroidTurn ==
  /\ producer.at = "turn"
  /\ Go(IF paused THEN "held" ELSE "read")
  /\ UNCHANGED <<bodyVars, terminal, flowVars, driver, fault, nativeVars>>

\* A cancelled call returns here, with no terminal for the sink.
AndroidHeld ==
  /\ producer.at = "held"
  /\ Go(IF stopped THEN "lost" ELSE "toSleep")
  /\ UNCHANGED <<bodyVars, terminal, flowVars, driver, fault, nativeVars>>

\* wait() gives the monitor up.
AndroidWait ==
  /\ producer.at = "toSleep"
  /\ Go("asleep")
  /\ UNCHANGED <<bodyVars, terminal, flowVars, driver, fault, nativeVars>>

AndroidRead ==
  /\ Streaming /\ producer.at = "read"
  /\ \/ /\ BodyEnded
        /\ EndsUnlessSkipped(Complete(producer.i), TRUE)
        /\ UNCHANGED <<bodyVars, exchange>>
     \/ /\ ~BodyEnded
        /\ DeliverRead("turn")
        /\ UNCHANGED <<terminal, parked, exchange>>
     \/ /\ Throws
        /\ EndsWith(Failed(Classify))
        /\ UNCHANGED bodyVars
  /\ UNCHANGED file /\ UnchangedByCall

-----------------------------------------------------------------------------
(* The buffered sinks *)

AndroidBuffer ==
  /\ request.sink = "Memory" /\ producer.at = "read"
  /\ \/ CompleteWith(Complete(Count)) /\ UNCHANGED exchange
     \/ Throws /\ CompleteWith(Failed(Classify))
  /\ UNCHANGED <<bodyVars, file>> /\ UnchangedByCall

\* The catch of sinkBodyToFile, and the Io its caller makes of any exception;
\* deleting the temporary file may fail.
SinkFails(failed) ==
  /\ file' \in [dest : {file.dest}, temp : BOOLEAN, failed : {failed}]
  /\ CompleteWith(Failed("Io"))

\* sinkBodyToFile: write the temporary file, delete the old one, rename.
AndroidSink ==
  /\ \/ /\ producer.at = "write"
        /\ \/ /\ file' = [file EXCEPT !.temp = TRUE]
              /\ Go("remove")
              /\ UNCHANGED <<terminal, parked, exchange>>
           \/ Throws /\ SinkFails(FALSE)
           \/ UNCHANGED exchange /\ SinkFails(TRUE)
     \/ /\ producer.at = "remove"
        /\ \/ /\ file' = [file EXCEPT !.dest = "none"]
              /\ Go("rename")
              /\ UNCHANGED <<terminal, parked>>
           \/ SinkFails(TRUE)
        /\ UNCHANGED exchange
     \/ /\ producer.at = "rename"
        /\ \/ /\ file' = [file EXCEPT !.dest = "whole", !.temp = FALSE]
              /\ CompleteWith(Complete(Count))
           \/ SinkFails(TRUE)
        /\ UNCHANGED exchange
  /\ UNCHANGED bodyVars /\ UnchangedByCall

-----------------------------------------------------------------------------
(* signal, and the call's own timeout *)

Woken == IF producer.at = "asleep" THEN Go("turn") ELSE UNCHANGED producer

MonitorFree == producer.at \notin {"held", "toSleep"}

\* The flag is set, the call is cancelled, the monitor is entered last.
AndroidCancel ==
  /\ \/ /\ cancel = "no" /\ signals /\ InFlight
        /\ cancel' = "set"
        /\ UNCHANGED <<stopped, paused, producer>>
     \/ /\ cancel = "set"
        /\ cancel' = "called" /\ stopped' = TRUE
        /\ UNCHANGED <<paused, producer>>
     \/ /\ cancel = "called" /\ MonitorFree
        /\ cancel' = "done" /\ paused' = FALSE
        /\ Woken
        /\ UNCHANGED stopped
  /\ UNCHANGED <<bodyVars, terminal, signals, pauseLost, driver, fault,
                 request, deadline, cause, exchange, parked, file>>

\* callTimeout: the call is cancelled; nobody enters the monitor.
AndroidDeadline ==
  /\ deadline = "armed" /\ InFlight
  /\ deadline' = "done" /\ stopped' = TRUE
  /\ UNCHANGED <<streamVars, request, cause, exchange, parked, file>>

AndroidResume ==
  /\ MonitorFree
  /\ ResumePushed(AfterStep)
  /\ Woken
  /\ UNCHANGED nativeVars

AndroidThread ==
  \/ AndroidTurn \/ AndroidHeld \/ AndroidWait \/ NativePause("turn")
  \/ CloseSink \/ RecordEnd \/ StopReading

AndroidIO == AndroidHead \/ AndroidRead \/ AndroidBuffer \/ AndroidSink

AndroidDriver == NativeDriver \/ AndroidResume

AndroidNext ==
  \/ AndroidThread \/ AndroidIO \/ AndroidDriver \/ NativeGiveUp
  \/ AndroidCancel \/ AndroidDeadline
=============================================================================
