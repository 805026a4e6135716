----------------------------- MODULE LinuxHttp -----------------------------
(***************************************************************************)
(* The reqwest adapter (bolted-http-linux/src/lib.rs): one task per        *)
(* request, and every await of it in a biased select with the caller's     *)
(* cancel and the total deadline.                                          *)
(***************************************************************************)
EXTENDS Native

\* A permit of `cancel` stays until a select takes it.
Interrupted == cancel # "no" \/ deadline # "armed"

\* The select is biased towards the cancel.
Interrupt == IF cancel # "no" THEN "Cancelled" ELSE "Timeout"

LinuxDeadline ==
  /\ deadline = "armed" /\ InFlight
  /\ deadline' = "done"
  /\ UNCHANGED <<streamVars, request, stopped, cause, exchange, parked, file>>

\* Where the task awaits.
Awaits == {"head", "asleep", "read", "create", "write", "rename"}

\* Mutant: the download is written in place.
BegunInPlace == IF producer.at = "create" THEN [file EXCEPT !.dest = "none"] ELSE file

\* A file operation that was begun runs on when its future is dropped.
BegunFileStep ==
  CASE producer.at = "create" -> [file EXCEPT !.temp = TRUE]
    [] producer.at = "rename" -> [file EXCEPT !.temp = FALSE, !.dest = "whole"]
    [] OTHER -> file

LinuxInterrupted ==
  /\ producer.at \in Awaits /\ Interrupted
  /\ file' \in {file, BegunFileStep}
  /\ EndsWith(Failed(Interrupt))
  /\ UNCHANGED <<bodyVars, flowVars, driver, fault, request, deadline, stopped, cause, exchange>>

Await(at) == producer.at = at /\ ~Interrupted

UnchangedByTask ==
  UNCHANGED <<flowVars, driver, fault, request, deadline, stopped, cause>>

-----------------------------------------------------------------------------
(* follow_redirects *)

AfterHead ==
  CASE Streaming -> "turn" [] request.sink = "File" -> "create" [] OTHER -> "read"

LinuxFollow ==
  /\ Await("head")
  /\ \/ Go(AfterHead) /\ UNCHANGED <<terminal, parked, exchange>>
     \/ /\ Redirected
        /\ IF hops' > Ceiling THEN EndsWith(Failed("TooManyRedirects"))
           ELSE UNCHANGED <<producer, terminal, parked>>
     \/ Downgraded /\ EndsWith(Failed("InsecureRedirect"))
     \/ Broken /\ EndsWith(Failed("Transport"))
     \/ TimesOut /\ EndsWith(Failed("Timeout"))
  /\ UNCHANGED <<bodyVars, file>> /\ UnchangedByTask

-----------------------------------------------------------------------------
(* stream_perform *)

\* The head of the pause loop.
LinuxTurn ==
  /\ producer.at = "turn"
  /\ Go(IF paused THEN "register" ELSE "read")
  /\ UNCHANGED <<bodyVars, terminal, flowVars, driver, fault, nativeVars>>

\* From here on a notification is not missed.
LinuxRegister ==
  /\ producer.at = "register"
  /\ Go("registered")
  /\ UNCHANGED <<bodyVars, terminal, flowVars, driver, fault, nativeVars>>

LinuxRecheck ==
  /\ producer.at \in {"registered", "notified"}
  /\ Go(IF ~paused THEN "read"
        ELSE IF producer.at = "notified" THEN "turn" ELSE "asleep")
  /\ UNCHANGED <<bodyVars, terminal, flowVars, driver, fault, nativeVars>>

LinuxRead ==
  /\ Streaming /\ Await("read")
  /\ \/ /\ BodyEnded
        /\ EndsUnlessSkipped(Complete(producer.i), FALSE)
        /\ UNCHANGED <<bodyVars, exchange>>
     \/ /\ ~BodyEnded /\ Broken
        /\ EndsWith(Failed("Transport"))
        /\ UNCHANGED bodyVars
     \/ /\ ~BodyEnded
        /\ DeliverRead("turn")
        /\ UNCHANGED <<terminal, parked, exchange>>
  /\ UNCHANGED file /\ UnchangedByTask

-----------------------------------------------------------------------------
(* build_response and write_body_to_file *)

LinuxBuffer ==
  /\ request.sink = "Memory" /\ Await("read")
  /\ \/ CompleteWith(Complete(Count)) /\ UNCHANGED exchange
     \/ Broken /\ CompleteWith(Failed("Transport"))
  /\ UNCHANGED <<bodyVars, file>> /\ UnchangedByTask

FileFails(keepsTemp) ==
  /\ file' = [file EXCEPT !.failed = TRUE, !.temp = keepsTemp]
  /\ CompleteWith(Failed("Io"))
  /\ UNCHANGED exchange

LinuxCreate ==
  /\ Await("create")
  /\ \/ /\ file' = [file EXCEPT !.temp = TRUE]
        /\ Go("write")
        /\ UNCHANGED <<terminal, parked, exchange>>
     \/ FileFails(FALSE)
  /\ UNCHANGED bodyVars /\ UnchangedByTask

\* The copy loop, the flush and the sync.
LinuxWrite ==
  /\ Await("write")
  /\ \/ Go("rename") /\ UNCHANGED <<terminal, parked, exchange, file>>
     \/ /\ Broken
        /\ file' = [file EXCEPT !.temp = FALSE]
        /\ CompleteWith(Failed("Transport"))
     \/ FileFails(FALSE)
  /\ UNCHANGED bodyVars /\ UnchangedByTask

\* A failed rename leaves the temporary file behind.
LinuxRename ==
  /\ Await("rename")
  /\ \/ /\ file' = [file EXCEPT !.temp = FALSE, !.dest = "whole"]
        /\ CompleteWith(Complete(Count))
        /\ UNCHANGED exchange
     \/ FileFails(TRUE)
  /\ UNCHANGED bodyVars /\ UnchangedByTask

-----------------------------------------------------------------------------
(* LinuxFlowObserver::on_signal *)

LinuxResume == ResumePushed("notify") /\ UNCHANGED <<producer, nativeVars>>

LinuxNotify ==
  /\ driver.at = "notify"
  /\ Go(CASE producer.at = "registered" -> "notified"
          [] producer.at = "asleep" -> "turn"
          [] OTHER -> producer.at)
  /\ Drive(AfterStep)
  /\ UNCHANGED <<bodyVars, terminal, flowVars, fault, nativeVars>>

LinuxCancel ==
  /\ cancel = "no" /\ signals /\ InFlight
  /\ cancel' = "done"
  /\ UNCHANGED <<bodyVars, terminal, signals, pauseLost, paused, producer, driver, fault, nativeVars>>

LinuxTask ==
  \/ LinuxInterrupted \/ LinuxTurn \/ LinuxRegister \/ LinuxRecheck
  \/ NativePause("turn") \/ CloseSink \/ RecordEnd

\* What waits for the network or the disk.
LinuxIO ==
  LinuxFollow \/ LinuxRead \/ LinuxBuffer \/ LinuxCreate \/ LinuxWrite \/ LinuxRename

LinuxDriver == NativeDriver \/ LinuxResume \/ LinuxNotify

LinuxNext ==
  LinuxTask \/ LinuxIO \/ LinuxDriver \/ NativeGiveUp \/ LinuxDeadline \/ LinuxCancel
=============================================================================
