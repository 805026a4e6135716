------------------------------- MODULE Stream -------------------------------
(***************************************************************************)
(* One streamed response end to end (bolted-http/src/conformance/          *)
(* stream.rs): the adapter's producer thread, the driver thread whose slow *)
(* consumer paces it with pushed signals, and a caller who may cancel.     *)
(*                                                                         *)
(* The producer and the driver meet in the ingest's lock (a step of        *)
(* BodyStream), in the emitter slot and in the observer, whose `paused`    *)
(* has a mutex and a condition variable and whose `cancelled` has neither. *)
(***************************************************************************)
EXTENDS StreamDriver

Faults == {"None", "Truncate", "SkipTerminal", "IgnorePause"}

Cancelled == cancel # "no"

-----------------------------------------------------------------------------
(* run_producer *)

\* wait_while_paused, to the decision: the mutex is held if it is to sleep.
WaitWhilePaused ==
  /\ producer.at = "wait"
  /\ Go(IF fault # "IgnorePause" /\ paused /\ ~Cancelled THEN "toSleep" ELSE "check")
  /\ UNCHANGED <<bodyVars, terminal, flowVars, driver, fault>>

\* The condition variable releases the mutex and sleeps.
Sleep ==
  /\ producer.at = "toSleep"
  /\ Go("asleep")
  /\ UNCHANGED <<bodyVars, terminal, flowVars, driver, fault>>

\* A condition variable may wake for no reason.
SpuriousWake ==
  /\ producer.at = "asleep"
  /\ Go("wait")
  /\ UNCHANGED <<bodyVars, terminal, flowVars, driver, fault>>

\* A truncating producer counts the last chunk and does not send it.
CheckCancelled ==
  /\ producer.at = "check"
  /\ IF Cancelled THEN EndWith(Failed("Cancelled"))
     ELSE IF fault = "Truncate" /\ producer.i + 1 = Count THEN EndWith(Complete(Count))
     ELSE Go("deliver")
  /\ UNCHANGED <<bodyVars, terminal, flowVars, driver, fault>>

\* The next turn of the loop, or what comes after it.
NextTurn(p) ==
  IF p.i < Count THEN [p EXCEPT !.at = "wait"]
  ELSE IF fault = "SkipTerminal" THEN [p EXCEPT !.at = "done"]
  ELSE [p EXCEPT !.at = "finish", !.end = Complete(Count)]

\* DriverStream::deliver, under the ingest's lock.
Deliver ==
  LET chunk == [seq |-> producer.i, size |-> 1]
      sent  == [producer EXCEPT !.i = @ + 1]
  IN  /\ producer.at = "deliver"
      /\ IF Accepts(chunk)
         THEN /\ DeliverChunk(chunk)
              /\ producer' = IF PauseDue THEN [sent EXCEPT !.at = "pause"]
                             ELSE NextTurn(sent)
         ELSE EndWith(Failed(Refusal(chunk))) /\ UNCHANGED bodyVars
      /\ UNCHANGED <<terminal, flowVars, driver, fault>>

PushPause ==
  /\ producer.at = "pause"
  /\ PausePushed
  /\ producer' = NextTurn(producer)

Producer ==
  \/ WaitWhilePaused \/ Sleep \/ CheckCancelled
  \/ Deliver \/ PushPause \/ FinishBody \/ RecordTerminal

-----------------------------------------------------------------------------
(* The driver, and what its Resume does here *)

\* Every waiter of the condition variable wakes and takes the mutex again.
NotifyAll == IF producer.at = "asleep" THEN Go("wait") ELSE UNCHANGED producer

\* on_signal(Resume) takes the mutex ...
PushResume ==
  /\ producer.at # "toSleep"
  /\ ResumePushed("notify")
  /\ UNCHANGED producer

\* ... and notifies without it.
NotifyResume ==
  /\ driver.at = "notify"
  /\ NotifyAll
  /\ Drive(AfterStep)
  /\ UNCHANGED <<bodyVars, terminal, flowVars, fault>>

Driver ==
  \/ SetSignals \/ DrainStep \/ PushResume \/ NotifyResume \/ Look

-----------------------------------------------------------------------------
(* A caller's FlowSignals::cancel *)

\* The flag goes up without the mutex ...
Cancel ==
  /\ cancel = "no" /\ driver.at # "start"
  /\ cancel' = "set"
  /\ UNCHANGED <<bodyVars, terminal, signals, pauseLost, paused, producer, driver, fault>>

\* ... and so does the notification.
NotifyCancel ==
  /\ cancel = "set"
  /\ cancel' = "done"
  /\ NotifyAll
  /\ UNCHANGED <<bodyVars, terminal, signals, pauseLost, paused, driver, fault>>

-----------------------------------------------------------------------------
StreamInit ==
  /\ BodyInit
  /\ terminal = Pending
  /\ signals = FALSE /\ pauseLost = FALSE /\ paused = FALSE /\ cancel = "no"
  /\ producer = [at |-> "wait", i |-> 0, end |-> Pending]
  /\ driver = [at |-> "start", last |-> FALSE]
  /\ fault \in Faults

StreamNext ==
  Producer \/ SpuriousWake \/ Driver \/ GiveUp \/ Cancel \/ NotifyCancel

StreamSpec == StreamInit /\ [][StreamNext]_streamVars
=============================================================================
