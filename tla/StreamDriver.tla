----------------------------- MODULE StreamDriver -----------------------------
(***************************************************************************)
(* The driver of one streamed response (bolted-http/src/conformance/       *)
(* stream.rs), whatever adapter feeds it: the ingest behind its lock, the  *)
(* slot for the emitter, the recorded terminal, and the thread whose slow  *)
(* consumer paces the adapter with pushed signals.                         *)
(*                                                                         *)
(* What a signal does is the adapter's: a step here says what it does to   *)
(* the driver, and a module that EXTENDS this one adds the adapter's part. *)
(***************************************************************************)
EXTENDS BodyStream

CONSTANTS Count   \* the chunks of the body, of one byte each

ASSUME StreamAssumption ==
  Count \in Totals \ {0} /\ Count <= MaxSeq /\ 1 \in Sizes

VARIABLES
  terminal,     \* the recorded outcome
  signals,      \* has the driver stored the emitter?
  pauseLost,    \* history: was a Pause pushed with no emitter stored?
  paused,       \* is the adapter told to pause?
  cancel,       \* how far a caller's cancel has come; "no" before it
  producer,     \* the adapter's thread, task or queue: [at, i, end]
  driver,       \* [at, last]: `last` once the loop is left
  fault         \* the fault injected into this adapter

flowVars   == <<signals, pauseLost, paused, cancel>>
streamVars == <<bodyVars, terminal, flowVars, producer, driver, fault>>

High == (Capacity * 3) \div 4

Go(at) == producer' = [producer EXCEPT !.at = at]

EndWith(end) == producer' = [producer EXCEPT !.at = "finish", !.end = end]

-----------------------------------------------------------------------------
(* What the adapter calls *)

\* Mutant: pauses only when the ring is full.
PauseDueWhenFull == Len(stream'.ring) > Capacity

PauseDue == Len(stream'.ring) >= High

\* The Pause goes to whatever emitter is stored by now.
PausePushed ==
  /\ IF signals THEN paused' = TRUE /\ UNCHANGED pauseLost
     ELSE pauseLost' = TRUE /\ UNCHANGED paused
  /\ UNCHANGED <<bodyVars, terminal, signals, cancel, driver, fault>>

FinishBody ==
  /\ producer.at = "finish"
  /\ Finish(producer.end)
  /\ Go("record")
  /\ UNCHANGED <<terminal, flowVars, driver, fault>>

RecordTerminal ==
  /\ producer.at = "record"
  /\ terminal' = outcome
  /\ Go("done")
  /\ UNCHANGED <<bodyVars, flowVars, driver, fault>>

-----------------------------------------------------------------------------
(* drive_streaming *)

Drive(at) == driver' = [driver EXCEPT !.at = at]

AfterStep == IF driver.last THEN "done" ELSE "look"

SetSignals ==
  /\ driver.at = "start"
  /\ signals' = TRUE
  /\ Drive("drain")
  /\ UNCHANGED <<bodyVars, terminal, pauseLost, paused, cancel, producer, fault>>

\* Mutant: a drain that took nothing pushes no Resume.
ResumeDueIfTook == stream.ring # <<>>

\* A drain leaves nothing, which is at or below the low-water mark.
ResumeDue == TRUE

DrainStep ==
  /\ driver.at = "drain"
  /\ IF stream.open
     THEN Drain /\ Drive(IF ResumeDue THEN "resume" ELSE AfterStep)
     ELSE Drive(AfterStep) /\ UNCHANGED bodyVars
  /\ UNCHANGED <<terminal, flowVars, producer, fault>>

\* The first half of on_signal(Resume), or the whole of it.
ResumePushed(next) ==
  /\ driver.at = "resume"
  /\ paused' = FALSE
  /\ Drive(next)
  /\ UNCHANGED <<bodyVars, terminal, signals, pauseLost, cancel, fault>>

\* Leave the loop for the last drain, or tick.
Look ==
  /\ driver.at = "look"
  /\ driver' = [at |-> "drain", last |-> terminal # Pending]
  /\ UNCHANGED <<bodyVars, terminal, flowVars, producer, fault>>

\* The tick budget is spent.
GiveUp ==
  /\ driver.at = "look" /\ terminal = Pending
  /\ driver' = [at |-> "drain", last |-> TRUE]
  /\ UNCHANGED <<bodyVars, terminal, flowVars, producer, fault>>

GaveUp == driver.last /\ terminal = Pending
=============================================================================
