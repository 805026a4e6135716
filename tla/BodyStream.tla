----------------------------- MODULE BodyStream -----------------------------
(***************************************************************************)
(* The core's ingest of one streamed response body                         *)
(* (bolted-http/src/stream.rs) under the lock of the driver that owns it:  *)
(* whatever an adapter delivers, in whatever order, and whatever total it  *)
(* declares.                                                               *)
(*                                                                         *)
(* A chunk's bytes are abstracted to how many there are.                   *)
(***************************************************************************)
EXTENDS Integers, Sequences

CONSTANTS
  Capacity,     \* BodyStream::RING_CAPACITY
  Sizes,        \* the chunk lengths an adapter sends
  Totals,       \* the totals an adapter declares
  MaxSeq        \* bound: the chunks of a response

ASSUME BodyAssumption ==
  /\ Capacity \in Nat \ {0} /\ MaxSeq \in Nat
  /\ Sizes \subseteq Nat /\ Totals \subseteq Nat

VARIABLES
  stream,       \* the ingest; not open once a terminal consumed it
  taken,        \* the chunks the consumer has, in the order it took them
  outcome       \* what the terminal came to

bodyVars == <<stream, taken, outcome>>

Chunk == [seq : Nat, size : Sizes]

StreamType == [open : BOOLEAN, next_seq : Nat, ingested_bytes : Nat, ring : Seq(Chunk)]

\* The keys of HttpError a response can end with here; a refused connection or
\* name counts as "Transport".
Errors == {"Transport", "StreamOverflow", "Cancelled", "Timeout", "Io",
           "InsecureRedirect", "TooManyRedirects"}

\* BodyEnd; `total` of a failure is 0.
Complete(total) == [error |-> "none", total |-> total]
Failed(error)   == [error |-> error, total |-> 0]

Pending == [error |-> "pending", total |-> 0]

InSequence(chunk) == chunk.seq = stream.next_seq

\* Mutant: the ring takes one more.
HasRoomOffByOne == Len(stream.ring) <= Capacity

HasRoom == Len(stream.ring) < Capacity

Accepts(chunk) == stream.open /\ InSequence(chunk) /\ HasRoom

\* The sequence is checked before the capacity.
Refusal(chunk) ==
  IF stream.open /\ InSequence(chunk) THEN "StreamOverflow" ELSE "Transport"

\* A refused chunk changes nothing.
DeliverChunk(chunk) ==
  /\ Accepts(chunk)
  /\ stream' = [stream EXCEPT !.next_seq       = @ + 1,
                              !.ingested_bytes = @ + chunk.size,
                              !.ring           = Append(@, chunk)]
  /\ UNCHANGED <<taken, outcome>>

\* The consumer takes what is buffered, under the lock of the ingest.
Drain ==
  /\ stream.open
  /\ taken' = taken \o stream.ring
  /\ stream' = [stream EXCEPT !.ring = <<>>]
  /\ UNCHANGED outcome

\* Mutant: the declared total is believed.
GateOpen(end) == end

\* The completeness gate.
Gate(end) ==
  IF end.error = "none" /\ end.total # stream.ingested_bytes
  THEN Failed("Transport") ELSE end

\* Mutant: the tail is dropped with the ring.
TailDropped == taken

\* What the consumer has once the terminal took the ring's tail for it.
WithTail == taken \o stream.ring

Finish(end) ==
  /\ stream.open
  /\ taken' = WithTail
  /\ stream' = [stream EXCEPT !.open = FALSE, !.ring = <<>>]
  /\ outcome' = Gate(end)

BodyInit ==
  /\ stream = [open |-> TRUE, next_seq |-> 0, ingested_bytes |-> 0, ring |-> <<>>]
  /\ taken = <<>>
  /\ outcome = Pending

Ends ==
  {Complete(total) : total \in Totals} \cup {Failed(error) : error \in Errors}

\* Any adapter at all.
BodyNext ==
  \/ \E seq \in 0..MaxSeq, size \in Sizes :
       seq < MaxSeq /\ DeliverChunk([seq |-> seq, size |-> size])
  \/ Drain
  \/ \E end \in Ends : Finish(end)

BodySpec == BodyInit /\ [][BodyNext]_bodyVars

-----------------------------------------------------------------------------
(* Properties *)

BodyTypeOK ==
  /\ stream \in StreamType
  /\ taken \in Seq(Chunk)
  /\ outcome \in Ends \cup {Pending}
  /\ Len(stream.ring) <= Capacity

\* Every chunk that entered the core, in the order the consumer sees it.
Entered == taken \o stream.ring

\* Rule 12, the order: the consumer sees the chunks that entered the core in
\* sequence, without a hole or a repeat, however drains and deliveries and
\* the terminal's own drain interleave.
GaplessInOrder ==
  /\ Len(Entered) = stream.next_seq
  /\ \A i \in DOMAIN Entered : Entered[i].seq = i - 1

TotalSize(chunks) ==
  LET sum[n \in 0..Len(chunks)] == IF n = 0 THEN 0 ELSE sum[n - 1] + chunks[n].size
  IN  sum[Len(chunks)]

\* Rule 12, the gate: a body that ended well was declared with the very
\* number of bytes the consumer holds; nothing is left behind in the ring.
VerifiedIsComplete ==
  outcome.error = "none" =>
    /\ stream.ring = <<>>
    /\ outcome.total = TotalSize(taken)
=============================================================================
