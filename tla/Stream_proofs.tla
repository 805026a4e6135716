--------------------------- MODULE Stream_proofs ---------------------------
(***************************************************************************)
(* What the ingest promises of any adapter, for every capacity; that the   *)
(* mock and the three platform adapters, with their driver, are among the  *)
(* adapters it allows for; and what a transfer on any of them promises of  *)
(* its end: its cause, its whole body, its file and its back-pressure.     *)
(*                                                                         *)
(* The invariant of a transfer is built in layers, each kept by the steps  *)
(* every platform shares, the mock and the three adapters: the types, the  *)
(* facts no step takes back, the count of the chunks, the causes of the    *)
(* ends, the successes, and the pacing of the producer.                    *)
(***************************************************************************)
EXTENDS Transfers, FiniteSetTheorems, TLAPS

USE BodyAssumption, StreamAssumption

\* The inductive invariant: the types, the sequence, and a gate that closed
\* over what had entered.
BodyInv ==
  /\ BodyTypeOK
  /\ GaplessInOrder
  /\ outcome.error = "none" => ~stream.open /\ outcome.total = stream.ingested_bytes
  /\ ~stream.open => stream.ring = <<>>
  /\ stream.open => outcome = Pending

\* The ingest starts empty, open and undecided.
LEMMA BodyInitially == BodyInit => BodyInv
  BY DEF BodyInit, BodyInv, BodyTypeOK, GaplessInOrder, StreamType, Chunk, Entered, Pending

\* Appending to the ring appends to what entered.
LEMMA EnteredGrows ==
  ASSUME NEW a \in Seq(Chunk), NEW b \in Seq(Chunk), NEW c \in Chunk
  PROVE  /\ Len(a \o Append(b, c)) = Len(a \o b) + 1
         /\ \A i \in DOMAIN (a \o Append(b, c)) :
              (a \o Append(b, c))[i] = IF i <= Len(a \o b) THEN (a \o b)[i] ELSE c
  OBVIOUS

\* A drained ring adds nothing.
LEMMA DrainKeeps ==
  ASSUME NEW a \in Seq(Chunk), NEW b \in Seq(Chunk)
  PROVE  (a \o b) \o <<>> = a \o b
  OBVIOUS

\* An accepted chunk is the next one.
LEMMA DeliverKeeps ==
  ASSUME BodyInv, NEW chunk \in Chunk, DeliverChunk(chunk)
  PROVE  BodyInv'
<1> USE DEF BodyInv, BodyTypeOK, DeliverChunk, Accepts, HasRoom, InSequence
<1>1. /\ stream.ring \in Seq(Chunk) /\ taken \in Seq(Chunk)
      /\ stream.next_seq \in Nat /\ stream.ingested_bytes \in Nat /\ stream.open
  BY DEF StreamType
<1>2. /\ stream'.ring = Append(stream.ring, chunk) /\ stream'.open
      /\ stream'.next_seq = stream.next_seq + 1
      /\ stream'.ingested_bytes = stream.ingested_bytes + chunk.size
  BY <1>1 DEF StreamType
<1>3. chunk.size \in Nat
  BY DEF Chunk
<1>4. BodyTypeOK'
  <2>1. stream' \in StreamType
    <3>1. Append(stream.ring, chunk) \in Seq(Chunk) /\ stream.next_seq + 1 \in Nat
          /\ stream.ingested_bytes + chunk.size \in Nat
      BY <1>1, <1>3
    <3>. QED BY <3>1 DEF StreamType
  <2>2. Len(stream'.ring) <= Capacity
    BY <1>1, <1>2
  <2>. QED BY <2>1, <2>2
<1>5. GaplessInOrder'
  <2>1. Entered' = taken \o Append(stream.ring, chunk)
    BY <1>2 DEF Entered
  <2>2. /\ Len(Entered') = Len(Entered) + 1
        /\ \A i \in DOMAIN Entered' :
             Entered'[i] = IF i <= Len(Entered) THEN Entered[i] ELSE chunk
    BY <2>1, <1>1, EnteredGrows DEF Entered
  <2>3. Entered \in Seq(Chunk) /\ Entered' \in Seq(Chunk)
    BY <1>1, <2>1 DEF Entered
  <2>4. Len(Entered) = stream.next_seq /\ \A i \in DOMAIN Entered : Entered[i].seq = i - 1
    BY DEF GaplessInOrder
  <2>5. ASSUME NEW i \in DOMAIN Entered' PROVE Entered'[i].seq = i - 1
    <3>1. i \in 1..(Len(Entered) + 1) /\ DOMAIN Entered = 1..Len(Entered)
      BY <2>2, <2>3
    <3>2. CASE i <= Len(Entered)
      BY <3>1, <3>2, <2>2, <2>4
    <3>3. CASE i = Len(Entered) + 1
      BY <3>1, <3>3, <2>2, <2>4, <1>1
    <3>. QED BY <3>1, <3>2, <3>3, <2>3
  <2>. QED BY <2>2, <2>4, <2>5, <1>2 DEF GaplessInOrder
<1>. QED BY <1>1, <1>2, <1>4, <1>5 DEF Pending

\* A drain moves the ring to the consumer, in order.
LEMMA DrainKeepsInv ==
  ASSUME BodyInv, Drain
  PROVE  BodyInv'
<1> USE DEF BodyInv, BodyTypeOK, Drain
<1>1. stream.ring \in Seq(Chunk) /\ taken \in Seq(Chunk) /\ stream.open
  BY DEF StreamType
<1>a. <<>> \in Seq(Chunk)
  OBVIOUS
<1>2. /\ stream'.ring = <<>> /\ stream'.open = stream.open
      /\ stream'.next_seq = stream.next_seq
      /\ stream'.ingested_bytes = stream.ingested_bytes
      /\ stream' \in StreamType
  BY <1>a DEF StreamType
<1>3. Entered' = Entered
  BY <1>1, <1>2, DrainKeeps DEF Entered
<1>4. GaplessInOrder'
  BY <1>2, <1>3 DEF GaplessInOrder
<1>. QED BY <1>1, <1>2, <1>4 DEF Pending

\* The terminal hands over the tail and closes the ingest.
LEMMA FinishKeeps ==
  ASSUME BodyInv, NEW end \in Ends, Finish(end)
  PROVE  BodyInv'
<1> USE DEF BodyInv, BodyTypeOK, Finish
<1>1. stream.ring \in Seq(Chunk) /\ taken \in Seq(Chunk)
  BY DEF StreamType
<1>a. <<>> \in Seq(Chunk)
  OBVIOUS
<1>2. /\ stream'.ring = <<>> /\ ~stream'.open
      /\ stream'.next_seq = stream.next_seq
      /\ stream'.ingested_bytes = stream.ingested_bytes
      /\ stream' \in StreamType
  BY <1>a DEF StreamType
<1>3. Entered' = Entered
  BY <1>1, <1>2, DrainKeeps DEF Entered, WithTail
<1>4. GaplessInOrder'
  BY <1>2, <1>3 DEF GaplessInOrder
<1>5. outcome' \in Ends /\ (outcome'.error = "none" => outcome'.total = stream.ingested_bytes)
  BY DEF Gate, Ends, Failed, Complete, Errors
<1>. QED BY <1>1, <1>2, <1>4, <1>5 DEF WithTail

\* Every step of the ingest keeps its invariant.
LEMMA BodyStep ==
  ASSUME BodyInv, [BodyNext]_bodyVars
  PROVE  BodyInv'
<1>1. ASSUME NEW seq \in 0..MaxSeq, NEW size \in Sizes,
             DeliverChunk([seq |-> seq, size |-> size])
      PROVE  BodyInv'
  <2>1. [seq |-> seq, size |-> size] \in Chunk
    BY DEF Chunk
  <2>. QED BY <1>1, <2>1, DeliverKeeps
<1>2. CASE UNCHANGED bodyVars
  BY <1>2 DEF bodyVars, BodyInv, BodyTypeOK, GaplessInOrder, Entered, StreamType
<1>. QED BY <1>1, <1>2, DrainKeepsInv, FinishKeeps DEF BodyNext

\* The ingest's invariant, whatever its adapter sends (stream.rs).
THEOREM BodyInvariant == BodySpec => []BodyInv
<1>. QED BY BodyInitially, BodyStep, PTL DEF BodySpec

\* Rule 12 for any adapter and any capacity: what entered the core is gapless
\* and in order (stream.rs, deliver_chunk and drain).
THEOREM BodyInOrder == BodySpec => []GaplessInOrder
<1>1. BodyInv => GaplessInOrder
  BY DEF BodyInv
<1>. QED BY <1>1, BodyInvariant, PTL

\* The types, and a ring that never holds more than its capacity.
THEOREM BodyTypes == BodySpec => []BodyTypeOK
<1>1. BodyInv => BodyTypeOK
  BY DEF BodyInv
<1>. QED BY <1>1, BodyInvariant, PTL

-----------------------------------------------------------------------------
(* The gate counts what the consumer gets. *)

\* Induction over the natural numbers, from the pigeon-hole principle: the
\* library's own induction theorems take an operator as a parameter, which the
\* provers cannot instantiate; a set they can.
LEMMA NaturalInduction ==
  ASSUME NEW G, 0 \in G, \A n \in G : n + 1 \in G
  PROVE  Nat \subseteq G
<1> SUFFICES ASSUME NEW x \in Nat, x \notin G
             PROVE  FALSE
  OBVIOUS
<1> DEFINE S == (0..x) \cap G
           up == [n \in S |-> n + 1]
<1>1. IsFiniteSet(S) /\ IsFiniteSet(S \ {0})
  <2>1. IsFiniteSet(0..x)  BY FS_Interval
  <2>2. S \subseteq 0..x /\ S \ {0} \subseteq 0..x  OBVIOUS
  <2> HIDE DEF S
  <2>3. QED BY <2>1, <2>2, FS_Subset
<1>2. Cardinality(S \ {0}) < Cardinality(S)
  <2>1. 0 \in S  OBVIOUS
  <2>2. Cardinality(S \ {0}) = Cardinality(S) - 1 /\ Cardinality(S) \in Nat
    BY <1>1, <2>1, FS_RemoveElement, FS_CardinalityType
  <2> QED BY <2>2
<1>3. up \in [S -> S \ {0}]
  OBVIOUS
<1>4. \E m, n \in S : m # n /\ up[m] = up[n]
  <2> HIDE DEF S, up
  <2> QED BY <1>1, <1>2, <1>3, FS_PigeonHole
<1> QED BY <1>4

\* g is the function TotalSize is computed with: the sums of the first n sizes.
IsSum(g, chunks) ==
  g = [n \in 0..Len(chunks) |-> IF n = 0 THEN 0 ELSE g[n - 1] + chunks[n].size]

\* There is such a function, or TotalSize would choose anything.
LEMMA SumExists ==
  ASSUME NEW chunks \in Seq(Chunk)
  PROVE  \E g : IsSum(g, chunks)
<1> DEFINE Sums(m, g) ==
      \A n \in 0..m : g[n] = IF n = 0 THEN 0 ELSE g[n - 1] + chunks[n].size
    Reached(m) == m <= Len(chunks) => \E g \in [0..m -> Nat] : Sums(m, g)
    G == {m \in Nat : Reached(m)}
<1>1. 0 \in G
  <2>1. Sums(0, [n \in 0..0 |-> 0])  OBVIOUS
  <2> QED BY <2>1
<1>2. ASSUME NEW m \in Nat, Reached(m), m + 1 <= Len(chunks)
      PROVE  \E g \in [0..(m + 1) -> Nat] : Sums(m + 1, g)
  <2>0. m \in Nat /\ m <= Len(chunks)  BY <1>2
  <2>1. PICK g \in [0..m -> Nat] : Sums(m, g)  BY <1>2, <2>0
  <2>2. chunks[m + 1].size \in Nat
    <3>1. chunks[m + 1] \in Chunk  BY <1>2, <2>0
    <3>2. QED BY <3>1 DEF Chunk
  <2> DEFINE h == [n \in 0..(m + 1) |-> IF n <= m THEN g[n] ELSE g[m] + chunks[m + 1].size]
  <2>3. h \in [0..(m + 1) -> Nat]  BY <2>1, <2>2, <1>2
  <2>4. ASSUME NEW n \in 0..(m + 1)
        PROVE  h[n] = IF n = 0 THEN 0 ELSE h[n - 1] + chunks[n].size
    <3>1. CASE n <= m
      <4>1. n \in 0..m /\ h[n] = g[n] /\ (n # 0 => h[n - 1] = g[n - 1])  BY <3>1, <1>2
      <4> QED BY <4>1, <2>1
    <3>2. CASE n = m + 1
      <4>1. n # 0 /\ n - 1 = m /\ h[n - 1] = g[m] /\ h[n] = g[m] + chunks[m + 1].size
        BY <3>2, <1>2
      <4> QED BY <4>1, <3>2
    <3> QED BY <3>1, <3>2, <1>2
  <2> QED BY <2>3, <2>4
<1>3. Len(chunks) \in G
  <2>1. \A m \in Nat : Reached(m) => Reached(m + 1)  BY <1>2
  <2>2. Reached(0)  BY <1>1
  <2> HIDE DEF Reached
  <2>3. 0 \in G /\ \A m \in G : m + 1 \in G  BY <2>1, <2>2
  <2> HIDE DEF G
  <2>4. QED BY <2>3, NaturalInduction
<1>4. PICK g \in [0..Len(chunks) -> Nat] : Sums(Len(chunks), g)
  BY <1>3
<1>5. IsSum(g, chunks)  BY <1>4 DEF IsSum
<1> QED BY <1>5

\* The sums of a prefix are the first sums.
LEMMA SumsAgree ==
  ASSUME NEW a \in Seq(Chunk), NEW b \in Seq(Chunk), NEW f, NEW g,
         IsSum(f, a), IsSum(g, b), Len(a) <= Len(b),
         \A i \in 1..Len(a) : a[i] = b[i]
  PROVE  \A n \in 0..Len(a) : f[n] = g[n] /\ f[n] \in Nat
<1> DEFINE G == {n \in Nat : n <= Len(a) => f[n] = g[n] /\ f[n] \in Nat}
<1>1. 0 \in G  BY DEF IsSum
<1>2. ASSUME NEW n \in G, n + 1 <= Len(a) PROVE f[n + 1] = g[n + 1] /\ f[n + 1] \in Nat
  <2>0. n + 1 \in 0..Len(a) /\ n + 1 \in 0..Len(b) /\ n + 1 # 0 /\ (n + 1) - 1 = n
    BY <1>2
  <2> HIDE DEF G
  <2>1. /\ f[n + 1] = f[n] + a[n + 1].size
        /\ g[n + 1] = g[n] + b[n + 1].size
    <3>1. f[n + 1] = f[n] + a[n + 1].size  BY <2>0 DEF IsSum
    <3>2. g[n + 1] = g[n] + b[n + 1].size  BY <2>0 DEF IsSum
    <3>3. QED BY <3>1, <3>2
  <2> USE DEF G
  <2>2. a[n + 1].size \in Nat /\ a[n + 1] = b[n + 1]
    <3>1. n + 1 \in 1..Len(a) /\ a[n + 1] \in Chunk  BY <1>2
    <3>2. QED BY <3>1 DEF Chunk
  <2> QED BY <2>1, <2>2, <1>2
<1>3. \A n \in G : n + 1 \in G
  BY <1>2
<1>4. Nat \subseteq G
  <2> HIDE DEF G
  <2> QED BY <1>1, <1>3, NaturalInduction
<1> QED BY <1>4

\* TotalSize is the last sum.
LEMMA TotalIsSum ==
  ASSUME NEW chunks \in Seq(Chunk), NEW g, IsSum(g, chunks)
  PROVE  TotalSize(chunks) = g[Len(chunks)]
<1>1. PICK h : IsSum(h, chunks) /\ TotalSize(chunks) = h[Len(chunks)]
  BY SumExists DEF TotalSize, IsSum
<1> QED BY <1>1, SumsAgree

\* One more chunk adds its size.
LEMMA TotalGrows ==
  ASSUME NEW chunks \in Seq(Chunk), NEW c \in Chunk
  PROVE  TotalSize(Append(chunks, c)) = TotalSize(chunks) + c.size
<1> DEFINE longer == Append(chunks, c)
<1>1. longer \in Seq(Chunk) /\ Len(longer) = Len(chunks) + 1 /\ longer[Len(chunks) + 1] = c
      /\ \A i \in 1..Len(chunks) : chunks[i] = longer[i]
  OBVIOUS
<1>2. PICK f : IsSum(f, chunks)  BY SumExists
<1>3. PICK g : IsSum(g, longer)  BY <1>1, SumExists
<1>4. f[Len(chunks)] = g[Len(chunks)]
  <2> HIDE DEF longer
  <2> QED BY <1>1, <1>2, <1>3, SumsAgree
<1>5. g[Len(chunks) + 1] = g[Len(chunks)] + c.size
  BY <1>1, <1>3 DEF IsSum
<1> HIDE DEF longer
<1> QED BY <1>1, <1>2, <1>3, <1>4, <1>5, TotalIsSum DEF longer

\* No chunks, no bytes.
LEMMA TotalEmpty == TotalSize(<<>>) = 0
<1>0. <<>> \in Seq(Chunk) /\ Len(<<>>) = 0  OBVIOUS
<1>1. PICK g : IsSum(g, <<>>)  BY <1>0, SumExists
<1>2. g[0] = 0  BY <1>0, <1>1 DEF IsSum
<1> QED BY <1>0, <1>1, <1>2, TotalIsSum

\* The bytes counted are those of what entered, and a success is over the sum
\* of what the consumer has.
SizeInv ==
  /\ stream.open => stream.ingested_bytes = TotalSize(Entered)
  /\ outcome.error = "none" => outcome.total = TotalSize(taken)

\* A delivery adds to both, a drain to neither, and the terminal compares them.
LEMMA SizeStep ==
  ASSUME BodyInv, SizeInv, [BodyNext]_bodyVars
  PROVE  SizeInv'
<1>1. /\ stream \in StreamType /\ stream.ring \in Seq(Chunk) /\ taken \in Seq(Chunk)
      /\ Entered \in Seq(Chunk)
  BY DEF BodyInv, BodyTypeOK, StreamType, Entered
<1>2. ASSUME NEW seq \in 0..MaxSeq, NEW size \in Sizes,
             DeliverChunk([seq |-> seq, size |-> size])
      PROVE  SizeInv'
  <2> DEFINE chunk == [seq |-> seq, size |-> size]
  <2>1. chunk \in Chunk  BY DEF Chunk
  <2>2. /\ stream.open /\ UNCHANGED <<taken, outcome>>
        /\ stream'.ingested_bytes = stream.ingested_bytes + chunk.size
        /\ stream'.ring = Append(stream.ring, chunk)
    BY <1>1, <1>2 DEF DeliverChunk, Accepts, StreamType
  <2>3. Entered' = Append(Entered, chunk)
    <3> HIDE DEF chunk
    <3>1. taken \o Append(stream.ring, chunk) = Append(taken \o stream.ring, chunk)
      BY <1>1, <2>1
    <3>2. QED BY <2>2, <3>1 DEF Entered
  <2>4. stream'.ingested_bytes = TotalSize(Entered')
    BY <1>1, <2>1, <2>2, <2>3, TotalGrows DEF SizeInv
  <2>5. outcome' = Pending
    BY <2>2 DEF BodyInv
  <2>6. QED BY <2>4, <2>5 DEF SizeInv, Pending
<1>3. ASSUME Drain PROVE SizeInv'
  <2>1. /\ stream'.ingested_bytes = stream.ingested_bytes /\ stream'.ring = <<>>
        /\ stream.open /\ taken' = taken \o stream.ring /\ outcome' = Pending
    BY <1>1, <1>3 DEF Drain, StreamType, BodyInv
  <2>2. Entered' = Entered
    BY <1>1, <2>1, DrainKeeps DEF Entered
  <2>3. QED BY <2>1, <2>2 DEF SizeInv, Pending
<1>4. ASSUME NEW end \in Ends, Finish(end) PROVE SizeInv'
  <2>1. /\ ~stream'.open /\ taken' = Entered /\ stream.open
        /\ outcome'.error = "none" => outcome'.total = stream.ingested_bytes
    BY <1>1, <1>4 DEF Finish, WithTail, Entered, Gate, Failed, StreamType
  <2>2. QED BY <2>1 DEF SizeInv
<1>5. CASE UNCHANGED bodyVars
  BY <1>5 DEF bodyVars, SizeInv, Entered
<1>6. QED BY <1>2, <1>3, <1>4, <1>5 DEF BodyNext

\* Rule 12, the gate, for any adapter and sizes (stream.rs, finish): a body that
\* ended well was declared with the very number of bytes the consumer holds.
THEOREM BodyComplete == BodySpec => []VerifiedIsComplete
<1>1. BodyInit => SizeInv
  BY TotalEmpty DEF BodyInit, SizeInv, Entered, Pending
<1>2. BodyInv /\ SizeInv => VerifiedIsComplete
  BY DEF BodyInv, SizeInv, VerifiedIsComplete
<1>. QED BY <1>1, <1>2, SizeStep, BodyInvariant, PTL DEF BodySpec

-----------------------------------------------------------------------------
(* The driver and its producer implement the ingest's specification. *)

\* Where the producer is says what it may hand to the ingest.
Places == {"wait", "toSleep", "asleep", "check", "deliver", "pause",
           "finish", "record", "done"}

ProducerOK ==
  /\ producer \in [at : Places, i : 0..Count, end : Ends \cup {Pending}]
  /\ producer.at \in {"wait", "toSleep", "asleep", "check", "deliver"} => producer.i < Count
  /\ producer.at = "finish" => producer.end \in Ends

\* Every step of the mock keeps its producer's claim.
LEMMA ProducerStep ==
  ASSUME ProducerOK, [StreamNext]_streamVars
  PROVE  ProducerOK'
<1> USE DEF ProducerOK, Places
<1>0. Count \in Nat /\ Complete(Count) \in Ends /\ \A e \in Errors : Failed(e) \in Ends
  BY DEF Ends
<1>1. CASE WaitWhilePaused
  BY <1>1 DEF WaitWhilePaused, Go
<1>2. CASE Sleep
  BY <1>2 DEF Sleep, Go
<1>3. CASE SpuriousWake
  BY <1>3 DEF SpuriousWake, Go
<1>4. CASE CheckCancelled
  BY <1>0, <1>4 DEF CheckCancelled, Go, EndWith, Errors
<1>5. CASE Deliver
  <2>0. producer.at = "deliver" /\ producer.i + 1 \in 0..Count
    BY <1>0, <1>5 DEF Deliver
  <2>1. CASE producer' = [[producer EXCEPT !.i = @ + 1] EXCEPT !.at = "pause"]
    <3>1. producer' = [at |-> "pause", i |-> producer.i + 1, end |-> producer.end]
      BY <2>1
    <3>. QED BY <1>0, <2>0, <3>1
  <2>2. CASE producer' = NextTurn([producer EXCEPT !.i = @ + 1])
    <3>1. \/ producer'.at = "wait" /\ producer'.i < Count /\ producer'.end = producer.end
          \/ producer'.at = "done" /\ producer'.end = producer.end
          \/ producer'.at = "finish" /\ producer'.end = Complete(Count)
      BY <1>0, <2>0, <2>2 DEF NextTurn
    <3>2. producer' = [at |-> producer'.at, i |-> producer.i + 1, end |-> producer'.end]
      BY <2>2 DEF NextTurn
    <3>. QED BY <1>0, <2>0, <3>1, <3>2
  <2>3. CASE \E e \in Errors : EndWith(Failed(e))
    BY <1>0, <1>5, <2>3 DEF Deliver, EndWith
  <2>. QED BY <1>5, <2>1, <2>2, <2>3 DEF Deliver, Refusal, Errors
<1>6. CASE PushPause
  BY <1>0, <1>6 DEF PushPause, PausePushed, NextTurn
<1>7. CASE FinishBody
  BY <1>7 DEF FinishBody, Go
<1>8. CASE RecordTerminal
  BY <1>8 DEF RecordTerminal, Go
<1>9. CASE NotifyResume \/ NotifyCancel
  BY <1>9 DEF NotifyResume, NotifyCancel, NotifyAll, Go
<1>10. CASE SetSignals \/ DrainStep \/ PushResume \/ Look \/ GiveUp \/ Cancel
             \/ UNCHANGED streamVars
  BY <1>10 DEF SetSignals, DrainStep, PushResume, ResumePushed, Look, GiveUp, Cancel, streamVars
<1>. QED BY <1>1, <1>2, <1>3, <1>4, <1>5, <1>6, <1>7, <1>8, <1>9, <1>10
         DEF StreamNext, Producer, Driver

\* Every step of the mock is one of the ingest's, or none.
LEMMA StepRefines ==
  ASSUME ProducerOK, [StreamNext]_streamVars
  PROVE  [BodyNext]_bodyVars
<1>1. CASE Deliver
  <2>1. producer.i \in 0..MaxSeq /\ producer.i < MaxSeq /\ 1 \in Sizes
    BY <1>1 DEF Deliver, ProducerOK
  <2>2. DeliverChunk([seq |-> producer.i, size |-> 1]) \/ UNCHANGED bodyVars
    BY <1>1 DEF Deliver
  <2>. QED BY <2>1, <2>2 DEF BodyNext
<1>2. CASE FinishBody
  BY <1>2 DEF FinishBody, ProducerOK, BodyNext
<1>3. CASE DrainStep
  BY <1>3 DEF DrainStep, BodyNext
<1>4. CASE WaitWhilePaused \/ Sleep \/ SpuriousWake \/ CheckCancelled \/ PushPause
            \/ RecordTerminal \/ SetSignals \/ PushResume \/ NotifyResume \/ Look
            \/ GiveUp \/ Cancel \/ NotifyCancel \/ UNCHANGED streamVars
  BY <1>4 DEF WaitWhilePaused, Sleep, SpuriousWake, CheckCancelled, PushPause,
    PausePushed, RecordTerminal, SetSignals, PushResume, ResumePushed, NotifyResume, Look, GiveUp, Cancel,
    NotifyCancel, streamVars
<1>. QED BY <1>1, <1>2, <1>3, <1>4 DEF StreamNext, Producer, Driver

-----------------------------------------------------------------------------
(* So do the platform adapters. *)

\* What an adapter may hand to the ingest; the mock keeps its stronger claim.
TransferOK ==
  /\ On("Mock") => ProducerOK
  /\ producer \in [at : ProducerPlaces, i : 0..Count, end : Ends \cup {Pending}]
  /\ producer.at = "finish" => producer.end \in Ends

\* An end an adapter may declare.
LEMMA EndsHold ==
  /\ \A error \in Errors : Failed(error) \in Ends
  /\ \A total \in 0..Count : Complete(total) \in Ends
  BY NativeAssumption DEF Ends

\* The adapter goes on to another place.
LEMMA GoKeeps ==
  ASSUME TransferOK, ~On("Mock"), UNCHANGED request,
         NEW at \in ProducerPlaces \ {"finish"}, Go(at)
  PROVE  TransferOK'
<1>1. producer' = [at |-> at, i |-> producer.i, end |-> producer.end]
  BY DEF TransferOK, Go
<1>. QED BY <1>1 DEF TransferOK, On

\* The adapter hands an end to the ingest.
LEMMA EndKeeps ==
  ASSUME TransferOK, ~On("Mock"), UNCHANGED request,
         NEW end \in Ends, EndWith(end)
  PROVE  TransferOK'
<1>1. producer' = [at |-> "finish", i |-> producer.i, end |-> end]
  BY DEF TransferOK, EndWith
<1>. QED BY <1>1 DEF TransferOK, On, ProducerPlaces

\* The adapter does not move.
LEMMA StandsKeeps ==
  ASSUME TransferOK, ~On("Mock"), UNCHANGED request, UNCHANGED producer
  PROVE  TransferOK'
  BY DEF TransferOK, On

\* A step that keeps the claim and that the ingest allows for.
StepOK == TransferOK' /\ [BodyNext]_bodyVars

Stays == ProducerPlaces \ {"finish"}

\* A step of a platform adapter that leaves the ingest alone.
Quietly ==
  /\ UNCHANGED <<request, bodyVars>>
  /\ \/ UNCHANGED producer
     \/ \E at \in Stays : Go(at)
     \/ \E end \in Ends : EndWith(end)

\* A step that leaves the ingest alone is allowed.
LEMMA QuietKeeps ==
  ASSUME TransferOK, ~On("Mock"), Quietly
  PROVE  StepOK
  BY GoKeeps, EndKeeps, StandsKeeps DEF Quietly, Stays, StepOK

\* The terminal, however it is given or withheld.
LEMMA TerminalKeeps ==
  ASSUME TransferOK, ~On("Mock"), UNCHANGED <<request, bodyVars>>,
         NEW end \in Ends, NEW keeps \in BOOLEAN,
         EndsWith(end) \/ CompleteWith(end) \/ EndsUnlessSkipped(end, keeps)
  PROVE  StepOK
<1>1. EndWith(end) \/ Go("done")
  BY DEF EndsWith, CompleteWith, EndsUnlessSkipped
<1>2. "done" \in Stays
  BY DEF Stays, ProducerPlaces
<1>. QED BY <1>1, <1>2, QuietKeeps DEF Quietly

\* A transport read: one chunk in sequence, or none.
LEMMA ReadKeeps ==
  ASSUME TransferOK, ~On("Mock"), UNCHANGED request, producer.i # Count,
         NEW again \in Stays, DeliverRead(again)
  PROVE  StepOK
<1> DEFINE chunk == [seq |-> NextSeq, size |-> 1]
<1>1. producer.i \in 0..Count /\ producer.i + 1 \in 0..Count /\ producer.end \in Ends \cup {Pending}
  BY DEF TransferOK
<1>2. \/ UNCHANGED bodyVars
      \/ ~(fault = "DropChunk" /\ producer.i = 0) /\ DeliverChunk(chunk)
  BY DEF DeliverRead
<1>3. [BodyNext]_bodyVars
  <2>1. CASE ~(fault = "DropChunk" /\ producer.i = 0) /\ DeliverChunk(chunk)
    <3>1. NextSeq \in 0..MaxSeq /\ NextSeq < MaxSeq
      BY <1>1, <2>1 DEF NextSeq
    <3>. QED BY <2>1, <3>1 DEF BodyNext
  <2>. QED BY <1>2, <2>1
<1>4. \/ \E at \in Stays : producer' = [at |-> at, i |-> producer.i + 1, end |-> producer.end]
      \/ \E end \in Ends : producer' = [at |-> "finish", i |-> producer.i + 1, end |-> end]
  <2>1. Failed(Refusal(chunk)) \in Ends
    BY EndsHold DEF Refusal, Errors
  <2>2. "pause" \in Stays
    BY DEF Stays, ProducerPlaces
  <2>3. \/ producer' = [[producer EXCEPT !.i = @ + 1] EXCEPT !.at = again]
        \/ producer' = [[producer EXCEPT !.i = @ + 1] EXCEPT !.at = IF PauseDue THEN "pause" ELSE again]
        \/ producer' = [[producer EXCEPT !.i = @ + 1] EXCEPT !.at = "finish", !.end = Failed(Refusal(chunk))]
    BY DEF DeliverRead
  <2>4. [producer EXCEPT !.i = @ + 1] = [at |-> producer.at, i |-> producer.i + 1, end |-> producer.end]
    BY DEF TransferOK
  <2>. HIDE DEF chunk
  <2>. QED BY <2>1, <2>2, <2>3, <2>4
<1>5. TransferOK'
  BY <1>1, <1>4 DEF TransferOK, Stays, ProducerPlaces, On
<1>. QED BY <1>3, <1>5 DEF StepOK

\* The steps every platform shares.
SharedStep ==
  \/ CloseSink \/ RecordEnd \/ StopReading \/ NativePause("turn") \/ NativePause("body")
  \/ NativeDriver \/ NativeGiveUp

\* What every platform shares, the ingest allows for.
LEMMA SharedKeeps ==
  ASSUME TransferOK, ~On("Mock"), SharedStep
  PROVE  StepOK
<1>0. {"record", "closed", "done", "turn", "body"} \subseteq Stays
  BY DEF Stays, ProducerPlaces
<1>1. CASE CloseSink
  <2>1. Finish(producer.end) /\ producer.end \in Ends /\ Go("record") /\ UNCHANGED request
    BY <1>1 DEF CloseSink, FinishBody, TransferOK
  <2>2. TransferOK'
    BY <1>0, <2>1, GoKeeps DEF Stays
  <2>. QED BY <2>1, <2>2 DEF StepOK, BodyNext
<1>2. CASE RecordEnd \/ StopReading
  <2>1. UNCHANGED <<request, bodyVars>> /\ (Go("closed") \/ Go("done"))
    BY <1>2 DEF RecordEnd, StopReading, nativeVars
  <2>. QED BY <1>0, <2>1, QuietKeeps DEF Quietly
<1>3. CASE NativePause("turn") \/ NativePause("body")
  <2>1. UNCHANGED <<request, bodyVars>> /\ (Go("turn") \/ Go("body"))
    BY <1>3 DEF NativePause, PausePushed, nativeVars
  <2>. QED BY <1>0, <2>1, QuietKeeps DEF Quietly
<1>4. CASE NativeDriver \/ NativeGiveUp
  <2>1. UNCHANGED <<request, producer>> /\ (Drain \/ UNCHANGED bodyVars)
    BY <1>4 DEF NativeDriver, NativeGiveUp, GiveUp, Returned, SetSignals, DrainStep, Look, nativeVars
  <2>. QED BY <2>1, StandsKeeps DEF StepOK, BodyNext
<1>. QED BY <1>1, <1>2, <1>3, <1>4 DEF SharedStep

\* The keys an adapter ends with are keys of HttpError.
LEMMA KeysEnd ==
  \A key \in {"Transport", "StreamOverflow", "Cancelled", "Timeout", "Io",
              "InsecureRedirect", "TooManyRedirects"} : Failed(key) \in Ends
  BY EndsHold DEF Errors

\* reqwest's task does nothing the ingest does not allow for.
LEMMA LinuxKeeps ==
  ASSUME TransferOK, ~On("Mock"), LinuxNext
  PROVE  StepOK
<1> USE DEF UnchangedByTask, exchange, nativeVars
<1>0. /\ producer.i \in 0..Count /\ Complete(producer.i) \in Ends /\ Complete(Count) \in Ends
      /\ {"turn", "read", "create", "write", "rename", "register", "registered",
          "notified", "asleep"} \subseteq Stays
  BY EndsHold DEF TransferOK, Stays, ProducerPlaces
<1>1. CASE LinuxInterrupted
  <2>1. Failed(Interrupt) \in Ends
    BY KeysEnd DEF Interrupt
  <2>. QED BY <1>1, <2>1, TerminalKeeps DEF LinuxInterrupted
<1>2. CASE LinuxTurn \/ LinuxRegister \/ LinuxRecheck
  <2>1. /\ UNCHANGED <<request, bodyVars>>
        /\ \E at \in {"register", "read", "registered", "turn", "asleep"} : Go(at)
    BY <1>2 DEF LinuxTurn, LinuxRegister, LinuxRecheck
  <2>. QED BY <1>0, <2>1, QuietKeeps DEF Quietly
<1>3. CASE LinuxFollow
  <2>1. /\ UNCHANGED <<request, bodyVars>>
        /\ \/ Go(AfterHead) \/ UNCHANGED producer
           \/ \E key \in {"TooManyRedirects", "InsecureRedirect", "Transport", "Timeout"} : EndsWith(Failed(key))
    BY <1>3 DEF LinuxFollow
  <2>2. AfterHead \in Stays
    BY <1>0 DEF AfterHead
  <2>3. CASE Go(AfterHead) \/ UNCHANGED producer
    BY <2>1, <2>2, <2>3, QuietKeeps DEF Quietly
  <2>. QED BY <2>1, <2>3, KeysEnd, TerminalKeeps
<1>4. CASE LinuxRead
  <2>0. UNCHANGED request
    BY <1>4 DEF LinuxRead
  <2>1. CASE ~BodyEnded /\ DeliverRead("turn")
    BY <1>0, <2>0, <2>1, ReadKeeps DEF BodyEnded
  <2>2. CASE UNCHANGED bodyVars /\ (EndsUnlessSkipped(Complete(producer.i), FALSE) \/ EndsWith(Failed("Transport")))
    BY <1>0, <2>0, <2>2, KeysEnd, TerminalKeeps
  <2>. QED BY <1>4, <2>1, <2>2 DEF LinuxRead
<1>5. CASE LinuxBuffer
  <2>1. /\ UNCHANGED <<request, bodyVars>>
        /\ CompleteWith(Complete(Count)) \/ CompleteWith(Failed("Transport"))
    BY <1>5 DEF LinuxBuffer
  <2>. QED BY <1>0, <2>1, KeysEnd, TerminalKeeps
<1>6. CASE LinuxCreate \/ LinuxWrite \/ LinuxRename
  <2>1. /\ UNCHANGED <<request, bodyVars>>
        /\ \/ Go("write") \/ Go("rename")
           \/ CompleteWith(Complete(Count)) \/ CompleteWith(Failed("Transport"))
           \/ CompleteWith(Failed("Io"))
    BY <1>6 DEF LinuxCreate, LinuxWrite, LinuxRename, FileFails
  <2>2. CASE Go("write") \/ Go("rename")
    BY <1>0, <2>1, <2>2, QuietKeeps DEF Quietly
  <2>. QED BY <1>0, <2>1, <2>2, KeysEnd, TerminalKeeps
<1>7. CASE LinuxNotify
  <2>1. producer.at \in Stays \/ producer.at = "finish"
    BY DEF TransferOK, Stays
  <2>2. /\ UNCHANGED <<request, bodyVars>>
        /\ \/ Go("notified") \/ Go("turn") \/ UNCHANGED producer
    BY <1>7 DEF LinuxNotify, Go, TransferOK
  <2>. QED BY <1>0, <2>2, QuietKeeps DEF Quietly
<1>8. CASE LinuxResume \/ LinuxDeadline \/ LinuxCancel
  <2>1. UNCHANGED <<request, bodyVars, producer>>
    BY <1>8 DEF LinuxResume, ResumePushed, LinuxDeadline, LinuxCancel, streamVars
  <2>. QED BY <2>1, QuietKeeps DEF Quietly
<1>. QED
  BY <1>1, <1>2, <1>3, <1>4, <1>5, <1>6, <1>7, <1>8, SharedKeeps
  DEF LinuxNext, LinuxTask, LinuxIO, LinuxDriver, SharedStep

\* Nor do URLSession's callbacks,
LEMMA AppleKeeps ==
  ASSUME TransferOK, ~On("Mock"), AppleNext
  PROVE  StepOK
<1> USE DEF UnchangedBySession, exchange, nativeVars
<1>0. /\ Complete(producer.i) \in Ends
      /\ {"body", "move", "remove", "rename", "complete"} \subseteq Stays
  BY EndsHold DEF TransferOK, Stays, ProducerPlaces
<1>1. CASE AppleHead \/ AppleDownloaded \/ ApplePersist
  <2>1. /\ UNCHANGED <<request, bodyVars>>
        /\ \/ UNCHANGED producer
           \/ \E at \in {"body", "move", "remove", "rename", "complete"} : Go(at)
    BY <1>1 DEF AppleHead, AppleDownloaded, ApplePersist, PersistFails
  <2>. QED BY <1>0, <2>1, QuietKeeps DEF Quietly
<1>2. CASE AppleReceive
  <2>0. UNCHANGED request /\ producer.i # Count
    BY <1>2 DEF AppleReceive, BodyEnded
  <2>1. CASE Streaming
    BY <1>0, <1>2, <2>0, <2>1, ReadKeeps DEF AppleReceive
  <2>2. CASE ~Streaming
    <3>1. PICK at \in {"move", "body"} :
            producer' = [at |-> at, i |-> Count, end |-> producer.end]
      BY <1>2, <2>2 DEF AppleReceive, TransferOK
    <3>2. UNCHANGED bodyVars /\ Count \in 0..Count /\ at \in ProducerPlaces /\ at # "finish"
      BY <1>2, <2>2 DEF AppleReceive, ProducerPlaces
    <3>. QED BY <2>0, <3>1, <3>2 DEF StepOK, TransferOK, On
  <2>. QED BY <2>1, <2>2
<1>3. ASSUME NEW error \in {"none", "cancelled", "broken", "timedOut", "exhausted"}, AppleComplete(error)
      PROVE  StepOK
  <2>1. StreamEnd(error) \in Ends /\ BufferedEnd(error) \in Ends
    <3>1. MapError(error) \in {"Transport", "TooManyRedirects", "Timeout", "Cancelled"}
      BY DEF MapError
    <3>. QED BY <1>0, <3>1, KeysEnd DEF StreamEnd, BufferedEnd
  <2>2. UNCHANGED <<request, bodyVars>>
    BY <1>3 DEF AppleComplete
  <2>3. EndsUnlessSkipped(StreamEnd(error), TRUE) \/ CompleteWith(BufferedEnd(error))
    BY <1>3 DEF AppleComplete
  <2>. QED BY <2>1, <2>2, <2>3, TerminalKeeps
<1>4. CASE AppleCompletes \/ AppleBreaks
  BY <1>3, <1>4 DEF AppleCompletes, AppleBreaks
<1>5. CASE AppleResume \/ AppleCancel \/ AppleDeadline \/ AppleStop
  <2>1. UNCHANGED <<request, bodyVars, producer>>
    BY <1>5 DEF AppleResume, ResumePushed, AppleCancel, AppleDeadline, AppleStop, streamVars
  <2>. QED BY <2>1, QuietKeeps DEF Quietly
<1>. QED
  BY <1>1, <1>2, <1>4, <1>5, SharedKeeps
  DEF AppleNext, AppleQueue, AppleIO, AppleDriver, SharedStep

\* nor OkHttp's thread,
LEMMA AndroidKeeps ==
  ASSUME TransferOK, ~On("Mock"), AndroidNext
  PROVE  StepOK
<1> USE DEF UnchangedByCall, exchange, nativeVars
<1>0. /\ Complete(producer.i) \in Ends /\ Complete(Count) \in Ends /\ Failed(Classify) \in Ends
      /\ Failed(ClassifyExhausted) \in Ends
      /\ {"turn", "read", "write", "held", "lost", "toSleep", "asleep", "remove",
          "rename"} \subseteq Stays
  BY EndsHold, KeysEnd DEF TransferOK, Stays, ProducerPlaces, Classify, InterruptedIO, ClassifyExhausted
<1>1. CASE AndroidTurn \/ AndroidHeld \/ AndroidWait
  <2>1. /\ UNCHANGED <<request, bodyVars>>
        /\ \E at \in {"held", "read", "lost", "toSleep", "asleep"} : Go(at)
    BY <1>1 DEF AndroidTurn, AndroidHeld, AndroidWait
  <2>. QED BY <1>0, <2>1, QuietKeeps DEF Quietly
<1>2. CASE AndroidHead
  <2>1. /\ UNCHANGED <<request, bodyVars>>
        /\ \/ UNCHANGED producer
           \/ \E at \in {"turn", "write", "read"} : Go(at)
           \/ EndsWith(Failed("InsecureRedirect")) \/ EndsWith(Failed(Classify))
           \/ EndsWith(Failed(ClassifyExhausted))
    BY <1>2 DEF AndroidHead
  <2>2. CASE UNCHANGED producer \/ \E at \in {"turn", "write", "read"} : Go(at)
    BY <1>0, <2>1, <2>2, QuietKeeps DEF Quietly
  <2>. QED BY <1>0, <2>1, <2>2, KeysEnd, TerminalKeeps
<1>3. CASE AndroidRead
  <2>0. UNCHANGED request
    BY <1>3 DEF AndroidRead
  <2>1. CASE ~BodyEnded /\ DeliverRead("turn")
    BY <1>0, <2>0, <2>1, ReadKeeps DEF BodyEnded
  <2>2. CASE UNCHANGED bodyVars /\ (EndsUnlessSkipped(Complete(producer.i), TRUE) \/ EndsWith(Failed(Classify)))
    BY <1>0, <2>0, <2>2, TerminalKeeps
  <2>. QED BY <1>3, <2>1, <2>2 DEF AndroidRead
<1>4. CASE AndroidBuffer \/ AndroidSink
  <2>1. /\ UNCHANGED <<request, bodyVars>>
        /\ \/ Go("remove") \/ Go("rename")
           \/ CompleteWith(Complete(Count)) \/ CompleteWith(Failed(Classify))
           \/ CompleteWith(Failed("Io"))
    BY <1>4 DEF AndroidBuffer, AndroidSink, SinkFails
  <2>2. CASE Go("remove") \/ Go("rename")
    BY <1>0, <2>1, <2>2, QuietKeeps DEF Quietly
  <2>. QED BY <1>0, <2>1, <2>2, KeysEnd, TerminalKeeps
<1>5. CASE AndroidCancel \/ AndroidDeadline \/ AndroidResume
  <2>1. /\ UNCHANGED <<request, bodyVars>>
        /\ UNCHANGED producer \/ Go("turn")
    BY <1>5 DEF AndroidCancel, AndroidDeadline, AndroidResume, ResumePushed, Woken, streamVars
  <2>. QED BY <1>0, <2>1, QuietKeeps DEF Quietly
<1>. QED
  BY <1>1, <1>2, <1>3, <1>4, <1>5, SharedKeeps
  DEF AndroidNext, AndroidThread, AndroidIO, AndroidDriver, SharedStep

\* nor the mock.
LEMMA MockKeeps ==
  ASSUME TransferOK, On("Mock"), StreamNext, UNCHANGED nativeVars
  PROVE  StepOK
<1>1. ProducerOK' /\ [BodyNext]_bodyVars
  BY ProducerStep, StepRefines DEF TransferOK
<1>2. TransferOK'
  BY <1>1 DEF TransferOK, ProducerOK, Places, ProducerPlaces
<1>. QED BY <1>1, <1>2 DEF StepOK

\* A step of any platform is one of the ingest's, or none.
LEMMA TransferStep ==
  ASSUME TransferOK, [TransfersNext]_transferVars
  PROVE  StepOK
<1>1. CASE UNCHANGED transferVars
  <2>1. UNCHANGED <<bodyVars, producer, request>>
    BY <1>1 DEF transferVars, streamVars, nativeVars
  <2>. QED BY <2>1 DEF StepOK, TransferOK, ProducerOK, On
<1>2. CASE TransfersNext
  <2>1. CASE On("Mock")
    BY <1>2, <2>1, MockKeeps DEF TransfersNext, On
  <2>2. CASE ~On("Mock")
    BY <1>2, <2>2, LinuxKeeps, AppleKeeps, AndroidKeeps DEF TransfersNext
  <2>. QED BY <2>1, <2>2
<1>. QED BY <1>1, <1>2

\* Every adapter starts before its first chunk.
LEMMA TransferInitially == TransfersInit => BodyInit /\ TransferOK
<1>1. 0 \in 0..Count /\ 0 < Count
  OBVIOUS
<1>. QED
  BY <1>1 DEF TransfersInit, MockStart, NativeStart, TransferOK, ProducerOK, Places, ProducerPlaces, On

\* Whatever the adapter, its faults, its threads and the signals do, the
\* ingest sees only what its specification allows (lib.rs deliver_chunk,
\* finish_body; stream.rs run_producer, drive_streaming).
THEOREM TransfersImplementBody == TransfersSpec => BodySpec
<1>1. TransferOK /\ [TransfersNext]_transferVars => TransferOK' /\ [BodyNext]_bodyVars
  BY TransferStep DEF StepOK
<1>. QED BY <1>1, TransferInitially, PTL DEF TransfersSpec, BodySpec

\* Rule 12 on every platform, for every capacity, body and ceiling.
THEOREM TransfersInOrder == TransfersSpec => []GaplessInOrder
  BY TransfersImplementBody, BodyInOrder, PTL

\* Rule 12 of every platform: a success is over the whole declared body.
THEOREM TransfersComplete == TransfersSpec => []VerifiedIsComplete
  BY TransfersImplementBody, BodyComplete, PTL

-----------------------------------------------------------------------------
(* What a transfer promises of its end *)

USE NativeAssumption

\* The producer is past its last call of the adapter.
Over == {"record", "closed", "done"}

\* The types, and what the sink, the platform and the fault say of the places.
TypesInv ==
  /\ terminal \in Ends \cup {Pending}
  /\ request \in [platform : Platforms, sink : Sinks]
  /\ network \in Networks
  /\ file \in FileType
  /\ cause \in Causes
  /\ hops \in 0..(Ceiling + 1)
  /\ On("Mock") => Streaming
  /\ fault = "Truncate" => On("Mock")
  /\ fault = "DropChunk" => ~On("Mock")
  /\ producer.at \in {"create", "write", "move", "remove", "rename"} => request.sink = "File"
  /\ producer.at \in {"finish", "record", "closed"} => Streaming

\* What a step does to the producer, in its parts.
LEMMA ProducerSays ==
  ASSUME TransferOK
  PROVE  /\ \A at : Go(at) =>
              producer'.at = at /\ producer'.i = producer.i /\ producer'.end = producer.end
         /\ \A end : EndWith(end) =>
              producer'.at = "finish" /\ producer'.i = producer.i /\ producer'.end = end
  BY DEF TransferOK, Go, EndWith

\* A read that is dropped, delivered or refused.
LEMMA ReadSays ==
  ASSUME TransferOK, NEW again, DeliverRead(again)
  PROVE  /\ producer'.i = producer.i + 1
         /\ \/ /\ fault = "DropChunk" /\ producer.i = 0
               /\ producer'.at = again /\ producer'.end = producer.end
               /\ UNCHANGED bodyVars
            \/ /\ ~(fault = "DropChunk" /\ producer.i = 0)
               /\ Accepts([seq |-> NextSeq, size |-> 1])
               /\ DeliverChunk([seq |-> NextSeq, size |-> 1])
               /\ producer'.at = (IF PauseDue THEN "pause" ELSE again)
               /\ producer'.end = producer.end
            \/ /\ ~(fault = "DropChunk" /\ producer.i = 0)
               /\ ~Accepts([seq |-> NextSeq, size |-> 1])
               /\ producer'.at = "finish"
               /\ producer'.end = Failed(Refusal([seq |-> NextSeq, size |-> 1]))
               /\ UNCHANGED bodyVars
<1> DEFINE chunk == [seq |-> NextSeq, size |-> 1]
<1>1. producer \in [at : ProducerPlaces, i : 0..Count, end : Ends \cup {Pending}]
  BY DEF TransferOK
<1>2. [producer EXCEPT !.i = @ + 1] = [at |-> producer.at, i |-> producer.i + 1, end |-> producer.end]
  BY <1>1
<1>3. \/ /\ fault = "DropChunk" /\ producer.i = 0
         /\ producer' = [[producer EXCEPT !.i = @ + 1] EXCEPT !.at = again]
         /\ UNCHANGED bodyVars
      \/ /\ ~(fault = "DropChunk" /\ producer.i = 0)
         /\ Accepts(chunk) /\ DeliverChunk(chunk)
         /\ producer' = [[producer EXCEPT !.i = @ + 1] EXCEPT !.at = IF PauseDue THEN "pause" ELSE again]
      \/ /\ ~(fault = "DropChunk" /\ producer.i = 0)
         /\ ~Accepts(chunk)
         /\ producer' = [[producer EXCEPT !.i = @ + 1] EXCEPT !.at = "finish", !.end = Failed(Refusal(chunk))]
         /\ UNCHANGED bodyVars
  BY DEF DeliverRead
<1> HIDE DEF chunk
<1>4. QED  BY <1>1, <1>2, <1>3 DEF chunk

\* The file sink's edits, in their parts.
LEMMA FileSays ==
  ASSUME NEW f \in FileType, NEW there \in BOOLEAN, NEW dest \in {"none", "old", "whole", "redirect"}
  PROVE  /\ [f EXCEPT !.temp = there] = [dest |-> f.dest, temp |-> there, failed |-> f.failed]
         /\ [f EXCEPT !.dest = dest] = [dest |-> dest, temp |-> f.temp, failed |-> f.failed]
         /\ [f EXCEPT !.failed = there] = [dest |-> f.dest, temp |-> f.temp, failed |-> there]
         /\ [f EXCEPT !.temp = there] \in FileType
         /\ [f EXCEPT !.dest = dest] \in FileType
         /\ [f EXCEPT !.failed = there] \in FileType
         /\ f.temp \in BOOLEAN /\ f.failed \in BOOLEAN
<1>1. [f EXCEPT !.temp = there] = [dest |-> f.dest, temp |-> there, failed |-> f.failed]
  BY DEF FileType
<1>2. [f EXCEPT !.dest = dest] = [dest |-> dest, temp |-> f.temp, failed |-> f.failed]
  BY DEF FileType
<1>3. [f EXCEPT !.failed = there] = [dest |-> f.dest, temp |-> f.temp, failed |-> there]
  BY DEF FileType
<1>4. QED  BY <1>1, <1>2, <1>3 DEF FileType

\* Two edits at once.
LEMMA FileSaysTwice ==
  ASSUME NEW f \in FileType, NEW there \in BOOLEAN, NEW dest \in {"none", "old", "whole", "redirect"}
  PROVE  /\ [f EXCEPT !.failed = TRUE, !.temp = there]
              = [dest |-> f.dest, temp |-> there, failed |-> TRUE]
         /\ [f EXCEPT !.temp = there, !.dest = dest]
              = [dest |-> dest, temp |-> there, failed |-> f.failed]
         /\ [f EXCEPT !.dest = dest, !.temp = there]
              = [dest |-> dest, temp |-> there, failed |-> f.failed]
         /\ [f EXCEPT !.failed = TRUE, !.temp = there] \in FileType
         /\ [f EXCEPT !.temp = there, !.dest = dest] \in FileType
         /\ [f EXCEPT !.dest = dest, !.temp = there] \in FileType
<1> DEFINE failed == [f EXCEPT !.failed = TRUE]
           placed == [f EXCEPT !.dest = dest]
           kept   == [f EXCEPT !.temp = there]
<1>1. failed \in FileType /\ failed = [dest |-> f.dest, temp |-> f.temp, failed |-> TRUE]
  BY FileSays
<1>2. placed \in FileType /\ placed = [dest |-> dest, temp |-> f.temp, failed |-> f.failed]
  BY FileSays
<1>3. kept \in FileType /\ kept = [dest |-> f.dest, temp |-> there, failed |-> f.failed]
  BY FileSays
<1>0. placed \in FileType /\ kept \in FileType
  BY <1>2, <1>3
<1>4. /\ [f EXCEPT !.failed = TRUE, !.temp = there] = [failed EXCEPT !.temp = there]
      /\ [f EXCEPT !.temp = there, !.dest = dest] = [kept EXCEPT !.dest = dest]
      /\ [f EXCEPT !.dest = dest, !.temp = there] = [placed EXCEPT !.temp = there]
  OBVIOUS
<1> HIDE DEF failed, placed, kept
<1>5. [failed EXCEPT !.temp = there] = [dest |-> f.dest, temp |-> there, failed |-> TRUE]
  BY <1>1, FileSays
<1>6. [kept EXCEPT !.dest = dest] = [dest |-> dest, temp |-> there, failed |-> f.failed]
  <2>1. [kept EXCEPT !.dest = dest] = [dest |-> dest, temp |-> kept.temp, failed |-> kept.failed]
    BY <1>0, FileSays
  <2>2. kept.temp = there /\ kept.failed = f.failed
    BY <1>3, Zenon
  <2>. QED BY <2>1, <2>2, Zenon
<1>7. [placed EXCEPT !.temp = there] = [dest |-> dest, temp |-> there, failed |-> f.failed]
  <2>1. [placed EXCEPT !.temp = there] = [dest |-> placed.dest, temp |-> there, failed |-> placed.failed]
    BY <1>0, FileSays
  <2>2. placed.dest = dest /\ placed.failed = f.failed
    BY <1>2, Zenon
  <2>. QED BY <2>1, <2>2, Zenon
<1>8. /\ [failed EXCEPT !.temp = there] \in FileType
      /\ [kept EXCEPT !.dest = dest] \in FileType
      /\ [placed EXCEPT !.temp = there] \in FileType
  <2>1. failed \in FileType
    BY <1>1
  <2>2. QED  BY <1>0, <2>1, FileSays
<1>9. QED  BY <1>4, <1>5, <1>6, <1>7, <1>8

\* Where the file is and whether it failed after an edit.
LEMMA FileParts ==
  ASSUME NEW f \in FileType, NEW there \in BOOLEAN, NEW dest \in {"none", "old", "whole", "redirect"}
  PROVE  /\ [f EXCEPT !.temp = there].failed = f.failed
         /\ [f EXCEPT !.temp = there].dest = f.dest
         /\ [f EXCEPT !.dest = dest].failed = f.failed
         /\ [f EXCEPT !.dest = dest].dest = dest
         /\ [f EXCEPT !.failed = TRUE, !.temp = there].failed = TRUE
         /\ [f EXCEPT !.failed = TRUE, !.temp = there].dest = f.dest
         /\ [f EXCEPT !.temp = there, !.dest = dest].failed = f.failed
         /\ [f EXCEPT !.temp = there, !.dest = dest].dest = dest
         /\ [f EXCEPT !.dest = dest, !.temp = there].failed = f.failed
         /\ [f EXCEPT !.dest = dest, !.temp = there].dest = dest
<1>1. /\ [f EXCEPT !.temp = there].failed = f.failed
      /\ [f EXCEPT !.temp = there].dest = f.dest
      /\ [f EXCEPT !.dest = dest].failed = f.failed
      /\ [f EXCEPT !.dest = dest].dest = dest
  BY DEF FileType
<1>2. /\ [f EXCEPT !.failed = TRUE, !.temp = there].failed = TRUE
      /\ [f EXCEPT !.failed = TRUE, !.temp = there].dest = f.dest
  BY DEF FileType
<1>3. /\ [f EXCEPT !.temp = there, !.dest = dest].failed = f.failed
      /\ [f EXCEPT !.temp = there, !.dest = dest].dest = dest
  BY DEF FileType
<1>4. /\ [f EXCEPT !.dest = dest, !.temp = there].failed = f.failed
      /\ [f EXCEPT !.dest = dest, !.temp = there].dest = dest
  BY DEF FileType
<1>5. QED  BY <1>1, <1>2, <1>3, <1>4

\* The terminal, however it is given.
LEMMA EndsSay ==
  ASSUME TransferOK, NEW end
  PROVE  /\ EndsWith(end) =>
              IF Streaming
              THEN /\ producer'.at = "finish" /\ producer'.i = producer.i /\ producer'.end = end
                   /\ UNCHANGED terminal
              ELSE /\ producer'.at = "done" /\ producer'.i = producer.i
                   /\ producer'.end = producer.end /\ terminal' = end
         /\ \A keeps : EndsUnlessSkipped(end, keeps) =>
              \/ EndsWith(end)
              \/ /\ Streaming /\ fault = "SkipTerminal" /\ UNCHANGED terminal
                 /\ producer'.at = "done" /\ producer'.i = producer.i /\ producer'.end = producer.end
  BY ProducerSays DEF EndsWith, EndsUnlessSkipped, CompleteWith

\* What the keys of an end are to the types.
LEMMA TypedEnds ==
  ASSUME TransferOK
  PROVE  /\ Complete(producer.i) \in Ends /\ Complete(Count) \in Ends
         /\ \A key \in Errors : Failed(key) \in Ends
  BY EndsHold DEF TransferOK

\* reqwest's task stays within the types.
LEMMA LinuxTypes ==
  ASSUME TransferOK, TypesInv, On("Linux"), LinuxNext, ~SharedStep
  PROVE  TypesInv'
<1> USE DEF UnchangedByTask, exchange, nativeVars, adapterVars, On, TypesInv, Networks, Streaming
<1>0. /\ \A there \in BOOLEAN : /\ [file EXCEPT !.temp = there] \in FileType
                                /\ [file EXCEPT !.failed = TRUE, !.temp = there] \in FileType
      /\ [file EXCEPT !.temp = FALSE, !.dest = "whole"] \in FileType
  BY FileSays, FileSaysTwice
<1>1. CASE LinuxInterrupted
  <2>1. file' \in FileType
    BY <1>0, <1>1 DEF LinuxInterrupted, BegunFileStep
  <2>2. Failed(Interrupt) \in Ends
    BY KeysEnd DEF Interrupt
  <2>. QED BY <1>1, <2>1, <2>2, EndsSay DEF LinuxInterrupted
<1>2. CASE LinuxTurn \/ LinuxRegister \/ LinuxRecheck \/ LinuxNotify
  BY <1>2, ProducerSays DEF LinuxTurn, LinuxRegister, LinuxRecheck, LinuxNotify
<1>3. CASE LinuxFollow
  BY <1>3, ProducerSays, EndsSay, KeysEnd DEF LinuxFollow, Redirected, Downgraded, Broken, TimesOut, AfterHead
<1>4. CASE LinuxRead
  <2>1. UNCHANGED <<request, file, cause, hops, fault, terminal>>
    BY <1>4, EndsSay, ReadSays DEF LinuxRead, Broken
  <2>2. network' \in Networks
    BY <1>4 DEF LinuxRead, Broken, Networks
  <2>3. producer'.at \in {"turn", "pause", "finish", "done"}
    BY <1>4, EndsSay, ReadSays DEF LinuxRead
  <2>. QED BY <1>4, <2>1, <2>2, <2>3 DEF LinuxRead
<1>5. CASE LinuxBuffer
  BY <1>5, TypedEnds, ProducerSays, KeysEnd DEF LinuxBuffer, CompleteWith, Broken
<1>6. CASE LinuxCreate \/ LinuxWrite \/ LinuxRename
  <2>1. file' \in FileType
    BY <1>0, <1>6 DEF LinuxCreate, LinuxWrite, LinuxRename, FileFails
  <2>2. terminal' \in Ends \cup {Pending}
    BY <1>6, TypedEnds, KeysEnd DEF LinuxCreate, LinuxWrite, LinuxRename, FileFails, CompleteWith
  <2>3. UNCHANGED <<request, cause, hops, fault>> /\ network' \in Networks
    BY <1>6 DEF LinuxCreate, LinuxWrite, LinuxRename, FileFails, Broken, Networks
  <2>4. producer.at \in {"create", "write", "rename"} /\ producer'.at \in {"write", "rename", "done"}
    BY <1>6, ProducerSays DEF LinuxCreate, LinuxWrite, LinuxRename, FileFails, CompleteWith, Await
  <2>. QED BY <2>1, <2>2, <2>3, <2>4
<1>7. CASE LinuxResume \/ LinuxDeadline \/ LinuxCancel
  BY <1>7 DEF LinuxResume, ResumePushed, LinuxDeadline, LinuxCancel, streamVars
<1>. QED
  BY <1>1, <1>2, <1>3, <1>4, <1>5, <1>6, <1>7
  DEF LinuxNext, LinuxTask, LinuxIO, LinuxDriver, SharedStep

\* URLSession's callbacks stay within the types.
LEMMA AppleTypes ==
  ASSUME TransferOK, TypesInv, On("Apple"), AppleNext, ~SharedStep
  PROVE  TypesInv'
<1> USE DEF UnchangedBySession, exchange, nativeVars, adapterVars, On, TypesInv, Networks, Streaming
<1>1. CASE AppleHead
  BY <1>1, ProducerSays DEF AppleHead, Redirected, Downgraded, Terminated, Causes
<1>2. CASE AppleReceive \/ AppleDownloaded
  <2>1. producer'.at \in {"body", "pause", "finish", "move"}
    <3>1. CASE AppleReceive /\ Streaming
      BY <3>1, ReadSays DEF AppleReceive
    <3>2. CASE AppleReceive /\ ~Streaming
      BY <3>2 DEF AppleReceive, TransferOK
    <3>3. CASE AppleDownloaded
      BY <3>3, ProducerSays DEF AppleDownloaded
    <3>. QED BY <1>2, <3>1, <3>2, <3>3
  <2>2. producer'.at = "move" => request.sink = "File"
    <3>1. CASE AppleReceive /\ Streaming
      BY <3>1, ReadSays DEF AppleReceive
    <3>2. CASE AppleReceive /\ ~Streaming
      BY <3>2 DEF AppleReceive, TransferOK
    <3>3. CASE AppleDownloaded
      BY <3>3 DEF AppleDownloaded
    <3>. QED BY <1>2, <3>1, <3>2, <3>3
  <2>3. producer'.at = "finish" => Streaming
    <3>1. CASE AppleReceive /\ ~Streaming
      BY <3>1 DEF AppleReceive, TransferOK
    <3>2. CASE AppleDownloaded
      BY <3>2, ProducerSays DEF AppleDownloaded
    <3>. QED BY <1>2, <3>1, <3>2
  <2>. QED BY <1>2, <2>1, <2>2, <2>3 DEF AppleReceive, AppleDownloaded
<1>3. CASE ApplePersist
  <2>1. file' \in FileType
    <3>1. Downloaded \in {"redirect", "whole"}
      BY DEF Downloaded
    <3>2. /\ [file EXCEPT !.temp = TRUE] \in FileType /\ [file EXCEPT !.dest = "none"] \in FileType
          /\ [file EXCEPT !.dest = Downloaded, !.temp = FALSE] \in FileType
      BY <3>1, FileSays, FileSaysTwice
    <3>3. [dest : {file.dest}, temp : {FALSE, file.temp}, failed : {TRUE}] \subseteq FileType
      BY DEF FileType
    <3>. QED BY <1>3, <3>2, <3>3 DEF ApplePersist, PersistFails
  <2>2. cause' \in Causes
    BY <1>3 DEF ApplePersist, PersistFails, Terminated, Causes
  <2>3. producer'.at \in {"remove", "rename", "complete"} /\ producer.at \in {"move", "remove", "rename"}
    BY <1>3, ProducerSays DEF ApplePersist, PersistFails
  <2>. QED BY <1>3, <2>1, <2>2, <2>3 DEF ApplePersist
<1>4. ASSUME NEW error \in {"none", "cancelled", "broken", "timedOut", "exhausted"}, AppleComplete(error)
      PROVE  /\ terminal' \in Ends \cup {Pending}
             /\ producer'.at \in {"finish", "done"} /\ (producer'.at = "finish" => Streaming)
             /\ UNCHANGED <<request, file, cause, fault>>
  <2>1. BufferedEnd(error) \in Ends
    <3>1. MapError(error) \in {"Transport", "TooManyRedirects", "Timeout", "Cancelled"}
      BY DEF MapError
    <3>. QED BY <3>1, TypedEnds, KeysEnd DEF BufferedEnd
  <2>2. CASE Streaming
    BY <1>4, <2>2, EndsSay DEF AppleComplete
  <2>3. CASE ~Streaming
    BY <1>4, <2>1, <2>3, ProducerSays DEF AppleComplete, CompleteWith
  <2>. QED BY <1>4, <2>2, <2>3 DEF AppleComplete
<1>5. CASE AppleCompletes \/ AppleBreaks
  <2>1. hops' \in 0..(Ceiling + 1) /\ network' \in Networks
    BY <1>5 DEF AppleCompletes, AppleBreaks, Redirected, Broken, TimesOut, Networks
  <2>. QED BY <1>4, <1>5, <2>1 DEF AppleCompletes, AppleBreaks
<1>6. CASE AppleResume \/ AppleCancel \/ AppleDeadline \/ AppleStop
  BY <1>6 DEF AppleResume, ResumePushed, AppleCancel, AppleDeadline, AppleStop, streamVars,
     Terminated, Causes
<1>. QED
  BY <1>1, <1>2, <1>3, <1>5, <1>6 DEF AppleNext, AppleQueue, AppleIO, AppleDriver, SharedStep

\* OkHttp's thread stays within the types.
LEMMA AndroidTypes ==
  ASSUME TransferOK, TypesInv, On("Android"), AndroidNext, ~SharedStep
  PROVE  TypesInv'
<1> USE DEF UnchangedByCall, exchange, nativeVars, adapterVars, On, TypesInv, Networks, Streaming
<1>0. Classify \in Errors /\ ClassifyExhausted \in Errors
  BY DEF Classify, InterruptedIO, ClassifyExhausted, Errors
<1>1. CASE AndroidTurn \/ AndroidHeld \/ AndroidWait
  BY <1>1, ProducerSays DEF AndroidTurn, AndroidHeld, AndroidWait
<1>2. CASE AndroidHead
  <2>1. /\ terminal' \in Ends \cup {Pending}
        /\ producer'.at \in {"turn", "write", "read", "head", "finish", "done"}
        /\ producer'.at = "finish" => Streaming
        /\ producer'.at = "write" => request.sink = "File"
    BY <1>0, <1>2, ProducerSays, EndsSay, TypedEnds, KeysEnd DEF AndroidHead
  <2>2. hops' \in 0..(Ceiling + 1) /\ network' \in Networks
    BY <1>2 DEF AndroidHead, Redirected, Downgraded, Broken, TimesOut, Throws, Networks
  <2>. QED BY <1>2, <2>1, <2>2 DEF AndroidHead
<1>3. CASE AndroidRead
  <2>1. producer'.at \in {"turn", "pause", "finish", "done"} /\ UNCHANGED terminal
    BY <1>3, ReadSays, EndsSay DEF AndroidRead
  <2>2. hops' = hops /\ network' \in Networks
    BY <1>3 DEF AndroidRead, Broken, TimesOut, Throws, Networks
  <2>. QED BY <1>3, <2>1, <2>2 DEF AndroidRead
<1>4. CASE AndroidBuffer
  <2>1. terminal' \in Ends /\ producer'.at = "done"
    BY <1>0, <1>4, TypedEnds, ProducerSays DEF AndroidBuffer, CompleteWith
  <2>2. hops' = hops /\ network' \in Networks
    BY <1>4 DEF AndroidBuffer, Broken, TimesOut, Throws, Networks
  <2>. QED BY <1>4, <2>1, <2>2 DEF AndroidBuffer
<1>5. CASE AndroidSink
  <2>1. file' \in FileType
    <3>1. /\ [file EXCEPT !.temp = TRUE] \in FileType /\ [file EXCEPT !.dest = "none"] \in FileType
          /\ [file EXCEPT !.dest = "whole", !.temp = FALSE] \in FileType
      BY FileSays, FileSaysTwice
    <3>2. \A failed \in BOOLEAN : [dest : {file.dest}, temp : BOOLEAN, failed : {failed}] \subseteq FileType
      BY DEF FileType
    <3>. QED BY <1>5, <3>1, <3>2 DEF AndroidSink, SinkFails
  <2>2. terminal' \in Ends \cup {Pending}
    BY <1>5, TypedEnds, KeysEnd DEF AndroidSink, SinkFails, CompleteWith
  <2>3. /\ producer.at \in {"write", "remove", "rename"} /\ producer'.at \in {"remove", "rename", "done"}
    BY <1>5, ProducerSays DEF AndroidSink, SinkFails, CompleteWith
  <2>4. hops' = hops /\ network' \in Networks
    BY <1>5 DEF AndroidSink, Broken, TimesOut, Throws, Networks
  <2>. QED BY <1>5, <2>1, <2>2, <2>3, <2>4 DEF AndroidSink
<1>6. CASE AndroidCancel \/ AndroidDeadline \/ AndroidResume
  <2>1. producer'.at \in {producer.at, "turn"}
    BY <1>6, ProducerSays DEF AndroidCancel, AndroidDeadline, AndroidResume, Woken, streamVars
  <2>. QED BY <1>6, <2>1
    DEF AndroidCancel, AndroidDeadline, AndroidResume, ResumePushed, streamVars
<1>. QED
  BY <1>1, <1>2, <1>3, <1>4, <1>5, <1>6
  DEF AndroidNext, AndroidThread, AndroidIO, AndroidDriver, SharedStep

\* RecordEnd is given what the gate made of the end.
LEMMA SharedTypes ==
  ASSUME TransferOK, TypesInv, BodyTypeOK, SharedStep
  PROVE  TypesInv'
<1> USE DEF exchange, nativeVars, adapterVars, On, TypesInv, Networks, Streaming
<1>1. CASE CloseSink
  BY <1>1, ProducerSays DEF CloseSink, FinishBody
<1>2. CASE RecordEnd
  BY <1>2, ProducerSays DEF RecordEnd, BodyTypeOK
<1>3. CASE StopReading
  BY <1>3, ProducerSays DEF StopReading
<1>4. CASE NativePause("turn") \/ NativePause("body")
  BY <1>4, ProducerSays DEF NativePause, PausePushed
<1>5. CASE NativeDriver \/ NativeGiveUp
  BY <1>5 DEF NativeDriver, NativeGiveUp, GiveUp, Returned, SetSignals, DrainStep, Look
<1>. QED BY <1>1, <1>2, <1>3, <1>4, <1>5 DEF SharedStep

\* The mock stays within the types.
LEMMA MockTypes ==
  ASSUME TransferOK, TypesInv, BodyTypeOK, On("Mock"), StreamNext, UNCHANGED nativeVars
  PROVE  TypesInv'
<1> USE DEF nativeVars, On, TypesInv, Networks, Streaming
<1>1. terminal' \in Ends \cup {Pending}
  <2>1. CASE RecordTerminal
    BY <2>1 DEF RecordTerminal, BodyTypeOK
  <2>2. CASE ~RecordTerminal
    <3>1. UNCHANGED terminal
      BY <2>2
      DEF StreamNext, Producer, Driver, WaitWhilePaused, Sleep, SpuriousWake, CheckCancelled, Deliver,
          PushPause, PausePushed, FinishBody, SetSignals, DrainStep, PushResume, ResumePushed,
          NotifyResume, Look, GiveUp, Cancel, NotifyCancel
    <3>. QED BY <3>1
  <2>. QED BY <2>1, <2>2
<1>2. producer'.at \notin {"create", "write", "move", "remove", "rename"}
  BY ProducerStep DEF TransferOK, ProducerOK, Places
<1>3. UNCHANGED fault
  BY DEF StreamNext, Producer, Driver, WaitWhilePaused, Sleep, SpuriousWake, CheckCancelled, Deliver,
         PushPause, PausePushed, FinishBody, RecordTerminal, SetSignals, DrainStep, PushResume,
         ResumePushed, NotifyResume, Look, GiveUp, Cancel, NotifyCancel
<1>. QED BY <1>1, <1>2, <1>3

-----------------------------------------------------------------------------
(* What has happened stays so, and is where it can be. *)

\* A file that failed ends its request; reqwest never leaves half a file.
FileInv ==
  /\ file.failed => producer.at \in {"complete", "done"} /\ ~Streaming
  /\ On("Linux") => file.dest \in {"old", "whole"}

\* The network fails once; a refused redirect goes on to a body only on Apple.
NetworkInv ==
  /\ producer.at = "head" => network = "ok"
  /\ network = "refused" => On("Apple") \/ producer.at = "finish" \/ producer.at \in Over
  /\ network \in {"broken", "timedOut"} => producer.at = "finish" \/ producer.at \in Over

\* URLSession: the recorded cause is true, and a stopped task has a cause.
AppleInv ==
  On("Apple") =>
    /\ cause = "deadline" => deadline # "armed"
    /\ cause = "callerCancel" => cancel # "no"
    /\ cause = "insecureRedirect" => network = "refused"
    /\ cause = "ioFailure" => file.failed
    /\ deadline # "armed" => cause = "deadline"
    /\ stopped => cancel # "no" \/ cause = "deadline" \/ producer.at = "done"
    /\ file.failed \/ network = "refused" => cause # "none"

\* OkHttp: a call is cancelled by its caller or its deadline.
AndroidInv ==
  On("Android") => (stopped => cancel # "no" \/ deadline = "done" \/ producer.at = "done")

\* The mock has no network and no file.
MockInv == On("Mock") => network = "ok" /\ ~file.failed

FactsInv == FileInv /\ NetworkInv /\ AppleInv /\ AndroidInv /\ MockInv

\* No step takes back what the end of a request may be blamed on.
Onwards ==
  /\ UNCHANGED <<request, fault>>
  /\ cancel # "no" => cancel' # "no"
  /\ cancel = "done" => cancel' = "done"
  /\ deadline # "armed" => deadline' # "armed"
  /\ stopped => stopped'
  /\ hops <= hops'
  /\ network # "ok" => network' = network
  /\ file.failed => file'.failed
  /\ pauseLost => pauseLost'
  /\ cause # "none" => cause' = cause

\* reqwest's select and file operations take nothing back.
LEMMA LinuxFacts ==
  ASSUME TransferOK, TypesInv, FactsInv, On("Linux"), LinuxNext, ~SharedStep
  PROVE  FactsInv' /\ Onwards
<1> USE DEF UnchangedByTask, exchange, nativeVars, adapterVars, flowVars, On, TypesInv, Networks, Streaming
<1> USE DEF FactsInv, FileInv, NetworkInv, AppleInv, AndroidInv, MockInv, Onwards, Over
<1>0. /\ \A there \in BOOLEAN : /\ [file EXCEPT !.temp = there].failed = file.failed
                                /\ [file EXCEPT !.temp = there].dest = file.dest
                                /\ [file EXCEPT !.failed = TRUE, !.temp = there].failed = TRUE
                                /\ [file EXCEPT !.failed = TRUE, !.temp = there].dest = file.dest
      /\ [file EXCEPT !.temp = FALSE, !.dest = "whole"].failed = file.failed
      /\ [file EXCEPT !.temp = FALSE, !.dest = "whole"].dest = "whole"
  BY FileParts
<1>1. CASE LinuxInterrupted
  <2>1. file'.failed = file.failed /\ file'.dest \in {file.dest, "whole"}
    BY <1>0, <1>1 DEF LinuxInterrupted, BegunFileStep
  <2>2. producer'.at \in {"finish", "done"}
    BY <1>1, EndsSay DEF LinuxInterrupted
  <2>. QED BY <1>1, <2>1, <2>2 DEF LinuxInterrupted, Awaits
<1>2. CASE LinuxTurn \/ LinuxRegister \/ LinuxRecheck \/ LinuxNotify
  <2>1. \/ producer'.at \in {"register", "read", "registered", "turn", "asleep"} /\ ~file.failed
             /\ producer.at \in {"turn", "register", "registered", "notified"}
        \/ producer'.at = producer.at
        \/ producer'.at \in {"notified", "turn"} /\ producer.at \in {"registered", "asleep"}
    BY <1>2, ProducerSays DEF LinuxTurn, LinuxRegister, LinuxRecheck, LinuxNotify
  <2>. QED BY <1>2, <2>1 DEF LinuxTurn, LinuxRegister, LinuxRecheck, LinuxNotify
<1>3. CASE LinuxFollow
  <2>1. \/ producer'.at \in {"turn", "create", "read"} /\ UNCHANGED <<network, hops>>
        \/ producer'.at \in {"finish", "done", "head"} /\ UNCHANGED network /\ hops' = hops + 1
        \/ producer'.at \in {"finish", "done"} /\ UNCHANGED hops
    BY <1>3, ProducerSays, EndsSay DEF LinuxFollow, AfterHead, Redirected, Downgraded, Broken, TimesOut, Await
  <2>. QED BY <1>3, <2>1 DEF LinuxFollow, Await
<1>4. CASE LinuxRead
  <2>1. \/ producer'.at \in {"turn", "pause", "finish", "done"} /\ UNCHANGED <<network, hops>>
        \/ producer'.at \in {"finish", "done"} /\ UNCHANGED hops
    BY <1>4, ReadSays, EndsSay DEF LinuxRead, Broken
  <2>. QED BY <1>4, <2>1 DEF LinuxRead, Await
<1>5. CASE LinuxBuffer
  BY <1>5, ProducerSays DEF LinuxBuffer, CompleteWith, Broken, Await
<1>6. CASE LinuxCreate \/ LinuxWrite \/ LinuxRename
  <2>1. \/ producer'.at \in {"write", "rename", "done"} /\ file'.failed = file.failed
        \/ producer'.at = "done" /\ file'.failed
    BY <1>0, <1>6, ProducerSays DEF LinuxCreate, LinuxWrite, LinuxRename, FileFails, CompleteWith
  <2>2. file'.dest \in {file.dest, "whole"}
    BY <1>0, <1>6 DEF LinuxCreate, LinuxWrite, LinuxRename, FileFails
  <2>3. network' = network \/ producer'.at = "done"
    BY <1>6, ProducerSays DEF LinuxCreate, LinuxWrite, LinuxRename, FileFails, CompleteWith
  <2>4. producer.at \in {"create", "write", "rename"} /\ hops' = hops
    BY <1>6 DEF LinuxCreate, LinuxWrite, LinuxRename, FileFails, Await, Broken
  <2>5. UNCHANGED <<request, fault, cancel, deadline, stopped, pauseLost, cause>>
    BY <1>6 DEF LinuxCreate, LinuxWrite, LinuxRename
  <2>. QED BY <2>1, <2>2, <2>3, <2>4, <2>5
<1>7. CASE LinuxResume \/ LinuxDeadline \/ LinuxCancel
  BY <1>7 DEF LinuxResume, ResumePushed, LinuxDeadline, LinuxCancel, streamVars
<1>. QED
  BY <1>1, <1>2, <1>3, <1>4, <1>5, <1>6, <1>7
  DEF LinuxNext, LinuxTask, LinuxIO, LinuxDriver, SharedStep

\* A cause is recorded once, under the lock, and a stopped task has one.
LEMMA AppleFacts ==
  ASSUME TransferOK, TypesInv, FactsInv, On("Apple"), AppleNext, ~SharedStep
  PROVE  FactsInv' /\ Onwards
<1> USE DEF UnchangedBySession, exchange, nativeVars, adapterVars, flowVars, On, TypesInv, Networks, Streaming
<1> USE DEF FactsInv, FileInv, NetworkInv, AppleInv, AndroidInv, MockInv, Onwards, Over
<1>1. CASE AppleHead
  <2>1. producer'.at \in {"body", "head"} /\ (producer'.at = "head" => UNCHANGED <<network, cause>>)
    BY <1>1, ProducerSays DEF AppleHead, Redirected
  <2>2. \/ UNCHANGED <<network, cause>>
        \/ network' = "refused" /\ network = "ok" /\ cause' # "none"
             /\ (cause # "none" => cause' = cause) /\ (cause = "none" => cause' = "insecureRedirect")
    BY <1>1 DEF AppleHead, Redirected, Downgraded, Terminated
  <2>. QED BY <1>1, <2>1, <2>2 DEF AppleHead, Redirected, Downgraded
<1>2. CASE AppleReceive \/ AppleDownloaded
  <2>1. producer'.at \in {"body", "pause", "finish", "move"} /\ producer.at = "body"
    <3>1. CASE AppleReceive /\ Streaming
      BY <3>1, ReadSays DEF AppleReceive
    <3>2. CASE AppleReceive /\ ~Streaming
      BY <3>2 DEF AppleReceive, TransferOK
    <3>3. CASE AppleDownloaded
      BY <3>3, ProducerSays DEF AppleDownloaded
    <3>. QED BY <1>2, <3>1, <3>2, <3>3
  <2>. QED BY <1>2, <2>1 DEF AppleReceive, AppleDownloaded
<1>3. CASE ApplePersist
  <2>1. \/ /\ producer'.at \in {"remove", "rename", "complete"}
           /\ file'.failed = file.failed /\ UNCHANGED cause
        \/ /\ producer'.at = "complete" /\ file'.failed
           /\ cause # "none" => cause' = cause
           /\ cause = "none" => cause' = "ioFailure"
    <3>1. Downloaded \in {"redirect", "whole"}
      BY DEF Downloaded
    <3>2. /\ [file EXCEPT !.temp = TRUE].failed = file.failed
          /\ [file EXCEPT !.dest = "none"].failed = file.failed
          /\ [file EXCEPT !.dest = Downloaded, !.temp = FALSE].failed = file.failed
      BY <3>1, FileParts
    <3>. QED BY <1>3, <3>2, ProducerSays DEF ApplePersist, PersistFails, Terminated
  <2>2. producer.at \in {"move", "remove", "rename"} /\ ~file.failed
    BY <1>3 DEF ApplePersist
  <2>. QED BY <1>3, <2>1, <2>2 DEF ApplePersist
<1>4. ASSUME NEW error, AppleComplete(error)
      PROVE  producer'.at \in {"finish", "done"} /\ UNCHANGED <<file, cause>>
             /\ (file.failed => producer'.at = "done")
  <2>1. CASE Streaming
    BY <1>4, <2>1, EndsSay DEF AppleComplete
  <2>2. CASE ~Streaming
    BY <1>4, <2>2, ProducerSays DEF AppleComplete, CompleteWith
  <2>. QED BY <1>4, <2>1, <2>2
<1>5. CASE AppleCompletes \/ AppleBreaks
  <2>1. /\ producer'.at \in {"finish", "done"} /\ UNCHANGED <<file, cause>>
        /\ file.failed => producer'.at = "done"
    BY <1>4, <1>5 DEF AppleCompletes, AppleBreaks
  <2>2. UNCHANGED <<request, fault, cancel, deadline, stopped, pauseLost>>
    BY <1>5 DEF AppleCompletes, AppleBreaks, AppleComplete
  <2>3. hops <= hops' /\ (network # "ok" => network' = network)
    BY <1>5 DEF AppleCompletes, AppleBreaks, Broken, TimesOut, Redirected, BodyEnded
  <2>4. network' \in {network, "broken", "timedOut"} /\ producer.at \in {"head", "body", "complete"}
    BY <1>5 DEF AppleCompletes, AppleBreaks, Broken, TimesOut, Redirected, AwaitsCompletion
  <2>. QED BY <2>1, <2>2, <2>3, <2>4
<1>7. CASE AppleResume \/ AppleCancel \/ AppleDeadline \/ AppleStop
  BY <1>7 DEF AppleResume, ResumePushed, AppleCancel, AppleDeadline, AppleStop, streamVars,
     Terminated, Causes
<1>. QED
  BY <1>1, <1>2, <1>3, <1>5, <1>7 DEF AppleNext, AppleQueue, AppleIO, AppleDriver, SharedStep

\* OkHttp's signals and watchdog only ever add to what has happened.
LEMMA AndroidFacts ==
  ASSUME TransferOK, TypesInv, FactsInv, On("Android"), AndroidNext, ~SharedStep
  PROVE  FactsInv' /\ Onwards
<1> USE DEF UnchangedByCall, exchange, nativeVars, adapterVars, flowVars, On, TypesInv, Networks, Streaming
<1> USE DEF FactsInv, FileInv, NetworkInv, AppleInv, AndroidInv, MockInv, Onwards, Over
<1>1. CASE AndroidTurn \/ AndroidHeld \/ AndroidWait
  <2>1. /\ producer.at \in {"turn", "held", "toSleep"}
        /\ producer'.at \in {"held", "read", "lost", "toSleep", "asleep"}
    BY <1>1, ProducerSays DEF AndroidTurn, AndroidHeld, AndroidWait
  <2>. QED BY <1>1, <2>1 DEF AndroidTurn, AndroidHeld, AndroidWait
<1>2. CASE AndroidHead \/ AndroidRead \/ AndroidBuffer
  <2>1. /\ producer.at \in {"head", "read"}
        /\ \/ producer'.at \in {"turn", "write", "read", "pause"} /\ UNCHANGED network
           \/ producer'.at = "head" /\ producer.at = "head" /\ UNCHANGED network
           \/ producer'.at \in {"finish", "done"}
    <3>1. CASE AndroidHead
      BY <3>1, ProducerSays, EndsSay DEF AndroidHead, Redirected
    <3>2. CASE AndroidRead
      BY <3>2, ReadSays, EndsSay DEF AndroidRead
    <3>3. CASE AndroidBuffer
      BY <3>3, ProducerSays DEF AndroidBuffer, CompleteWith
    <3>. QED BY <1>2, <3>1, <3>2, <3>3
  <2>2. hops <= hops'
    <3>1. hops \in Int /\ (Throws => UNCHANGED hops) /\ (Downgraded => UNCHANGED hops)
      BY DEF Throws, Broken, TimesOut, Downgraded
    <3>2. hops' = hops \/ hops' = hops + 1
      BY <1>2, <3>1 DEF AndroidHead, AndroidRead, AndroidBuffer, Redirected
    <3>. QED BY <3>1, <3>2
  <2>3. UNCHANGED <<request, fault, cancel, deadline, stopped, pauseLost, cause, file>>
    BY <1>2 DEF AndroidHead, AndroidRead, AndroidBuffer
  <2>. QED BY <2>1, <2>2, <2>3
<1>3. CASE AndroidSink
  <2>1. /\ producer.at \in {"write", "remove", "rename"}
        /\ \/ /\ producer'.at \in {"remove", "rename", "done"}
              /\ ~file'.failed /\ UNCHANGED network
           \/ producer'.at = "done"
    <3>1. /\ [file EXCEPT !.temp = TRUE].failed = file.failed
          /\ [file EXCEPT !.dest = "none"].failed = file.failed
          /\ [file EXCEPT !.dest = "whole", !.temp = FALSE].failed = file.failed
      BY FileParts
    <3>2. \A failed : SinkFails(failed) => producer'.at = "done"
      BY ProducerSays DEF SinkFails, CompleteWith
    <3>3. \A end : CompleteWith(end) => producer'.at = "done"
      BY ProducerSays DEF CompleteWith
    <3>4. producer.at = "write" =>
            \/ producer'.at = "remove" /\ file' = [file EXCEPT !.temp = TRUE] /\ UNCHANGED network
            \/ producer'.at = "done"
      BY <1>3, <3>2, ProducerSays DEF AndroidSink
    <3>5. producer.at = "remove" =>
            \/ producer'.at = "rename" /\ file' = [file EXCEPT !.dest = "none"] /\ UNCHANGED network
            \/ producer'.at = "done"
      BY <1>3, <3>2, ProducerSays DEF AndroidSink
    <3>6. producer.at = "rename" => producer'.at = "done"
      BY <1>3, <3>2, <3>3 DEF AndroidSink
    <3>7. producer.at \in {"write", "remove", "rename"} /\ ~file.failed
      BY <1>3 DEF AndroidSink
    <3>. QED BY <3>1, <3>4, <3>5, <3>6, <3>7
  <2>2. UNCHANGED <<request, fault, cancel, deadline, stopped, pauseLost, cause, hops>>
    BY <1>3 DEF AndroidSink, Throws, Broken, TimesOut
  <2>. QED BY <2>1, <2>2
<1>4. CASE AndroidCancel \/ AndroidDeadline \/ AndroidResume
  <2>1. \/ producer'.at = producer.at
        \/ producer.at = "asleep" /\ producer'.at = "turn"
    <3>1. Woken => \/ producer'.at = producer.at
                   \/ producer.at = "asleep" /\ producer'.at = "turn"
      BY ProducerSays DEF Woken
    <3>. QED BY <1>4, <3>1 DEF AndroidCancel, AndroidDeadline, AndroidResume, streamVars
  <2>2. /\ UNCHANGED <<request, fault, pauseLost, cause, file, network, hops>>
        /\ deadline' = deadline \/ deadline' = "done"
        /\ \/ cancel' = cancel
           \/ cancel = "no" /\ cancel' = "set"
           \/ cancel = "set" /\ cancel' = "called"
           \/ cancel = "called" /\ cancel' = "done"
        /\ stopped' = stopped \/ (stopped' = TRUE /\ (cancel' = "called" \/ deadline' = "done"))
    BY <1>4 DEF AndroidCancel, AndroidDeadline, AndroidResume, ResumePushed, streamVars
  <2>. QED BY <2>1, <2>2
<1>. QED
  BY <1>1, <1>2, <1>3, <1>4 DEF AndroidNext, AndroidThread, AndroidIO, AndroidDriver, SharedStep

\* What every platform shares takes nothing back.
LEMMA SharedFacts ==
  ASSUME TransferOK, TypesInv, FactsInv, SharedStep
  PROVE  FactsInv' /\ Onwards
<1> USE DEF exchange, nativeVars, adapterVars, flowVars, On, TypesInv, Networks, Streaming
<1> USE DEF FactsInv, FileInv, NetworkInv, AppleInv, AndroidInv, MockInv, Onwards, Over
<1>1. CASE CloseSink
  BY <1>1, ProducerSays DEF CloseSink, FinishBody
<1>2. CASE RecordEnd
  BY <1>2, ProducerSays DEF RecordEnd
<1>3. CASE StopReading
  BY <1>3, ProducerSays DEF StopReading
<1>4. CASE NativePause("turn") \/ NativePause("body")
  BY <1>4, ProducerSays DEF NativePause, PausePushed
<1>5. CASE NativeDriver \/ NativeGiveUp
  BY <1>5 DEF NativeDriver, NativeGiveUp, GiveUp, Returned, SetSignals, DrainStep, Look
<1>. QED BY <1>1, <1>2, <1>3, <1>4, <1>5 DEF SharedStep

\* The mock's signals take nothing back.
LEMMA MockFacts ==
  ASSUME TransferOK, TypesInv, FactsInv, On("Mock"), StreamNext, UNCHANGED nativeVars
  PROVE  FactsInv' /\ Onwards
<1> USE DEF nativeVars, flowVars, On
<1> USE DEF FactsInv, FileInv, NetworkInv, AppleInv, AndroidInv, MockInv, Onwards
<1>1. FactsInv'
  OBVIOUS
<1>2. Onwards
  <2>1. /\ UNCHANGED fault
        /\ cancel # "no" => cancel' # "no"
        /\ cancel = "done" => cancel' = "done"
        /\ pauseLost => pauseLost'
    BY DEF StreamNext, Producer, Driver, WaitWhilePaused, Sleep, SpuriousWake, CheckCancelled, Deliver,
           PushPause, PausePushed, FinishBody, RecordTerminal, SetSignals, DrainStep, PushResume,
           ResumePushed, NotifyResume, Look, GiveUp, Cancel, NotifyCancel
  <2>2. hops <= hops'
    BY DEF TypesInv
  <2>. QED BY <2>1, <2>2
<1>. QED BY <1>1, <1>2

-----------------------------------------------------------------------------
(* The adapter's count and the core's. *)

\* How many chunks the adapter has numbered.
Progress ==
  IF fault = "DropChunk" /\ producer.i > 0 THEN producer.i - 1 ELSE producer.i

\* Until an adapter ends it, the ingest is open and expects the very chunk the
\* adapter is about to send; a success is declared with what was delivered.
CountInv ==
  /\ stream.ingested_bytes = stream.next_seq
  /\ producer.at \notin Over => stream.open
  /\ Streaming /\ producer.at # "finish" /\ producer.at \notin Over =>
       stream.next_seq = Progress
  /\ producer.at = "finish" /\ producer.end.error = "none" =>
       producer.end.total = stream.next_seq \/ fault \in {"Truncate", "DropChunk"}

\* What a step does to the ingest, in its parts.
LEMMA StreamSays ==
  ASSUME BodyTypeOK
  PROVE  /\ \A chunk : DeliverChunk(chunk) =>
              /\ Accepts(chunk)
              /\ stream'.next_seq = stream.next_seq + 1
              /\ stream'.ingested_bytes = stream.ingested_bytes + chunk.size
              /\ stream'.open = stream.open
              /\ stream'.ring = Append(stream.ring, chunk)
              /\ UNCHANGED outcome
         /\ Drain =>
              /\ stream'.next_seq = stream.next_seq
              /\ stream'.ingested_bytes = stream.ingested_bytes
              /\ stream'.open = stream.open
              /\ stream'.ring = <<>>
              /\ UNCHANGED outcome
         /\ \A end : Finish(end) =>
              /\ stream'.next_seq = stream.next_seq
              /\ stream'.ingested_bytes = stream.ingested_bytes
              /\ ~stream'.open
              /\ stream'.ring = <<>>
              /\ outcome' = Gate(end)
  BY DEF BodyTypeOK, StreamType, DeliverChunk, Drain, Finish

\* A step that leaves the ingest alone.
LEMMA CountStands ==
  ASSUME CountInv, UNCHANGED <<stream, request, fault>>,
         \/ producer'.at \in Over
         \/ /\ producer.at \notin Over \cup {"finish"} /\ producer'.i = producer.i
            /\ producer'.at \notin Over \cup {"finish"}
         \/ /\ producer.at \notin Over /\ producer'.at = "finish"
            /\ producer'.end.error = "none" =>
                 producer'.end.total = stream.next_seq \/ fault \in {"Truncate", "DropChunk"}
         \/ producer'.at = producer.at /\ producer'.i = producer.i /\ producer'.end = producer.end
  PROVE  CountInv'
  BY DEF CountInv, Progress, Over, Streaming

\* A success an adapter declares, from where it reads.
LEMMA DeclaredIsCounted ==
  ASSUME CountInv, TransferOK, Streaming, producer.at # "finish", producer.at \notin Over
  PROVE  /\ Complete(producer.i).total = stream.next_seq \/ fault = "DropChunk"
         /\ \A error \in Errors : Failed(error).error # "none"
  BY DEF CountInv, Progress, TransferOK, Complete, Failed, Errors

\* A read keeps the adapter's count and the core's in step.
LEMMA CountRead ==
  ASSUME CountInv, TransferOK, BodyTypeOK, UNCHANGED <<request, fault>>, Streaming,
         producer.at # "finish", producer.at \notin Over,
         NEW again, again \notin Over \cup {"finish"}, DeliverRead(again)
  PROVE  CountInv'
<1>1. producer.i \in Nat /\ stream.next_seq \in Nat
  BY DEF TransferOK, BodyTypeOK, StreamType
<1>2. CASE /\ DeliverChunk([seq |-> NextSeq, size |-> 1]) /\ producer'.at \in {again, "pause"}
           /\ ~(fault = "DropChunk" /\ producer.i = 0)
  <2>1. /\ stream'.next_seq = stream.next_seq + 1 /\ stream'.open = stream.open
        /\ stream'.ingested_bytes = stream.ingested_bytes + 1
    BY <1>2, StreamSays
  <2>2. producer'.i = producer.i + 1 /\ producer'.at \notin Over \cup {"finish"}
    BY <1>2, ReadSays DEF Over
  <2>3. Progress' = Progress + 1
    BY <1>1, <1>2, <2>2 DEF Progress
  <2>. QED BY <1>1, <2>1, <2>2, <2>3 DEF CountInv, Streaming
<1>3. CASE UNCHANGED bodyVars /\ producer'.at = again /\ fault = "DropChunk" /\ producer.i = 0
  BY <1>1, <1>3, ReadSays DEF CountInv, Progress, Over, Streaming, bodyVars
<1>4. CASE /\ UNCHANGED bodyVars /\ producer'.at = "finish"
           /\ producer'.end = Failed(Refusal([seq |-> NextSeq, size |-> 1]))
  <2>1. producer'.end.error # "none"
    BY <1>4 DEF Failed, Refusal
  <2>. QED BY <1>4, <2>1, CountStands DEF bodyVars
<1>. QED BY <1>2, <1>3, <1>4, ReadSays

\* reqwest's task sends the chunks in the order it reads them.
LEMMA LinuxCount ==
  ASSUME TransferOK, TypesInv, BodyTypeOK, CountInv, On("Linux"), LinuxNext, ~SharedStep
  PROVE  CountInv'
<1> USE DEF UnchangedByTask, nativeVars, Over
<1>0. /\ UNCHANGED <<request, fault>>
      /\ \A key \in Errors : Failed(key).error # "none"
  BY DEF LinuxNext, LinuxTask, LinuxIO, LinuxDriver, SharedStep, LinuxInterrupted, LinuxTurn,
    LinuxRegister, LinuxRecheck, LinuxFollow, LinuxRead, LinuxBuffer, LinuxCreate, LinuxWrite,
    LinuxRename, LinuxResume, ResumePushed, LinuxNotify, LinuxDeadline, LinuxCancel, streamVars,
    Failed, Errors
<1>1. CASE LinuxRead
  <2>1. producer.at = "read" /\ Streaming
    BY <1>1 DEF LinuxRead, Await
  <2>2. CASE DeliverRead("turn")
    BY <1>0, <2>1, <2>2, CountRead
  <2>3. CASE UNCHANGED bodyVars /\ EndsUnlessSkipped(Complete(producer.i), FALSE)
    BY <1>0, <2>1, <2>3, EndsSay, DeclaredIsCounted, CountStands DEF bodyVars
  <2>4. CASE UNCHANGED bodyVars /\ EndsWith(Failed("Transport"))
    BY <1>0, <2>1, <2>4, EndsSay, CountStands DEF bodyVars, Errors
  <2>. QED BY <1>1, <2>2, <2>3, <2>4 DEF LinuxRead
<1>2. CASE LinuxInterrupted \/ LinuxFollow
  <2>1. /\ producer.at \notin Over \cup {"finish"} /\ UNCHANGED stream
        /\ \/ UNCHANGED producer
           \/ Go(AfterHead)
           \/ \E key \in Errors : EndsWith(Failed(key))
    BY <1>2 DEF LinuxInterrupted, LinuxFollow, Awaits, Await, Interrupt, Errors, bodyVars
  <2>2. AfterHead \notin Over \cup {"finish"}
    BY DEF AfterHead
  <2>. QED BY <1>0, <2>1, <2>2, ProducerSays, EndsSay, CountStands
<1>3. CASE LinuxBuffer \/ LinuxCreate \/ LinuxWrite \/ LinuxRename
  <2>1. /\ producer.at \in {"read", "create", "write", "rename"} /\ UNCHANGED stream
        /\ producer'.at \in {"write", "rename", "done"} /\ producer'.i = producer.i
    BY <1>3, ProducerSays
    DEF LinuxBuffer, LinuxCreate, LinuxWrite, LinuxRename, FileFails, CompleteWith, Await, bodyVars
  <2>. QED BY <1>0, <2>1, CountStands
<1>4. CASE LinuxTurn \/ LinuxRegister \/ LinuxRecheck \/ LinuxNotify
  <2>1. UNCHANGED stream /\ producer'.i = producer.i /\ producer'.end = producer.end
    BY <1>4, ProducerSays DEF LinuxTurn, LinuxRegister, LinuxRecheck, LinuxNotify, bodyVars
  <2>2. \/ producer'.at = producer.at
        \/ /\ producer.at \in {"turn", "register", "registered", "notified", "asleep"}
           /\ producer'.at \in {"turn", "register", "registered", "notified", "asleep", "read"}
    BY <1>4, ProducerSays DEF LinuxTurn, LinuxRegister, LinuxRecheck, LinuxNotify
  <2>. QED BY <1>0, <2>1, <2>2, CountStands
<1>5. CASE LinuxResume \/ LinuxDeadline \/ LinuxCancel
  BY <1>0, <1>5, CountStands DEF LinuxResume, ResumePushed, LinuxDeadline, LinuxCancel, streamVars, bodyVars
<1>. QED
  BY <1>1, <1>2, <1>3, <1>4, <1>5 DEF LinuxNext, LinuxTask, LinuxIO, LinuxDriver, SharedStep

\* URLSession's delegate sends the chunks in the order it receives them.
LEMMA AppleCount ==
  ASSUME TransferOK, TypesInv, FactsInv, BodyTypeOK, CountInv, On("Apple"), AppleNext, ~SharedStep
  PROVE  CountInv'
<1> USE DEF UnchangedBySession, nativeVars, Over
<1>0. /\ UNCHANGED <<request, fault>>
      /\ \A key \in Errors : Failed(key).error # "none"
  <2>1. UNCHANGED <<request, fault>>
    BY AppleFacts DEF Onwards
  <2>. QED BY <2>1 DEF Failed, Errors
<1>1. CASE AppleHead \/ AppleDownloaded \/ ApplePersist
  <2>1. /\ UNCHANGED stream /\ producer.at \in {"head", "body", "move", "remove", "rename"}
        /\ \/ UNCHANGED producer
           \/ producer'.i = producer.i /\ producer'.at \in {"body", "move", "remove", "rename", "complete"}
    BY <1>1, ProducerSays DEF AppleHead, AppleDownloaded, ApplePersist, PersistFails, bodyVars
  <2>. QED BY <1>0, <2>1, CountStands
<1>2. CASE AppleReceive /\ Streaming
  BY <1>0, <1>2, CountRead DEF AppleReceive
<1>3. CASE AppleReceive /\ ~Streaming
  <2>1. /\ UNCHANGED stream /\ producer.at = "body" /\ producer'.at \in {"move", "body"}
    BY <1>3 DEF AppleReceive, TransferOK, bodyVars
  <2>. QED BY <1>0, <1>3, <2>1 DEF CountInv, Streaming
<1>4. ASSUME NEW error \in {"none", "cancelled", "broken", "timedOut", "exhausted"}, AppleComplete(error),
             producer.at \in {"head", "body", "complete"}
      PROVE  CountInv'
  <2>1. UNCHANGED stream
    BY <1>4 DEF AppleComplete, bodyVars
  <2>2. CASE ~Streaming
    <3>1. producer'.at = "done"
      BY <1>4, <2>2, ProducerSays DEF AppleComplete, CompleteWith
    <3>. QED BY <1>0, <2>1, <3>1, CountStands
  <2>3. CASE Streaming
    <3>1. StreamEnd(error) = Complete(producer.i) \/ \E key \in Errors : StreamEnd(error) = Failed(key)
      BY DEF StreamEnd, MapError, Errors
    <3>2. StreamEnd(error).error = "none" =>
            StreamEnd(error).total = stream.next_seq \/ fault = "DropChunk"
      BY <1>4, <2>3, <3>1, DeclaredIsCounted
    <3>3. \/ producer'.at = "finish" /\ producer'.end = StreamEnd(error)
          \/ producer'.at = "done"
      BY <1>4, <2>3, EndsSay DEF AppleComplete
    <3>. QED BY <1>0, <1>4, <2>1, <3>2, <3>3, CountStands
  <2>. QED BY <2>2, <2>3
<1>5. CASE AppleCompletes \/ AppleBreaks
  BY <1>4, <1>5 DEF AppleCompletes, AppleBreaks, AwaitsCompletion
<1>6. CASE AppleResume \/ AppleCancel \/ AppleDeadline \/ AppleStop
  BY <1>0, <1>6, CountStands
  DEF AppleResume, ResumePushed, AppleCancel, AppleDeadline, AppleStop, streamVars, bodyVars
<1>. QED
  BY <1>1, <1>2, <1>3, <1>5, <1>6 DEF AppleNext, AppleQueue, AppleIO, AppleDriver, SharedStep

\* OkHttp's loop sends the chunks in the order it reads them.
LEMMA AndroidCount ==
  ASSUME TransferOK, TypesInv, FactsInv, BodyTypeOK, CountInv, On("Android"), AndroidNext, ~SharedStep
  PROVE  CountInv'
<1> USE DEF UnchangedByCall, nativeVars, Over
<1>0. /\ UNCHANGED <<request, fault>>
      /\ \A key \in Errors : Failed(key).error # "none"
      /\ Classify \in Errors /\ ClassifyExhausted \in Errors
  <2>1. UNCHANGED <<request, fault>>
    BY AndroidFacts DEF Onwards
  <2>. QED BY <2>1 DEF Failed, Errors, Classify, InterruptedIO, ClassifyExhausted
<1>1. CASE AndroidTurn \/ AndroidHeld \/ AndroidWait
  <2>1. /\ UNCHANGED stream /\ producer.at \in {"turn", "held", "toSleep"}
        /\ producer'.i = producer.i /\ producer'.at \in {"held", "read", "lost", "toSleep", "asleep"}
    BY <1>1, ProducerSays DEF AndroidTurn, AndroidHeld, AndroidWait, bodyVars
  <2>. QED BY <1>0, <2>1, CountStands
<1>2. CASE AndroidHead
  <2>1. /\ producer.at = "head" /\ UNCHANGED stream
        /\ \/ UNCHANGED producer
           \/ \E at \in {"turn", "write", "read"} : Go(at)
           \/ \E key \in Errors : EndsWith(Failed(key))
    BY <1>0, <1>2 DEF AndroidHead, Errors, bodyVars
  <2>. QED BY <1>0, <2>1, ProducerSays, EndsSay, CountStands
<1>3. CASE AndroidRead
  <2>1. producer.at = "read" /\ Streaming
    BY <1>3 DEF AndroidRead
  <2>2. CASE DeliverRead("turn")
    BY <1>0, <2>1, <2>2, CountRead
  <2>3. CASE UNCHANGED bodyVars /\ EndsUnlessSkipped(Complete(producer.i), TRUE)
    BY <1>0, <2>1, <2>3, EndsSay, DeclaredIsCounted, CountStands DEF bodyVars
  <2>4. CASE UNCHANGED bodyVars /\ EndsWith(Failed(Classify))
    BY <1>0, <2>1, <2>4, EndsSay, CountStands DEF bodyVars
  <2>. QED BY <1>3, <2>2, <2>3, <2>4 DEF AndroidRead
<1>4. CASE AndroidBuffer \/ AndroidSink
  <2>1. /\ producer.at \in {"read", "write", "remove", "rename"} /\ UNCHANGED stream
        /\ producer'.at \in {"remove", "rename", "done"} /\ producer'.i = producer.i
    <3>1. \A end : CompleteWith(end) => producer'.at = "done" /\ producer'.i = producer.i
      BY ProducerSays DEF CompleteWith
    <3>2. \A failed : SinkFails(failed) => producer'.at = "done" /\ producer'.i = producer.i
      BY <3>1 DEF SinkFails
    <3>3. CASE AndroidBuffer
      BY <3>1, <3>3 DEF AndroidBuffer, bodyVars
    <3>4. CASE AndroidSink
      BY <3>1, <3>2, <3>4, ProducerSays DEF AndroidSink, bodyVars
    <3>. QED BY <1>4, <3>3, <3>4
  <2>. QED BY <1>0, <2>1, CountStands
<1>5. CASE AndroidCancel \/ AndroidDeadline \/ AndroidResume
  <2>1. Woken => /\ producer'.i = producer.i /\ producer'.end = producer.end
                 /\ \/ producer'.at = producer.at
                    \/ producer.at = "asleep" /\ producer'.at = "turn"
    BY ProducerSays DEF Woken
  <2>2. UNCHANGED stream /\ (Woken \/ UNCHANGED producer)
    BY <1>5 DEF AndroidCancel, AndroidDeadline, AndroidResume, ResumePushed, streamVars, bodyVars
  <2>. QED BY <1>0, <2>1, <2>2, CountStands
<1>. QED
  BY <1>1, <1>2, <1>3, <1>4, <1>5 DEF AndroidNext, AndroidThread, AndroidIO, AndroidDriver, SharedStep

\* The driver and the terminal leave the count alone.
LEMMA SharedCount ==
  ASSUME TransferOK, TypesInv, FactsInv, BodyTypeOK, CountInv, SharedStep
  PROVE  CountInv'
<1> USE DEF nativeVars, Over
<1>0. UNCHANGED <<request, fault>>
  BY SharedFacts DEF Onwards
<1>1. CASE CloseSink
  <2>1. Finish(producer.end) /\ Go("record")
    BY <1>1 DEF CloseSink, FinishBody
  <2>. QED BY <1>0, <2>1, ProducerSays, StreamSays DEF CountInv
<1>2. CASE RecordEnd \/ StopReading
  <2>1. UNCHANGED stream /\ producer'.at \in Over
    BY <1>2, ProducerSays DEF RecordEnd, StopReading, bodyVars
  <2>. QED BY <1>0, <2>1, CountStands
<1>3. CASE NativePause("turn") \/ NativePause("body")
  <2>1. UNCHANGED stream /\ producer.at = "pause" /\ producer'.i = producer.i /\ producer'.at \in {"turn", "body"}
    BY <1>3, ProducerSays DEF NativePause, PausePushed, bodyVars
  <2>. QED BY <1>0, <2>1, CountStands
<1>4. CASE NativeDriver \/ NativeGiveUp
  <2>1. UNCHANGED producer /\ (Drain \/ UNCHANGED stream)
    BY <1>4 DEF NativeDriver, NativeGiveUp, GiveUp, Returned, SetSignals, DrainStep, Look, bodyVars
  <2>2. CASE Drain
    BY <1>0, <2>1, <2>2, StreamSays DEF CountInv, Progress, Streaming
  <2>3. CASE UNCHANGED stream
    BY <1>0, <2>1, <2>3, CountStands
  <2>. QED BY <2>1, <2>2, <2>3
<1>. QED BY <1>1, <1>2, <1>3, <1>4 DEF SharedStep

\* The mock sends the chunks in order.
LEMMA MockCount ==
  ASSUME TransferOK, TypesInv, FactsInv, BodyTypeOK, CountInv, On("Mock"), StreamNext,
         UNCHANGED nativeVars
  PROVE  CountInv'
<1> USE DEF nativeVars, Over
<1>0. /\ UNCHANGED <<request, fault>> /\ Streaming /\ Progress = producer.i
      /\ ProducerOK /\ producer.i \in Nat /\ stream.next_seq \in Nat
      /\ \A key \in Errors : Failed(key).error # "none"
  <2>1. UNCHANGED <<request, fault>>
    BY MockFacts DEF Onwards
  <2>. QED BY <2>1 DEF TypesInv, Progress, TransferOK, BodyTypeOK, StreamType, Failed, Errors
<1>1. CASE WaitWhilePaused \/ Sleep \/ SpuriousWake \/ NotifyResume \/ NotifyCancel
  <2>1. UNCHANGED stream /\ producer'.i = producer.i /\ producer'.end = producer.end
    BY <1>1, ProducerSays DEF WaitWhilePaused, Sleep, SpuriousWake, NotifyResume, NotifyCancel, NotifyAll, bodyVars
  <2>2. \/ producer'.at = producer.at
        \/ /\ producer.at \in {"wait", "toSleep", "asleep"}
           /\ producer'.at \in {"toSleep", "asleep", "wait", "check"}
    BY <1>1, ProducerSays DEF WaitWhilePaused, Sleep, SpuriousWake, NotifyResume, NotifyCancel, NotifyAll
  <2>. QED BY <1>0, <2>1, <2>2, CountStands
<1>2. CASE CheckCancelled
  <2>1. /\ UNCHANGED stream /\ producer.at = "check"
        /\ \/ producer'.at = "deliver" /\ producer'.i = producer.i
           \/ producer'.at = "finish" /\ producer'.end = Failed("Cancelled")
           \/ producer'.at = "finish" /\ fault = "Truncate"
    BY <1>2, ProducerSays DEF CheckCancelled, bodyVars
  <2>. QED BY <1>0, <2>1, CountStands DEF Errors
<1>3. ASSUME producer.at \in {"deliver", "pause"}, NEW p,
             p \in [at : ProducerPlaces, i : 0..Count, end : Ends \cup {Pending}],
             producer' = NextTurn(p), p.i = stream'.next_seq,
             stream'.ingested_bytes = stream'.next_seq, stream'.open
      PROVE  CountInv'
  <2>1. \/ producer'.at = "wait" /\ producer'.i = p.i
        \/ producer'.at = "done"
        \/ producer'.at = "finish" /\ producer'.end = Complete(Count) /\ p.i = Count
    BY <1>3 DEF NextTurn
  <2>2. Complete(Count).total = Count
    BY DEF Complete
  <2>. QED BY <1>0, <1>3, <2>1, <2>2 DEF CountInv, Progress, TypesInv
<1>4. CASE Deliver
  <2> DEFINE chunk == [seq |-> producer.i, size |-> 1]
             sent  == [producer EXCEPT !.i = @ + 1]
  <2>1. /\ sent \in [at : ProducerPlaces, i : 0..Count, end : Ends \cup {Pending}]
        /\ sent.i = producer.i + 1 /\ producer.at = "deliver"
    BY <1>0, <1>4 DEF Deliver, ProducerOK, TransferOK
  <2>2. CASE DeliverChunk(chunk)
    <3>1. /\ stream'.next_seq = stream.next_seq + 1 /\ stream'.open
          /\ stream'.ingested_bytes = stream.ingested_bytes + 1
      BY <1>0, <2>1, <2>2, StreamSays DEF CountInv
    <3>2. stream.next_seq = producer.i
      BY <1>0, <2>1 DEF CountInv
    <3>3. producer' = NextTurn(sent) \/ producer' = [sent EXCEPT !.at = "pause"]
      BY <1>4, <2>2 DEF Deliver, DeliverChunk
    <3>. HIDE DEF sent
    <3>4. CASE producer' = NextTurn(sent)
      BY <1>0, <1>3, <2>1, <3>1, <3>2, <3>4 DEF CountInv
    <3>5. CASE producer' = [sent EXCEPT !.at = "pause"]
      <4>1. producer'.at = "pause" /\ producer'.i = sent.i
        BY <2>1, <3>5
      <4>. QED BY <1>0, <2>1, <3>1, <3>2, <4>1 DEF CountInv, Progress, TypesInv
    <3>. QED BY <3>3, <3>4, <3>5
  <2>3. CASE EndWith(Failed(Refusal(chunk))) /\ UNCHANGED bodyVars
    <3>1. producer'.end.error # "none" /\ producer'.at = "finish"
      BY <2>3, ProducerSays DEF Failed, Refusal
    <3>. QED BY <1>0, <2>1, <2>3, <3>1, CountStands DEF bodyVars
  <2>. QED BY <1>4, <2>2, <2>3 DEF Deliver
<1>5. CASE PushPause
  <2>1. producer.at = "pause" /\ UNCHANGED stream /\ producer' = NextTurn(producer)
    BY <1>5 DEF PushPause, PausePushed, bodyVars
  <2>2. /\ producer.i = stream'.next_seq /\ stream'.open
        /\ stream'.ingested_bytes = stream'.next_seq
    BY <1>0, <2>1 DEF CountInv
  <2>. QED BY <1>3, <2>1, <2>2 DEF TransferOK
<1>6. CASE FinishBody \/ RecordTerminal
  <2>1. CASE FinishBody
    BY <1>0, <2>1, ProducerSays, StreamSays DEF FinishBody, CountInv
  <2>2. CASE RecordTerminal
    BY <1>0, <2>2, ProducerSays, CountStands DEF RecordTerminal, bodyVars
  <2>. QED BY <1>6, <2>1, <2>2
<1>7. CASE SetSignals \/ DrainStep \/ PushResume \/ Look \/ GiveUp \/ Cancel
  <2>1. UNCHANGED producer /\ (Drain \/ UNCHANGED stream)
    BY <1>7 DEF SetSignals, DrainStep, PushResume, ResumePushed, Look, GiveUp, Cancel, bodyVars
  <2>2. CASE Drain
    BY <1>0, <2>1, <2>2, StreamSays DEF CountInv, Progress, Streaming
  <2>3. CASE UNCHANGED stream
    BY <1>0, <2>1, <2>3, CountStands
  <2>. QED BY <2>1, <2>2, <2>3
<1>. QED
  BY <1>1, <1>2, <1>4, <1>5, <1>6, <1>7 DEF StreamNext, Producer, Driver

-----------------------------------------------------------------------------
(* An end names what has happened. *)

CauseInv ==
  /\ HasItsCause(terminal) /\ HasItsCause(outcome)
  /\ producer.at = "finish" => HasItsCause(producer.end)

\* What an end names does not go away.
LEMMA CausesStay ==
  ASSUME Onwards, TypesInv, TypesInv'
  PROVE  \A end : HasItsCause(end) => HasItsCause(end)'
<1> SUFFICES ASSUME NEW end, HasItsCause(end)
             PROVE  HasItsCause(end)'
  OBVIOUS
<1>1. AndroidSinkBlamesTheFile => AndroidSinkBlamesTheFile'
  BY DEF AndroidSinkBlamesTheFile, Onwards, On
<1>2. hops > Ceiling => hops' > Ceiling
  BY DEF Onwards, TypesInv
<1>. QED BY <1>1, <1>2 DEF HasItsCause, Onwards

\* A step that gives no terminal and begins no end.
LEMMA CauseStands ==
  ASSUME CauseInv, Onwards, TypesInv, TypesInv', UNCHANGED <<terminal, outcome>>,
         producer'.at = "finish" =>
           producer'.at = producer.at /\ producer'.end = producer.end
  PROVE  CauseInv'
<1>1. HasItsCause(terminal') <=> HasItsCause(terminal)
  OBVIOUS
<1>2. HasItsCause(terminal)' /\ HasItsCause(outcome)'
  BY CausesStay DEF CauseInv, HasItsCause
<1>3. producer'.at = "finish" => HasItsCause(producer.end)'
  BY CausesStay DEF CauseInv, HasItsCause
<1>. QED BY <1>2, <1>3 DEF CauseInv

\* A step that gives the terminal, or hands the end to the core.
LEMMA CauseOfEnd ==
  ASSUME TransferOK, CauseInv, Onwards, TypesInv, TypesInv', UNCHANGED outcome,
         NEW end, HasItsCause(end)', NEW keeps,
         EndsWith(end) \/ CompleteWith(end) \/ EndsUnlessSkipped(end, keeps)
  PROVE  CauseInv'
<1>1. HasItsCause(outcome)' /\ (UNCHANGED terminal => HasItsCause(terminal)')
  BY CausesStay DEF CauseInv, HasItsCause
<1>2. \/ producer'.at = "finish" /\ producer'.end = end /\ UNCHANGED terminal
      \/ producer'.at = "done" /\ (terminal' = end \/ UNCHANGED terminal)
  BY EndsSay, ProducerSays DEF CompleteWith
<1>3. terminal' = end => HasItsCause(terminal)'
  BY DEF HasItsCause
<1>4. producer'.end = end => HasItsCause(producer.end)'
  BY DEF HasItsCause
<1>. QED BY <1>1, <1>2, <1>3, <1>4 DEF CauseInv

\* A read the core refuses came in sequence: the ring was full.
LEMMA RefusedForRoom ==
  ASSUME CountInv, TransferOK, BodyTypeOK, Streaming, producer.at # "finish", producer.at \notin Over,
         NEW again, again # "finish", DeliverRead(again)
  PROVE  producer'.at = "finish" => producer'.end = Failed("StreamOverflow")
<1>1. ~(fault = "DropChunk" /\ producer.i = 0) => stream.open /\ stream.next_seq = NextSeq
  BY DEF CountInv, Progress, NextSeq, TransferOK
<1>2. ~(fault = "DropChunk" /\ producer.i = 0) =>
        Refusal([seq |-> NextSeq, size |-> 1]) = "StreamOverflow"
  BY <1>1 DEF Refusal, InSequence
<1>. QED BY <1>2, ReadSays

\* A read ends a request only because the ring is full.
LEMMA CauseOfRead ==
  ASSUME CountInv, TransferOK, BodyTypeOK, Streaming, producer.at # "finish", producer.at \notin Over,
         CauseInv, Onwards, TypesInv, TypesInv', UNCHANGED terminal,
         NEW again, again # "finish", DeliverRead(again)
  PROVE  CauseInv'
<1>1. UNCHANGED outcome
  BY ReadSays, StreamSays DEF bodyVars
<1>2. HasItsCause(terminal)' /\ HasItsCause(outcome)'
  BY <1>1, CausesStay DEF CauseInv, HasItsCause
<1>3. producer'.at = "finish" => HasItsCause(producer.end)'
  BY RefusedForRoom DEF HasItsCause, Failed
<1>. QED BY <1>2, <1>3 DEF CauseInv

\* reqwest's errors are classified by the select that saw them.
LEMMA LinuxCause ==
  ASSUME TransferOK, TypesInv, TypesInv', FactsInv, BodyTypeOK, CountInv, CauseInv,
         On("Linux"), LinuxNext, ~SharedStep
  PROVE  CauseInv'
<1> USE DEF UnchangedByTask, nativeVars
<1>0. Onwards
  BY LinuxFacts
<1>1. CASE LinuxInterrupted
  <2>1. PICK end : end = Failed(Interrupt)
    OBVIOUS
  <2>2. HasItsCause(end)'
    BY <1>1, <2>1 DEF LinuxInterrupted, Interrupted, Interrupt, HasItsCause, Failed, flowVars
  <2>. QED BY <1>0, <1>1, <2>1, <2>2, CauseOfEnd DEF LinuxInterrupted, bodyVars
<1>2. CASE LinuxFollow
  <2>1. UNCHANGED outcome
    BY <1>2 DEF LinuxFollow, bodyVars
  <2>2. \/ /\ UNCHANGED terminal /\ producer'.at # "finish"
        \/ EndsWith(Failed("TooManyRedirects")) /\ hops' > Ceiling
        \/ EndsWith(Failed("InsecureRedirect")) /\ network' = "refused"
        \/ EndsWith(Failed("Transport")) /\ network' = "broken"
        \/ EndsWith(Failed("Timeout")) /\ network' = "timedOut"
    BY <1>2, ProducerSays DEF LinuxFollow, AfterHead, Redirected, Downgraded, Broken, TimesOut, Await
  <2>3. CASE UNCHANGED terminal /\ producer'.at # "finish"
    BY <1>0, <2>1, <2>3, CauseStands
  <2>4. /\ hops' > Ceiling => HasItsCause(Failed("TooManyRedirects"))'
        /\ network' = "refused" => HasItsCause(Failed("InsecureRedirect"))'
        /\ network' = "broken" => HasItsCause(Failed("Transport"))'
        /\ network' = "timedOut" => HasItsCause(Failed("Timeout"))'
    BY DEF HasItsCause, Failed
  <2>. QED BY <1>0, <2>1, <2>2, <2>3, <2>4, CauseOfEnd
<1>3. CASE LinuxRead
  <2>1. producer.at = "read" /\ Streaming
    BY <1>3 DEF LinuxRead, Await
  <2>2. CASE DeliverRead("turn") /\ UNCHANGED terminal
    BY <1>0, <2>1, <2>2, CauseOfRead DEF Over
  <2>3. CASE UNCHANGED bodyVars /\ EndsUnlessSkipped(Complete(producer.i), FALSE)
    <3>1. PICK end : end = Complete(producer.i)
      OBVIOUS
    <3>2. HasItsCause(end)'
      BY <3>1 DEF HasItsCause, Complete
    <3>. QED BY <1>0, <2>3, <3>1, <3>2, CauseOfEnd DEF bodyVars
  <2>4. CASE UNCHANGED bodyVars /\ EndsWith(Failed("Transport")) /\ Broken
    <3>1. HasItsCause(Failed("Transport"))'
      BY <2>4 DEF HasItsCause, Failed, Broken, TimesOut
    <3>. QED BY <1>0, <2>4, <3>1, CauseOfEnd DEF bodyVars
  <2>. QED BY <1>3, <2>2, <2>3, <2>4 DEF LinuxRead
<1>4. CASE LinuxBuffer \/ LinuxCreate \/ LinuxWrite \/ LinuxRename
  <2>1. UNCHANGED outcome
    BY <1>4 DEF LinuxBuffer, LinuxCreate, LinuxWrite, LinuxRename, bodyVars
  <2>2. \A keeps \in BOOLEAN : FileFails(keeps) => CompleteWith(Failed("Io")) /\ file'.failed
    BY FileParts DEF FileFails, TypesInv
  <2>3. \/ UNCHANGED terminal /\ producer'.at # "finish"
        \/ CompleteWith(Complete(Count))
        \/ CompleteWith(Failed("Transport")) /\ network' = "broken"
        \/ CompleteWith(Failed("Io")) /\ file'.failed
    <3>1. CASE LinuxBuffer
      BY <3>1 DEF LinuxBuffer, Broken
    <3>2. CASE LinuxCreate
      <4>1. (\E keeps \in BOOLEAN : FileFails(keeps)) \/ (Go("write") /\ UNCHANGED terminal)
        BY <3>2 DEF LinuxCreate
      <4>. QED BY <2>2, <4>1, ProducerSays
    <3>3. CASE LinuxWrite
      <4>1. \/ \E keeps \in BOOLEAN : FileFails(keeps)
            \/ Go("rename") /\ UNCHANGED terminal
            \/ CompleteWith(Failed("Transport")) /\ network' = "broken"
        BY <3>3 DEF LinuxWrite, Broken
      <4>. QED BY <2>2, <4>1, ProducerSays
    <3>4. CASE LinuxRename
      BY <2>2, <3>4 DEF LinuxRename
    <3>. QED BY <1>4, <3>1, <3>2, <3>3, <3>4
  <2>4. CASE UNCHANGED terminal /\ producer'.at # "finish"
    BY <1>0, <2>1, <2>4, CauseStands
  <2>5. /\ HasItsCause(Complete(Count))'
        /\ network' = "broken" => HasItsCause(Failed("Transport"))'
        /\ file'.failed => HasItsCause(Failed("Io"))'
    BY DEF HasItsCause, Failed, Complete
  <2>. QED BY <1>0, <2>1, <2>3, <2>4, <2>5, CauseOfEnd
<1>5. CASE LinuxTurn \/ LinuxRegister \/ LinuxRecheck \/ LinuxNotify
  <2>1. UNCHANGED <<terminal, outcome>> /\ producer'.end = producer.end
    BY <1>5, ProducerSays DEF LinuxTurn, LinuxRegister, LinuxRecheck, LinuxNotify, bodyVars
  <2>2. producer'.at = "finish" => producer.at = "finish"
    BY <1>5, ProducerSays DEF LinuxTurn, LinuxRegister, LinuxRecheck, LinuxNotify
  <2>. QED BY <1>0, <2>1, <2>2, CauseStands
<1>6. CASE LinuxResume \/ LinuxDeadline \/ LinuxCancel
  BY <1>0, <1>6, CauseStands DEF LinuxResume, ResumePushed, LinuxDeadline, LinuxCancel, streamVars, bodyVars
<1>. QED
  BY <1>1, <1>2, <1>3, <1>4, <1>5, <1>6 DEF LinuxNext, LinuxTask, LinuxIO, LinuxDriver, SharedStep

\* URLSession's errors are classified by the recorded cause.
LEMMA AppleCause ==
  ASSUME TransferOK, TypesInv, TypesInv', FactsInv, BodyTypeOK, CountInv, CauseInv,
         On("Apple"), AppleNext, ~SharedStep
  PROVE  CauseInv'
<1> USE DEF UnchangedBySession, nativeVars
<1>0. Onwards
  BY AppleFacts
<1>1. CASE AppleHead \/ AppleDownloaded \/ ApplePersist
  <2>1. UNCHANGED <<terminal, outcome>>
    BY <1>1 DEF AppleHead, AppleDownloaded, ApplePersist, bodyVars
  <2>2. producer'.at # "finish"
    <3>1. CASE AppleHead
      BY <3>1, ProducerSays DEF AppleHead
    <3>2. CASE AppleDownloaded \/ ApplePersist
      <4>1. \E at \in {"move", "remove", "rename", "complete"} : Go(at)
        BY <3>2 DEF AppleDownloaded, ApplePersist, PersistFails
      <4>. QED BY <4>1, ProducerSays
    <3>. QED BY <1>1, <3>1, <3>2
  <2>. QED BY <1>0, <2>1, <2>2, CauseStands
<1>2. CASE AppleReceive /\ Streaming
  BY <1>0, <1>2, CauseOfRead DEF AppleReceive, Over
<1>3. CASE AppleReceive /\ ~Streaming
  <2>1. producer'.at \in {"body", "move"} /\ UNCHANGED <<terminal, outcome>>
    BY <1>3 DEF AppleReceive, TransferOK, bodyVars
  <2>. QED BY <1>0, <2>1, CauseStands
<1>4. ASSUME NEW error \in {"none", "cancelled", "broken", "timedOut", "exhausted"}, AppleComplete(error),
             error = "cancelled" => stopped, error = "broken" => network' = "broken",
             error = "timedOut" => network' = "timedOut",
             error = "exhausted" => hops' > Ceiling,
             producer.at \in {"head", "body", "complete"}
      PROVE  CauseInv'
  <2>1. UNCHANGED <<outcome, cause, file, cancel, deadline>>
    BY <1>4 DEF AppleComplete, bodyVars, flowVars
  <2>2. error # "none" => HasItsCause(Failed(MapError(error)))'
    <3>1. UNCHANGED MapError(error)
      BY <2>1 DEF MapError
    <3>2. stopped => cancel # "no" \/ cause = "deadline"
      BY <1>4 DEF FactsInv, AppleInv
    <3>3. error # "none" =>
            \/ MapError(error) = "Transport" /\ network' = "broken"
            \/ MapError(error) = "TooManyRedirects" /\ hops' > Ceiling
            \/ MapError(error) = "Timeout" /\ (deadline' # "armed" \/ network' = "timedOut")
            \/ MapError(error) = "Cancelled" /\ cancel' # "no"
      BY <1>4, <2>1, <3>2 DEF MapError, FactsInv, AppleInv
    <3>. QED BY <3>1, <3>3 DEF HasItsCause, Failed
  <2>3. /\ cause = "deadline" => deadline' # "armed"
        /\ cause = "callerCancel" => cancel' # "no"
        /\ cause = "insecureRedirect" => network' = "refused"
        /\ cause = "ioFailure" => file'.failed
    BY <1>0, <2>1 DEF FactsInv, AppleInv, Onwards
  <2>4. CASE Streaming
    <3>1. PICK end : end = StreamEnd(error)
      OBVIOUS
    <3>2. HasItsCause(end)'
      <4>1. \/ end = Failed("Timeout") /\ deadline' # "armed"
            \/ end = Failed("Cancelled") /\ cancel' # "no"
            \/ end = Failed(MapError(error)) /\ error # "none"
            \/ end = Complete(producer.i)
        BY <2>3, <3>1 DEF StreamEnd
      <4>2. end = Failed(MapError(error)) /\ error # "none" => HasItsCause(end)'
        BY <2>1, <2>2 DEF HasItsCause, MapError
      <4>. QED BY <4>1, <4>2 DEF HasItsCause, Failed, Complete
    <3>. QED BY <1>0, <1>4, <2>1, <2>4, <3>1, <3>2, CauseOfEnd DEF AppleComplete
  <2>5. CASE ~Streaming
    <3>1. PICK end : end = BufferedEnd(error)
      OBVIOUS
    <3>2. HasItsCause(end)'
      <4>1. \/ end = Failed("InsecureRedirect") /\ network' = "refused"
            \/ end = Failed("Io") /\ file'.failed
            \/ end = Failed(MapError(error)) /\ error # "none"
            \/ end = Complete(producer.i)
        BY <2>3, <3>1 DEF BufferedEnd
      <4>2. end = Failed(MapError(error)) /\ error # "none" => HasItsCause(end)'
        BY <2>1, <2>2 DEF HasItsCause, MapError
      <4>. QED BY <4>1, <4>2 DEF HasItsCause, Failed, Complete
    <3>. QED BY <1>0, <1>4, <2>1, <2>5, <3>1, <3>2, CauseOfEnd DEF AppleComplete
  <2>. QED BY <2>4, <2>5
<1>5. CASE AppleCompletes \/ AppleBreaks
  BY <1>4, <1>5 DEF AppleCompletes, AppleBreaks, AwaitsCompletion, Broken, TimesOut
<1>6. CASE AppleResume \/ AppleCancel \/ AppleDeadline \/ AppleStop
  BY <1>0, <1>6, CauseStands
  DEF AppleResume, ResumePushed, AppleCancel, AppleDeadline, AppleStop, streamVars, bodyVars
<1>. QED
  BY <1>1, <1>2, <1>3, <1>5, <1>6 DEF AppleNext, AppleQueue, AppleIO, AppleDriver, SharedStep

\* OkHttp's exceptions are classified by the flags, then by their kind.
LEMMA AndroidCause ==
  ASSUME TransferOK, TypesInv, TypesInv', FactsInv, BodyTypeOK, CountInv, CauseInv,
         On("Android"), AndroidNext, ~SharedStep
  PROVE  CauseInv'
<1> USE DEF UnchangedByCall, nativeVars
<1>0. Onwards
  BY AndroidFacts
<1>1. ASSUME producer.at # "done", Throws, UNCHANGED <<cancel, deadline, stopped>>
      PROVE  \A end : end = Failed(Classify) => HasItsCause(end)'
  <2>1. stopped => cancel # "no" \/ deadline = "done"
    BY <1>1 DEF FactsInv, AndroidInv, TypesInv, On
  <2>2. ~stopped => network' \in {"broken", "timedOut"}
    BY <1>1 DEF Throws, Broken, TimesOut
  <2>. QED BY <1>1, <2>1, <2>2 DEF Classify, InterruptedIO, CallerCancelled, HasItsCause, Failed
<1>2. CASE AndroidTurn \/ AndroidHeld \/ AndroidWait
  <2>1. UNCHANGED <<terminal, outcome>> /\ producer'.at # "finish"
    BY <1>2, ProducerSays DEF AndroidTurn, AndroidHeld, AndroidWait, bodyVars
  <2>. QED BY <1>0, <2>1, CauseStands
<1>3. CASE AndroidHead
  <2>1. UNCHANGED <<outcome, cancel, deadline, stopped>> /\ producer.at = "head"
    BY <1>3 DEF AndroidHead, bodyVars, flowVars
  <2>2. \A end : end = Failed(ClassifyExhausted) /\ hops' > Ceiling => HasItsCause(end)'
    BY <2>1 DEF ClassifyExhausted, CallerCancelled, HasItsCause, Failed
  <2>3. \/ UNCHANGED terminal /\ producer'.at # "finish"
        \/ EndsWith(Failed(ClassifyExhausted)) /\ hops' > Ceiling
        \/ EndsWith(Failed("InsecureRedirect")) /\ network' = "refused"
        \/ EndsWith(Failed(Classify)) /\ Throws
    BY <1>3, ProducerSays DEF AndroidHead, Redirected, Downgraded
  <2>4. network' = "refused" => HasItsCause(Failed("InsecureRedirect"))'
    BY DEF HasItsCause, Failed
  <2>5. CASE UNCHANGED terminal /\ producer'.at # "finish"
    BY <1>0, <2>1, <2>5, CauseStands
  <2>. QED BY <1>0, <1>1, <2>1, <2>2, <2>3, <2>4, <2>5, CauseOfEnd
<1>4. CASE AndroidRead
  <2>1. producer.at = "read" /\ Streaming /\ UNCHANGED <<cancel, deadline, stopped>>
    BY <1>4 DEF AndroidRead, flowVars
  <2>2. CASE DeliverRead("turn") /\ UNCHANGED terminal
    BY <1>0, <2>1, <2>2, CauseOfRead DEF Over
  <2>3. CASE UNCHANGED bodyVars /\ EndsUnlessSkipped(Complete(producer.i), TRUE)
    <3>1. PICK end : end = Complete(producer.i)
      OBVIOUS
    <3>2. HasItsCause(end)'
      BY <3>1 DEF HasItsCause, Complete
    <3>. QED BY <1>0, <2>3, <3>1, <3>2, CauseOfEnd DEF bodyVars
  <2>4. CASE UNCHANGED bodyVars /\ EndsWith(Failed(Classify)) /\ Throws
    BY <1>0, <1>1, <2>1, <2>4, CauseOfEnd DEF bodyVars
  <2>. QED BY <1>4, <2>2, <2>3, <2>4 DEF AndroidRead
<1>5. CASE AndroidBuffer
  <2>1. UNCHANGED <<outcome, cancel, deadline, stopped>> /\ producer.at = "read"
    BY <1>5 DEF AndroidBuffer, bodyVars, flowVars
  <2>2. CompleteWith(Complete(Count)) \/ (CompleteWith(Failed(Classify)) /\ Throws)
    BY <1>5 DEF AndroidBuffer
  <2>3. HasItsCause(Complete(Count))'
    BY DEF HasItsCause, Complete
  <2>. QED BY <1>0, <1>1, <2>1, <2>2, <2>3, CauseOfEnd
<1>6. CASE AndroidSink
  <2>1. UNCHANGED <<outcome, stopped>> /\ producer.at \in {"write", "remove", "rename"}
    BY <1>6 DEF AndroidSink, bodyVars
  <2>2. \A failed \in BOOLEAN :
          SinkFails(failed) => CompleteWith(Failed("Io")) /\ file'.failed = failed
    BY DEF SinkFails
  <2>3. Throws => AndroidSinkBlamesTheFile'
    <3>1. request'.sink = "File" /\ On("Android")'
      BY <1>0, <2>1 DEF TypesInv, On, Onwards
    <3>2. Throws => stopped' \/ network' \in {"broken", "timedOut"}
      BY <2>1 DEF Throws, Broken, TimesOut
    <3>. QED BY <3>1, <3>2 DEF AndroidSinkBlamesTheFile, On
  <2>4. \/ UNCHANGED terminal /\ producer'.at # "finish"
        \/ CompleteWith(Complete(Count))
        \/ CompleteWith(Failed("Io")) /\ (file'.failed \/ AndroidSinkBlamesTheFile')
    <3>1. CASE producer.at = "write"
      BY <1>6, <2>2, <2>3, <3>1, ProducerSays DEF AndroidSink
    <3>2. CASE producer.at = "remove"
      BY <1>6, <2>2, <3>2, ProducerSays DEF AndroidSink
    <3>3. CASE producer.at = "rename"
      BY <1>6, <2>2, <3>3 DEF AndroidSink
    <3>. QED BY <2>1, <3>1, <3>2, <3>3
  <2>5. CASE UNCHANGED terminal /\ producer'.at # "finish"
    BY <1>0, <2>1, <2>5, CauseStands
  <2>6. /\ HasItsCause(Complete(Count))'
        /\ file'.failed \/ AndroidSinkBlamesTheFile' => HasItsCause(Failed("Io"))'
    BY DEF HasItsCause, Failed, Complete
  <2>. QED BY <1>0, <2>1, <2>4, <2>5, <2>6, CauseOfEnd
<1>7. CASE AndroidCancel \/ AndroidDeadline \/ AndroidResume
  <2>1. UNCHANGED <<terminal, outcome>> /\ (Woken \/ UNCHANGED producer)
    BY <1>7 DEF AndroidCancel, AndroidDeadline, AndroidResume, ResumePushed, streamVars, bodyVars
  <2>2. producer'.at = "finish" => producer'.at = producer.at /\ producer'.end = producer.end
    BY <2>1, ProducerSays DEF Woken
  <2>. QED BY <1>0, <2>1, <2>2, CauseStands
<1>. QED
  BY <1>2, <1>3, <1>4, <1>5, <1>6, <1>7
  DEF AndroidNext, AndroidThread, AndroidIO, AndroidDriver, SharedStep

\* The gate turns a false total into Transport, which the fault explains.
LEMMA GateHasCause ==
  ASSUME CountInv, CauseInv, producer.at = "finish"
  PROVE  HasItsCause(Gate(producer.end))
<1>1. producer.end.error = "none" /\ producer.end.total # stream.ingested_bytes =>
        fault \in {"Truncate", "DropChunk"}
  BY DEF CountInv
<1>. QED BY <1>1 DEF Gate, CauseInv, HasItsCause, Failed

\* The gate keeps the cause of an end, or finds one.
LEMMA CauseOfFinish ==
  ASSUME TransferOK, BodyTypeOK, CountInv, CauseInv, Onwards, TypesInv, TypesInv', FinishBody
  PROVE  CauseInv'
<1>1. UNCHANGED terminal /\ outcome' = Gate(producer.end) /\ producer'.at = "record"
  BY ProducerSays, StreamSays DEF FinishBody
<1>2. HasItsCause(terminal)'
  BY <1>1, CausesStay DEF CauseInv, HasItsCause
<1>3. HasItsCause(outcome)'
  <2>1. PICK end : end = Gate(producer.end)
    OBVIOUS
  <2>2. HasItsCause(end)
    BY <2>1, GateHasCause DEF FinishBody
  <2>3. HasItsCause(end)'
    BY <2>2, CausesStay
  <2>. QED BY <1>1, <2>1, <2>3 DEF HasItsCause
<1>. QED BY <1>1, <1>2, <1>3 DEF CauseInv

\* The terminal of a stream is recorded from the gate.
LEMMA CauseOfRecord ==
  ASSUME CauseInv, Onwards, TypesInv, TypesInv', terminal' = outcome, UNCHANGED outcome,
         producer'.at # "finish"
  PROVE  CauseInv'
<1>1. HasItsCause(outcome)'
  BY CausesStay DEF CauseInv, HasItsCause
<1>. QED BY <1>1 DEF CauseInv, HasItsCause

\* What every platform shares blames nothing new.
LEMMA SharedCause ==
  ASSUME TransferOK, TypesInv, TypesInv', FactsInv, BodyTypeOK, CountInv, CauseInv, SharedStep
  PROVE  CauseInv'
<1> USE DEF nativeVars
<1>0. Onwards
  BY SharedFacts
<1>1. CASE CloseSink
  BY <1>0, <1>1, CauseOfFinish DEF CloseSink
<1>2. CASE RecordEnd
  BY <1>0, <1>2, ProducerSays, CauseOfRecord DEF RecordEnd, bodyVars
<1>3. CASE StopReading
  BY <1>0, <1>3, ProducerSays, CauseStands DEF StopReading, bodyVars
<1>4. CASE NativePause("turn") \/ NativePause("body")
  BY <1>0, <1>4, ProducerSays, CauseStands DEF NativePause, PausePushed, bodyVars
<1>5. CASE NativeDriver \/ NativeGiveUp
  <2>1. UNCHANGED <<producer, terminal, outcome>>
    BY <1>5, StreamSays
    DEF NativeDriver, NativeGiveUp, GiveUp, Returned, SetSignals, DrainStep, Look, bodyVars
  <2>. QED BY <1>0, <2>1, CauseStands
<1>. QED BY <1>1, <1>2, <1>3, <1>4, <1>5 DEF SharedStep

\* The mock blames only a cancel or a full ring.
LEMMA MockCause ==
  ASSUME TransferOK, TypesInv, TypesInv', FactsInv, BodyTypeOK, CountInv, CauseInv,
         On("Mock"), StreamNext, UNCHANGED nativeVars
  PROVE  CauseInv'
<1>0. Onwards
  BY MockFacts
<1>1. CASE FinishBody
  BY <1>0, <1>1, CauseOfFinish
<1>2. CASE RecordTerminal
  BY <1>0, <1>2, ProducerSays, CauseOfRecord DEF RecordTerminal, bodyVars
<1>3. CASE CheckCancelled
  <2>1. UNCHANGED <<terminal, outcome, cancel>>
    BY <1>3 DEF CheckCancelled, bodyVars, flowVars
  <2>2. \/ producer'.at = "deliver"
        \/ EndWith(Failed("Cancelled")) /\ cancel' # "no"
        \/ EndWith(Complete(Count))
    BY <1>3, <2>1, ProducerSays DEF CheckCancelled, Cancelled
  <2>3. HasItsCause(Complete(Count))' /\ (cancel' # "no" => HasItsCause(Failed("Cancelled"))')
    BY DEF HasItsCause, Failed, Complete
  <2>4. CASE producer'.at = "deliver"
    BY <1>0, <2>1, <2>4, CauseStands
  <2>5. CASE producer'.at # "deliver"
    <3>1. EndsWith(Failed("Cancelled")) \/ EndsWith(Complete(Count)) \/ UNCHANGED outcome
      BY <2>1
    <3>2. producer'.at = "finish" => HasItsCause(producer.end)'
      BY <2>2, <2>3, <2>5, ProducerSays DEF HasItsCause
    <3>3. HasItsCause(terminal)' /\ HasItsCause(outcome)'
      BY <1>0, <2>1, CausesStay DEF CauseInv, HasItsCause
    <3>. QED BY <3>2, <3>3 DEF CauseInv
  <2>. QED BY <2>4, <2>5
<1>4. CASE Deliver \/ PushPause
  <2>1. UNCHANGED <<terminal, outcome>>
    BY <1>4, StreamSays DEF Deliver, PushPause, PausePushed, bodyVars
  <2>2. producer'.at = "finish" =>
          producer'.end = Complete(Count) \/ producer'.end = Failed("StreamOverflow")
    <3>1. \A p : producer' = NextTurn(p)
                   /\ p \in [at : ProducerPlaces, i : 0..Count, end : Ends \cup {Pending}] =>
                     (producer'.at = "finish" => producer'.end = Complete(Count))
      BY DEF NextTurn
    <3>2. CASE PushPause
      BY <3>1, <3>2 DEF PushPause, TransferOK
    <3>3. CASE Deliver
      <4> DEFINE chunk == [seq |-> producer.i, size |-> 1]
                 sent  == [producer EXCEPT !.i = @ + 1]
      <4>1. /\ sent \in [at : ProducerPlaces, i : 0..Count, end : Ends \cup {Pending}]
            /\ producer.at = "deliver"
        BY <3>3 DEF Deliver, ProducerOK, TransferOK
      <4>2. Refusal(chunk) = "StreamOverflow"
        BY <4>1 DEF CountInv, Progress, Over, Refusal, InSequence, TypesInv, TransferOK
      <4>3. \/ producer' = NextTurn(sent) \/ producer' = [sent EXCEPT !.at = "pause"]
            \/ EndWith(Failed(Refusal(chunk)))
        BY <3>3 DEF Deliver
      <4>. HIDE DEF sent, chunk
      <4>4. CASE producer' = [sent EXCEPT !.at = "pause"]
        BY <4>1, <4>4
      <4>5. CASE EndWith(Failed(Refusal(chunk)))
        BY <4>2, <4>5, ProducerSays
      <4>. QED BY <3>1, <4>1, <4>3, <4>4, <4>5
    <3>. QED BY <1>4, <3>2, <3>3
  <2>3. HasItsCause(terminal)' /\ HasItsCause(outcome)'
    BY <1>0, <2>1, CausesStay DEF CauseInv, HasItsCause
  <2>4. producer'.at = "finish" => HasItsCause(producer.end)'
    BY <2>2 DEF HasItsCause, Complete, Failed
  <2>. QED BY <2>3, <2>4 DEF CauseInv
<1>5. CASE WaitWhilePaused \/ Sleep \/ SpuriousWake \/ NotifyResume \/ NotifyCancel
  <2>1. UNCHANGED <<terminal, outcome>>
    BY <1>5 DEF WaitWhilePaused, Sleep, SpuriousWake, NotifyResume, NotifyCancel, bodyVars
  <2>2. producer'.at = "finish" => producer'.at = producer.at /\ producer'.end = producer.end
    BY <1>5, ProducerSays DEF WaitWhilePaused, Sleep, SpuriousWake, NotifyResume, NotifyCancel, NotifyAll
  <2>. QED BY <1>0, <2>1, <2>2, CauseStands
<1>6. CASE SetSignals \/ DrainStep \/ PushResume \/ Look \/ GiveUp \/ Cancel
  <2>1. UNCHANGED <<producer, terminal, outcome>>
    BY <1>6, StreamSays
    DEF SetSignals, DrainStep, PushResume, ResumePushed, Look, GiveUp, Cancel, bodyVars
  <2>. QED BY <1>0, <2>1, CauseStands
<1>. QED
  BY <1>1, <1>2, <1>3, <1>4, <1>5, <1>6 DEF StreamNext, Producer, Driver

-----------------------------------------------------------------------------
(* A success is whole. *)

\* A success handed to the core is of the whole body.
Declared(end) == end.error = "none" => end.total = Count \/ RefusedRedirectLeaks

\* What a file the delegate is done with came to.
Persisted == file.dest = "whole" \/ file.failed \/ network = "refused"

\* What a buffered success found.
Delivered ==
  \/ request.sink = "File" /\ file.dest = "whole" /\ producer.at = "done"
  \/ request.sink = "Memory" /\ terminal.total = Count
  \/ FailureIsMasked

\* A stream's terminal is what the gate made of a declared end; a buffered one
\* is given when the sink is done.
SuccessInv ==
  /\ Streaming => terminal \in {Pending, outcome} /\ Declared(outcome)
  /\ producer.at = "finish" => Declared(producer.end)
  /\ producer.at = "complete" => request.sink = "File" /\ Persisted
  /\ ~Streaming /\ terminal.error = "none" => Delivered

\* Neither excuse is ever taken back.
LEMMA ExcusesStay ==
  ASSUME Onwards, TypesInv
  PROVE  /\ RefusedRedirectLeaks => RefusedRedirectLeaks'
         /\ FailureIsMasked => FailureIsMasked'
  BY DEF Onwards, TypesInv, RefusedRedirectLeaks, FailureIsMasked, On, Streaming

\* A step that gives no terminal.
LEMMA SuccessStands ==
  ASSUME SuccessInv, TypesInv, Onwards, UNCHANGED <<terminal, outcome>>,
         producer.at = "done" => producer'.at = "done" /\ UNCHANGED file,
         producer'.at = "finish" =>
           \/ producer.at = "finish" /\ producer'.end = producer.end
           \/ producer'.end.error = "none" => producer'.end.total = Count \/ RefusedRedirectLeaks,
         producer'.at = "complete" =>
           \/ producer.at = "complete" /\ UNCHANGED file
           \/ request.sink = "File" /\ Persisted'
  PROVE  SuccessInv'
<1>1. UNCHANGED request /\ (network = "refused" => network' = "refused")
  BY DEF Onwards
<1>2. Streaming' = Streaming
  BY <1>1 DEF Streaming
<1>3. Streaming => terminal' \in {Pending, outcome'} /\ Declared(outcome)'
  BY ExcusesStay DEF SuccessInv, Declared
<1>4. producer'.at = "finish" => Declared(producer.end)'
  BY ExcusesStay DEF SuccessInv, Declared
<1>5. producer'.at = "complete" => request'.sink = "File" /\ Persisted'
  BY <1>1 DEF SuccessInv, Persisted
<1>6. ~Streaming /\ terminal'.error = "none" => Delivered'
  BY <1>1, ExcusesStay DEF SuccessInv, Delivered
<1>. QED BY <1>2, <1>3, <1>4, <1>5, <1>6 DEF SuccessInv

\* A step that gives the terminal, or hands the end to the core.
LEMMA SuccessOfEnd ==
  ASSUME TransferOK, SuccessInv, TypesInv, Onwards, UNCHANGED outcome, producer.at # "done",
         NEW end, NEW keeps,
         \/ EndsWith(end) \/ EndsUnlessSkipped(end, keeps)
         \/ CompleteWith(end) /\ ~Streaming,
         Streaming /\ end.error = "none" => end.total = Count \/ RefusedRedirectLeaks,
         ~Streaming /\ end.error = "none" =>
           \/ request.sink = "File" /\ file'.dest = "whole"
           \/ request.sink = "Memory" /\ end.total = Count
           \/ FailureIsMasked
  PROVE  SuccessInv'
<1>0. UNCHANGED request
  BY DEF Onwards
<1>1. CASE Streaming
  <2>1. \/ producer'.at = "finish" /\ producer'.end = end /\ UNCHANGED terminal
        \/ producer'.at = "done" /\ UNCHANGED terminal
    BY <1>1, EndsSay
  <2>. QED BY <1>1, <2>1, SuccessStands
<1>2. CASE ~Streaming
  <2>1. producer'.at = "done" /\ terminal' = end
    BY <1>2, EndsSay, ProducerSays DEF CompleteWith
  <2>2. end.error = "none" => Delivered'
    BY <1>0, <1>2, <2>1, ExcusesStay DEF Delivered
  <2>. QED BY <1>0, <1>2, <2>1, <2>2 DEF SuccessInv, Streaming
<1>. QED BY <1>1, <1>2

\* An end with an error is no success.
LEMMA ErrorsAreNoSuccess ==
  \A key \in Errors : Failed(key).error # "none"
  BY DEF Errors, Failed

\* A read ends in no success.
LEMMA SuccessOfRead ==
  ASSUME CountInv, TransferOK, BodyTypeOK, Streaming, producer.at # "finish", producer.at \notin Over,
         SuccessInv, Onwards, TypesInv, UNCHANGED terminal,
         NEW again \in {"turn", "body"}, DeliverRead(again)
  PROVE  SuccessInv'
<1>1. UNCHANGED outcome
  BY ReadSays, StreamSays DEF bodyVars
<1>2. producer'.at = "finish" => producer'.end.error # "none"
  BY RefusedForRoom DEF Failed
<1>3. producer'.at \in {"turn", "body", "pause", "finish"} /\ producer.at # "done"
  BY ReadSays DEF Over
<1>. QED BY <1>1, <1>2, <1>3, SuccessStands

\* A body that ended, but for a refused redirect's, came whole.
LEMMA SuccessOfBody ==
  ASSUME TransferOK, BodyEnded, TypesInv, Streaming,
         network = "refused" => On("Apple")
  PROVE  Complete(producer.i).total = Count \/ RefusedRedirectLeaks
  BY DEF BodyEnded, Complete, RefusedRedirectLeaks

\* reqwest's task gives a success after the last chunk, the buffered body or
\* the rename.
LEMMA LinuxSuccess ==
  ASSUME TransferOK, TypesInv, FactsInv, BodyTypeOK, CountInv, SuccessInv,
         On("Linux"), LinuxNext, ~SharedStep
  PROVE  SuccessInv'
<1> USE DEF UnchangedByTask, nativeVars
<1>0. Onwards
  BY LinuxFacts
<1>1. CASE LinuxInterrupted
  <2>1. PICK end : end = Failed(Interrupt)
    OBVIOUS
  <2>2. end.error # "none" /\ producer.at # "done" /\ UNCHANGED outcome /\ EndsWith(end)
    BY <1>1, <2>1 DEF LinuxInterrupted, Interrupt, Failed, Awaits, bodyVars
  <2>. QED BY <1>0, <2>2, SuccessOfEnd
<1>2. CASE LinuxFollow
  <2>1. UNCHANGED outcome /\ producer.at = "head"
    BY <1>2 DEF LinuxFollow, Await, bodyVars
  <2>2. \/ /\ UNCHANGED terminal /\ producer'.at \in {"head", "turn", "create", "read"}
        \/ \E key \in Errors : EndsWith(Failed(key))
    BY <1>2, ProducerSays DEF LinuxFollow, AfterHead, Await, Errors
  <2>3. CASE UNCHANGED terminal /\ producer'.at \in {"head", "turn", "create", "read"}
    BY <1>0, <2>1, <2>3, SuccessStands
  <2>4. CASE \E key \in Errors : EndsWith(Failed(key))
    BY <1>0, <2>1, <2>4, ErrorsAreNoSuccess, SuccessOfEnd
  <2>. QED BY <2>2, <2>3, <2>4
<1>3. CASE LinuxRead
  <2>1. producer.at = "read" /\ Streaming
    BY <1>3 DEF LinuxRead, Await
  <2>2. CASE DeliverRead("turn") /\ UNCHANGED terminal
    BY <1>0, <2>1, <2>2, SuccessOfRead DEF Over
  <2>3. CASE BodyEnded /\ UNCHANGED bodyVars /\ EndsUnlessSkipped(Complete(producer.i), FALSE)
    <3>1. PICK end : end = Complete(producer.i)
      OBVIOUS
    <3>2. network # "refused"
      BY <2>1 DEF FactsInv, NetworkInv, On, Over
    <3>3. end.total = Count \/ RefusedRedirectLeaks
      BY <2>1, <2>3, <3>1, <3>2, SuccessOfBody
    <3>. QED BY <1>0, <2>1, <2>3, <3>1, <3>3, SuccessOfEnd DEF bodyVars
  <2>4. CASE UNCHANGED bodyVars /\ EndsWith(Failed("Transport"))
    <3>1. Failed("Transport").error # "none"
      BY DEF Failed
    <3>. QED BY <1>0, <2>1, <2>4, <3>1, SuccessOfEnd DEF bodyVars
  <2>. QED BY <1>3, <2>2, <2>3, <2>4 DEF LinuxRead
<1>4. CASE LinuxBuffer
  <2>1. /\ UNCHANGED outcome /\ producer.at = "read" /\ request.sink = "Memory" /\ ~Streaming
        /\ CompleteWith(Complete(Count)) \/ CompleteWith(Failed("Transport"))
    BY <1>4 DEF LinuxBuffer, Await, bodyVars, Streaming
  <2>2. Complete(Count).total = Count /\ Failed("Transport").error # "none"
    BY DEF Complete, Failed
  <2>. QED BY <1>0, <2>1, <2>2, SuccessOfEnd
<1>5. CASE LinuxCreate \/ LinuxWrite \/ LinuxRename
  <2>1. /\ UNCHANGED outcome /\ producer.at \in {"create", "write", "rename"}
        /\ request.sink = "File" /\ ~Streaming
    BY <1>5 DEF LinuxCreate, LinuxWrite, LinuxRename, Await, bodyVars, Streaming, TypesInv
  <2>2. \/ UNCHANGED terminal /\ producer'.at \in {"write", "rename"}
        \/ CompleteWith(Failed("Io")) \/ CompleteWith(Failed("Transport"))
        \/ CompleteWith(Complete(Count)) /\ file'.dest = "whole"
    <3>1. CASE LinuxCreate \/ LinuxWrite
      BY <3>1, ProducerSays DEF LinuxCreate, LinuxWrite, FileFails
    <3>2. CASE LinuxRename
      <4>1. [file EXCEPT !.temp = FALSE, !.dest = "whole"].dest = "whole"
        BY FileParts DEF TypesInv
      <4>. QED BY <3>2, <4>1 DEF LinuxRename, FileFails
    <3>. QED BY <1>5, <3>1, <3>2
  <2>3. Failed("Io").error # "none" /\ Failed("Transport").error # "none"
    BY DEF Failed
  <2>4. CASE UNCHANGED terminal /\ producer'.at \in {"write", "rename"}
    BY <1>0, <2>1, <2>4, SuccessStands
  <2>. QED BY <1>0, <2>1, <2>2, <2>3, <2>4, SuccessOfEnd
<1>6. CASE LinuxTurn \/ LinuxRegister \/ LinuxRecheck \/ LinuxNotify
  <2>1. UNCHANGED <<terminal, outcome, file>> /\ producer'.end = producer.end
    BY <1>6, ProducerSays DEF LinuxTurn, LinuxRegister, LinuxRecheck, LinuxNotify, bodyVars
  <2>2. \/ producer'.at = producer.at
        \/ /\ producer.at # "done"
           /\ producer'.at \in {"turn", "register", "registered", "notified", "asleep", "read"}
    BY <1>6, ProducerSays DEF LinuxTurn, LinuxRegister, LinuxRecheck, LinuxNotify
  <2>. QED BY <1>0, <2>1, <2>2, SuccessStands
<1>7. CASE LinuxResume \/ LinuxDeadline \/ LinuxCancel
  BY <1>0, <1>7, SuccessStands
  DEF LinuxResume, ResumePushed, LinuxDeadline, LinuxCancel, streamVars, bodyVars
<1>. QED
  BY <1>1, <1>2, <1>3, <1>4, <1>5, <1>6, <1>7 DEF LinuxNext, LinuxTask, LinuxIO, LinuxDriver, SharedStep

\* URLSession's task succeeds without an error, unless a cause was recorded.
LEMMA AppleSuccess ==
  ASSUME TransferOK, TypesInv, FactsInv, BodyTypeOK, CountInv, SuccessInv,
         On("Apple"), AppleNext, ~SharedStep
  PROVE  SuccessInv'
<1> USE DEF UnchangedBySession, nativeVars
<1>0. Onwards
  BY AppleFacts
<1>1. CASE AppleHead \/ AppleDownloaded
  <2>1. UNCHANGED <<terminal, outcome>> /\ producer.at # "done" /\ producer'.at \in {"head", "body", "move"}
    BY <1>1, ProducerSays DEF AppleHead, AppleDownloaded, bodyVars
  <2>. QED BY <1>0, <2>1, SuccessStands
<1>2. CASE AppleReceive /\ Streaming
  BY <1>0, <1>2, SuccessOfRead DEF AppleReceive, Over
<1>3. CASE AppleReceive /\ ~Streaming
  <2>1. UNCHANGED <<terminal, outcome>> /\ producer.at # "done" /\ producer'.at \in {"body", "move"}
    BY <1>3 DEF AppleReceive, TransferOK, bodyVars
  <2>. QED BY <1>0, <2>1, SuccessStands
<1>4. CASE ApplePersist
  <2>1. /\ UNCHANGED <<terminal, outcome, network, request>>
        /\ producer.at \in {"move", "remove", "rename"} /\ request.sink = "File"
    BY <1>4 DEF ApplePersist, bodyVars, exchange, TypesInv
  <2>2. producer'.at \in {"remove", "rename", "complete"}
    BY <1>4, ProducerSays DEF ApplePersist, PersistFails
  <2>3. producer'.at = "complete" => Persisted'
    <3>1. CASE PersistFails
      BY <3>1 DEF PersistFails, Persisted
    <3>2. CASE producer.at = "rename" /\ file' = [file EXCEPT !.dest = Downloaded, !.temp = FALSE]
      <4>1. Downloaded \in {"redirect", "whole"}
        BY DEF Downloaded
      <4>2. file'.dest = Downloaded
        BY <3>2, <4>1, FileParts DEF TypesInv
      <4>. QED BY <2>1, <4>2 DEF Downloaded, Persisted
    <3>3. \/ PersistFails \/ producer'.at \in {"remove", "rename"}
          \/ producer.at = "rename" /\ file' = [file EXCEPT !.dest = Downloaded, !.temp = FALSE]
      BY <1>4, ProducerSays DEF ApplePersist
    <3>. QED BY <3>1, <3>2, <3>3
  <2>. QED BY <1>0, <2>1, <2>2, <2>3, SuccessStands
<1>5. ASSUME NEW error \in {"none", "cancelled", "broken", "timedOut", "exhausted"}, AppleComplete(error),
             producer.at \in {"head", "body", "complete"}, error = "none" => AwaitsCompletion
      PROVE  SuccessInv'
  <2>1. UNCHANGED <<outcome, file>>
    BY <1>5 DEF AppleComplete, bodyVars
  <2>2. /\ \A key \in {"Timeout", "Cancelled", "InsecureRedirect", "Io", MapError(error)} :
             Failed(key).error # "none"
        /\ Complete(producer.i).total = producer.i
    BY DEF MapError, Failed, Complete
  <2>3. CASE Streaming
    <3>1. PICK end : end = StreamEnd(error)
      OBVIOUS
    <3>2. end.error = "none" => error = "none" /\ end = Complete(producer.i)
      BY <2>2, <3>1 DEF StreamEnd
    <3>3. error = "none" => BodyEnded
      BY <1>5, <2>3 DEF AwaitsCompletion, SuccessInv, Streaming
    <3>4. end.error = "none" => end.total = Count \/ RefusedRedirectLeaks
      BY <2>3, <3>2, <3>3, SuccessOfBody
    <3>5. EndsUnlessSkipped(end, TRUE)
      BY <1>5, <2>3, <3>1 DEF AppleComplete
    <3>. QED BY <1>0, <1>5, <2>1, <2>3, <3>4, <3>5, SuccessOfEnd
  <2>4. CASE ~Streaming
    <3>1. PICK end : end = BufferedEnd(error)
      OBVIOUS
    <3>2. end.error = "none" =>
            /\ error = "none" /\ end = Complete(producer.i)
            /\ cause # "insecureRedirect" /\ cause # "ioFailure"
      BY <2>2, <3>1 DEF BufferedEnd
    <3>3. end.error = "none" /\ (file.failed \/ network = "refused") => FailureIsMasked
      BY <3>2 DEF FactsInv, AppleInv, TypesInv, Causes, FailureIsMasked
    <3>4. error = "none" =>
            \/ request.sink = "File" /\ Persisted
            \/ request.sink = "Memory" /\ (producer.i = Count \/ network = "refused")
      BY <1>5, <2>4 DEF AwaitsCompletion, SuccessInv, BodyEnded, TypesInv, Sinks, Streaming
    <3>5. end.error = "none" =>
            \/ request.sink = "File" /\ file'.dest = "whole"
            \/ request.sink = "Memory" /\ end.total = Count
            \/ FailureIsMasked
      BY <2>1, <2>2, <3>2, <3>3, <3>4 DEF Persisted
    <3>6. CompleteWith(end)
      BY <1>5, <2>4, <3>1 DEF AppleComplete
    <3>. QED BY <1>0, <1>5, <2>1, <2>4, <3>5, <3>6, SuccessOfEnd
  <2>. QED BY <2>3, <2>4
<1>6. CASE AppleCompletes \/ AppleBreaks
  BY <1>5, <1>6 DEF AppleCompletes, AppleBreaks, AwaitsCompletion
<1>7. CASE AppleResume \/ AppleCancel \/ AppleDeadline \/ AppleStop
  BY <1>0, <1>7, SuccessStands
  DEF AppleResume, ResumePushed, AppleCancel, AppleDeadline, AppleStop, streamVars, bodyVars
<1>. QED
  BY <1>1, <1>2, <1>3, <1>4, <1>6, <1>7 DEF AppleNext, AppleQueue, AppleIO, AppleDriver, SharedStep

\* OkHttp's call gives a success after the last chunk, the buffered body or
\* the rename.
LEMMA AndroidSuccess ==
  ASSUME TransferOK, TypesInv, FactsInv, BodyTypeOK, CountInv, SuccessInv,
         On("Android"), AndroidNext, ~SharedStep
  PROVE  SuccessInv'
<1> USE DEF UnchangedByCall, nativeVars
<1>0. Onwards /\ Failed(Classify).error # "none" /\ Failed(ClassifyExhausted).error # "none"
  BY AndroidFacts DEF Failed, Classify, InterruptedIO, ClassifyExhausted
<1>1. CASE AndroidTurn \/ AndroidHeld \/ AndroidWait
  <2>1. /\ UNCHANGED <<terminal, outcome>> /\ producer.at # "done"
        /\ producer'.at \in {"held", "read", "lost", "toSleep", "asleep"}
    BY <1>1, ProducerSays DEF AndroidTurn, AndroidHeld, AndroidWait, bodyVars
  <2>. QED BY <1>0, <2>1, SuccessStands
<1>2. CASE AndroidHead
  <2>1. UNCHANGED outcome /\ producer.at = "head"
    BY <1>2 DEF AndroidHead, bodyVars
  <2>2. \/ UNCHANGED terminal /\ producer'.at \in {"head", "turn", "write", "read"}
        \/ EndsWith(Failed(ClassifyExhausted)) \/ EndsWith(Failed("InsecureRedirect"))
        \/ EndsWith(Failed(Classify))
    BY <1>2, ProducerSays DEF AndroidHead
  <2>3. Failed("InsecureRedirect").error # "none"
    BY DEF Failed
  <2>4. CASE UNCHANGED terminal /\ producer'.at \in {"head", "turn", "write", "read"}
    BY <1>0, <2>1, <2>4, SuccessStands
  <2>. QED BY <1>0, <2>1, <2>2, <2>3, <2>4, SuccessOfEnd
<1>3. CASE AndroidRead
  <2>1. producer.at = "read" /\ Streaming
    BY <1>3 DEF AndroidRead
  <2>2. CASE DeliverRead("turn") /\ UNCHANGED terminal
    BY <1>0, <2>1, <2>2, SuccessOfRead DEF Over
  <2>3. CASE BodyEnded /\ UNCHANGED bodyVars /\ EndsUnlessSkipped(Complete(producer.i), TRUE)
    <3>1. PICK end : end = Complete(producer.i)
      OBVIOUS
    <3>2. network # "refused"
      BY <2>1 DEF FactsInv, NetworkInv, On, Over
    <3>3. end.total = Count \/ RefusedRedirectLeaks
      BY <2>1, <2>3, <3>1, <3>2, SuccessOfBody
    <3>. QED BY <1>0, <2>1, <2>3, <3>1, <3>3, SuccessOfEnd DEF bodyVars
  <2>4. CASE UNCHANGED bodyVars /\ EndsWith(Failed(Classify))
    BY <1>0, <2>1, <2>4, SuccessOfEnd DEF bodyVars
  <2>. QED BY <1>3, <2>2, <2>3, <2>4 DEF AndroidRead
<1>4. CASE AndroidBuffer
  <2>1. /\ UNCHANGED outcome /\ producer.at = "read" /\ request.sink = "Memory" /\ ~Streaming
        /\ CompleteWith(Complete(Count)) \/ CompleteWith(Failed(Classify))
    BY <1>4 DEF AndroidBuffer, bodyVars, Streaming
  <2>2. Complete(Count).total = Count
    BY DEF Complete
  <2>. QED BY <1>0, <2>1, <2>2, SuccessOfEnd
<1>5. CASE AndroidSink
  <2>1. /\ UNCHANGED outcome /\ producer.at \in {"write", "remove", "rename"}
        /\ request.sink = "File" /\ ~Streaming
    BY <1>5 DEF AndroidSink, bodyVars, Streaming, TypesInv
  <2>2. [file EXCEPT !.dest = "whole", !.temp = FALSE].dest = "whole" /\ Failed("Io").error # "none"
    BY FileParts DEF Failed, TypesInv
  <2>3. \/ UNCHANGED terminal /\ producer'.at \in {"remove", "rename"}
        \/ CompleteWith(Failed("Io"))
        \/ CompleteWith(Complete(Count)) /\ file'.dest = "whole"
    <3>1. CASE producer.at \in {"write", "remove"}
      BY <1>5, <3>1, ProducerSays DEF AndroidSink, SinkFails
    <3>2. CASE producer.at = "rename"
      BY <1>5, <2>2, <3>2 DEF AndroidSink, SinkFails
    <3>. QED BY <2>1, <3>1, <3>2
  <2>4. CASE UNCHANGED terminal /\ producer'.at \in {"remove", "rename"}
    BY <1>0, <2>1, <2>4, SuccessStands
  <2>. QED BY <1>0, <2>1, <2>2, <2>3, <2>4, SuccessOfEnd
<1>6. CASE AndroidCancel \/ AndroidDeadline \/ AndroidResume
  <2>1. UNCHANGED <<terminal, outcome, file>> /\ (Woken \/ UNCHANGED producer)
    BY <1>6 DEF AndroidCancel, AndroidDeadline, AndroidResume, ResumePushed, streamVars, bodyVars
  <2>2. \/ producer'.at = producer.at /\ producer'.end = producer.end
        \/ producer.at = "asleep" /\ producer'.at = "turn"
    BY <2>1, ProducerSays DEF Woken
  <2>. QED BY <1>0, <2>1, <2>2, SuccessStands
<1>. QED
  BY <1>1, <1>2, <1>3, <1>4, <1>5, <1>6
  DEF AndroidNext, AndroidThread, AndroidIO, AndroidDriver, SharedStep

\* The gate only ever turns a success into a failure.
LEMMA SuccessOfFinish ==
  ASSUME TransferOK, BodyTypeOK, BodyInv, TypesInv, Onwards, SuccessInv, Streaming, FinishBody
  PROVE  SuccessInv'
<1>1. UNCHANGED terminal /\ outcome' = Gate(producer.end) /\ producer'.at = "record"
  BY ProducerSays, StreamSays DEF FinishBody
<1>2. terminal = Pending
  BY DEF BodyInv, SuccessInv, FinishBody, Finish
<1>3. Declared(outcome)'
  BY <1>1, ExcusesStay DEF SuccessInv, Declared, Gate, Failed, FinishBody
<1>4. Streaming'
  BY DEF Onwards, Streaming
<1>. QED BY <1>1, <1>2, <1>3, <1>4 DEF SuccessInv

\* The terminal of a stream is recorded from the gate.
LEMMA SuccessOfRecord ==
  ASSUME TypesInv, Onwards, SuccessInv, Streaming, terminal' = outcome, UNCHANGED outcome,
         producer'.at \in Over
  PROVE  SuccessInv'
<1>1. Streaming' /\ Declared(outcome)'
  BY ExcusesStay DEF Onwards, Streaming, SuccessInv, Declared
<1>. QED BY <1>1 DEF SuccessInv, Over

\* The steps every platform shares give no success that was not declared.
LEMMA SharedSuccess ==
  ASSUME TransferOK, TypesInv, FactsInv, BodyInv, BodyTypeOK, CountInv, SuccessInv, SharedStep
  PROVE  SuccessInv'
<1> USE DEF nativeVars
<1>0. Onwards
  BY SharedFacts
<1>1. CASE CloseSink
  BY <1>0, <1>1, SuccessOfFinish DEF CloseSink, FinishBody, TypesInv
<1>2. CASE RecordEnd
  BY <1>0, <1>2, ProducerSays, SuccessOfRecord DEF RecordEnd, bodyVars, TypesInv, Over
<1>3. CASE StopReading
  BY <1>0, <1>3, ProducerSays, SuccessStands DEF StopReading, bodyVars
<1>4. CASE NativePause("turn") \/ NativePause("body")
  BY <1>0, <1>4, ProducerSays, SuccessStands DEF NativePause, PausePushed, bodyVars
<1>5. CASE NativeDriver \/ NativeGiveUp
  <2>1. UNCHANGED <<producer, terminal, outcome, file>>
    BY <1>5, StreamSays
    DEF NativeDriver, NativeGiveUp, GiveUp, Returned, SetSignals, DrainStep, Look, bodyVars
  <2>. QED BY <1>0, <2>1, SuccessStands
<1>. QED BY <1>1, <1>2, <1>3, <1>4, <1>5 DEF SharedStep

\* The mock declares the whole count, whatever its fault.
LEMMA MockSuccess ==
  ASSUME TransferOK, TypesInv, FactsInv, BodyInv, BodyTypeOK, CountInv, SuccessInv,
         On("Mock"), StreamNext, UNCHANGED nativeVars
  PROVE  SuccessInv'
<1>0. Onwards /\ Streaming /\ UNCHANGED file
  BY MockFacts DEF TypesInv, nativeVars
<1>1. CASE FinishBody
  BY <1>0, <1>1, SuccessOfFinish
<1>2. CASE RecordTerminal
  BY <1>0, <1>2, ProducerSays, SuccessOfRecord DEF RecordTerminal, bodyVars, Over
<1>a. Complete(Count).total = Count /\ \A chunk : Failed(Refusal(chunk)).error # "none"
  BY DEF Complete, Failed, Refusal
<1>b. \A p : producer' = NextTurn(p)
               /\ p \in [at : ProducerPlaces, i : 0..Count, end : Ends \cup {Pending}] =>
                 /\ producer'.at \in {"wait", "done", "finish"}
                 /\ producer'.at = "finish" => producer'.end = Complete(Count)
  BY DEF NextTurn
<1>3. CASE CheckCancelled
  <2>1. UNCHANGED <<terminal, outcome>> /\ producer.at = "check"
    BY <1>3 DEF CheckCancelled, bodyVars
  <2>2. \/ producer'.at = "deliver"
        \/ producer'.at = "finish" /\ producer'.end = Failed("Cancelled")
        \/ producer'.at = "finish" /\ producer'.end = Complete(Count)
    BY <1>3, ProducerSays DEF CheckCancelled
  <2>3. Failed("Cancelled").error # "none"
    BY DEF Failed
  <2>. QED BY <1>0, <1>a, <2>1, <2>2, <2>3, SuccessStands
<1>4. CASE Deliver
  <2> DEFINE chunk == [seq |-> producer.i, size |-> 1]
             sent  == [producer EXCEPT !.i = @ + 1]
  <2>1. /\ sent \in [at : ProducerPlaces, i : 0..Count, end : Ends \cup {Pending}]
        /\ producer.at = "deliver" /\ UNCHANGED <<terminal, outcome>>
    BY <1>4, StreamSays DEF Deliver, ProducerOK, TransferOK, bodyVars
  <2>2. \/ producer' = NextTurn(sent) \/ producer' = [sent EXCEPT !.at = "pause"]
        \/ EndWith(Failed(Refusal(chunk)))
    BY <1>4 DEF Deliver
  <2>. HIDE DEF sent, chunk
  <2>3. producer' = [sent EXCEPT !.at = "pause"] => producer'.at = "pause"
    BY <2>1
  <2>. QED BY <1>0, <1>a, <1>b, <2>1, <2>2, <2>3, ProducerSays, SuccessStands
<1>5. CASE PushPause
  <2>1. producer.at = "pause" /\ producer' = NextTurn(producer) /\ UNCHANGED <<terminal, outcome>>
    BY <1>5 DEF PushPause, PausePushed, bodyVars
  <2>. QED BY <1>0, <1>a, <1>b, <2>1, SuccessStands DEF TransferOK
<1>6. CASE WaitWhilePaused \/ Sleep \/ SpuriousWake \/ NotifyResume \/ NotifyCancel
  <2>1. UNCHANGED <<terminal, outcome>> /\ producer'.end = producer.end
    BY <1>6, ProducerSays
    DEF WaitWhilePaused, Sleep, SpuriousWake, NotifyResume, NotifyCancel, NotifyAll, bodyVars
  <2>2. \/ producer'.at = producer.at
        \/ /\ producer.at \in {"wait", "toSleep", "asleep"}
           /\ producer'.at \in {"toSleep", "asleep", "wait", "check"}
    BY <1>6, ProducerSays DEF WaitWhilePaused, Sleep, SpuriousWake, NotifyResume, NotifyCancel, NotifyAll
  <2>. QED BY <1>0, <2>1, <2>2, SuccessStands
<1>7. CASE SetSignals \/ DrainStep \/ PushResume \/ Look \/ GiveUp \/ Cancel
  <2>1. UNCHANGED <<producer, terminal, outcome>>
    BY <1>7, StreamSays
    DEF SetSignals, DrainStep, PushResume, ResumePushed, Look, GiveUp, Cancel, bodyVars
  <2>. QED BY <1>0, <2>1, SuccessStands
<1>. QED
  BY <1>1, <1>2, <1>3, <1>4, <1>5, <1>6, <1>7 DEF StreamNext, Producer, Driver

-----------------------------------------------------------------------------
(* Back-pressure keeps the ring from overflowing. *)

\* What an overflow may be blamed on.
Excused ==
  \/ fault = "IgnorePause" \/ pauseLost
  \/ On("Android") /\ cancel = "done"
  \/ On("Apple")

Excusable(end) == end.error = "StreamOverflow" => Excused

\* An adapter reads only while it is not paused. A Resume may lift the Pause
\* of a chunk that came after the drain, so the ring may hold one chunk more
\* than the mark; a lost Pause or one that is ignored is excused.
Paced ==
  /\ producer.at \in {"read", "deliver"} => ~paused
  /\ producer.at = "check" => ~paused \/ Cancelled
  /\ ~paused /\ producer.at # "pause" =>
       /\ Len(stream.ring) <= High
       /\ driver.at = "resume" => Len(stream.ring) < High
  /\ Len(stream.ring) <= High + 1
  /\ driver.at = "resume" => Len(stream.ring) <= High

PacedInv == Streaming /\ ~Excused => Paced

\* An overflow that was declared, gated or recorded is excused.
OverflowInv ==
  /\ Excusable(terminal) /\ Excusable(outcome)
  /\ producer.at = "finish" => Excusable(producer.end)

\* The mark is below the capacity and, but for a ring of one, above zero.
LEMMA HighSays ==
  ASSUME Capacity > 1
  PROVE  High \in Nat /\ 0 < High /\ High < Capacity
  BY DEF High

\* No step takes an excuse back.
LEMMA ExcusedStays ==
  ASSUME Onwards
  PROVE  /\ Excused => Excused'
         /\ Streaming' = Streaming
         /\ \A end : Excusable(end) => (end.error = "StreamOverflow" => Excused')
  BY DEF Onwards, Excused, Excusable, On, Streaming

DriverOK == driver \in DriverType

\* What the driver's steps do to its place.
LEMMA DriverSays ==
  ASSUME DriverOK
  PROVE  \A at : Drive(at) => driver'.at = at /\ driver'.last = driver.last
  BY DEF DriverOK, DriverType, Drive

\* Only the driver's own steps, and what wakes the adapter, move the driver.
LEMMA DriverKeeps ==
  ASSUME DriverOK, [TransfersNext]_transferVars
  PROVE  DriverOK'
<1> USE DEF nativeVars
<1>a. /\ \A at \in {"drain", "resume", "notify", "look", "done"} : Drive(at) => DriverOK'
      /\ AfterStep \in {"look", "done"}
      /\ UNCHANGED driver => DriverOK'
  BY DEF DriverOK, DriverType, Drive, AfterStep
<1>b. CASE Look \/ GiveUp
  <2>1. PICK last \in BOOLEAN : driver' = [at |-> "drain", last |-> last]
    BY <1>b, Zenon DEF Look, GiveUp
  <2>. QED BY <2>1 DEF DriverOK, DriverType
<1>c. CASE DrainStep
  <2>1. Drive("resume") \/ Drive(AfterStep)
    BY <1>c DEF DrainStep, ResumeDue
  <2>. QED BY <1>a, <2>1
<1>d. CASE SetSignals \/ Returned
  BY <1>a, <1>d DEF SetSignals, Returned
<1>1. CASE NativeDriver \/ NativeGiveUp
  BY <1>b, <1>c, <1>d, <1>1 DEF NativeDriver, NativeGiveUp
<1>2. CASE CloseSink \/ RecordEnd \/ StopReading \/ NativePause("turn") \/ NativePause("body")
  BY <1>2, <1>a DEF CloseSink, FinishBody, RecordEnd, StopReading, NativePause, PausePushed
<1>3. CASE StreamNext
  BY <1>3, <1>a, <1>b, <1>c, <1>d
  DEF StreamNext, Producer, Driver, WaitWhilePaused, Sleep, SpuriousWake, CheckCancelled, Deliver,
      PushPause, PausePushed, FinishBody, RecordTerminal, PushResume,
      ResumePushed, NotifyResume, Cancel, NotifyCancel
<1>4. CASE LinuxNext
  BY <1>a, <1>1, <1>2, <1>4
  DEF LinuxNext, LinuxTask, LinuxIO, LinuxDriver, LinuxInterrupted, LinuxTurn, UnchangedByTask,
      LinuxRegister, LinuxRecheck, LinuxFollow, LinuxRead, LinuxBuffer, LinuxCreate, LinuxWrite,
      LinuxRename, LinuxResume, ResumePushed, LinuxNotify, LinuxDeadline, LinuxCancel, streamVars
<1>5. CASE AppleNext
  BY <1>a, <1>1, <1>2, <1>5
  DEF AppleNext, AppleQueue, AppleIO, AppleDriver, UnchangedBySession, AppleHead, AppleReceive,
      AppleDownloaded, ApplePersist, AppleCompletes, AppleBreaks, AppleComplete, AppleResume,
      ResumePushed, AppleCancel, AppleDeadline, AppleStop, streamVars
<1>6. CASE AndroidNext
  BY <1>a, <1>1, <1>2, <1>6
  DEF AndroidNext, AndroidThread, AndroidIO, AndroidDriver, UnchangedByCall, AndroidTurn, AndroidHeld,
      AndroidWait, AndroidHead, AndroidRead, AndroidBuffer, AndroidSink, AndroidCancel,
      AndroidDeadline, AndroidResume, ResumePushed, streamVars
<1>7. CASE UNCHANGED transferVars
  BY <1>a, <1>7 DEF transferVars, streamVars
<1>. QED BY <1>3, <1>4, <1>5, <1>6, <1>7 DEF TransfersNext

\* A step that leaves the ring, the Pause and the Resume alone.
LEMMA PacedStands ==
  ASSUME PacedInv, Onwards, UNCHANGED <<stream, paused>>,
         driver'.at = "resume" <=> driver.at = "resume",
         producer.at = "pause" => producer'.at = "pause",
         producer'.at \in {"read", "deliver", "check"} =>
           \/ producer'.at = producer.at
           \/ ~paused \/ Excused \/ ~Streaming
           \/ producer'.at = "check" /\ Cancelled
  PROVE  PacedInv'
<1>1. SUFFICES ASSUME Streaming', ~Excused'
               PROVE  Paced'
  BY DEF PacedInv
<1>2. Streaming /\ ~Excused /\ Paced
  BY <1>1, ExcusedStays DEF PacedInv
<1>3. Cancelled => Cancelled'
  BY DEF Onwards, Cancelled
<1>. QED BY <1>2, <1>3 DEF Paced

\* A stream that is paced has room for the chunk it reads.
LEMMA PacedHasRoom ==
  ASSUME Capacity > 1, BodyTypeOK, PacedInv, Streaming, ~Excused,
         producer.at \in {"read", "deliver"}
  PROVE  /\ HasRoom /\ ~paused
         /\ Len(stream.ring) <= High
         /\ driver.at = "resume" => Len(stream.ring) < High
<1>1. ~paused /\ Len(stream.ring) <= High /\ (driver.at = "resume" => Len(stream.ring) < High)
  BY DEF PacedInv, Paced
<1>. QED BY <1>1, HighSays DEF HasRoom, BodyTypeOK, StreamType

\* A chunk that brings the ring to the mark is followed by a Pause.
LEMMA PacedDeliver ==
  ASSUME Capacity > 1, BodyTypeOK, PacedInv, Onwards, UNCHANGED <<paused, driver>>,
         producer.at \in {"read", "deliver"},
         NEW chunk, DeliverChunk(chunk),
         PauseDue => producer'.at = "pause",
         producer'.at \notin {"read", "deliver", "check"}
  PROVE  PacedInv'
<1>1. SUFFICES ASSUME Streaming', ~Excused'
               PROVE  Paced'
  BY DEF PacedInv
<1>2. Streaming /\ ~Excused
  BY <1>1, ExcusedStays
<1>3. /\ Len(stream.ring) <= High /\ (driver.at = "resume" => Len(stream.ring) < High)
  BY <1>2, PacedHasRoom
<1>4. stream'.ring = Append(stream.ring, chunk)
  BY StreamSays
<1>5. Len(stream'.ring) = Len(stream.ring) + 1 /\ Len(stream.ring) \in Nat
  BY <1>4 DEF BodyTypeOK, StreamType
<1>6. producer'.at # "pause" => Len(stream'.ring) < High
  BY <1>5, HighSays DEF PauseDue
<1>. QED BY <1>3, <1>5, <1>6, HighSays DEF Paced

\* A read of a stream: dropped, delivered, or refused.
LEMMA PacedRead ==
  ASSUME Capacity > 1, TransferOK, BodyTypeOK, CountInv, PacedInv, OverflowInv, Onwards,
         Streaming, producer.at = "read", UNCHANGED <<paused, driver, terminal>>, DeliverRead("turn")
  PROVE  PacedInv' /\ OverflowInv'
<1>1. PacedInv'
  <2>1. CASE /\ DeliverChunk([seq |-> NextSeq, size |-> 1])
             /\ producer'.at = (IF PauseDue THEN "pause" ELSE "turn")
    BY <2>1, PacedDeliver
  <2>2. CASE UNCHANGED bodyVars /\ producer'.at \in {"turn", "finish"}
    BY <2>2, PacedStands DEF bodyVars
  <2>. QED BY <2>1, <2>2, ReadSays
<1>2. UNCHANGED outcome
  BY ReadSays, StreamSays DEF bodyVars
<1>3. producer'.at = "finish" => Excused
  <2>1. SUFFICES ASSUME ~Excused, producer'.at = "finish" PROVE FALSE
    OBVIOUS
  <2>2. HasRoom
    BY <2>1, PacedHasRoom
  <2>3. ~(fault = "DropChunk" /\ producer.i = 0) => stream.open /\ stream.next_seq = NextSeq
    BY DEF CountInv, Progress, NextSeq, TransferOK, Over
  <2>4. ~(fault = "DropChunk" /\ producer.i = 0) => Accepts([seq |-> NextSeq, size |-> 1])
    BY <2>2, <2>3 DEF Accepts, InSequence
  <2>. QED BY <2>1, <2>4, ReadSays
<1>4. OverflowInv'
  BY <1>2, <1>3, ExcusedStays DEF OverflowInv, Excusable
<1>. QED BY <1>1, <1>4

\* The Pause is stored, or lost.
LEMMA PacedPause ==
  ASSUME PacedInv, Onwards, PausePushed, producer.at = "pause",
         producer'.at \notin {"read", "deliver", "check"}
  PROVE  PacedInv'
<1>1. SUFFICES ASSUME Streaming', ~Excused'
               PROVE  Paced'
  BY DEF PacedInv
<1>2. Streaming /\ ~Excused /\ Paced
  BY <1>1, ExcusedStays DEF PacedInv
<1>3. paused' /\ UNCHANGED <<stream, driver>>
  BY <1>1 DEF PausePushed, Excused, bodyVars
<1>. QED BY <1>2, <1>3 DEF Paced

\* The drain empties the ring before the Resume.
LEMMA PacedDrain ==
  ASSUME Capacity > 1, BodyTypeOK, PacedInv, Onwards, Drain, UNCHANGED <<producer, paused>>
  PROVE  PacedInv'
<1>1. Len(stream'.ring) = 0
  BY StreamSays
<1>2. SUFFICES ASSUME Streaming', ~Excused'
               PROVE  Paced'
  BY DEF PacedInv
<1>3. Paced
  BY <1>2, ExcusedStays DEF PacedInv
<1>4. High \in Nat /\ 0 < High /\ UNCHANGED High
  BY HighSays DEF High
<1>5. Cancelled => Cancelled'
  BY DEF Onwards, Cancelled
<1>. QED BY <1>1, <1>3, <1>4, <1>5 DEF Paced

\* The Resume lifts the Pause over a ring at the mark at most.
LEMMA PacedResume ==
  ASSUME PacedInv, Onwards, driver.at = "resume", driver'.at # "resume", ~paused',
         UNCHANGED <<stream, cancel>>,
         \/ producer'.at = producer.at
         \/ producer.at = "asleep" /\ producer'.at = "turn"
  PROVE  PacedInv'
  BY ExcusedStays DEF PacedInv, Paced, Cancelled

\* The terminal empties the ring.
LEMMA PacedFinish ==
  ASSUME Capacity > 1, TransferOK, BodyTypeOK, PacedInv, OverflowInv, Onwards, FinishBody
  PROVE  PacedInv' /\ OverflowInv'
<1>1. /\ producer.at = "finish" /\ producer'.at = "record" /\ UNCHANGED <<terminal, paused, driver>>
      /\ outcome' = Gate(producer.end) /\ Len(stream'.ring) = 0
  BY ProducerSays, StreamSays DEF FinishBody, flowVars
<1>2. PacedInv'
  BY <1>1, HighSays, ExcusedStays DEF PacedInv, Paced
<1>3. OverflowInv'
  BY <1>1, ExcusedStays DEF OverflowInv, Excusable, Gate, Failed
<1>. QED BY <1>2, <1>3

\* A step that gives no terminal and begins no overflow.
LEMMA OverflowStands ==
  ASSUME OverflowInv, Onwards,
         \/ terminal' = terminal \/ terminal' = outcome \/ terminal'.error # "StreamOverflow",
         UNCHANGED outcome,
         producer'.at = "finish" =>
           \/ producer.at = "finish" /\ producer'.end = producer.end
           \/ producer'.end.error # "StreamOverflow"
  PROVE  OverflowInv'
  BY ExcusedStays DEF OverflowInv, Excusable

\* reqwest's task reads only when it found no Pause, and no select between
\* lets one in.
LEMMA LinuxPaced ==
  ASSUME Capacity > 1, TransferOK, TypesInv, FactsInv, BodyTypeOK, CountInv, DriverOK, PacedInv, OverflowInv,
         On("Linux"), LinuxNext, ~SharedStep
  PROVE  PacedInv' /\ OverflowInv'
<1> USE DEF UnchangedByTask, nativeVars
<1>0. Onwards /\ \A key \in Errors \ {"StreamOverflow"} : Failed(key).error # "StreamOverflow"
  BY LinuxFacts DEF Failed
<1>a. \A total : Complete(total).error # "StreamOverflow"
  BY DEF Complete
<1>1. CASE LinuxRead
  <2>1. producer.at = "read" /\ Streaming /\ UNCHANGED <<paused, driver>>
    BY <1>1 DEF LinuxRead, Await, flowVars
  <2>2. CASE DeliverRead("turn") /\ UNCHANGED terminal
    BY <1>0, <2>1, <2>2, PacedRead
  <2>3. CASE UNCHANGED bodyVars /\ EndsUnlessSkipped(Complete(producer.i), FALSE)
    <3>1. UNCHANGED <<terminal, stream, outcome>> /\ producer'.at \in {"finish", "done"}
          /\ (producer'.at = "finish" => producer'.end.error # "StreamOverflow")
      BY <1>a, <2>1, <2>3, EndsSay DEF bodyVars
    <3>. QED BY <1>0, <2>1, <3>1, PacedStands, OverflowStands
  <2>4. CASE UNCHANGED bodyVars /\ EndsWith(Failed("Transport"))
    <3>1. UNCHANGED <<terminal, stream, outcome>> /\ producer'.at = "finish"
          /\ producer'.end.error # "StreamOverflow"
      BY <1>0, <2>1, <2>4, EndsSay DEF bodyVars, Errors
    <3>. QED BY <1>0, <2>1, <3>1, PacedStands, OverflowStands
  <2>. QED BY <1>1, <2>2, <2>3, <2>4 DEF LinuxRead
<1>2. CASE LinuxInterrupted \/ LinuxFollow
  <2>1. /\ UNCHANGED <<stream, outcome, paused, driver>>
        /\ producer.at \in Awaits
        /\ \/ UNCHANGED <<producer, terminal>>
           \/ Go(AfterHead) /\ UNCHANGED terminal
           \/ \E key \in Errors \ {"StreamOverflow"} : EndsWith(Failed(key))
    BY <1>2 DEF LinuxInterrupted, LinuxFollow, Await, Awaits, Interrupt, Errors, bodyVars, flowVars
  <2>2. AfterHead \in {"turn", "create"} \/ (~Streaming /\ AfterHead = "read")
    BY DEF AfterHead
  <2>3. CASE UNCHANGED <<producer, terminal>> \/ (Go(AfterHead) /\ UNCHANGED terminal)
    BY <1>0, <2>1, <2>2, <2>3, ProducerSays, PacedStands, OverflowStands DEF Awaits
  <2>4. ASSUME NEW key \in Errors \ {"StreamOverflow"}, EndsWith(Failed(key))
        PROVE  PacedInv' /\ OverflowInv'
    <3>1. \/ /\ producer'.at = "finish" /\ producer'.end.error # "StreamOverflow"
             /\ UNCHANGED terminal
          \/ producer'.at = "done" /\ terminal'.error # "StreamOverflow"
      BY <1>0, <2>4, EndsSay
    <3>. QED BY <1>0, <2>1, <3>1, PacedStands, OverflowStands DEF Awaits
  <2>. QED BY <2>1, <2>3, <2>4
<1>3. CASE LinuxBuffer \/ LinuxCreate \/ LinuxWrite \/ LinuxRename
  <2>1. /\ producer.at \in {"read", "create", "write", "rename"} /\ producer'.at \in {"write", "rename", "done"}
        /\ UNCHANGED <<stream, outcome, paused, driver>>
    BY <1>3, ProducerSays
    DEF LinuxBuffer, LinuxCreate, LinuxWrite, LinuxRename, FileFails, CompleteWith, Await, bodyVars, flowVars
  <2>2. terminal' = terminal \/ terminal'.error # "StreamOverflow"
    BY <1>0, <1>3, <1>a
    DEF LinuxBuffer, LinuxCreate, LinuxWrite, LinuxRename, FileFails, CompleteWith, Errors
  <2>. QED BY <1>0, <2>1, <2>2, PacedStands, OverflowStands
<1>4. CASE LinuxTurn \/ LinuxRegister \/ LinuxRecheck
  <2>1. UNCHANGED <<stream, outcome, terminal, paused, driver>>
    BY <1>4 DEF LinuxTurn, LinuxRegister, LinuxRecheck, bodyVars, flowVars
  <2>2. /\ producer.at \in {"turn", "register", "registered", "notified"}
        /\ \/ producer'.at \in {"turn", "register", "registered", "asleep"}
           \/ producer'.at = "read" /\ ~paused
    BY <1>4, ProducerSays DEF LinuxTurn, LinuxRegister, LinuxRecheck
  <2>. QED BY <1>0, <2>1, <2>2, PacedStands, OverflowStands
<1>5. CASE LinuxNotify
  <2>1. /\ UNCHANGED <<stream, outcome, terminal, paused>> /\ producer'.end = producer.end
        /\ \/ producer'.at = producer.at
           \/ producer.at \in {"registered", "asleep"} /\ producer'.at \in {"notified", "turn"}
    BY <1>5, ProducerSays DEF LinuxNotify, bodyVars, flowVars
  <2>2. driver.at # "resume" /\ driver'.at # "resume"
    BY <1>5 DEF LinuxNotify, Drive, AfterStep
  <2>. QED BY <1>0, <2>1, <2>2, PacedStands, OverflowStands
<1>6. CASE LinuxResume
  <2>1. /\ UNCHANGED <<outcome, terminal, producer, stream, cancel>> /\ ~paused'
        /\ driver.at = "resume" /\ driver'.at # "resume"
    BY <1>6, DriverSays DEF LinuxResume, ResumePushed, bodyVars
  <2>. QED BY <1>0, <2>1, PacedResume, OverflowStands
<1>7. CASE LinuxDeadline \/ LinuxCancel
  <2>1. UNCHANGED <<stream, outcome, terminal, producer, paused, driver>>
    BY <1>7 DEF LinuxDeadline, LinuxCancel, streamVars, bodyVars, flowVars
  <2>. QED BY <1>0, <2>1, PacedStands, OverflowStands
<1>. QED
  BY <1>1, <1>2, <1>3, <1>4, <1>5, <1>6, <1>7 DEF LinuxNext, LinuxTask, LinuxIO, LinuxDriver, SharedStep

\* URLSession's suspend promises nothing, so nothing has to be paced.
LEMMA ApplePaced ==
  ASSUME TransferOK, TypesInv, FactsInv, PacedInv, OverflowInv, On("Apple"), AppleNext, ~SharedStep
  PROVE  PacedInv' /\ OverflowInv'
<1>1. Excused'
  BY AppleFacts DEF Onwards, Excused, On
<1>. QED BY <1>1 DEF PacedInv, OverflowInv, Excusable

\* OkHttp's loop reads only when it found no Pause in the monitor; a cancel
\* that lifts the Pause is an excuse.
LEMMA AndroidPaced ==
  ASSUME Capacity > 1, TransferOK, TypesInv, FactsInv, BodyTypeOK, CountInv, DriverOK, PacedInv, OverflowInv,
         On("Android"), AndroidNext, ~SharedStep
  PROVE  PacedInv' /\ OverflowInv'
<1> USE DEF UnchangedByCall, nativeVars
<1>0. Onwards /\ \A key \in Errors \ {"StreamOverflow"} : Failed(key).error # "StreamOverflow"
  BY AndroidFacts DEF Failed
<1>a. /\ \A total : Complete(total).error # "StreamOverflow"
      /\ Classify \in Errors \ {"StreamOverflow"} /\ ClassifyExhausted \in Errors \ {"StreamOverflow"}
      /\ {"Io", "InsecureRedirect"} \subseteq Errors \ {"StreamOverflow"}
  BY DEF Complete, Classify, InterruptedIO, ClassifyExhausted, Errors
<1>1. CASE AndroidRead
  <2>1. producer.at = "read" /\ Streaming /\ UNCHANGED <<paused, driver>>
    BY <1>1 DEF AndroidRead, flowVars
  <2>2. CASE DeliverRead("turn") /\ UNCHANGED terminal
    BY <1>0, <2>1, <2>2, PacedRead
  <2>3. CASE UNCHANGED bodyVars /\ EndsUnlessSkipped(Complete(producer.i), TRUE)
    <3>1. UNCHANGED <<terminal, stream, outcome>> /\ producer'.at \in {"finish", "done"}
          /\ (producer'.at = "finish" => producer'.end.error # "StreamOverflow")
      BY <1>a, <2>1, <2>3, EndsSay DEF bodyVars
    <3>. QED BY <1>0, <2>1, <3>1, PacedStands, OverflowStands
  <2>4. CASE UNCHANGED bodyVars /\ EndsWith(Failed(Classify))
    <3>1. UNCHANGED <<terminal, stream, outcome>> /\ producer'.at = "finish"
          /\ producer'.end.error # "StreamOverflow"
      BY <1>0, <1>a, <2>1, <2>4, EndsSay DEF bodyVars
    <3>. QED BY <1>0, <2>1, <3>1, PacedStands, OverflowStands
  <2>. QED BY <1>1, <2>2, <2>3, <2>4 DEF AndroidRead
<1>2. CASE AndroidHead
  <2>1. UNCHANGED <<stream, outcome, paused, driver>> /\ producer.at = "head"
    BY <1>2 DEF AndroidHead, bodyVars, flowVars
  <2>2. \/ UNCHANGED terminal /\ producer'.at \in {"head", "turn", "write"}
        \/ UNCHANGED terminal /\ producer'.at = "read" /\ ~Streaming
        \/ \E key \in Errors \ {"StreamOverflow"} : EndsWith(Failed(key))
    BY <1>2, <1>a, ProducerSays DEF AndroidHead
  <2>3. CASE UNCHANGED terminal /\ (producer'.at \in {"head", "turn", "write"} \/ (producer'.at = "read" /\ ~Streaming))
    BY <1>0, <2>1, <2>3, PacedStands, OverflowStands
  <2>4. ASSUME NEW key \in Errors \ {"StreamOverflow"}, EndsWith(Failed(key))
        PROVE  PacedInv' /\ OverflowInv'
    <3>1. \/ /\ producer'.at = "finish" /\ producer'.end.error # "StreamOverflow"
             /\ UNCHANGED terminal
          \/ producer'.at = "done" /\ terminal'.error # "StreamOverflow"
      BY <1>0, <2>4, EndsSay
    <3>. QED BY <1>0, <2>1, <3>1, PacedStands, OverflowStands
  <2>. QED BY <2>2, <2>3, <2>4
<1>3. CASE AndroidBuffer \/ AndroidSink
  <2>1. \A end : CompleteWith(end) => producer'.at = "done" /\ terminal' = end
    BY ProducerSays DEF CompleteWith
  <2>2. UNCHANGED <<stream, outcome, paused, driver>> /\ producer.at \in {"read", "write", "remove", "rename"}
    BY <1>3 DEF AndroidBuffer, AndroidSink, bodyVars, flowVars
  <2>3. \/ UNCHANGED terminal /\ producer'.at \in {"remove", "rename"}
        \/ \E total : CompleteWith(Complete(total))
        \/ \E key \in Errors \ {"StreamOverflow"} : CompleteWith(Failed(key))
    <3>1. CASE AndroidBuffer
      BY <1>a, <3>1 DEF AndroidBuffer
    <3>2. CASE AndroidSink
      BY <1>a, <3>2, ProducerSays DEF AndroidSink, SinkFails
    <3>. QED BY <1>3, <3>1, <3>2
  <2>4. \/ UNCHANGED terminal /\ producer'.at \in {"remove", "rename"}
        \/ producer'.at = "done" /\ terminal'.error # "StreamOverflow"
    BY <1>0, <1>a, <2>1, <2>3
  <2>. QED BY <1>0, <2>2, <2>4, PacedStands, OverflowStands
<1>4. CASE AndroidTurn \/ AndroidHeld \/ AndroidWait
  <2>1. UNCHANGED <<stream, outcome, terminal, paused, driver>>
    BY <1>4 DEF AndroidTurn, AndroidHeld, AndroidWait, bodyVars, flowVars
  <2>2. /\ producer.at \in {"turn", "held", "toSleep"}
        /\ \/ producer'.at \in {"held", "lost", "toSleep", "asleep"}
           \/ producer'.at = "read" /\ ~paused
    BY <1>4, ProducerSays DEF AndroidTurn, AndroidHeld, AndroidWait
  <2>. QED BY <1>0, <2>1, <2>2, PacedStands, OverflowStands
<1>b. Woken => /\ producer'.end = producer.end
               /\ \/ producer'.at = producer.at
                  \/ producer.at = "asleep" /\ producer'.at = "turn"
  BY ProducerSays DEF Woken
<1>5. CASE AndroidCancel /\ cancel' # "done"
  <2>1. UNCHANGED <<stream, outcome, terminal, producer, paused, driver>>
    BY <1>5 DEF AndroidCancel, bodyVars
  <2>. QED BY <1>0, <2>1, PacedStands, OverflowStands
<1>6. CASE AndroidCancel /\ cancel' = "done"
  <2>1. Excused'
    BY <1>0, <1>6 DEF Onwards, Excused, On
  <2>. QED BY <2>1 DEF PacedInv, OverflowInv, Excusable
<1>7. CASE AndroidDeadline
  <2>1. UNCHANGED <<stream, outcome, terminal, producer, paused, driver>>
    BY <1>7 DEF AndroidDeadline, streamVars, bodyVars, flowVars
  <2>. QED BY <1>0, <2>1, PacedStands, OverflowStands
<1>8. CASE AndroidResume
  <2>1. /\ UNCHANGED <<outcome, terminal, stream, cancel>> /\ ~paused' /\ Woken
        /\ driver.at = "resume" /\ driver'.at # "resume"
    BY <1>8, DriverSays DEF AndroidResume, ResumePushed, AfterStep, bodyVars
  <2>. QED BY <1>0, <1>b, <2>1, PacedResume, OverflowStands
<1>. QED
  BY <1>1, <1>2, <1>3, <1>4, <1>5, <1>6, <1>7, <1>8
  DEF AndroidNext, AndroidThread, AndroidIO, AndroidDriver, SharedStep

\* The driver's drain and the pushed Pause, on every platform.
LEMMA SharedPaced ==
  ASSUME Capacity > 1, TransferOK, TypesInv, FactsInv, BodyTypeOK, CountInv, DriverOK, PacedInv, OverflowInv,
         SharedStep
  PROVE  PacedInv' /\ OverflowInv'
<1> USE DEF nativeVars
<1>0. Onwards
  BY SharedFacts
<1>1. CASE CloseSink
  BY <1>0, <1>1, PacedFinish DEF CloseSink
<1>2. CASE RecordEnd \/ StopReading
  <2>1. /\ UNCHANGED <<stream, outcome, paused, driver>> /\ terminal' \in {terminal, outcome}
        /\ producer.at \in {"record", "closed"} /\ producer'.at \in {"closed", "done"}
    BY <1>2, ProducerSays DEF RecordEnd, StopReading, bodyVars, flowVars
  <2>. QED BY <1>0, <2>1, PacedStands, OverflowStands
<1>3. CASE NativePause("turn") \/ NativePause("body")
  <2>1. /\ PausePushed /\ producer.at = "pause" /\ producer'.at \in {"turn", "body"}
        /\ UNCHANGED <<terminal, outcome>>
    BY <1>3, ProducerSays DEF NativePause, PausePushed, bodyVars
  <2>. QED BY <1>0, <2>1, PacedPause, OverflowStands
<1>4. CASE NativeDriver \/ NativeGiveUp
  <2>1. UNCHANGED <<producer, terminal, outcome, paused, cancel>>
    BY <1>4, StreamSays
    DEF NativeDriver, NativeGiveUp, GiveUp, Returned, SetSignals, DrainStep, Look, bodyVars, flowVars
  <2>2. CASE Drain
    BY <1>0, <2>1, <2>2, PacedDrain, OverflowStands
  <2>3. CASE ~Drain
    <3>1. UNCHANGED stream /\ driver.at # "resume" /\ driver'.at # "resume"
      BY <1>4, <2>3, DriverSays
      DEF NativeDriver, NativeGiveUp, GiveUp, Returned, SetSignals, DrainStep, Look, AfterStep, bodyVars
    <3>. QED BY <1>0, <2>1, <3>1, PacedStands, OverflowStands
  <2>. QED BY <2>2, <2>3
<1>. QED BY <1>1, <1>2, <1>3, <1>4 DEF SharedStep

\* The mock's thread delivers only when it found no Pause, unless it is told
\* to ignore one; a cancel lets it past the Pause, and ends it.
LEMMA MockPaced ==
  ASSUME Capacity > 1, TransferOK, TypesInv, FactsInv, BodyTypeOK, CountInv, DriverOK, PacedInv, OverflowInv,
         On("Mock"), StreamNext, UNCHANGED nativeVars
  PROVE  PacedInv' /\ OverflowInv'
<1>0. Onwards
  BY MockFacts
<1>a. \A total : Complete(total).error # "StreamOverflow"
  BY DEF Complete
<1>b. \A p : producer' = NextTurn(p)
               /\ p \in [at : ProducerPlaces, i : 0..Count, end : Ends \cup {Pending}] =>
                 /\ producer'.at \in {"wait", "done", "finish"}
                 /\ producer'.at = "finish" => producer'.end = Complete(Count)
  BY DEF NextTurn
<1>1. CASE FinishBody
  BY <1>0, <1>1, PacedFinish
<1>2. CASE RecordTerminal
  <2>1. /\ UNCHANGED <<stream, outcome, paused, driver>> /\ terminal' = outcome
        /\ producer.at = "record" /\ producer'.at = "done"
    BY <1>2, ProducerSays DEF RecordTerminal, bodyVars, flowVars
  <2>. QED BY <1>0, <2>1, PacedStands, OverflowStands
<1>3. CASE CheckCancelled
  <2>1. UNCHANGED <<stream, terminal, outcome, paused, driver>> /\ producer.at = "check"
    BY <1>3 DEF CheckCancelled, bodyVars, flowVars
  <2>2. \/ producer'.at = "deliver" /\ ~Cancelled
        \/ producer'.at = "finish" /\ producer'.end \in {Failed("Cancelled"), Complete(Count)}
    BY <1>3, ProducerSays DEF CheckCancelled
  <2>3. Failed("Cancelled").error # "StreamOverflow"
    BY DEF Failed
  <2>4. ~Cancelled => ~paused \/ Excused \/ ~Streaming
    BY <2>1 DEF PacedInv, Paced
  <2>. QED BY <1>0, <1>a, <2>1, <2>2, <2>3, <2>4, PacedStands, OverflowStands
<1>4. CASE Deliver
  <2> DEFINE chunk == [seq |-> producer.i, size |-> 1]
             sent  == [producer EXCEPT !.i = @ + 1]
  <2>1. /\ sent \in [at : ProducerPlaces, i : 0..Count, end : Ends \cup {Pending}]
        /\ producer.at = "deliver" /\ UNCHANGED <<terminal, outcome, paused, driver>>
    BY <1>4, StreamSays DEF Deliver, ProducerOK, TransferOK, bodyVars, flowVars
  <2>2. \/ /\ DeliverChunk(chunk)
           /\ \/ PauseDue /\ producer' = [sent EXCEPT !.at = "pause"]
              \/ ~PauseDue /\ producer' = NextTurn(sent)
        \/ ~Accepts(chunk) /\ EndWith(Failed(Refusal(chunk))) /\ UNCHANGED bodyVars
    BY <1>4 DEF Deliver
  <2>3. Accepts(chunk) \/ Excused \/ ~HasRoom
    BY <2>1 DEF CountInv, Over, Accepts, InSequence, Progress, TransferOK, TypesInv
  <2>. HIDE DEF sent, chunk
  <2>4. CASE /\ DeliverChunk(chunk)
             /\ \/ PauseDue /\ producer' = [sent EXCEPT !.at = "pause"]
                \/ ~PauseDue /\ producer' = NextTurn(sent)
    <3>1. /\ PauseDue => producer'.at = "pause"
          /\ producer'.at \in {"pause", "wait", "done", "finish"}
          /\ producer'.at = "finish" => producer'.end = Complete(Count)
      BY <1>b, <2>1, <2>4
    <3>. QED BY <1>0, <1>a, <2>1, <2>4, <3>1, PacedDeliver, OverflowStands
  <2>5. CASE ~Accepts(chunk) /\ EndWith(Failed(Refusal(chunk))) /\ UNCHANGED bodyVars
    <3>1. UNCHANGED stream /\ producer'.at = "finish"
      BY <2>5, ProducerSays DEF bodyVars
    <3>2. Excused
      BY <2>1, <2>3, <2>5, PacedHasRoom DEF TypesInv
    <3>. QED BY <1>0, <2>1, <3>1, <3>2, PacedStands, ExcusedStays DEF OverflowInv, Excusable
  <2>. QED BY <2>2, <2>4, <2>5
<1>5. CASE PushPause
  <2>1. /\ producer.at = "pause" /\ producer' = NextTurn(producer) /\ PausePushed
        /\ UNCHANGED <<terminal, outcome>>
    BY <1>5 DEF PushPause, PausePushed, bodyVars
  <2>2. /\ producer'.at \in {"wait", "done", "finish"}
        /\ producer'.at = "finish" => producer'.end = Complete(Count)
    BY <1>b, <2>1 DEF TransferOK
  <2>. QED BY <1>0, <1>a, <2>1, <2>2, PacedPause, OverflowStands
<1>6. CASE WaitWhilePaused \/ Sleep \/ SpuriousWake
  <2>1. UNCHANGED <<stream, terminal, outcome, paused, driver>>
    BY <1>6 DEF WaitWhilePaused, Sleep, SpuriousWake, bodyVars, flowVars
  <2>2. /\ producer.at \in {"wait", "toSleep", "asleep"}
        /\ \/ producer'.at \in {"wait", "toSleep", "asleep"}
           \/ producer'.at = "check" /\ (Excused \/ ~paused \/ Cancelled)
    BY <1>6, ProducerSays DEF WaitWhilePaused, Sleep, SpuriousWake, Excused
  <2>. QED BY <1>0, <2>1, <2>2, PacedStands, OverflowStands
<1>7. CASE NotifyResume \/ NotifyCancel
  <2>1. /\ UNCHANGED <<stream, terminal, outcome, paused>> /\ producer'.end = producer.end
        /\ \/ producer'.at = producer.at
           \/ producer.at = "asleep" /\ producer'.at = "wait"
    BY <1>7, ProducerSays DEF NotifyResume, NotifyCancel, NotifyAll, bodyVars, flowVars
  <2>2. driver'.at = "resume" <=> driver.at = "resume"
    BY <1>7, DriverSays DEF NotifyResume, NotifyCancel, AfterStep
  <2>. QED BY <1>0, <2>1, <2>2, PacedStands, OverflowStands
<1>8. CASE SetSignals \/ DrainStep \/ Look \/ GiveUp \/ Cancel
  <2>1. UNCHANGED <<producer, terminal, outcome, paused>>
    BY <1>8, StreamSays DEF SetSignals, DrainStep, Look, GiveUp, Cancel, bodyVars, flowVars
  <2>2. CASE Drain
    BY <1>0, <2>1, <2>2, PacedDrain, OverflowStands
  <2>3. CASE ~Drain
    <3>1. UNCHANGED stream /\ (driver'.at = "resume" <=> driver.at = "resume")
      BY <1>8, <2>3, DriverSays DEF SetSignals, DrainStep, Look, GiveUp, Cancel, AfterStep, bodyVars
    <3>. QED BY <1>0, <2>1, <3>1, PacedStands, OverflowStands
  <2>. QED BY <2>2, <2>3
<1>9. CASE PushResume
  <2>1. /\ UNCHANGED <<outcome, terminal, producer, stream, cancel>> /\ ~paused'
        /\ driver.at = "resume" /\ driver'.at # "resume"
    BY <1>9, DriverSays DEF PushResume, ResumePushed, bodyVars
  <2>. QED BY <1>0, <2>1, PacedResume, OverflowStands
<1>. QED
  BY <1>1, <1>2, <1>3, <1>4, <1>5, <1>6, <1>7, <1>8, <1>9 DEF StreamNext, Producer, Driver

-----------------------------------------------------------------------------
(* The inductive invariant of a transfer, and what follows from it. *)

TransferInv ==
  /\ TransferOK /\ BodyInv /\ TypesInv /\ FactsInv /\ CountInv /\ CauseInv
  /\ SuccessInv /\ DriverOK

\* Back-pressure needs a ring of two or more.
PressureInv == PacedInv /\ OverflowInv

\* Every request starts within the invariant.
LEMMA AllInitially == TransfersInit => TransferInv /\ PressureInv
<1> SUFFICES ASSUME TransfersInit PROVE TransferInv /\ PressureInv
  OBVIOUS
<1> USE DEF TransfersInit, NativeInit, BodyInit, NativeStart, MockStart
<1>0. /\ producer.at \in {"wait", "head"} /\ producer.i = 0 /\ producer.end = Pending
      /\ driver = [at |-> "start", last |-> FALSE]
      /\ Pending.error = "pending" /\ Count \in Nat \ {0}
      /\ High \in Nat
  BY DEF Pending, High
<1>1. TransferOK
  BY DEF TransferOK, ProducerOK, ProducerPlaces, Places, On
<1>2. BodyInv
  BY BodyInitially
<1>3. TypesInv
  BY <1>0 DEF TypesInv, FileType, Causes, Networks, On, Streaming, NativeFaults, Faults
<1>4. FactsInv
  BY <1>0 DEF FactsInv, FileInv, NetworkInv, AppleInv, AndroidInv, MockInv, Over
<1>5. CountInv
  BY <1>0 DEF CountInv, Progress, Over
<1>6. CauseInv
  BY <1>0 DEF CauseInv, HasItsCause
<1>7. SuccessInv
  BY <1>0 DEF SuccessInv, Declared
<1>8. DriverOK
  BY DEF DriverOK, DriverType
<1>9. PressureInv
  <2>1. Len(stream.ring) = 0
    OBVIOUS
  <2>. QED BY <1>0, <2>1 DEF PressureInv, PacedInv, Paced, OverflowInv, Excusable
<1>. QED BY <1>1, <1>2, <1>3, <1>4, <1>5, <1>6, <1>7, <1>8, <1>9 DEF TransferInv

\* Every step keeps the invariant; the types come first, for the rest say
\* what is true of an end after the step.
LEMMA TransferKeeps ==
  ASSUME TransferInv, [TransfersNext]_transferVars
  PROVE  TransferInv'
<1> USE DEF TransferInv
<1>1. TransferOK' /\ BodyInv' /\ BodyTypeOK
  BY TransferStep, BodyStep DEF StepOK, BodyInv
<1>2. DriverOK'
  BY DriverKeeps
<1>3. CASE UNCHANGED transferVars
  <2>1. UNCHANGED <<stream, taken, outcome, terminal, cancel, producer, fault, request, deadline,
                    stopped, cause, network, hops, file>>
    BY <1>3 DEF transferVars, streamVars, bodyVars, flowVars, nativeVars
  <2>2. TypesInv' /\ FactsInv' /\ CountInv'
    BY <2>1
    DEF TypesInv, FactsInv, FileInv, NetworkInv, AppleInv, AndroidInv, MockInv, CountInv, Progress,
        On, Streaming
  <2>3. CauseInv'
    BY <2>1 DEF CauseInv, HasItsCause, AndroidSinkBlamesTheFile, On
  <2>4. SuccessInv'
    BY <2>1 DEF SuccessInv, Declared, Persisted, Delivered, RefusedRedirectLeaks, FailureIsMasked,
                On, Streaming
  <2>. QED BY <1>1, <1>2, <2>2, <2>3, <2>4
<1>4. CASE SharedStep
  <2>1. TypesInv' /\ FactsInv' /\ CountInv'
    BY <1>1, <1>4, SharedTypes, SharedFacts, SharedCount
  <2>2. CauseInv' /\ SuccessInv'
    BY <1>1, <1>4, <2>1, SharedCause, SharedSuccess
  <2>. QED BY <1>1, <1>2, <2>1, <2>2
<1>5. CASE On("Mock") /\ StreamNext /\ UNCHANGED nativeVars
  <2>1. TypesInv' /\ FactsInv' /\ CountInv'
    BY <1>1, <1>5, MockTypes, MockFacts, MockCount
  <2>2. CauseInv' /\ SuccessInv'
    BY <1>1, <1>5, <2>1, MockCause, MockSuccess
  <2>. QED BY <1>1, <1>2, <2>1, <2>2
<1>6. CASE On("Linux") /\ LinuxNext /\ ~SharedStep
  <2>1. TypesInv' /\ FactsInv' /\ CountInv'
    BY <1>1, <1>6, LinuxTypes, LinuxFacts, LinuxCount
  <2>2. CauseInv' /\ SuccessInv'
    BY <1>1, <1>6, <2>1, LinuxCause, LinuxSuccess
  <2>. QED BY <1>1, <1>2, <2>1, <2>2
<1>7. CASE On("Apple") /\ AppleNext /\ ~SharedStep
  <2>1. TypesInv' /\ FactsInv' /\ CountInv'
    BY <1>1, <1>7, AppleTypes, AppleFacts, AppleCount
  <2>2. CauseInv' /\ SuccessInv'
    BY <1>1, <1>7, <2>1, AppleCause, AppleSuccess
  <2>. QED BY <1>1, <1>2, <2>1, <2>2
<1>8. CASE On("Android") /\ AndroidNext /\ ~SharedStep
  <2>1. TypesInv' /\ FactsInv' /\ CountInv'
    BY <1>1, <1>8, AndroidTypes, AndroidFacts, AndroidCount
  <2>2. CauseInv' /\ SuccessInv'
    BY <1>1, <1>8, <2>1, AndroidCause, AndroidSuccess
  <2>. QED BY <1>1, <1>2, <2>1, <2>2
<1>. QED BY <1>3, <1>4, <1>5, <1>6, <1>7, <1>8 DEF TransfersNext

\* What paces the producer holds of a ring of two or more.
LEMMA PressureKeeps ==
  ASSUME Capacity > 1, TransferInv, PressureInv, [TransfersNext]_transferVars
  PROVE  PressureInv'
<1> USE DEF TransferInv, PressureInv
<1>1. BodyTypeOK
  BY DEF BodyInv
<1>2. CASE UNCHANGED transferVars
  <2>1. UNCHANGED <<stream, outcome, terminal, paused, pauseLost, cancel, producer, driver, fault,
                    request>>
    BY <1>2 DEF transferVars, streamVars, bodyVars, flowVars, nativeVars
  <2>. QED BY <2>1 DEF PacedInv, Paced, OverflowInv, Excusable, Excused, Cancelled, On, Streaming, High
<1>3. CASE SharedStep
  BY <1>1, <1>3, SharedPaced
<1>4. CASE On("Mock") /\ StreamNext /\ UNCHANGED nativeVars
  BY <1>1, <1>4, MockPaced
<1>5. CASE On("Linux") /\ LinuxNext /\ ~SharedStep
  BY <1>1, <1>5, LinuxPaced
<1>6. CASE On("Apple") /\ AppleNext /\ ~SharedStep
  BY <1>6, ApplePaced
<1>7. CASE On("Android") /\ AndroidNext /\ ~SharedStep
  BY <1>1, <1>7, AndroidPaced
<1>. QED BY <1>2, <1>3, <1>4, <1>5, <1>6, <1>7 DEF TransfersNext

\* The invariant of a transfer holds of every state.
THEOREM TransferInvariant == TransfersSpec => []TransferInv
<1>. QED BY AllInitially, TransferKeeps, PTL DEF TransfersSpec

\* The types of a transfer on every platform, its driver and its file among
\* them (StreamDriver, Native).
THEOREM TransferTypes == TransfersSpec => []TransferTypeOK
<1>1. TransferInv => TransferTypeOK
  BY DEF TransferInv, TransferOK, TypesInv, BodyInv, DriverOK, TransferTypeOK
<1>. QED BY <1>1, TransferInvariant, PTL

\* Rule 9 on every platform: a terminal that names the cancel, the deadline,
\* the network, the file or the refusal names what has happened, in whatever
\* order the adapter's thread, its signals and its timer met
\* (classify, mapError, the biased select of bolted-http-linux).
THEOREM OutcomesHaveTheirCause == TransfersSpec => []OutcomeHasItsCause
<1>1. TransferInv => OutcomeHasItsCause
  BY DEF TransferInv, CauseInv, OutcomeHasItsCause
<1>. QED BY <1>1, TransferInvariant, PTL

\* Rows 12 and 15 on every platform: a success is the whole body, at the
\* consumer, in memory or in the file, whatever fault the adapter was built
\* with and whenever a cancel or the deadline came, but for the two ways
\* URLSession's causes mask a refusal or a failure.
THEOREM SuccessesAreWhole == TransfersSpec => []SuccessIsWhole
<1>1. TransferInv => SuccessIsWhole
  <2> SUFFICES ASSUME TransferInv, terminal.error = "none" PROVE SuccessIsWhole
    BY DEF SuccessIsWhole
  <2> USE DEF TransferInv
  <2>1. CASE ~Streaming
    BY <2>1 DEF SuccessInv, Delivered, SuccessIsWhole
  <2>2. CASE Streaming
    <3>1. terminal = outcome /\ Declared(outcome)
      BY <2>2 DEF SuccessInv, Pending
    <3>2. /\ outcome.total = stream.ingested_bytes /\ stream.ring = <<>>
          /\ taken \in Seq(Chunk) /\ Len(Entered) = stream.next_seq
          /\ stream.ingested_bytes = stream.next_seq
      BY <3>1 DEF BodyInv, BodyTypeOK, GaplessInOrder, CountInv
    <3>3. Entered = taken
      BY <3>2 DEF Entered
    <3>. QED BY <2>2, <3>1, <3>2, <3>3 DEF Declared, SuccessIsWhole
  <2>. QED BY <2>1, <2>2
<1>. QED BY <1>1, TransferInvariant, PTL

\* Back-pressure is enough: with a ring of two chunks or more (RING_CAPACITY
\* is 256), an adapter overflows it only if a Pause was lost or ignored, if a
\* cancel lifted it under OkHttp, or on URLSession, which promises no pause.
THEOREM OverflowsNeedALostPause ==
  Capacity > 1 => (TransfersSpec => []OverflowNeedsALostPause)
<1> SUFFICES ASSUME Capacity > 1
             PROVE  TransfersSpec => []OverflowNeedsALostPause
  OBVIOUS
<1>1. TransferInv /\ PressureInv /\ [TransfersNext]_transferVars => TransferInv' /\ PressureInv'
  BY TransferKeeps, PressureKeeps
<1>2. PressureInv => OverflowNeedsALostPause
  BY DEF PressureInv, OverflowInv, Excusable, Excused, OverflowNeedsALostPause
<1>. QED BY <1>1, <1>2, AllInitially, PTL DEF TransfersSpec

\* The old file or the whole new one is there throughout reqwest's request
\* (write_body_to_file and its rename).
THEOREM AlwaysOldOrWhole == TransfersSpec => []OldOrWhole
<1>1. TransferInv => OldOrWhole
  BY DEF TransferInv, FactsInv, FileInv, OldOrWhole
<1>. QED BY <1>1, TransferInvariant, PTL
=============================================================================
