--------------------------- MODULE SpscRingProofs ---------------------------
(***************************************************************************)
(* SpscRing for every capacity, every set of bytes and every call length.  *)
(***************************************************************************)
EXTENDS SpscRing, LoopLemmas, SequenceTheorems, TLAPS

-----------------------------------------------------------------------------
(* Arithmetic of the buffer.                                               *)

(* Two cursors less than a capacity apart have different slots.            *)
LEMMA SlotsDiffer ==
  ASSUME NEW x \in Nat, NEW y \in Nat, x < y, y < x + Capacity
  PROVE  Slot(x) # Slot(y)
  BY RingAssumption, RemaindersDiffer DEF Slot

(* Slot(x) is the one remainder of x.                                      *)
LEMMA SlotUnique ==
  ASSUME NEW x \in Nat, NEW q \in Int, NEW r \in 0..(Capacity - 1),
         x = Capacity * q + r
  PROVE  Slot(x) = r
  BY RingAssumption, RemainderUnique DEF Slot

(* The two memcpys write byte k of a copy to the slot of the cursor x + k. *)
LEMMA PositionIsSlot ==
  ASSUME NEW x \in Nat, NEW k \in Nat, k < Capacity
  PROVE  Position(x, k) = Slot(x + k) /\ Slot(x + k) \in 0..(Capacity - 1)
<1> USE RingAssumption
<1> DEFINE p == x \div Capacity
<1>1. x = Capacity * p + Slot(x) /\ p \in Int /\ Slot(x) \in 0..(Capacity - 1)
  BY DEF Slot
<1> HIDE DEF p
<1>2. CASE k < Capacity - Slot(x)
  <2>1. x + k = Capacity * p + (Slot(x) + k)
    BY <1>1
  <2>2. Slot(x) + k \in 0..(Capacity - 1)
    BY <1>1, <1>2
  <2>3. Slot(x + k) = Slot(x) + k
    BY ONLY <1>1, <2>1, <2>2, SlotUnique, x + k \in Nat
  <2>4. QED
    BY <1>2, <2>2, <2>3 DEF Position
<1>3. CASE ~(k < Capacity - Slot(x))
  <2>1. x + k = Capacity * (p + 1) + (k - (Capacity - Slot(x)))
    BY <1>1, SMT
  <2>2. k - (Capacity - Slot(x)) \in 0..(Capacity - 1)
    BY <1>1, <1>3
  <2>3. Slot(x + k) = k - (Capacity - Slot(x))
    BY ONLY <1>1, <2>1, <2>2, SlotUnique, x + k \in Nat, p + 1 \in Int
  <2>4. QED
    BY <1>3, <2>2, <2>3 DEF Position
<1>4. QED
  BY <1>2, <1>3

-----------------------------------------------------------------------------
(* The cursors.                                                            *)

(* What the producer and the consumer know about their own call, and that  *)
(* what they know stays true whatever the other side does.                 *)
CursorInv ==
  /\ NoOverwrite
  /\ PublishedIsWritten
  /\ tail = base
  /\ Len(out) <= want

RingInv == TypeOK /\ CursorInv

LEMMA RingInvInit == RingCreate => RingInv
  BY RingAssumption DEF RingCreate, RingInv, TypeOK, CursorInv, NoOverwrite, PublishedIsWritten

LEMMA ProduceCallInv ==
  ASSUME RingInv, NEW d \in Chunks, ProduceCall(d)
  PROVE  RingInv'
<1> USE RingAssumption DEF RingInv, TypeOK, CursorInv, NoOverwrite, PublishedIsWritten
<1> DEFINE n == Least(Len(d), Free)
<1>1. d \in Seq(Bytes) /\ Len(d) \in Nat
  OBVIOUS
<1>2. n \in 0..Len(d) /\ n <= Free
  BY <1>1 DEF ProduceCall, Least, Free
<1> HIDE DEF n
<1>3. data' \in Seq(Bytes) /\ Len(data') = n
  BY <1>1, <1>2 DEF ProduceCall, n
<1>4. /\ base' = tail /\ done' = 0
      /\ UNCHANGED <<buf, head, tail, kind, want, out, got>>
  BY DEF ProduceCall, consumerVars
<1>5. TypeOK'
  BY <1>3, <1>4
<1>6. n <= Capacity - (tail - head)
  BY <1>2 DEF Free
<1>7. CursorInv'
  BY <1>3, <1>4, <1>6
<1>8. QED
  BY <1>5, <1>7

LEMMA ProduceCopyInv ==
  ASSUME RingInv, ProduceCopy
  PROVE  RingInv'
<1> USE RingAssumption DEF RingInv, TypeOK, CursorInv, NoOverwrite, PublishedIsWritten
<1>1. done + 1 \in 1..Len(data) /\ data[done + 1] \in Bytes
  BY DEF ProduceCopy
<1>2. buf' \in [0..(Capacity - 1) -> Bytes \cup {Junk}]
  BY <1>1 DEF ProduceCopy
<1>3. QED
  BY <1>1, <1>2 DEF ProduceCopy, consumerVars

LEMMA ProducePublishInv ==
  ASSUME RingInv, ProducePublish
  PROVE  RingInv'
  BY RingAssumption DEF RingInv, TypeOK, CursorInv, NoOverwrite, PublishedIsWritten,
     ProducePublish, consumerVars

LEMMA ConsumerCallInv ==
  ASSUME RingInv, NEW k \in {"consume", "peek", "drop"}, NEW n \in 1..MaxAsk,
         ConsumerCall(k, n)
  PROVE  RingInv'
  BY RingAssumption DEF RingInv, TypeOK, CursorInv, NoOverwrite, PublishedIsWritten,
     ConsumerCall, Least, Used, producerVars

LEMMA ConsumerCopyInv ==
  ASSUME RingInv, ConsumerCopy
  PROVE  RingInv'
<1> USE RingAssumption DEF RingInv, TypeOK, CursorInv, NoOverwrite, PublishedIsWritten
<1>1. Len(out) \in Nat /\ Len(out) < Capacity
  BY DEF ConsumerCopy
<1>2. Position(head, Len(out)) \in 0..(Capacity - 1)
  BY <1>1, PositionIsSlot
<1>3. out' \in Seq(Bytes \cup {Junk}) /\ Len(out') = Len(out) + 1
  BY <1>2 DEF ConsumerCopy
<1>4. QED
  BY <1>3 DEF ConsumerCopy, producerVars

LEMMA ConsumerReturnInv ==
  ASSUME RingInv, ConsumerReturn
  PROVE  RingInv'
  BY RingAssumption DEF RingInv, TypeOK, CursorInv, NoOverwrite, PublishedIsWritten,
     ConsumerReturn, producerVars

LEMMA RingInvStep ==
  ASSUME RingInv, [Next]_vars
  PROVE  RingInv'
<1>1. CASE UNCHANGED vars
  BY <1>1 DEF vars, producerVars, consumerVars, RingInv, TypeOK, CursorInv, NoOverwrite,
              PublishedIsWritten
<1>2. QED
  BY <1>1, ProduceCallInv, ProduceCopyInv, ProducePublishInv, ConsumerCallInv, ConsumerCopyInv,
     ConsumerReturnInv DEF Next, Producer, Consumer

(* The cursors of both sides stay within their types and in order: the     *)
(* inductive invariant of the ring.                                        *)
THEOREM RingInvariant == Spec => []RingInv
  BY RingInvInit, RingInvStep, PTL DEF Spec

(* The ring keeps its types for every capacity and all data.               *)
THEOREM RingTypeCorrect == Spec => []TypeOK
<1>1. RingInv => TypeOK
  BY DEF RingInv
<1>2. QED
  BY <1>1, RingInvariant, PTL

(* The producer never writes over a byte that is not consumed yet.         *)
THEOREM NeverOverwrites == Spec => []NoOverwrite
<1>1. RingInv => NoOverwrite
  BY DEF RingInv, CursorInv
<1>2. QED
  BY <1>1, RingInvariant, PTL

(* tail never passes a byte that is not copied into the buffer yet.        *)
THEOREM PublishesWritten == Spec => []PublishedIsWritten
<1>1. RingInv => PublishedIsWritten
  BY DEF RingInv, CursorInv
<1>2. QED
  BY <1>1, RingInvariant, PTL

-----------------------------------------------------------------------------
(* The bytes.                                                              *)

(* What each side has copied equals what the cursors say: of the data the  *)
(* first done bytes lie in the buffer from base on, and out is what the    *)
(* buffer holds from head on.                                              *)
ContentInv ==
  /\ \A i \in 1..done : buf[Slot(base + i - 1)] = data[i]
  /\ \A i \in 1..Len(out) : out[i] = buf[Slot(head + i - 1)]

DataInv == RingInv /\ ContentInv

LEMMA SlotRange ==
  ASSUME NEW x \in Nat
  PROVE  Slot(x) \in 0..(Capacity - 1)
  BY RingAssumption DEF Slot

LEMMA StoredIsSeq ==
  ASSUME RingInv
  PROVE  /\ Stored \in Seq(Bytes \cup {Junk})
         /\ Used \in Nat
         /\ Len(Stored) = Used
         /\ \A i \in 1..Used : Stored[i] = buf[Slot(head + i - 1)]
<1> USE DEF RingInv, TypeOK, CursorInv, NoOverwrite
<1>1. Used \in Nat
  BY DEF Used
<1>2. ASSUME NEW i \in 1..Used
      PROVE  buf[Slot(head + i - 1)] \in Bytes \cup {Junk}
  <2>1. head + i - 1 \in Nat
    BY <1>1, <1>2
  <2>2. QED
    BY <2>1, SlotRange
<1>3. QED
  BY <1>1, <1>2 DEF Stored

(* A byte the producer stores leaves the cursors' bytes alone: those still *)
(* to be read, and those of the same call it has stored already.           *)
LEMMA CopyKeeps ==
  ASSUME RingInv, ProduceCopy, NEW x \in Nat, head <= x, x < base + done
  PROVE  buf'[Slot(x)] = buf[Slot(x)]
<1> USE RingAssumption DEF RingInv, TypeOK, CursorInv, NoOverwrite
<1>0. Len(data) \in Nat /\ done < Len(data) /\ done \in Nat /\ base \in Nat
  BY DEF ProduceCopy
<1>1. done \in Nat /\ done < Capacity /\ base + done \in Nat /\ base + done < x + Capacity
  BY <1>0
<1>2. Position(base, done) = Slot(base + done)
  BY <1>1, PositionIsSlot
<1>3. Slot(x) # Slot(base + done)
  BY <1>1, SlotsDiffer
<1>4. QED
  BY <1>2, <1>3, SlotRange DEF ProduceCopy

LEMMA ProduceCopyContent ==
  ASSUME DataInv, ProduceCopy
  PROVE  ContentInv'
<1> USE RingAssumption DEF DataInv, RingInv, TypeOK, CursorInv, NoOverwrite, ContentInv
<1>1. done \in Nat /\ done < Capacity /\ base + done \in Nat
  BY DEF ProduceCopy
<1>2. buf'[Slot(base + done)] = data[done + 1]
  BY <1>1, PositionIsSlot DEF ProduceCopy
<1>3. ASSUME NEW i \in 1..done'
      PROVE  buf'[Slot(base + i - 1)] = data[i]
  <2>1. CASE i = done + 1
    BY <1>1, <1>2, <2>1
  <2>2. CASE i \in 1..done
    <3>1. base + i - 1 \in Nat /\ head <= base + i - 1 /\ base + i - 1 < base + done
      BY <1>1, <2>2
    <3>2. buf'[Slot(base + i - 1)] = buf[Slot(base + i - 1)]
      BY <3>1, CopyKeeps
    <3>3. QED
      BY <2>2, <3>2
  <2>3. QED
    BY <1>1, <2>1, <2>2 DEF ProduceCopy
<1>4. ASSUME NEW i \in 1..Len(out)
      PROVE  out[i] = buf'[Slot(head + i - 1)]
  <2>1. head + i - 1 \in Nat /\ head <= head + i - 1 /\ head + i - 1 < base + done
    BY <1>1
  <2>2. buf'[Slot(head + i - 1)] = buf[Slot(head + i - 1)]
    BY <2>1, CopyKeeps
  <2>3. QED
    BY <2>2
<1>5. QED
  BY <1>3, <1>4 DEF ProduceCopy, consumerVars

LEMMA ConsumerCopyContent ==
  ASSUME DataInv, ConsumerCopy
  PROVE  ContentInv'
<1> USE RingAssumption DEF DataInv, RingInv, TypeOK, CursorInv, NoOverwrite, ContentInv
<1>1. Len(out) \in Nat /\ Len(out) < Capacity
  BY DEF ConsumerCopy
<1>2. Position(head, Len(out)) = Slot(head + Len(out))
  BY <1>1, PositionIsSlot
<1>3. ASSUME NEW i \in 1..Len(out')
      PROVE  out'[i] = buf[Slot(head + i - 1)]
  <2>1. CASE i = Len(out) + 1
    <3>1. out'[i] = buf[Slot(head + Len(out))]
      BY <1>2, <2>1 DEF ConsumerCopy
    <3>2. head + i - 1 = head + Len(out)
      BY <1>1, <2>1
    <3>3. QED
      BY <3>1, <3>2
  <2>2. CASE i \in 1..Len(out)
    BY <2>2 DEF ConsumerCopy
  <2>3. QED
    BY <1>1, <2>1, <2>2 DEF ConsumerCopy
<1>4. QED
  BY <1>3 DEF ConsumerCopy, producerVars

LEMMA DataInvStep ==
  ASSUME DataInv, [Next]_vars
  PROVE  DataInv'
<1> USE DEF DataInv, ContentInv
<1>1. RingInv'
  BY RingInvStep
<1>2. ASSUME NEW d \in Chunks, ProduceCall(d) PROVE ContentInv'
  BY <1>2 DEF ProduceCall, consumerVars
<1>3. CASE ProducePublish
  BY <1>1, <1>3 DEF ProducePublish, consumerVars
<1>4. ASSUME NEW k \in {"consume", "peek", "drop"}, NEW n \in 1..MaxAsk, ConsumerCall(k, n)
      PROVE  ContentInv'
  BY <1>4 DEF ConsumerCall, producerVars
<1>5. CASE ConsumerReturn
  BY <1>1, <1>5 DEF ConsumerReturn, producerVars
<1>6. CASE UNCHANGED vars
  BY <1>1, <1>6 DEF vars, producerVars, consumerVars
<1>7. QED
  BY <1>1, <1>2, <1>3, <1>4, <1>5, <1>6, ProduceCopyContent, ConsumerCopyContent
     DEF Next, Producer, Consumer

(* What each side has copied is what the cursors say: the inductive        *)
(* invariant of the bytes.                                                 *)
THEOREM DataInvariant == Spec => []DataInv
<1>1. RingCreate => ContentInv
  BY DEF RingCreate, ContentInv
<1>2. QED
  BY <1>1, RingInvInit, DataInvStep, PTL DEF Spec, DataInv

(* What a consumer has copied is what the ring had stored for it, whatever *)
(* the producer does meanwhile.                                            *)
THEOREM CopiesStored == Spec => []CopiedIsStored
<1>1. ASSUME DataInv PROVE CopiedIsStored
  <2> USE <1>1 DEF DataInv, RingInv, TypeOK, CursorInv, NoOverwrite, ContentInv
  <2>1. Len(out) \in Nat /\ Len(out) <= Used
    BY DEF Used
  <2>2. \A i \in 1..Len(out) : SubSeq(Stored, 1, Len(out))[i] = out[i]
    BY <2>1, StoredIsSeq
  <2>3. Len(SubSeq(Stored, 1, Len(out))) = Len(out)
    BY <2>1, StoredIsSeq
  <2>4. QED
    BY <2>1, <2>2, <2>3, StoredIsSeq DEF CopiedIsStored
<1>2. QED
  BY <1>1, DataInvariant, PTL

-----------------------------------------------------------------------------
(* The ring implements ByteQueue: a call's first step takes the decision,  *)
(* the copies are stuttering, and publishing a cursor moves the bytes.     *)

LEMMA QueueInit == RingCreate => Queue!Init
  BY DEF RingCreate, Queue!Init, Stored, Used

LEMMA StoredUnchanged ==
  ASSUME UNCHANGED <<buf, head, tail>>
  PROVE  Stored' = Stored
  BY DEF Stored, Used

LEMMA ProduceCallQueue ==
  ASSUME DataInv, NEW d \in Chunks, ProduceCall(d)
  PROVE  Queue!Produce(d)
<1>1. Len(Stored) = Used /\ Used \in Nat /\ Free = Capacity - Used /\ Capacity \in Nat
  BY StoredIsSeq, RingAssumption DEF DataInv, Free, Used
<1>2. Len(Stored) < Capacity
  BY <1>1 DEF ProduceCall
<1>3. QED
  BY <1>1, <1>2, StoredUnchanged DEF ProduceCall, Queue!Produce, Least, Queue!Least, consumerVars

LEMMA ProduceCopyQueue ==
  ASSUME DataInv, ProduceCopy
  PROVE  UNCHANGED Queue!vars
<1> USE DEF DataInv, RingInv, TypeOK, CursorInv, NoOverwrite
<1>1. ASSUME NEW i \in 1..Used
      PROVE  buf'[Slot(head + i - 1)] = buf[Slot(head + i - 1)]
  <2>1. head + i - 1 \in Nat /\ head <= head + i - 1 /\ head + i - 1 < base + done
    BY DEF Used
  <2>2. QED
    BY <2>1, CopyKeeps
<1>2. Stored' = Stored
  BY <1>1 DEF Stored, Used, ProduceCopy
<1>3. QED
  BY <1>2 DEF ProduceCopy, consumerVars, Queue!vars

LEMMA ProducePublishQueue ==
  ASSUME DataInv, ProducePublish
  PROVE  Queue!Produced
<1> USE DEF DataInv, RingInv, TypeOK, CursorInv, NoOverwrite, ContentInv
<1>1. RingInv'
  BY ProducePublishInv
<1>2. Used' = Used + Len(data) /\ Used \in Nat /\ Len(data) \in Nat
  BY DEF ProducePublish, Used
<1>3. Stored' \in Seq(Bytes \cup {Junk}) /\ Len(Stored') = Used'
      /\ \A i \in 1..Used' : Stored'[i] = buf[Slot(head + i - 1)]
  <2>1. Stored' = [i \in 1..Used' |-> buf[Slot(head + i - 1)]]
    BY DEF Stored, ProducePublish
  <2>2. ASSUME NEW i \in 1..Used'
        PROVE  buf[Slot(head + i - 1)] \in Bytes \cup {Junk}
    <3>1. head + i - 1 \in Nat
      BY <1>2
    <3>2. QED
      BY <3>1, SlotRange
  <2>3. QED
    BY <1>2, <2>1, <2>2
<1>4. Stored \o data \in Seq(Bytes \cup {Junk}) /\ Len(Stored \o data) = Used + Len(data)
  <2>1. Stored \in Seq(Bytes \cup {Junk}) /\ Len(Stored) = Used
    BY StoredIsSeq
  <2>2. data \in Seq(Bytes \cup {Junk})
    BY SeqMonotonic
  <2>3. QED
    BY ONLY <2>1, <2>2, ConcatProperties
<1>5. ASSUME NEW i \in 1..(Used + Len(data))
      PROVE  Stored'[i] = (Stored \o data)[i]
  <2>1. CASE i <= Used
    <3>1. i \in 1..Used /\ i \in 1..Used'
      BY <1>2, <2>1
    <3>2. Stored'[i] = buf[Slot(head + i - 1)]
      BY ONLY <1>3, <3>1
    <3>3. Stored[i] = buf[Slot(head + i - 1)]
      BY ONLY <3>1, RingInv, StoredIsSeq
    <3>4. Stored \in Seq(Bytes \cup {Junk}) /\ Len(Stored) = Used
      BY StoredIsSeq
    <3>5. data \in Seq(Bytes \cup {Junk})
      BY SeqMonotonic
    <3>6. (Stored \o data)[i] = Stored[i]
      BY ONLY <1>2, <3>1, <3>4, <3>5, ConcatProperties
    <3>7. QED
      BY ONLY <3>2, <3>3, <3>6
  <2>2. CASE ~(i <= Used)
    <3>1. i - Used \in 1..Len(data)
      BY <1>2, <2>2
    <3>2. head + i - 1 = base + (i - Used) - 1
      BY <2>2 DEF Used
    <3>3. (Stored \o data)[i] = data[i - Used]
      BY <1>2, <2>2, StoredIsSeq
    <3>4. buf[Slot(base + (i - Used) - 1)] = data[i - Used]
      BY <3>1 DEF ProducePublish
    <3>5. QED
      BY <1>2, <1>3, <3>2, <3>3, <3>4
  <2>3. QED
    BY <2>1, <2>2
<1>6. Stored' = Stored \o data
  BY <1>2, <1>3, <1>4, <1>5, SeqEqual
<1>7. QED
  BY <1>6 DEF ProducePublish, Queue!Produced, consumerVars

LEMMA ConsumerCallQueue ==
  ASSUME DataInv, NEW k \in {"consume", "peek", "drop"}, NEW n \in 1..MaxAsk,
         ConsumerCall(k, n)
  PROVE  Queue!Ask(k, n)
<1>1. Len(Stored) = Used /\ Used > 0 /\ Stored # << >>
  BY StoredIsSeq DEF DataInv, ConsumerCall
<1>2. QED
  BY <1>1, StoredUnchanged DEF ConsumerCall, Queue!Ask, Least, Queue!Least, producerVars

LEMMA ConsumerReturnQueue ==
  ASSUME DataInv, ConsumerReturn
  PROVE  Queue!Answer
<1> USE DEF DataInv, RingInv, TypeOK, CursorInv, NoOverwrite, ContentInv
<1>1. want \in 1..Used /\ Used \in Nat
  BY DEF ConsumerReturn, Used
<1>2. Stored \in Seq(Bytes \cup {Junk}) /\ Len(Stored) = Used
      /\ \A i \in 1..Used : Stored[i] = buf[Slot(head + i - 1)]
  BY StoredIsSeq
<1>3. kind # "drop" => out = SubSeq(Stored, 1, want)
  <2>1. SUFFICES ASSUME kind # "drop" PROVE out = SubSeq(Stored, 1, want)
    OBVIOUS
  <2>2. Len(out) = want
    BY <2>1 DEF ConsumerReturn
  <2>3. SubSeq(Stored, 1, want) \in Seq(Bytes \cup {Junk}) /\ Len(SubSeq(Stored, 1, want)) = want
    BY <1>1, <1>2
  <2>4. \A i \in 1..want : out[i] = SubSeq(Stored, 1, want)[i]
    BY <1>1, <1>2, <2>2
  <2>5. QED
    BY <2>2, <2>3, <2>4, SeqEqual
<1>4. kind # "peek" => Stored' = SubSeq(Stored, want + 1, Used)
  <2>1. SUFFICES ASSUME kind # "peek" PROVE Stored' = SubSeq(Stored, want + 1, Used)
    OBVIOUS
  <2>2. Used' = Used - want /\ Stored' = [i \in 1..Used' |-> buf[Slot(head + want + i - 1)]]
    BY <1>1, <2>1 DEF ConsumerReturn, Used, Stored
  <2>3. ASSUME NEW i \in 1..Used'
        PROVE  buf[Slot(head + want + i - 1)] = Stored[want + i]
    <3>1. want + i \in 1..Used /\ head + (want + i) - 1 = head + want + i - 1
      BY <1>1, <2>2
    <3>2. QED
      BY <1>2, <3>1
  <2>4. Stored' = [i \in 1..(Used - want) |-> Stored[want + i]]
    BY <2>2, <2>3
  <2>5. SubSeq(Stored, want + 1, Used) = [i \in 1..(Used - want) |-> Stored[want + i]]
    BY <1>1, <1>2
  <2>6. QED
    BY <2>4, <2>5
<1>5. kind = "peek" => Stored' = Stored
  BY StoredUnchanged DEF ConsumerReturn
<1>6. QED
  BY <1>2, <1>3, <1>4, <1>5 DEF ConsumerReturn, Queue!Answer, producerVars

LEMMA QueueStep ==
  ASSUME DataInv, [Next]_vars
  PROVE  [Queue!Next]_(Queue!vars)
<1>1. ASSUME NEW d \in Chunks, ProduceCall(d) PROVE Queue!Next
  BY <1>1, ProduceCallQueue DEF Queue!Next
<1>2. CASE ProduceCopy
  BY <1>2, ProduceCopyQueue
<1>3. CASE ProducePublish
  BY <1>3, ProducePublishQueue DEF Queue!Next
<1>4. ASSUME NEW k \in {"consume", "peek", "drop"}, NEW n \in 1..MaxAsk, ConsumerCall(k, n)
      PROVE  Queue!Next
  BY <1>4, ConsumerCallQueue DEF Queue!Next
<1>5. CASE ConsumerCopy
  BY <1>5, StoredUnchanged DEF ConsumerCopy, producerVars, Queue!vars
<1>6. CASE ConsumerReturn
  BY <1>6, ConsumerReturnQueue DEF Queue!Next
<1>7. CASE UNCHANGED vars
  BY <1>7, StoredUnchanged DEF vars, producerVars, consumerVars, Queue!vars
<1>8. QED
  BY <1>1, <1>2, <1>3, <1>4, <1>5, <1>6, <1>7 DEF Next, Producer, Consumer

(* Seen from outside, the byte-by-byte ring with two unsynchronised sides  *)
(* is a bounded queue whose calls are atomic.                              *)
THEOREM RingIsByteQueue == Spec => IsByteQueue
  BY QueueInit, QueueStep, DataInvariant, PTL DEF Spec, IsByteQueue, Queue!Spec
=============================================================================
