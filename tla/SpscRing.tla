------------------------------ MODULE SpscRing ------------------------------
(***************************************************************************)
(* The single-producer single-consumer byte ring of shmem.c, step by step: *)
(* a call first reads the two cursors, then copies byte by byte, then      *)
(* publishes its own cursor; steps of the two sides interleave freely.     *)
(***************************************************************************)
EXTENDS Integers, Sequences

CONSTANTS
  Bytes,      \* the values of a byte
  Junk,       \* what malloc leaves in the buffer
  Chunks,     \* the data producers pass: a set of non-empty sequences over Bytes
  Capacity,   \* r->capacity: a power of two, at most 2^32, so that & mask is % Capacity
  MaxAsk,     \* bound: the longest length a consumer asks for
  MaxBytes    \* bound: the bytes produced in a behaviour

ASSUME RingAssumption ==
  /\ Capacity \in Nat \ {0}
  /\ MaxAsk \in Nat
  /\ MaxBytes \in Nat
  /\ Junk \notin Bytes
  /\ \A d \in Chunks : d \in Seq(Bytes) /\ d # << >>

VARIABLES
  buf,     \* r->buf, by offset
  head,    \* r->head
  tail,    \* r->tail
  data,    \* the accepted part of the producer's data, << >> outside produce
  base,    \* the producer's local tail
  done,    \* how many bytes of data the producer has copied
  kind,    \* the consumer's call: "consume", "peek" or "drop"
  want,    \* its clamped length, 0 outside a call
  out,     \* the bytes it has copied to its caller's dst so far
  got      \* what the last consume or peek returned

producerVars == <<data, base, done>>
consumerVars == <<kind, want, out, got>>
vars == <<buf, head, tail, producerVars, consumerVars>>

Least(a, b) == IF a <= b THEN a ELSE b

Slot(x) == x % Capacity

Used == tail - head
(* Variant: the space left, taken from the wrapped offsets. *)
FreeOfSlots == Capacity - (Slot(tail) - Slot(head))
Free == Capacity - (tail - head)

(* Variant: the second memcpy does not start at the front of the buffer. *)
PositionNotRewound(x, k) ==
  LET first == Capacity - Slot(x)
  IN  IF k < first THEN Slot(x) + k ELSE k

(* Where byte k of a copy that starts at cursor x goes: the first memcpy   *)
(* runs to the end of the buffer, the second starts again at its front.    *)
Position(x, k) ==
  LET first == Capacity - Slot(x)
  IN  IF k < first THEN Slot(x) + k ELSE k - first

RingCreate ==
  /\ buf = [i \in 0..(Capacity - 1) |-> Junk]
  /\ head = 0 /\ tail = 0
  /\ data = << >> /\ base = 0 /\ done = 0
  /\ kind = "consume" /\ want = 0 /\ out = << >> /\ got = << >>

(* Variant: tail is published before the bytes are copied. *)
ProduceCallReserving(d) ==
  /\ data = << >> /\ Free > 0
  /\ tail + Len(d) <= MaxBytes
  /\ data' = SubSeq(d, 1, Least(Len(d), Free))
  /\ base' = tail
  /\ tail' = tail + Least(Len(d), Free)
  /\ done' = 0
  /\ UNCHANGED <<buf, head, consumerVars>>

(* The producer reads its own tail and the consumer's head and fixes the   *)
(* length; a full ring returns 0 at once.                                  *)
ProduceCall(d) ==
  /\ data = << >> /\ Free > 0
  /\ tail + Len(d) <= MaxBytes
  /\ data' = SubSeq(d, 1, Least(Len(d), Free))
  /\ base' = tail
  /\ done' = 0
  /\ UNCHANGED <<buf, head, tail, consumerVars>>

ProduceCopy ==
  /\ done < Len(data)
  /\ buf' = [buf EXCEPT ![Position(base, done)] = data[done + 1]]
  /\ done' = done + 1
  /\ UNCHANGED <<head, tail, data, base, consumerVars>>

(* Variant: the next call starts with this call's count of copied bytes. *)
ProducePublishStale ==
  /\ data # << >> /\ done = Len(data)
  /\ tail' = base + Len(data)
  /\ base' = base + Len(data)
  /\ data' = << >>
  /\ UNCHANGED <<buf, head, done, consumerVars>>

ProducePublish ==
  /\ data # << >> /\ done = Len(data)
  /\ tail' = base + Len(data)
  /\ base' = base + Len(data)
  /\ data' = << >>
  /\ done' = 0
  /\ UNCHANGED <<buf, head, consumerVars>>

ConsumerCall(k, n) ==
  /\ want = 0 /\ Used > 0
  /\ kind' = k
  /\ want' = Least(n, Used)
  /\ out' = << >>
  /\ UNCHANGED <<buf, head, tail, producerVars, got>>

ConsumerCopy ==
  /\ want # 0 /\ kind # "drop" /\ Len(out) < want
  /\ out' = Append(out, buf[Position(head, Len(out))])
  /\ UNCHANGED <<buf, head, tail, producerVars, kind, want, got>>

(* Variant: peek advances the cursor as consume does. *)
ConsumerReturnAdvancing ==
  /\ want # 0 /\ (kind = "drop" \/ Len(out) = want)
  /\ head' = head + want
  /\ got' = IF kind = "drop" THEN got ELSE out
  /\ want' = 0
  /\ out' = << >>
  /\ UNCHANGED <<buf, tail, producerVars, kind>>

ConsumerReturn ==
  /\ want # 0 /\ (kind = "drop" \/ Len(out) = want)
  /\ head' = IF kind = "peek" THEN head ELSE head + want
  /\ got' = IF kind = "drop" THEN got ELSE out
  /\ want' = 0
  /\ out' = << >>
  /\ UNCHANGED <<buf, tail, producerVars, kind>>

Producer == (\E d \in Chunks : ProduceCall(d)) \/ ProduceCopy \/ ProducePublish

Consumer ==
  \/ \E k \in {"consume", "peek", "drop"}, n \in 1..MaxAsk : ConsumerCall(k, n)
  \/ ConsumerCopy
  \/ ConsumerReturn

Next == Producer \/ Consumer

Spec == RingCreate /\ [][Next]_vars

-----------------------------------------------------------------------------
(* Types: the cursors count up and never go back below zero, a call has    *)
(* copied at most what it accepted, and no byte comes from outside.        *)
TypeOK ==
  /\ buf \in [0..(Capacity - 1) -> Bytes \cup {Junk}]
  /\ head \in Nat /\ tail \in Nat
  /\ data \in Seq(Bytes)
  /\ base \in Nat /\ done \in 0..Len(data)
  /\ kind \in {"consume", "peek", "drop"}
  /\ want \in Nat
  /\ out \in Seq(Bytes \cup {Junk})
  /\ got \in Seq(Bytes \cup {Junk})

(* The bytes between the cursors, oldest first: what a reader of the ring  *)
(* may believe is stored.                                                  *)
Stored == [i \in 1..Used |-> buf[Slot(head + i - 1)]]

(* The cursors never cross and never drift further apart than the buffer   *)
(* is long, the bytes a produce call is still copying included: the        *)
(* producer never writes over a byte the consumer has yet to read, though  *)
(* it clamps its length with a head that may be old when it is used.       *)
NoOverwrite ==
  /\ head <= tail
  /\ head + want <= tail
  /\ base + Len(data) - head <= Capacity

(* shmem.c: "Publish after the data is visible".  Every byte below tail    *)
(* has been copied into the buffer.                                        *)
PublishedIsWritten == tail <= base + done

(* A consumer's copy in progress is a prefix of the stored bytes, whatever *)
(* the producer has done to the buffer since the call read the cursors.    *)
CopiedIsStored == out = SubSeq(Stored, 1, Len(out))

Queue == INSTANCE ByteQueue WITH queue <- Stored, offer <- data

(* The ring implements the bounded queue: nothing is lost, duplicated,     *)
(* reordered, torn or invented, also across the wrap of the buffer.        *)
IsByteQueue == Queue!Spec
=============================================================================
