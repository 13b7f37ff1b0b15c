----------------------------- MODULE ByteQueue -----------------------------
(***************************************************************************)
(* What a ring of shmem.h promises: a bounded first-in first-out queue of  *)
(* bytes between one producer and one consumer.  A produce call accepts as *)
(* much of its data as fits when it is made and the bytes become available *)
(* all at once; a consume, peek or drop call answers with as many of the   *)
(* oldest bytes as were there when it was made.                            *)
(***************************************************************************)
EXTENDS Integers, Sequences

CONSTANTS
  Chunks,     \* the data producers pass: a set of non-empty sequences
  Capacity,   \* how many bytes the queue holds
  MaxAsk      \* the longest length a consumer asks for

VARIABLES
  queue,   \* the bytes available
  offer,   \* what the pending produce call has accepted, << >> without one
  kind,    \* the consumer's call: "consume", "peek" or "drop"
  want,    \* how many bytes the pending consumer call answers with, 0 without one
  got      \* the bytes the last consume or peek returned

vars == <<queue, offer, kind, want, got>>

Least(a, b) == IF a <= b THEN a ELSE b

Init ==
  /\ queue = << >> /\ offer = << >>
  /\ kind = "consume" /\ want = 0 /\ got = << >>

Produce(d) ==
  /\ offer = << >> /\ Len(queue) < Capacity
  /\ offer' = SubSeq(d, 1, Least(Len(d), Capacity - Len(queue)))
  /\ UNCHANGED <<queue, kind, want, got>>

Produced ==
  /\ offer # << >>
  /\ queue' = queue \o offer
  /\ offer' = << >>
  /\ UNCHANGED <<kind, want, got>>

Ask(k, n) ==
  /\ want = 0 /\ queue # << >>
  /\ kind' = k
  /\ want' = Least(n, Len(queue))
  /\ UNCHANGED <<queue, offer, got>>

(* Consume removes and returns the oldest bytes, peek only returns them,   *)
(* drop only removes them.                                                 *)
Answer ==
  /\ want # 0
  /\ want' = 0
  /\ queue' = IF kind = "peek" THEN queue ELSE SubSeq(queue, want + 1, Len(queue))
  /\ got' = IF kind = "drop" THEN got ELSE SubSeq(queue, 1, want)
  /\ UNCHANGED <<offer, kind>>

Next ==
  \/ \E d \in Chunks : Produce(d)
  \/ Produced
  \/ \E k \in {"consume", "peek", "drop"}, n \in 1..MaxAsk : Ask(k, n)
  \/ Answer

Spec == Init /\ [][Next]_vars
=============================================================================
