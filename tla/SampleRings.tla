---------------------------- MODULE SampleRings ----------------------------
(***************************************************************************)
(* Two rings that overwrite their oldest entry: the trace samples of       *)
(* perf.c and the frame times of timer.c, with what is read from them.     *)
(***************************************************************************)
EXTENDS Integers, Sequences, FiniteSets, FiniteSetsExt, SequencesExt

CONSTANTS
  SampleCap,   \* CELLAR_PERF_RING_CAP
  FrameCap,    \* CELLAR_FRAMETIME_HISTORY
  FrameTimes,  \* frame durations
  MaxSamples,  \* bound: samples traced
  MaxFrames    \* bound: frames added

ASSUME RingsAssumption ==
  /\ {SampleCap, FrameCap} \subseteq Nat \ {0} /\ {MaxSamples, MaxFrames} \subseteq Nat
  /\ FrameTimes \subseteq Nat

VARIABLES
  sample,  \* [ring, pos, count] of perf.c; a sample is known by its number
  traced,  \* history: how many samples have been traced
  frame,   \* [ring, pos, count] of a cellar_frametime_t
  frames   \* history: all frames since its init

sampleVars == <<sample, traced>>
frameVars == <<frame, frames>>

SamplesInit ==
  /\ sample = [ring |-> [i \in 0..SampleCap - 1 |-> 0], pos |-> 0, count |-> 0] /\ traced = 0
FramesInit ==
  /\ frame = [ring |-> [i \in 0..FrameCap - 1 |-> 0], pos |-> 0, count |-> 0] /\ frames = << >>

Push(r, cap, v) ==
  [ring |-> [r.ring EXCEPT ![r.pos] = v],
   pos |-> (r.pos + 1) % cap,
   count |-> IF r.count < cap THEN r.count + 1 ELSE r.count]

(* Variant: a full ring is read from its first slot.                       *)
OldestAtFront(r, cap) == IF r.count = cap THEN 0 ELSE (r.pos + cap - r.count) % cap
Oldest(r, cap) == (r.pos + cap - r.count) % cap

Trace ==
  /\ traced < MaxSamples
  /\ sample' = Push(sample, SampleCap, traced + 1)
  /\ traced' = traced + 1

(* cellar_perf_ring_drain: the first n of what the ring holds, which stays *)
(* in the ring.                                                            *)
Drain(n) ==
  [i \in 1..(IF n < sample.count THEN n ELSE sample.count) |->
     sample.ring[(Oldest(sample, SampleCap) + i - 1) % SampleCap]]

AddFrame(t) ==
  /\ Len(frames) < MaxFrames
  /\ frame' = Push(frame, FrameCap, t)
  /\ frames' = Append(frames, t)

(* init leaves the old frames in the ring.                                 *)
InitFrames ==
  /\ frame' = [frame EXCEPT !.pos = 0, !.count = 0] /\ frames' = << >>

(* (size_t)(0.99 * n) - 1, which for one frame wraps and is clamped.       *)
Low1Index(n) == IF n = 1 THEN 0 ELSE (99 * n) \div 100 - 1

(* One step of the insertion sort: t goes behind the last entry of those   *)
(* sorted before it that is not greater.                                   *)
InsertSorted(sorted, t) ==
  InsertAt(sorted, 1 + Max({0} \cup {i \in DOMAIN sorted : sorted[i] <= t}), t)

Sorted(seq) ==
  LET upto[i \in 0..Len(seq)] == IF i = 0 THEN << >> ELSE InsertSorted(upto[i - 1], seq[i])
  IN  upto[Len(seq)]

Total(seq) == FoldLeft(+, 0, seq)

(* cellar_frametime_report of a history that is not empty: the frames in   *)
(* order of time, sorted for the percentile and the maximum.  frame_ms is  *)
(* sum / n, fps its inverse.                                               *)
Report ==
  LET n == frame.count
      recent == [i \in 1..n |-> frame.ring[(Oldest(frame, FrameCap) + i - 1) % FrameCap]]
  IN  [sum |-> Total(recent), n |-> n,
       low1 |-> Sorted(recent)[Low1Index(n) + 1], max |-> Sorted(recent)[n]]

SampleStep == Trace
FrameStep == InitFrames \/ \E t \in FrameTimes : AddFrame(t)

-----------------------------------------------------------------------------
SamplesTypeOK ==
  /\ sample.pos \in 0..SampleCap - 1 /\ sample.count \in 0..SampleCap
  /\ frame.pos \in 0..FrameCap - 1 /\ frame.count \in 0..FrameCap

(* A drain of any length delivers as many samples as it may of those still *)
(* kept, which are the last SampleCap traced, in the order they were       *)
(* traced, none twice and none left out between: also once the ring has    *)
(* wrapped.  A drain that is long enough delivers all of them; from which  *)
(* one a shorter drain begins is not claimed (perf.h has it end with the   *)
(* latest, perf.c begins with the oldest).                                 *)
DrainInOrder ==
  LET kept == IF traced < SampleCap THEN traced ELSE SampleCap
  IN  \A n \in 0..SampleCap + 1 :
        LET m == IF n < kept THEN n ELSE kept
        IN  \E from \in traced - kept..traced - m : Drain(n) = [i \in 1..m |-> from + i]

(* The report is that of the last FrameCap frames of this init, whatever   *)
(* the ring has been used for: the sum, the longest, and as low1 a frame   *)
(* with 99 of 100 frames before it in order of duration, where a share     *)
(* that is not whole may be rounded down, as timer.c does, or up, as its   *)
(* comment has it.                                                         *)
ReportIsRecent ==
  LET all == Len(frames)
      n == IF all < FrameCap THEN all ELSE FrameCap
      window == [i \in 1..n |-> frames[all - n + i]]
      Within(t) == Cardinality({i \in 1..n : window[i] <= t})
      Below(t) == Cardinality({i \in 1..n : window[i] < t})
      down == (99 * n) \div 100
      up == (99 * n + 99) \div 100
  IN  n > 0 =>
        /\ Report.n = n /\ Report.sum = Total(window)
        /\ Within(Report.max) = n /\ Below(Report.max) < n
        /\ Below(Report.low1) < up /\ Within(Report.low1) >= down
=============================================================================
