------------------------------ MODULE WaveOut ------------------------------
(***************************************************************************)
(* The waveOut devices of mod_winmm.c over the WAV sink of audio.c.  A     *)
(* handle is the number of a slot; every open slot writes the same file    *)
(* through a stdio buffer of its own and patches the header on close.      *)
(* Clients use a handle while it is theirs, and may use it after their     *)
(* own close.                                                              *)
(***************************************************************************)
EXTENDS Integers, Sequences, FiniteSets, FiniteSetsExt

CONSTANTS
  Clients,
  Slots,     \* CELLAR_MAX_AUDIO_DEVICES
  MaxChunks  \* bound: buffers written to one device, a cut one included

ASSUME WaveAssumption == Slots \in Nat \ {0} /\ MaxChunks \in Nat

VARIABLES
  open,     \* [1..Slots -> BOOLEAN]
  total,    \* [1..Slots -> buffers that stdio has got, in full or in part]
  counted,  \* [1..Slots -> those of them in the sink's total_bytes]
  spilled,  \* [1..Slots -> those of them that are in the file]
  wav,      \* the file: the size in its header, and the slot each chunk is from
  handle,   \* [Clients -> the handle its last open returned, 0 if none]
  mine,     \* history: clients that have not closed their handle yet
  stray,    \* history: a handle was used after its client's close
  shared,   \* history: two devices have been writing this file
  cut       \* history: a write into this file has failed half-way

waveVars == <<open, total, counted, spilled, wav, handle, mine, stray, shared, cut>>

WaveInit ==
  /\ open = [s \in 1..Slots |-> FALSE]
  /\ total = [s \in 1..Slots |-> 0] /\ counted = total /\ spilled = total
  /\ wav = [size |-> 0, data |-> << >>]
  /\ handle = [c \in Clients |-> 0] /\ mine = {}
  /\ stray = FALSE /\ shared = FALSE /\ cut = FALSE

(* Variant: the slot is chosen by its sink being unused.                   *)
FreeSlotsBySink == {s \in 1..Slots : total[s] = 0}

FreeSlots == {s \in 1..Slots : ~open[s]}

(* wav_open truncates the file and writes a header whose sizes are 0 until *)
(* close; every sink has the path of CELLAR_WAV_OUT.                       *)
OpenSink == wav' = [size |-> 0, data |-> << >>]

(* Open: the first free slot, or MMSYSERR_ALLOCATED.  (A query, a bad      *)
(* device or format returns before this.  When the sink has no memory or   *)
(* its file cannot be opened, MMSYSERR_NODRIVER, the slot stays free and   *)
(* nothing has changed.)                                                   *)
WaveOpen(c) ==
  /\ c \notin mine /\ FreeSlots # {}
  /\ LET s == Min(FreeSlots)
     IN  /\ open' = [open EXCEPT ![s] = TRUE]
         /\ total' = [total EXCEPT ![s] = 0] /\ counted' = [counted EXCEPT ![s] = 0]
         /\ spilled' = [spilled EXCEPT ![s] = 0]
         /\ handle' = [handle EXCEPT ![c] = s]
  /\ OpenSink
  /\ mine' = mine \cup {c}
  /\ shared' = (\E s \in 1..Slots : open[s]) /\ cut' = FALSE
  /\ UNCHANGED stray

(* A handle that is no slot's, or a slot's that is not open, is refused.   *)
Valid(c) == handle[c] # 0 /\ open[handle[c]]
Use(c) == stray' = (stray \/ c \notin mine)

(* Write needs no prepared header; the buffer goes to stdio.  A part that  *)
(* is taken by a write that fails is not counted.                          *)
WaveWrite(c) ==
  /\ Valid(c) /\ total[handle[c]] < MaxChunks
  /\ total' = [total EXCEPT ![handle[c]] = @ + 1]
  /\ \/ counted' = [counted EXCEPT ![handle[c]] = @ + 1] /\ UNCHANGED cut
     \/ cut' = TRUE /\ UNCHANGED counted
  /\ Use(c)
  /\ UNCHANGED <<open, spilled, wav, handle, mine, shared>>

(* The file with chunks m + 1 .. n of slot s written at their own place.   *)
Filled(s, m, n) ==
  [i \in 1..(IF n > Len(wav.data) THEN n ELSE Len(wav.data)) |->
     IF i \in m + 1..n THEN s ELSE IF i \in DOMAIN wav.data THEN wav.data[i] ELSE 0]

(* stdio writes out some of what it holds.                                 *)
WaveSpill(s) ==
  /\ open[s] /\ spilled[s] < total[s]
  /\ wav' = [wav EXCEPT !.data = Filled(s, spilled[s], spilled[s] + 1)]
  /\ spilled' = [spilled EXCEPT ![s] = @ + 1]
  /\ UNCHANGED <<open, total, counted, handle, mine, stray, shared, cut>>

(* Variant: the header gets the size that has reached the file.            *)
CloseSizing(s) ==
  wav' = [size |-> spilled[s], data |-> Filled(s, spilled[s], total[s])]

(* wav_close: the rest of the buffer, then the size of what was counted.   *)
CloseSink(s) ==
  wav' = [size |-> counted[s], data |-> Filled(s, spilled[s], total[s])]

WaveClose(c) ==
  /\ Valid(c)
  /\ LET s == handle[c]
     IN  /\ CloseSink(s)
         /\ open' = [open EXCEPT ![s] = FALSE]
         /\ total' = [total EXCEPT ![s] = 0] /\ counted' = [counted EXCEPT ![s] = 0]
         /\ spilled' = [spilled EXCEPT ![s] = 0]
  /\ mine' = mine \ {c}
  /\ Use(c)
  /\ UNCHANGED <<handle, shared, cut>>

(* Reset: the sink has nothing to drop, and the position stays.            *)
WaveReset(c) ==
  /\ Valid(c)
  /\ Use(c)
  /\ UNCHANGED <<open, total, counted, spilled, wav, handle, mine, shared, cut>>

WaveNext ==
  \/ \E c \in Clients : WaveOpen(c) \/ WaveWrite(c) \/ WaveReset(c) \/ WaveClose(c)
  \/ \E s \in 1..Slots : WaveSpill(s)

-----------------------------------------------------------------------------
WaveTypeOK ==
  /\ open \in [1..Slots -> BOOLEAN] /\ handle \in [Clients -> 0..Slots]
  /\ \A s \in 1..Slots : /\ spilled[s] \in 0..total[s] /\ counted[s] \in 0..total[s]
                         /\ total[s] \in 0..MaxChunks
  /\ wav.size \in 0..MaxChunks /\ mine \subseteq Clients

(* Slots are reused at once, and still no two clients ever hold the same   *)
(* open device, as long as nobody uses a handle that he has closed.        *)
HandlesPrivate ==
  ~stray =>
    \A c \in mine : /\ open[handle[c]]
                    /\ \A d \in mine \ {c} : handle[c] # handle[d]

(* When all devices are closed and no two of them were open together, the  *)
(* WAV file is whole: the size in its header is that of its data, and the  *)
(* data is one device's without a gap, whenever stdio wrote it out.  After *)
(* a write that failed half-way the header promises no more than is there. *)
WavWhole ==
  (~shared /\ \A s \in 1..Slots : ~open[s]) =>
    /\ wav.size <= Len(wav.data) /\ (~cut => wav.size = Len(wav.data))
    /\ \A i, j \in DOMAIN wav.data : wav.data[i] = wav.data[j] /\ wav.data[i] # 0
=============================================================================
