------------------------------- MODULE Futex -------------------------------
(***************************************************************************)
(* What the primitives of sync.c share: the threads that call them, where  *)
(* in the code each thread is, and cellar_futex_wait / cellar_futex_wake.  *)
(*                                                                         *)
(* Every primitive owns one futex word.  A thread parked in the kernel on  *)
(* a word is a thread whose pc is that word's parking label, so the        *)
(* kernel's wait queue of the word is At(label).  C11 atomics without an   *)
(* explicit order are sequentially consistent: one atomic access is one    *)
(* step.                                                                   *)
(***************************************************************************)
EXTENDS Integers

CONSTANTS
  Threads,      \* the threads of the process
  SpuriousCas   \* TRUE on LL/SC machines, where a weak compare-exchange may fail for no reason

ASSUME SpuriousCasAssumption == SpuriousCas \in BOOLEAN

VARIABLES
  pc,     \* [Threads -> label]: "idle" outside sync.c, else the next atomic access
  slips   \* history: which of Slips have happened so far

(* Steps after which a primitive no longer keeps what it promises; the     *)
(* properties below are stated up to them.                                 *)
Slips == {
  "erased",     \* a failed trylock has overwritten "contended" by "locked"
  "stray",      \* the slow path has marked an unlocked mutex as contended
  "unitSleep"   \* a semaphore wait has gone to sleep on a positive count
}

Slip(kind, happens) == slips' = IF happens THEN slips \cup {kind} ELSE slips

At(label) == {t \in Threads : pc[t] = label}

Goto(t, label) == pc' = [pc EXCEPT ![t] = label]

(* FUTEX_WAIT compares and parks in one step.  When the word no longer     *)
(* holds val it fails with EAGAIN and the caller goes round again.         *)
FutexWait(t, word, val, parked, again) ==
  \/ word = val /\ Goto(t, parked)
  \/ word # val /\ Goto(t, again)

(* A signal ends the wait with EINTR; cellar_futex_wait returns -1 and     *)
(* every caller treats that as a reason to look at the word again.         *)
FutexInterrupt(t, parked, again) ==
  /\ pc[t] = parked
  /\ Goto(t, again)

(* FUTEX_WAKE with count 1: one parked thread, whichever the kernel takes. *)
FutexWakeOne(t, parked, again) ==
  \/ /\ At(parked) = {}
     /\ Goto(t, "idle")
  \/ \E s \in At(parked) :
       pc' = [pc EXCEPT ![s] = again, ![t] = "idle"]
=============================================================================
