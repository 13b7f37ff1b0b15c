----------------------------- MODULE FutexMutex -----------------------------
(***************************************************************************)
(* cellar_mutex_t: a futex word with 0 unlocked, 1 locked, 2 contended,    *)
(* and the steps of lock, trylock and unlock (sync.c).  A thread calls     *)
(* lock or trylock only while it does not hold the mutex (the lock is not  *)
(* recursive) and unlock only while it does: the contract of a plain lock. *)
(***************************************************************************)
EXTENDS Futex

VARIABLES
  mword,     \* cellar_mutex_t.state
  mholder    \* the threads whose lock call has returned and that have not unlocked

mutexVars == <<mword, mholder>>

MutexLabels == {"m_mark", "m_wait", "m_parked", "m_retry", "m_wake"}

(* Threads on the way to the mutex that will still touch its word by       *)
(* themselves: nobody has to wake them.                                    *)
MutexAwake == At("m_mark") \cup At("m_wait") \cup At("m_retry")

MutexInit ==
  /\ mword = 0
  /\ mholder = {}

(* The fast path 0 -> 1.  A failure that saw 2 goes straight to the wait,  *)
(* any other failure (a spurious one included) marks the word first.       *)
LockFast(t) ==
  /\ pc[t] = "idle" /\ t \notin mholder
  /\ \/ /\ mword = 0
        /\ mword' = 1
        /\ mholder' = mholder \cup {t}
        /\ UNCHANGED pc
     \/ /\ mword = 1 \/ (mword = 0 /\ SpuriousCas)
        /\ Goto(t, "m_mark")
        /\ UNCHANGED <<mword, mholder>>
     \/ /\ mword = 2
        /\ Goto(t, "m_wait")
        /\ UNCHANGED <<mword, mholder>>
  /\ UNCHANGED slips

(* atomic_exchange(state, 2): the old value is dropped.                    *)
LockMark(t) ==
  /\ pc[t] = "m_mark"
  /\ mword' = 2
  /\ Slip("stray", mword = 0)
  /\ Goto(t, "m_wait")
  /\ UNCHANGED mholder

LockWait(t) ==
  /\ pc[t] = "m_wait"
  /\ FutexWait(t, mword, 2, "m_parked", "m_retry")
  /\ UNCHANGED <<mutexVars, slips>>

LockInterrupted(t) ==
  /\ FutexInterrupt(t, "m_parked", "m_retry")
  /\ UNCHANGED <<mutexVars, slips>>

(* Variant: enter after the wake without the compare-exchange.             *)
LockRetryBlind(t) ==
  /\ pc[t] = "m_retry"
  /\ mword' = 2
  /\ mholder' = mholder \cup {t}
  /\ Goto(t, "idle")
  /\ UNCHANGED slips

(* Variant: take the mutex as "locked" and forget the other sleepers.      *)
LockRetryAsOne(t) ==
  /\ pc[t] = "m_retry"
  /\ \/ /\ mword = 0
        /\ mword' = 1
        /\ mholder' = mholder \cup {t}
        /\ Goto(t, "idle")
     \/ /\ mword # 0 \/ SpuriousCas
        /\ Goto(t, "m_mark")
        /\ UNCHANGED <<mword, mholder>>
  /\ UNCHANGED slips

(* Back from the futex: 0 -> 2, or mark the word again and wait again.     *)
LockRetry(t) ==
  /\ pc[t] = "m_retry"
  /\ \/ /\ mword = 0
        /\ mword' = 2
        /\ mholder' = mholder \cup {t}
        /\ Goto(t, "idle")
     \/ /\ mword # 0 \/ SpuriousCas
        /\ Goto(t, "m_mark")
        /\ UNCHANGED <<mword, mholder>>
  /\ UNCHANGED slips

(* atomic_exchange(state, 1) == 0: on failure the word has become 1.       *)
TryLock(t) ==
  /\ pc[t] = "idle" /\ t \notin mholder
  /\ mword' = 1
  /\ mholder' = IF mword = 0 THEN mholder \cup {t} ELSE mholder
  /\ Slip("erased", mword = 2)
  /\ UNCHANGED pc

(* Variant: decrement the word, as if "contended" were a waiter count.     *)
UnlockDecrement(t) ==
  /\ pc[t] = "idle" /\ t \in mholder
  /\ mholder' = mholder \ {t}
  /\ mword' = mword - 1
  /\ Goto(t, IF mword = 2 THEN "m_wake" ELSE "idle")
  /\ UNCHANGED slips

(* atomic_exchange(state, 0), and a wake only if the word said contended.  *)
Unlock(t) ==
  /\ pc[t] = "idle" /\ t \in mholder
  /\ mholder' = mholder \ {t}
  /\ mword' = 0
  /\ Goto(t, IF mword = 2 THEN "m_wake" ELSE "idle")
  /\ UNCHANGED slips

UnlockWake(t) ==
  /\ pc[t] = "m_wake"
  /\ FutexWakeOne(t, "m_parked", "m_retry")
  /\ UNCHANGED <<mutexVars, slips>>

MutexStep(t) ==
  \/ LockFast(t) \/ LockMark(t) \/ LockWait(t) \/ LockInterrupted(t)
  \/ LockRetry(t) \/ TryLock(t) \/ Unlock(t) \/ UnlockWake(t)

-----------------------------------------------------------------------------
MutexTypeOK ==
  /\ mword \in 0..2
  /\ mholder \in SUBSET Threads

(* Mutual exclusion: at most one thread is between a successful lock or    *)
(* trylock and its unlock, whatever the interleaving of the fast path, the *)
(* two marking exchanges, spurious CAS failures and interrupted waits.     *)
MutualExclusion == \A s, t \in mholder : s = t

(* A held mutex is never free for the fast path: an unlock by the holder   *)
(* is the only way back to 0.                                              *)
HeldMeansLocked == mholder # {} => mword # 0

(* And the converse: a word that says "locked" or "contended" has a holder *)
(* whose unlock will free it, or the mutex is lost to everybody.  It holds *)
(* until the slow path marks a mutex that was unlocked between its two     *)
(* accesses, and says that this is the only way a mutex gets lost.         *)
LockedHasHolder == mword # 0 /\ "stray" \notin slips => mholder # {}

(* No lost wakeup: a thread parked on the mutex is always owed a wake.     *)
(* Either the word still says "contended", so the next unlock wakes, or a  *)
(* wake is on its way, or another thread of the slow path is awake and     *)
(* will mark the word again.  It holds as long as no failed trylock has    *)
(* overwritten the contended mark, and says that this overwrite is the     *)
(* only way sync.c forgets a sleeper.                                      *)
WakeupOwed ==
  At("m_parked") # {} /\ "erased" \notin slips =>
    mword = 2 \/ At("m_wake") # {} \/ MutexAwake # {}

(* sync.c, on the slow path: "mark contended (2) and sleep until we        *)
(* acquire it".  A locked word with sleepers needs a thread that will wake *)
(* them: the holder, a wake on its way, or a thread still awake in lock.   *)
SleeperHasWaker ==
  At("m_parked") # {} =>
    mholder # {} \/ At("m_wake") # {} \/ MutexAwake # {}
=============================================================================
