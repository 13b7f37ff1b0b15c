------------------------------ MODULE SpinLock ------------------------------
(***************************************************************************)
(* cellar_spinlock_t (sync.c): test-and-test-and-set with sched_yield.     *)
(***************************************************************************)
EXTENDS Futex

VARIABLES
  sword,     \* cellar_spinlock_t.state
  sholder    \* the threads between a successful lock or trylock and unlock

spinVars == <<sword, sholder>>

SpinLabels == {"l_spin", "l_xchg"}

SpinInit ==
  /\ sword = 0
  /\ sholder = {}

(* Variant: after the load saw the lock free, drop the exchange's answer.  *)
SpinExchangeTrusting(t) ==
  /\ \/ pc[t] = "idle" /\ t \notin sholder
     \/ pc[t] = "l_xchg"
  /\ sword' = 1
  /\ \/ /\ sword = 0 \/ pc[t] = "l_xchg"
        /\ sholder' = sholder \cup {t}
        /\ Goto(t, "idle")
     \/ /\ sword # 0 /\ pc[t] = "idle"
        /\ Goto(t, "l_spin")
        /\ UNCHANGED sholder

(* atomic_exchange(state, 1): the lock is ours iff it was free.            *)
SpinExchange(t) ==
  /\ \/ pc[t] = "idle" /\ t \notin sholder
     \/ pc[t] = "l_xchg"
  /\ sword' = 1
  /\ \/ /\ sword = 0
        /\ sholder' = sholder \cup {t}
        /\ Goto(t, "idle")
     \/ /\ sword # 0
        /\ Goto(t, "l_spin")
        /\ UNCHANGED sholder

(* The inner loop ends at the first load that sees the lock free; a load   *)
(* that does not changes nothing.                                          *)
SpinLoad(t) ==
  /\ pc[t] = "l_spin" /\ sword = 0
  /\ Goto(t, "l_xchg")
  /\ UNCHANGED spinVars

SpinTryLock(t) ==
  /\ pc[t] = "idle" /\ t \notin sholder
  /\ sword' = 1
  /\ sholder' = IF sword = 0 THEN sholder \cup {t} ELSE sholder
  /\ UNCHANGED pc

SpinUnlock(t) ==
  /\ pc[t] = "idle" /\ t \in sholder
  /\ sword' = 0
  /\ sholder' = sholder \ {t}
  /\ UNCHANGED pc

SpinStep(t) ==
  SpinExchange(t) \/ SpinLoad(t) \/ SpinTryLock(t) \/ SpinUnlock(t)

-----------------------------------------------------------------------------
SpinTypeOK ==
  /\ sword \in 0..1
  /\ sholder \in SUBSET Threads

(* Mutual exclusion of the spinlock, and no leak: the word is 1 exactly    *)
(* while some thread holds the lock, so a failed exchange never leaves the *)
(* lock taken with nobody to release it.                                   *)
SpinExclusion ==
  /\ \A s, t \in sholder : s = t
  /\ sword = 1 <=> sholder # {}
=============================================================================
