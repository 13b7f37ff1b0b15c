----------------------------- MODULE CellarSync -----------------------------
(***************************************************************************)
(* A process whose threads use one spinlock, one mutex, one semaphore and  *)
(* one event of sync.c together.  A thread is inside at most one call at a *)
(* time, but may hold the spinlock and the mutex while it makes others.    *)
(***************************************************************************)
EXTENDS FutexMutex, SpinLock, FutexSemaphore, FutexEvent

vars == <<pc, slips, mutexVars, spinVars, semVars, eventVars>>

Labels == {"idle"} \cup MutexLabels \cup SpinLabels \cup SemLabels \cup EventLabels

Init ==
  /\ pc = [t \in Threads |-> "idle"]
  /\ slips = {}
  /\ MutexInit
  /\ SpinInit
  /\ SemInit
  /\ EventInit

Step(t) ==
  \/ MutexStep(t) /\ UNCHANGED <<spinVars, semVars, eventVars>>
  \/ SpinStep(t) /\ UNCHANGED <<slips, mutexVars, semVars, eventVars>>
  \/ SemStep(t) /\ UNCHANGED <<mutexVars, spinVars, eventVars>>
  \/ EventStep(t) /\ UNCHANGED <<slips, mutexVars, spinVars, semVars>>

Next == \E t \in Threads : Step(t)

Spec == Init /\ [][Next]_vars

(* The types of the words, of what each thread knows and of where it is in *)
(* sync.c: no step of one primitive leaves another with an odd value.      *)
TypeOK ==
  /\ pc \in [Threads -> Labels]
  /\ slips \subseteq Slips
  /\ MutexTypeOK
  /\ SpinTypeOK
  /\ SemTypeOK
  /\ EventTypeOK
=============================================================================
