-------------------------- MODULE CellarSyncProofs --------------------------
(***************************************************************************)
(* What holds of CellarSync for every set of threads, every initial count  *)
(* and with or without spurious compare-exchange failures.                 *)
(***************************************************************************)
EXTENDS CellarSync, FiniteSetTheorems, TLAPS

-----------------------------------------------------------------------------
(* Type correctness.                                                       *)

LEMMA WakeTyping ==
  ASSUME NEW t \in Threads, NEW parked \in Labels, NEW again \in Labels,
         pc \in [Threads -> Labels], FutexWakeOne(t, parked, again)
  PROVE  pc' \in [Threads -> Labels]
  BY DEF FutexWakeOne, Goto, At, Labels

LEMMA MutexTyping ==
  ASSUME TypeOK, NEW t \in Threads, MutexStep(t)
  PROVE  pc' \in [Threads -> Labels] /\ MutexTypeOK'
<1> USE DEF TypeOK, MutexTypeOK, Goto, mutexVars
<1>1. CASE UnlockWake(t)
  BY <1>1, WakeTyping DEF UnlockWake, Labels, MutexLabels
<1>2. CASE LockFast(t)
  BY <1>2 DEF LockFast, Labels, MutexLabels
<1>3. CASE LockMark(t) \/ LockRetry(t)
  BY <1>3 DEF LockMark, LockRetry, Labels, MutexLabels
<1>4. CASE LockWait(t) \/ LockInterrupted(t)
  BY <1>4 DEF LockWait, LockInterrupted, FutexWait, FutexInterrupt, Labels, MutexLabels
<1>5. CASE TryLock(t) \/ Unlock(t)
  BY <1>5 DEF TryLock, Unlock, Labels, MutexLabels
<1>6. QED
  BY <1>1, <1>2, <1>3, <1>4, <1>5 DEF MutexStep

LEMMA SpinTyping ==
  ASSUME TypeOK, NEW t \in Threads, SpinStep(t)
  PROVE  pc' \in [Threads -> Labels] /\ SpinTypeOK'
  BY DEF TypeOK, SpinTypeOK, Goto, spinVars, SpinStep, SpinExchange, SpinLoad,
         SpinTryLock, SpinUnlock, Labels, SpinLabels

(* A thread about to compare-exchange knows a positive count.              *)
KnowsUnits == \A t \in Threads : pc[t] = "s_cas" => known[t] > 0

LEMMA SemTyping ==
  ASSUME TypeOK, KnowsUnits, NEW t \in Threads, SemStep(t)
  PROVE  pc' \in [Threads -> Labels] /\ SemTypeOK'
<1> USE DEF TypeOK, SemTypeOK, Goto, semVars
<1>1. CASE SemPostWake(t)
  BY <1>1, WakeTyping DEF SemPostWake, Labels, SemLabels
<1>2. CASE SemPost(t) \/ SemLoad(t)
  BY <1>2 DEF SemPost, SemLoad, Labels, SemLabels
<1>3. CASE SemCas(t)
  BY <1>3 DEF SemCas, KnowsUnits, Labels, SemLabels
<1>4. CASE SemWait(t) \/ SemInterrupted(t)
  BY <1>4 DEF SemWait, SemInterrupted, FutexWait, FutexInterrupt, Labels, SemLabels
<1>5. QED
  BY <1>1, <1>2, <1>3, <1>4 DEF SemStep

LEMMA KnowsUnitsSemStep ==
  ASSUME TypeOK, KnowsUnits, NEW t \in Threads, SemStep(t)
  PROVE  KnowsUnits'
<1> USE DEF TypeOK, SemTypeOK, Goto, semVars, KnowsUnits
<1>1. CASE SemPostWake(t)
  BY <1>1 DEF SemPostWake, FutexWakeOne, At
<1>2. CASE SemPost(t) \/ SemLoad(t)
  BY <1>2 DEF SemPost, SemLoad
<1>3. CASE SemCas(t)
  BY <1>3 DEF SemCas
<1>4. CASE SemWait(t) \/ SemInterrupted(t)
  BY <1>4 DEF SemWait, SemInterrupted, FutexWait, FutexInterrupt
<1>5. QED
  BY <1>1, <1>2, <1>3, <1>4 DEF SemStep

LEMMA EventTyping ==
  ASSUME TypeOK, NEW t \in Threads, EventStep(t)
  PROVE  pc' \in [Threads -> Labels] /\ EventTypeOK'
<1> USE DEF TypeOK, EventTypeOK, Goto, eventVars, At
<1>1. CASE EventSetWake(t)
  <2>1. pc' \in [Threads -> Labels]
    BY <1>1, WakeTyping DEF EventSetWake, Labels, EventLabels
  <2>2. QED
    BY <1>1, <2>1 DEF EventSetWake
<1>2. CASE EventSet(t) \/ EventReset(t)
  BY <1>2 DEF EventSet, EventReset, Labels, EventLabels
<1>3. CASE EventReturn(t) \/ EventGoWait(t)
  BY <1>3 DEF EventReturn, EventGoWait, Labels, EventLabels
<1>4. CASE EventWait(t) \/ EventInterrupted(t)
  BY <1>4 DEF EventWait, EventInterrupted, FutexWait, FutexInterrupt, Labels, EventLabels
<1>5. QED
  BY <1>1, <1>2, <1>3, <1>4 DEF EventStep

LEMMA SlipsTyping ==
  ASSUME TypeOK, NEW t \in Threads, Step(t)
  PROVE  slips' \subseteq Slips
<1> USE DEF TypeOK, Slip, Slips
<1>1. CASE MutexStep(t)
  BY <1>1 DEF MutexStep, LockFast, LockMark, LockWait, LockInterrupted, LockRetry,
              TryLock, Unlock, UnlockWake
<1>2. CASE SemStep(t)
  BY <1>2 DEF SemStep, SemPost, SemPostWake, SemLoad, SemCas, SemWait, SemInterrupted
<1>3. QED
  BY <1>1, <1>2 DEF Step

-----------------------------------------------------------------------------
(* A step of one primitive moves no thread into, out of or between the     *)
(* labels of another: what a thread does there is its own business.        *)

LEMMA MutexStepElsewhere ==
  ASSUME TypeOK, NEW t \in Threads, MutexStep(t),
         NEW s \in Threads, NEW l \in SpinLabels \cup SemLabels \cup EventLabels
  PROVE  pc'[s] = l <=> pc[s] = l
<1> USE DEF TypeOK, Goto, SpinLabels, SemLabels, EventLabels
<1>1. CASE UnlockWake(t)
  BY <1>1 DEF UnlockWake, FutexWakeOne, At
<1>2. CASE LockFast(t) \/ LockMark(t) \/ LockRetry(t)
  BY <1>2 DEF LockFast, LockMark, LockRetry
<1>3. CASE LockWait(t) \/ LockInterrupted(t)
  BY <1>3 DEF LockWait, LockInterrupted, FutexWait, FutexInterrupt
<1>4. CASE TryLock(t) \/ Unlock(t)
  BY <1>4 DEF TryLock, Unlock
<1>5. QED
  BY <1>1, <1>2, <1>3, <1>4 DEF MutexStep

LEMMA SpinStepElsewhere ==
  ASSUME TypeOK, NEW t \in Threads, SpinStep(t),
         NEW s \in Threads, NEW l \in MutexLabels \cup SemLabels \cup EventLabels
  PROVE  pc'[s] = l <=> pc[s] = l
  BY DEF TypeOK, Goto, MutexLabels, SemLabels, EventLabels, SpinStep, SpinExchange,
         SpinLoad, SpinTryLock, SpinUnlock

LEMMA SemStepElsewhere ==
  ASSUME TypeOK, NEW t \in Threads, SemStep(t),
         NEW s \in Threads, NEW l \in MutexLabels \cup SpinLabels \cup EventLabels
  PROVE  pc'[s] = l <=> pc[s] = l
<1> USE DEF TypeOK, Goto, MutexLabels, SpinLabels, EventLabels
<1>1. CASE SemPostWake(t)
  BY <1>1 DEF SemPostWake, FutexWakeOne, At
<1>2. CASE SemPost(t) \/ SemLoad(t) \/ SemCas(t)
  BY <1>2 DEF SemPost, SemLoad, SemCas
<1>3. CASE SemWait(t) \/ SemInterrupted(t)
  BY <1>3 DEF SemWait, SemInterrupted, FutexWait, FutexInterrupt
<1>4. QED
  BY <1>1, <1>2, <1>3 DEF SemStep

LEMMA EventStepElsewhere ==
  ASSUME TypeOK, NEW t \in Threads, EventStep(t),
         NEW s \in Threads, NEW l \in MutexLabels \cup SpinLabels \cup SemLabels
  PROVE  pc'[s] = l <=> pc[s] = l
<1> USE DEF TypeOK, Goto, MutexLabels, SpinLabels, SemLabels
<1>1. CASE EventSetWake(t)
  BY <1>1 DEF EventSetWake, FutexWakeOne, At
<1>2. CASE EventSet(t) \/ EventReset(t) \/ EventReturn(t) \/ EventGoWait(t)
  BY <1>2 DEF EventSet, EventReset, EventReturn, EventGoWait
<1>3. CASE EventWait(t) \/ EventInterrupted(t)
  BY <1>3 DEF EventWait, EventInterrupted, FutexWait, FutexInterrupt
<1>4. QED
  BY <1>1, <1>2, <1>3 DEF EventStep

(* What the mutex keeps when the step is not one of its own: its variables, *)
(* who is where in it, and whether its mark was erased.                    *)
LEMMA MutexUntouched ==
  ASSUME TypeOK, [Next]_vars, \A t \in Threads : ~MutexStep(t)
  PROVE  /\ UNCHANGED mutexVars
         /\ \A s \in Threads, l \in MutexLabels : pc'[s] = l <=> pc[s] = l
         /\ "erased" \notin slips' => "erased" \notin slips
<1>1. CASE UNCHANGED vars
  BY <1>1 DEF vars, mutexVars
<1>2. ASSUME NEW t \in Threads, SemStep(t), UNCHANGED mutexVars
      PROVE  /\ \A s \in Threads, l \in MutexLabels : pc'[s] = l <=> pc[s] = l
             /\ "erased" \notin slips' => "erased" \notin slips
  <2>1. \A s \in Threads, l \in MutexLabels : pc'[s] = l <=> pc[s] = l
    BY <1>2, SemStepElsewhere
  <2>2. "erased" \notin slips' => "erased" \notin slips
    BY <1>2 DEF SemStep, SemPost, SemPostWake, SemLoad, SemCas, SemWait, SemInterrupted, Slip
  <2> QED
    BY <2>1, <2>2
<1>3. ASSUME NEW t \in Threads, SpinStep(t) \/ EventStep(t), UNCHANGED <<slips, mutexVars>>
      PROVE  \A s \in Threads, l \in MutexLabels : pc'[s] = l <=> pc[s] = l
  BY <1>3, SpinStepElsewhere, EventStepElsewhere
<1> QED
  BY <1>1, <1>2, <1>3 DEF Next, Step

(* The same of the event.                                                  *)
LEMMA EventUntouched ==
  ASSUME TypeOK, [Next]_vars, \A t \in Threads : ~EventStep(t)
  PROVE  /\ UNCHANGED eventVars
         /\ \A s \in Threads, l \in EventLabels : pc'[s] = l <=> pc[s] = l
<1>1. CASE UNCHANGED vars
  BY <1>1 DEF vars, eventVars
<1>2. ASSUME NEW t \in Threads, MutexStep(t) \/ SpinStep(t) \/ SemStep(t)
      PROVE  \A s \in Threads, l \in EventLabels : pc'[s] = l <=> pc[s] = l
  BY <1>2, MutexStepElsewhere, SpinStepElsewhere, SemStepElsewhere
<1> QED
  BY <1>1, <1>2 DEF Next, Step

-----------------------------------------------------------------------------
(* TypeOK needs KnowsUnits: a compare-exchange from 0 would leave -1.      *)

LEMMA TypingStep ==
  ASSUME TypeOK, KnowsUnits, [Next]_vars
  PROVE  TypeOK' /\ KnowsUnits'
<1> USE DEF TypeOK
<1>1. ASSUME NEW t \in Threads, MutexStep(t), UNCHANGED <<spinVars, semVars, eventVars>>,
             slips' \subseteq Slips
      PROVE  TypeOK' /\ KnowsUnits'
  <2>1. pc' \in [Threads -> Labels] /\ MutexTypeOK'
    BY <1>1, MutexTyping
  <2>2. SpinTypeOK' /\ SemTypeOK'
    BY <1>1 DEF SpinTypeOK, SemTypeOK, spinVars, semVars
  <2>3. EventTypeOK'
    BY <1>1, MutexStepElsewhere DEF EventTypeOK, eventVars, At, EventLabels
  <2>4. KnowsUnits'
    BY <1>1, MutexStepElsewhere DEF KnowsUnits, semVars, SemLabels
  <2>5. QED
    BY <1>1, <2>1, <2>2, <2>3, <2>4
<1>2. ASSUME NEW t \in Threads, SpinStep(t), UNCHANGED <<slips, mutexVars, semVars, eventVars>>
      PROVE  TypeOK' /\ KnowsUnits'
  <2>1. pc' \in [Threads -> Labels] /\ SpinTypeOK'
    BY <1>2, SpinTyping
  <2>2. MutexTypeOK' /\ SemTypeOK'
    BY <1>2 DEF MutexTypeOK, SemTypeOK, mutexVars, semVars
  <2>3. EventTypeOK'
    BY <1>2, SpinStepElsewhere DEF EventTypeOK, eventVars, At, EventLabels
  <2>4. KnowsUnits'
    BY <1>2, SpinStepElsewhere DEF KnowsUnits, semVars, SemLabels
  <2>5. QED
    BY <1>2, <2>1, <2>2, <2>3, <2>4
<1>3. ASSUME NEW t \in Threads, SemStep(t), UNCHANGED <<mutexVars, spinVars, eventVars>>,
             slips' \subseteq Slips
      PROVE  TypeOK' /\ KnowsUnits'
  <2>1. pc' \in [Threads -> Labels] /\ SemTypeOK' /\ KnowsUnits'
    BY <1>3, SemTyping, KnowsUnitsSemStep
  <2>2. MutexTypeOK' /\ SpinTypeOK'
    BY <1>3 DEF MutexTypeOK, SpinTypeOK, mutexVars, spinVars
  <2>3. EventTypeOK'
    BY <1>3, SemStepElsewhere DEF EventTypeOK, eventVars, At, EventLabels
  <2>4. QED
    BY <1>3, <2>1, <2>2, <2>3
<1>4. ASSUME NEW t \in Threads, EventStep(t), UNCHANGED <<slips, mutexVars, spinVars, semVars>>
      PROVE  TypeOK' /\ KnowsUnits'
  <2>1. pc' \in [Threads -> Labels] /\ EventTypeOK'
    BY <1>4, EventTyping
  <2>2. MutexTypeOK' /\ SpinTypeOK' /\ SemTypeOK'
    BY <1>4 DEF MutexTypeOK, SpinTypeOK, SemTypeOK, mutexVars, spinVars, semVars
  <2>3. KnowsUnits'
    BY <1>4, EventStepElsewhere DEF KnowsUnits, semVars, SemLabels
  <2>4. QED
    BY <1>4, <2>1, <2>2, <2>3
<1>5. CASE UNCHANGED vars
  BY <1>5 DEF vars, mutexVars, spinVars, semVars, eventVars, MutexTypeOK, SpinTypeOK,
              SemTypeOK, EventTypeOK, KnowsUnits, At
<1>6. QED
  BY <1>1, <1>2, <1>3, <1>4, <1>5, SlipsTyping DEF Next, Step

(* Every reachable state has the types of TypeOK: in particular the count  *)
(* of the semaphore stays a natural number and the mutex word stays in     *)
(* 0..2.                                                                   *)
THEOREM TypeCorrect == Spec => [](TypeOK /\ KnowsUnits)
<1>1. Init => TypeOK /\ KnowsUnits
  BY UnitsAssumption DEF Init, TypeOK, KnowsUnits, MutexInit, SpinInit, SemInit, EventInit,
     MutexTypeOK, SpinTypeOK, SemTypeOK, EventTypeOK, At, Labels
<1>2. TypeOK /\ KnowsUnits /\ [Next]_vars => (TypeOK /\ KnowsUnits)'
  BY TypingStep
<1>3. QED
  BY <1>1, <1>2, PTL DEF Spec

-----------------------------------------------------------------------------
(* The mutex.                                                              *)

MutexInv == MutualExclusion /\ HeldMeansLocked

LEMMA MutexInvStep ==
  ASSUME TypeOK, MutexInv, NEW t \in Threads, MutexStep(t)
  PROVE  MutexInv'
<1> USE DEF TypeOK, MutexTypeOK, MutexInv, MutualExclusion, HeldMeansLocked, mutexVars
<1>1. CASE LockFast(t)
  BY <1>1 DEF LockFast
<1>2. CASE LockMark(t) \/ LockRetry(t)
  BY <1>2 DEF LockMark, LockRetry
<1>3. CASE TryLock(t) \/ Unlock(t)
  BY <1>3 DEF TryLock, Unlock
<1>4. CASE LockWait(t) \/ LockInterrupted(t) \/ UnlockWake(t)
  BY <1>4 DEF LockWait, LockInterrupted, UnlockWake
<1>5. QED
  BY <1>1, <1>2, <1>3, <1>4 DEF MutexStep

(* At most one thread holds the mutex, for any number of threads.          *)
THEOREM MutexExcludes == Spec => []MutualExclusion
<1>1. Init => MutexInv
  BY DEF Init, MutexInit, MutexInv, MutualExclusion, HeldMeansLocked
<1>2. TypeOK /\ MutexInv /\ [Next]_vars => MutexInv'
  <2> SUFFICES ASSUME TypeOK, MutexInv, [Next]_vars PROVE MutexInv'
    OBVIOUS
  <2>1. CASE \E t \in Threads : MutexStep(t)
    BY <2>1, MutexInvStep
  <2>2. CASE UNCHANGED mutexVars
    BY <2>2 DEF mutexVars, MutexInv, MutualExclusion, HeldMeansLocked
  <2>3. QED
    BY <2>1, <2>2 DEF Next, Step, vars
<1>3. MutexInv => MutualExclusion
  BY DEF MutexInv
<1>4. QED
  BY <1>1, <1>2, <1>3, TypeCorrect, PTL DEF Spec

(* A locked word has a holder unless the slow path has marked an unlocked  *)
(* mutex, for any number of threads.                                       *)
THEOREM LockedHasAHolder == Spec => []LockedHasHolder
<1> USE DEF LockedHasHolder
<1>1. Init => LockedHasHolder
  BY DEF Init, MutexInit
<1>2. TypeOK /\ MutualExclusion /\ LockedHasHolder /\ [Next]_vars => LockedHasHolder'
  <2> SUFFICES ASSUME TypeOK, MutualExclusion, LockedHasHolder, [Next]_vars
               PROVE  LockedHasHolder'
    OBVIOUS
  <2> USE DEF TypeOK, MutexTypeOK, MutualExclusion, mutexVars, Slip
  <2>1. ASSUME NEW t \in Threads, MutexStep(t) PROVE LockedHasHolder'
    <3>1. CASE LockFast(t)
      BY <3>1 DEF LockFast
    <3>2. CASE LockMark(t) \/ LockRetry(t)
      BY <3>2 DEF LockMark, LockRetry
    <3>3. CASE TryLock(t) \/ Unlock(t)
      BY <3>3 DEF TryLock, Unlock
    <3>4. CASE LockWait(t) \/ LockInterrupted(t) \/ UnlockWake(t)
      BY <3>4 DEF LockWait, LockInterrupted, UnlockWake
    <3>5. QED
      BY <2>1, <3>1, <3>2, <3>3, <3>4 DEF MutexStep
  <2>2. ASSUME NEW t \in Threads, SemStep(t), UNCHANGED mutexVars PROVE LockedHasHolder'
    BY <2>2 DEF SemStep, SemPost, SemPostWake, SemLoad, SemCas, SemWait, SemInterrupted
  <2>3. CASE UNCHANGED <<slips, mutexVars>>
    BY <2>3
  <2>4. QED
    BY <2>1, <2>2, <2>3 DEF Next, Step, vars
<1>3. QED
  BY <1>1, <1>2, MutexExcludes, TypeCorrect, PTL DEF Spec

(* A thread parked on the mutex is owed a wake unless a failed trylock has *)
(* erased the contended mark, for any number of threads.                   *)
THEOREM MutexWakeupOwed == Spec => []WakeupOwed
<1>1. Init => WakeupOwed
  BY DEF Init, WakeupOwed, At
<1>2. TypeOK /\ WakeupOwed /\ [Next]_vars => WakeupOwed'
  <2> SUFFICES ASSUME TypeOK, WakeupOwed, [Next]_vars
               PROVE  WakeupOwed'
    OBVIOUS
  <2> USE DEF TypeOK, MutexTypeOK, WakeupOwed, MutexAwake, At, mutexVars, Slip, Goto
  <2>1. ASSUME NEW t \in Threads, MutexStep(t) PROVE WakeupOwed'
    <3>1. CASE LockFast(t)
      BY <3>1 DEF LockFast
    <3>2. CASE LockMark(t)
      BY <3>2 DEF LockMark
    <3>3. CASE LockWait(t)
      BY <3>3 DEF LockWait, FutexWait
    <3>4. CASE LockInterrupted(t)
      BY <3>4 DEF LockInterrupted, FutexInterrupt
    <3>5. CASE LockRetry(t)
      BY <3>5 DEF LockRetry
    <3>6. CASE TryLock(t)
      BY <3>6 DEF TryLock
    <3>7. CASE Unlock(t)
      BY <3>7 DEF Unlock
    <3>8. CASE UnlockWake(t)
      <4>1. CASE \E s \in Threads : pc[s] = "m_parked"
        BY <3>8, <4>1 DEF UnlockWake, FutexWakeOne
      <4>2. CASE ~ \E s \in Threads : pc[s] = "m_parked"
        BY <3>8, <4>2 DEF UnlockWake, FutexWakeOne
      <4>3. QED
        BY <4>1, <4>2
    <3>9. QED
      BY <2>1, <3>1, <3>2, <3>3, <3>4, <3>5, <3>6, <3>7, <3>8 DEF MutexStep
  <2>2. CASE \A t \in Threads : ~MutexStep(t)
    BY <2>2, MutexUntouched DEF MutexLabels
  <2> QED
    BY <2>1, <2>2
<1>3. QED
  BY <1>1, <1>2, TypeCorrect, PTL DEF Spec

-----------------------------------------------------------------------------
(* The spinlock, the semaphore and the event.                              *)

(* The spinlock excludes, and its word is 1 exactly while it is held.      *)
THEOREM SpinExcludes == Spec => []SpinExclusion
<1> USE DEF SpinExclusion
<1>1. Init => SpinExclusion
  BY DEF Init, SpinInit
<1>2. TypeOK /\ SpinExclusion /\ [Next]_vars => SpinExclusion'
  <2> SUFFICES ASSUME TypeOK, SpinExclusion, [Next]_vars PROVE SpinExclusion'
    OBVIOUS
  <2> USE DEF TypeOK, SpinTypeOK, spinVars
  <2>1. ASSUME NEW t \in Threads, SpinStep(t) PROVE SpinExclusion'
    BY <2>1 DEF SpinStep, SpinExchange, SpinLoad, SpinTryLock, SpinUnlock
  <2>2. CASE UNCHANGED spinVars
    BY <2>2
  <2>3. QED
    BY <2>1, <2>2 DEF Next, Step, vars
<1>3. QED
  BY <1>1, <1>2, TypeCorrect, PTL DEF Spec

(* No unit of the semaphore is lost, invented or taken twice.              *)
THEOREM SemConserves == Spec => []SemConservation
<1> USE DEF SemConservation
<1>1. Init => SemConservation
  BY UnitsAssumption DEF Init, SemInit
<1>2. TypeOK /\ KnowsUnits /\ SemConservation /\ [Next]_vars => SemConservation'
  <2> SUFFICES ASSUME TypeOK, KnowsUnits, SemConservation, [Next]_vars
               PROVE  SemConservation'
    OBVIOUS
  <2> USE UnitsAssumption DEF TypeOK, SemTypeOK, KnowsUnits, semVars
  <2>1. ASSUME NEW t \in Threads, SemStep(t) PROVE SemConservation'
    <3>1. CASE SemCas(t)
      BY <3>1 DEF SemCas
    <3>2. CASE SemPost(t)
      BY <3>2 DEF SemPost
    <3>3. CASE SemPostWake(t) \/ SemLoad(t) \/ SemWait(t) \/ SemInterrupted(t)
      BY <3>3 DEF SemPostWake, SemLoad, SemWait, SemInterrupted
    <3>4. QED
      BY <2>1, <3>1, <3>2, <3>3 DEF SemStep
  <2>2. CASE UNCHANGED semVars
    BY <2>2
  <2>3. QED
    BY <2>1, <2>2 DEF Next, Step, vars
<1>3. QED
  BY <1>1, <1>2, TypeCorrect, PTL DEF Spec

(* A thread asleep on a signaled event is owed a wake or was passed over.  *)
THEOREM EventWakeIsOwed == Spec => []EventWakeOwed
<1>1. Init => EventWakeOwed
  BY DEF Init, EventInit, EventWakeOwed, At
<1>2. TypeOK /\ EventWakeOwed /\ [Next]_vars => EventWakeOwed'
  <2> SUFFICES ASSUME TypeOK, EventWakeOwed, [Next]_vars PROVE EventWakeOwed'
    OBVIOUS
  <2> USE DEF TypeOK, EventTypeOK, EventWakeOwed, At, eventVars, Goto
  <2>1. ASSUME NEW t \in Threads, EventStep(t) PROVE EventWakeOwed'
    <3>1. CASE EventSetWake(t)
      BY <3>1 DEF EventSetWake, FutexWakeOne
    <3>2. CASE EventSet(t) \/ EventReset(t) \/ EventReturn(t) \/ EventGoWait(t)
      BY <3>2 DEF EventSet, EventReset, EventReturn, EventGoWait
    <3>3. CASE EventWait(t)
      BY <3>3 DEF EventWait, FutexWait
    <3>4. CASE EventInterrupted(t)
      BY <3>4 DEF EventInterrupted, FutexInterrupt
    <3>5. QED
      BY <2>1, <3>1, <3>2, <3>3, <3>4 DEF EventStep
  <2>2. CASE \A t \in Threads : ~EventStep(t)
    BY <2>2, EventUntouched DEF EventLabels
  <2> QED
    BY <2>1, <2>2
<1>3. QED
  BY <1>1, <1>2, TypeCorrect, PTL DEF Spec

-----------------------------------------------------------------------------
(* The claims on the units of the semaphore.                               *)

SemAwake == At("s_load") \cup At("s_cas") \cup At("s_wait") \cup At("s_wake")

(* While anybody sleeps there are at least as many threads awake in wait   *)
(* or post as there are units: each unit is claimed by a thread of its own. *)
ClaimsInv ==
  /\ IsFiniteSet(SemAwake)
  /\ At("s_parked") # {} /\ "unitSleep" \notin slips => units <= Cardinality(SemAwake)

(* A post raises the count and the number of threads awake by one.         *)
LEMMA SemPostClaims ==
  ASSUME TypeOK, ClaimsInv, NEW t \in Threads, SemPost(t)
  PROVE  ClaimsInv'
<1> USE DEF TypeOK, SemTypeOK, At, SemPost, Goto
<1>1. t \notin SemAwake
  BY DEF SemAwake
<1>2. SemAwake' = SemAwake \cup {t}
  BY DEF SemAwake
<1>3. IsFiniteSet(SemAwake') /\ Cardinality(SemAwake') = Cardinality(SemAwake) + 1
  BY <1>1, <1>2, FS_AddElement, Zenon DEF ClaimsInv
<1>4. Cardinality(SemAwake) \in Nat
  BY FS_CardinalityType DEF ClaimsInv
<1>5. At("s_parked")' = At("s_parked")
  OBVIOUS
<1>6. QED
  BY <1>3, <1>4, <1>5 DEF ClaimsInv

(* A wake replaces the poster by the thread it woke.                       *)
LEMMA SemPostWakeClaims ==
  ASSUME TypeOK, ClaimsInv, NEW t \in Threads, SemPostWake(t)
  PROVE  ClaimsInv'
<1> USE DEF TypeOK, SemTypeOK, At
<1>1. CASE At("s_parked") = {} /\ Goto(t, "idle")
  <2>1. SemAwake' \in SUBSET SemAwake /\ At("s_parked")' = {}
    BY <1>1 DEF SemAwake, Goto
  <2>2. IsFiniteSet(SemAwake')
    BY <2>1, FS_Subset DEF ClaimsInv
  <2>3. QED
    BY <2>1, <2>2 DEF ClaimsInv
<1>2. ASSUME NEW s \in At("s_parked"), pc' = [pc EXCEPT ![s] = "s_load", ![t] = "idle"]
      PROVE  ClaimsInv'
  <2>1. t \in SemAwake /\ s \notin SemAwake /\ pc[t] = "s_wake" /\ s # t
    BY <1>2 DEF SemPostWake, SemAwake
  <2>2. SemAwake' = (SemAwake \ {t}) \cup {s}
    BY <1>2, <2>1 DEF SemAwake
  <2>3. /\ IsFiniteSet(SemAwake \ {t})
        /\ Cardinality(SemAwake \ {t}) = Cardinality(SemAwake) - 1
    BY <2>1, FS_RemoveElement, Zenon DEF ClaimsInv
  <2>4. /\ IsFiniteSet((SemAwake \ {t}) \cup {s})
        /\ Cardinality((SemAwake \ {t}) \cup {s}) = Cardinality(SemAwake \ {t}) + 1
    BY <2>1, <2>3, FS_AddElement, Zenon
  <2>5. Cardinality(SemAwake) \in Nat
    BY FS_CardinalityType DEF ClaimsInv
  <2>6. IsFiniteSet(SemAwake') /\ Cardinality(SemAwake') = Cardinality(SemAwake)
    BY <2>2, <2>3, <2>4, <2>5
  <2>7. At("s_parked") # {} /\ slips' = slips /\ units' = units
    BY <1>2 DEF SemPostWake, semVars
  <2>8. QED
    BY <2>6, <2>7 DEF ClaimsInv
<1>3. QED
  BY <1>1, <1>2 DEF SemPostWake, FutexWakeOne

(* A load makes its thread awake or leaves it so.                          *)
LEMMA SemLoadClaims ==
  ASSUME TypeOK, ClaimsInv, NEW t \in Threads,
         SemLoad(t) \/ SemInterrupted(t)
  PROVE  ClaimsInv'
<1> USE DEF TypeOK, SemTypeOK, At, SemLoad, SemInterrupted, FutexInterrupt, Goto, semVars
<1>1. SemAwake' = SemAwake \cup {t}
  BY DEF SemAwake
<1>2. /\ IsFiniteSet(SemAwake')
      /\ Cardinality(SemAwake') = Cardinality(SemAwake)
           \/ Cardinality(SemAwake') = Cardinality(SemAwake) + 1
  BY <1>1, FS_AddElement, Zenon DEF ClaimsInv
<1>3. Cardinality(SemAwake) \in Nat
  BY FS_CardinalityType DEF ClaimsInv
<1>4. At("s_parked")' \subseteq At("s_parked") /\ slips' = slips /\ units' = units
  OBVIOUS
<1>5. QED
  BY <1>2, <1>3, <1>4 DEF ClaimsInv

(* Whoever takes a unit gives up one claim.                                *)
LEMMA SemCasClaims ==
  ASSUME TypeOK, ClaimsInv, NEW t \in Threads, SemCas(t)
  PROVE  ClaimsInv'
<1> USE DEF TypeOK, SemTypeOK, At, SemCas, Goto
<1>1. t \in SemAwake
  BY DEF SemAwake
<1>2. At("s_parked")' = At("s_parked") /\ slips' = slips
  OBVIOUS
<1>3. CASE pc' = [pc EXCEPT ![t] = "s_wait"] /\ UNCHANGED units
  <2>1. SemAwake' = SemAwake
    BY <1>3 DEF SemAwake
  <2>2. QED
    BY <1>2, <1>3, <2>1 DEF ClaimsInv
<1>4. CASE pc' = [pc EXCEPT ![t] = "idle"] /\ units = known[t] /\ units' = known[t] - 1
  <2>1. SemAwake' = SemAwake \ {t}
    BY <1>4 DEF SemAwake
  <2>2. IsFiniteSet(SemAwake') /\ Cardinality(SemAwake') = Cardinality(SemAwake) - 1
    BY <1>1, <2>1, FS_RemoveElement, Zenon DEF ClaimsInv
  <2>3. Cardinality(SemAwake) \in Nat
    BY FS_CardinalityType DEF ClaimsInv
  <2>4. QED
    BY <1>2, <1>4, <2>2, <2>3 DEF ClaimsInv
<1>5. QED
  BY <1>3, <1>4

(* A thread that goes to sleep sees no unit, or slips.                     *)
LEMMA SemWaitClaims ==
  ASSUME TypeOK, ClaimsInv, NEW t \in Threads, SemWait(t)
  PROVE  ClaimsInv'
<1> USE DEF TypeOK, SemTypeOK, At, SemWait, FutexWait, Goto, Slip
<1>1. CASE units = known[t] /\ pc' = [pc EXCEPT ![t] = "s_parked"]
  <2>1. SemAwake' \in SUBSET SemAwake
    BY <1>1 DEF SemAwake
  <2>2. IsFiniteSet(SemAwake')
    BY <2>1, FS_Subset DEF ClaimsInv
  <2>3. Cardinality(SemAwake') \in Nat
    BY <2>2, FS_CardinalityType
  <2>4. "unitSleep" \notin slips' => units' = 0
    BY <1>1
  <2>5. QED
    BY <2>2, <2>3, <2>4 DEF ClaimsInv
<1>2. CASE units # known[t] /\ pc' = [pc EXCEPT ![t] = "s_load"]
  <2>1. SemAwake' = SemAwake /\ At("s_parked")' = At("s_parked")
    BY <1>2 DEF SemAwake
  <2>2. QED
    BY <1>2, <2>1 DEF ClaimsInv
<1>3. QED
  BY <1>1, <1>2

(* The other primitives leave the claims alone.                            *)
LEMMA ClaimsElsewhere ==
  ASSUME TypeOK, ClaimsInv, NEW t \in Threads,
         MutexStep(t) \/ SpinStep(t) \/ EventStep(t),
         UNCHANGED semVars,
         "unitSleep" \in slips => "unitSleep" \in slips'
  PROVE  ClaimsInv'
<1>1. \A s \in Threads, l \in SemLabels : pc'[s] = l <=> pc[s] = l
  BY MutexStepElsewhere, SpinStepElsewhere, EventStepElsewhere
<1>2. SemAwake' = SemAwake /\ At("s_parked")' = At("s_parked")
  BY <1>1 DEF SemAwake, At, SemLabels
<1>3. QED
  BY <1>2 DEF ClaimsInv, semVars

(* Every unit beside a sleeper is claimed by a thread that is awake, up to *)
(* the first sleep on a positive count, for any number of threads.         *)
THEOREM SemUnitsAreClaimed == Spec => []SemUnitsClaimed
<1>1. Init => ClaimsInv
  <2>1. Init => SemAwake = {} /\ At("s_parked") = {}
    BY DEF Init, SemAwake, At
  <2>2. QED
    BY <2>1, FS_EmptySet DEF ClaimsInv
<1>2. TypeOK /\ ClaimsInv /\ [Next]_vars => ClaimsInv'
  <2> SUFFICES ASSUME TypeOK, ClaimsInv, [Next]_vars PROVE ClaimsInv'
    OBVIOUS
  <2>1. ASSUME NEW t \in Threads, SemStep(t) PROVE ClaimsInv'
    BY <2>1, SemPostClaims, SemPostWakeClaims, SemLoadClaims, SemCasClaims, SemWaitClaims
       DEF SemStep
  <2>2. ASSUME NEW t \in Threads, MutexStep(t), UNCHANGED semVars PROVE ClaimsInv'
    <3>1. "unitSleep" \in slips => "unitSleep" \in slips'
      BY <2>2 DEF MutexStep, LockFast, LockMark, LockWait, LockInterrupted, LockRetry,
                  TryLock, Unlock, UnlockWake, Slip
    <3>2. QED
      BY <2>2, <3>1, ClaimsElsewhere
  <2>3. ASSUME NEW t \in Threads, SpinStep(t) \/ EventStep(t), UNCHANGED <<slips, semVars>>
        PROVE  ClaimsInv'
    BY <2>3, ClaimsElsewhere
  <2>4. CASE UNCHANGED vars
    BY <2>4 DEF vars, semVars, ClaimsInv, SemAwake, At
  <2>5. QED
    BY <2>1, <2>2, <2>3, <2>4 DEF Next, Step
<1>3. TypeOK /\ ClaimsInv => SemUnitsClaimed
  <2> SUFFICES ASSUME TypeOK, ClaimsInv, units > 0, At("s_parked") # {},
                      "unitSleep" \notin slips, SemAwake = {}
               PROVE  FALSE
    BY DEF SemUnitsClaimed, SemAwake
  <2>1. units <= 0
    BY FS_EmptySet DEF ClaimsInv
  <2>2. QED
    BY <2>1 DEF TypeOK, SemTypeOK
<1>4. QED
  BY <1>1, <1>2, <1>3, TypeCorrect, PTL DEF Spec
=============================================================================
