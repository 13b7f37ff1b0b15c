----------------------------- MODULE FutexEvent -----------------------------
(***************************************************************************)
(* cellar_event_t (sync.c): set stores 1 and wakes one sleeper, reset      *)
(* stores 0, wait returns at the first load that is not 0.                 *)
(***************************************************************************)
EXTENDS Futex

VARIABLES
  signaled,    \* cellar_event_t.signaled
  passedOver   \* history: parked threads the last wake left asleep

eventVars == <<signaled, passedOver>>

EventLabels == {"e_load", "e_wait", "e_parked", "e_wake"}

EventInit ==
  /\ signaled = 0
  /\ passedOver = {}

EventSet(t) ==
  /\ pc[t] = "idle"
  /\ signaled' = 1
  /\ Goto(t, "e_wake")
  /\ UNCHANGED passedOver

(* The thread woken leaves the queue; the others stay parked on a word     *)
(* that is already 1.                                                      *)
EventSetWake(t) ==
  /\ pc[t] = "e_wake"
  /\ FutexWakeOne(t, "e_parked", "e_load")
  /\ passedOver' = At("e_parked") \cap {s \in Threads : pc'[s] = "e_parked"}
  /\ UNCHANGED signaled

EventReset(t) ==
  /\ pc[t] = "idle"
  /\ signaled' = 0
  /\ UNCHANGED <<pc, passedOver>>

EventReturn(t) ==
  /\ pc[t] \in {"idle", "e_load"}
  /\ signaled # 0
  /\ Goto(t, "idle")
  /\ UNCHANGED eventVars

EventGoWait(t) ==
  /\ pc[t] \in {"idle", "e_load"}
  /\ signaled = 0
  /\ Goto(t, "e_wait")
  /\ UNCHANGED eventVars

(* Variant: park without comparing, as on a plain wait queue.              *)
EventWaitBlind(t) ==
  /\ pc[t] = "e_wait"
  /\ Goto(t, "e_parked")
  /\ UNCHANGED eventVars

EventWait(t) ==
  /\ pc[t] = "e_wait"
  /\ FutexWait(t, signaled, 0, "e_parked", "e_load")
  /\ UNCHANGED eventVars

EventInterrupted(t) ==
  /\ FutexInterrupt(t, "e_parked", "e_load")
  /\ passedOver' = passedOver \ {t}
  /\ UNCHANGED signaled

EventStep(t) ==
  \/ EventSet(t) \/ EventSetWake(t) \/ EventReset(t) \/ EventReturn(t)
  \/ EventGoWait(t) \/ EventWait(t) \/ EventInterrupted(t)

-----------------------------------------------------------------------------
EventTypeOK ==
  /\ signaled \in 0..1
  /\ passedOver \subseteq At("e_parked")

(* No set is missed between a waiter's load and its futex call: a thread   *)
(* asleep on a signaled event is owed a wake, or a wake that took another  *)
(* sleeper passed it over.  It says that waking one sleeper per set is the *)
(* only way a waiter stays asleep beside a signal.                         *)
EventWakeOwed ==
  signaled = 1 =>
    \A t \in At("e_parked") : At("e_wake") # {} \/ t \in passedOver

(* sync.h calls the event one with "auto-reset semantics": the wait that   *)
(* returns consumes the signal.                                            *)
AutoReset ==
  [][\A t \in Threads : pc[t] = "e_load" /\ pc'[t] = "idle" => signaled' = 0]_<<pc, signaled>>
=============================================================================
