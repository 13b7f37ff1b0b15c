--------------------------- MODULE FutexSemaphore ---------------------------
(***************************************************************************)
(* cellar_semaphore_t (sync.c): post adds a unit and wakes one sleeper;    *)
(* wait loads the count, tries to take a unit with a compare-exchange from *)
(* the loaded value, and otherwise sleeps on the value it knows.           *)
(***************************************************************************)
EXTENDS Futex

CONSTANTS
  InitialUnits,  \* cellar_semaphore_init's count
  MaxPosts       \* bound: the number of posts of a behaviour

ASSUME UnitsAssumption == InitialUnits \in Nat /\ MaxPosts \in Nat

VARIABLES
  units,      \* cellar_semaphore_t.count
  known,      \* [Threads -> count]: the local c of a thread inside wait
  posted,     \* history: posts so far
  taken       \* history: waits that have returned so far

semVars == <<units, known, posted, taken>>

SemLabels == {"s_load", "s_cas", "s_wait", "s_parked", "s_wake"}

SemInit ==
  /\ units = InitialUnits
  /\ known = [t \in Threads |-> 0]
  /\ posted = 0
  /\ taken = 0

(* Variant: wake only when the count was zero.                             *)
SemPostLazy(t) ==
  /\ pc[t] = "idle" /\ posted < MaxPosts
  /\ units' = units + 1
  /\ posted' = posted + 1
  /\ Goto(t, IF units = 0 THEN "s_wake" ELSE "idle")
  /\ UNCHANGED <<known, taken, slips>>

SemPost(t) ==
  /\ pc[t] = "idle" /\ posted < MaxPosts
  /\ units' = units + 1
  /\ posted' = posted + 1
  /\ Goto(t, "s_wake")
  /\ UNCHANGED <<known, taken, slips>>

SemPostWake(t) ==
  /\ pc[t] = "s_wake"
  /\ FutexWakeOne(t, "s_parked", "s_load")
  /\ UNCHANGED <<semVars, slips>>

(* Variant: c >= 0 for c > 0.                                              *)
SemLoadAtZero(t) ==
  /\ pc[t] \in {"idle", "s_load"}
  /\ known' = [known EXCEPT ![t] = units]
  /\ Goto(t, "s_cas")
  /\ UNCHANGED <<units, posted, taken, slips>>

SemLoad(t) ==
  /\ pc[t] \in {"idle", "s_load"}
  /\ known' = [known EXCEPT ![t] = units]
  /\ Goto(t, IF units > 0 THEN "s_cas" ELSE "s_wait")
  /\ UNCHANGED <<units, posted, taken, slips>>

(* Variant: store c - 1 without comparing.                                 *)
SemCasBlind(t) ==
  /\ pc[t] = "s_cas"
  /\ units' = known[t] - 1
  /\ taken' = taken + 1
  /\ known' = [known EXCEPT ![t] = 0]
  /\ Goto(t, "idle")
  /\ UNCHANGED <<posted, slips>>

(* A failed compare-exchange stores the current count in c and the wait    *)
(* that follows sleeps on that value, even when it is positive.            *)
SemCas(t) ==
  /\ pc[t] = "s_cas"
  /\ \/ /\ units = known[t]
        /\ units' = known[t] - 1
        /\ taken' = taken + 1
        /\ known' = [known EXCEPT ![t] = 0]
        /\ Goto(t, "idle")
     \/ /\ units # known[t] \/ SpuriousCas
        /\ known' = [known EXCEPT ![t] = units]
        /\ Goto(t, "s_wait")
        /\ UNCHANGED <<units, taken>>
  /\ UNCHANGED <<posted, slips>>

SemWait(t) ==
  /\ pc[t] = "s_wait"
  /\ FutexWait(t, units, known[t], "s_parked", "s_load")
  /\ Slip("unitSleep", units = known[t] /\ units > 0)
  /\ known' = [known EXCEPT ![t] = 0]
  /\ UNCHANGED <<units, posted, taken>>

SemInterrupted(t) ==
  /\ FutexInterrupt(t, "s_parked", "s_load")
  /\ UNCHANGED <<semVars, slips>>

SemStep(t) ==
  \/ SemPost(t) \/ SemPostWake(t) \/ SemLoad(t) \/ SemCas(t)
  \/ SemWait(t) \/ SemInterrupted(t)

-----------------------------------------------------------------------------
SemTypeOK ==
  /\ units \in Nat
  /\ known \in [Threads -> Nat]
  /\ posted \in Nat
  /\ taken \in Nat

(* Conservation: no unit is taken twice, lost or invented, however many    *)
(* waits race for the same count; so the count never goes below zero.      *)
SemConservation ==
  /\ units + taken = InitialUnits + posted
  /\ units >= 0

(* While nobody has gone to sleep on a positive count, every unit left in  *)
(* a semaphore with sleepers is claimed: some thread is awake in wait and  *)
(* will look at the count, or a wake is on its way.  It says that sleeping *)
(* on the value of a failed compare-exchange is the only way a thread      *)
(* sleeps beside a unit it could take.                                     *)
SemUnitsClaimed ==
  units > 0 /\ At("s_parked") # {} /\ "unitSleep" \notin slips =>
    At("s_load") \cup At("s_cas") \cup At("s_wait") \cup At("s_wake") # {}
=============================================================================
