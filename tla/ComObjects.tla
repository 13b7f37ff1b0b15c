----------------------------- MODULE ComObjects -----------------------------
(***************************************************************************)
(* The COM core of com.c: the apartment of each thread, the class table,   *)
(* and the reference counts of the objects it makes, which threads pass    *)
(* to one another through marshal buffers.  Threads keep COM's rules: they *)
(* release what they own and read a buffer once; and they use an object    *)
(* one at a time, as the counts are plain integers.                        *)
(***************************************************************************)
EXTENDS Integers, FiniteSets, Sequences

CONSTANTS
  ComThreads, Classes, Objects,
  ClassSlots,  \* entries of g_classes
  MaxHeld,     \* bound: references one thread owns on one object
  NoObject

ASSUME ComAssumption ==
  /\ ClassSlots \in Nat /\ MaxHeld \in Nat \ {0} /\ NoObject \notin Objects
  /\ IsFiniteSet(ComThreads)

Factories == {"null", "failing"}

VARIABLES
  comInited,  \* threads whose g_inited is set
  comApt,     \* [ComThreads -> g_apt], which outlives uninit
  classes,    \* g_classes: a sequence of [clsid, fac]
  refs,       \* [Objects -> the count in the object]
  live,       \* objects that have been allocated and not freed
  buffer,     \* the object whose pointer the marshal buffer holds
  held,       \* history: [ComThreads -> [Objects -> references it owns]]
  unclaimed   \* history: [Objects -> references nobody was ever given]

comVars == <<comInited, comApt, classes, refs, live, buffer, held, unclaimed>>

ComInit ==
  /\ comInited = {} /\ comApt = [t \in ComThreads |-> "sta"] /\ classes = << >>
  /\ refs = [o \in Objects |-> 0] /\ live = {} /\ buffer = NoObject
  /\ held = [t \in ComThreads |-> [o \in Objects |-> 0]]
  /\ unclaimed = [o \in Objects |-> 0]

objects == <<refs, live, buffer, held, unclaimed>>

(* A second init changes nothing, whichever apartment it asks for.         *)
ComInitialize(t, apt) ==
  /\ t \notin comInited
  /\ comInited' = comInited \cup {t} /\ comApt' = [comApt EXCEPT ![t] = apt]
  /\ UNCHANGED <<classes, objects>>

ComUninitialize(t) ==
  /\ comInited' = comInited \ {t}
  /\ UNCHANGED <<comApt, classes, objects>>

SlotsOf(c) == {i \in DOMAIN classes : classes[i].clsid = c}

RegisterClass(c, f) ==
  /\ IF SlotsOf(c) # {}
     THEN classes' = [i \in DOMAIN classes |->
                        IF i \in SlotsOf(c) THEN [classes[i] EXCEPT !.fac = f] ELSE classes[i]]
     ELSE /\ Len(classes) < ClassSlots
          /\ classes' = Append(classes, [clsid |-> c, fac |-> f])
  /\ UNCHANGED <<comInited, comApt, objects>>

Own(t, o, d) == held' = [held EXCEPT ![t][o] = @ + d]
Count(o, d) ==
  /\ refs' = [refs EXCEPT ![o] = @ + d]
  /\ live' = IF refs[o] + d = 0 THEN live \ {o} ELSE live

(* com_create: with IID_IUNKNOWN query_interface adds a reference to the   *)
(* factory's own, which nobody gives back; another interface is refused    *)
(* and the object released; without one the factory's reference is passed  *)
(* on.                                                                     *)
ComCreate(t, c, iid) ==
  /\ t \in comInited
  /\ \E i \in SlotsOf(c) : classes[i].fac = "null" /\ \A j \in SlotsOf(c) : i <= j
  /\ \E o \in Objects \ live :
       /\ refs' = [refs EXCEPT ![o] = CASE iid = "unknown" -> 2 [] iid = "other" -> 0 [] OTHER -> 1]
       /\ live' = IF iid = "other" THEN live ELSE live \cup {o}
       /\ Own(t, o, IF iid = "other" THEN 0 ELSE 1)
       /\ unclaimed' = [unclaimed EXCEPT ![o] = IF iid = "unknown" THEN 1 ELSE 0]
  /\ UNCHANGED <<comInited, comApt, classes, buffer>>

(* AddRef, and query_interface for IID_IUNKNOWN.                           *)
AddRef(t, o) ==
  /\ held[t][o] \in 1..MaxHeld - 1
  /\ Count(o, 1) /\ Own(t, o, 1)
  /\ UNCHANGED <<comInited, comApt, classes, buffer, unclaimed>>

Release(t, o) ==
  /\ held[t][o] > 0
  /\ Count(o, -1) /\ Own(t, o, -1)
  /\ UNCHANGED <<comInited, comApt, classes, buffer, unclaimed>>

(* Variant: the buffer holds a bare pointer.                               *)
MarshalBare(t, o) ==
  /\ held[t][o] > 0 /\ buffer = NoObject
  /\ buffer' = o
  /\ UNCHANGED <<comInited, comApt, classes, refs, live, held, unclaimed>>

Marshal(t, o) ==
  /\ held[t][o] > 0 /\ buffer = NoObject
  /\ buffer' = o /\ Count(o, 1)
  /\ UNCHANGED <<comInited, comApt, classes, held, unclaimed>>

(* unmarshal hands on the buffer's reference without touching the count.   *)
Unmarshal(t) ==
  /\ buffer # NoObject /\ held[t][buffer] < MaxHeld
  /\ Own(t, buffer, 1) /\ buffer' = NoObject
  /\ UNCHANGED <<comInited, comApt, classes, refs, live, unclaimed>>

ComNext ==
  \/ \E t \in ComThreads :
       \/ \E apt \in {"sta", "mta"} : ComInitialize(t, apt)
       \/ ComUninitialize(t) \/ Unmarshal(t)
       \/ \E c \in Classes, iid \in {"none", "unknown", "other"} : ComCreate(t, c, iid)
       \/ \E o \in Objects : AddRef(t, o) \/ Release(t, o) \/ Marshal(t, o)
  \/ \E c \in Classes, f \in Factories : RegisterClass(c, f)

-----------------------------------------------------------------------------
ComTypeOK ==
  /\ comInited \subseteq ComThreads /\ live \subseteq Objects
  /\ Len(classes) <= ClassSlots
  /\ \A i, j \in DOMAIN classes : classes[i].clsid = classes[j].clsid => i = j
  /\ buffer \in Objects \cup {NoObject}

(* The references to an object that threads own, numbered for each thread, *)
(* and the number of all there are, with that of the buffer.               *)
Holdings(o) == {h \in ComThreads \X (1..MaxHeld) : h[2] <= held[h[1]][o]}
Claims(o) == Cardinality(Holdings(o)) + (IF buffer = o THEN 1 ELSE 0)

(* An object lives as long as a thread or a marshal buffer refers to it,   *)
(* and its count is the number of those references, plus the one that      *)
(* com_create keeps for nobody when it is asked for an interface: those    *)
(* objects are never freed, all others are when the last reference goes.   *)
RefsAccounted ==
  \A o \in Objects :
    /\ Claims(o) > 0 => o \in live
    /\ o \in live => refs[o] = Claims(o) + unclaimed[o] /\ refs[o] > 0
=============================================================================
