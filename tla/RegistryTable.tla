--------------------------- MODULE RegistryTable ---------------------------
(***************************************************************************)
(* The registry of mod_advapi32.c: a table of keys, found by path, whose   *)
(* handles are slot numbers.  A path is the sequence of what the code      *)
(* joins with backslashes, up to the case of its letters; a key has one    *)
(* value, whatever value name the caller gives.                            *)
(***************************************************************************)
EXTENDS Integers, Sequences, FiniteSets, FiniteSetsExt

CONSTANTS
  RootName,  \* [HKEY_ constants -> root_name]
  SubKeys,
  RegValues,
  NoValue,   \* the empty string of a new key
  RegSlots   \* MAX_REG

ASSUME RegAssumption ==
  RegSlots \in Nat \ {0} /\ NoValue \in RegValues /\ "" \notin SubKeys

VARIABLES
  key,    \* g_reg: a sequence of [path, value], as slots are filled in order
  opened, \* history: <<handle, path asked for>> of the opens that succeeded
  writes  \* history: [path -> the value last set through a handle opened for it]

regVars == <<key, opened, writes>>
RegInit == key = << >> /\ opened = {} /\ writes = << >>

Handles == 1..RegSlots
SlotPath(h) == IF h \in DOMAIN key THEN key[h].path ELSE <<"">>

(* make_path below a root, a handle, or anything else.                     *)
PathOf(from, sub) ==
  CASE from \in DOMAIN RootName -> <<RootName[from], sub>>
    [] from \in Handles /\ sub # "" -> Append(SlotPath(from), sub)
    [] from \in Handles /\ sub = "" -> SlotPath(from)
    [] OTHER -> <<sub>>

SlotsAt(path) == {i \in DOMAIN key : key[i].path = path}

(* RegOpenKeyExA makes the key when there is none, and fails when the      *)
(* table is full.                                                          *)
RegOpen(from, sub) ==
  LET path == PathOf(from, sub)
  IN  \/ /\ SlotsAt(path) # {}
         /\ opened' = opened \cup {<<Min(SlotsAt(path)), path>>}
         /\ UNCHANGED <<key, writes>>
      \/ /\ SlotsAt(path) = {} /\ Len(key) < RegSlots
         /\ key' = Append(key, [path |-> path, value |-> NoValue])
         /\ opened' = opened \cup {<<Len(key) + 1, path>>}
         /\ writes' = [p \in DOMAIN writes \cup {path} |->
                         IF p \in DOMAIN writes THEN writes[p] ELSE NoValue]

(* RegSetValueExA; a handle that is no used slot is refused.               *)
RegSet(h, v) ==
  /\ h \in DOMAIN key
  /\ key' = [key EXCEPT ![h].value = v]
  /\ writes' = [p \in DOMAIN writes |-> IF <<h, p>> \in opened THEN v ELSE writes[p]]
  /\ UNCHANGED opened

(* RegCloseKey leaves the slot: a closed handle goes on naming its key.    *)
RegClose(h) == UNCHANGED regVars

(* RegQueryValueExA with room for the value.                               *)
RegQuery(h) == key[h].value

RegStep ==
  \/ \E from \in DOMAIN RootName \cup Handles \cup {0}, sub \in SubKeys \cup {""} : RegOpen(from, sub)
  \/ \E h \in Handles, v \in RegValues : RegSet(h, v)
  \/ \E h \in Handles : RegClose(h)

-----------------------------------------------------------------------------
RegTypeOK ==
  /\ Len(key) <= RegSlots /\ \A i \in DOMAIN key : key[i].value \in RegValues
  /\ \A o \in opened : o[1] \in Handles

(* A handle means one key for ever, also after its close, and a key has    *)
(* one handle, however its path was put together; what a query returns is  *)
(* what was last set through any handle opened for that path.              *)
HandleIsKey ==
  /\ \A o, q \in opened : o[1] = q[1] <=> o[2] = q[2]
  /\ \A o \in opened : o[1] \in DOMAIN key /\ RegQuery(o[1]) = writes[o[2]]
=============================================================================
