-------------------------- MODULE BackendRegistry --------------------------
(***************************************************************************)
(* The backend registry of plugin.c: a table per kind, seeded by the first *)
(* call that needs it; plugins and callers register into it.               *)
(***************************************************************************)
EXTENDS Integers, Sequences, FiniteSets, FiniteSetsExt

CONSTANTS
  Kinds, BackendNames,
  Priorities,
  BackendSlots,  \* CELLAR_MAX_BACKENDS
  Seeds,         \* [Kinds -> what seed_defaults registers, in order]
  None           \* the NULL of pick

(* cellar_backend_t without its handle, which nothing here reads.          *)
BackendRows == [name : STRING, priority : Int, available : BOOLEAN]

(* What seed_defaults registers is registered by name, as all is.          *)
ASSUME BackendAssumption ==
  /\ BackendSlots \in Nat \ {0} /\ Priorities \subseteq Int
  /\ BackendNames \subseteq STRING /\ None \notin BackendNames
  /\ Seeds \in [Kinds -> Seq(BackendRows)]
  /\ \A k \in Kinds :
       /\ Len(Seeds[k]) <= BackendSlots
       /\ \A i, j \in DOMAIN Seeds[k] : Seeds[k][i].name = Seeds[k][j].name => i = j

VARIABLES
  backends,  \* [Kinds -> sequence of [name, priority, available]], in the order registered
  seeded,
  wanted,    \* history: the newest request about each name of a kind
  unheard    \* history: the <<kind, name>> whose newest request came before the seeding

backendVars == <<backends, seeded, wanted, unheard>>

Nothing == [k \in Kinds |-> << >>]
BackendInit == backends = Nothing /\ seeded = FALSE /\ wanted = {} /\ unheard = {}

(* What a call finds when it has run seed_defaults.                        *)
Table == IF seeded THEN backends ELSE Seeds
Requests ==
  IF seeded THEN wanted
  ELSE UNION {{[kind |-> k, order |-> i, entry |-> Seeds[k][i]] : i \in DOMAIN Seeds[k]} : k \in Kinds}

Registered(k, name) == {i \in DOMAIN Table[k] : Table[k][i].name = name}

(* cellar_backend_register, also from cellar_backend_init (which only      *)
(* seeds) and from a plugin's entry: the newest registration of a name     *)
(* replaces the one before, a full table ignores a new name.               *)
Register(k, e) ==
  /\ seeded' = TRUE
  /\ backends' = [Table EXCEPT ![k] =
       IF Registered(k, e.name) # {} THEN [@ EXCEPT ![Min(Registered(k, e.name))] = e]
       ELSE IF Len(@) < BackendSlots THEN Append(@, e) ELSE @]
  /\ LET known == {r \in Requests : r.kind = k /\ r.entry.name = e.name}
         count == Cardinality({r \in Requests : r.kind = k})
     IN  wanted' =
           IF known # {} THEN (Requests \ known) \cup {[r EXCEPT !.entry = e] : r \in known}
           ELSE IF count < BackendSlots
                THEN Requests \cup {[kind |-> k, order |-> count + 1, entry |-> e]}
                ELSE Requests
  /\ unheard' = unheard \ {<<k, e.name>>}

SeedDefaults ==
  /\ seeded' = TRUE /\ backends' = Table /\ wanted' = Requests /\ UNCHANGED unheard

(* set_available reaches the name in every kind; it does not seed, and     *)
(* before the seeding it finds nothing and is forgotten.                   *)
SetAvailable(name, a) ==
  /\ backends' = [k \in Kinds |->
       [i \in DOMAIN backends[k] |->
          IF backends[k][i].name = name THEN [backends[k][i] EXCEPT !.available = a]
          ELSE backends[k][i]]]
  /\ wanted' = {IF r.entry.name = name THEN [r EXCEPT !.entry.available = a] ELSE r : r \in wanted}
  /\ unheard' = {u \in unheard : u[2] # name} \cup
                 (IF seeded THEN {}
                  ELSE {<<k, name>> : k \in {c \in Kinds : \E i \in DOMAIN Seeds[c] :
                                       Seeds[c][i].name = name /\ Seeds[c][i].available # a}})
  /\ UNCHANGED seeded

(* Variant: the last of equal backends wins.                               *)
BetterOrEqual(k, i, best) == best = 0 \/ Table[k][i].priority <= Table[k][best].priority
Better(k, i, best) == best = 0 \/ Table[k][i].priority < Table[k][best].priority

(* cellar_backend_pick: one pass that keeps the best so far.               *)
Pick(k) ==
  LET best[i \in 0..Len(Table[k])] ==
        IF i = 0 THEN 0
        ELSE IF Table[k][i].available /\ Better(k, i, best[i - 1]) THEN i ELSE best[i - 1]
      b == best[Len(Table[k])]
  IN  CASE b # 0 -> Table[k][b].name
        [] b = 0 /\ k = "graphics" -> "Software"
        [] OTHER -> None

BackendStep ==
  \/ SeedDefaults
  \/ \E k \in Kinds, n \in BackendNames, p \in Priorities, a \in BOOLEAN :
       Register(k, [name |-> n, priority |-> p, available |-> a])
  \/ \E n \in BackendNames, a \in BOOLEAN : SetAvailable(n, a)

-----------------------------------------------------------------------------
BackendTypeOK ==
  \A k \in Kinds : Len(backends[k]) <= BackendSlots /\ (~seeded => backends[k] = << >>)

(* pick follows the newest request about each name, through replacements,  *)
(* availability changes that reach several kinds, and a full table: it     *)
(* returns the available backend of least priority number, the one that    *)
(* was registered first among equals, and only without any the graphics    *)
(* fallback or nothing.  The kinds are excepted in which a name was set    *)
(* available, or not, before the defaults were there: that request is lost *)
(* until the next one about the name.                                      *)
PickIsBest ==
  \A k \in Kinds : (\A n \in BackendNames : <<k, n>> \notin unheard) =>
    LET up == {r \in Requests : r.kind = k /\ r.entry.available}
        Before(r, s) == \/ r.entry.priority < s.entry.priority
                        \/ r.entry.priority = s.entry.priority /\ r.order < s.order
        first == {r \in up : \A s \in up \ {r} : Before(r, s)}
    IN  Pick(k) = IF first # {} THEN (CHOOSE r \in first : TRUE).entry.name
                  ELSE IF k = "graphics" THEN "Software" ELSE None
=============================================================================
