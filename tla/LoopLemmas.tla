------------------------------ MODULE LoopLemmas ------------------------------
(***************************************************************************)
(* What the proofs need to know of the loops of the library: those that    *)
(* look for the first free slot or the first entry of a name are modelled  *)
(* by Min, those that carry a value from entry to entry by a function      *)
(* defined by recursion over the entries, those that add up or collect by  *)
(* a fold, over the set of what is added or from the left of a sequence,   *)
(* those that scan a text and put out another by recursion over its places. *)
(***************************************************************************)
EXTENDS Integers, Sequences, SequencesExt, FiniteSetTheorems, SequenceTheorems,
        WellFoundedInduction, TLAPS

(* A nonempty set of natural numbers has a least element, and Min of the   *)
(* community modules chooses it: the code's "first slot such that".         *)
LEMMA MinIsMember ==
  ASSUME NEW S, S \subseteq Nat, S # {}
  PROVE  Min(S) \in S /\ \A n \in S : Min(S) <= n
<1> DEFINE less == OpToRel(<, Nat)
<1>1. PICK m \in S : \A n \in S : <<n, m>> \notin less
  <2> HIDE DEF less
  <2> QED
    BY NatLessThanWellFounded, WFMin, Zenon DEF less
<1>2. \A n \in S : m <= n
  <2> SUFFICES ASSUME NEW n \in S
               PROVE  m <= n
    OBVIOUS
  <2>1. m \in Nat /\ n \in Nat
    OBVIOUS
  <2>2. ~(n < m)
    BY <1>1, <2>1, Zenon DEF OpToRel
  <2> QED
    BY ONLY <2>1, <2>2
<1> QED
  BY <1>2, Zenon DEF Min

(* Max of the community modules, of a set of numbers up to n.               *)
LEMMA MaxIsMember ==
  ASSUME NEW n \in Nat, NEW S, S \subseteq 0..n, S # {}
  PROVE  Max(S) \in S /\ \A x \in S : x <= Max(S)
<1>1. PICK gaps : gaps = {n - x : x \in S}
  OBVIOUS
<1>2. gaps \subseteq Nat /\ gaps # {}
  <2>1. \A x \in S : n - x \in Nat
    OBVIOUS
  <2>2. PICK y : y \in S
    OBVIOUS
  <2>3. n - y \in gaps
    BY <1>1, <2>2
  <2> QED
    BY <1>1, <2>1, <2>3
<1>3. PICK g \in gaps : \A h \in gaps : g <= h
  BY <1>2, MinIsMember
<1>4. PICK m \in S : g = n - m
  BY <1>1
<1>5. \A x \in S : m >= x
  <2> SUFFICES ASSUME NEW x \in S
               PROVE  m >= x
    OBVIOUS
  <2>1. n - x \in gaps
    BY <1>1
  <2>2. n - m <= n - x
    BY <1>3, <1>4, <2>1
  <2>3. x \in 0..n /\ m \in 0..n
    OBVIOUS
  <2> QED
    BY ONLY <2>2, <2>3, n \in Nat
<1>6. Max(S) \in S /\ \A x \in S : Max(S) >= x
  BY <1>5, Zenon DEF Max
<1>7. \A x \in S : x \in Int
  OBVIOUS
<1> QED
  BY <1>6, <1>7

(* Induction: what holds of 0 and passes from each number to the next      *)
(* holds up to n.                                                          *)
LEMMA Climb ==
  ASSUME NEW n \in Nat, NEW good, 0 \in good,
         \A i \in 1..n : i - 1 \in good => i \in good
  PROVE  \A i \in 0..n : i \in good
<1> DEFINE bad == {m \in 0..n : m \notin good}
<1> SUFFICES ASSUME bad # {}
             PROVE  FALSE
  OBVIOUS
<1>1. bad \subseteq Nat
  OBVIOUS
<1>2. PICK m \in bad : \A k \in bad : m <= k
  BY <1>1, MinIsMember
<1>3. m \in 1..n
  BY <1>2
<1>4. m - 1 \in 0..n /\ m - 1 \notin bad
  BY <1>2, <1>3
<1> QED
  BY <1>3, <1>4

(* A loop that carries a value of V, a at first, through n steps.           *)
Steps(n, V, a, step) == n \in Nat /\ a \in V /\ step \in [1..n -> [V -> V]]
Follows(f, n, V, a, step) ==
  f \in [0..n -> V] /\ f[0] = a /\ \A i \in 1..n : f[i] = step[i][f[i - 1]]

(* Such a loop has values: the function that a definition by recursion      *)
(* over 0..n chooses is there.                                             *)
LEMMA RecursionExists ==
  ASSUME NEW n, NEW V, NEW a, NEW step, Steps(n, V, a, step)
  PROVE  \E f : Follows(f, n, V, a, step)
<1> USE DEF Steps
<1> DEFINE Upto(m) == \E f \in [0..m -> V] : f[0] = a /\ \A i \in 1..m : f[i] = step[i][f[i - 1]]
           good == {m \in 0..n : Upto(m)}
<1>1. Upto(0)
  <2> DEFINE g == [i \in 0..0 |-> a]
  <2>1. g \in [0..0 -> V] /\ g[0] = a
    OBVIOUS
  <2>2. \A i \in 1..0 : FALSE
    OBVIOUS
  <2> HIDE DEF g
  <2> QED
    BY <2>1, <2>2
<1>2. ASSUME NEW m \in 1..n, Upto(m - 1)
      PROVE  Upto(m)
  <2>1. PICK f \in [0..m - 1 -> V] : f[0] = a /\ \A i \in 1..m - 1 : f[i] = step[i][f[i - 1]]
    BY <1>2
  <2> DEFINE g == [i \in 0..m |-> IF i = m THEN step[m][f[m - 1]] ELSE f[i]]
  <2>2. step[m] \in [V -> V] /\ f[m - 1] \in V
    OBVIOUS
  <2>3. g \in [0..m -> V]
    BY <2>2
  <2>4. /\ g[m] = step[m][f[m - 1]]
        /\ \A i \in 0..m - 1 : g[i] = f[i]
    OBVIOUS
  <2> HIDE DEF g
  <2>5. ASSUME NEW i \in 1..m
        PROVE  g[i] = step[i][g[i - 1]]
    <3>1. CASE i = m
      BY <2>4, <3>1
    <3>2. CASE i # m
      <4>1. i \in 1..m - 1 /\ i \in 0..m - 1 /\ i - 1 \in 0..m - 1
        BY <3>2
      <4> QED
        BY <2>1, <2>4, <4>1
    <3> QED
      BY <3>1, <3>2
  <2>6. g[0] = a
    BY <2>1, <2>4
  <2> QED
    BY <2>3, <2>5, <2>6
<1> HIDE DEF Upto
<1>3. 0 \in good /\ \A i \in 1..n : i - 1 \in good => i \in good
  BY <1>1, <1>2
<1>4. Upto(n)
  <2> HIDE DEF good
  <2>1. n \in good
    <3>1. n \in 0..n /\ n \in Nat
      OBVIOUS
    <3>2. \A i \in 0..n : i \in good
      BY <1>3, Climb, Zenon
    <3> QED
      BY <3>1, <3>2
  <2> QED
    BY <2>1 DEF good
<1> QED
  BY <1>4 DEF Upto, Follows

(* A table over 0..n that is filled in from 0 on, each entry from any of    *)
(* those before it.                                                        *)
Fills(n, V, step) ==
  /\ n \in Nat /\ step \in [0..n -> [[0..n -> V] -> V]]
  /\ \A i \in 0..n : \A t, u \in [0..n -> V] :
       (\A j \in 0..(i - 1) : t[j] = u[j]) => step[i][t] = step[i][u]

(* There is such a table: the function that a recursion to any smaller      *)
(* argument chooses.                                                       *)
LEMMA TableExists ==
  ASSUME NEW n, NEW V, NEW v \in V, NEW step, Fills(n, V, step)
  PROVE  \E g \in [0..n -> V] : \A i \in 0..n : g[i] = step[i][g]
<1>1. n \in Nat /\ step \in [0..n -> [[0..n -> V] -> V]]
  BY DEF Fills
<1>2. ASSUME NEW i \in 0..n, NEW t \in [0..n -> V], NEW u \in [0..n -> V],
             \A j \in 0..(i - 1) : t[j] = u[j]
      PROVE  step[i][t] = step[i][u]
  BY <1>2 DEF Fills
<1> DEFINE Upto(m) == \E g \in [0..n -> V] : \A i \in 0..m : g[i] = step[i][g]
           good == {m \in 0..n : Upto(m)}
<1>3. ASSUME NEW m \in 0..n, NEW g \in [0..n -> V], \A i \in 0..(m - 1) : g[i] = step[i][g]
      PROVE  Upto(m)
  <2>1. PICK a : a = step[m][g] /\ a \in V
    BY <1>1
  <2>2. PICK h : h = [g EXCEPT ![m] = a]
    OBVIOUS
  <2>3. h \in [0..n -> V] /\ h[m] = a /\ \A j \in 0..(m - 1) : j \in 0..n /\ h[j] = g[j]
    BY <1>1, <2>1, <2>2
  <2>4. ASSUME NEW i \in 0..m
        PROVE  h[i] = step[i][h]
    <3>1. i \in 0..n /\ \A j \in 0..(i - 1) : j \in 0..(m - 1)
      BY <1>1
    <3>2. step[i][g] = step[i][h]
      BY <1>2, <2>3, <3>1
    <3>3. CASE i = m
      BY <2>1, <2>3, <3>2, <3>3
    <3>4. CASE i # m
      <4>1. i \in 0..(m - 1)
        BY <1>1, <3>4
      <4> QED
        BY <1>3, <2>3, <3>2, <4>1
    <3> QED
      BY <3>3, <3>4
  <2> QED
    BY <2>3, <2>4
<1>4. 0 \in good
  <2>1. PICK g : g = [i \in 0..n |-> v]
    OBVIOUS
  <2>2. g \in [0..n -> V] /\ 0 \in 0..n /\ \A i \in 0..(0 - 1) : FALSE
    BY <1>1, <2>1
  <2>3. Upto(0)
    <3> HIDE DEF Upto
    <3> QED
      BY <1>3, <2>2
  <2> QED
    BY <2>2, <2>3
<1>5. ASSUME NEW m \in 1..n, m - 1 \in good
      PROVE  m \in good
  <2>1. m \in 0..n /\ Upto(m - 1)
    BY <1>5
  <2>2. PICK g \in [0..n -> V] : \A i \in 0..(m - 1) : g[i] = step[i][g]
    BY <2>1
  <2>3. Upto(m)
    <3> HIDE DEF Upto
    <3> QED
      BY <1>3, <2>1, <2>2
  <2> QED
    BY <2>1, <2>3
<1>6. n \in good
  <2>1. n \in 0..n
    BY <1>1
  <2>2. \A i \in 0..n : i \in good
    <3> HIDE DEF good
    <3> QED
      BY <1>1, <1>4, <1>5, Climb
  <2> QED
    BY <2>1, <2>2
<1> QED
  BY <1>6

(* A number has one remainder, and numbers less than c apart have different *)
(* ones.                                                                   *)
LEMMA RemainderUnique ==
  ASSUME NEW c \in Nat \ {0}, NEW x \in Nat, NEW q \in Int, NEW r \in 0..(c - 1), x = c * q + r
  PROVE  (x % c) = r
<1> DEFINE p == x \div c
<1>1. x = c * p + (x % c) /\ p \in Int /\ (x % c) \in 0..(c - 1)
  OBVIOUS
<1> HIDE DEF p
<1>2. PICK d : d = (x % c) /\ d \in 0..(c - 1) /\ x = c * p + d
  BY <1>1
<1>3. c * (q - p) = d - r
  BY <1>1, <1>2, SMT
<1>4. d - r < c /\ r - d < c
  BY <1>2
<1>5. q = p
  BY <1>1, <1>3, <1>4, SMT
<1> QED
  BY <1>2, <1>5, SMT

LEMMA RemaindersDiffer ==
  ASSUME NEW c \in Nat \ {0}, NEW x \in Nat, NEW y \in Nat, x < y, y < x + c
  PROVE  (x % c) # (y % c)
<1> DEFINE p == x \div c
           q == y \div c
<1>1. x = c * p + (x % c) /\ p \in Int /\ (x % c) \in Int
  OBVIOUS
<1>2. y = c * q + (y % c) /\ q \in Int /\ (y % c) \in Int
  OBVIOUS
<1> HIDE DEF p, q
<1>3. SUFFICES ASSUME (x % c) = (y % c)
               PROVE  FALSE
  OBVIOUS
<1>4. PICK d : d = (x % c) /\ d \in Int /\ x = c * p + d /\ y = c * q + d
  BY <1>1, <1>2, <1>3
<1>5. y - x = c * (q - p)
  BY <1>1, <1>2, <1>4, SMT
<1> QED
  BY <1>1, <1>2, <1>5, SMT

(* What is added to a remainder may as well be added to the number.         *)
LEMMA RemainderSum ==
  ASSUME NEW c \in Nat \ {0}, NEW x \in Nat, NEW y \in Nat
  PROVE  ((x % c) + y) % c = (x + y) % c
<1> DEFINE p == x \div c
           m == (x % c) + y
           q == m \div c
<1>1. x = c * p + (x % c) /\ p \in Int /\ (x % c) \in Nat
  OBVIOUS
<1>2. m \in Nat
  BY <1>1
<1> HIDE DEF p, m
<1>3. m = c * q + (m % c) /\ q \in Int /\ (m % c) \in 0..(c - 1)
  BY <1>2
<1> HIDE DEF q
<1>4. x + y = c * p + m
  BY <1>1 DEF m
<1>5. x + y = c * (p + q) + (m % c)
  BY <1>1, <1>2, <1>3, <1>4, SMT
<1>6. (x + y) % c = (m % c)
  BY ONLY <1>1, <1>3, <1>5, RemainderUnique, x + y \in Nat, p + q \in Int, c \in Nat \ {0}
<1> QED
  BY <1>6 DEF m

(* A sequence that is not empty has a last element.                        *)
LEMMA SomeLength ==
  ASSUME NEW T, NEW s \in Seq(T), s # << >>
  PROVE  Len(s) \in Nat \ {0}
OBVIOUS

LEMMA EntryType ==
  ASSUME NEW T, NEW s \in Seq(T), NEW i \in DOMAIN s
  PROVE  s[i] \in T
OBVIOUS

-----------------------------------------------------------------------------
(* A fold over the subsets of a finite set, that takes from each the        *)
(* element that pick has for it.                                           *)
Peels(D, pick) == IsFiniteSet(D) /\ \A s \in SUBSET D : s # {} => pick[s] \in s
FoldsTo(F, D, V, a, pick, step) ==
  /\ F \in [SUBSET D -> V] /\ F[{}] = a
  /\ \A s \in SUBSET D : s # {} => F[s] = step[pick[s]][F[s \ {pick[s]}]]

LEMMA SubsetSizes ==
  ASSUME NEW D, NEW pick, Peels(D, pick), NEW s \in SUBSET D
  PROVE  /\ Cardinality(D) \in Nat /\ Cardinality(s) \in 0..Cardinality(D)
         /\ s = {} <=> Cardinality(s) = 0
<1>1. IsFiniteSet(D)
  BY DEF Peels
<1>2. IsFiniteSet(s) /\ Cardinality(s) <= Cardinality(D)
  BY <1>1, FS_Subset
<1>3. Cardinality(s) \in Nat /\ Cardinality(D) \in Nat
  BY <1>1, <1>2, FS_CardinalityType
<1>4. s = {} <=> Cardinality(s) = 0
  BY <1>2, FS_EmptySet
<1> QED
  BY <1>2, <1>3, <1>4

LEMMA SubsetPeeled ==
  ASSUME NEW D, NEW pick, Peels(D, pick), NEW s \in SUBSET D, s # {}
  PROVE  /\ pick[s] \in s /\ s \ {pick[s]} \in SUBSET D
         /\ Cardinality(s \ {pick[s]}) = Cardinality(s) - 1
<1>1. IsFiniteSet(D) /\ pick[s] \in s
  BY DEF Peels
<1>2. IsFiniteSet(s)
  BY <1>1, FS_Subset
<1> QED
  BY <1>1, <1>2, FS_RemoveElement

(* Induction over them: what holds of the empty set, and of a set when it   *)
(* holds of the set without the element that pick has, holds of all.        *)
LEMMA SubsetClimb ==
  ASSUME NEW D, NEW pick, Peels(D, pick), NEW good, {} \in good,
         \A s \in SUBSET D : s # {} /\ s \ {pick[s]} \in good => s \in good
  PROVE  \A s \in SUBSET D : s \in good
<1>1. PICK n : n = Cardinality(D) /\ n \in Nat
  BY SubsetSizes
<1> DEFINE sizes == {k \in 0..n : \A s \in SUBSET D : Cardinality(s) = k => s \in good}
<1>2. 0 \in sizes
  <2>1. \A s \in SUBSET D : Cardinality(s) = 0 => s = {}
    BY SubsetSizes, Zenon
  <2>2. \A s \in SUBSET D : Cardinality(s) = 0 => s \in good
    BY <2>1, Zenon
  <2>3. 0 \in 0..n
    BY <1>1
  <2> QED
    BY <2>2, <2>3, Zenon
<1>3. ASSUME NEW k \in 1..n, k - 1 \in sizes
      PROVE  k \in sizes
  <2>1. k \in 0..n /\ k \in Int /\ k # 0
    BY <1>1
  <2>2. ASSUME NEW s \in SUBSET D, Cardinality(s) = k
        PROVE  s \in good
    <3>1. s # {} /\ s \ {pick[s]} \in SUBSET D /\ Cardinality(s \ {pick[s]}) = k - 1
      BY <2>1, <2>2, SubsetSizes, SubsetPeeled
    <3>2. s \ {pick[s]} \in good
      BY <1>3, <3>1
    <3> QED
      BY <3>1, <3>2
  <2> QED
    BY <2>1, <2>2
<1>4. \A k \in 0..n : k \in sizes
  <2> HIDE DEF sizes
  <2> QED
    BY <1>1, <1>2, <1>3, Climb
<1> QED
  BY <1>1, <1>4, SubsetSizes

(* It has values, whatever step does: a stage of the recursion for every    *)
(* number of elements.                                                     *)
LEMMA SubsetFoldExists ==
  ASSUME NEW D, NEW pick, Peels(D, pick), NEW V, NEW a \in V, NEW step \in [D -> [V -> V]]
  PROVE  \E F : FoldsTo(F, D, V, a, pick, step)
<1>2. PICK n : n = Cardinality(D) /\ n \in Nat
  BY SubsetSizes
<1>3. ASSUME NEW s \in SUBSET D
      PROVE  /\ Cardinality(s) \in 0..n
             /\ s = {} <=> Cardinality(s) = 0
             /\ s # {} => /\ pick[s] \in s /\ s \ {pick[s]} \in SUBSET D
                          /\ Cardinality(s \ {pick[s]}) = Cardinality(s) - 1
  <2>1. Cardinality(s) \in 0..n /\ (s = {} <=> Cardinality(s) = 0)
    BY <1>2, SubsetSizes
  <2>2. s # {} => /\ pick[s] \in s /\ s \ {pick[s]} \in SUBSET D
                /\ Cardinality(s \ {pick[s]}) = Cardinality(s) - 1
    BY SubsetPeeled
  <2> QED
    BY <2>1, <2>2
<1>4. PICK W : W = [SUBSET D -> V]
  OBVIOUS
<1>5. PICK start : start = [s \in SUBSET D |-> a]
  OBVIOUS
<1>6. PICK st : st = [k \in 1..n |-> [w \in W |-> [s \in SUBSET D |->
                        IF s = {} THEN a ELSE step[pick[s]][w[s \ {pick[s]}]]]]]
  OBVIOUS
<1>7. ASSUME NEW w \in W
      PROVE  [s \in SUBSET D |-> IF s = {} THEN a ELSE step[pick[s]][w[s \ {pick[s]}]]] \in W
  <2> SUFFICES ASSUME NEW s \in SUBSET D, s # {}
               PROVE  step[pick[s]][w[s \ {pick[s]}]] \in V
    BY <1>4
  <2>1. pick[s] \in D /\ w[s \ {pick[s]}] \in V
    BY <1>3, <1>4
  <2>2. step[pick[s]] \in [V -> V]
    BY <2>1
  <2> QED
    BY <2>1, <2>2
<1>8. Steps(n, W, start, st)
  <2>1. start \in W
    BY <1>4, <1>5
  <2>2. st \in [1..n -> [W -> W]]
    BY <1>6, <1>7
  <2> QED
    BY <1>2, <2>1, <2>2 DEF Steps
<1>9. PICK G : Follows(G, n, W, start, st)
  BY <1>8, RecursionExists
<1>10. G \in [0..n -> W] /\ \A m \in 1..n : G[m] = st[m][G[m - 1]]
  BY <1>9 DEF Follows
<1>11. PICK F : F = [s \in SUBSET D |-> IF s = {} THEN a ELSE G[Cardinality(s)][s]]
  OBVIOUS
<1>12. ASSUME NEW s \in SUBSET D
       PROVE  F[s] \in V
  <2>1. G[Cardinality(s)] \in W
    BY <1>3, <1>10
  <2> QED
    BY <1>4, <1>11, <2>1
<1>13. ASSUME NEW s \in SUBSET D, s # {}
       PROVE  F[s] = step[pick[s]][F[s \ {pick[s]}]]
  <2>0. Cardinality(s) \in 1..n /\ Cardinality(s) - 1 \in 0..n
    <3>1. Cardinality(s) \in 0..n /\ Cardinality(s) # 0
      BY <1>3, <1>13
    <3> QED
      BY ONLY <1>2, <3>1
  <2>1. PICK k : k = Cardinality(s) /\ k \in 1..n /\ k - 1 \in 0..n
    BY <2>0
  <2>2. PICK w : w = G[k - 1] /\ w \in W
    BY <1>10, <2>1
  <2>3. G[k] = [t \in SUBSET D |-> IF t = {} THEN a ELSE step[pick[t]][w[t \ {pick[t]}]]]
    <3>1. G[k] = st[k][w]
      BY <1>10, <2>1, <2>2
    <3> QED
      BY <1>6, <2>1, <2>2, <3>1
  <2>4. F[s] = step[pick[s]][w[s \ {pick[s]}]]
    BY <1>11, <1>13, <2>1, <2>3
  <2>5. PICK r : r = s \ {pick[s]} /\ r \in SUBSET D /\ Cardinality(r) = k - 1
    BY <1>3, <1>13, <2>1
  <2>6. w[r] = F[r]
    <3>1. CASE r # {}
      BY <1>11, <2>2, <2>5, <3>1
    <3>2. CASE r = {}
      <4>1. k = 1
        BY <1>3, <2>1, <2>5, <3>2
      <4>2. w = start
        BY <1>9, <2>2, <4>1 DEF Follows
      <4> QED
        BY <1>5, <1>11, <2>5, <3>2, <4>2
    <3> QED
      BY <3>1, <3>2
  <2> QED
    BY <2>4, <2>5, <2>6
<1>14. F \in [SUBSET D -> V] /\ F[{}] = a
  BY <1>11, <1>12
<1> QED
  BY <1>13, <1>14 DEF FoldsTo

(* ... and they are the only ones: those that a definition by recursion     *)
(* over the subsets chooses.                                               *)
Recurs(G, D, V, a, pick, step) ==
  /\ G[{}] = a
  /\ \A s \in SUBSET D : s # {} /\ G[s \ {pick[s]}] \in V
                         => G[s] = step[pick[s]][G[s \ {pick[s]}]]

LEMMA SubsetFoldUnique ==
  ASSUME NEW D, NEW pick, Peels(D, pick), NEW V, NEW a, NEW step,
         NEW F, FoldsTo(F, D, V, a, pick, step), NEW G, Recurs(G, D, V, a, pick, step)
  PROVE  G[D] = F[D]
<1>1. F \in [SUBSET D -> V] /\ F[{}] = a
  BY DEF FoldsTo
<1> DEFINE good == {s \in SUBSET D : G[s] = F[s]}
<1>2. {} \in good
  BY <1>1 DEF Recurs
<1>3. ASSUME NEW s \in SUBSET D, s # {}, s \ {pick[s]} \in good
      PROVE  s \in good
  <2>1. PICK r : r = s \ {pick[s]} /\ r \in SUBSET D /\ G[r] = F[r]
    BY <1>3
  <2>2. F[r] \in V
    BY <1>1, <2>1
  <2>3. G[s] = step[pick[s]][G[r]] /\ F[s] = step[pick[s]][F[r]]
    BY <1>3, <2>1, <2>2 DEF FoldsTo, Recurs
  <2> QED
    BY <2>1, <2>3
<1>4. \A s \in SUBSET D : s \in good
  <2> HIDE DEF good
  <2> QED
    BY <1>2, <1>3, SubsetClimb
<1> QED
  BY <1>4

(* Functions of the community modules: the sum of a function's values.      *)
SumPick(D) == [s \in SUBSET D |-> CHOOSE x \in s : TRUE]
SumStep(D, f) == [x \in D |-> [v \in Nat |-> f[x] + v]]

LEMMA SumIsFold ==
  ASSUME NEW D, IsFiniteSet(D), NEW f \in [D -> Nat]
  PROVE  \E F : FoldsTo(F, D, Nat, 0, SumPick(D), SumStep(D, f)) /\ SumFunction(f) = F[D]
<1>1. Peels(D, SumPick(D))
  BY DEF Peels, SumPick
<1>2. SumStep(D, f) \in [D -> [Nat -> Nat]]
  BY DEF SumStep
<1>3. PICK F : FoldsTo(F, D, Nat, 0, SumPick(D), SumStep(D, f))
  BY <1>1, <1>2, SubsetFoldExists
<1>4. F \in [SUBSET D -> Nat] /\ F[{}] = 0
  BY <1>3 DEF FoldsTo
<1>5. ASSUME NEW s \in SUBSET D, s # {}
      PROVE  F[s] = f[CHOOSE x \in s : TRUE] + F[s \ {CHOOSE x \in s : TRUE}]
  <2>1. PICK x : x = (CHOOSE y \in s : TRUE) /\ x \in D /\ SumPick(D)[s] = x
    BY <1>5 DEF SumPick
  <2>2. F[s] = SumStep(D, f)[x][F[s \ {x}]]
    BY <1>3, <1>5, <2>1 DEF FoldsTo
  <2>3. F[s \ {x}] \in Nat
    BY <1>4
  <2>4. F[s] = f[x] + F[s \ {x}]
    BY <2>1, <2>2, <2>3 DEF SumStep
  <2> QED
    BY <2>1, <2>4
<1> DEFINE Eq(g) == g = [s \in SUBSET D |-> IF s = {} THEN 0 ELSE
                           f[CHOOSE x \in s : TRUE] + g[s \ {CHOOSE x \in s : TRUE}]]
<1>6. Eq(F)
  BY <1>4, <1>5
<1>7. Eq(CHOOSE h : Eq(h))
  <2> HIDE DEF Eq
  <2> QED
    BY <1>6, Zenon
<1>8. PICK g : g = (CHOOSE h : Eq(h))
  OBVIOUS
<1>9. Eq(g)
  <2> HIDE DEF Eq
  <2> QED
    BY <1>7, <1>8, Zenon
<1>10. SumFunction(f) = g[D]
  <2>1. DOMAIN f = D
    OBVIOUS
  <2> QED
    BY <1>8, <2>1, Zenon DEF SumFunction, SumFunctionOnSet, FoldFunctionOnSet, MapThenFoldSet
<1>11. g[{}] = 0
  BY <1>9
<1>12. ASSUME NEW s \in SUBSET D, s # {}, g[s \ {SumPick(D)[s]}] \in Nat
       PROVE  g[s] = SumStep(D, f)[SumPick(D)[s]][g[s \ {SumPick(D)[s]}]]
  <2>1. PICK x : x = (CHOOSE y \in s : TRUE) /\ x \in D /\ SumPick(D)[s] = x
    BY <1>12 DEF SumPick
  <2>2. g[s] = f[x] + g[s \ {x}]
    BY <1>9, <1>12, <2>1
  <2> QED
    BY <1>12, <2>1, <2>2 DEF SumStep
<1>14. Recurs(g, D, Nat, 0, SumPick(D), SumStep(D, f))
  <2> HIDE DEF Eq
  <2> QED
    BY <1>11, <1>12, Zenon DEF Recurs
<1>13. g[D] = F[D]
  <2> HIDE DEF Eq
  <2> QED
    BY <1>1, <1>3, <1>14, SubsetFoldUnique
<1> QED
  BY <1>3, <1>10, <1>13

(* Sums of two functions, one of which is nowhere above the other.          *)
LEMMA SumsCompare ==
  ASSUME NEW D, IsFiniteSet(D), NEW f \in [D -> Nat], NEW h \in [D -> Nat],
         \A x \in D : f[x] <= h[x]
  PROVE  /\ SumFunction(f) \in Nat /\ SumFunction(h) \in Nat
         /\ SumFunction(f) <= SumFunction(h)
         /\ SumFunction(f) = SumFunction(h) <=> f = h
<1>1. Peels(D, SumPick(D))
  BY DEF Peels, SumPick
<1>2. PICK F : FoldsTo(F, D, Nat, 0, SumPick(D), SumStep(D, f)) /\ SumFunction(f) = F[D]
  BY SumIsFold
<1>3. PICK H : FoldsTo(H, D, Nat, 0, SumPick(D), SumStep(D, h)) /\ SumFunction(h) = H[D]
  BY SumIsFold
<1>4. F \in [SUBSET D -> Nat] /\ F[{}] = 0 /\ H \in [SUBSET D -> Nat] /\ H[{}] = 0
  BY <1>2, <1>3 DEF FoldsTo
<1> DEFINE good == {s \in SUBSET D : F[s] <= H[s] /\ (F[s] = H[s] <=> \A x \in s : f[x] = h[x])}
<1>5. {} \in good
  BY <1>4
<1>6. ASSUME NEW s \in SUBSET D, s # {}, s \ {SumPick(D)[s]} \in good
      PROVE  s \in good
  <2>1. PICK x : x = SumPick(D)[s] /\ x \in D /\ x \in s
    BY <1>6 DEF SumPick
  <2>2. PICK r : r = s \ {x} /\ r \in good /\ r \in SUBSET D
    BY <1>6, <2>1
  <2>21. r \in SUBSET D
    BY <2>2
  <2>3. F[r] \in Nat /\ H[r] \in Nat
    BY ONLY <1>4, <2>21
  <2>4. F[s] = f[x] + F[r] /\ H[s] = h[x] + H[r]
    BY <1>2, <1>3, <1>6, <2>1, <2>2, <2>3 DEF FoldsTo, SumStep
  <2>5. f[x] \in Nat /\ h[x] \in Nat /\ f[x] <= h[x] /\ F[r] <= H[r]
    BY <2>1, <2>2
  <2>6. F[s] <= H[s] /\ (F[s] = H[s] <=> f[x] = h[x] /\ F[r] = H[r])
    BY ONLY <2>3, <2>4, <2>5
  <2>7. (\A y \in s : f[y] = h[y]) <=> f[x] = h[x] /\ \A y \in r : f[y] = h[y]
    BY <2>1, <2>2
  <2> QED
    BY <2>2, <2>6, <2>7
<1>7. \A s \in SUBSET D : s \in good
  <2> HIDE DEF good
  <2> QED
    BY <1>1, <1>5, <1>6, SubsetClimb
<1>8. D \in good
  BY <1>7
<1>9. f = h <=> \A x \in D : f[x] = h[x]
  OBVIOUS
<1> QED
  BY <1>2, <1>3, <1>4, <1>8, <1>9

(* A fold of a sequence from the left takes the last entry off a front of   *)
(* the sequence: it is a loop through the entries.                         *)
LastOf(n) == [s \in SUBSET (1..n) |-> Max(s)]

LEMMA FrontsPeel ==
  ASSUME NEW n \in Nat
  PROVE  /\ Peels(1..n, LastOf(n))
         /\ \A i \in 1..n : LastOf(n)[1..i] = i /\ (1..i) \ {i} = 1..(i - 1)
<1>1. ASSUME NEW s \in SUBSET (1..n), s # {}
      PROVE  LastOf(n)[s] = Max(s) /\ Max(s) \in s /\ \A x \in s : Max(s) >= x
  <2>1. s \subseteq 0..n
    OBVIOUS
  <2> QED
    BY <1>1, <2>1, MaxIsMember DEF LastOf
<1>2. IsFiniteSet(1..n)
  BY FS_Interval
<1>3. ASSUME NEW i \in 1..n
      PROVE  LastOf(n)[1..i] = i /\ (1..i) \ {i} = 1..(i - 1)
  <2>1. 1..i \in SUBSET (1..n) /\ 1..i # {} /\ i \in 1..i
    OBVIOUS
  <2>2. PICK m : m = LastOf(n)[1..i]
    OBVIOUS
  <2>3. m \in 1..i /\ m >= i
    BY <1>1, <2>1, <2>2
  <2>4. m = i
    BY ONLY <2>3, i \in 1..n, n \in Nat
  <2> QED
    BY <2>2, <2>4
<1> QED
  BY <1>1, <1>2, <1>3 DEF Peels

LEMMA LeftFoldFollows ==
  ASSUME NEW n \in Nat, NEW V, NEW a \in V, NEW step \in [1..n -> [V -> V]],
         NEW g, Recurs(g, 1..n, V, a, LastOf(n), step)
  PROVE  \E f : Follows(f, n, V, a, step) /\ g[1..n] = f[n]
<1>1. PICK F : FoldsTo(F, 1..n, V, a, LastOf(n), step)
  BY FrontsPeel, SubsetFoldExists, Zenon
<1>2. g[1..n] = F[1..n]
  <2>1. Peels(1..n, LastOf(n))
    BY FrontsPeel, Zenon
  <2> QED
    BY <1>1, <2>1, SubsetFoldUnique
<1>3. F \in [SUBSET (1..n) -> V] /\ F[{}] = a
  BY <1>1 DEF FoldsTo
<1> DEFINE f == [i \in 0..n |-> F[1..i]]
<1>4. f \in [0..n -> V] /\ f[0] = a /\ f[n] = F[1..n]
  <2>1. \A i \in 0..n : 1..i \in SUBSET (1..n)
    OBVIOUS
  <2>2. 1..0 = {}
    OBVIOUS
  <2> QED
    BY <1>3, <2>1, <2>2
<1>5. ASSUME NEW i \in 1..n
      PROVE  f[i] = step[i][f[i - 1]]
  <2>1. 1..i \in SUBSET (1..n) /\ 1..i # {} /\ i \in 0..n /\ i - 1 \in 0..n
    OBVIOUS
  <2>2. LastOf(n)[1..i] = i /\ (1..i) \ {i} = 1..(i - 1)
    BY FrontsPeel
  <2>3. F[1..i] = step[i][F[1..(i - 1)]]
    BY <1>1, <2>1, <2>2, Zenon DEF FoldsTo
  <2> QED
    BY <2>1, <2>3
<1> QED
  <2> HIDE DEF f
  <2> QED
    BY <1>2, <1>4, <1>5 DEF Follows

(* SequencesExt: a sequence of sequences, one after the other.              *)
Joins(seqs, S) == [i \in 1..Len(seqs) |-> [t \in Seq(S) |-> t \o seqs[i]]]

LEMMA FlattenFollows ==
  ASSUME NEW S, NEW seqs \in Seq(Seq(S))
  PROVE  \E f : /\ Follows(f, Len(seqs), Seq(S), << >>, Joins(seqs, S))
                /\ FlattenSeq(seqs) = f[Len(seqs)]
<1>1. PICK n : n = Len(seqs) /\ n \in Nat
  OBVIOUS
<1>2. \A i \in 1..n : seqs[i] \in Seq(S)
  BY <1>1
<1>3. Joins(seqs, S) \in [1..n -> [Seq(S) -> Seq(S)]] /\ << >> \in Seq(S)
  BY <1>1, <1>2 DEF Joins
<1>4. PICK f : Follows(f, n, Seq(S), << >>, Joins(seqs, S))
  <2>1. Steps(n, Seq(S), << >>, Joins(seqs, S))
    BY <1>1, <1>3, Zenon DEF Steps
  <2> QED
    BY <2>1, RecursionExists, Zenon
<1>5. /\ f \in [0..n -> Seq(S)] /\ f[0] = << >>
      /\ \A i \in 1..n : f[i] = f[i - 1] \o seqs[i]
  <2>1. f \in [0..n -> Seq(S)] /\ f[0] = << >> /\ \A i \in 1..n : f[i] = Joins(seqs, S)[i][f[i - 1]]
    BY <1>4 DEF Follows
  <2>2. ASSUME NEW i \in 1..n
        PROVE  f[i] = f[i - 1] \o seqs[i]
    <3>1. i - 1 \in 0..n
      BY <1>1
    <3>2. f[i - 1] \in Seq(S)
      BY <2>1, <3>1
    <3> QED
      BY <1>1, <2>1, <3>2 DEF Joins
  <2> QED
    BY <2>1, <2>2
<1>6. CASE n = 0
  <2>1. FlattenSeq(seqs) = seqs /\ seqs = << >>
    <3>1. Len(seqs) = 0
      BY <1>1, <1>6
    <3>2. seqs = << >>
      BY ONLY <3>1, seqs \in Seq(Seq(S))
    <3> QED
      BY <3>1, <3>2, Zenon DEF FlattenSeq
  <2> QED
    BY <1>1, <1>4, <1>5, <1>6, <2>1
<1>7. CASE n # 0
  <2> DEFINE Eq(g) == g = [i \in 1..n |-> IF i = 1 THEN seqs[i] ELSE g[i - 1] \o seqs[i]]
             h == [i \in 1..n |-> f[i]]
  <2>1. Eq(h)
    <3>1. ASSUME NEW i \in 1..n
          PROVE  h[i] = IF i = 1 THEN seqs[i] ELSE h[i - 1] \o seqs[i]
      <4>1. f[i] = f[i - 1] \o seqs[i] /\ seqs[i] \in Seq(S)
        BY <1>2, <1>5
      <4>2. CASE i = 1
        <5>1. f[i - 1] = << >>
          BY <1>5, <4>2
        <5>2. f[i] = seqs[i]
          BY <4>1, <5>1
        <5> QED
          BY <4>2, <5>2
      <4>3. CASE i # 1
        <5>1. i - 1 \in 1..n
          BY <1>1, <4>3
        <5>2. h[i - 1] = f[i - 1] /\ h[i] = f[i]
          BY <5>1
        <5> QED
          BY <4>1, <4>3, <5>2, Zenon
      <4> QED
        BY <4>2, <4>3
    <3> QED
      BY <3>1, Zenon
  <2>2. Eq(CHOOSE g : Eq(g))
    <3> HIDE DEF Eq
    <3> QED
      BY <2>1, Zenon
  <2>3. PICK g : g = (CHOOSE k : Eq(k))
    OBVIOUS
  <2>4. Eq(g)
    <3> HIDE DEF Eq
    <3> QED
      BY <2>2, <2>3, Zenon
  <2>5. FlattenSeq(seqs) = g[n]
    <3>1. Len(seqs) = n /\ Len(seqs) # 0
      BY <1>1, <1>7
    <3> QED
      BY <2>3, <3>1, Zenon DEF FlattenSeq
  <2> DEFINE good == {i \in 0..n : i = 0 \/ g[i] = f[i]}
  <2>6. \A i \in 1..n : i - 1 \in good => i \in good
    <3> SUFFICES ASSUME NEW i \in 1..n, i - 1 \in good
                 PROVE  g[i] = f[i]
      OBVIOUS
    <3>1. g[i] = IF i = 1 THEN seqs[i] ELSE g[i - 1] \o seqs[i]
      BY <2>4
    <3>2. h[i] = IF i = 1 THEN seqs[i] ELSE h[i - 1] \o seqs[i]
      BY <2>1, Zenon
    <3>3. CASE i = 1
      BY <3>1, <3>2, <3>3
    <3>4. CASE i # 1
      <4>1. i - 1 \in 1..n /\ g[i - 1] = f[i - 1]
        BY <1>1, <3>4
      <4>2. h[i - 1] = f[i - 1] /\ h[i] = f[i]
        BY <4>1
      <4> QED
        BY <3>1, <3>2, <3>4, <4>1, <4>2, Zenon
    <3> QED
      BY <3>3, <3>4
  <2>7. \A i \in 0..n : i \in good
    <3>1. 0 \in good
      BY <1>1
    <3> HIDE DEF good
    <3> QED
      BY <1>1, <2>6, <3>1, Climb
  <2>8. g[n] = f[n]
    BY <1>1, <1>7, <2>7
  <2> QED
    BY <1>1, <1>4, <2>5, <2>8
<1> QED
  BY <1>6, <1>7


-----------------------------------------------------------------------------
(* Sequences that grow line by line.                                       *)
LEMMA Joined ==
  ASSUME NEW S, NEW a \in Seq(S), NEW b \in Seq(S), NEW y, y = a \o b
  PROVE  /\ y \in Seq(S) /\ Len(y) = Len(a) + Len(b) /\ Len(a) \in Nat /\ Len(b) \in Nat
         /\ \A i \in 1..Len(a) : y[i] = a[i]
         /\ \A i \in 1..Len(b) : y[Len(a) + i] = b[i]
<1>1. /\ y \in Seq(S) /\ Len(y) = Len(a) + Len(b)
      /\ \A i \in 1..Len(a) + Len(b) : y[i] = IF i <= Len(a) THEN a[i] ELSE b[i - Len(a)]
  BY ConcatProperties, Zenon
<1>2. Len(a) \in Nat /\ Len(b) \in Nat
  OBVIOUS
<1>3. ASSUME NEW i \in 1..Len(a)
      PROVE  y[i] = a[i]
  BY ONLY <1>1, <1>2, <1>3
<1>4. ASSUME NEW i \in 1..Len(b)
      PROVE  y[Len(a) + i] = b[i]
  <2>1. PICK h : h = Len(a) + i
    OBVIOUS
  <2>2. h \in 1..Len(a) + Len(b) /\ ~(h <= Len(a)) /\ h - Len(a) = i
    BY ONLY <1>2, <1>4, <2>1
  <2> QED
    BY ONLY <1>1, <2>1, <2>2
<1> QED
  BY <1>1, <1>2, <1>3, <1>4

LEMMA LineAppended ==
  ASSUME NEW S, NEW p \in Seq(S), NEW t \in Seq(S), NEW k \in 1..Len(t)
  PROVE  Append(p \o SubSeq(t, 1, k - 1), t[k]) = p \o SubSeq(t, 1, k)
<1>1. PICK u : u = SubSeq(t, 1, k - 1)
  OBVIOUS
<1>2. u \in Seq(S) /\ t[k] \in S
  BY <1>1
<1>3. SubSeq(t, 1, k) = u \o <<t[k]>>
  <2>1. 1 \in 1..Len(t)
    OBVIOUS
  <2>2. k \in 1..Len(t) /\ t \in Seq(S)
    OBVIOUS
  <2> QED
    BY <1>1, <2>1, <2>2, SubSeqRecursiveSecond, Zenon
<1>4. <<t[k]>> \in Seq(S) /\ p \o u \in Seq(S)
  BY <1>2
<1>5. Append(p \o u, t[k]) = (p \o u) \o <<t[k]>>
  BY <1>2, <1>4, AppendIsConcat, Zenon
<1>6. (p \o u) \o <<t[k]>> = p \o (u \o <<t[k]>>)
  BY <1>2, <1>4
<1> QED
  BY <1>1, <1>3, <1>5, <1>6, Zenon

LEMMA FirstOfTwo ==
  ASSUME NEW x, NEW y
  PROVE  SubSeq(<<x, y>>, 1, 1) = <<x>>
<1>1. PICK t : t = <<x, y>>
  OBVIOUS
<1>2. t \in Seq({x, y}) /\ Len(t) = 2 /\ t[1] = x
  BY <1>1
<1>3. PICK u : u = SubSeq(t, 1, 1)
  OBVIOUS
<1>4. u \in Seq({x, y}) /\ Len(u) = 1 /\ u[1] = x
  BY <1>2, <1>3
<1>5. u = <<x>>
  BY <1>4
<1> QED
  BY <1>1, <1>3, <1>5

LEMMA TwoJoined ==
  ASSUME NEW x, NEW y
  PROVE  <<x>> \o <<y>> = <<x, y>>
<1>1. PICK a, b : a = <<x>> /\ b = <<y>>
  OBVIOUS
<1>2. a \in Seq({x, y}) /\ b \in Seq({x, y}) /\ Len(a) = 1 /\ Len(b) = 1 /\ a[1] = x /\ b[1] = y
  BY <1>1
<1>3. PICK u : u = a \o b
  OBVIOUS
<1>4. /\ u \in Seq({x, y}) /\ Len(u) = Len(a) + Len(b)
      /\ \A i \in 1..Len(a) : u[i] = a[i]
      /\ \A i \in 1..Len(b) : u[Len(a) + i] = b[i]
  <2>1. a \in Seq({x, y}) /\ b \in Seq({x, y})
    BY <1>2
  <2> QED
    BY ONLY <1>3, <2>1, Joined
<1>5. Len(u) = 2 /\ u[1] = x /\ u[2] = y
  <2>1. 1 \in 1..Len(a) /\ 1 \in 1..Len(b) /\ Len(a) + 1 = 2 /\ Len(a) + Len(b) = 2
    BY <1>2
  <2>2. u[Len(a) + 1] = y
    BY <1>2, <1>4, <2>1
  <2> QED
    BY <1>2, <1>4, <2>1, <2>2
<1>6. PICK w : w = <<x, y>>
  OBVIOUS
<1>7. w \in Seq({x, y}) /\ Len(w) = 2 /\ w[1] = x /\ w[2] = y
  BY <1>6
<1>8. \A i \in 1..Len(u) : u[i] = w[i]
  BY <1>5, <1>7
<1>9. u = w
  BY ONLY <1>4, <1>5, <1>7, <1>8
<1> QED
  BY <1>1, <1>3, <1>6, <1>9

-----------------------------------------------------------------------------
(* A sequence that is put together from its end.                            *)
LEMMA Rebuilt ==
  ASSUME NEW S, NEW t \in Seq(S), NEW g, g[Len(t)] = << >>,
         \A j \in 1..Len(t) : g[j - 1] = <<t[j]>> \o g[j]
  PROVE  g[0] = t
<1>1. PICK n : n = Len(t) /\ n \in Nat
  OBVIOUS
<1> DEFINE good == {m \in 0..n : g[n - m] = SubSeq(t, n - m + 1, n)}
<1>2. 0 \in good
  <2>1. n - 0 = n /\ 0 \in 0..n
    BY <1>1
  <2>2. SubSeq(t, n + 1, n) = << >>
    BY <1>1
  <2> QED
    BY <1>1, <2>1, <2>2
<1>3. ASSUME NEW m \in 1..n, m - 1 \in good
      PROVE  m \in good
  <2>1. PICK j : j = n - m + 1 /\ j \in 1..n /\ n - m = j - 1 /\ n - (m - 1) = j
    BY <1>1
  <2>2. g[j - 1] = <<t[j]>> \o SubSeq(t, j + 1, n)
    BY <1>1, <1>3, <2>1
  <2>3. <<t[j]>> \o SubSeq(t, j + 1, n) = SubSeq(t, j, n)
    <3>1. j \in 1..Len(t) /\ n \in j..Len(t)
      BY <1>1, <2>1
    <3> QED
      BY <1>1, <3>1, SubSeqRecursiveFirst, Zenon
  <2>4. m \in 0..n /\ n - m + 1 = j
    BY <1>1, <2>1
  <2> QED
    BY <2>1, <2>2, <2>3, <2>4
<1>4. n \in good
  <2>1. \A m \in 0..n : m \in good
    <3> HIDE DEF good
    <3> QED
      BY <1>1, <1>2, <1>3, Climb
  <2> QED
    BY <1>1, <2>1
<1>5. n - n = 0 /\ 0 + 1 = 1 /\ SubSeq(t, 1, n) = t
  BY <1>1
<1> QED
  BY <1>4, <1>5

(* What holds past the end, and at a place if it holds further on.          *)
LEMMA Downward ==
  ASSUME NEW n \in Nat, NEW r \in Nat, NEW holds,
         \A p \in n + 1..n + r : p \in holds,
         \A p \in 1..n : (\A q \in p + 1..n + r : q \in holds) => p \in holds
  PROVE  \A p \in 1..n + r : p \in holds
<1> DEFINE good == {m \in 0..n : \A q \in n - m + 1..n + r : q \in holds}
<1>1. 0 \in good
  <2>1. n - 0 = n /\ 0 \in 0..n
    OBVIOUS
  <2> QED
    BY <2>1
<1>2. ASSUME NEW m \in 1..n, m - 1 \in good
      PROVE  m \in good
  <2>1. PICK p : p = n - m + 1 /\ p \in 1..n /\ n - (m - 1) + 1 = p + 1
    OBVIOUS
  <2>2. \A q \in p + 1..n + r : q \in holds
    BY <1>2, <2>1
  <2>3. p \in holds
    BY <2>1, <2>2
  <2>4. \A q \in p..n + r : q = p \/ q \in p + 1..n + r
    BY <2>1
  <2>5. \A q \in p..n + r : q \in holds
    BY <2>2, <2>3, <2>4
  <2>6. m \in 0..n
    OBVIOUS
  <2> QED
    BY <2>1, <2>5, <2>6
<1>3. n \in good
  <2>1. \A m \in 0..n : m \in good
    <3> HIDE DEF good
    <3> QED
      BY <1>1, <1>2, Climb
  <2> QED
    BY <2>1
<1>4. n - n + 1 = 1
  OBVIOUS
<1> QED
  BY <1>3, <1>4

(* A scan of a text of n entries, that puts something out at each place and *)
(* goes on up to r places further, until it is past the end.                *)
Walks(f, n, r, S, put, skip) ==
  /\ f \in [1..n + r -> Seq(S)]
  /\ \A p \in n + 1..n + r : f[p] = << >>
  /\ \A p \in 1..n : f[p] = put[p] \o f[p + skip[p]]

LEMMA WalkExists ==
  ASSUME NEW n \in Nat, NEW r \in Nat, NEW S, NEW put \in [1..n -> Seq(S)],
         NEW skip \in [1..n -> 1..r]
  PROVE  \E f : Walks(f, n, r, S, put, skip)
<1> DEFINE From(m) == \E f \in [1..n + r -> Seq(S)] :
                        /\ \A p \in n + 1..n + r : f[p] = << >>
                        /\ \A p \in n - m + 1..n : f[p] = put[p] \o f[p + skip[p]]
           good == {m \in 0..n : From(m)}
<1>1. 0 \in good
  <2>1. PICK f : f = [p \in 1..n + r |-> << >>]
    OBVIOUS
  <2>2. f \in [1..n + r -> Seq(S)] /\ \A p \in n + 1..n + r : f[p] = << >>
    BY <2>1
  <2>3. 0 \in 0..n /\ n - 0 + 1 = n + 1 /\ \A p \in n + 1..n : FALSE
    OBVIOUS
  <2> QED
    BY <2>2, <2>3
<1>2. ASSUME NEW m \in 1..n, m - 1 \in good
      PROVE  m \in good
  <2>1. PICK f \in [1..n + r -> Seq(S)] :
          /\ \A p \in n + 1..n + r : f[p] = << >>
          /\ \A p \in n - (m - 1) + 1..n : f[p] = put[p] \o f[p + skip[p]]
    BY <1>2
  <2>2. PICK q : q = n - m + 1 /\ q \in 1..n
    OBVIOUS
  <2>3. q + skip[q] \in 1..n + r /\ q + skip[q] # q /\ put[q] \in Seq(S)
    <3>1. skip[q] \in 1..r /\ put[q] \in Seq(S)
      BY <2>2
    <3> QED
      BY <2>2, <3>1
  <2>4. PICK h : h = [f EXCEPT ![q] = put[q] \o f[q + skip[q]]]
    OBVIOUS
  <2>5. put[q] \o f[q + skip[q]] \in Seq(S)
    BY <2>3
  <2>6. /\ h \in [1..n + r -> Seq(S)] /\ h[q] = put[q] \o f[q + skip[q]]
        /\ \A p \in 1..n + r : p # q => h[p] = f[p]
    <3>1. PICK x : x = put[q] \o f[q + skip[q]]
      OBVIOUS
    <3>2. x \in Seq(S) /\ q \in 1..n + r /\ h = [f EXCEPT ![q] = x]
      BY <2>2, <2>4, <2>5, <3>1
    <3>3. /\ h \in [1..n + r -> Seq(S)] /\ h[q] = x
          /\ \A p \in 1..n + r : p # q => h[p] = f[p]
      BY ONLY <3>2, f \in [1..n + r -> Seq(S)]
    <3> QED
      BY <3>1, <3>3
  <2>7. \A p \in n + 1..n + r : p \in 1..n + r /\ p # q
    BY <2>2
  <2>8. ASSUME NEW p \in n - m + 1..n
        PROVE  h[p] = put[p] \o h[p + skip[p]]
    <3>1. p \in 1..n /\ p + skip[p] \in 1..n + r /\ p + skip[p] # q /\ p >= q
      <4>1. p \in 1..n
        BY <2>2
      <4>2. skip[p] \in 1..r
        BY <4>1
      <4> QED
        BY <2>2, <4>1, <4>2
    <3>2. h[p + skip[p]] = f[p + skip[p]]
      BY <2>6, <3>1
    <3>3. CASE p = q
      BY <2>6, <3>2, <3>3
    <3>4. CASE p # q
      <4>1. p \in n - (m - 1) + 1..n /\ p \in 1..n + r
        BY <2>2, <3>1, <3>4
      <4>2. f[p] = put[p] \o f[p + skip[p]]
        BY <2>1, <4>1
      <4> QED
        BY <2>6, <3>2, <3>4, <4>1, <4>2
    <3> QED
      BY <3>3, <3>4
  <2>9. \A p \in n + 1..n + r : h[p] = << >>
    BY <2>1, <2>6, <2>7
  <2>10. From(m)
    <3>1. h \in [1..n + r -> Seq(S)]
      BY <2>6
    <3>2. \A p \in n - m + 1..n : h[p] = put[p] \o h[p + skip[p]]
      BY <2>8
    <3> QED
      BY ONLY <2>9, <3>1, <3>2
  <2>11. m \in 0..n
    OBVIOUS
  <2> QED
    BY <2>10, <2>11
<1>3. n \in good
  <2>1. \A m \in 0..n : m \in good
    <3> HIDE DEF good
    <3> QED
      BY <1>1, <1>2, Climb
  <2>2. n \in 0..n
    OBVIOUS
  <2> QED
    BY <2>1, <2>2
<1>4. n - n + 1 = 1
  OBVIOUS
<1> QED
  BY <1>3, <1>4 DEF Walks

(* Sequences one after the other: where each begins, and what is there.     *)
Places(at, seqs, flat, S) ==
  /\ at \in [0..Len(seqs) -> Nat] /\ at[0] = 0
  /\ flat \in Seq(S) /\ Len(flat) = at[Len(seqs)]
  /\ \A j \in 1..Len(seqs) :
       /\ at[j] = at[j - 1] + Len(seqs[j]) /\ at[j] <= Len(flat)
       /\ \A k \in 1..Len(seqs[j]) : flat[at[j - 1] + k] = seqs[j][k]

LEMMA FlattenPlaces ==
  ASSUME NEW S, NEW seqs \in Seq(Seq(S))
  PROVE  \E at : Places(at, seqs, FlattenSeq(seqs), S)
<1>1. PICK n : n = Len(seqs) /\ n \in Nat
  OBVIOUS
<1>2. PICK f : Follows(f, n, Seq(S), << >>, Joins(seqs, S)) /\ FlattenSeq(seqs) = f[n]
  BY <1>1, FlattenFollows
<1>3. f \in [0..n -> Seq(S)] /\ f[0] = << >>
  BY <1>2 DEF Follows
<1>4. ASSUME NEW j \in 1..n
      PROVE  f[j] = f[j - 1] \o seqs[j] /\ f[j - 1] \in Seq(S) /\ f[j] \in Seq(S) /\ seqs[j] \in Seq(S)
  <2>1. f[j] = Joins(seqs, S)[j][f[j - 1]]
    BY <1>2 DEF Follows
  <2>2. j - 1 \in 0..n /\ j \in 0..n /\ j \in 1..Len(seqs)
    BY <1>1
  <2>3. f[j - 1] \in Seq(S) /\ f[j] \in Seq(S) /\ seqs[j] \in Seq(S)
    BY <1>3, <2>2, SMTT(40)
  <2>4. Joins(seqs, S)[j] = [t \in Seq(S) |-> t \o seqs[j]]
    BY <2>2, Zenon DEF Joins
  <2> QED
    BY <2>1, <2>3, <2>4, Zenon
<1>5. ASSUME NEW j \in 1..n
      PROVE  /\ Len(f[j]) = Len(f[j - 1]) + Len(seqs[j])
             /\ Len(f[j - 1]) \in Nat /\ Len(f[j]) \in Nat /\ Len(seqs[j]) \in Nat
             /\ \A i \in 1..Len(f[j - 1]) : f[j][i] = f[j - 1][i]
             /\ \A i \in 1..Len(seqs[j]) : f[j][Len(f[j - 1]) + i] = seqs[j][i]
  <2>1. PICK a, b, y : a = f[j - 1] /\ b = seqs[j] /\ y = f[j]
    OBVIOUS
  <2>2. a \in Seq(S) /\ b \in Seq(S) /\ y = a \o b
    BY <1>4, <2>1
  <2>3. /\ y \in Seq(S) /\ Len(y) = Len(a) + Len(b) /\ Len(a) \in Nat /\ Len(b) \in Nat
        /\ \A i \in 1..Len(a) : y[i] = a[i]
        /\ \A i \in 1..Len(b) : y[Len(a) + i] = b[i]
    BY ONLY <2>2, Joined
  <2>4. Len(y) \in Nat
    BY <2>3
  <2> QED
    BY <2>1, <2>3, <2>4
<1> DEFINE Later(m) == /\ Len(f[n - m]) \in Nat /\ Len(f[n - m]) <= Len(f[n])
                       /\ \A i \in 1..Len(f[n - m]) : f[n][i] = f[n - m][i]
           good == {m \in 0..n : Later(m)}
<1>6. 0 \in good
  <2>1. Len(f[n]) \in Nat
    BY <1>1, <1>3
  <2>2. n - 0 = n /\ 0 \in 0..n
    BY <1>1
  <2> QED
    BY <2>1, <2>2
<1>7. ASSUME NEW m \in 1..n, m - 1 \in good
      PROVE  m \in good
  <2>1. PICK j : j = n - (m - 1) /\ j \in 1..n /\ j - 1 = n - m
    BY <1>1
  <2>2. Len(f[j]) <= Len(f[n]) /\ \A i \in 1..Len(f[j]) : f[n][i] = f[j][i]
    BY <1>7, <2>1
  <2>3. PICK x, y, w : x = Len(f[j - 1]) /\ y = Len(f[j]) /\ w = Len(f[n])
    OBVIOUS
  <2>4. x \in Nat /\ y \in Nat /\ w \in Nat /\ x <= y /\ y <= w
    <3>1. n \in 0..n
      BY <1>1
    <3>2. w \in Nat
      BY <1>3, <2>3, <3>1
    <3>3. PICK z : z = Len(seqs[j])
      OBVIOUS
    <3>4. z \in Nat /\ y = x + z /\ x \in Nat /\ y \in Nat
      BY <1>5, <2>1, <2>3, <3>3
    <3>5. y <= w
      BY <2>2, <2>3
    <3> QED
      BY ONLY <3>2, <3>4, <3>5
  <2>5. \A i \in 1..x : i \in 1..y
    BY ONLY <2>4
  <2>6. \A i \in 1..x : f[n][i] = f[j - 1][i]
    BY <1>5, <2>1, <2>2, <2>3, <2>5
  <2>7. m \in 0..n /\ x <= w
    BY <1>1, <2>4
  <2> QED
    BY <2>1, <2>3, <2>4, <2>6, <2>7
<1>8. \A m \in 0..n : Later(m)
  <2>1. \A m \in 0..n : m \in good
    <3> HIDE DEF good
    <3> QED
      BY <1>1, <1>6, <1>7, Climb
  <2> QED
    BY <2>1
<1>9. PICK at : at = [j \in 0..n |-> Len(f[j])]
  OBVIOUS
<1>10. at \in [0..n -> Nat] /\ \A j \in 0..n : at[j] = Len(f[j])
  BY <1>3, <1>9
<1>11. Len(<< >>) = 0 /\ 0 \in 0..n /\ n \in 0..n
  BY <1>1
<1>12. at[0] = 0 /\ f[n] \in Seq(S) /\ Len(f[n]) = at[n]
  BY <1>3, <1>10, <1>11
<1>13. ASSUME NEW j \in 1..n
       PROVE  /\ at[j] = at[j - 1] + Len(seqs[j]) /\ at[j] <= Len(f[n])
              /\ \A k \in 1..Len(seqs[j]) : f[n][at[j - 1] + k] = seqs[j][k]
  <2>1. j \in 0..n /\ j - 1 \in 0..n /\ n - j \in 0..n /\ n - (n - j) = j
    BY <1>1
  <2>2. at[j] = Len(f[j]) /\ at[j - 1] = Len(f[j - 1])
    BY <1>10, <2>1
  <2>3. Later(n - j)
    BY <1>8, <2>1
  <2>4. Len(f[j]) <= Len(f[n]) /\ \A i \in 1..Len(f[j]) : f[n][i] = f[j][i]
    BY <2>1, <2>3
  <2>5. PICK x, y, z : x = Len(f[j - 1]) /\ y = Len(f[j]) /\ z = Len(seqs[j])
    OBVIOUS
  <2>6. x \in Nat /\ y \in Nat /\ z \in Nat /\ y = x + z
    BY <1>5, <2>5
  <2>7. \A k \in 1..z : x + k \in 1..y
    BY ONLY <2>6
  <2>8. \A k \in 1..z : f[n][x + k] = seqs[j][k]
    BY <1>5, <2>4, <2>5, <2>7
  <2> QED
    BY <2>2, <2>4, <2>5, <2>6, <2>8
<1>14. Places(at, seqs, f[n], S)
  BY <1>1, <1>10, <1>12, <1>13 DEF Places
<1> QED
  BY <1>2, <1>14

(* Of none there is none, one more at the end adds what it holds.           *)
LEMMA FlattenNone ==
  ASSUME NEW S
  PROVE  FlattenSeq(<< >>) = << >>
<1>0. PICK none : none = << >>
  OBVIOUS
<1>1. none = << >> /\ none \in Seq(Seq(S)) /\ Len(none) = 0
  BY <1>0
<1>2. PICK f : Follows(f, 0, Seq(S), << >>, Joins(none, S)) /\ FlattenSeq(none) = f[0]
  BY <1>1, FlattenFollows
<1> QED
  BY <1>1, <1>2 DEF Follows

LEMMA FlattenAppend ==
  ASSUME NEW S, NEW seqs \in Seq(Seq(S)), NEW x \in Seq(S)
  PROVE  FlattenSeq(seqs) \in Seq(S) /\ FlattenSeq(Append(seqs, x)) = FlattenSeq(seqs) \o x
<1>0. PICK n : n = Len(seqs) /\ n \in Nat
  OBVIOUS
<1>1. PICK more : n = Len(seqs) /\ n \in Nat /\ more = Append(seqs, x)
  BY <1>0
<1>2. /\ more \in Seq(Seq(S)) /\ Len(more) = n + 1 /\ more[n + 1] = x
      /\ \A i \in 1..n : more[i] = seqs[i]
  BY <1>1
<1>3. PICK f : Follows(f, n, Seq(S), << >>, Joins(seqs, S)) /\ FlattenSeq(seqs) = f[n]
  BY <1>1, FlattenFollows
<1>4. PICK g : Follows(g, n + 1, Seq(S), << >>, Joins(more, S)) /\ FlattenSeq(more) = g[n + 1]
  BY <1>2, FlattenFollows
<1>5. f \in [0..n -> Seq(S)] /\ f[0] = << >> /\ \A i \in 1..n : f[i] = Joins(seqs, S)[i][f[i - 1]]
  BY <1>3 DEF Follows
<1>6. /\ g \in [0..n + 1 -> Seq(S)] /\ g[0] = << >>
      /\ \A i \in 1..n + 1 : g[i] = Joins(more, S)[i][g[i - 1]]
  BY <1>4 DEF Follows
<1> DEFINE good == {i \in 0..n : g[i] = f[i]}
<1>7. 0 \in good
  BY <1>1, <1>5, <1>6
<1>8. ASSUME NEW i \in 1..n, i - 1 \in good
      PROVE  i \in good
  <2>1. i - 1 \in 0..n /\ i \in 0..n /\ i \in 1..n + 1 /\ i - 1 \in 0..n + 1
    BY <1>1
  <2>2. g[i - 1] = f[i - 1] /\ f[i - 1] \in Seq(S)
    BY <1>5, <1>8, <2>1
  <2>3. Joins(more, S)[i][f[i - 1]] = f[i - 1] \o more[i]
    BY <1>2, <2>1, <2>2 DEF Joins
  <2>4. Joins(seqs, S)[i][f[i - 1]] = f[i - 1] \o seqs[i]
    BY <1>1, <2>1, <2>2 DEF Joins
  <2>5. more[i] = seqs[i]
    BY <1>2
  <2>6. g[i] = Joins(more, S)[i][f[i - 1]] /\ f[i] = Joins(seqs, S)[i][f[i - 1]]
    BY <1>5, <1>6, <2>1, <2>2
  <2> QED
    BY <2>1, <2>3, <2>4, <2>5, <2>6
<1>9. \A i \in 0..n : i \in good
  <2> HIDE DEF good
  <2> QED
    BY <1>1, <1>7, <1>8, Climb
<1>10. n \in 0..n /\ n + 1 \in 1..n + 1 /\ n + 1 - 1 = n
  BY <1>1
<1>11. g[n] = f[n] /\ f[n] \in Seq(S)
  BY <1>5, <1>9, <1>10
<1>12. g[n + 1] = Joins(more, S)[n + 1][f[n]]
  <2>1. g[n + 1] = Joins(more, S)[n + 1][g[n + 1 - 1]]
    BY ONLY <1>6, <1>10
  <2> QED
    BY ONLY <1>10, <1>11, <2>1
<1>13. Joins(more, S)[n + 1][f[n]] = f[n] \o more[n + 1]
  BY <1>2, <1>10, <1>11 DEF Joins
<1>14. g[n + 1] = f[n] \o x
  BY ONLY <1>2, <1>12, <1>13
<1> QED
  BY ONLY <1>1, <1>3, <1>4, <1>11, <1>14

(* A front of a sequence and the entry after it are the next front.         *)
LEMMA NextFront ==
  ASSUME NEW S, NEW b \in Seq(S), NEW k \in 1..Len(b)
  PROVE  /\ SubSeq(b, 1, k - 1) \in Seq(S) /\ SubSeq(b, 1, k) \in Seq(S) /\ b[k] \in S
         /\ SubSeq(b, 1, k) = Append(SubSeq(b, 1, k - 1), b[k])
<1>1. SubSeq(b, 1, k - 1) \in Seq(S) /\ SubSeq(b, 1, k) \in Seq(S) /\ b[k] \in S
  OBVIOUS
<1>2. SubSeq(b, 1, k) = SubSeq(b, 1, k - 1) \o <<b[k]>>
  <2>1. 1 \in 1..Len(b)
    OBVIOUS
  <2>2. k \in 1..Len(b) /\ b \in Seq(S)
    OBVIOUS
  <2> QED
    BY <2>1, <2>2, SubSeqRecursiveSecond, Zenon
<1>3. Append(SubSeq(b, 1, k - 1), b[k]) = SubSeq(b, 1, k - 1) \o <<b[k]>>
  BY <1>1, AppendIsConcat, Zenon
<1> QED
  BY <1>1, <1>2, <1>3, Zenon

LEMMA FlattenJoined ==
  ASSUME NEW S, NEW a \in Seq(Seq(S)), NEW b \in Seq(Seq(S))
  PROVE  /\ FlattenSeq(a) \in Seq(S) /\ FlattenSeq(b) \in Seq(S)
         /\ FlattenSeq(a \o b) = FlattenSeq(a) \o FlattenSeq(b)
<1>1. PICK n : n = Len(b) /\ n \in Nat
  OBVIOUS
<1>2. PICK fa : fa = FlattenSeq(a) /\ fa \in Seq(S)
  <2>1. << >> \in Seq(S)
    OBVIOUS
  <2> QED
    BY <2>1, FlattenAppend, Zenon
<1>3. FlattenSeq(b) \in Seq(S)
  <2>1. << >> \in Seq(S)
    OBVIOUS
  <2> QED
    BY <2>1, FlattenAppend, Zenon
<1> DEFINE good == {k \in 0..n : FlattenSeq(a \o SubSeq(b, 1, k)) = fa \o FlattenSeq(SubSeq(b, 1, k))}
<1>4. 0 \in good
  <2>1. SubSeq(b, 1, 0) = << >> /\ a \o << >> = a /\ fa \o << >> = fa
    BY <1>2
  <2>2. FlattenSeq(<< >>) = << >>
    BY FlattenNone, Zenon
  <2>3. 0 \in 0..n
    BY <1>1
  <2> QED
    BY <1>2, <2>1, <2>2, <2>3
<1>5. ASSUME NEW k \in 1..n, k - 1 \in good
      PROVE  k \in good
  <2>1. PICK c, e, x : c = SubSeq(b, 1, k - 1) /\ e = SubSeq(b, 1, k) /\ x = b[k]
    OBVIOUS
  <2>2. c \in Seq(Seq(S)) /\ x \in Seq(S) /\ e = Append(c, x)
    BY <1>1, <2>1, NextFront
  <2>3. FlattenSeq(a \o c) = fa \o FlattenSeq(c)
    BY <1>5, <2>1
  <2>4. a \o e = Append(a \o c, x) /\ a \o c \in Seq(Seq(S))
    BY <2>2
  <2>5. FlattenSeq(Append(a \o c, x)) = FlattenSeq(a \o c) \o x
    BY <2>2, <2>4, FlattenAppend, Zenon
  <2>6. FlattenSeq(e) = FlattenSeq(c) \o x /\ FlattenSeq(c) \in Seq(S)
    BY <2>2, FlattenAppend, Zenon
  <2>7. PICK y : y = FlattenSeq(c) /\ y \in Seq(S)
    BY <2>6
  <2>8. (fa \o y) \o x = fa \o (y \o x)
    BY <1>2, <2>2, <2>7
  <2>9. FlattenSeq(a \o e) = fa \o FlattenSeq(e)
    BY <2>3, <2>4, <2>5, <2>6, <2>7, <2>8, Zenon
  <2>10. k \in 0..n
    BY <1>1
  <2> QED
    BY <2>1, <2>9, <2>10
<1>6. n \in good
  <2>1. \A k \in 0..n : k \in good
    <3> HIDE DEF good
    <3> QED
      BY <1>1, <1>4, <1>5, Climb
  <2>2. n \in 0..n
    BY <1>1
  <2> QED
    BY <2>1, <2>2
<1>7. SubSeq(b, 1, n) = b
  BY <1>1
<1> QED
  BY <1>2, <1>3, <1>6, <1>7

(* What a table has for each entry of a sequence, one after the other.      *)
Over(h, s) == FlattenSeq([i \in DOMAIN s |-> h[s[i]]])

LEMMA OverTyped ==
  ASSUME NEW S, NEW T, NEW h \in [S -> Seq(T)], NEW s \in Seq(S)
  PROVE  Over(h, s) \in Seq(T) /\ [i \in DOMAIN s |-> h[s[i]]] \in Seq(Seq(T))
<1>1. PICK r : r = [i \in DOMAIN s |-> h[s[i]]]
  OBVIOUS
<1>2. r \in Seq(Seq(T))
  <2>1. PICK n : n = Len(s) /\ n \in Nat /\ DOMAIN s = 1..n
    OBVIOUS
  <2>2. \A i \in 1..n : h[s[i]] \in Seq(T)
    BY <2>1
  <2>3. PICK V : V = Seq(T)
    OBVIOUS
  <2>4. r = [i \in 1..n |-> h[s[i]]] /\ \A i \in 1..n : h[s[i]] \in V
    BY <1>1, <2>1, <2>2, <2>3
  <2>5. r \in [1..n -> V]
    BY ONLY <2>4
  <2>6. r \in Seq(V)
    <3>1. n \in Nat
      BY <2>1
    <3> QED
      BY ONLY <2>5, <3>1, IsASeq
  <2> QED
    BY <2>3, <2>6
<1>3. << >> \in Seq(T)
  OBVIOUS
<1>4. FlattenSeq(r) \in Seq(T)
  BY <1>2, <1>3, FlattenAppend, Zenon
<1> QED
  BY <1>1, <1>2, <1>4, Zenon DEF Over

LEMMA OverNone ==
  ASSUME NEW h
  PROVE  Over(h, << >>) = << >>
<1>1. [i \in DOMAIN << >> |-> h[<< >>[i]]] = << >>
  OBVIOUS
<1>2. FlattenSeq(<< >>) = << >>
  BY FlattenNone, Zenon
<1> QED
  BY <1>1, <1>2, Zenon DEF Over

LEMMA OverOne ==
  ASSUME NEW S, NEW T, NEW h \in [S -> Seq(T)], NEW x \in S
  PROVE  Over(h, <<x>>) = h[x]
<1>1. PICK y : y = h[x] /\ y \in Seq(T)
  OBVIOUS
<1>2. [i \in DOMAIN <<x>> |-> h[<<x>>[i]]] = Append(<< >>, y)
  BY <1>1
<1>3. << >> \in Seq(Seq(T))
  OBVIOUS
<1>4. FlattenSeq(Append(<< >>, y)) = FlattenSeq(<< >>) \o y
  BY <1>1, <1>3, FlattenAppend, Zenon
<1>5. FlattenSeq(<< >>) = << >>
  BY FlattenNone, Zenon
<1>6. << >> \o y = y
  BY <1>1
<1> QED
  BY <1>1, <1>2, <1>4, <1>5, <1>6, Zenon DEF Over

LEMMA OverJoined ==
  ASSUME NEW S, NEW T, NEW h \in [S -> Seq(T)], NEW a \in Seq(S), NEW b \in Seq(S)
  PROVE  Over(h, a \o b) = Over(h, a) \o Over(h, b)
<1>1. PICK x, y, z : /\ x = [i \in DOMAIN a |-> h[a[i]]] /\ y = [i \in DOMAIN b |-> h[b[i]]]
                     /\ z = [i \in DOMAIN (a \o b) |-> h[(a \o b)[i]]]
  OBVIOUS
<1>2. x \in Seq(Seq(T)) /\ y \in Seq(Seq(T))
  <2>1. [i \in DOMAIN a |-> h[a[i]]] \in Seq(Seq(T))
    BY OverTyped, ZenonT(30)
  <2>2. [i \in DOMAIN b |-> h[b[i]]] \in Seq(Seq(T))
    BY OverTyped, ZenonT(30)
  <2> QED
    BY ONLY <1>1, <2>1, <2>2
<1>3. z = x \o y
  <2>1. PICK c : c = a \o b
    OBVIOUS
  <2>2. /\ c \in Seq(S) /\ Len(c) = Len(a) + Len(b) /\ Len(a) \in Nat /\ Len(b) \in Nat
        /\ \A i \in 1..Len(a) : c[i] = a[i]
        /\ \A i \in 1..Len(b) : c[Len(a) + i] = b[i]
    BY <2>1, Joined
  <2>20. PICK k : k = Len(a) /\ k \in Nat
    BY ONLY <2>2
  <2>21. PICK l : l = Len(b) /\ l \in Nat
    BY ONLY <2>2
  <2>3. k = Len(a) /\ l = Len(b) /\ k \in Nat /\ l \in Nat
    BY <2>20, <2>21
  <2>4. /\ DOMAIN a = 1..k /\ DOMAIN b = 1..l /\ DOMAIN c = 1..k + l
    BY <2>2, <2>3
  <2>5. Len(x) = k /\ Len(y) = l /\ \A i \in 1..k : x[i] = h[a[i]]
    BY <1>1, <1>2, <2>3, <2>4
  <2>6. \A i \in 1..l : y[i] = h[b[i]]
    BY <1>1, <2>4
  <2>7. PICK w : w = x \o y
    OBVIOUS
  <2>8. /\ w \in Seq(Seq(T)) /\ Len(w) = k + l
        /\ \A i \in 1..k : w[i] = x[i]
        /\ \A i \in 1..l : w[k + i] = y[i]
    <3>1. /\ w \in Seq(Seq(T)) /\ Len(w) = Len(x) + Len(y)
          /\ \A i \in 1..Len(x) : w[i] = x[i]
          /\ \A i \in 1..Len(y) : w[Len(x) + i] = y[i]
      BY ONLY <1>2, <2>7, Joined
    <3> QED
      BY ONLY <2>5, <3>1
  <2>9. z = [i \in 1..k + l |-> h[c[i]]]
    BY <1>1, <2>1, <2>4, Zenon
  <2>10. ASSUME NEW i \in 1..k + l
         PROVE  w[i] = h[c[i]]
    <3>1. CASE i <= k
      <4>1. i \in 1..k
        BY <2>3, <3>1
      <4> QED
        BY <2>2, <2>3, <2>5, <2>8, <4>1
    <3>2. CASE ~(i <= k)
      <4>1. i - k \in 1..l /\ i = k + (i - k)
        BY <2>3, <3>2
      <4>2. PICK j : j = i - k
        OBVIOUS
      <4>3. j \in 1..l /\ i = k + j
        BY <4>1, <4>2
      <4>4. w[k + j] = y[j] /\ y[j] = h[b[j]] /\ c[k + j] = b[j]
        BY <2>2, <2>3, <2>6, <2>8, <4>3
      <4> QED
        BY <4>3, <4>4, Zenon
    <3> QED
      BY <3>1, <3>2
  <2>11. w = [i \in 1..k + l |-> w[i]]
    BY <2>3, <2>8
  <2>12. w = [i \in 1..k + l |-> h[c[i]]]
    BY <2>10, <2>11, Zenon
  <2> QED
    BY <2>7, <2>9, <2>12
<1>4. FlattenSeq(x \o y) = FlattenSeq(x) \o FlattenSeq(y)
  BY <1>2, FlattenJoined, Zenon
<1> QED
  BY <1>1, <1>3, <1>4, Zenon DEF Over

(* ... of two texts, one after the other.                                   *)
Joinable(h, S, T, a, c) == h \in [S -> Seq(T)] /\ a \in Seq(S) /\ c \in Seq(S)
LEMMA OverTwo ==
  ASSUME NEW S, NEW T, NEW h, NEW a, NEW c, Joinable(h, S, T, a, c)
  PROVE  Over(h, a \o c) = Over(h, a) \o Over(h, c)
<1>1. h \in [S -> Seq(T)] /\ a \in Seq(S) /\ c \in Seq(S)
  BY Zenon DEF Joinable
<1> QED
  BY ONLY <1>1, OverJoined

(* Of texts that each give one entry of t.                                  *)
Singly(h, X, seqs, t) ==
  /\ h \in [X -> Seq(X)] /\ seqs \in Seq(Seq(X)) /\ t \in Seq(X) /\ Len(t) = Len(seqs)
  /\ \A i \in 1..Len(t) : Over(h, seqs[i]) = <<t[i]>>

LEMMA OverSingles ==
  ASSUME NEW h, NEW X, NEW seqs, NEW t, Singly(h, X, seqs, t)
  PROVE  Over(h, FlattenSeq(seqs)) = t
<1>1. /\ h \in [X -> Seq(X)] /\ seqs \in Seq(Seq(X)) /\ t \in Seq(X) /\ Len(t) = Len(seqs)
      /\ \A i \in 1..Len(t) : Over(h, seqs[i]) = <<t[i]>>
  BY Zenon DEF Singly
<1>2. PICK n : n = Len(t) /\ n \in Nat
  BY <1>1
<1>3. \A s \in Seq(Seq(X)) : FlattenSeq(s) \in Seq(X)
  <2>1. << >> \in Seq(X)
    OBVIOUS
  <2> QED
    BY <2>1, FlattenAppend, Zenon
<1> DEFINE good == {k \in 0..n : Over(h, FlattenSeq(SubSeq(seqs, 1, k))) = SubSeq(t, 1, k)}
<1>4. 0 \in good
  <2>1. SubSeq(seqs, 1, 0) = << >> /\ SubSeq(t, 1, 0) = << >>
    BY <1>1
  <2>2. FlattenSeq(<< >>) = << >>
    BY FlattenNone, Zenon
  <2>3. Over(h, << >>) = << >>
    BY OverNone
  <2>4. 0 \in 0..n
    BY <1>2
  <2> QED
    BY <2>1, <2>2, <2>3, <2>4
<1>5. ASSUME NEW k \in 1..n, k - 1 \in good
      PROVE  k \in good
  <2>1. PICK u, w, x : u = SubSeq(seqs, 1, k - 1) /\ w = SubSeq(seqs, 1, k) /\ x = seqs[k]
    OBVIOUS
  <2>2. u \in Seq(Seq(X)) /\ x \in Seq(X) /\ w = Append(u, x)
    BY <1>1, <1>2, <2>1, NextFront
  <2>3. PICK fu : fu = FlattenSeq(u) /\ fu \in Seq(X)
    BY <1>3, <2>2
  <2>4. FlattenSeq(w) = fu \o x
    BY <2>2, <2>3, FlattenAppend, Zenon
  <2>5. Over(h, fu \o x) = Over(h, fu) \o Over(h, x)
    <3>1. Joinable(h, X, X, fu, x)
      BY <1>1, <2>2, <2>3, Zenon DEF Joinable
    <3> QED
      BY ONLY <3>1, OverTwo
  <2>6. Over(h, fu) = SubSeq(t, 1, k - 1)
    BY <1>5, <2>1, <2>3
  <2>7. Over(h, x) = <<t[k]>>
    BY <1>1, <1>2, <2>1
  <2>8. PICK v : v = SubSeq(t, 1, k - 1)
    OBVIOUS
  <2>9. v \in Seq(X) /\ t[k] \in X /\ SubSeq(t, 1, k) = Append(v, t[k])
    BY <1>1, <1>2, <2>8, NextFront
  <2>10. Append(v, t[k]) = v \o <<t[k]>>
    BY <2>9, AppendIsConcat, Zenon
  <2>11. k \in 0..n
    BY <1>2
  <2> QED
    BY <2>1, <2>4, <2>5, <2>6, <2>7, <2>8, <2>9, <2>10, <2>11, Zenon
<1>6. n \in good
  <2>1. \A k \in 0..n : k \in good
    <3> HIDE DEF good
    <3> QED
      BY <1>2, <1>4, <1>5, Climb
  <2>2. n \in 0..n
    BY <1>2
  <2> QED
    BY <2>1, <2>2
<1>7. SubSeq(seqs, 1, n) = seqs /\ SubSeq(t, 1, n) = t
  BY <1>1, <1>2
<1> QED
  BY <1>6, <1>7

(* ... and of a text that gives itself.                                     *)
LEMMA OverItself ==
  ASSUME NEW X, NEW h \in [X -> Seq(X)], NEW t \in Seq(X),
         \A i \in 1..Len(t) : h[t[i]] = <<t[i]>>
  PROVE  Over(h, t) = t
<1>1. PICK n : n = Len(t) /\ n \in Nat /\ DOMAIN t = 1..n /\ \A i \in 1..n : t[i] \in X
  OBVIOUS
<1> DEFINE good == {k \in 0..n : Over(h, SubSeq(t, 1, k)) = SubSeq(t, 1, k)}
<1>2. 0 \in good
  <2>1. SubSeq(t, 1, 0) = << >>
    OBVIOUS
  <2>2. Over(h, << >>) = << >>
    BY OverNone
  <2>3. 0 \in 0..n
    BY <1>1
  <2> QED
    BY <2>1, <2>2, <2>3
<1>3. ASSUME NEW k \in 1..n, k - 1 \in good
      PROVE  k \in good
  <2>1. PICK v, x, u : v = SubSeq(t, 1, k - 1) /\ x = t[k] /\ u = <<x>>
    OBVIOUS
  <2>2. v \in Seq(X) /\ x \in X /\ SubSeq(t, 1, k) = Append(v, x)
    BY <1>1, <2>1, NextFront
  <2>3. Append(v, x) = v \o <<x>>
    BY <2>2, AppendIsConcat, Zenon
  <2>4. u \in Seq(X)
    BY <2>1, <2>2
  <2>5. Over(h, v \o u) = Over(h, v) \o Over(h, u)
    <3>1. Joinable(h, X, X, v, u)
      BY <2>2, <2>4, Zenon DEF Joinable
    <3> QED
      BY ONLY <3>1, OverTwo
  <2>6. Over(h, v) = v
    BY <1>3, <2>1
  <2>7. Over(h, u) = u
    <3>1. h[x] = <<x>>
      BY <1>1, <2>1
    <3>2. Over(h, <<x>>) = h[x]
      BY ONLY <2>2, h \in [X -> Seq(X)], OverOne
    <3> QED
      BY <2>1, <3>1, <3>2
  <2>8. k \in 0..n
    BY <1>1
  <2> QED
    BY <2>1, <2>2, <2>3, <2>5, <2>6, <2>7, <2>8, Zenon
<1>4. n \in good
  <2>1. \A k \in 0..n : k \in good
    <3> HIDE DEF good
    <3> QED
      BY <1>1, <1>2, <1>3, Climb
  <2>2. n \in 0..n
    BY <1>1
  <2> QED
    BY <2>1, <2>2
<1>5. SubSeq(t, 1, n) = t
  BY <1>1
<1> QED
  BY <1>4, <1>5

(* Every place of sequences one after the other is in one of them.          *)
LiesIn(at, seqs, flat, m) ==
  \E j \in 1..Len(seqs) : \E k \in 1..Len(seqs[j]) : m = at[j - 1] + k /\ flat[m] = seqs[j][k]
LEMMA PlaceOf ==
  ASSUME NEW S, NEW seqs \in Seq(Seq(S)), NEW at, NEW flat, Places(at, seqs, flat, S),
         NEW m \in 1..Len(flat)
  PROVE  LiesIn(at, seqs, flat, m)
<1>1. PICK n : n = Len(seqs) /\ n \in Nat
  OBVIOUS
<1>2. /\ at \in [0..n -> Nat] /\ at[0] = 0 /\ flat \in Seq(S) /\ Len(flat) = at[n]
      /\ \A j \in 1..n : /\ at[j] = at[j - 1] + Len(seqs[j])
                         /\ \A k \in 1..Len(seqs[j]) : flat[at[j - 1] + k] = seqs[j][k]
  BY <1>1 DEF Places
<1>3. \A j \in 1..n : Len(seqs[j]) \in Nat
  BY <1>1
<1> DEFINE good == {j \in 0..n : \A i \in 1..at[j] :
                      \E q \in 1..n : \E k \in 1..Len(seqs[q]) : i = at[q - 1] + k}
<1>4. 0 \in good
  BY <1>1, <1>2
<1>5. ASSUME NEW j \in 1..n, j - 1 \in good
      PROVE  j \in good
  <2>1. j \in 0..n /\ j - 1 \in 0..n
    BY <1>1
  <2>2. PICK x, z : x = at[j - 1] /\ z = Len(seqs[j]) /\ x \in Nat /\ z \in Nat /\ at[j] = x + z
    <3>1. at[j - 1] \in Nat /\ at[j] = at[j - 1] + Len(seqs[j]) /\ Len(seqs[j]) \in Nat
      BY <1>2, <1>3, <2>1
    <3> QED
      BY ONLY <3>1
  <2>3. ASSUME NEW i \in 1..at[j]
        PROVE  \E q \in 1..n : \E k \in 1..Len(seqs[q]) : i = at[q - 1] + k
    <3>1. CASE i <= x
      <4>1. i \in 1..at[j - 1]
        BY <2>2, <3>1
      <4> QED
        BY <1>5, <4>1
    <3>2. CASE ~(i <= x)
      <4>1. i - x \in 1..Len(seqs[j]) /\ i = at[j - 1] + (i - x)
        BY <2>2, <3>2, SMTT(40)
      <4> QED
        BY <4>1
    <3> QED
      BY <3>1, <3>2
  <2> QED
    BY <2>1, <2>3
<1>6. n \in good
  <2>1. \A j \in 0..n : j \in good
    <3> HIDE DEF good
    <3> QED
      BY <1>1, <1>4, <1>5, Climb
  <2>2. n \in 0..n
    BY <1>1
  <2> QED
    BY <2>1, <2>2
<1>7. PICK q \in 1..n : \E k \in 1..Len(seqs[q]) : m = at[q - 1] + k
  BY <1>2, <1>6
<1>8. PICK k \in 1..Len(seqs[q]) : m = at[q - 1] + k
  BY <1>7
<1>9. flat[m] = seqs[q][k]
  BY <1>2, <1>8
<1> QED
  BY <1>1, <1>8, <1>9 DEF LiesIn
=============================================================================
