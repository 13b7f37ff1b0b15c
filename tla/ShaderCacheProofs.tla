------------------------- MODULE ShaderCacheProofs -------------------------
(***************************************************************************)
(* ShaderCache for every set of keys, blobs and environments and any       *)
(* length of the file.                                                     *)
(***************************************************************************)
EXTENDS ShaderCache, LoopLemmas, SequenceTheorems, FiniteSetTheorems, TLAPS

(* What a file with identity id may hold.                                  *)
CellsOf(id) ==
  {<<"key", k>> : k \in Keys} \cup {<<"size", n>> : n \in Nat}
    \cup {<<"data", p, id>> : p \in Pieces}

(* Data of such a file has that identity.                                  *)
LEMMA DataOfCells ==
  ASSUME NEW id, NEW c \in CellsOf(id), c[1] = "data"
  PROVE  c[3] = id
  BY DEF CellsOf

(* A record is two cells longer than its blob and of its own identity.     *)
LEMMA RecordCells ==
  ASSUME NEW k \in Keys, NEW b \in Blobs, NEW id
  PROVE  /\ Record([key |-> k, blob |-> b, id |-> id]) \in Seq(CellsOf(id))
         /\ Len(Record([key |-> k, blob |-> b, id |-> id])) = Len(b) + 2
<1> DEFINE first == << <<"key", k>>, <<"size", Len(b)>> >>
           rest == [i \in 1..Len(b) |-> <<"data", b[i], id>>]
<1>1. b \in Seq(Pieces) /\ Len(b) \in Nat
  BY CacheAssumption
<1>2. <<"key", k>> \in CellsOf(id) /\ <<"size", Len(b)>> \in CellsOf(id)
  BY <1>1 DEF CellsOf
<1>3. first \in Seq(CellsOf(id)) /\ Len(first) = 2
  BY <1>2
<1>4. \A i \in 1..Len(b) : <<"data", b[i], id>> \in CellsOf(id)
  BY <1>1 DEF CellsOf
<1>5. rest \in Seq(CellsOf(id)) /\ Len(rest) = Len(b)
  BY <1>1, <1>4
<1>6. Record([key |-> k, blob |-> b, id |-> id]) = first \o rest
  BY DEF Record
<1> HIDE DEF first, rest
<1>7. first \o rest \in Seq(CellsOf(id)) /\ Len(first \o rest) = Len(first) + Len(rest)
  BY ONLY <1>3, <1>5, ConcatProperties
<1>8. Len(first \o rest) = Len(b) + 2
  BY ONLY <1>1, <1>3, <1>5, <1>7
<1>9. QED
  BY ONLY <1>6, <1>7, <1>8

-----------------------------------------------------------------------------
FileType ==
  [env : Envs \cup {NoEnv}, count : Nat, body : Seq(CellsOf(Identity(disk.env)))]

(* The file and the buffer hold data of the header's identity only, also   *)
(* while the file is closed or has just been truncated; an open handle is  *)
(* for the same identity as the header, though maybe with other flags.     *)
IsolationInv ==
  /\ disk \in FileType
  /\ buffer \in Seq(CellsOf(Identity(disk.env)))
  /\ entries \in Nat
  /\ Len(disk.body) + Len(buffer) <= MaxCells
  /\ phase \in {"closed", "creating", "open", "closing"}
  /\ env \in Envs \cup {NoEnv} /\ (env = NoEnv <=> phase = "closed")
  /\ phase # "open" => buffer = << >>
  /\ phase = "creating" => disk.body = << >>
  /\ phase \in {"open", "closing"} => disk.env \in Envs /\ Identity(disk.env) = Identity(env)
  /\ harm \in {"none", "uncounted", "torn"}

LEMMA IsolationInit == Init => IsolationInv
  BY CacheAssumption, EmptySeq DEF Init, IsolationInv, FileType, EmptyFile

LEMMA OpenIsolation ==
  ASSUME IsolationInv, NEW e \in Envs, OpenReuse(e) \/ OpenReset(e)
  PROVE  IsolationInv'
<1>1. CASE OpenReuse(e)
  BY <1>1, CacheAssumption DEF IsolationInv, FileType, OpenReuse, Matches, Identity
<1>2. CASE OpenReset(e)
  <2>1. buffer = << >>
    BY <1>2 DEF IsolationInv, OpenReset
  <2>2. QED
    BY <1>2, <2>1, CacheAssumption, EmptySeq DEF IsolationInv, FileType, OpenReset, EmptyFile
<1>3. QED
  BY <1>1, <1>2

LEMMA HeaderIsolation ==
  ASSUME IsolationInv, OpenHeader
  PROVE  IsolationInv'
  BY CacheAssumption, EmptySeq DEF IsolationInv, FileType, OpenHeader

LEMMA InsertIsolation ==
  ASSUME IsolationInv, NEW k \in Keys, NEW b \in Blobs, Insert(k, b)
  PROVE  IsolationInv'
<1> DEFINE id == Identity(disk.env)
           cells == Record([key |-> k, blob |-> b, id |-> id])
<1>1. Identity(env) = id
  BY DEF Insert, IsolationInv
<1>2. buffer' = buffer \o cells /\ Len(disk.body) + Len(buffer) + Len(cells) <= MaxCells
  BY <1>1 DEF Insert
<1>3. cells \in Seq(CellsOf(id))
  BY RecordCells
<1>4. buffer \in Seq(CellsOf(id))
  BY DEF IsolationInv
<1> HIDE DEF cells
<1>5. buffer' \in Seq(CellsOf(id)) /\ Len(buffer') = Len(buffer) + Len(cells)
  BY <1>2, <1>3, <1>4, ConcatProperties
<1>6. Len(disk.body) \in Nat /\ Len(buffer) \in Nat /\ Len(cells) \in Nat
  BY <1>3, <1>4 DEF IsolationInv, FileType
<1>7. UNCHANGED <<disk, phase, env, harm>> /\ phase = "open" /\ entries' = entries + 1
  BY DEF Insert
<1>8. QED
  BY <1>2, <1>5, <1>6, <1>7 DEF IsolationInv, FileType

LEMMA ShortIsolation ==
  ASSUME IsolationInv, NEW k \in Keys, NEW b \in Blobs, NEW n \in 1..MaxCells, InsertShort(k, b, n)
  PROVE  IsolationInv'
<1>1. PICK id, r : id = Identity(disk.env) /\ r = Record([key |-> k, blob |-> b, id |-> id])
  OBVIOUS
<1>2. Identity(env) = id
  BY <1>1 DEF InsertShort, IsolationInv
<1>3. r \in Seq(CellsOf(id)) /\ buffer \in Seq(CellsOf(id)) /\ n \in Nat
  BY <1>1, RecordCells, CacheAssumption DEF IsolationInv
<1>4. PICK a : a = SubSeq(r, 1, n)
  OBVIOUS
<1>5. /\ buffer' = buffer \o a /\ n < Len(r)
      /\ Len(disk.body) + Len(buffer) + n <= MaxCells
  BY <1>1, <1>2, <1>4 DEF InsertShort
<1>6. a \in Seq(CellsOf(id)) /\ Len(a) = n
  BY <1>3, <1>4, <1>5
<1>7. buffer' \in Seq(CellsOf(id)) /\ Len(buffer') = Len(buffer) + n
  BY <1>3, <1>5, <1>6, ConcatProperties
<1>8. Len(disk.body) \in Nat /\ Len(buffer) \in Nat
  BY <1>3 DEF IsolationInv, FileType
<1>9. UNCHANGED <<disk, phase, env, entries>> /\ phase = "open" /\ harm' = "torn"
  BY DEF InsertShort
<1> QED
  BY <1>1, <1>3, <1>5, <1>7, <1>8, <1>9 DEF IsolationInv, FileType

(* Writing out a part of the buffer moves cells from one to the other.     *)
LEMMA SpillIsolation ==
  ASSUME IsolationInv, NEW n \in 1..MaxCells, Spill(n)
  PROVE  IsolationInv'
<1> DEFINE C == CellsOf(Identity(disk.env))
<1>1. /\ buffer \in Seq(C) /\ disk.body \in Seq(C)
      /\ Len(buffer) \in Nat /\ Len(disk.body) \in Nat
      /\ MaxCells \in Nat /\ n \in Nat /\ n <= Len(buffer)
  BY CacheAssumption DEF IsolationInv, FileType, Spill
<1>2. SubSeq(buffer, 1, n) \in Seq(C) /\ Len(SubSeq(buffer, 1, n)) = n
  BY <1>1
<1>3. /\ SubSeq(buffer, n + 1, Len(buffer)) \in Seq(C)
      /\ Len(SubSeq(buffer, n + 1, Len(buffer))) = Len(buffer) - n
  BY <1>1
<1>4. /\ disk.body \o SubSeq(buffer, 1, n) \in Seq(C)
      /\ Len(disk.body \o SubSeq(buffer, 1, n)) = Len(disk.body) + n
  BY <1>1, <1>2, ConcatProperties
<1>5. /\ disk'.env = disk.env /\ disk' = [disk EXCEPT !.body = disk.body \o SubSeq(buffer, 1, n)]
      /\ buffer' = SubSeq(buffer, n + 1, Len(buffer))
      /\ UNCHANGED <<phase, env, entries, harm>> /\ phase = "open"
  BY DEF Spill, IsolationInv, FileType
<1>6. disk'.body = disk.body \o SubSeq(buffer, 1, n)
  BY <1>5 DEF IsolationInv, FileType
<1>7. disk' \in FileType'
  BY <1>4, <1>5 DEF IsolationInv, FileType
<1> HIDE DEF C
<1>8. Len(disk'.body) + Len(buffer') <= MaxCells
  BY <1>1, <1>3, <1>4, <1>5, <1>6 DEF IsolationInv
<1>9. buffer' \in Seq(CellsOf(Identity(disk'.env)))
  BY <1>3, <1>5 DEF C
<1>10. QED
  BY <1>5, <1>7, <1>8, <1>9 DEF IsolationInv

LEMMA CloseIsolation ==
  ASSUME IsolationInv, CloseFlush \/ CloseCount \/ Crash
  PROVE  IsolationInv'
<1> DEFINE C == CellsOf(Identity(disk.env))
<1>1. /\ buffer \in Seq(C) /\ disk.body \in Seq(C)
      /\ Len(buffer) \in Nat /\ Len(disk.body) \in Nat
  BY DEF IsolationInv, FileType
<1>2. CASE CloseFlush
  <2>1. /\ disk.body \o buffer \in Seq(C)
        /\ Len(disk.body \o buffer) = Len(disk.body) + Len(buffer)
    BY <1>1, ConcatProperties
  <2>2. disk'.env = disk.env /\ disk'.body = disk.body \o buffer
    BY <1>2 DEF CloseFlush, IsolationInv, FileType
  <2>3. disk' \in FileType'
    BY <1>2, <2>1 DEF CloseFlush, IsolationInv, FileType
  <2>4. QED
    BY <1>1, <1>2, <2>1, <2>2, <2>3, EmptySeq DEF CloseFlush, IsolationInv
<1>3. CASE CloseCount
  BY <1>3, CacheAssumption, EmptySeq DEF CloseCount, IsolationInv, FileType
<1>4. CASE Crash
  BY <1>1, <1>4, CacheAssumption, EmptySeq DEF Crash, IsolationInv, FileType
<1>5. QED
  BY <1>2, <1>3, <1>4

(* The inductive invariant of the cache file.                              *)
THEOREM CacheInvariant == Spec => []IsolationInv
<1>1. IsolationInv /\ [Next]_vars => IsolationInv'
  <2> SUFFICES ASSUME IsolationInv, [Next]_vars PROVE IsolationInv'
    OBVIOUS
  <2>1. CASE UNCHANGED vars
    BY <2>1 DEF vars, IsolationInv, FileType
  <2>2. QED
    BY <2>1, OpenIsolation, HeaderIsolation, InsertIsolation, ShortIsolation,
       SpillIsolation, CloseIsolation
       DEF Next
<1>2. QED
  BY <1>1, IsolationInit, PTL DEF Spec

(* The cache keeps its types whatever is inserted, spilled and crashed.    *)
THEOREM CacheTypeCorrect == Spec => []TypeOK
<1>1. IsolationInv => TypeOK
  <2> SUFFICES ASSUME IsolationInv PROVE TypeOK
    OBVIOUS
  <2>1. Len(disk.body) \in Nat /\ Len(buffer) \in Nat /\ MaxCells \in Nat
    BY CacheAssumption DEF IsolationInv, FileType
  <2>2. QED
    BY <2>1 DEF IsolationInv, FileType, TypeOK
<1>2. QED
  BY <1>1, CacheInvariant, PTL

(* An open cache holds no blob of another GPU, driver or API version.      *)
THEOREM IsolatesEnvs == Spec => []EnvIsolation
<1>1. IsolationInv => EnvIsolation
  <2> SUFFICES ASSUME IsolationInv, phase = "open",
                      NEW i \in DOMAIN disk.body, disk.body[i][1] = "data"
               PROVE  disk.body[i][3] = Identity(env)
    BY DEF EnvIsolation
  <2>1. disk.body \in Seq(CellsOf(Identity(disk.env)))
    BY DEF IsolationInv, FileType
  <2>2. disk.body[i] \in CellsOf(Identity(disk.env))
    BY <2>1
  <2>3. disk.body[i][3] = Identity(disk.env)
    BY <2>2, DataOfCells
  <2>4. QED
    BY <2>3 DEF IsolationInv
<1>2. QED
  BY <1>1, CacheInvariant, PTL

-----------------------------------------------------------------------------
(* The identities a handle or a header can have, the cells of any of them, *)
(* and what is logged.                                                     *)
Ids == {Identity(e) : e \in Envs \cup {NoEnv}}
AnyCell == UNION {CellsOf(id) : id \in Ids}
Records == [key : Keys, blob : Blobs, id : Ids]

(* A record is its key, its size and its data.                             *)
LEMMA RecordParts ==
  ASSUME NEW r \in Records
  PROVE  /\ Len(r.blob) \in Nat \ {0}
         /\ Record(r) \in Seq(AnyCell) /\ Len(Record(r)) = Len(r.blob) + 2
         /\ Record(r)[1] = <<"key", r.key>> /\ Record(r)[2] = <<"size", Len(r.blob)>>
<1> DEFINE first == << <<"key", r.key>>, <<"size", Len(r.blob)>> >>
           rest == [i \in 1..Len(r.blob) |-> <<"data", r.blob[i], r.id>>]
<1>1. r.key \in Keys /\ r.blob \in Blobs /\ r.id \in Ids
  BY DEF Records
<1>2. r.blob \in Seq(Pieces) /\ r.blob # << >> /\ Len(r.blob) \in Nat /\ Len(r.blob) # 0
  BY <1>1, CacheAssumption
<1>3. <<"key", r.key>> \in AnyCell /\ <<"size", Len(r.blob)>> \in AnyCell
  <2>1. <<"key", r.key>> \in CellsOf(r.id) /\ <<"size", Len(r.blob)>> \in CellsOf(r.id)
    BY <1>1, <1>2 DEF CellsOf
  <2> QED
    BY <1>1, <2>1 DEF AnyCell
<1>4. \A i \in 1..Len(r.blob) : <<"data", r.blob[i], r.id>> \in AnyCell
  <2>1. \A i \in 1..Len(r.blob) : <<"data", r.blob[i], r.id>> \in CellsOf(r.id)
    BY <1>2 DEF CellsOf
  <2> QED
    BY <1>1, <2>1 DEF AnyCell
<1>5. /\ first \in Seq(AnyCell) /\ Len(first) = 2
      /\ first[1] = <<"key", r.key>> /\ first[2] = <<"size", Len(r.blob)>>
  BY <1>3
<1>6. rest \in Seq(AnyCell) /\ Len(rest) = Len(r.blob)
  BY <1>2, <1>4
<1>7. Record(r) = first \o rest
  BY DEF Record
<1> HIDE DEF first, rest
<1>8. /\ first \o rest \in Seq(AnyCell) /\ Len(first \o rest) = Len(first) + Len(rest)
      /\ \A i \in 1..Len(first) + Len(rest) :
           (first \o rest)[i] = IF i <= Len(first) THEN first[i] ELSE rest[i - Len(first)]
  BY ONLY <1>5, <1>6, ConcatProperties
<1>9. (first \o rest)[1] = first[1] /\ (first \o rest)[2] = first[2]
  BY ONLY <1>2, <1>5, <1>6, <1>8
<1>10. first \o rest \in Seq(AnyCell)
  BY ONLY <1>8, Zenon
<1>11. Len(first \o rest) = Len(r.blob) + 2
  BY ONLY <1>2, <1>5, <1>6, <1>8
<1>12. (first \o rest)[1] = <<"key", r.key>> /\ (first \o rest)[2] = <<"size", Len(r.blob)>>
  BY ONLY <1>5, <1>9, Zenon
<1>13. Len(r.blob) \in Nat \ {0}
  BY ONLY <1>2
<1> QED
  BY ONLY <1>7, <1>10, <1>11, <1>12, <1>13, Zenon

(* The cells of the first records of a log, one record after the other.    *)
Trail(f, l) ==
  /\ f \in [0..Len(l) -> Seq(AnyCell)]
  /\ f[0] = << >>
  /\ \A i \in 1..Len(l) : f[i] = f[i - 1] \o Record(l[i])
  /\ \A i \in 0..Len(l) : Cells(SubSeq(l, 1, i)) = f[i]

LEMMA FlattenParts ==
  ASSUME NEW n \in Nat, NEW s, Len(s) = n, s # << >>, n # 0,
         NEW f \in [0..n -> Seq(AnyCell)], f[0] = << >>,
         \A i \in 1..n : s[i] \in Seq(AnyCell) /\ f[i] = f[i - 1] \o s[i]
  PROVE  FlattenSeq(s) = f[n]
<1>1. PICK h : h = [i \in 1..n |-> f[i]]
  OBVIOUS
<1>2. \A i \in 1..n : h[i] = IF i = 1 THEN s[i] ELSE h[i - 1] \o s[i]
  <2> SUFFICES ASSUME NEW i \in 1..n
               PROVE  h[i] = IF i = 1 THEN s[i] ELSE h[i - 1] \o s[i]
    OBVIOUS
  <2>1. CASE i = 1
    <3>1. f[1] = f[1 - 1] \o s[1] /\ s[1] \in Seq(AnyCell)
      BY <2>1
    <3>2. 1 - 1 = 0
      OBVIOUS
    <3>3. f[1] = << >> \o s[1]
      BY <3>1, <3>2, Zenon
    <3>4. f[1] = s[1]
      BY <3>1, <3>3, ConcatEmptySeq
    <3> QED
      BY <1>1, <2>1, <3>4
  <2>2. CASE i # 1
    <3>1. i - 1 \in 1..n
      BY <2>2
    <3> QED
      BY <1>1, <2>2, <3>1
  <2> QED
    BY <2>1, <2>2
<1>3. h = [i \in 1..Len(s) |-> IF i = 1 THEN s[i] ELSE h[i - 1] \o s[i]]
  BY <1>1, <1>2
<1> DEFINE g == CHOOSE g : g = [i \in 1..Len(s) |-> IF i = 1 THEN s[i] ELSE g[i - 1] \o s[i]]
<1>4. g = [i \in 1..Len(s) |-> IF i = 1 THEN s[i] ELSE g[i - 1] \o s[i]]
  BY <1>3, Zenon
<1>5. FlattenSeq(s) = g[Len(s)]
  BY Zenon DEF FlattenSeq
<1> HIDE DEF g
<1>6. \A i \in 1..n : g[i] = IF i = 1 THEN s[i] ELSE g[i - 1] \o s[i]
  BY <1>4
<1> DEFINE good == {i \in 0..n : i # 0 => g[i] = h[i]}
<1>7. 0 \in good
  OBVIOUS
<1>8. ASSUME NEW i \in 1..n, i - 1 \in good
      PROVE  i \in good
  <2>1. CASE i = 1
    BY <1>2, <1>6, <2>1
  <2>2. CASE i # 1
    <3>1. i - 1 # 0 /\ i - 1 \in 1..n
      BY <2>2
    <3>2. g[i - 1] = h[i - 1]
      BY <1>8, <3>1
    <3>3. g[i] = g[i - 1] \o s[i] /\ h[i] = h[i - 1] \o s[i]
      BY <1>2, <1>6, <2>2
    <3>4. g[i] = h[i]
      BY <3>2, <3>3, Zenon
    <3> QED
      BY <3>4
  <2> QED
    BY <2>1, <2>2
<1>9. \A i \in 0..n : i \in good
  <2> HIDE DEF good
  <2> QED
    BY <1>7, <1>8, Climb
<1>10. g[n] = h[n]
  BY <1>9
<1> QED
  BY <1>1, <1>5, <1>10

LEMMA TrailExists ==
  ASSUME NEW l \in Seq(Records)
  PROVE  \E f : Trail(f, l)
<1>1. PICK n : n = Len(l) /\ n \in Nat
  OBVIOUS
<1>2. PICK R : R = [i \in 1..n |-> Record(l[i])]
  OBVIOUS
<1>3. \A i \in 1..n : R[i] = Record(l[i]) /\ R[i] \in Seq(AnyCell)
  BY <1>1, <1>2, RecordParts
<1>4. PICK V : V = Seq(AnyCell)
  OBVIOUS
<1>5. PICK step : step = [i \in 1..n |-> [v \in V |-> v \o R[i]]]
  OBVIOUS
<1>6. \A i \in 1..n, v \in V : v \o R[i] \in V
  BY <1>3, <1>4, ConcatProperties
<1>7. << >> \in V
  BY <1>4
<1>8. PICK f : Follows(f, n, V, << >>, step)
  <2>1. Steps(n, V, << >>, step)
    BY <1>1, <1>5, <1>6, <1>7 DEF Steps
  <2> QED
    BY <2>1, RecursionExists
<1>9. /\ f \in [0..n -> V] /\ f[0] = << >>
      /\ \A i \in 1..n : f[i] = f[i - 1] \o R[i]
  <2>1. /\ f \in [0..n -> V] /\ f[0] = << >>
        /\ \A i \in 1..n : f[i] = step[i][f[i - 1]]
    BY <1>8 DEF Follows
  <2>2. \A i \in 1..n : f[i - 1] \in V
    <3>1. \A i \in 1..n : i - 1 \in 0..n
      BY <1>1
    <3> QED
      BY <2>1, <3>1
  <2>3. \A i \in 1..n : step[i][f[i - 1]] = f[i - 1] \o R[i]
    BY <1>5, <2>2
  <2> QED
    BY <2>1, <2>3
<1>10. ASSUME NEW i \in 0..n
       PROVE  Cells(SubSeq(l, 1, i)) = f[i]
  <2>1. PICK t : t = SubSeq(l, 1, i)
    OBVIOUS
  <2>2. t \in Seq(Records) /\ Len(t) = i /\ \A j \in 1..i : t[j] = l[j]
    BY <1>1, <2>1
  <2>3. PICK s : s = [j \in 1..Len(t) |-> Record(t[j])]
    OBVIOUS
  <2>4. s = [j \in 1..i |-> R[j]]
    <3>1. \A j \in 1..i : Record(t[j]) = R[j]
      <4>1. \A j \in 1..i : j \in 1..n
        BY <1>1
      <4> QED
        BY <1>3, <2>2, <4>1
    <3> QED
      BY <2>2, <2>3, <3>1
  <2>5. Cells(t) = FlattenSeq(s)
    BY <2>3 DEF Cells
  <2>6. CASE i = 0
    <3>1. s = << >>
      BY <2>4, <2>6
    <3>2. Len(s) = 0
      BY <3>1
    <3>3. FlattenSeq(s) = << >>
      BY <3>1, <3>2, Zenon DEF FlattenSeq
    <3> QED
      BY <1>9, <2>1, <2>5, <2>6, <3>3
  <2>7. CASE i # 0
    <3>1. i \in Nat /\ \A j \in 1..i : j \in 1..n
      BY <1>1
    <3>2. s \in Seq(V) /\ Len(s) = i /\ \A j \in 1..i : s[j] = R[j]
      BY <1>3, <1>4, <2>4, <3>1
    <3>3. s # << >>
      BY <2>7, <3>2
    <3>4. PICK h : h = [j \in 0..i |-> f[j]]
      OBVIOUS
    <3>5. h \in [0..i -> Seq(AnyCell)] /\ h[0] = << >> /\ h[i] = f[i]
      <4>1. \A j \in 0..i : j \in 0..n /\ f[j] \in Seq(AnyCell)
        BY <1>1, <1>4, <1>9
      <4>2. 0 \in 0..i /\ i \in 0..i
        BY <3>1
      <4> QED
        BY <1>9, <3>4, <4>1, <4>2
    <3>6. ASSUME NEW j \in 1..i
          PROVE  s[j] \in Seq(AnyCell) /\ h[j] = h[j - 1] \o s[j]
      <4>1. j \in 1..n /\ j \in 0..i /\ j - 1 \in 0..i
        BY <3>1
      <4> QED
        BY <1>3, <1>9, <3>2, <3>4, <4>1
    <3>7. FlattenSeq(s) = h[i]
      BY <2>7, <3>1, <3>2, <3>3, <3>5, <3>6, FlattenParts
    <3> QED
      BY <2>1, <2>5, <3>5, <3>7
  <2> QED
    BY <2>6, <2>7
<1> QED
  BY <1>1, <1>3, <1>4, <1>9, <1>10 DEF Trail

LEMMA TrailGrows ==
  ASSUME NEW l \in Seq(Records), NEW f, Trail(f, l), NEW i \in 0..Len(l), NEW j \in i..Len(l)
  PROVE  Len(f[i]) <= Len(f[j]) /\ \A x \in 1..Len(f[i]) : f[j][x] = f[i][x]
<1>1. PICK n : n = Len(l) /\ n \in Nat
  OBVIOUS
<1>2. PICK a : a = f[i] /\ a \in Seq(AnyCell) /\ Len(a) \in Nat
  BY DEF Trail
<1> DEFINE Holds(k) == Len(a) <= Len(f[k]) /\ \A x \in 1..Len(a) : f[k][x] = a[x]
           good == {k \in 0..n : k >= i => Holds(k)}
<1>3. 0 \in good
  BY <1>1, <1>2
<1>4. ASSUME NEW k \in 1..n, k - 1 \in good
      PROVE  k \in good
  <2>1. CASE k - 1 >= i
    <3>1. PICK b, c : b = f[k - 1] /\ c = Record(l[k])
      OBVIOUS
    <3>2. k - 1 \in 0..n /\ l[k] \in Records
      BY <1>1
    <3>3. b \in Seq(AnyCell) /\ c \in Seq(AnyCell) /\ f[k] = b \o c
      BY <1>1, <3>1, <3>2, RecordParts DEF Trail
    <3>4. /\ Len(b \o c) = Len(b) + Len(c)
          /\ \A x \in 1..Len(b) + Len(c) : (b \o c)[x] = IF x <= Len(b) THEN b[x] ELSE c[x - Len(b)]
      BY <3>3, ConcatProperties
    <3>5. Len(b) \in Nat /\ Len(c) \in Nat
      BY <3>3
    <3>6. Holds(k - 1)
      BY <1>4, <2>1
    <3>7. Len(a) <= Len(b) /\ \A x \in 1..Len(a) : b[x] = a[x]
      BY <3>1, <3>6
    <3>8. Len(a) <= Len(f[k]) /\ \A x \in 1..Len(a) : f[k][x] = a[x]
      BY ONLY <1>2, <3>3, <3>4, <3>5, <3>7
    <3> QED
      BY <3>8
  <2>2. CASE k = i
    BY <1>2, <2>2
  <2>3. CASE k < i
    BY <2>3
  <2> QED
    BY <1>1, <2>1, <2>2, <2>3
<1>5. \A k \in 0..n : k \in good
  <2> HIDE DEF good
  <2> QED
    BY <1>1, <1>3, <1>4, Climb
<1>6. j \in 0..n /\ j >= i
  BY <1>1
<1>7. Holds(j)
  BY <1>5, <1>6
<1> QED
  BY <1>2, <1>7

TrailStep(f, l, i) ==
  /\ f[i - 1] \in Seq(AnyCell) /\ Len(f[i - 1]) \in Nat
  /\ f[i] \in Seq(AnyCell) /\ Len(f[i]) = Len(f[i - 1]) + Len(l[i].blob) + 2
  /\ \A x \in 1..Len(l[i].blob) + 2 : f[i][Len(f[i - 1]) + x] = Record(l[i])[x]

LEMMA TrailRecord ==
  ASSUME NEW l \in Seq(Records), NEW f, Trail(f, l), NEW i \in 1..Len(l)
  PROVE  TrailStep(f, l, i)
<1>1. PICK b, c : b = f[i - 1] /\ c = Record(l[i])
  OBVIOUS
<1>2. l[i] \in Records /\ i - 1 \in 0..Len(l)
  OBVIOUS
<1>3. b \in Seq(AnyCell) /\ c \in Seq(AnyCell) /\ f[i] = b \o c /\ Len(c) = Len(l[i].blob) + 2
  BY <1>1, <1>2, RecordParts DEF Trail
<1>4. /\ Len(b \o c) = Len(b) + Len(c) /\ b \o c \in Seq(AnyCell)
      /\ \A x \in 1..Len(b) + Len(c) : (b \o c)[x] = IF x <= Len(b) THEN b[x] ELSE c[x - Len(b)]
  BY <1>3, ConcatProperties
<1>5. Len(b) \in Nat /\ Len(c) \in Nat /\ Len(l[i].blob) \in Nat
  BY <1>2, <1>3, RecordParts
<1>6. \A x \in 1..Len(c) : f[i][Len(b) + x] = c[x]
  <2> SUFFICES ASSUME NEW x \in 1..Len(c)
               PROVE  f[i][Len(b) + x] = c[x]
    OBVIOUS
  <2>1. PICK y : y = Len(b) + x /\ y \in 1..Len(b) + Len(c) /\ ~(y <= Len(b)) /\ y - Len(b) = x
    BY <1>5
  <2> QED
    BY <1>3, <1>4, <2>1
<1>7. f[i] \in Seq(AnyCell) /\ Len(f[i]) = Len(b) + Len(c)
  BY <1>3, <1>4
<1>8. Len(f[i]) = Len(b) + Len(l[i].blob) + 2
  BY <1>3, <1>5, <1>7
<1> QED
  BY <1>1, <1>3, <1>5, <1>6, <1>7, <1>8 DEF TrailStep

LEMMA CellsWhole ==
  ASSUME NEW l \in Seq(Records), NEW f, Trail(f, l)
  PROVE  Cells(l) = f[Len(l)] /\ Cells(l) \in Seq(AnyCell)
<1>1. SubSeq(l, 1, Len(l)) = l /\ Len(l) \in 0..Len(l)
  BY SubSeqFull
<1> QED
  BY <1>1 DEF Trail

LEMMA CellsEmpty == Cells(<< >>) = << >>
<1>1. PICK l : l = << >>
  OBVIOUS
<1>2. l \in Seq(Records) /\ Len(l) = 0
  BY <1>1
<1>3. PICK f : Trail(f, l)
  BY <1>2, TrailExists
<1>4. Cells(l) = f[0] /\ f[0] = << >>
  BY <1>2, <1>3, CellsWhole DEF Trail
<1> QED
  BY <1>1, <1>4

LEMMA SubSeqOfFirst ==
  ASSUME NEW l \in Seq(Records), NEW m \in 0..Len(l), NEW i \in 0..m
  PROVE  /\ SubSeq(l, 1, m) \in Seq(Records) /\ Len(SubSeq(l, 1, m)) = m
         /\ SubSeq(SubSeq(l, 1, m), 1, i) = SubSeq(l, 1, i)
<1>1. PICK t : t = SubSeq(l, 1, m)
  OBVIOUS
<1>2. t \in Seq(Records) /\ Len(t) = m /\ \A j \in 1..m : t[j] = l[j]
  BY <1>1
<1>3. PICK u, v : u = SubSeq(t, 1, i) /\ v = SubSeq(l, 1, i)
  OBVIOUS
<1>4. /\ u \in Seq(Records) /\ Len(u) = i /\ \A j \in 1..i : u[j] = t[j]
      /\ v \in Seq(Records) /\ Len(v) = i /\ \A j \in 1..i : v[j] = l[j]
  BY <1>2, <1>3
<1>5. u = v
  BY <1>2, <1>4, SeqEqual
<1> QED
  BY <1>1, <1>2, <1>3, <1>5

LEMMA CellsAppend ==
  ASSUME NEW l \in Seq(Records), NEW r \in Records
  PROVE  /\ Append(l, r) \in Seq(Records) /\ Len(Append(l, r)) = Len(l) + 1
         /\ Cells(Append(l, r)) = Cells(l) \o Record(r)
         /\ \A i \in 0..Len(l) : SubSeq(Append(l, r), 1, i) = SubSeq(l, 1, i)
<1>1. PICK n : n = Len(l) /\ n \in Nat
  OBVIOUS
<1>2. PICK t : t = Append(l, r)
  OBVIOUS
<1>3. t \in Seq(Records) /\ Len(t) = n + 1 /\ t[n + 1] = r /\ \A j \in 1..n : t[j] = l[j]
  BY <1>1, <1>2, AppendProperties
<1>4. ASSUME NEW i \in 0..n
      PROVE  SubSeq(t, 1, i) = SubSeq(l, 1, i)
  <2>1. PICK u, v : u = SubSeq(t, 1, i) /\ v = SubSeq(l, 1, i)
    OBVIOUS
  <2>2. /\ u \in Seq(Records) /\ Len(u) = i /\ \A j \in 1..i : u[j] = t[j]
        /\ v \in Seq(Records) /\ Len(v) = i /\ \A j \in 1..i : v[j] = l[j]
    BY <1>1, <1>3, <2>1
  <2>3. \A j \in 1..i : u[j] = v[j]
    BY <1>1, <1>3, <2>2
  <2>4. u = v
    BY <2>2, <2>3, SeqEqual
  <2> QED
    BY <2>1, <2>4
<1>5. PICK g : Trail(g, t)
  BY <1>3, TrailExists
<1>6. Cells(t) = g[n + 1]
  BY <1>3, <1>5, CellsWhole
<1>7. g[n + 1] = g[n] \o Record(r)
  <2>1. PICK k : k = n + 1 /\ k - 1 = n /\ k \in 1..Len(t) /\ t[k] = r
    BY <1>1, <1>3
  <2>2. \A i \in 1..Len(t) : g[i] = g[i - 1] \o Record(t[i])
    BY <1>5 DEF Trail
  <2>3. g[k] = g[k - 1] \o Record(t[k])
    BY <2>1, <2>2, Zenon
  <2> QED
    BY <2>1, <2>3
<1>8. g[n] = Cells(l)
  <2>1. n \in 0..n + 1 /\ n \in 0..n
    BY <1>1
  <2>2. Cells(SubSeq(t, 1, n)) = g[n]
    BY <1>3, <1>5, <2>1 DEF Trail
  <2>3. SubSeq(t, 1, n) = l
    BY <1>1, <1>4, <2>1, SubSeqFull
  <2> QED
    BY <2>2, <2>3
<1> QED
  BY <1>1, <1>2, <1>3, <1>4, <1>6, <1>7, <1>8

(* Those of the records that are whole in the file are the first ones.     *)
LEMMA OnDiskFirst ==
  ASSUME log \in Seq(Records), NEW f, Trail(f, log), Len(disk.body) \in Nat
  PROVE  /\ Cardinality(OnDisk) \in 0..Len(log)
         /\ OnDisk = 1..Cardinality(OnDisk)
         /\ OnDisk = {i \in 1..Len(log) : Len(f[i]) <= Len(disk.body)}
<1>0. PICK d : d = Len(disk.body) /\ d \in Nat
  OBVIOUS
<1>1. PICK n : n = Len(log) /\ n \in Nat /\ d = Len(disk.body) /\ d \in Nat
  BY <1>0
<1>2. OnDisk = {i \in 1..n : Len(f[i]) <= d}
  BY <1>1 DEF Trail, OnDisk
<1>3. \E m \in 0..n : OnDisk = 1..m
  <2>1. PICK out : out = {i \in 1..n : ~(Len(f[i]) <= d)}
    OBVIOUS
  <2>2. CASE out = {}
    BY <1>1, <1>2, <2>1, <2>2
  <2>3. CASE out # {}
    <3>1. PICK k : k \in out /\ \A x \in out : k <= x
      <4>1. out \subseteq Nat
        BY <1>1, <2>1
      <4>2. Min(out) \in out /\ \A x \in out : Min(out) <= x
        BY <2>3, <4>1, MinIsMember
      <4> QED
        BY <4>2
    <3>2. k \in 1..n /\ ~(Len(f[k]) <= d)
      BY <2>1, <3>1
    <3>3. ASSUME NEW x \in 1..n, x >= k
          PROVE  ~(Len(f[x]) <= d)
      <4>1. k \in 0..Len(log) /\ x \in k..Len(log)
        BY <1>1, <3>2, <3>3
      <4>2. Len(f[k]) <= Len(f[x])
        BY <4>1, TrailGrows
      <4>3. Len(f[k]) \in Nat /\ Len(f[x]) \in Nat
        BY <1>1, <3>2 DEF Trail
      <4> QED
        BY <1>1, <3>2, <4>2, <4>3
    <3>4. ASSUME NEW x \in 1..n, x < k
          PROVE  Len(f[x]) <= d
      BY <2>1, <3>1, <3>2, <3>4
    <3>5. \A x : x \in OnDisk <=> x \in 1..(k - 1)
      BY <1>1, <1>2, <3>2, <3>3, <3>4
    <3>6. k - 1 \in 0..n
      BY <1>1, <3>2
    <3>7. OnDisk = 1..(k - 1)
      <4> HIDE DEF OnDisk
      <4> QED
        BY <3>5
    <3> QED
      BY <3>6, <3>7
  <2> QED
    BY <2>2, <2>3
<1>4. PICK m \in 0..n : OnDisk = 1..m
  BY <1>3
<1>5. Cardinality(OnDisk) = m
  BY <1>1, <1>4, FS_Interval
<1> QED
  BY <1>1, <1>2, <1>4, <1>5

-----------------------------------------------------------------------------
Begins(s, t) == Len(s) <= Len(t) /\ \A x \in 1..Len(s) : t[x] = s[x]

LEMMA BeginsMore ==
  ASSUME NEW c \in Seq(AnyCell), NEW s \in Seq(AnyCell), NEW t \in Seq(AnyCell), Begins(c, s)
  PROVE  Begins(c, s \o t)
<1>1. /\ Len(c) \in Nat /\ Len(s) \in Nat /\ Len(t) \in Nat
      /\ Len(s \o t) = Len(s) + Len(t)
      /\ \A x \in 1..Len(s) + Len(t) : (s \o t)[x] = IF x <= Len(s) THEN s[x] ELSE t[x - Len(s)]
  BY ConcatProperties
<1>2. Len(c) <= Len(s) /\ \A x \in 1..Len(c) : s[x] = c[x]
  BY DEF Begins
<1>3. \A x \in 1..Len(c) : x \in 1..Len(s) + Len(t) /\ x <= Len(s)
  BY <1>1, <1>2
<1>4. \A x \in 1..Len(c) : (s \o t)[x] = c[x]
  BY <1>1, <1>2, <1>3
<1>5. Len(c) <= Len(s \o t)
  BY <1>1, <1>2
<1> QED
  BY <1>4, <1>5 DEF Begins

LEMMA BeginsFirst ==
  ASSUME NEW c, NEW s \in Seq(AnyCell), NEW t \in Seq(AnyCell), Begins(c, s \o t),
         NEW x \in 1..Len(c), x \in 1..Len(s)
  PROVE  s[x] = c[x]
<1>1. /\ Len(s) \in Nat /\ Len(t) \in Nat
      /\ \A y \in 1..Len(s) + Len(t) : (s \o t)[y] = IF y <= Len(s) THEN s[y] ELSE t[y - Len(s)]
  BY ConcatProperties
<1>2. x \in 1..Len(s) + Len(t) /\ x <= Len(s)
  BY <1>1
<1>3. (s \o t)[x] = s[x]
  BY <1>1, <1>2
<1>4. (s \o t)[x] = c[x]
  BY DEF Begins
<1> QED
  BY <1>3, <1>4

(* Body and buffer hold the cells of the log, or begin with them when a    *)
(* torn record comes behind them; the count of the header, which was the number of   *)
(* entries at some close, is that of records which are in the file.        *)
StoreInv ==
  /\ log \in Seq(Records)
  /\ harm # "torn" => disk.body \o buffer = Cells(log)
  /\ harm = "torn" => Begins(Cells(log), disk.body \o buffer)
  /\ harm # "torn" => /\ disk.count \in 0..Len(log)
                      /\ Len(Cells(SubSeq(log, 1, disk.count))) <= Len(disk.body)
                      /\ phase \in {"open", "closing"} => entries <= Len(log)
  /\ phase = "creating" => log = << >>
  /\ harm = "none" /\ phase = "closed" => disk.count = Len(log)
  /\ harm = "none" /\ phase \in {"open", "closing"} => entries = Len(log)

LEMMA FileTyped ==
  ASSUME IsolationInv
  PROVE  /\ disk.body \in Seq(AnyCell) /\ buffer \in Seq(AnyCell)
         /\ Len(disk.body) \in Nat /\ Len(buffer) \in Nat
         /\ disk.count \in Nat /\ entries \in Nat
         /\ disk = [env |-> disk.env, count |-> disk.count, body |-> disk.body]
<1>1. /\ disk.env \in Envs \cup {NoEnv} /\ disk.count \in Nat
      /\ disk.body \in Seq(CellsOf(Identity(disk.env)))
      /\ buffer \in Seq(CellsOf(Identity(disk.env))) /\ entries \in Nat
      /\ disk = [env |-> disk.env, count |-> disk.count, body |-> disk.body]
  BY DEF IsolationInv, FileType
<1>2. Identity(disk.env) \in Ids
  BY <1>1 DEF Ids
<1>3. CellsOf(Identity(disk.env)) \subseteq AnyCell
  BY <1>2 DEF AnyCell
<1>4. disk.body \in Seq(AnyCell) /\ buffer \in Seq(AnyCell)
  BY <1>1, <1>3, SeqMonotonic
<1> QED
  BY <1>1, <1>4

LEMMA NoneCounted ==
  ASSUME NEW l, NEW c, c = 0
  PROVE  Len(Cells(SubSeq(l, 1, c))) = 0
<1>1. SubSeq(l, 1, 0) = << >>
  BY SubSeqEmpty
<1>2. Cells(SubSeq(l, 1, c)) = << >>
  BY <1>1, CellsEmpty, Zenon
<1> QED
  BY <1>2

LEMMA StoreInit == Init => StoreInv
<1> SUFFICES ASSUME Init
             PROVE  StoreInv
  OBVIOUS
<1>1. /\ disk.body = << >> /\ disk.count = 0 /\ buffer = << >> /\ log = << >>
      /\ harm = "none" /\ phase = "closed"
  BY DEF Init, EmptyFile
<1>2. << >> \in Seq(Records) /\ Len(log) = 0 /\ << >> \in Seq(AnyCell)
  BY <1>1
<1>3. disk.body \o buffer = Cells(log)
  BY <1>1, <1>2, CellsEmpty, ConcatEmptySeq
<1>4. Len(Cells(SubSeq(log, 1, disk.count))) = 0
  BY <1>1, NoneCounted
<1>5. Len(Cells(SubSeq(log, 1, disk.count))) <= Len(disk.body)
  BY <1>1, <1>4
<1> QED
  BY <1>1, <1>2, <1>3, <1>5 DEF StoreInv

LEMMA OpenStore ==
  ASSUME IsolationInv, StoreInv, NEW e \in Envs, OpenReuse(e) \/ OpenReset(e)
  PROVE  StoreInv'
<1>1. CASE OpenReuse(e)
  BY <1>1 DEF StoreInv, OpenReuse
<1>2. CASE OpenReset(e)
  <2>1. /\ disk'.body = << >> /\ disk'.count = 0 /\ buffer' = << >> /\ log' = << >>
        /\ harm' = "none" /\ phase' = "creating"
    BY <1>2 DEF OpenReset, EmptyFile, IsolationInv
  <2>2. << >> \in Seq(Records) /\ Len(log') = 0 /\ << >> \in Seq(AnyCell)
    BY <2>1
  <2>3. disk'.body \o buffer' = Cells(log')
    BY <2>1, <2>2, CellsEmpty, ConcatEmptySeq
  <2>4. Len(Cells(SubSeq(log', 1, disk'.count))) = 0
    BY <2>1, NoneCounted
  <2>5. Len(Cells(SubSeq(log', 1, disk'.count))) <= Len(disk'.body)
    BY <2>1, <2>4
  <2> QED
    BY <2>1, <2>2, <2>3, <2>5 DEF StoreInv
<1> QED
  BY <1>1, <1>2

LEMMA HeaderStore ==
  ASSUME IsolationInv, StoreInv, OpenHeader
  PROVE  StoreInv'
<1>1. /\ disk'.body = disk.body /\ disk'.count = disk.count /\ UNCHANGED <<buffer, log, harm>>
      /\ phase' \in {"open", "closed"} /\ entries' = 0 /\ phase = "creating"
  BY FileTyped DEF OpenHeader
<1>2. log = << >> /\ Len(log) = 0
  BY <1>1 DEF StoreInv
<1>3. harm = "none" => disk.count = 0
  BY <1>2 DEF StoreInv
<1> QED
  BY <1>1, <1>2, <1>3 DEF StoreInv

LEMMA LogCells ==
  ASSUME NEW l \in Seq(Records)
  PROVE  Cells(l) \in Seq(AnyCell)
BY TrailExists, CellsWhole

LEMMA LongerBuffer ==
  ASSUME IsolationInv, NEW c \in Seq(AnyCell), NEW a \in Seq(AnyCell), Begins(c, disk.body \o buffer)
  PROVE  Begins(c, disk.body \o (buffer \o a))
<1>1. PICK s, t : s = disk.body /\ t = buffer
  OBVIOUS
<1>2. s \in Seq(AnyCell) /\ t \in Seq(AnyCell)
  BY <1>1, FileTyped
<1>3. s \o t \in Seq(AnyCell)
  BY ONLY <1>2, ConcatProperties
<1>6. Begins(c, s \o t)
  BY <1>1, Zenon
<1>4. Begins(c, (s \o t) \o a)
  BY <1>3, <1>6, BeginsMore
<1>5. (s \o t) \o a = s \o (t \o a)
  <2>1. s \in Seq(AnyCell) /\ t \in Seq(AnyCell) /\ a \in Seq(AnyCell)
    BY <1>2, Zenon
  <2> QED
    BY ONLY <2>1, ConcatAssociative
<1> QED
  BY <1>1, <1>4, <1>5, Zenon

LEMMA InsertStore ==
  ASSUME IsolationInv, StoreInv, NEW k \in Keys, NEW b \in Blobs, Insert(k, b)
  PROVE  StoreInv'
<1>1. PICK r : r = [key |-> k, blob |-> b, id |-> Identity(env)]
  OBVIOUS
<1>2. r \in Records
  BY <1>1 DEF IsolationInv, Records, Ids
<1>3. /\ phase = "open" /\ buffer' = buffer \o Record(r) /\ entries' = entries + 1
      /\ log' = IF harm = "torn" THEN log ELSE Append(log, r)
      /\ UNCHANGED <<disk, phase, harm>>
  BY <1>1 DEF Insert
<1>4. CASE harm = "torn"
  <2>1. Record(r) \in Seq(AnyCell) /\ Cells(log) \in Seq(AnyCell)
    BY <1>2, RecordParts, LogCells DEF StoreInv
  <2>2. Begins(Cells(log), disk.body \o (buffer \o Record(r)))
    BY <1>4, <2>1, LongerBuffer DEF StoreInv
  <2> QED
    BY <1>3, <1>4, <2>2 DEF StoreInv
<1>5. CASE harm # "torn"
  <2>1. PICK n : n = Len(log) /\ n \in Nat /\ log \in Seq(Records)
    BY DEF StoreInv
  <2>2. /\ log' \in Seq(Records) /\ Len(log') = n + 1 /\ Cells(log') = Cells(log) \o Record(r)
        /\ \A i \in 0..n : SubSeq(log', 1, i) = SubSeq(log, 1, i)
    BY <1>2, <1>3, <1>5, <2>1, CellsAppend
  <2>3. disk'.body \o buffer' = Cells(log')
    <3>1. Record(r) \in Seq(AnyCell)
      BY <1>2, RecordParts
    <3>2. (disk.body \o buffer) \o Record(r) = disk.body \o (buffer \o Record(r))
      BY <3>1, FileTyped, ConcatAssociative
    <3>3. disk.body \o buffer = Cells(log)
      BY <1>5 DEF StoreInv
    <3> QED
      BY <1>3, <2>2, <3>2, <3>3
  <2>4. /\ disk.count \in 0..n /\ Len(Cells(SubSeq(log, 1, disk.count))) <= Len(disk.body)
        /\ entries <= n /\ entries \in Nat
        /\ harm = "none" => entries = n
    BY <1>3, <1>5, <2>1, FileTyped DEF StoreInv
  <2>5. /\ disk'.count \in 0..n + 1
        /\ Len(Cells(SubSeq(log', 1, disk'.count))) <= Len(disk'.body)
    <3>1. PICK c : c = disk.count /\ c \in 0..n /\ c \in 0..n + 1
      BY <2>1, <2>4
    <3>2. SubSeq(log', 1, c) = SubSeq(log, 1, c)
      BY <2>2, <3>1
    <3>3. disk'.count = c /\ disk'.body = disk.body
      BY <1>3, <3>1
    <3>4. Len(Cells(SubSeq(log', 1, c))) <= Len(disk.body)
      BY <2>4, <3>1, <3>2, Zenon
    <3> QED
      BY <3>1, <3>3, <3>4
  <2>6. entries' <= n + 1 /\ (harm' = "none" => entries' = n + 1)
    BY <1>3, <2>1, <2>4
  <2> QED
    BY <1>3, <1>5, <2>2, <2>3, <2>5, <2>6 DEF StoreInv
<1> QED
  BY <1>4, <1>5

LEMMA ShortStore ==
  ASSUME IsolationInv, StoreInv, NEW k \in Keys, NEW b \in Blobs, NEW n \in 1..MaxCells,
         InsertShort(k, b, n)
  PROVE  StoreInv'
<1>1. PICK r : r = [key |-> k, blob |-> b, id |-> Identity(env)]
  OBVIOUS
<1>2. r \in Records
  BY <1>1 DEF IsolationInv, Records, Ids
<1>3. PICK a : a = SubSeq(Record(r), 1, n)
  OBVIOUS
<1>4. /\ phase = "open" /\ buffer' = buffer \o a /\ harm' = "torn" /\ n < Len(Record(r))
      /\ UNCHANGED <<disk, phase, entries, log>>
  BY <1>1, <1>3 DEF InsertShort
<1>5. Record(r) \in Seq(AnyCell) /\ Cells(log) \in Seq(AnyCell) /\ n \in Nat
  BY <1>2, RecordParts, LogCells, CacheAssumption DEF StoreInv
<1>6. a \in Seq(AnyCell)
  BY <1>3, <1>4, <1>5
<1>7. Begins(Cells(log), disk.body \o buffer)
  <2>1. Begins(Cells(log), Cells(log))
    <3>1. Len(Cells(log)) \in Nat
      BY <1>5
    <3> QED
      BY <3>1 DEF Begins
  <2> QED
    BY <2>1 DEF StoreInv
<1>8. Begins(Cells(log), disk.body \o (buffer \o a))
  BY <1>5, <1>6, <1>7, LongerBuffer
<1> QED
  BY <1>4, <1>8 DEF StoreInv

(* What stdio writes out, in parts or at the flush, moves from the buffer  *)
(* to the end of the body.                                                 *)
Split(s, t, n, u, v) ==
  /\ s \in Seq(AnyCell) /\ t \in Seq(AnyCell) /\ n \in 0..Len(t)
  /\ u = s \o SubSeq(t, 1, n) /\ v = SubSeq(t, n + 1, Len(t))
Moved(s, t, u, v) ==
  /\ u \o v = s \o t
  /\ Len(u) \in Nat /\ Len(s) \in Nat /\ Len(s) <= Len(u)

LEMMA MovesCells ==
  ASSUME NEW s, NEW t, NEW n, NEW u, NEW v, Split(s, t, n, u, v)
  PROVE  Moved(s, t, u, v)
<1>0. /\ s \in Seq(AnyCell) /\ t \in Seq(AnyCell) /\ n \in 0..Len(t)
      /\ u = s \o SubSeq(t, 1, n) /\ v = SubSeq(t, n + 1, Len(t))
  BY DEF Split
<1>1. PICK a : a = SubSeq(t, 1, n)
  OBVIOUS
<1>2. a \in Seq(AnyCell) /\ v \in Seq(AnyCell) /\ u = s \o a
  BY <1>0, <1>1
<1>3. Len(s) \in Nat /\ Len(t) \in Nat /\ Len(a) \in Nat
  BY <1>0, <1>2
<1>4. a \o v = t
  <2>1. 1 \in 1..Len(t) + 1 /\ n \in 1 - 1..Len(t) /\ Len(t) \in n..Len(t)
    BY <1>0, <1>3
  <2>2. SubSeq(t, 1, n) \o SubSeq(t, n + 1, Len(t)) = SubSeq(t, 1, Len(t))
    BY <1>0, <2>1, ConcatAdjacentSubSeq
  <2>3. SubSeq(t, 1, Len(t)) = t
    BY <1>0, SubSeqFull
  <2> QED
    BY <1>0, <1>1, <2>2, <2>3
<1>5. u \o v = s \o t
  <2>1. (s \o a) \o v = s \o (a \o v)
    <3>1. s \in Seq(AnyCell) /\ a \in Seq(AnyCell) /\ v \in Seq(AnyCell)
      BY ONLY <1>0, <1>2
    <3> QED
      BY ONLY <3>1, ConcatAssociative
  <2> QED
    BY <1>2, <1>4, <2>1, Zenon
<1>6. u \in Seq(AnyCell) /\ Len(u) = Len(s) + Len(a)
  <2>1. s \o a \in Seq(AnyCell) /\ Len(s \o a) = Len(s) + Len(a)
    BY ONLY <1>0, <1>2, ConcatProperties
  <2> QED
    BY ONLY <1>2, <1>3, <2>1
<1>8. Len(u) \in Nat /\ Len(s) <= Len(u)
  BY ONLY <1>3, <1>6
<1> QED
  BY <1>3, <1>5, <1>8, Zenon DEF Moved

LEMMA FlushStore ==
  ASSUME IsolationInv, StoreInv, NEW n \in 0..Len(buffer),
         disk'.body = disk.body \o SubSeq(buffer, 1, n), disk'.count = disk.count,
         buffer' = SubSeq(buffer, n + 1, Len(buffer)),
         UNCHANGED <<log, harm, entries>>, phase = "open", phase' \in {"open", "closing"}
  PROVE  StoreInv'
<1>2. /\ disk'.body \o buffer' = disk.body \o buffer
      /\ Len(disk'.body) \in Nat /\ Len(disk.body) \in Nat /\ Len(disk.body) <= Len(disk'.body)
  <2>1. PICK s, t, u, v : s = disk.body /\ t = buffer /\ u = disk'.body /\ v = buffer'
    OBVIOUS
  <2>2. Split(s, t, n, u, v)
    BY <2>1, FileTyped DEF Split
  <2>3. Moved(s, t, u, v)
    BY ONLY <2>2, MovesCells
  <2>4. u \o v = s \o t /\ Len(u) \in Nat /\ Len(s) \in Nat /\ Len(s) <= Len(u)
    BY <2>3 DEF Moved
  <2> QED
    BY <2>1, <2>4, Zenon
<1>3. log \in Seq(Records) /\ log' = log /\ harm' = harm /\ entries' = entries
  BY DEF StoreInv
<1>4. harm # "torn" => disk'.body \o buffer' = Cells(log)
  BY <1>2 DEF StoreInv
<1>5. harm = "torn" => Begins(Cells(log), disk'.body \o buffer')
  BY <1>2 DEF StoreInv
<1>6. harm # "torn" => /\ disk'.count \in 0..Len(log)
                       /\ Len(Cells(SubSeq(log, 1, disk'.count))) <= Len(disk'.body)
                       /\ entries <= Len(log)
  <2> SUFFICES ASSUME harm # "torn"
               PROVE  /\ disk.count \in 0..Len(log)
                      /\ Len(Cells(SubSeq(log, 1, disk.count))) <= Len(disk'.body)
                      /\ entries <= Len(log)
    OBVIOUS
  <2>1. /\ disk.count \in 0..Len(log) /\ entries <= Len(log)
        /\ Len(Cells(SubSeq(log, 1, disk.count))) <= Len(disk.body)
    BY DEF StoreInv
  <2>2. Len(Cells(SubSeq(log, 1, disk.count))) \in Nat
    <3>1. SubSeq(log, 1, disk.count) \in Seq(Records)
      BY <1>3, <2>1
    <3> QED
      BY <3>1, LogCells
  <2>3. PICK x, y, z : x = Len(Cells(SubSeq(log, 1, disk.count))) /\ y = Len(disk.body)
                       /\ z = Len(disk'.body)
    OBVIOUS
  <2>4. x \in Nat /\ y \in Nat /\ z \in Nat /\ x <= y /\ y <= z
    BY <1>2, <2>1, <2>2, <2>3, Zenon
  <2>5. x <= z
    BY <2>4
  <2> QED
    BY <2>1, <2>3, <2>5
<1>7. harm = "none" => entries = Len(log)
  BY DEF StoreInv
<1> QED
  BY <1>3, <1>4, <1>5, <1>6, <1>7 DEF StoreInv

LEMMA SpillStore ==
  ASSUME IsolationInv, StoreInv, NEW n \in 1..MaxCells, Spill(n)
  PROVE  StoreInv'
<1>1. n \in 0..Len(buffer)
  BY CacheAssumption, FileTyped DEF Spill
<1>2. disk'.body = disk.body \o SubSeq(buffer, 1, n) /\ disk'.count = disk.count
  BY FileTyped DEF Spill
<1> QED
  BY <1>1, <1>2, FlushStore DEF Spill

LEMMA CloseFlushStore ==
  ASSUME IsolationInv, StoreInv, CloseFlush
  PROVE  StoreInv'
<1>1. PICK n : n = Len(buffer) /\ n \in 0..Len(buffer)
  BY FileTyped
<1>2. SubSeq(buffer, 1, n) = buffer
  BY <1>1, FileTyped, SubSeqFull
<1>3. SubSeq(buffer, n + 1, Len(buffer)) = << >>
  <2>1. n + 1 \in Int /\ n \in Int /\ n < n + 1
    BY <1>1, FileTyped
  <2> QED
    BY <1>1, <2>1, SubSeqEmpty
<1>4. disk'.body = disk.body \o buffer /\ disk'.count = disk.count
  BY FileTyped DEF CloseFlush
<1> QED
  BY <1>1, <1>2, <1>3, <1>4, FlushStore DEF CloseFlush

LEMMA CloseCountStore ==
  ASSUME IsolationInv, StoreInv, CloseCount
  PROVE  StoreInv'
<1>1. /\ phase = "closing" /\ disk'.body = disk.body
      /\ \/ disk'.count = entries /\ harm' = harm
         \/ disk'.count = disk.count /\ harm' = IF harm = "torn" THEN harm ELSE "uncounted"
      /\ phase' = "closed" /\ UNCHANGED <<buffer, log>> /\ buffer = << >>
  BY FileTyped DEF CloseCount, IsolationInv
<1>2. PICK n : n = Len(log) /\ n \in Nat /\ log \in Seq(Records)
  BY DEF StoreInv
<1>3. ASSUME harm # "torn"
      PROVE  entries \in 0..n /\ Len(Cells(SubSeq(log, 1, entries))) <= Len(disk.body)
  <2>1. entries \in 0..n
    BY <1>1, <1>2, <1>3, FileTyped DEF StoreInv
  <2>2. Cells(log) = disk.body
    <3>1. disk.body \o << >> = disk.body
      BY FileTyped, ConcatEmptySeq
    <3> QED
      BY <1>1, <1>3, <3>1 DEF StoreInv
  <2>3. PICK f : Trail(f, log)
    BY <1>2, TrailExists
  <2>4. Cells(SubSeq(log, 1, entries)) = f[entries] /\ Cells(log) = f[n]
    BY <1>2, <2>1, <2>3, CellsWhole DEF Trail
  <2>5. Len(f[entries]) <= Len(f[n])
    BY <1>2, <2>1, <2>3, TrailGrows
  <2> QED
    BY <2>1, <2>2, <2>4, <2>5
<1> QED
  BY <1>1, <1>2, <1>3 DEF StoreInv

LEMMA CrashStore ==
  ASSUME IsolationInv, StoreInv, Crash
  PROVE  StoreInv'
<1>1. PICK m, l : m = Cardinality(OnDisk) /\ l = SubSeq(log, 1, m)
  OBVIOUS
<1>2. /\ phase' = "closed" /\ disk' = disk /\ buffer' = << >> /\ log' = l
      /\ harm' = IF harm = "torn" \/ Cells(l) # disk.body THEN "torn" ELSE "uncounted"
  BY <1>1 DEF Crash
<1>3. PICK n : n = Len(log) /\ n \in Nat /\ log \in Seq(Records)
  BY DEF StoreInv
<1>4. PICK f : Trail(f, log)
  BY <1>3, TrailExists
<1>5. m \in 0..n /\ OnDisk = {i \in 1..n : Len(f[i]) <= Len(disk.body)} /\ OnDisk = 1..m
  BY <1>1, <1>3, <1>4, FileTyped, OnDiskFirst
<1>6. /\ l \in Seq(Records) /\ Len(l) = m
      /\ \A i \in 0..m : SubSeq(l, 1, i) = SubSeq(log, 1, i)
  <2>1. log \in Seq(Records) /\ m \in 0..Len(log)
    BY <1>3, <1>5
  <2>2. /\ SubSeq(log, 1, m) \in Seq(Records) /\ Len(SubSeq(log, 1, m)) = m
        /\ \A i \in 0..m : SubSeq(SubSeq(log, 1, m), 1, i) = SubSeq(log, 1, i)
    BY ONLY <2>1, SubSeqOfFirst
  <2> QED
    BY ONLY <1>1, <2>2
<1>7. Cells(l) = f[m] /\ f[m] \in Seq(AnyCell) /\ f[0] = << >> /\ Cells(log) = f[n]
  BY <1>1, <1>3, <1>4, <1>5, CellsWhole DEF Trail
<1>8. PICK a, d : a = Len(f[m]) /\ d = Len(disk.body) /\ a \in Nat /\ d \in Nat
  <2>1. Len(f[m]) \in Nat /\ Len(disk.body) \in Nat
    BY <1>7, FileTyped
  <2> QED
    BY <2>1, Zenon
<1>9. a <= d
  <2>1. CASE m = 0
    BY <1>7, <1>8, <2>1
  <2>2. CASE m # 0
    <3>1. m \in 1..m
      BY <1>5, <2>2
    <3>2. m \in OnDisk
      BY <1>5, <3>1, Zenon
    <3> QED
      BY <1>5, <1>8, <3>2
  <2> QED
    BY <2>1, <2>2
<1>10. a <= Len(f[n]) /\ \A x \in 1..a : f[n][x] = f[m][x]
  <2>1. m \in 0..Len(log) /\ n \in m..Len(log)
    BY <1>3, <1>5
  <2>2. Len(f[m]) <= Len(f[n]) /\ \A x \in 1..Len(f[m]) : f[n][x] = f[m][x]
    BY ONLY <1>3, <1>4, <2>1, TrailGrows
  <2> QED
    BY <1>8, <2>2, Zenon
<1>11. \A x \in 1..a : f[n][x] = disk.body[x]
  <2> SUFFICES ASSUME NEW x \in 1..a
               PROVE  f[n][x] = disk.body[x]
    OBVIOUS
  <2>1. CASE harm = "torn"
    <3>1. Begins(f[n], disk.body \o buffer)
      BY <1>7, <2>1 DEF StoreInv
    <3>2. f[n] \in Seq(AnyCell) /\ Len(f[n]) \in Nat
      BY <1>3, <1>4 DEF Trail
    <3>3. x \in 1..Len(f[n]) /\ x \in 1..Len(disk.body)
      BY <1>8, <1>9, <1>10, <3>2
    <3> QED
      BY <3>1, <3>3, FileTyped, BeginsFirst
  <2>2. CASE harm # "torn"
    <3>1. PICK s, t : s = disk.body /\ t = buffer
      OBVIOUS
    <3>2. s \in Seq(AnyCell) /\ t \in Seq(AnyCell) /\ Len(s) = d /\ Len(t) \in Nat
      BY <1>8, <3>1, FileTyped
    <3>3. f[n] = s \o t
      BY <1>7, <2>2, <3>1 DEF StoreInv
    <3>4. \A y \in 1..Len(s) + Len(t) : (s \o t)[y] = IF y <= Len(s) THEN s[y] ELSE t[y - Len(s)]
      BY <3>2, ConcatProperties
    <3>5. x \in 1..Len(s) + Len(t) /\ x <= Len(s)
      BY <1>8, <1>9, <3>2
    <3>6. (s \o t)[x] = s[x]
      BY <3>4, <3>5
    <3> QED
      BY <3>1, <3>3, <3>6
  <2> QED
    BY <2>1, <2>2
<1>12. Begins(Cells(l), disk.body \o << >>)
  <2>1. Begins(Cells(l), disk.body)
    BY <1>7, <1>8, <1>9, <1>10, <1>11 DEF Begins
  <2> QED
    BY <2>1, FileTyped, ConcatEmptySeq
<1>13. ASSUME harm' # "torn"
       PROVE  /\ harm' = "uncounted" /\ disk.body \o << >> = Cells(l)
              /\ disk.count \in 0..m /\ Len(Cells(SubSeq(l, 1, disk.count))) <= d
  <2>1. harm # "torn" /\ Cells(l) = disk.body /\ harm' = "uncounted"
    BY <1>2, <1>13
  <2>2. disk.body \o << >> = disk.body
    BY FileTyped, ConcatEmptySeq
  <2>3. PICK c : c = disk.count /\ c \in 0..n /\ Len(Cells(SubSeq(log, 1, c))) <= d
    BY <1>3, <1>8, <2>1 DEF StoreInv
  <2>4. c \in 0..m
    <3>1. CASE c = 0
      BY <1>5, <3>1
    <3>2. CASE c # 0
      <4>1. c \in 1..n /\ Cells(SubSeq(log, 1, c)) = f[c]
        BY <1>3, <1>4, <2>3, <3>2 DEF Trail
      <4>2. c \in OnDisk
        BY <1>5, <1>8, <2>3, <4>1
      <4>3. c \in 1..m
        BY <1>5, <4>2, Zenon
      <4> QED
        BY <1>5, <4>3
    <3> QED
      BY <3>1, <3>2
  <2>5. SubSeq(l, 1, c) = SubSeq(log, 1, c)
    BY <1>6, <2>4
  <2>6. Len(Cells(SubSeq(l, 1, c))) <= d
    BY <2>3, <2>5, Zenon
  <2> QED
    BY <2>1, <2>2, <2>3, <2>4, <2>6
<1> QED
  BY <1>2, <1>6, <1>8, <1>12, <1>13 DEF StoreInv

LEMMA StoreStep == IsolationInv /\ StoreInv /\ [Next]_vars => StoreInv'
<1> SUFFICES ASSUME IsolationInv, StoreInv, [Next]_vars
             PROVE  StoreInv'
  OBVIOUS
<1>1. CASE UNCHANGED vars
  BY <1>1 DEF vars, StoreInv
<1> QED
  BY <1>1, OpenStore, HeaderStore, InsertStore, ShortStore, SpillStore, CloseFlushStore,
     CloseCountStore, CrashStore DEF Next

LEMMA StoreAlways == Spec => []StoreInv
BY StoreInit, StoreStep, CacheInvariant, PTL DEF Spec

(* The count of the header never promises records that are not there, and  *)
(* after clean closes it is exact (shadercache_close writes it after the   *)
(* flush), through any number of handles, resets and crashes.              *)
THEOREM CountIsHonest == Spec => []CountHonest
<1>1. StoreInv => CountHonest
  <2> SUFFICES ASSUME StoreInv
               PROVE  CountHonest
    OBVIOUS
  <2>1. harm # "torn" => disk.count <= Len(log)
    BY DEF StoreInv
  <2> QED
    BY <2>1 DEF StoreInv, CountHonest
<1> QED
  BY <1>1, StoreAlways, PTL

-----------------------------------------------------------------------------
(* What the scan for key makes of the last i cells, of what it makes of    *)
(* fewer.                                                                  *)
ScanStep(body, key, i, t) ==
  LET p == Len(body) - i + 1
  IN  IF p + 1 > Len(body) THEN 0
      ELSE IF body[p] = <<"key", key>> THEN p
      ELSE IF p + 2 + SizeAt(body, p) > Len(body) THEN 0
      ELSE t[i - 2 - SizeAt(body, p)]

Scans(g, body, key) ==
  /\ \A i \in 0..Len(body) : g[i] = ScanStep(body, key, i, g)
  /\ RecordAt(body, key) = g[Len(body)]

LEMMA SizeIsNat ==
  ASSUME NEW body \in Seq(AnyCell), NEW p \in 1..Len(body), p + 1 \in 1..Len(body)
  PROVE  SizeAt(body, p) \in Nat
<1>1. PICK c : c = body[p + 1] /\ c \in AnyCell
  OBVIOUS
<1>2. c[1] = "size" => c[2] \in Nat
  BY <1>1 DEF AnyCell, CellsOf
<1> QED
  BY <1>1, <1>2 DEF SizeAt

(* A later cell is reached with fewer cells left.                          *)
LEMMA ScanStepDown ==
  ASSUME NEW body \in Seq(AnyCell), NEW key, NEW i \in 0..Len(body)
  PROVE  /\ \A t \in [0..Len(body) -> Nat] : ScanStep(body, key, i, t) \in Nat
         /\ \A t, u : (\A j \in 0..(i - 1) : t[j] = u[j])
              => ScanStep(body, key, i, t) = ScanStep(body, key, i, u)
<1>1. PICK n : n = Len(body) /\ n \in Nat
  OBVIOUS
<1>2. PICK p : p = n - i + 1 /\ p \in Nat /\ p >= 1
  BY <1>1
<1>3. CASE p + 1 > n
  <2>1. \A t : ScanStep(body, key, i, t) = 0
    BY <1>1, <1>2, <1>3 DEF ScanStep
  <2> QED
    BY <2>1
<1>4. CASE ~(p + 1 > n)
  <2>1. PICK z : z = SizeAt(body, p) /\ z \in Nat
    <3>1. p \in 1..n /\ p + 1 \in 1..n
      BY <1>1, <1>2, <1>4
    <3> QED
      BY <1>1, <3>1, SizeIsNat
  <2>2. \A t : ScanStep(body, key, i, t) =
                 IF body[p] = <<"key", key>> THEN p
                 ELSE IF p + 2 + z > n THEN 0 ELSE t[i - 2 - z]
    BY <1>1, <1>2, <1>4, <2>1 DEF ScanStep
  <2>3. ~(p + 2 + z > n) => i - 2 - z \in 0..(i - 1) /\ i - 2 - z \in 0..n
    BY <1>1, <1>2, <2>1
  <2> QED
    BY <1>1, <1>2, <2>2, <2>3
<1> QED
  BY <1>3, <1>4

LEMMA ScanWalk ==
  ASSUME NEW body \in Seq(AnyCell), NEW key
  PROVE  \E g : Scans(g, body, key)
<1>1. PICK n : n = Len(body) /\ n \in Nat
  OBVIOUS
<1>2. PICK V : V = Nat
  OBVIOUS
<1>3. PICK step : step = [i \in 0..n |-> [t \in [0..n -> V] |-> ScanStep(body, key, i, t)]]
  OBVIOUS
<1>4. \A i \in 0..n : \A t \in [0..n -> V] :
        ScanStep(body, key, i, t) \in V /\ step[i][t] = ScanStep(body, key, i, t)
  <2> HIDE DEF ScanStep
  <2>1. \A i \in 0..n : \A t \in [0..n -> V] : ScanStep(body, key, i, t) \in V
    BY <1>1, <1>2, ScanStepDown
  <2> QED
    BY <1>3, <2>1
<1>5. Fills(n, V, step)
  <2>1. step \in [0..n -> [[0..n -> V] -> V]]
    BY <1>3, <1>4
  <2>2. ASSUME NEW i \in 0..n, NEW t \in [0..n -> V], NEW u \in [0..n -> V],
               \A j \in 0..(i - 1) : t[j] = u[j]
        PROVE  step[i][t] = step[i][u]
    <3>1. ScanStep(body, key, i, t) = ScanStep(body, key, i, u)
      BY <1>1, <2>2, ScanStepDown
    <3> QED
      BY <1>4, <3>1
  <2> QED
    BY <1>1, <2>1, <2>2 DEF Fills
<1>6. PICK f \in [0..n -> V] : \A i \in 0..n : f[i] = step[i][f]
  <2>1. 0 \in V
    BY <1>2
  <2> QED
    BY ONLY <1>5, <2>1, TableExists
<1>7. f = [i \in 0..n |-> ScanStep(body, key, i, f)]
  <2> HIDE DEF ScanStep
  <2> QED
    BY <1>4, <1>6
<1> DEFINE from == CHOOSE from : from =
             [i \in 0..Len(body) |->
                LET p == Len(body) - i + 1
                IN  IF p + 1 > Len(body) THEN 0
                    ELSE IF body[p] = <<"key", key>> THEN p
                    ELSE IF p + 2 + SizeAt(body, p) > Len(body) THEN 0
                    ELSE from[i - 2 - SizeAt(body, p)]]
<1>8. from = [i \in 0..Len(body) |-> ScanStep(body, key, i, from)]
  BY <1>1, <1>7, Zenon DEF ScanStep
<1>9. RecordAt(body, key) = from[Len(body)]
  BY Zenon DEF RecordAt
<1> HIDE DEF from
<1>10. \A i \in 0..Len(body) : from[i] = ScanStep(body, key, i, from)
  <2> HIDE DEF ScanStep
  <2> QED
    BY <1>8
<1> QED
  BY <1>9, <1>10 DEF Scans

(* The body holds the first i records of the log, cut into cells by f.     *)
Holds(body, l, f, i) ==
  /\ body \in Seq(AnyCell) /\ l \in Seq(Records) /\ Trail(f, l) /\ i \in 0..Len(l)
  /\ Begins(f[i], body)

(* Where the j-th of them is.                                              *)
Place(body, l, f, j, o, z) ==
  /\ o \in Nat /\ z \in Nat \ {0} /\ Len(f[j]) = o + z + 2 /\ o + z + 2 <= Len(body)
  /\ \A x \in 1..z + 2 : body[o + x] = Record(l[j])[x]
  /\ body[o + 1] = <<"key", l[j].key>> /\ SizeAt(body, o + 1) = z

LEMMA RecordPlace ==
  ASSUME NEW body, NEW l, NEW f, NEW i, Holds(body, l, f, i), NEW j \in 1..i,
         NEW o, o = Len(f[j - 1]), NEW z, z = Len(l[j].blob)
  PROVE  Place(body, l, f, j, o, z)
<1>1. /\ body \in Seq(AnyCell) /\ l \in Seq(Records) /\ Trail(f, l) /\ i \in 0..Len(l)
      /\ Begins(f[i], body)
  BY DEF Holds
<1>2. PICK n, last : n = Len(l) /\ n \in Nat /\ last = Len(body) /\ last \in Nat
  <2>1. Len(l) \in Nat /\ Len(body) \in Nat
    BY <1>1
  <2> QED
    BY <2>1, Zenon
<1>3. j \in 1..n /\ l[j] \in Records /\ j \in 0..n /\ i \in j..n /\ i \in 0..n
  BY <1>1, <1>2
<1>4. /\ Len(f[j - 1]) \in Nat
      /\ f[j] \in Seq(AnyCell) /\ Len(f[j]) = Len(f[j - 1]) + Len(l[j].blob) + 2
      /\ \A x \in 1..Len(l[j].blob) + 2 : f[j][Len(f[j - 1]) + x] = Record(l[j])[x]
  <2>1. j \in 1..Len(l)
    BY <1>2, <1>3
  <2> QED
    <3>1. TrailStep(f, l, j)
      BY <1>1, <2>1, TrailRecord
    <3> QED
      BY ONLY <3>1, Zenon DEF TrailStep
<1>5. o \in Nat /\ z \in Nat \ {0} /\ Len(f[j]) = o + z + 2
      /\ \A x \in 1..z + 2 : f[j][o + x] = Record(l[j])[x]
  <2>1. Len(l[j].blob) \in Nat \ {0}
    BY <1>3, RecordParts
  <2> QED
    BY <1>4, <2>1
<1>6. PICK e : e = Len(f[i]) /\ e \in Nat
  <2>1. f[i] \in Seq(AnyCell)
    BY <1>1, <1>2, <1>3 DEF Trail
  <2>2. Len(f[i]) \in Nat
    BY <2>1
  <2> QED
    BY <2>2
<1>7. Len(f[j]) <= e /\ \A x \in 1..Len(f[j]) : f[i][x] = f[j][x]
  BY <1>1, <1>2, <1>3, <1>6, TrailGrows
<1>8. e <= last /\ \A x \in 1..e : body[x] = f[i][x]
  BY <1>1, <1>2, <1>6 DEF Begins
<1>9. o + z + 2 <= last
  BY ONLY <1>2, <1>5, <1>6, <1>7, <1>8
<1>10. \A x \in 1..z + 2 : body[o + x] = Record(l[j])[x]
  <2> SUFFICES ASSUME NEW x \in 1..z + 2
               PROVE  body[o + x] = Record(l[j])[x]
    OBVIOUS
  <2>1. PICK y : y = o + x /\ y \in 1..(o + z + 2)
    <3>1. o + x \in 1..(o + z + 2)
      BY ONLY <1>5, x \in 1..z + 2
    <3> QED
      BY <3>1, Zenon
  <2>2. y \in 1..Len(f[j]) /\ y \in 1..e
    BY ONLY <1>5, <1>6, <1>7, <2>1
  <2>3. f[j][y] = Record(l[j])[x]
    BY <1>5, <2>1
  <2> QED
    BY <1>7, <1>8, <2>1, <2>2, <2>3
<1>11. /\ Record(l[j])[1] = <<"key", l[j].key>>
       /\ Record(l[j])[2] = <<"size", Len(l[j].blob)>>
  BY <1>3, RecordParts
<1>12. body[o + 1] = <<"key", l[j].key>> /\ body[o + 2] = <<"size", z>>
  <2>1. 1 \in 1..z + 2 /\ 2 \in 1..z + 2
    BY <1>5
  <2> QED
    BY <1>10, <1>11, <2>1
<1>13. SizeAt(body, o + 1) = z
  <2>1. PICK p : p = o + 1 /\ p + 1 = o + 2
    BY <1>5
  <2>2. body[p + 1] = <<"size", z>>
    BY <1>12, <2>1
  <2>3. SizeAt(body, p) = z
    BY <2>2 DEF SizeAt
  <2> QED
    BY <2>1, <2>3
<1> QED
  BY <1>2, <1>5, <1>9, <1>10, <1>12, <1>13 DEF Place

(* A scan passes over the records of other keys.                           *)
LEMMA ScanPasses ==
  ASSUME NEW body, NEW l, NEW f, NEW i, Holds(body, l, f, i), NEW key, NEW g, Scans(g, body, key),
         \A j \in 1..i : l[j].key # key
  PROVE  IF Len(f[i]) < Len(body) THEN g[Len(body)] = g[Len(body) - Len(f[i])]
         ELSE g[Len(body)] = 0
<1>1. /\ body \in Seq(AnyCell) /\ l \in Seq(Records) /\ Trail(f, l) /\ i \in 0..Len(l)
  BY DEF Holds
<1>2. PICK n, last : n = Len(l) /\ n \in Nat /\ last = Len(body) /\ last \in Nat
  <2>1. Len(l) \in Nat /\ Len(body) \in Nat
    BY <1>1
  <2> QED
    BY <2>1, Zenon
<1> DEFINE Passed(j) == IF Len(f[j]) < last THEN g[last] = g[last - Len(f[j])] ELSE g[last] = 0
           good == {j \in 0..i : Passed(j)}
<1>3. i \in Nat /\ i <= n
  BY <1>1, <1>2
<1>4. \A k \in 0..last : g[k] = ScanStep(body, key, k, g)
  BY <1>2 DEF Scans
<1>5. 0 \in good
  <2>1. Len(f[0]) = 0
    BY <1>1 DEF Trail
  <2>2. CASE last = 0
    <3>1. ScanStep(body, key, 0, g) = 0
      BY <1>2, <2>2 DEF ScanStep
    <3> QED
      BY <1>3, <1>4, <2>1, <2>2, <3>1
  <2>3. CASE last # 0
    <3>1. last - Len(f[0]) = last /\ Len(f[0]) < last
      BY <1>2, <2>1, <2>3
    <3> QED
      BY <1>3, <3>1
  <2> QED
    BY <2>2, <2>3
<1>6. ASSUME NEW j \in 1..i, j - 1 \in good
      PROVE  j \in good
  <2>1. PICK o, z : o = Len(f[j - 1]) /\ z = Len(l[j].blob)
    OBVIOUS
  <2>2. /\ o \in Nat /\ z \in Nat \ {0} /\ Len(f[j]) = o + z + 2 /\ o + z + 2 <= last
        /\ body[o + 1] = <<"key", l[j].key>> /\ SizeAt(body, o + 1) = z
    <3>1. Len(body) = last /\ j \in 1..i
      BY <1>2
    <3>2. Place(body, l, f, j, o, z)
      BY <2>1, <3>1, RecordPlace
    <3> QED
      BY <3>1, <3>2 DEF Place
  <2>3. PICK k, p : k = last - o /\ p = o + 1 /\ k \in 0..last /\ p = last - k + 1
    BY <1>2, <2>2
  <2>4. g[last] = g[k]
    <3>1. Passed(j - 1)
      BY <1>6
    <3>2. o < last
      BY ONLY <1>2, <2>2
    <3>3. Len(f[j - 1]) < last
      BY <2>1, <3>2
    <3> QED
      BY <2>1, <2>3, <3>1, <3>3
  <2>5. body[p] # <<"key", key>> /\ SizeAt(body, p) = z /\ p + 1 <= last
    <3>1. l[j].key # key
      OBVIOUS
    <3> QED
      BY <1>2, <2>2, <2>3, <3>1
  <2>6. g[k] = IF p + 2 + z > last THEN 0 ELSE g[k - 2 - z]
    <3>1. g[k] = ScanStep(body, key, k, g)
      BY <1>4, <2>3
    <3> QED
      BY <1>2, <2>2, <2>3, <2>5, <3>1 DEF ScanStep
  <2>7. PICK e : e = Len(f[j]) /\ e = o + z + 2
    BY <2>2
  <2>8. /\ p + 2 + z > last <=> ~(e < last)
        /\ k - 2 - z = last - e
    BY <1>2, <2>2, <2>3, <2>7
  <2>9. IF e < last THEN g[last] = g[last - e] ELSE g[last] = 0
    BY <2>4, <2>6, <2>8
  <2>10. Passed(j)
    BY <2>7, <2>9
  <2> QED
    BY <2>10
<1>7. i \in good
  <2>1. i \in 0..i
    BY <1>3
  <2>2. \A j \in 0..i : j \in good
    <3> HIDE DEF good
    <3> QED
      BY <1>3, <1>5, <1>6, Climb
  <2> QED
    BY <2>1, <2>2
<1> QED
  BY <1>2, <1>7

(* It stops at the first of its key.                                       *)
LEMMA ScanFinds ==
  ASSUME NEW body, NEW l, NEW f, NEW i, Holds(body, l, f, i), i # 0,
         \A j \in 1..(i - 1) : l[j].key # l[i].key
  PROVE  RecordAt(body, l[i].key) = Len(f[i - 1]) + 1
<1>1. /\ body \in Seq(AnyCell) /\ l \in Seq(Records) /\ Trail(f, l) /\ i \in 0..Len(l)
      /\ Begins(f[i], body)
  BY DEF Holds
<1>2. PICK last : last = Len(body) /\ last \in Nat
  BY <1>1
<1>3. PICK o, z, key : o = Len(f[i - 1]) /\ z = Len(l[i].blob) /\ key = l[i].key
  OBVIOUS
<1>4. i \in 1..i
  BY <1>1
<1>5. /\ o \in Nat /\ z \in Nat \ {0} /\ Len(f[i]) = o + z + 2 /\ o + z + 2 <= last
      /\ body[o + 1] = <<"key", key>>
  <2>1. Place(body, l, f, i, o, z)
    BY <1>3, <1>4, RecordPlace
  <2> QED
    BY <1>2, <1>3, <2>1 DEF Place
<1>6. Holds(body, l, f, i - 1)
  <2>1. PICK h : h = i - 1 /\ h \in 0..Len(l) /\ i \in h..Len(l)
    BY <1>1, <1>4
  <2>2. Len(f[h]) <= Len(f[i]) /\ \A x \in 1..Len(f[h]) : f[i][x] = f[h][x]
    BY ONLY <1>1, <2>1, TrailGrows
  <2>3. Len(f[i]) <= last /\ \A x \in 1..Len(f[i]) : body[x] = f[i][x]
    BY <1>1, <1>2 DEF Begins
  <2>4. Len(f[h]) <= last /\ \A x \in 1..Len(f[h]) : body[x] = f[h][x]
    <3>1. PICK a, b : a = Len(f[h]) /\ b = Len(f[i])
      OBVIOUS
    <3>2. a \in Nat /\ b \in Nat
      <4>1. a \in Nat
        BY <1>3, <1>5, <2>1, <3>1
      <4>2. b = o + z + 2
        BY <1>5, <3>1
      <4> QED
        BY ONLY <1>5, <4>1, <4>2
    <3>3. a <= b /\ b <= last /\ \A x \in 1..a : f[i][x] = f[h][x]
      BY <2>2, <2>3, <3>1
    <3>4. \A x \in 1..b : body[x] = f[i][x]
      BY <2>3, <3>1
    <3>5. a <= last /\ \A x \in 1..a : body[x] = f[h][x]
      BY ONLY <1>2, <3>2, <3>3, <3>4
    <3> QED
      BY <3>1, <3>5
  <2> QED
    BY <1>1, <1>2, <2>1, <2>4 DEF Holds, Begins
<1>7. PICK g : Scans(g, body, key)
  BY <1>1, ScanWalk
<1>8. g[last] = g[last - o]
  <2>1. o < last
    BY <1>2, <1>5
  <2>2. IF Len(f[i - 1]) < Len(body) THEN g[Len(body)] = g[Len(body) - Len(f[i - 1])]
        ELSE g[Len(body)] = 0
    BY <1>3, <1>6, <1>7, ScanPasses
  <2> QED
    BY <1>2, <1>3, <2>1, <2>2
<1>9. PICK k, p : k = last - o /\ p = o + 1 /\ k \in 0..last /\ p = last - k + 1 /\ p + 1 <= last
  BY <1>2, <1>5
<1>10. g[k] = p
  <2>1. g[k] = ScanStep(body, key, k, g) /\ body[p] = <<"key", key>>
    BY <1>2, <1>5, <1>7, <1>9 DEF Scans
  <2> QED
    BY <1>2, <1>9, <2>1 DEF ScanStep
<1>11. RecordAt(body, key) = g[last]
  BY <1>2, <1>7 DEF Scans
<1> QED
  BY <1>3, <1>8, <1>9, <1>10, <1>11

(* The file begins with the records that are whole on disk.                *)
LEMMA DiskHolds ==
  ASSUME IsolationInv, StoreInv, NEW f, Trail(f, log), NEW i \in OnDisk
  PROVE  i \in 1..Len(log) /\ Holds(disk.body, log, f, i)
<1>1. PICK n, d : n = Len(log) /\ d = Len(disk.body)
  OBVIOUS
<1>2. n \in Nat /\ d \in Nat /\ log \in Seq(Records) /\ disk.body \in Seq(AnyCell)
  BY <1>1, FileTyped DEF StoreInv
<1>3. i \in 1..n /\ Len(f[i]) <= d
  <2>1. OnDisk = {x \in 1..n : Len(f[x]) <= d}
    BY <1>1, <1>2, OnDiskFirst
  <2> QED
    BY <2>1
<1>4. i \in 0..n /\ n \in i..n
  BY <1>2, <1>3
<1>5. Len(f[i]) <= Len(f[n]) /\ \A x \in 1..Len(f[i]) : f[n][x] = f[i][x]
  BY <1>1, <1>2, <1>4, TrailGrows
<1>6. Cells(log) = f[n]
  BY <1>1, <1>2, CellsWhole
<1>7. PICK a, b : a = Len(f[i]) /\ b = Len(f[n]) /\ a \in Nat /\ b \in Nat
  <2>1. f[i] \in Seq(AnyCell) /\ f[n] \in Seq(AnyCell)
    BY <1>1, <1>2, <1>4 DEF Trail
  <2>2. Len(f[i]) \in Nat /\ Len(f[n]) \in Nat
    BY <2>1
  <2> QED
    BY <2>2, Zenon
<1>8. \A x \in 1..a : disk.body[x] = f[i][x]
  <2> SUFFICES ASSUME NEW x \in 1..a
               PROVE  disk.body[x] = f[i][x]
    OBVIOUS
  <2>1. x \in 1..b /\ x \in 1..d
    BY <1>1, <1>2, <1>3, <1>5, <1>7
  <2>2. f[n][x] = f[i][x]
    BY <1>5, <1>7
  <2>3. CASE harm = "torn"
    <3>1. Begins(f[n], disk.body \o buffer)
      BY <1>6, <2>3 DEF StoreInv
    <3>2. x \in 1..Len(f[n]) /\ x \in 1..Len(disk.body)
      BY <1>1, <1>7, <2>1
    <3>3. disk.body[x] = f[n][x]
      BY <3>1, <3>2, FileTyped, BeginsFirst
    <3> QED
      BY <2>2, <3>3
  <2>4. CASE harm # "torn"
    <3>1. PICK s, t : s = disk.body /\ t = buffer
      OBVIOUS
    <3>2. s \in Seq(AnyCell) /\ t \in Seq(AnyCell) /\ Len(s) = d /\ Len(t) \in Nat
      BY <1>1, <3>1, FileTyped
    <3>3. f[n] = s \o t
      BY <1>6, <2>4, <3>1 DEF StoreInv
    <3>4. \A y \in 1..Len(s) + Len(t) : (s \o t)[y] = IF y <= Len(s) THEN s[y] ELSE t[y - Len(s)]
      BY <3>2, ConcatProperties
    <3>5. x \in 1..Len(s) + Len(t) /\ x <= Len(s)
      BY <1>2, <2>1, <3>2
    <3>6. (s \o t)[x] = s[x]
      BY <3>4, <3>5
    <3> QED
      BY <2>2, <3>1, <3>3, <3>6
  <2> QED
    BY <2>3, <2>4
<1>9. Begins(f[i], disk.body)
  BY <1>1, <1>3, <1>7, <1>8 DEF Begins
<1> QED
  BY <1>1, <1>2, <1>3, <1>4, <1>9 DEF Holds

LEMMA LookupFinds ==
  ASSUME IsolationInv, StoreInv, NEW i \in OnDisk, FirstOfKey(i)
  PROVE  Lookup(log[i].key, MaxCells) =
           [size |-> Len(log[i].blob), copied |-> SubSeq(Record(log[i]), 3, Len(Record(log[i])))]
<1>1. PICK f : Trail(f, log)
  BY TrailExists DEF StoreInv
<1>2. i \in 1..Len(log) /\ Holds(disk.body, log, f, i)
  BY <1>1, DiskHolds
<1>3. PICK body, d : body = disk.body /\ d = Len(body) /\ d \in Nat /\ body \in Seq(AnyCell)
  BY FileTyped
<1>4. PICK r, o, z : r = log[i] /\ o = Len(f[i - 1]) /\ z = Len(log[i].blob)
  OBVIOUS
<1>5. r \in Records /\ log \in Seq(Records) /\ Len(log) \in Nat
  BY <1>2, <1>4 DEF StoreInv
<1>6. RecordAt(body, r.key) = o + 1
  <2>1. i # 0 /\ \A j \in 1..(i - 1) : log[j].key # log[i].key
    BY <1>2, <1>5 DEF FirstOfKey
  <2>2. Holds(body, log, f, i)
    BY <1>2, <1>3
  <2>3. RecordAt(body, log[i].key) = Len(f[i - 1]) + 1
    BY ONLY <2>1, <2>2, ScanFinds
  <2> QED
    BY <1>4, <2>3, Zenon
<1>7. /\ o \in Nat /\ z \in Nat \ {0} /\ o + z + 2 <= d
      /\ \A x \in 1..z + 2 : body[o + x] = Record(r)[x]
      /\ SizeAt(body, o + 1) = z
  <2>1. i \in 1..i
    BY <1>2
  <2>2. Place(body, log, f, i, o, z)
    BY <1>2, <1>3, <1>4, <2>1, RecordPlace
  <2> QED
    BY <1>3, <1>4, <2>2 DEF Place
<1>8. d <= MaxCells /\ MaxCells \in Nat
  <2>1. Len(disk.body) + Len(buffer) <= MaxCells
    BY DEF IsolationInv
  <2>2. d + Len(buffer) <= MaxCells /\ Len(buffer) \in Nat
    BY <1>3, <2>1, FileTyped
  <2> QED
    BY ONLY <1>3, <2>2, CacheAssumption
<1>9. PICK p : p = o + 1 /\ p # 0 /\ p + 1 + z <= d /\ p + 1 + z = o + z + 2 /\ p + 2 = o + 3
  BY <1>7
<1>10. Lookup(r.key, MaxCells) = [size |-> z, copied |-> SubSeq(body, p + 2, p + 1 + z)]
  <2>1. ~(z > MaxCells)
    BY <1>3, <1>7, <1>8
  <2> QED
    BY <1>3, <1>6, <1>7, <1>9, <2>1 DEF Lookup
<1>11. PICK c : c = Record(r) /\ c \in Seq(AnyCell) /\ Len(c) = z + 2
  BY <1>4, <1>5, RecordParts
<1>12. SubSeq(body, p + 2, p + 1 + z) = SubSeq(c, 3, z + 2)
  <2>1. PICK u, v : u = SubSeq(body, o + 3, o + z + 2) /\ v = SubSeq(c, 3, z + 2)
    OBVIOUS
  <2>2. /\ o + 3 \in Int /\ o + z + 2 \in Int /\ \A x \in (o + 3)..(o + z + 2) : body[x] \in AnyCell
    BY <1>3, <1>7
  <2>3. /\ 3 \in Int /\ z + 2 \in Int /\ \A x \in 3..(z + 2) : c[x] \in AnyCell
    BY <1>7, <1>11
  <2>4. /\ u \in Seq(AnyCell) /\ Len(u) = z
        /\ \A x \in 1..z : u[x] = body[o + (x + 2)]
    <3>1. /\ u \in Seq(AnyCell)
          /\ Len(u) = IF o + 3 <= o + z + 2 THEN (o + z + 2) - (o + 3) + 1 ELSE 0
          /\ \A x \in 1..((o + z + 2) - (o + 3) + 1) : u[x] = body[(o + 3) + x - 1]
      BY ONLY <2>1, <2>2, SubSeqProperties
    <3>2. (o + z + 2) - (o + 3) + 1 = z /\ o + 3 <= o + z + 2
      BY ONLY <1>7
    <3>3. \A x \in 1..z : (o + 3) + x - 1 = o + (x + 2)
      BY ONLY <1>7
    <3> QED
      BY ONLY <3>1, <3>2, <3>3
  <2>5. /\ v \in Seq(AnyCell) /\ Len(v) = z
        /\ \A x \in 1..z : v[x] = c[x + 2]
    <3>1. /\ v \in Seq(AnyCell)
          /\ Len(v) = IF 3 <= z + 2 THEN (z + 2) - 3 + 1 ELSE 0
          /\ \A x \in 1..((z + 2) - 3 + 1) : v[x] = c[3 + x - 1]
      BY ONLY <2>1, <2>3, SubSeqProperties
    <3>2. (z + 2) - 3 + 1 = z /\ 3 <= z + 2
      BY ONLY <1>7
    <3>3. \A x \in 1..z : 3 + x - 1 = x + 2
      BY ONLY <1>7
    <3> QED
      BY ONLY <3>1, <3>2, <3>3
  <2>6. \A x \in 1..z : u[x] = v[x]
    <3> SUFFICES ASSUME NEW x \in 1..z
                 PROVE  u[x] = v[x]
      OBVIOUS
    <3>1. PICK y : y = x + 2 /\ y \in 1..z + 2
      BY <1>7
    <3>2. u[x] = body[o + y] /\ v[x] = c[y] /\ body[o + y] = c[y]
      BY <1>7, <1>11, <2>4, <2>5, <3>1
    <3> QED
      BY <3>2
  <2>7. u = v
    BY <2>4, <2>5, <2>6, SeqEqual
  <2> QED
    BY <1>9, <2>1, <2>7
<1> QED
  BY <1>4, <1>10, <1>11, <1>12

LEMMA LookupMisses ==
  ASSUME IsolationInv, StoreInv, phase = "closed", harm # "torn", NEW k,
         \A i \in OnDisk : log[i].key # k
  PROVE  Lookup(k, MaxCells).size = 0
<1>1. PICK f : Trail(f, log)
  BY TrailExists DEF StoreInv
<1>2. PICK n, body : n = Len(log) /\ body = disk.body
  OBVIOUS
<1>3. log \in Seq(Records) /\ n \in Nat /\ body \in Seq(AnyCell) /\ Len(body) \in Nat
  BY <1>2, FileTyped DEF StoreInv
<1>4. body = f[n]
  <2>1. body \o << >> = body /\ buffer = << >>
    BY <1>2, FileTyped, ConcatEmptySeq DEF IsolationInv
  <2>2. body \o buffer = Cells(log)
    BY <1>2 DEF StoreInv
  <2> QED
    BY <1>1, <1>2, <1>3, <2>1, <2>2, CellsWhole
<1>5. Holds(body, log, f, n)
  BY <1>1, <1>2, <1>3, <1>4 DEF Holds, Begins
<1>6. \A j \in 1..n : log[j].key # k
  <2> SUFFICES ASSUME NEW j \in 1..n
               PROVE  j \in OnDisk
    OBVIOUS
  <2>1. Len(f[j]) <= Len(f[n])
    <3>1. j \in 0..Len(log) /\ n \in j..Len(log)
      BY <1>2, <1>3
    <3> QED
      BY <1>1, <1>3, <3>1, TrailGrows
  <2>2. OnDisk = {x \in 1..n : Len(f[x]) <= Len(disk.body)}
    BY <1>1, <1>2, <1>3, OnDiskFirst
  <2> QED
    BY <1>2, <1>4, <2>1, <2>2
<1>7. PICK g : Scans(g, body, k)
  BY <1>3, ScanWalk
<1>8. g[Len(body)] = 0
  <2>1. IF Len(f[n]) < Len(body) THEN g[Len(body)] = g[Len(body) - Len(f[n])]
        ELSE g[Len(body)] = 0
    BY <1>5, <1>6, <1>7, ScanPasses
  <2> QED
    BY <1>3, <1>4, <2>1
<1>9. RecordAt(disk.body, k) = 0
  BY <1>2, <1>7, <1>8 DEF Scans
<1> QED
  BY <1>9 DEF Lookup

(* Lookup finds every record that has reached the file, with its size and  *)
(* its whole blob, past any number of others, reopens and torn ends; and   *)
(* nothing else in a file that was closed (shadercache_lookup, insert).    *)
THEOREM WhatIsStoredIsFound == Spec => []StoredIsFound
<1>1. IsolationInv /\ StoreInv => StoredIsFound
  <2> SUFFICES ASSUME IsolationInv, StoreInv
               PROVE  StoredIsFound
    OBVIOUS
  <2>1. \A i \in OnDisk :
          FirstOfKey(i) =>
            Lookup(log[i].key, MaxCells) =
              [size |-> Len(log[i].blob), copied |-> SubSeq(Record(log[i]), 3, Len(Record(log[i])))]
    BY LookupFinds
  <2>2. phase = "closed" /\ harm # "torn" =>
          \A k \in Keys : Lookup(k, MaxCells).size # 0 => \E i \in OnDisk : log[i].key = k
    BY LookupMisses
  <2> QED
    BY <2>1, <2>2 DEF StoredIsFound
<1> QED
  BY <1>1, CacheInvariant, StoreAlways, PTL
=============================================================================
