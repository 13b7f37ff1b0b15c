---------------------------- MODULE ProcessProofs ----------------------------
(***************************************************************************)
(* What holds of the components of one process, each for every value of    *)
(* its constants, as theorems of their composition.                        *)
(***************************************************************************)
EXTENDS CellarProcess, LaunchProofs

(* A step of the process is one of each component or leaves it alone.      *)
LEMMA StepsApart ==
  ASSUME [Next]_vars
  PROVE  /\ [ComNext]_comVars /\ [WaveNext]_waveVars /\ [ServiceStep]_serviceVars
         /\ [DeviceStep]_deviceVars /\ [NotifyStep]_notifyVars
         /\ [SampleStep]_sampleVars /\ [FrameStep]_frameVars /\ [BackendStep]_backendVars
         /\ [AccessStep]_accessVars /\ [RegStep]_regVars /\ [ProfileStep]_profileVars
         /\ [LoaderStep]_loaderVars /\ [ImageStep]_imageVars /\ [PrintStep]_printVars
         /\ [AnalysisStep]_analysisVars /\ [DoctorStep]_doctorVars /\ [DiagnoseStep]_diagnoseVars
         /\ [DbStep]_dbVars /\ [NodeStep]_nodeVars /\ [DesktopStep]_desktopVars
         /\ [LocaleStep]_localeVars /\ [ShellStep]_shellVars
<1>1. CASE UNCHANGED vars
  BY <1>1 DEF vars, sessionVars, hostVars, printVars, comVars, waveVars, serviceVars, deviceVars,
              notifyVars, sampleVars, frameVars, backendVars, accessVars, regVars, profileVars,
              loaderVars, imageVars, analysisVars, doctorVars, diagnoseVars, dbVars, nodeVars,
              desktopVars, localeVars, shellVars
<1>2. CASE Next
  <2>1. OthersUnchanged
    BY <1>2 DEF Next
  <2>2. [ComNext]_comVars
    BY <1>2, <2>1, Zenon DEF Next, OthersUnchanged, Leave
  <2>3. [WaveNext]_waveVars
    BY <1>2, <2>1, Zenon DEF Next, OthersUnchanged, Leave
  <2>4. [ServiceStep]_serviceVars
    BY <1>2, <2>1, Zenon DEF Next, OthersUnchanged, Leave
  <2>5. [DeviceStep]_deviceVars
    BY <1>2, <2>1, Zenon DEF Next, OthersUnchanged, Leave
  <2>6. [SampleStep]_sampleVars
    BY <1>2, <2>1, Zenon DEF Next, OthersUnchanged, Leave
  <2>7. [BackendStep]_backendVars
    BY <1>2, <2>1, Zenon DEF Next, OthersUnchanged, Leave
  <2>8. [AccessStep]_accessVars
    BY <1>2, <2>1, Zenon DEF Next, OthersUnchanged, Leave
  <2>9. [RegStep]_regVars
    BY <1>2, <2>1, Zenon DEF Next, OthersUnchanged, Leave
  <2>10. [ProfileStep]_profileVars
    BY <1>2, <2>1, Zenon DEF Next, OthersUnchanged, Leave
  <2>11. [LoaderStep]_loaderVars
    BY <1>2, <2>1, Zenon DEF Next, OthersUnchanged, Leave
  <2>12. [ImageStep]_imageVars
    BY <1>2, <2>1, Zenon DEF Next, OthersUnchanged, Leave
  <2>13. [PrintStep]_printVars
    BY <1>2, <2>1, Zenon DEF Next, OthersUnchanged, Leave
  <2>14. [NotifyStep]_notifyVars
    BY <1>2, <2>1, Zenon DEF Next, OthersUnchanged, Leave
  <2>15. [FrameStep]_frameVars
    BY <1>2, <2>1, Zenon DEF Next, OthersUnchanged, Leave
  <2>16. [AnalysisStep]_analysisVars
    BY <1>2, <2>1, Zenon DEF Next, OthersUnchanged, Leave
  <2>17. [DoctorStep]_doctorVars
    BY <1>2, <2>1, Zenon DEF Next, OthersUnchanged, Leave
  <2>18. [DiagnoseStep]_diagnoseVars
    BY <1>2, <2>1, Zenon DEF Next, OthersUnchanged, Leave
  <2>19. [DbStep]_dbVars
    BY <1>2, <2>1, Zenon DEF Next, OthersUnchanged, Leave
  <2>20. [NodeStep]_nodeVars
    BY <1>2, <2>1, Zenon DEF Next, OthersUnchanged, Leave
  <2>21. [DesktopStep]_desktopVars
    BY <1>2, <2>1, Zenon DEF Next, OthersUnchanged, Leave
  <2>22. [LocaleStep]_localeVars
    BY <1>2, <2>1, Zenon DEF Next, OthersUnchanged, Leave
  <2>23. [ShellStep]_shellVars
    BY <1>2, <2>1, Zenon DEF Next, OthersUnchanged, Leave
  <2> QED
    BY <2>2, <2>3, <2>4, <2>5, <2>6, <2>7, <2>8, <2>9, <2>10, <2>11, <2>12, <2>13, <2>14, <2>15,
       <2>16, <2>17, <2>18, <2>19, <2>20, <2>21, <2>22, <2>23
<1> QED
  BY <1>1, <1>2

-----------------------------------------------------------------------------
(* com.c: the counts of objects.  The types say that no thread owns more   *)
(* references than can be numbered.                                        *)
Counted(o) ==
  IF o \in live THEN refs[o] = Claims(o) + unclaimed[o] /\ refs[o] > 0 ELSE Claims(o) = 0

RefInv ==
  /\ refs \in [Objects -> Nat] /\ live \subseteq Objects
  /\ buffer \in Objects \cup {NoObject}
  /\ held \in [ComThreads -> [Objects -> 0..MaxHeld]]
  /\ unclaimed \in [Objects -> 0..1]
  /\ \A o \in Objects : Counted(o)

LEMMA HoldingsFinite ==
  ASSUME NEW o \in Objects
  PROVE  IsFiniteSet(Holdings(o)) /\ Cardinality(Holdings(o)) \in Nat
<1>1. IsFiniteSet(1..MaxHeld) /\ IsFiniteSet(ComThreads)
  BY FS_Interval, ComAssumption
<1>2. IsFiniteSet(ComThreads \X (1..MaxHeld))
  BY <1>1, FS_Product
<1>3. Holdings(o) \subseteq ComThreads \X (1..MaxHeld)
  BY DEF Holdings
<1>4. IsFiniteSet(Holdings(o))
  BY <1>2, <1>3, FS_Subset
<1> QED
  BY <1>4, FS_CardinalityType

LEMMA ClaimsNumber ==
  ASSUME NEW o \in Objects
  PROVE  /\ Claims(o) \in Nat
         /\ buffer = o => Claims(o) > 0
         /\ Claims(o) = 0 => Holdings(o) = {} /\ buffer # o
<1>1. Cardinality(Holdings(o)) \in Nat /\ IsFiniteSet(Holdings(o))
  BY HoldingsFinite
<1>2. Cardinality(Holdings(o)) = 0 => Holdings(o) = {}
  BY <1>1, FS_EmptySet
<1> QED
  BY <1>1, <1>2 DEF Claims

(* Who owns a reference is one of those who claim the object.              *)
LEMMA OwnerClaims ==
  ASSUME RefInv, NEW t \in ComThreads, NEW o \in Objects, held[t][o] > 0
  PROVE  Claims(o) > 0 /\ o \in live
<1>1. held[t][o] \in 1..MaxHeld
  BY ComAssumption DEF RefInv
<1>2. <<t, 1>> \in Holdings(o)
  BY <1>1, ComAssumption DEF Holdings
<1> QED
  BY <1>2, ClaimsNumber DEF RefInv, Counted

(* One reference more is one holding more, and of this object only.        *)
LEMMA OwnMore ==
  ASSUME RefInv, NEW t \in ComThreads, NEW o \in Objects,
         held[t][o] < MaxHeld, Own(t, o, 1)
  PROVE  /\ held' \in [ComThreads -> [Objects -> 0..MaxHeld]]
         /\ Cardinality(Holdings(o)') = Cardinality(Holdings(o)) + 1
         /\ \A p \in Objects \ {o} : Holdings(p)' = Holdings(p)
<1> DEFINE n == held[t][o]
           h == <<t, n + 1>>
<1>1. n \in 0..MaxHeld /\ MaxHeld \in Nat /\ held \in [ComThreads -> [Objects -> 0..MaxHeld]]
  BY ComAssumption DEF RefInv
<1>2. held' = [held EXCEPT ![t][o] = n + 1]
  BY DEF Own
<1>3. held' \in [ComThreads -> [Objects -> 0..MaxHeld]]
  BY <1>1, <1>2
<1>4. /\ held'[t][o] = n + 1
      /\ \A u \in ComThreads : u # t => held'[u][o] = held[u][o]
      /\ \A u \in ComThreads, p \in Objects : p # o => held'[u][p] = held[u][p]
  BY <1>1, <1>2
<1>5. h \in ComThreads \X (1..MaxHeld) /\ h \notin Holdings(o)
  BY <1>1 DEF Holdings
<1>6. Holdings(o)' = Holdings(o) \cup {h}
  <2>1. ASSUME NEW u \in ComThreads, NEW k \in 1..MaxHeld
        PROVE  k <= held'[u][o] <=> k <= held[u][o] \/ <<u, k>> = h
    <3>1. CASE u = t
      BY <1>1, <1>4, <3>1, SMTT(40)
    <3>2. CASE u # t
      BY <1>4, <3>2
    <3> QED
      BY <3>1, <3>2
  <2>2. Holdings(o)' = {g \in ComThreads \X (1..MaxHeld) : g[2] <= held'[g[1]][o]}
    BY DEF Holdings
  <2> QED
    BY <1>5, <2>1, <2>2 DEF Holdings
<1>7. Cardinality(Holdings(o)') = Cardinality(Holdings(o)) + 1
  BY <1>5, <1>6, HoldingsFinite, FS_AddElement
<1>8. ASSUME NEW p \in Objects \ {o}
      PROVE  Holdings(p)' = Holdings(p)
  <2>1. Holdings(p)' = {g \in ComThreads \X (1..MaxHeld) : g[2] <= held'[g[1]][p]}
    BY DEF Holdings
  <2> QED
    BY <1>4, <2>1 DEF Holdings
<1> QED
  BY <1>3, <1>7, <1>8

(* One reference less, likewise.                                           *)
LEMMA OwnLess ==
  ASSUME RefInv, NEW t \in ComThreads, NEW o \in Objects,
         held[t][o] > 0, Own(t, o, -1)
  PROVE  /\ held' \in [ComThreads -> [Objects -> 0..MaxHeld]]
         /\ Cardinality(Holdings(o)') = Cardinality(Holdings(o)) - 1
         /\ \A p \in Objects \ {o} : Holdings(p)' = Holdings(p)
<1> DEFINE n == held[t][o]
           h == <<t, n>>
<1>1. n \in 1..MaxHeld /\ MaxHeld \in Nat /\ held \in [ComThreads -> [Objects -> 0..MaxHeld]]
  BY ComAssumption DEF RefInv
<1>2. held' = [held EXCEPT ![t][o] = n - 1]
  BY <1>1 DEF Own
<1>3. held' \in [ComThreads -> [Objects -> 0..MaxHeld]]
  BY <1>1, <1>2
<1>4. /\ held'[t][o] = n - 1
      /\ \A u \in ComThreads : u # t => held'[u][o] = held[u][o]
      /\ \A u \in ComThreads, p \in Objects : p # o => held'[u][p] = held[u][p]
  BY <1>1, <1>2
<1>5. h \in ComThreads \X (1..MaxHeld) /\ h \in Holdings(o)
  BY <1>1 DEF Holdings
<1>6. Holdings(o)' = Holdings(o) \ {h}
  <2>1. ASSUME NEW u \in ComThreads, NEW k \in 1..MaxHeld
        PROVE  k <= held'[u][o] <=> k <= held[u][o] /\ <<u, k>> # h
    <3>1. CASE u = t
      BY <1>1, <1>4, <3>1
    <3>2. CASE u # t
      BY <1>4, <3>2
    <3> QED
      BY <3>1, <3>2
  <2>2. Holdings(o)' = {g \in ComThreads \X (1..MaxHeld) : g[2] <= held'[g[1]][o]}
    BY DEF Holdings
  <2> QED
    BY <1>5, <2>1, <2>2 DEF Holdings
<1>7. Cardinality(Holdings(o)') = Cardinality(Holdings(o)) - 1
  <2>1. IsFiniteSet(Holdings(o))
    BY HoldingsFinite
  <2>2. Cardinality(Holdings(o) \ {h}) = Cardinality(Holdings(o)) - 1
    BY <1>5, <2>1, FS_RemoveElement
  <2> QED
    BY <1>6, <2>2
<1>8. ASSUME NEW p \in Objects \ {o}
      PROVE  Holdings(p)' = Holdings(p)
  <2>1. Holdings(p)' = {g \in ComThreads \X (1..MaxHeld) : g[2] <= held'[g[1]][p]}
    BY DEF Holdings
  <2> QED
    BY <1>4, <2>1 DEF Holdings
<1> QED
  BY <1>3, <1>7, <1>8

(* The claims after a step, from the holdings and the buffer.              *)
LEMMA ClaimsAfter ==
  ASSUME NEW o \in Objects
  PROVE  Claims(o)' = Cardinality(Holdings(o)') + (IF buffer' = o THEN 1 ELSE 0)
BY DEF Claims

LEMMA RefInit == ComInit => RefInv
<1> SUFFICES ASSUME ComInit
             PROVE  RefInv
  OBVIOUS
<1>1. /\ refs = [o \in Objects |-> 0] /\ live = {} /\ buffer = NoObject
      /\ held = [t \in ComThreads |-> [o \in Objects |-> 0]]
      /\ unclaimed = [o \in Objects |-> 0]
  BY DEF ComInit
<1>2. 0 \in 0..MaxHeld /\ 0 \in 0..1 /\ 0 \in Nat
  BY ComAssumption
<1>3. ASSUME NEW o \in Objects
      PROVE  Claims(o) = 0
  <2>1. Holdings(o) = {}
    BY <1>1, ComAssumption DEF Holdings
  <2> QED
    BY <1>1, <2>1, FS_EmptySet, ComAssumption DEF Claims
<1> QED
  BY <1>1, <1>2, <1>3 DEF RefInv, Counted

(* com_create: the object was nobody's.                                    *)
LEMMA RefCreate ==
  ASSUME RefInv, NEW t \in ComThreads, NEW c \in Classes,
         NEW iid \in {"none", "unknown", "other"}, ComCreate(t, c, iid)
  PROVE  RefInv'
<1>1. PICK o \in Objects \ live :
        /\ refs' = [refs EXCEPT ![o] = CASE iid = "unknown" -> 2 [] iid = "other" -> 0 [] OTHER -> 1]
        /\ live' = IF iid = "other" THEN live ELSE live \cup {o}
        /\ Own(t, o, IF iid = "other" THEN 0 ELSE 1)
        /\ unclaimed' = [unclaimed EXCEPT ![o] = IF iid = "unknown" THEN 1 ELSE 0]
  BY DEF ComCreate
<1>2. buffer' = buffer
  BY DEF ComCreate
<1>3. Claims(o) = 0 /\ Holdings(o) = {} /\ buffer # o
  BY ClaimsNumber DEF RefInv, Counted
<1>4. Cardinality(Holdings(o)) = 0
  BY <1>3, FS_EmptySet
<1>5. unclaimed' \in [Objects -> 0..1] /\ refs' \in [Objects -> Nat]
      /\ live' \subseteq Objects /\ buffer' \in Objects \cup {NoObject}
  <2>1. (IF iid = "unknown" THEN 1 ELSE 0) \in 0..1
        /\ (CASE iid = "unknown" -> 2 [] iid = "other" -> 0 [] OTHER -> 1) \in Nat
    OBVIOUS
  <2> QED
    BY <1>1, <1>2, <2>1 DEF RefInv
<1>6. \A p \in Objects \ {o} : refs'[p] = refs[p] /\ unclaimed'[p] = unclaimed[p] /\ (p \in live' <=> p \in live)
  BY <1>1 DEF RefInv
<1>7. CASE iid = "other"
  <2>1. held' = held
    <3>1. Own(t, o, 0)
      BY <1>1, <1>7
    <3>2. held \in [ComThreads -> [Objects -> 0..MaxHeld]] /\ held[t][o] + 0 = held[t][o]
      BY ComAssumption DEF RefInv
    <3> QED
      BY <3>1, <3>2 DEF Own
  <2>2. \A p \in Objects : Claims(p)' = Claims(p)
    BY <1>2, <2>1 DEF Claims, Holdings
  <2>3. live' = live
    BY <1>1, <1>7
  <2> QED
    BY <1>3, <1>5, <1>6, <2>1, <2>2, <2>3 DEF RefInv, Counted
<1>8. CASE iid # "other"
  <2>1. Own(t, o, 1) /\ live' = live \cup {o}
    BY <1>1, <1>8
  <2>2. held[t][o] < MaxHeld
    <3>1. ~(held[t][o] > 0)
      BY OwnerClaims
    <3> QED
      BY <3>1, ComAssumption DEF RefInv
  <2>3. /\ held' \in [ComThreads -> [Objects -> 0..MaxHeld]]
        /\ Cardinality(Holdings(o)') = 1
        /\ \A p \in Objects \ {o} : Holdings(p)' = Holdings(p)
    BY <1>4, <2>1, <2>2, OwnMore
  <2>4. Claims(o)' = 1
    BY <1>2, <1>3, <2>3, ClaimsAfter
  <2>5. \A p \in Objects \ {o} : Claims(p)' = Claims(p)
    BY <1>2, <2>3, ClaimsAfter DEF Claims
  <2>6. refs'[o] = 1 + unclaimed'[o] /\ refs'[o] > 0
    BY <1>1, <1>8 DEF RefInv
  <2>7. ASSUME NEW p \in Objects
        PROVE  Counted(p)'
    BY <1>6, <2>1, <2>4, <2>5, <2>6 DEF RefInv, Counted
  <2> QED
    BY <1>5, <2>3, <2>7 DEF RefInv
<1> QED
  BY <1>7, <1>8

(* AddRef and Marshal, Release: the count goes with the claims.            *)
LEMMA RefCount ==
  ASSUME RefInv, NEW o \in Objects, NEW d \in {-1, 1}, Count(o, d),
         o \in live, Claims(o)' = Claims(o) + d,
         \A p \in Objects \ {o} : Claims(p)' = Claims(p),
         held' \in [ComThreads -> [Objects -> 0..MaxHeld]],
         buffer' \in Objects \cup {NoObject}, unclaimed' = unclaimed,
         d = -1 => Claims(o) > 0
  PROVE  RefInv'
<1>1. /\ refs[o] = Claims(o) + unclaimed[o] /\ refs[o] > 0 /\ refs \in [Objects -> Nat]
      /\ Claims(o) \in Nat /\ unclaimed[o] \in 0..1
  BY ClaimsNumber DEF RefInv, Counted
<1>2. refs[o] + d \in Nat /\ refs' = [refs EXCEPT ![o] = refs[o] + d]
      /\ live' = IF refs[o] + d = 0 THEN live \ {o} ELSE live
  BY <1>1 DEF Count
<1>3. /\ refs' \in [Objects -> Nat] /\ refs'[o] = refs[o] + d
      /\ \A p \in Objects \ {o} : refs'[p] = refs[p] /\ (p \in live' <=> p \in live)
      /\ live' \subseteq Objects
  BY <1>1, <1>2 DEF RefInv
<1>4. Counted(o)'
  <2>1. CASE refs[o] + d = 0
    BY <1>1, <1>2, <2>1 DEF Counted
  <2>2. CASE refs[o] + d # 0
    BY <1>1, <1>2, <1>3, <2>2 DEF Counted
  <2> QED
    BY <2>1, <2>2
<1>5. ASSUME NEW p \in Objects
      PROVE  Counted(p)'
  <2>1. CASE p = o
    BY <1>4, <2>1
  <2>2. CASE p # o
    BY <1>3, <2>2 DEF RefInv, Counted
  <2> QED
    BY <2>1, <2>2
<1>6. unclaimed' \in [Objects -> 0..1]
  BY DEF RefInv
<1> QED
  BY <1>3, <1>5, <1>6 DEF RefInv

LEMMA RefAdd ==
  ASSUME RefInv, NEW t \in ComThreads, NEW o \in Objects, AddRef(t, o)
  PROVE  RefInv'
<1>1. /\ held[t][o] > 0 /\ held[t][o] < MaxHeld /\ Count(o, 1) /\ Own(t, o, 1)
      /\ buffer' = buffer /\ unclaimed' = unclaimed
  BY ComAssumption DEF AddRef, RefInv
<1>2. o \in live
  BY <1>1, OwnerClaims
<1>3. /\ held' \in [ComThreads -> [Objects -> 0..MaxHeld]]
      /\ Cardinality(Holdings(o)') = Cardinality(Holdings(o)) + 1
      /\ \A p \in Objects \ {o} : Holdings(p)' = Holdings(p)
  BY <1>1, OwnMore
<1>4. Claims(o)' = Claims(o) + 1
  BY <1>1, <1>3, ClaimsAfter, HoldingsFinite DEF Claims
<1>5. \A p \in Objects \ {o} : Claims(p)' = Claims(p)
  BY <1>1, <1>3, ClaimsAfter DEF Claims
<1>6. buffer' \in Objects \cup {NoObject}
  BY <1>1 DEF RefInv
<1> QED
  BY <1>1, <1>2, <1>3, <1>4, <1>5, <1>6, RefCount

LEMMA RefRelease ==
  ASSUME RefInv, NEW t \in ComThreads, NEW o \in Objects, Release(t, o)
  PROVE  RefInv'
<1>1. /\ held[t][o] > 0 /\ Count(o, -1) /\ Own(t, o, -1)
      /\ buffer' = buffer /\ unclaimed' = unclaimed
  BY DEF Release
<1>2. o \in live /\ Claims(o) > 0
  BY <1>1, OwnerClaims
<1>3. /\ held' \in [ComThreads -> [Objects -> 0..MaxHeld]]
      /\ Cardinality(Holdings(o)') = Cardinality(Holdings(o)) - 1
      /\ \A p \in Objects \ {o} : Holdings(p)' = Holdings(p)
  BY <1>1, OwnLess
<1>4. Claims(o)' = Claims(o) + (-1)
  BY <1>1, <1>3, ClaimsAfter, HoldingsFinite DEF Claims
<1>5. \A p \in Objects \ {o} : Claims(p)' = Claims(p)
  BY <1>1, <1>3, ClaimsAfter DEF Claims
<1>6. buffer' \in Objects \cup {NoObject}
  BY <1>1 DEF RefInv
<1> QED
  BY <1>1, <1>2, <1>3, <1>4, <1>5, <1>6, RefCount

(* marshal: the buffer was empty, and its reference is one more.           *)
LEMMA RefMarshal ==
  ASSUME RefInv, NEW t \in ComThreads, NEW o \in Objects, Marshal(t, o)
  PROVE  RefInv'
<1>1. /\ held[t][o] > 0 /\ buffer = NoObject /\ buffer' = o /\ Count(o, 1)
      /\ held' = held /\ unclaimed' = unclaimed
  BY DEF Marshal
<1>2. o \in live
  BY <1>1, OwnerClaims
<1>3. \A p \in Objects : Holdings(p)' = Holdings(p)
  BY <1>1 DEF Holdings
<1>4. Claims(o)' = Claims(o) + 1
  BY <1>1, <1>3, ClaimsAfter, HoldingsFinite, ComAssumption DEF Claims
<1>5. \A p \in Objects \ {o} : Claims(p)' = Claims(p)
  BY <1>1, <1>3, ClaimsAfter, ComAssumption DEF Claims
<1>6. held' \in [ComThreads -> [Objects -> 0..MaxHeld]]
  BY <1>1 DEF RefInv
<1> QED
  BY <1>1, <1>2, <1>4, <1>5, <1>6, RefCount

(* unmarshal: the reference goes from the buffer to the thread.            *)
LEMMA RefUnmarshal ==
  ASSUME RefInv, NEW t \in ComThreads, Unmarshal(t)
  PROVE  RefInv'
<1>0. buffer \in Objects
  BY DEF Unmarshal, RefInv
<1>2. PICK o \in Objects : buffer = o
  BY <1>0
<1>1. /\ o \in Objects /\ held[t][o] < MaxHeld /\ Own(t, o, 1) /\ buffer' = NoObject
      /\ refs' = refs /\ live' = live /\ unclaimed' = unclaimed
  BY <1>2 DEF Unmarshal
<1>3. /\ held' \in [ComThreads -> [Objects -> 0..MaxHeld]]
      /\ \A p \in Objects \ {o} : Holdings(p)' = Holdings(p)
  BY <1>1, OwnMore
<1>4. Cardinality(Holdings(o)') = Cardinality(Holdings(o)) + 1
  BY <1>1, OwnMore
<1>5. Claims(o)' = Claims(o)
  BY <1>1, <1>2, <1>4, HoldingsFinite, ComAssumption DEF Claims
<1>6. \A p \in Objects \ {o} : Claims(p)' = Claims(p)
  BY <1>1, <1>2, <1>3, ComAssumption DEF Claims
<1>7. \A p \in Objects : Claims(p)' = Claims(p)
  BY <1>5, <1>6
<1> QED
  BY <1>1, <1>3, <1>7 DEF RefInv, Counted

LEMMA RefStep == RefInv /\ [ComNext]_comVars => RefInv'
<1> SUFFICES ASSUME RefInv, [ComNext]_comVars
             PROVE  RefInv'
  OBVIOUS
<1>1. ASSUME UNCHANGED objects
      PROVE  RefInv'
  BY <1>1 DEF objects, RefInv, Counted, Claims, Holdings
<1>2. CASE UNCHANGED comVars
  BY <1>1, <1>2 DEF comVars, objects
<1>3. ASSUME NEW t \in ComThreads, NEW apt \in {"sta", "mta"}, ComInitialize(t, apt)
      PROVE  RefInv'
  BY <1>1, <1>3 DEF ComInitialize
<1>4. ASSUME NEW t \in ComThreads, ComUninitialize(t)
      PROVE  RefInv'
  BY <1>1, <1>4 DEF ComUninitialize
<1>5. ASSUME NEW c \in Classes, NEW f \in Factories, RegisterClass(c, f)
      PROVE  RefInv'
  BY <1>1, <1>5 DEF RegisterClass
<1> QED
  BY <1>2, <1>3, <1>4, <1>5, RefCreate, RefAdd, RefRelease, RefMarshal, RefUnmarshal, Zenon
     DEF ComNext

(* An object lives as long as somebody refers to it, and its count is that *)
(* of those who do, plus the reference of com_create that nobody gets: for *)
(* every finite set of threads, and in every marshalling between them.     *)
THEOREM ReferencesAccounted == Spec => []RefsAccounted
<1>1. RefInv => RefsAccounted
  BY ClaimsNumber DEF RefInv, Counted, RefsAccounted
<1>2. Init => RefInv
  BY RefInit DEF Init
<1>3. RefInv /\ [Next]_vars => RefInv'
  BY RefStep, StepsApart
<1> QED
  BY <1>1, <1>2, <1>3, PTL DEF Spec

-----------------------------------------------------------------------------
(* mod_winmm.c: the handles of the wave devices.                           *)
(* A client that has not closed its handle has one; without it, an open of *)
(* a new slot could not be told from an open of nothing.                   *)
PrivacyInv ==
  /\ open \in [1..Slots -> BOOLEAN] /\ handle \in [Clients -> 0..Slots]
  /\ mine \subseteq Clients /\ stray \in BOOLEAN
  /\ \A c \in mine : handle[c] # 0
  /\ HandlesPrivate

LEMMA PrivacyInit == WaveInit => PrivacyInv
<1> SUFFICES ASSUME WaveInit
             PROVE  PrivacyInv
  OBVIOUS
<1>1. /\ open = [s \in 1..Slots |-> FALSE] /\ handle = [c \in Clients |-> 0]
      /\ mine = {} /\ stray = FALSE
  BY Zenon DEF WaveInit
<1>2. 0 \in 0..Slots
  BY WaveAssumption
<1> QED
  BY <1>1, <1>2 DEF PrivacyInv, HandlesPrivate

(* The slot of an open was free, so it is nobody's.                        *)
LEMMA PrivacyOpen ==
  ASSUME PrivacyInv, NEW c \in Clients, WaveOpen(c)
  PROVE  PrivacyInv'
<1> DEFINE s == Min(FreeSlots)
<1>1. s \in 1..Slots /\ ~open[s]
  <2>1. FreeSlots \subseteq Nat /\ FreeSlots # {}
    BY WaveAssumption DEF FreeSlots, WaveOpen
  <2>2. s \in FreeSlots
    BY <2>1, MinIsMember
  <2> QED
    BY <2>2 DEF FreeSlots
<1>2. /\ open' = [open EXCEPT ![s] = TRUE]
      /\ handle' = [handle EXCEPT ![c] = s]
      /\ mine' = mine \cup {c} /\ stray' = stray
  BY DEF WaveOpen
<1> HIDE DEF s
<1>3. s \in 0..Slots /\ s # 0
  BY <1>1, WaveAssumption
<1>4. /\ open' \in [1..Slots -> BOOLEAN] /\ handle' \in [Clients -> 0..Slots]
      /\ mine' \subseteq Clients /\ stray' \in BOOLEAN
      /\ \A d \in mine' : handle'[d] # 0
  BY <1>2, <1>3 DEF PrivacyInv
<1>5. HandlesPrivate'
  <2> SUFFICES ASSUME ~stray, NEW d \in mine'
               PROVE  open'[handle'[d]] /\ \A e \in mine' \ {d} : handle'[d] # handle'[e]
    BY <1>2 DEF HandlesPrivate
  <2>1. \A e \in mine \ {c} :
          /\ handle'[e] = handle[e] /\ handle[e] \in 1..Slots
          /\ open[handle[e]] /\ handle[e] # s
    BY <1>1, <1>2, WaveAssumption DEF PrivacyInv, HandlesPrivate
  <2>2. handle'[c] = s /\ open'[s]
    BY <1>1, <1>2 DEF PrivacyInv
  <2>3. \A e \in mine \ {c} : open'[handle'[e]]
    BY <2>1, <1>2 DEF PrivacyInv
  <2>4. \A e \in mine \ {c} : \A f \in mine \ {e, c} : handle'[e] # handle'[f]
    BY <2>1 DEF PrivacyInv, HandlesPrivate
  <2> QED
    BY <1>2, <2>1, <2>2, <2>3, <2>4
<1> QED
  BY <1>4, <1>5 DEF PrivacyInv

(* A close by its owner closes a slot that no other client holds; any      *)
(* other close is a stray use.                                             *)
LEMMA PrivacyClose ==
  ASSUME PrivacyInv, NEW c \in Clients, WaveClose(c)
  PROVE  PrivacyInv'
<1>1. /\ open' = [open EXCEPT ![handle[c]] = FALSE]
      /\ handle' = handle /\ mine' = mine \ {c} /\ stray' = (stray \/ c \notin mine)
  BY DEF WaveClose, Use
<1>2. /\ open' \in [1..Slots -> BOOLEAN] /\ handle' \in [Clients -> 0..Slots]
      /\ mine' \subseteq Clients /\ stray' \in BOOLEAN
      /\ \A d \in mine' : handle'[d] # 0
  BY <1>1 DEF PrivacyInv
<1>3. HandlesPrivate'
  <2> SUFFICES ASSUME ~stray, c \in mine, NEW d \in mine \ {c}
               PROVE  open'[handle[d]] /\ \A e \in mine \ {c, d} : handle[d] # handle[e]
    BY <1>1 DEF HandlesPrivate
  <2>1. open[handle[d]] /\ \A e \in mine \ {d} : handle[d] # handle[e]
    BY DEF PrivacyInv, HandlesPrivate
  <2>2. handle[d] # handle[c] /\ handle[d] \in 1..Slots
    BY <2>1, WaveAssumption DEF PrivacyInv
  <2> QED
    BY <1>1, <2>1, <2>2 DEF PrivacyInv
<1> QED
  BY <1>2, <1>3 DEF PrivacyInv

LEMMA PrivacyStep == PrivacyInv /\ [WaveNext]_waveVars => PrivacyInv'
<1> SUFFICES ASSUME PrivacyInv, [WaveNext]_waveVars
             PROVE  PrivacyInv'
  OBVIOUS
<1>1. ASSUME NEW c \in Clients, WaveOpen(c)
      PROVE  PrivacyInv'
  BY <1>1, PrivacyOpen
<1>2. ASSUME NEW c \in Clients, WaveClose(c)
      PROVE  PrivacyInv'
  BY <1>2, PrivacyClose
<1>3. ASSUME NEW c \in Clients, WaveWrite(c) \/ WaveReset(c)
      PROVE  PrivacyInv'
  <2>1. open' = open /\ handle' = handle /\ mine' = mine /\ stray' = (stray \/ c \notin mine)
    BY <1>3 DEF WaveWrite, WaveReset, Use
  <2> QED
    BY <2>1 DEF PrivacyInv, HandlesPrivate
<1>4. ASSUME NEW s \in 1..Slots, WaveSpill(s)
      PROVE  PrivacyInv'
  BY <1>4 DEF WaveSpill, PrivacyInv, HandlesPrivate
<1>5. CASE UNCHANGED waveVars
  BY <1>5 DEF waveVars, PrivacyInv, HandlesPrivate
<1> QED
  BY <1>1, <1>2, <1>3, <1>4, <1>5 DEF WaveNext

(* However many clients share however many slots, and however often a slot *)
(* is reused, no two of them hold the same open wave device.                *)
THEOREM DevicesPrivate == Spec => []HandlesPrivate
<1>1. Init => PrivacyInv
  BY PrivacyInit, Zenon DEF Init
<1>2. PrivacyInv /\ [Next]_vars => PrivacyInv'
  BY StepsApart, PrivacyStep
<1>3. PrivacyInv => HandlesPrivate
  BY DEF PrivacyInv
<1> QED
  BY <1>1, <1>2, <1>3, PTL DEF Spec

-----------------------------------------------------------------------------
(* advapi32: the names of keys and the rows of their table.                *)
Names == {RootName[r] : r \in DOMAIN RootName} \cup SubKeys \cup {""}
Paths == Seq(Names)
Keys == [path : Paths, value : RegValues]

(* A path is in the table once, was opened when it was put there, and      *)
(* every handle given out is the slot of the path asked for.               *)
KeyInv ==
  /\ key \in Seq(Keys)
  /\ opened \subseteq (DOMAIN key) \X Paths
  /\ \A o \in opened : key[o[1]].path = o[2]
  /\ \A i \in DOMAIN key : <<i, key[i].path>> \in opened
  /\ \A i, j \in DOMAIN key : key[i].path = key[j].path => i = j
  /\ writes = [p \in {key[i].path : i \in DOMAIN key} |-> writes[p]]
  /\ \A i \in DOMAIN key : writes[key[i].path] = key[i].value

LEMMA KeyInit == RegInit => KeyInv
<1> SUFFICES ASSUME RegInit
             PROVE  KeyInv
  OBVIOUS
<1>1. key = << >> /\ opened = {} /\ writes = << >>
  BY DEF RegInit
<1>2. key \in Seq(Keys) /\ DOMAIN key = {}
  BY <1>1
<1>3. writes = [p \in {key[i].path : i \in DOMAIN key} |-> writes[p]]
  BY <1>1, <1>2
<1> QED
  BY <1>1, <1>2, <1>3 DEF KeyInv

(* What the proofs below need of sequences.                                *)
LEMMA ShortSequences ==
  ASSUME NEW T
  PROVE  /\ \A a \in T : <<a>> \in Seq(T)
         /\ \A a, b \in T : <<a, b>> \in Seq(T)
         /\ \A s \in Seq(T), a \in T : Append(s, a) \in Seq(T)
  OBVIOUS

LEMMA SlotTypes ==
  ASSUME KeyInv
  PROVE  \A i \in DOMAIN key : key[i].path \in Paths /\ key[i].value \in RegValues
<1>1. key \in Seq(Keys)
  BY DEF KeyInv
<1>2. \A i \in DOMAIN key : key[i] \in Keys
  BY <1>1
<1> QED
  BY <1>2 DEF Keys

LEMMA PathType ==
  ASSUME KeyInv, NEW from \in DOMAIN RootName \cup Handles \cup {0}, NEW sub \in SubKeys \cup {""}
  PROVE  PathOf(from, sub) \in Paths
<1>1. sub \in Names /\ "" \in Names /\ \A r \in DOMAIN RootName : RootName[r] \in Names
  BY DEF Names
<1>2. <<sub>> \in Paths /\ <<"">> \in Paths
  BY <1>1, ShortSequences, Zenon DEF Paths
<1>3. \A r \in DOMAIN RootName : <<RootName[r], sub>> \in Paths
  BY <1>1, ShortSequences, Zenon DEF Paths
<1>4. \A i \in DOMAIN key : key[i].path \in Paths
  BY SlotTypes
<1>5. SlotPath(from) \in Paths
  BY <1>2, <1>4 DEF SlotPath
<1>6. Append(SlotPath(from), sub) \in Paths
  BY <1>1, <1>5, ShortSequences, Zenon DEF Paths
<1> QED
  BY <1>2, <1>3, <1>5, <1>6 DEF PathOf

(* An open of a path that has a key returns the key's slot.                *)
LEMMA KeyFound ==
  ASSUME KeyInv, NEW path \in Paths, SlotsAt(path) # {},
         opened' = opened \cup {<<Min(SlotsAt(path)), path>>}, UNCHANGED <<key, writes>>
  PROVE  KeyInv'
<1>1. SlotsAt(path) \subseteq DOMAIN key /\ DOMAIN key \subseteq Nat
  BY DEF SlotsAt, KeyInv
<1>2. Min(SlotsAt(path)) \in SlotsAt(path)
  BY <1>1, MinIsMember
<1> DEFINE h == Min(SlotsAt(path))
<1>3. h \in DOMAIN key /\ key[h].path = path
  BY <1>2 DEF SlotsAt
<1> HIDE DEF h
<1>4. opened' = opened \cup {<<h, path>>}
  BY DEF h
<1> QED
  BY <1>3, <1>4 DEF KeyInv

(* An open of a new path fills the next slot.                              *)
LEMMA KeyMade ==
  ASSUME KeyInv, NEW path \in Paths, SlotsAt(path) = {},
         key' = Append(key, [path |-> path, value |-> NoValue]),
         opened' = opened \cup {<<Len(key) + 1, path>>},
         writes' = [p \in DOMAIN writes \cup {path} |->
                      IF p \in DOMAIN writes THEN writes[p] ELSE NoValue]
  PROVE  KeyInv'
<1> DEFINE n == Len(key) + 1
           new == [path |-> path, value |-> NoValue]
<1>1. new \in Keys /\ new.path = path /\ new.value = NoValue
  BY RegAssumption DEF Keys
<1> HIDE DEF new
<1>2. key' = Append(key, new) /\ key \in Seq(Keys)
  BY DEF new, KeyInv
<1>3. /\ key' \in Seq(Keys) /\ DOMAIN key' = DOMAIN key \cup {n}
      /\ n \notin DOMAIN key /\ key'[n] = new
      /\ \A i \in DOMAIN key : key'[i] = key[i]
  BY <1>1, <1>2
<1> HIDE DEF n
<1>4. opened' = opened \cup {<<n, path>>}
  BY DEF n
<1>5. \A i \in DOMAIN key : key[i].path # path
  BY DEF SlotsAt
<1>6. DOMAIN writes = {key[i].path : i \in DOMAIN key}
  BY DEF KeyInv
<1>7. path \notin DOMAIN writes
  BY <1>5, <1>6
<1>8. DOMAIN writes' = {key'[i].path : i \in DOMAIN key'}
  BY <1>1, <1>3, <1>6
<1>9. writes' = [p \in {key'[i].path : i \in DOMAIN key'} |-> writes'[p]]
  BY <1>8
<1>10. \A i \in DOMAIN key' : writes'[key'[i].path] = key'[i].value
  <2>1. writes'[key'[n].path] = key'[n].value
    BY <1>1, <1>3, <1>7
  <2>2. ASSUME NEW i \in DOMAIN key
        PROVE  writes'[key'[i].path] = key'[i].value
    <3>1. key[i].path \in DOMAIN writes /\ writes[key[i].path] = key[i].value
      BY <1>6 DEF KeyInv
    <3>2. writes'[key[i].path] = writes[key[i].path]
      BY <3>1
    <3> QED
      BY <1>3, <3>1, <3>2
  <2> QED
    BY <1>3, <2>1, <2>2
<1>11. opened' \subseteq (DOMAIN key') \X Paths /\ \A o \in opened' : key'[o[1]].path = o[2]
  BY <1>1, <1>3, <1>4 DEF KeyInv
<1>12. \A i \in DOMAIN key' : <<i, key'[i].path>> \in opened'
  BY <1>1, <1>3, <1>4 DEF KeyInv
<1>13. \A i, j \in DOMAIN key' : key'[i].path = key'[j].path => i = j
  BY <1>1, <1>3, <1>5 DEF KeyInv
<1> QED
  BY <1>3, <1>9, <1>10, <1>11, <1>12, <1>13 DEF KeyInv

LEMMA KeySet ==
  ASSUME KeyInv, NEW h \in Handles, NEW v \in RegValues, RegSet(h, v)
  PROVE  KeyInv'
<1>1. /\ h \in DOMAIN key /\ key \in Seq(Keys) /\ opened' = opened
      /\ key' = [key EXCEPT ![h].value = v]
      /\ writes' = [p \in DOMAIN writes |-> IF <<h, p>> \in opened THEN v ELSE writes[p]]
  BY DEF RegSet, KeyInv
<1>2. [key[h] EXCEPT !.value = v] \in Keys
  <2>1. key[h] \in Keys
    BY <1>1
  <2> QED
    BY <2>1 DEF Keys
<1>3. /\ key' \in Seq(Keys) /\ DOMAIN key' = DOMAIN key
      /\ key'[h].path = key[h].path /\ key'[h].value = v
      /\ \A i \in DOMAIN key : i # h => key'[i] = key[i]
  BY <1>1, <1>2 DEF Keys
<1>4. \A i \in DOMAIN key : key'[i].path = key[i].path
  BY <1>3
<1>5. DOMAIN writes = {key[i].path : i \in DOMAIN key} /\ DOMAIN writes' = DOMAIN writes
  BY <1>1 DEF KeyInv
<1>6. DOMAIN writes = {key'[i].path : i \in DOMAIN key'}
  BY <1>3, <1>4, <1>5
<1>7. writes' = [p \in {key'[i].path : i \in DOMAIN key'} |-> writes'[p]]
  BY <1>1, <1>5, <1>6
<1>8. \A i \in DOMAIN key' : writes'[key'[i].path] = key'[i].value
  <2> SUFFICES ASSUME NEW i \in DOMAIN key
               PROVE  writes'[key[i].path] = key'[i].value
    BY <1>3, <1>4
  <2>1. <<h, key[i].path>> \in opened <=> i = h
    BY <1>1 DEF KeyInv
  <2>2. key[i].path \in DOMAIN writes
    BY <1>5
  <2> QED
    BY <1>1, <1>3, <2>1, <2>2 DEF KeyInv
<1>9. /\ opened' \subseteq (DOMAIN key') \X Paths /\ \A o \in opened' : key'[o[1]].path = o[2]
      /\ \A i \in DOMAIN key' : <<i, key'[i].path>> \in opened'
      /\ \A i, j \in DOMAIN key' : key'[i].path = key'[j].path => i = j
  BY <1>1, <1>3, <1>4 DEF KeyInv
<1> QED
  BY <1>3, <1>7, <1>8, <1>9 DEF KeyInv

LEMMA KeyStep == KeyInv /\ [RegStep]_regVars => KeyInv'
<1> SUFFICES ASSUME KeyInv, [RegStep]_regVars
             PROVE  KeyInv'
  OBVIOUS
<1>1. ASSUME NEW from \in DOMAIN RootName \cup Handles \cup {0}, NEW sub \in SubKeys \cup {""},
             RegOpen(from, sub)
      PROVE  KeyInv'
  <2> DEFINE path == PathOf(from, sub)
  <2>1. path \in Paths
    BY PathType
  <2> QED
    BY <1>1, <2>1, KeyFound, KeyMade DEF RegOpen
<1>2. ASSUME NEW h \in Handles, NEW v \in RegValues, RegSet(h, v)
      PROVE  KeyInv'
  BY <1>2, KeySet
<1>3. CASE UNCHANGED regVars
  BY <1>3 DEF regVars, KeyInv
<1> QED
  BY <1>1, <1>2, <1>3 DEF RegStep, RegClose

LEMMA KeyTells == KeyInv => HandleIsKey
<1> SUFFICES ASSUME KeyInv
             PROVE  HandleIsKey
  OBVIOUS
<1>1. \A o \in opened : o[1] \in DOMAIN key /\ key[o[1]].path = o[2]
  BY DEF KeyInv
<1>2. \A o, q \in opened : o[1] = q[1] <=> o[2] = q[2]
  BY <1>1 DEF KeyInv
<1>3. \A o \in opened : key[o[1]].value = writes[o[2]]
  BY <1>1 DEF KeyInv
<1> QED
  BY <1>1, <1>2, <1>3 DEF HandleIsKey, RegQuery

-----------------------------------------------------------------------------
(* device.c: the ids given out are below the next one.                     *)
DevInv ==
  /\ device \in [1..DeviceSlots -> Nat] /\ nextDevice \in Nat \ {0} /\ gone \subseteq Nat
  /\ \A i \in 1..DeviceSlots : device[i] < nextDevice
  /\ \A id \in gone : id < nextDevice
  /\ DeviceIdsFresh

LEMMA DevInit == SessionInit => DevInv
<1> SUFFICES ASSUME SessionInit
             PROVE  DevInv
  OBVIOUS
<1>1. device = [i \in 1..DeviceSlots |-> 0] /\ nextDevice = 1 /\ gone = {}
  BY Zenon DEF SessionInit
<1> QED
  BY <1>1 DEF DevInv, DeviceIdsFresh

(* The first slot with an id, as the loops of attach and detach find it.   *)
LEMMA SlotWith ==
  ASSUME DevInv, NEW id \in Nat, \E i \in DOMAIN device : device[i] = id
  PROVE  /\ Min({i \in DOMAIN device : device[i] = id}) \in 1..DeviceSlots
         /\ device[Min({i \in DOMAIN device : device[i] = id})] = id
<1> DEFINE S == {i \in DOMAIN device : device[i] = id}
<1>1. S \subseteq Nat /\ S # {} /\ DOMAIN device = 1..DeviceSlots
  BY DEF DevInv
<1>2. Min(S) \in S
  BY <1>1, MinIsMember
<1> QED
  BY <1>1, <1>2

LEMMA DevAttach == DevInv /\ Attach => DevInv'
<1> SUFFICES ASSUME DevInv, Attach
             PROVE  DevInv'
  OBVIOUS
<1>1. PICK s : s = Min({i \in DOMAIN device : device[i] = 0})
  OBVIOUS
<1>2. s \in 1..DeviceSlots /\ device[s] = 0
  BY <1>1, SlotWith DEF Attach
<1>3. device' = [device EXCEPT ![s] = nextDevice] /\ nextDevice' = nextDevice + 1 /\ gone' = gone
  BY <1>1 DEF Attach
<1>4. /\ device' \in [1..DeviceSlots -> Nat] /\ nextDevice' \in Nat \ {0} /\ gone' \subseteq Nat
      /\ \A i \in 1..DeviceSlots : device'[i] < nextDevice'
      /\ \A id \in gone' : id < nextDevice'
  BY <1>2, <1>3 DEF DevInv
<1>5. ASSUME NEW i \in DOMAIN device'
      PROVE  /\ \A j \in DOMAIN device' : (device'[i] = device'[j] /\ device'[i] # 0) => i = j
             /\ device'[i] # 0 => device'[i] \notin gone'
  <2>1. /\ DOMAIN device' = 1..DeviceSlots
        /\ \A j \in 1..DeviceSlots : device'[j] = IF j = s THEN nextDevice ELSE device[j]
    BY <1>2, <1>3 DEF DevInv
  <2> QED
    BY <1>2, <1>3, <2>1 DEF DevInv, DeviceIdsFresh
<1> QED
  BY <1>4, <1>5 DEF DevInv, DeviceIdsFresh

LEMMA DevDetach ==
  ASSUME DevInv, NEW id \in 0..IdLimit, Detach(id)
  PROVE  DevInv'
<1>0. id \in Nat
  OBVIOUS
<1>1. PICK s : s = Min({i \in DOMAIN device : device[i] = id})
  OBVIOUS
<1>2. s \in 1..DeviceSlots /\ device[s] = id
  BY <1>0, <1>1, SlotWith DEF Detach
<1>3. device' = [device EXCEPT ![s] = 0] /\ nextDevice' = nextDevice /\ gone' = gone \cup {id}
  BY <1>1 DEF Detach
<1>4. /\ device' \in [1..DeviceSlots -> Nat] /\ nextDevice' \in Nat \ {0} /\ gone' \subseteq Nat
      /\ \A i \in 1..DeviceSlots : device'[i] < nextDevice'
      /\ \A g \in gone' : g < nextDevice'
  BY <1>0, <1>2, <1>3 DEF DevInv
<1>5. ASSUME NEW i \in DOMAIN device'
      PROVE  /\ \A j \in DOMAIN device' : (device'[i] = device'[j] /\ device'[i] # 0) => i = j
             /\ device'[i] # 0 => device'[i] \notin gone'
  <2>1. /\ DOMAIN device' = 1..DeviceSlots
        /\ \A j \in 1..DeviceSlots : device'[j] = IF j = s THEN 0 ELSE device[j]
    BY <1>2, <1>3 DEF DevInv
  <2> QED
    BY <1>2, <1>3, <2>1 DEF DevInv, DeviceIdsFresh
<1> QED
  BY <1>4, <1>5 DEF DevInv, DeviceIdsFresh

LEMMA DevStep == DevInv /\ [DeviceStep]_deviceVars => DevInv'
<1> SUFFICES ASSUME DevInv, [DeviceStep]_deviceVars
             PROVE  DevInv'
  OBVIOUS
<1>1. CASE UNCHANGED deviceVars
  BY <1>1 DEF deviceVars, DevInv, DeviceIdsFresh
<1>2. CASE DeviceReset
  <2>1. device' = [i \in 1..DeviceSlots |-> 0] /\ nextDevice' = 1 /\ gone' = {}
    BY <1>2 DEF DeviceReset
  <2> QED
    BY <2>1 DEF DevInv, DeviceIdsFresh
<1> QED
  BY <1>1, <1>2, DevAttach, DevDetach, Zenon DEF DeviceStep

-----------------------------------------------------------------------------
(* print.c: the printers of a process only grow, the first is its own, and *)
(* the jobs done have numbers below the next.                              *)
PrinterRows == [name : Printers, default : BOOLEAN]
JobFiles == [dir : JobDirs, id : Nat, of : Documents]
PrintedRows == [file : JobFiles, asked : Printers \cup {Unnamed}, at : Nat]

PrintInv ==
  /\ printers \in Seq(PrinterRows) /\ job \in Nat
  /\ printed \in Seq(PrintedRows)
  /\ printers # << >> => printers[1] = [name |-> CellarPdf, default |-> TRUE]
  /\ \A k \in DOMAIN printed :
       /\ printed[k].file \in paper /\ printed[k].file.id < job
       /\ printed[k].at \in DOMAIN printers
  /\ JobsGoWhereAsked

LEMMA PrintInit == HostInit => PrintInv
<1> SUFFICES ASSUME HostInit
             PROVE  PrintInv
  OBVIOUS
<1>1. printers = << >> /\ job = 1 /\ printed = << >>
  BY DEF HostInit
<1>2. \A T : << >> \in Seq(T)
  OBVIOUS
<1> QED
  BY <1>1, <1>2 DEF PrintInv, JobsGoWhereAsked

(* cellar_print_init leaves what there is.                                 *)
LEMMA ReadyKeeps ==
  ASSUME PrintInv
  PROVE  /\ Ready \in Seq(PrinterRows) /\ Ready # << >> /\ Len(Ready) > 0
         /\ Ready[1] = [name |-> CellarPdf, default |-> TRUE]
         /\ \A i \in DOMAIN printers : i \in DOMAIN Ready /\ Ready[i] = printers[i]
<1>1. CASE printers = << >>
  <2>1. Ready = <<[name |-> CellarPdf, default |-> TRUE]>>
    BY <1>1 DEF Ready
  <2>2. [name |-> CellarPdf, default |-> TRUE] \in PrinterRows
    BY HostAssumption DEF PrinterRows
  <2>3. Ready \in Seq(PrinterRows) /\ Len(Ready) = 1 /\ Ready[1] = [name |-> CellarPdf, default |-> TRUE]
    BY <2>1, <2>2
  <2> QED
    BY <1>1, <2>3
<1>2. CASE printers # << >>
  <2>1. Ready = printers
    BY <1>2 DEF Ready
  <2>2. printers \in Seq(PrinterRows)
    BY DEF PrintInv
  <2>3. Len(printers) > 0
    BY <1>2, <2>2, SomeLength
  <2> QED
    BY <1>2, <2>1, <2>3 DEF PrintInv
<1> QED
  BY <1>1, <1>2

(* More printers change nothing for the jobs that are done.                *)
LEMMA PrintersGrow ==
  ASSUME PrintInv, NEW table \in Seq(PrinterRows), table # << >>,
         table[1] = [name |-> CellarPdf, default |-> TRUE],
         \A i \in DOMAIN printers : i \in DOMAIN table /\ table[i] = printers[i],
         printers' = table, job' = job, printed' = printed, paper' = paper
  PROVE  PrintInv'
<1>1. \A k \in DOMAIN printed : printed[k].at \in DOMAIN table /\ table[printed[k].at] = printers[printed[k].at]
  BY DEF PrintInv
<1>2. \A k \in DOMAIN printed : table[1].name = CellarPdf
  OBVIOUS
<1>3. JobsGoWhereAsked'
  BY <1>1, <1>2 DEF PrintInv, JobsGoWhereAsked
<1> QED
  BY <1>1, <1>3 DEF PrintInv

(* The printer that a job finds is in the table, and of its name.          *)
LEMMA PrinterFound ==
  ASSUME PrintInv, NEW name \in Printers \cup {Unnamed}, NEW i \in PrinterFor(Ready, name)
  PROVE  /\ i \in DOMAIN Ready
         /\ name = Unnamed => i = 1
         /\ name # Unnamed => SameName[Ready[i].name] = SameName[name]
<1>1. /\ Ready \in Seq(PrinterRows) /\ Len(Ready) > 0 /\ Ready[1].default
  BY ReadyKeeps
<1>2. DOMAIN Ready \subseteq Nat \ {0} /\ 1 \in DOMAIN Ready
  BY <1>1
<1>3. CASE name = Unnamed
  <2>1. i = DefaultPrinter(Ready)
    BY <1>3 DEF PrinterFor
  <2>2. 1 \in Flagged(Ready) /\ Flagged(Ready) \subseteq Nat \ {0}
    BY <1>1, <1>2 DEF Flagged
  <2>3. Min(Flagged(Ready)) \in Flagged(Ready) /\ Min(Flagged(Ready)) <= 1
    BY <2>2, MinIsMember
  <2>4. i = 1
    BY <2>1, <2>2, <2>3 DEF DefaultPrinter
  <2> QED
    BY <1>2, <1>3, <2>4
<1>4. CASE name # Unnamed
  <2>1. i \in Same(Ready, name)
    BY <1>4 DEF PrinterFor
  <2> QED
    BY <1>4, <2>1 DEF Same
<1> QED
  BY <1>3, <1>4

(* A job's file takes a number that no file of an earlier job has.         *)
LEMMA PrintOne ==
  ASSUME PrintInv, NEW name \in Printers \cup {Unnamed}, NEW doc \in Documents,
         NEW dir \in JobDirs, NEW w \in BOOLEAN, PrintJob(name, doc, dir, w)
  PROVE  PrintInv'
<1> DEFINE sheet == [dir |-> dir, id |-> job, of |-> doc]
           Entry(i) == [file |-> sheet, asked |-> name, at |-> i]
<1>1. PICK i \in PrinterFor(Ready, name) :
        /\ job' = job + 1
        /\ IF w THEN /\ paper' = {f \in paper : <<f.dir, f.id>> # <<dir, job>>} \cup {sheet}
                     /\ printed' = Append(printed, Entry(i))
                ELSE UNCHANGED <<paper, printed>>
  BY DEF PrintJob
<1>2. printers' = Ready
  BY DEF PrintJob
<1>3. /\ i \in DOMAIN Ready
      /\ name = Unnamed => i = 1
      /\ name # Unnamed => SameName[Ready[i].name] = SameName[name]
  BY PrinterFound
<1>4. /\ Ready \in Seq(PrinterRows) /\ Ready # << >> /\ Len(Ready) > 0
      /\ Ready[1] = [name |-> CellarPdf, default |-> TRUE]
      /\ \A n \in DOMAIN printers : n \in DOMAIN Ready /\ Ready[n] = printers[n]
  BY ReadyKeeps
<1>5. job \in Nat /\ printed \in Seq(PrintedRows)
  BY DEF PrintInv
<1>6. ASSUME NEW k \in DOMAIN printed
      PROVE  /\ printed[k].file \in paper' /\ printed[k].file.id < job'
             /\ printed[k].at \in DOMAIN Ready
             /\ Ready[printed[k].at] = printers[printed[k].at]
  <2>1. printed[k].file \in paper /\ printed[k].file.id < job /\ printed[k].at \in DOMAIN printers
    BY DEF PrintInv
  <2>2. printed[k].file \in JobFiles
    <3>1. printed[k] \in PrintedRows
      BY <1>5
    <3> QED
      BY <3>1 DEF PrintedRows
  <2>3. <<printed[k].file.dir, printed[k].file.id>> # <<dir, job>>
    BY <1>5, <2>1, <2>2 DEF JobFiles
  <2>4. printed[k].file \in paper'
    BY <1>1, <2>1, <2>3
  <2> QED
    BY <1>1, <1>4, <1>5, <2>1, <2>2, <2>4 DEF JobFiles, PrintedRows
<1>7. CASE ~w
  <2>1. printed' = printed /\ paper' = paper
    BY <1>1, <1>7
  <2>2. JobsGoWhereAsked'
    BY <1>2, <1>4, <1>6, <2>1 DEF PrintInv, JobsGoWhereAsked
  <2> QED
    BY <1>1, <1>2, <1>4, <1>5, <1>6, <2>1, <2>2 DEF PrintInv
<1>8. CASE w
  <2>1. printed' = Append(printed, Entry(i)) /\ sheet \in paper'
    BY <1>1, <1>8
  <2>2. Entry(i) \in PrintedRows
    <3>1. sheet \in JobFiles
      BY <1>5 DEF JobFiles
    <3>2. i \in Nat
      BY <1>3, <1>4
    <3> QED
      BY <3>1, <3>2 DEF PrintedRows
  <2>3. printed' \in Seq(PrintedRows)
    BY <1>5, <2>1, <2>2
  <2>4. ASSUME NEW k \in DOMAIN printed'
        PROVE  /\ printed'[k].file \in paper' /\ printed'[k].file.id < job'
               /\ printed'[k].at \in DOMAIN Ready
               /\ IF printed'[k].asked = Unnamed THEN printed'[k].at = 1 /\ Ready[1].name = CellarPdf
                  ELSE SameName[Ready[printed'[k].at].name] = SameName[printed'[k].asked]
    <3>1. CASE k \in DOMAIN printed
      <4>1. printed'[k] = printed[k]
        BY <1>5, <2>1, <2>2, <3>1
      <4>2. IF printed[k].asked = Unnamed THEN printed[k].at = 1
            ELSE SameName[printers[printed[k].at].name] = SameName[printed[k].asked]
        BY <3>1 DEF PrintInv, JobsGoWhereAsked
      <4> QED
        BY <1>4, <1>6, <3>1, <4>1, <4>2
    <3>2. CASE k \notin DOMAIN printed
      <4>1. printed'[k] = Entry(i)
        BY <1>5, <2>1, <2>2, <3>2
      <4>2. printed'[k].file = sheet /\ printed'[k].asked = name /\ printed'[k].at = i
        BY <4>1
      <4>3. sheet.id < job'
        BY <1>1, <1>5
      <4> QED
        BY <1>3, <1>4, <2>1, <4>2, <4>3
    <3> QED
      BY <3>1, <3>2
  <2>5. JobsGoWhereAsked'
    BY <1>2, <2>4 DEF JobsGoWhereAsked
  <2> QED
    BY <1>1, <1>2, <1>4, <1>5, <2>3, <2>4, <2>5, SMTT(40) DEF PrintInv
<1> QED
  BY <1>7, <1>8

LEMMA PrintStepKeeps == PrintInv /\ [PrintStep]_printVars => PrintInv'
<1> SUFFICES ASSUME PrintInv, [PrintStep]_printVars
             PROVE  PrintInv'
  OBVIOUS
<1>1. CASE UNCHANGED printVars
  BY <1>1 DEF printVars, PrintInv, JobsGoWhereAsked
<1>2. ASSUME NEW name \in Printers, NEW default \in BOOLEAN, AddPrinter(name, default)
      PROVE  PrintInv'
  <2> DEFINE table == Append(Ready, [name |-> name, default |-> default])
  <2>1. /\ printers' = table /\ job' = job /\ printed' = printed /\ paper' = paper
    BY <1>2 DEF AddPrinter
  <2>2. /\ Ready \in Seq(PrinterRows) /\ Len(Ready) > 0
        /\ Ready[1] = [name |-> CellarPdf, default |-> TRUE]
        /\ \A i \in DOMAIN printers : i \in DOMAIN Ready /\ Ready[i] = printers[i]
    BY ReadyKeeps
  <2>3. [name |-> name, default |-> default] \in PrinterRows
    BY DEF PrinterRows
  <2>4. /\ table \in Seq(PrinterRows) /\ Len(table) = Len(Ready) + 1
        /\ \A i \in DOMAIN Ready : i \in DOMAIN table /\ table[i] = Ready[i]
    BY <2>2, <2>3
  <2>5. table # << >> /\ 1 \in DOMAIN Ready
    BY <2>2, <2>4
  <2> HIDE DEF table
  <2> QED
    BY <2>1, <2>2, <2>4, <2>5, PrintersGrow
<1>3. ASSUME NEW name \in Printers, NoSuchPrinter(name)
      PROVE  PrintInv'
  BY <1>3, ReadyKeeps, PrintersGrow DEF NoSuchPrinter
<1>4. CASE NextProcess
  <2>1. printers' = << >> /\ job' = 1 /\ printed' = << >>
    BY <1>4 DEF NextProcess
  <2>2. \A T : << >> \in Seq(T)
    OBVIOUS
  <2> QED
    BY <2>1, <2>2 DEF PrintInv, JobsGoWhereAsked
<1> QED
  BY <1>1, <1>2, <1>3, <1>4, PrintOne, Zenon DEF PrintStep

-----------------------------------------------------------------------------
(* A device id is never given twice, a registry handle never comes to name *)
(* another key, and a job's file is never overwritten while its process    *)
(* lives: for every size of the tables and every number of ids given out.  *)
THEOREM IdentifiersKeepMeaning == Spec => []IdentifiersStable
<1>1. DevInv /\ KeyInv /\ PrintInv => IdentifiersStable
  <2>1. KeyInv => HandleIsKey
    BY KeyTells
  <2> QED
    BY <2>1 DEF DevInv, PrintInv, IdentifiersStable, JobsKeepTheirFiles
<1>2. Init => DevInv /\ KeyInv /\ PrintInv
  BY DevInit, KeyInit, PrintInit DEF Init
<1>3. DevInv /\ [Next]_vars => DevInv'
  BY DevStep, StepsApart
<1>4. KeyInv /\ [Next]_vars => KeyInv'
  BY KeyStep, StepsApart
<1>5. PrintInv /\ [Next]_vars => PrintInv'
  BY PrintStepKeeps, StepsApart
<1> QED
  BY <1>1, <1>2, <1>3, <1>4, <1>5, PTL DEF Spec

-----------------------------------------------------------------------------
(* service.c: starts are nested as their mains are on the stack.           *)
SvcInv ==
  /\ service \in [Services -> {"none", "stopped", "start_pending", "running"}]
  /\ running \in Seq(Services) /\ last \in [Services -> {"start", "stop"}]
  /\ ServiceSettled

LEMMA SvcKeeps ==
  ASSUME SvcInv, [ServiceStep]_serviceVars
  PROVE  SvcInv'
<1> USE DEF SvcInv
<1>1. CASE UNCHANGED serviceVars
  BY <1>1 DEF serviceVars, ServiceSettled
<1>2. ASSUME NEW s \in Services, SvcRegister(s)
      PROVE  SvcInv'
  BY <1>2 DEF SvcRegister, ServiceSettled
<1>3. ASSUME NEW s \in Services, SvcStart(s)
      PROVE  SvcInv'
  <2>1. /\ service' = [service EXCEPT ![s] = "start_pending"]
        /\ running' = Append(running, s) /\ last' = last
    BY <1>3 DEF SvcStart
  <2>2. running' \in Seq(Services) /\ running'[Len(running) + 1] = s
        /\ Len(running) + 1 \in DOMAIN running'
        /\ DOMAIN running \subseteq DOMAIN running'
        /\ \A i \in DOMAIN running : running'[i] = running[i]
    BY <2>1
  <2>3. ASSUME NEW r \in Services, \A i \in DOMAIN running' : running'[i] # r
        PROVE  service'[r] \in IF last'[r] = "start" THEN {"running"} ELSE {"none", "stopped"}
    <3>1. r # s /\ \A i \in DOMAIN running : running[i] # r
      BY <2>2, <2>3
    <3> QED
      BY <2>1, <3>1 DEF ServiceSettled
  <2>4. ServiceSettled'
    BY <2>3, Zenon DEF ServiceSettled
  <2> QED
    BY <2>1, <2>2, <2>4
<1>4. ASSUME NEW s \in Services, SvcMainReturns(s)
      PROVE  SvcInv'
  <2>1. /\ service' = [service EXCEPT ![s] = "running"]
        /\ running' = SubSeq(running, 1, Len(running) - 1)
        /\ last' = [last EXCEPT ![s] = "start"]
        /\ running # << >> /\ s = running[Len(running)]
    BY <1>4 DEF SvcMainReturns
  <2>2. Len(running) \in Nat \ {0}
    BY <2>1, SomeLength
  <2>3. /\ running' \in Seq(Services)
        /\ DOMAIN running = 1..Len(running)
        /\ DOMAIN running' = 1..Len(running) - 1
        /\ \A i \in 1..Len(running) - 1 : running'[i] = running[i]
    BY <2>1, <2>2
  <2>4. ASSUME NEW r \in Services, \A i \in DOMAIN running' : running'[i] # r
        PROVE  service'[r] \in IF last'[r] = "start" THEN {"running"} ELSE {"none", "stopped"}
    <3>1. CASE r = s
      BY <2>1, <3>1
    <3>2. CASE r # s
      <4>1. \A i \in DOMAIN running : running[i] # r
        <5> SUFFICES ASSUME NEW i \in DOMAIN running
                     PROVE  running[i] # r
          OBVIOUS
        <5>1. i = Len(running) \/ i \in 1..Len(running) - 1
          BY <2>2, <2>3
        <5>2. CASE i = Len(running)
          BY <2>1, <3>2, <5>2
        <5>3. CASE i \in 1..Len(running) - 1
          BY <2>3, <2>4, <5>3
        <5> QED
          BY <5>1, <5>2, <5>3
      <4> QED
        BY <2>1, <3>2, <4>1 DEF ServiceSettled
    <3> QED
      BY <3>1, <3>2
  <2>5. ServiceSettled'
    BY <2>4, Zenon DEF ServiceSettled
  <2> QED
    BY <2>1, <2>3, <2>5
<1>5. ASSUME NEW s \in Services, SvcStop(s)
      PROVE  SvcInv'
  BY <1>5 DEF SvcStop, ServiceSettled
<1> QED
  BY <1>1, <1>2, <1>3, <1>4, <1>5, Zenon DEF ServiceStep

(* Outside its main a service is what the request for it that returned     *)
(* last has asked for, however deep the starts and stops of any number of  *)
(* services were nested.                                                   *)
THEOREM ServicesSettle == Spec => []ServiceSettled
<1>1. SvcInv => ServiceSettled
  BY DEF SvcInv
<1>2. Init => SvcInv
  <2> SUFFICES ASSUME Init
               PROVE  SvcInv
    OBVIOUS
  <2>1. /\ service = [s \in Services |-> "none"] /\ running = << >>
        /\ last = [s \in Services |-> "stop"]
    BY Zenon DEF Init, SessionInit
  <2> QED
    BY <2>1 DEF SvcInv, ServiceSettled
<1>3. SvcInv /\ [Next]_vars => SvcInv'
  BY SvcKeeps, StepsApart
<1> QED
  BY <1>1, <1>2, <1>3, PTL DEF Spec

-----------------------------------------------------------------------------
(* audio.c: as long as one device at a time writes the file, its data is   *)
(* what that device has spilled, and the header waits for the close.       *)
WavInv ==
  /\ open \in [1..Slots -> BOOLEAN] /\ handle \in [Clients -> 0..Slots]
  /\ total \in [1..Slots -> Nat] /\ counted \in [1..Slots -> Nat] /\ spilled \in [1..Slots -> Nat]
  /\ wav \in [size : Nat, data : Seq(0..Slots)]
  /\ \A s \in 1..Slots : spilled[s] <= total[s] /\ counted[s] <= total[s]
  /\ ~shared =>
       /\ \A s, t \in 1..Slots : open[s] /\ open[t] => s = t
       /\ \A s \in 1..Slots : open[s] =>
            /\ Len(wav.data) = spilled[s] /\ (~cut => counted[s] = total[s])
            /\ \A i \in 1..Len(wav.data) : wav.data[i] = s
  /\ WavWhole

(* The file after chunks have been put behind those it has.                *)
LEMMA FilledAtEnd ==
  ASSUME WavInv, NEW s \in 1..Slots, NEW n \in Nat, spilled[s] <= n,
         Len(wav.data) = spilled[s], \A i \in 1..Len(wav.data) : wav.data[i] = s
  PROVE  /\ Filled(s, spilled[s], n) \in Seq(0..Slots)
         /\ Len(Filled(s, spilled[s], n)) = n
         /\ \A i \in 1..n : Filled(s, spilled[s], n)[i] = s
<1> DEFINE m == spilled[s]
<1>1. m \in Nat /\ n \in Nat /\ m <= n /\ wav.data \in Seq(0..Slots)
  BY DEF WavInv
<1>2. (IF n > Len(wav.data) THEN n ELSE Len(wav.data)) = n
  BY <1>1
<1>3. DOMAIN wav.data = 1..m
  BY <1>1
<1>4. \A i \in 1..n :
        (IF i \in m + 1..n THEN s ELSE IF i \in DOMAIN wav.data THEN wav.data[i] ELSE 0) = s
  BY <1>1, <1>3
<1>5. Filled(s, m, n) = [i \in 1..n |-> s]
  BY <1>2, <1>4 DEF Filled
<1>6. s \in 0..Slots
  BY WaveAssumption
<1> HIDE DEF m
<1>7. Filled(s, m, n) \in Seq(0..Slots) /\ Len(Filled(s, m, n)) = n
  BY <1>1, <1>5, <1>6
<1> QED
  BY <1>5, <1>7 DEF m

(* Filling keeps the type, whoever has written the file.                   *)
LEMMA FilledType ==
  ASSUME WavInv, NEW s \in 1..Slots, NEW m \in Nat, NEW n \in Nat
  PROVE  Filled(s, m, n) \in Seq(0..Slots)
<1> DEFINE k == IF n > Len(wav.data) THEN n ELSE Len(wav.data)
           byte(i) == IF i \in m + 1..n THEN s ELSE IF i \in DOMAIN wav.data THEN wav.data[i] ELSE 0
<1>1. wav.data \in Seq(0..Slots) /\ s \in 0..Slots /\ 0 \in 0..Slots
  BY WaveAssumption DEF WavInv
<1>2. k \in Nat
  BY <1>1
<1>3. ASSUME NEW i \in 1..k
      PROVE  byte(i) \in 0..Slots
  <2>1. i \in DOMAIN wav.data => wav.data[i] \in 0..Slots
    BY <1>1, EntryType, Zenon
  <2> QED
    BY <1>1, <2>1, Zenon
<1>4. Filled(s, m, n) = [i \in 1..k |-> byte(i)]
  BY DEF Filled
<1> HIDE DEF k, byte
<1> QED
  BY <1>2, <1>3, <1>4

LEMMA WavOpen ==
  ASSUME WavInv, NEW c \in Clients, WaveOpen(c)
  PROVE  WavInv'
<1>1. PICK s : s = Min(FreeSlots)
  OBVIOUS
<1>2. s \in 1..Slots /\ ~open[s]
  <2>1. FreeSlots \subseteq Nat /\ FreeSlots # {}
    BY WaveAssumption DEF FreeSlots, WaveOpen
  <2>2. s \in FreeSlots
    BY <1>1, <2>1, MinIsMember
  <2> QED
    BY <2>2 DEF FreeSlots
<1>3. /\ open' = [open EXCEPT ![s] = TRUE]
      /\ total' = [total EXCEPT ![s] = 0] /\ counted' = [counted EXCEPT ![s] = 0]
      /\ spilled' = [spilled EXCEPT ![s] = 0]
      /\ handle' = [handle EXCEPT ![c] = s]
      /\ wav' = [size |-> 0, data |-> << >>]
      /\ shared' = (\E t \in 1..Slots : open[t])
  BY <1>1 DEF WaveOpen, OpenSink
<1>4. /\ open' \in [1..Slots -> BOOLEAN] /\ handle' \in [Clients -> 0..Slots]
      /\ total' \in [1..Slots -> Nat] /\ counted' \in [1..Slots -> Nat]
      /\ spilled' \in [1..Slots -> Nat]
      /\ \A t \in 1..Slots : spilled'[t] <= total'[t] /\ counted'[t] <= total'[t]
  <2>0. s \in 0..Slots /\ 0 \in Nat
    BY <1>2, WaveAssumption
  <2>1. /\ open' \in [1..Slots -> BOOLEAN] /\ handle' \in [Clients -> 0..Slots]
        /\ total' \in [1..Slots -> Nat] /\ counted' \in [1..Slots -> Nat]
        /\ spilled' \in [1..Slots -> Nat]
    <3>1. /\ open \in [1..Slots -> BOOLEAN] /\ handle \in [Clients -> 0..Slots]
          /\ total \in [1..Slots -> Nat] /\ counted \in [1..Slots -> Nat]
          /\ spilled \in [1..Slots -> Nat]
      BY DEF WavInv
    <3> QED
      BY <1>2, <1>3, <2>0, <3>1
  <2>2. \A t \in 1..Slots : \/ spilled'[t] = 0 /\ counted'[t] = 0 /\ total'[t] = 0
                           \/ /\ spilled'[t] = spilled[t] /\ counted'[t] = counted[t]
                              /\ total'[t] = total[t]
    BY <1>3 DEF WavInv
  <2>3. \A t \in 1..Slots : spilled[t] <= total[t] /\ counted[t] <= total[t]
    BY DEF WavInv
  <2> QED
    BY <2>1, <2>2, <2>3
<1>5. wav' \in [size : Nat, data : Seq(0..Slots)] /\ wav'.data = << >> /\ Len(wav'.data) = 0
  <2>1. << >> \in Seq(0..Slots) /\ Len(<< >>) = 0
    OBVIOUS
  <2> QED
    BY <1>3, <2>1
<1>6. ASSUME ~shared'
      PROVE  \A t \in 1..Slots : open'[t] => t = s
  BY <1>2, <1>3, <1>6 DEF WavInv
<1>7. open'[s] /\ spilled'[s] = 0 /\ counted'[s] = total'[s]
  BY <1>2, <1>3 DEF WavInv
<1>8. WavWhole'
  BY <1>2, <1>7 DEF WavWhole
<1>9. ~shared' =>
       /\ \A r, t \in 1..Slots : open'[r] /\ open'[t] => r = t
       /\ \A t \in 1..Slots : open'[t] =>
            /\ Len(wav'.data) = spilled'[t] /\ (~cut' => counted'[t] = total'[t])
            /\ \A i \in 1..Len(wav'.data) : wav'.data[i] = t
  BY <1>5, <1>6, <1>7
<1> QED
  BY <1>4, <1>5, <1>8, <1>9 DEF WavInv

LEMMA WavWrite ==
  ASSUME WavInv, NEW c \in Clients, WaveWrite(c)
  PROVE  WavInv'
<1>1. PICK s : s = handle[c]
  OBVIOUS
<1>2. s \in 1..Slots /\ open[s]
  BY <1>1, WaveAssumption DEF WaveWrite, Valid, WavInv
<1>3. /\ open' = open /\ handle' = handle /\ wav' = wav /\ shared' = shared
      /\ spilled' = spilled /\ total' = [total EXCEPT ![s] = @ + 1]
      /\ \/ counted' = [counted EXCEPT ![s] = @ + 1] /\ cut' = cut
         \/ cut' = TRUE /\ counted' = counted
  BY <1>1 DEF WaveWrite
<1>4. /\ total' \in [1..Slots -> Nat] /\ counted' \in [1..Slots -> Nat]
      /\ \A t \in 1..Slots : spilled'[t] <= total'[t] /\ counted'[t] <= total'[t]
  <2>1. /\ total \in [1..Slots -> Nat] /\ counted \in [1..Slots -> Nat]
        /\ \A t \in 1..Slots : /\ spilled[t] \in Nat /\ counted[t] \in Nat /\ total[t] \in Nat
                              /\ spilled[t] <= total[t] /\ counted[t] <= total[t]
    BY DEF WavInv
  <2>2. total' \in [1..Slots -> Nat] /\ counted' \in [1..Slots -> Nat]
    BY <1>2, <1>3, <2>1
  <2>3. \A t \in 1..Slots : total'[t] = IF t = s THEN total[t] + 1 ELSE total[t]
    BY <1>3, <2>1
  <2>4. \A t \in 1..Slots : counted'[t] = counted[t] \/ (t = s /\ counted'[t] = counted[t] + 1)
    BY <1>3, <2>1
  <2>5. \A t \in 1..Slots : spilled'[t] = spilled[t]
    BY <1>3
  <2> QED
    BY <2>1, <2>2, <2>3, <2>4, <2>5
<1>5. WavWhole'
  BY <1>2, <1>3 DEF WavWhole
<1>6. ASSUME ~cut'
      PROVE  ~cut /\ \A t \in 1..Slots : counted[t] = total[t] => counted'[t] = total'[t]
  <2>1. total \in [1..Slots -> Nat] /\ counted \in [1..Slots -> Nat]
    BY DEF WavInv
  <2>2. ~cut /\ counted' = [counted EXCEPT ![s] = @ + 1] /\ total' = [total EXCEPT ![s] = @ + 1]
    BY <1>3, <1>6
  <2> QED
    BY <1>2, <2>1, <2>2
<1>7. ~shared =>
       /\ \A r, t \in 1..Slots : open[r] /\ open[t] => r = t
       /\ \A t \in 1..Slots : open[t] =>
            /\ Len(wav.data) = spilled[t] /\ (~cut' => counted'[t] = total'[t])
            /\ \A i \in 1..Len(wav.data) : wav.data[i] = t
  BY <1>6 DEF WavInv
<1> QED
  BY <1>3, <1>4, <1>5, <1>7 DEF WavInv

LEMMA WavSpill ==
  ASSUME WavInv, NEW s \in 1..Slots, WaveSpill(s)
  PROVE  WavInv'
<1>1. /\ open[s] /\ spilled[s] < total[s]
      /\ wav' = [wav EXCEPT !.data = Filled(s, spilled[s], spilled[s] + 1)]
      /\ spilled' = [spilled EXCEPT ![s] = @ + 1]
      /\ open' = open /\ total' = total /\ counted' = counted /\ cut' = cut
      /\ handle' = handle /\ shared' = shared
  BY DEF WaveSpill
<1>2. spilled[s] \in Nat /\ total[s] \in Nat
  BY DEF WavInv
<1>3. /\ spilled' \in [1..Slots -> Nat] /\ spilled'[s] = spilled[s] + 1
      /\ \A t \in 1..Slots : spilled'[t] <= total'[t]
  BY <1>1, <1>2 DEF WavInv
<1>4. Filled(s, spilled[s], spilled[s] + 1) \in Seq(0..Slots)
  <2>1. spilled[s] + 1 \in Nat
    BY <1>2
  <2> QED
    BY <1>2, <2>1, FilledType
<1>5. /\ wav' \in [size : Nat, data : Seq(0..Slots)]
      /\ wav'.data = Filled(s, spilled[s], spilled[s] + 1)
  BY <1>1, <1>4 DEF WavInv
<1>6. ASSUME ~shared'
      PROVE  /\ \A t \in 1..Slots : open'[t] => t = s
             /\ Len(wav'.data) = spilled'[s] /\ (~cut => counted[s] = total[s])
             /\ \A i \in 1..Len(wav'.data) : wav'.data[i] = s
  <2>1. /\ \A t \in 1..Slots : open[t] => t = s
        /\ (~cut => counted[s] = total[s])
        /\ Len(wav.data) = spilled[s] /\ \A i \in 1..Len(wav.data) : wav.data[i] = s
    BY <1>1, <1>6 DEF WavInv
  <2>2. spilled[s] + 1 \in Nat /\ spilled[s] <= spilled[s] + 1
    BY <1>2
  <2>3. /\ Len(wav'.data) = spilled[s] + 1
        /\ \A i \in 1..spilled[s] + 1 : wav'.data[i] = s
    BY <1>5, <2>1, <2>2, FilledAtEnd
  <2> QED
    BY <1>1, <1>3, <2>1, <2>3
<1>7. WavWhole'
  BY <1>1 DEF WavWhole
<1> QED
  BY <1>1, <1>3, <1>5, <1>6, <1>7 DEF WavInv

LEMMA WavClose ==
  ASSUME WavInv, NEW c \in Clients, WaveClose(c)
  PROVE  WavInv'
<1>1. PICK s : s = handle[c]
  OBVIOUS
<1>2. s \in 1..Slots /\ open[s]
  BY <1>1, WaveAssumption DEF WaveClose, Valid, WavInv
<1>3. /\ wav' = [size |-> counted[s], data |-> Filled(s, spilled[s], total[s])]
      /\ open' = [open EXCEPT ![s] = FALSE]
      /\ total' = [total EXCEPT ![s] = 0] /\ counted' = [counted EXCEPT ![s] = 0]
      /\ spilled' = [spilled EXCEPT ![s] = 0]
      /\ handle' = handle /\ shared' = shared /\ cut' = cut
  BY <1>1 DEF WaveClose, CloseSink
<1>4. /\ spilled[s] \in Nat /\ total[s] \in Nat /\ spilled[s] <= total[s]
      /\ counted[s] \in Nat /\ counted[s] <= total[s]
  BY <1>2 DEF WavInv
<1>5. /\ open' \in [1..Slots -> BOOLEAN] /\ handle' \in [Clients -> 0..Slots]
      /\ total' \in [1..Slots -> Nat] /\ counted' \in [1..Slots -> Nat]
      /\ spilled' \in [1..Slots -> Nat]
      /\ \A t \in 1..Slots : spilled'[t] <= total'[t] /\ counted'[t] <= total'[t]
  <2>1. /\ open' \in [1..Slots -> BOOLEAN] /\ handle' \in [Clients -> 0..Slots]
        /\ total' \in [1..Slots -> Nat] /\ counted' \in [1..Slots -> Nat]
        /\ spilled' \in [1..Slots -> Nat]
    BY <1>2, <1>3 DEF WavInv
  <2>2. \A t \in 1..Slots : \/ spilled'[t] = 0 /\ counted'[t] = 0 /\ total'[t] = 0
                           \/ /\ spilled'[t] = spilled[t] /\ counted'[t] = counted[t]
                              /\ total'[t] = total[t]
    BY <1>3 DEF WavInv
  <2>3. \A t \in 1..Slots : spilled[t] <= total[t] /\ counted[t] <= total[t]
    BY DEF WavInv
  <2> QED
    BY <2>1, <2>2, <2>3
<1>6. Filled(s, spilled[s], total[s]) \in Seq(0..Slots)
  BY <1>2, <1>4, FilledType
<1>7. /\ wav' \in [size : Nat, data : Seq(0..Slots)] /\ wav'.size = counted[s]
      /\ wav'.data = Filled(s, spilled[s], total[s])
  BY <1>3, <1>4, <1>6
<1>8. ASSUME ~shared
      PROVE  /\ \A t \in 1..Slots : ~open'[t]
             /\ Len(wav'.data) = total[s] /\ (~cut => counted[s] = total[s])
             /\ \A i \in 1..total[s] : wav'.data[i] = s
  <2>1. /\ \A t \in 1..Slots : open[t] => t = s
        /\ (~cut => counted[s] = total[s])
        /\ Len(wav.data) = spilled[s] /\ \A i \in 1..Len(wav.data) : wav.data[i] = s
    BY <1>2, <1>8 DEF WavInv
  <2>2. \A t \in 1..Slots : ~open'[t]
    BY <1>2, <1>3, <2>1 DEF WavInv
  <2>3. /\ Len(Filled(s, spilled[s], total[s])) = total[s]
        /\ \A i \in 1..total[s] : Filled(s, spilled[s], total[s])[i] = s
    BY <1>2, <1>4, <2>1, FilledAtEnd
  <2> QED
    BY <1>7, <2>1, <2>2, <2>3
<1>9. WavWhole'
  <2>1. ~shared => /\ wav'.size <= Len(wav'.data) /\ (~cut => wav'.size = Len(wav'.data))
                   /\ DOMAIN wav'.data = 1..total[s]
                   /\ \A i \in 1..total[s] : wav'.data[i] = s
    <3>1. wav'.data \in Seq(0..Slots)
      BY <1>7
    <3>2. total[s] \in Nat /\ counted[s] <= total[s] /\ wav'.size = counted[s]
      BY <1>4, <1>7
    <3>3. CASE ~shared
      <4>1. /\ Len(wav'.data) = total[s] /\ (~cut => counted[s] = total[s])
            /\ \A i \in 1..total[s] : wav'.data[i] = s
        BY <1>8, <3>3
      <4> QED
        BY <3>1, <3>2, <4>1
    <3> QED
      BY <3>3
  <2>2. CASE shared
    BY <1>3, <2>2 DEF WavWhole
  <2>3. CASE ~shared
    <3>1. \A i \in DOMAIN wav'.data : wav'.data[i] = s
      BY <2>1, <2>3
    <3>2. s # 0
      BY <1>2, WaveAssumption
    <3>3. cut' = cut
      BY <1>3
    <3> QED
      BY <2>1, <2>3, <3>1, <3>2, <3>3 DEF WavWhole
  <2> QED
    BY <2>2, <2>3
<1> QED
  BY <1>3, <1>5, <1>7, <1>8, <1>9 DEF WavInv

(* Once every device is closed and no two were open together, the header   *)
(* of the WAV file counts its data, all of it one device's, for every      *)
(* number of slots and clients and every pace of stdio; after a write that *)
(* failed half-way it counts less, never more.                             *)
THEOREM WavIsWhole == Spec => []WavWhole
<1>1. WavInv => WavWhole
  BY DEF WavInv
<1>2. Init => WavInv
  <2> SUFFICES ASSUME Init
               PROVE  WavInv
    OBVIOUS
  <2>1. /\ open = [s \in 1..Slots |-> FALSE] /\ total = [s \in 1..Slots |-> 0]
        /\ counted = [s \in 1..Slots |-> 0] /\ spilled = [s \in 1..Slots |-> 0] /\ wav = [size |-> 0, data |-> << >>]
        /\ handle = [c \in Clients |-> 0]
    BY DEF Init, WaveInit
  <2>2. << >> \in Seq(0..Slots) /\ Len(<< >>) = 0 /\ DOMAIN << >> = {}
    OBVIOUS
  <2>3. wav \in [size : Nat, data : Seq(0..Slots)] /\ wav.size = 0 /\ wav.data = << >>
    BY <2>1, <2>2
  <2>4. WavWhole
    BY <2>2, <2>3 DEF WavWhole
  <2> QED
    BY <2>1, <2>3, <2>4, WaveAssumption DEF WavInv
<1>3. WavInv /\ [Next]_vars => WavInv'
  <2> SUFFICES ASSUME WavInv, [Next]_vars
               PROVE  WavInv'
    OBVIOUS
  <2>1. [WaveNext]_waveVars
    BY StepsApart
  <2>2. CASE UNCHANGED waveVars
    BY <2>2 DEF waveVars, WavInv, WavWhole
  <2>3. ASSUME NEW c \in Clients, WaveReset(c)
        PROVE  WavInv'
    BY <2>3 DEF WaveReset, WavInv, WavWhole
  <2> QED
    BY <2>1, <2>2, <2>3, WavOpen, WavWrite, WavSpill, WavClose, Zenon DEF WaveNext
<1> QED
  BY <1>1, <1>2, <1>3, PTL DEF Spec

-----------------------------------------------------------------------------
(* Whatever stage of whatever load fails, nothing stays allocated but the  *)
(* blocks of the image that the caller holds.                              *)
THEOREM LoadsLeakNothing == Spec => []LoadAllOrNothing
<1>1. Init => HeapInv
  BY HeapInit, Zenon DEF Init
<1>2. HeapInv /\ [Next]_vars => HeapInv'
  BY StepsApart, HeapStep
<1>3. HeapInv => LoadAllOrNothing
  BY DEF HeapInv
<1> QED
  BY <1>1, <1>2, <1>3, PTL DEF Spec

(* An import that a load has bound is what a lookup of it returns for as   *)
(* long as the caller keeps the image, whatever is registered meanwhile.   *)
THEOREM ImportsStayBound == Spec => []BoundStaysValid
<1>1. Init => BindInv
  BY BindInit, Zenon DEF Init
<1>2. BindInv /\ [Next]_vars => BindInv'
  BY StepsApart, BindStep
<1>3. BindInv => BoundStaysValid
  BY DEF BindInv, Settled, BoundStaysValid
<1> QED
  BY <1>1, <1>2, <1>3, PTL DEF Spec

-----------------------------------------------------------------------------
(* loader.c: what each byte of the mapped image is from, headers and the   *)
(* sections gone through so far; before the first step all is zero.        *)
DataRange(s) == s.va..s.va + s.size - 1
Rows == [va : Nat, vsize : Nat, offset : Nat, size : Nat]

FromData(i, a) == i <= placed /\ Fits(section[i]) /\ a \in DataRange(section[i])
FromHeaders(a) == IF a < HeaderSize /\ a < RawSize THEN a + 1 ELSE 0
FileByte(i, a) == section[i].offset + (a - section[i].va) + 1

(* The last section that has data for an address is the one that counts.   *)
LastWins(a) ==
  \A i \in 1..Sections :
    (FromData(i, a) /\ \A j \in 1..Sections : FromData(j, a) => j <= i) => mapped[a] = FileByte(i, a)
HasOrigin(a) ==
  \/ mapped[a] = FromHeaders(a)
  \/ \E i \in 1..Sections : FromData(i, a) /\ mapped[a] = FileByte(i, a)

MapInv ==
  /\ placed \in -1..Sections /\ mapped \in [0..ImageSize - 1 -> Nat]
  /\ placed = -1 => \A a \in 0..ImageSize - 1 : mapped[a] = 0
  /\ placed # -1 => \A a \in 0..ImageSize - 1 : LastWins(a) /\ HasOrigin(a)

ImageInv ==
  /\ MapInv
  /\ IF part = "image" THEN section \in Layouts ELSE placed = -1

LEMMA LayoutRows ==
  ASSUME NEW table \in Layouts, NEW i \in 1..Sections
  PROVE  table[i] \in Rows
<1>1. table[i] \in [va : Addresses, vsize : VirtualSizes, offset : Offsets, size : DataSizes]
  BY DEF Layouts
<1> QED
  BY <1>1, ImageAssumption DEF Rows

(* The data of a section is in its span.                                   *)
LEMMA DataInSpan ==
  ASSUME NEW s \in Rows, NEW a \in DataRange(s)
  PROVE  a \in Span(s)
BY DEF Rows, DataRange, Span, Larger

LEMMA MapHeadersKeeps ==
  ASSUME MapInv, MapHeaders
  PROVE  MapInv'
<1>1. /\ mapped' = [a \in DOMAIN mapped |-> IF a < HeaderSize /\ a < RawSize THEN a + 1 ELSE mapped[a]]
      /\ placed' = 0 /\ section' = section /\ placed = -1
  BY DEF MapHeaders
<1>2. mapped \in [0..ImageSize - 1 -> Nat] /\ \A a \in 0..ImageSize - 1 : mapped[a] = 0
  BY <1>1 DEF MapInv
<1>3. ImageSize \in Nat /\ Sections \in Nat
  BY ImageAssumption
<1>4. /\ mapped' \in [0..ImageSize - 1 -> Nat]
      /\ \A a \in 0..ImageSize - 1 : mapped'[a] = FromHeaders(a)
  BY <1>1, <1>2, <1>3 DEF FromHeaders
<1>5. \A i \in 1..Sections : \A a : ~FromData(i, a)'
  BY <1>1, <1>3 DEF FromData
<1>6. placed' \in -1..Sections /\ placed' # -1
  BY <1>1, <1>3
<1>7. \A a : FromHeaders(a)' = FromHeaders(a)
  BY DEF FromHeaders
<1> QED
  BY <1>4, <1>5, <1>6, <1>7 DEF MapInv, LastWins, HasOrigin

LEMMA MapSectionKeeps ==
  ASSUME MapInv, section \in Layouts, MapSection
  PROVE  MapInv'
<1>p. PICK p : p = placed + 1
  OBVIOUS
<1>s. PICK s : s = section[p]
  OBVIOUS
<1>0. Sections \in Nat /\ ImageSize \in Nat
  BY ImageAssumption
<1>1. /\ placed \in 0..Sections - 1 /\ placed' = p /\ section' = section
      /\ mapped' = IF ~Fits(s) THEN mapped
                   ELSE [a \in DOMAIN mapped |->
                           IF a \in DataRange(s) THEN s.offset + (a - s.va) + 1 ELSE mapped[a]]
  BY <1>p, <1>s DEF MapSection, DataRange
<1>2. /\ p \in 1..Sections /\ placed' \in -1..Sections
      /\ placed # -1 /\ placed' # -1
  BY <1>0, <1>1, <1>p
<1>3. s \in Rows
  BY <1>2, <1>s, LayoutRows
<1>4. mapped \in [0..ImageSize - 1 -> Nat]
  BY DEF MapInv
<1>5. ASSUME NEW a \in 0..ImageSize - 1, a \in DataRange(s)
      PROVE  s.offset + (a - s.va) + 1 \in Nat
  BY <1>3, <1>5 DEF DataRange, Rows
<1>6. mapped' \in [0..ImageSize - 1 -> Nat]
  <2>1. CASE ~Fits(s)
    BY <1>1, <1>4, <2>1
  <2>2. CASE Fits(s)
    <3>1. mapped' = [a \in 0..ImageSize - 1 |->
                       IF a \in DataRange(s) THEN s.offset + (a - s.va) + 1 ELSE mapped[a]]
      BY <1>1, <1>4, <2>2
    <3> QED
      BY <1>4, <1>5, <3>1
  <2> QED
    BY <2>1, <2>2
<1>7. /\ \A i \in 1..Sections : \A a :
            FromData(i, a)' <=> i <= p /\ Fits(section[i]) /\ a \in DataRange(section[i])
      /\ \A i, a : FileByte(i, a)' = FileByte(i, a)
      /\ \A a : FromHeaders(a)' = FromHeaders(a)
  BY <1>1 DEF FromData, Fits, DataRange, FileByte, FromHeaders
<1>8. ASSUME NEW a \in 0..ImageSize - 1
      PROVE  LastWins(a)' /\ HasOrigin(a)'
  <2>1. CASE Fits(s) /\ a \in DataRange(s)
    <3>1. mapped'[a] = FileByte(p, a)
      BY <1>1, <1>4, <1>s, <2>1 DEF FileByte
    <3>2. FromData(p, a)'
      BY <1>2, <1>7, <1>s, <2>1
    <3>3. ASSUME NEW i \in 1..Sections, FromData(i, a)', \A j \in 1..Sections : FromData(j, a)' => j <= i
          PROVE  i = p
      <4>1. i <= p /\ p <= i
        BY <1>2, <1>7, <3>2, <3>3
      <4> QED
        BY <1>2, <4>1
    <3> QED
      BY <1>2, <1>7, <3>1, <3>2, <3>3 DEF LastWins, HasOrigin
  <2>2. CASE ~(Fits(s) /\ a \in DataRange(s))
    <3>1. mapped'[a] = mapped[a]
      BY <1>1, <1>4, <2>2
    <3>2. ASSUME NEW i \in 1..Sections
          PROVE  FromData(i, a)' <=> FromData(i, a)
      <4>1. CASE i = p
        BY <1>1, <1>7, <1>p, <1>s, <2>2, <4>1 DEF FromData
      <4>2. CASE i # p
        <5>1. i <= p <=> i <= placed
          BY <1>1, <1>p, <4>2
        <5> QED
          BY <1>7, <5>1 DEF FromData
      <4> QED
        BY <4>1, <4>2
    <3>3. LastWins(a) /\ HasOrigin(a)
      BY <1>2 DEF MapInv
    <3> QED
      BY <1>7, <3>1, <3>2, <3>3 DEF LastWins, HasOrigin
  <2> QED
    BY <2>1, <2>2
<1> QED
  BY <1>2, <1>6, <1>8 DEF MapInv

(* section_for_rva finds a section if some section has the address.        *)
LEMMA SectionFound ==
  ASSUME NEW rva
  PROVE  /\ SectionFor(rva) # 0 =>
              SectionFor(rva) \in 1..Sections /\ rva \in Span(section[SectionFor(rva)])
         /\ SectionFor(rva) = 0 => \A i \in 1..Sections : rva \notin Span(section[i])
<1> DEFINE has == {i \in 1..Sections : rva \in Span(section[i])}
<1>1. SectionFor(rva) = IF has = {} THEN 0 ELSE Min(has)
  BY DEF SectionFor
<1>2. has # {} => Min(has) \in has
  <2>1. has \subseteq Nat
    BY ImageAssumption
  <2> HIDE DEF has
  <2> QED
    BY <2>1, MinIsMember
<1>3. 0 \notin has
  OBVIOUS
<1>4. ASSUME SectionFor(rva) # 0
      PROVE  SectionFor(rva) \in has
  BY <1>1, <1>2, <1>4
<1>5. ASSUME SectionFor(rva) = 0
      PROVE  has = {}
  BY <1>1, <1>2, <1>3, <1>5
<1> QED
  BY <1>4, <1>5

(* What is mapped at an address, and what rva_raw finds for it.            *)
LEMMA TwoWaysAgree ==
  ASSUME MapInv, section \in Layouts, placed = Sections
  PROVE  MappedMatchesRaw
<1>0. /\ RawSize \in Nat /\ ImageSize \in Nat /\ HeaderSize \in Nat /\ Sections \in Nat
      /\ placed # -1
  BY ImageAssumption
<1> SUFFICES ASSUME NEW rva \in 0..ImageSize - 1
             PROVE  LET owners == {j \in 1..Sections : rva \in Span(section[j])}
                        i == SectionFor(rva)
                    IN  /\ /\ CanRead(rva, 1)
                           /\ \A j \in owners : rva >= HeaderSize /\ j = i
                           /\ rva < HeaderSize \/ section[i].va + section[i].size <= ImageSize
                           => mapped[rva] = RawAt(rva) \/ (mapped[rva] = 0 /\ RawAt(rva) > RawSize)
                        /\ mapped[rva] # 0 => CanRead(rva, 1)
                        /\ mapped[rva] > RawSize =>
                             \E j \in owners :
                               RawSize \in section[j].offset + 1..section[j].offset + section[j].size - 1
  BY DEF MappedMatchesRaw
<1> DEFINE owners == {j \in 1..Sections : rva \in Span(section[j])}
<1>1. rva \in Nat /\ rva + 1 <= ImageSize
  BY <1>0
<1>2. LastWins(rva) /\ HasOrigin(rva)
  BY <1>0 DEF MapInv
<1>3. \A j \in 1..Sections : section[j] \in Rows
  BY LayoutRows
<1>4. \A j \in 1..Sections : FromData(j, rva) => j \in owners
  BY <1>3, DataInSpan DEF FromData
<1>5. CanRead(rva, 1) <=> rva < HeaderSize \/ SectionFor(rva) # 0
  BY <1>1 DEF CanRead, HasRva
<1>6. mapped[rva] # 0 => CanRead(rva, 1)
  <2>1. mapped[rva] = FromHeaders(rva) => mapped[rva] = 0 \/ rva < HeaderSize
    BY DEF FromHeaders
  <2>2. (\E j \in 1..Sections : FromData(j, rva)) => SectionFor(rva) # 0
    BY <1>4, SectionFound
  <2> QED
    BY <1>2, <1>5, <2>1, <2>2 DEF HasOrigin
<1>7. ASSUME mapped[rva] > RawSize
      PROVE  \E j \in owners :
               RawSize \in section[j].offset + 1..section[j].offset + section[j].size - 1
  <2>1. mapped[rva] # FromHeaders(rva)
    BY <1>0, <1>1, <1>7 DEF FromHeaders
  <2>2. PICK j \in 1..Sections : FromData(j, rva) /\ mapped[rva] = FileByte(j, rva)
    BY <1>2, <2>1 DEF HasOrigin
  <2>3. PICK s \in Rows : s = section[j]
    BY <1>3
  <2>4. /\ s.offset < RawSize /\ rva >= s.va /\ rva <= s.va + s.size - 1
        /\ mapped[rva] = s.offset + (rva - s.va) + 1
    BY <2>2, <2>3 DEF FromData, Fits, DataRange, FileByte, Rows
  <2>5. s.offset \in Nat /\ s.size \in Nat /\ s.va \in Nat
    BY <2>3 DEF Rows
  <2>6. RawSize \in s.offset + 1..s.offset + s.size - 1
    BY <1>0, <1>1, <1>7, <2>4, <2>5
  <2> QED
    BY <1>4, <2>2, <2>3, <2>6
<1>8. ASSUME CanRead(rva, 1), \A j \in owners : rva >= HeaderSize /\ j = SectionFor(rva),
             rva < HeaderSize \/ section[SectionFor(rva)].va + section[SectionFor(rva)].size <= ImageSize
      PROVE  mapped[rva] = RawAt(rva) \/ (mapped[rva] = 0 /\ RawAt(rva) > RawSize)
  <2>1. CASE rva < HeaderSize
    <3>1. \A j \in 1..Sections : ~FromData(j, rva)
      BY <1>0, <1>1, <1>4, <1>8, <2>1
    <3>2. mapped[rva] = IF rva < RawSize THEN rva + 1 ELSE 0
      BY <1>2, <2>1, <3>1 DEF HasOrigin, FromHeaders
    <3>3. ~(rva >= HeaderSize)
      BY <1>0, <1>1, <2>1
    <3>4. RawAt(rva) = rva + 1
      BY <2>1, <3>3, Zenon DEF RawAt
    <3> QED
      BY <1>0, <1>1, <3>2, <3>4
  <2>2. CASE ~(rva < HeaderSize)
    <3>1. PICK i \in 1..Sections : i = SectionFor(rva) /\ rva \in Span(section[i])
      BY <1>5, <1>8, <2>2, SectionFound
    <3>2. PICK s \in Rows : s = section[i]
      BY <1>3
    <3>3. /\ s.offset \in Nat /\ s.size \in Nat /\ s.va \in Nat
          /\ rva >= s.va /\ rva >= HeaderSize /\ s.va + s.size <= ImageSize
      BY <1>0, <1>1, <1>8, <2>2, <3>1, <3>2 DEF Span, Rows
    <3>4. \A j \in 1..Sections : FromData(j, rva) => j = i
      BY <1>4, <1>8, <3>1
    <3>5. FromData(i, rva) <=> s.offset < RawSize /\ rva - s.va < s.size
      <4>1. i <= placed
        BY <1>0
      <4>2. rva \in DataRange(s) <=> rva - s.va < s.size
        BY <1>1, <3>3 DEF DataRange
      <4>3. rva - s.va < s.size => s.size # 0
        BY <1>1, <3>3
      <4> QED
        BY <3>2, <3>3, <4>1, <4>2, <4>3 DEF FromData, Fits
    <3>6. RawAt(rva) = IF rva - s.va < s.size THEN s.offset + (rva - s.va) + 1 ELSE 0
      <4>1. i # 0
        OBVIOUS
      <4>2. rva - section[i].va < section[i].size <=> rva - s.va < s.size
        BY <3>2
      <4>3. CASE rva - s.va < s.size
        <5>1. RawAt(rva) = section[i].offset + (rva - section[i].va) + 1
          BY <2>2, <3>1, <3>3, <4>1, <4>2, <4>3, Zenon DEF RawAt
        <5> QED
          BY <3>2, <4>3, <5>1
      <4>4. CASE ~(rva - s.va < s.size)
        <5>1. RawAt(rva) = 0
          BY <2>2, <3>1, <3>3, <4>1, <4>2, <4>4, Zenon DEF RawAt
        <5> QED
          BY <4>4, <5>1
      <4> QED
        BY <4>3, <4>4
    <3>7. CASE FromData(i, rva)
      <4>1. mapped[rva] = FileByte(i, rva)
        BY <1>2, <3>4, <3>7 DEF LastWins
      <4> QED
        BY <3>2, <3>5, <3>6, <3>7, <4>1 DEF FileByte
    <3>8. CASE ~FromData(i, rva)
      <4>1. mapped[rva] = 0
        BY <1>2, <2>2, <3>4, <3>8 DEF HasOrigin, FromHeaders
      <4>2. CASE rva - s.va < s.size
        <5>1. s.offset >= RawSize
          BY <1>0, <3>3, <3>5, <3>8, <4>2
        <5> QED
          BY <1>0, <1>1, <3>3, <3>6, <4>1, <4>2, <5>1
      <4>3. CASE ~(rva - s.va < s.size)
        BY <3>6, <4>1, <4>3
      <4> QED
        BY <4>2, <4>3
    <3> QED
      BY <3>7, <3>8
  <2> QED
    BY <2>1, <2>2
<1> QED
  BY <1>6, <1>7, <1>8

(* Only a process that maps an image goes through its sections.            *)
LEMMA ImageStepKeeps == ImageInv /\ [Next]_vars => ImageInv'
<1> SUFFICES ASSUME ImageInv, [Next]_vars
             PROVE  ImageInv'
  OBVIOUS
<1>1. CASE UNCHANGED vars
  BY <1>1 DEF vars, imageVars, ImageInv, MapInv, LastWins, HasOrigin, FileByte, FromData, Fits, DataRange, FromHeaders
<1>2. ASSUME Next, UNCHANGED imageVars
      PROVE  ImageInv'
  <2>1. part' = part /\ section' = section /\ mapped' = mapped /\ placed' = placed
    BY <1>2 DEF Next, imageVars
  <2> QED
    BY <2>1 DEF ImageInv, MapInv, LastWins, HasOrigin, FileByte, FromData, Fits, DataRange, FromHeaders
<1>3. ASSUME Next, part = "image", ImageStep
      PROVE  ImageInv'
  <2>1. part' = part
    BY <1>3 DEF Next
  <2>2. section \in Layouts /\ section' = section
    BY <1>3 DEF ImageInv, ImageStep, MapHeaders, MapSection
  <2>3. MapInv'
    BY <1>3, <2>2, MapHeadersKeeps, MapSectionKeeps DEF ImageStep, ImageInv
  <2>4. section' \in Layouts
    BY <2>2
  <2> QED
    BY <1>3, <2>1, <2>3, <2>4 DEF ImageInv
<1>4. Next => UNCHANGED imageVars \/ (part = "image" /\ ImageStep)
  BY Zenon DEF Next, OthersUnchanged, Leave
<1> QED
  BY <1>1, <1>2, <1>3, <1>4

(* A byte read by an address that only one section or only the headers     *)
(* have is the byte of the file that rva_raw finds for it, and bytes from  *)
(* behind the file are only in sections that its end cuts: for every       *)
(* section table, overlapping or not, and every size of file, image and    *)
(* headers.                                                                *)
THEOREM ImageReadsRaw == Spec => []MappedMatchesRaw
<1>1. ImageInv => MappedMatchesRaw
  <2> SUFFICES ASSUME ImageInv
               PROVE  MappedMatchesRaw
    OBVIOUS
  <2>1. CASE placed = Sections
    <3>1. placed # -1
      BY <2>1, ImageAssumption
    <3>2. section \in Layouts
      BY <3>1 DEF ImageInv
    <3> QED
      BY <2>1, <3>2, TwoWaysAgree DEF ImageInv
  <2>2. CASE placed # Sections
    BY <2>2 DEF MappedMatchesRaw
  <2> QED
    BY <2>1, <2>2
<1>2. Init => ImageInv
  <2> SUFFICES ASSUME Init
               PROVE  ImageInv
    OBVIOUS
  <2>1. /\ mapped = [a \in 0..ImageSize - 1 |-> 0] /\ placed = -1
        /\ part = "image" => section \in Layouts
    BY DEF Init, ImageInit, IdleImage
  <2> QED
    BY <2>1, ImageAssumption DEF ImageInv, MapInv
<1> QED
  BY <1>1, <1>2, ImageStepKeeps, PTL DEF Spec

-----------------------------------------------------------------------------
(* security.c: what the check of a mask has made of the first entries.     *)
Aces == [allow : BOOLEAN, sid : Sids, mask : SUBSET Rights]
AceInv == dacl \in Seq(Aces)

Verdicts == {"none", "allowed", "denied"}
NextVerdict(mask, i, before) ==
  IF before = "denied" \/ ~Applies(dacl[i], mask) THEN before
  ELSE IF dacl[i].allow THEN "allowed" ELSE "denied"

Allows(mask, i) == Applies(dacl[i], mask) /\ dacl[i].allow
Denies(mask, i) == Applies(dacl[i], mask) /\ ~dacl[i].allow

LEMMA AclWalk ==
  ASSUME AceInv, NEW mask
  PROVE  \E f : /\ f = [i \in 0..Len(dacl) |->
                          IF i = 0 THEN "none" ELSE NextVerdict(mask, i, f[i - 1])]
                /\ AclCheck(mask) <=> f[Len(dacl)] = "allowed"
<1>1. PICK n : n = Len(dacl) /\ n \in Nat
  BY DEF AceInv
<1>2. PICK step : step = [i \in 1..n |-> [v \in Verdicts |-> NextVerdict(mask, i, v)]]
  OBVIOUS
<1>3. Steps(n, Verdicts, "none", step)
  <2>1. \A i \in 1..n, v \in Verdicts : NextVerdict(mask, i, v) \in Verdicts
    BY DEF NextVerdict, Verdicts
  <2>2. "none" \in Verdicts
    BY DEF Verdicts
  <2> QED
    BY <1>1, <1>2, <2>1, <2>2 DEF Steps
<1>4. PICK f : Follows(f, n, Verdicts, "none", step)
  BY <1>3, RecursionExists
<1>5. /\ f \in [0..n -> Verdicts] /\ f[0] = "none"
      /\ \A i \in 1..n : f[i] = NextVerdict(mask, i, f[i - 1])
  BY <1>1, <1>2, <1>4 DEF Follows
<1>6. f = [i \in 0..n |-> IF i = 0 THEN "none" ELSE NextVerdict(mask, i, f[i - 1])]
  BY <1>1, <1>5
<1> DEFINE g == CHOOSE g : g = [i \in 0..Len(dacl) |->
                                  IF i = 0 THEN "none" ELSE NextVerdict(mask, i, g[i - 1])]
<1>7. g = [i \in 0..Len(dacl) |-> IF i = 0 THEN "none" ELSE NextVerdict(mask, i, g[i - 1])]
  BY <1>1, <1>6, Zenon
<1>8. AclCheck(mask) <=> g[Len(dacl)] = "allowed"
  BY Zenon DEF AclCheck, NextVerdict
<1> HIDE DEF g
<1> QED
  BY <1>7, <1>8

(* Deny wins: one denying entry decides, wherever it stands.               *)
LEMMA AclDecides ==
  ASSUME AceInv, NEW mask
  PROVE  AclCheck(mask) <=> /\ \E i \in 1..Len(dacl) : Allows(mask, i)
                            /\ \A i \in 1..Len(dacl) : ~Denies(mask, i)
<1>1. PICK n : n = Len(dacl) /\ n \in Nat
  BY DEF AceInv
<1>2. PICK f : /\ f = [i \in 0..Len(dacl) |->
                          IF i = 0 THEN "none" ELSE NextVerdict(mask, i, f[i - 1])]
               /\ AclCheck(mask) <=> f[Len(dacl)] = "allowed"
  BY AclWalk
<1>3. f[0] = "none" /\ \A i \in 1..n : f[i] = NextVerdict(mask, i, f[i - 1])
  BY <1>1, <1>2
<1> DEFINE Right(i) ==
             /\ f[i] \in Verdicts
             /\ f[i] = "denied" <=> \E j \in 1..i : Denies(mask, j)
             /\ f[i] = "allowed" <=> /\ \E j \in 1..i : Allows(mask, j)
                                     /\ \A j \in 1..i : ~Denies(mask, j)
           right == {i \in 0..n : Right(i)}
<1>4. 0 \in right
  <2>1. \A j \in 1..0 : FALSE
    OBVIOUS
  <2> QED
    BY <1>1, <1>3, <2>1 DEF Verdicts
<1>5. ASSUME NEW i \in 1..n, Right(i - 1)
      PROVE  Right(i)
  <2>1. \A j : j \in 1..i <=> j = i \/ j \in 1..i - 1
    BY <1>1
  <2>2. f[i] = NextVerdict(mask, i, f[i - 1])
    BY <1>3
  <2>3. PICK v : v = f[i - 1]
    OBVIOUS
  <2>4. /\ v \in Verdicts
        /\ v = "denied" <=> \E j \in 1..i - 1 : Denies(mask, j)
        /\ v = "allowed" <=> /\ \E j \in 1..i - 1 : Allows(mask, j)
                             /\ \A j \in 1..i - 1 : ~Denies(mask, j)
    BY <1>5, <2>3
  <2>5. /\ (\E j \in 1..i : Denies(mask, j)) <=> Denies(mask, i) \/ v = "denied"
        /\ (\E j \in 1..i : Allows(mask, j)) <=> Allows(mask, i) \/ \E j \in 1..i - 1 : Allows(mask, j)
    BY <2>1, <2>4
  <2>6. CASE v = "denied"
    <3>1. f[i] = "denied"
      BY <2>2, <2>3, <2>6 DEF NextVerdict
    <3> QED
      BY <2>5, <2>6, <3>1 DEF Verdicts
  <2>7. CASE v # "denied" /\ ~Applies(dacl[i], mask)
    <3>1. f[i] = v /\ ~Denies(mask, i) /\ ~Allows(mask, i)
      BY <2>2, <2>3, <2>7 DEF NextVerdict, Denies, Allows
    <3> QED
      BY <2>4, <2>5, <2>7, <3>1
  <2>8. CASE v # "denied" /\ Applies(dacl[i], mask) /\ dacl[i].allow
    <3>1. f[i] = "allowed" /\ ~Denies(mask, i) /\ Allows(mask, i)
      BY <2>2, <2>3, <2>8 DEF NextVerdict, Denies, Allows
    <3> QED
      BY <2>4, <2>5, <2>8, <3>1 DEF Verdicts
  <2>9. CASE v # "denied" /\ Applies(dacl[i], mask) /\ ~dacl[i].allow
    <3>1. f[i] = "denied" /\ Denies(mask, i)
      BY <2>2, <2>3, <2>9 DEF NextVerdict, Denies, Allows
    <3> QED
      BY <2>4, <2>5, <2>9, <3>1 DEF Verdicts
  <2> QED
    BY <2>6, <2>7, <2>8, <2>9
<1>6. Right(n)
  <2>1. \A i \in 1..n : i - 1 \in right => i \in right
    <3> HIDE DEF Right
    <3> QED
      BY <1>5
  <2> HIDE DEF right
  <2>2. \A i \in 0..n : i \in right
    BY <1>1, <1>4, <2>1, Climb, Zenon
  <2>3. n \in 0..n
    BY <1>1
  <2> QED
    BY <2>2, <2>3 DEF right
<1> QED
  BY <1>1, <1>2, <1>6

LEMMA DenialWins == AceInv => DenyWins
<1> SUFFICES ASSUME AceInv
             PROVE  DenyWins
  OBVIOUS
<1> DEFINE Entries(allow) ==
             {i \in DOMAIN dacl : dacl[i].allow = allow /\ dacl[i].sid \in {impersonated, TokenGroup}}
           Whole(allow, mask) == \E i \in Entries(allow) : mask \subseteq dacl[i].mask
           Part(allow, mask) == \E i \in Entries(allow) : mask \cap dacl[i].mask # {}
<1>1. DOMAIN dacl = 1..Len(dacl) /\ \A i \in DOMAIN dacl : dacl[i].allow \in BOOLEAN
  <2>1. \A i \in DOMAIN dacl : dacl[i] \in Aces
    BY DEF AceInv
  <2> QED
    BY <2>1 DEF AceInv, Aces
<1>2. ASSUME NEW mask
      PROVE  AclCheck(mask) <=> Whole(TRUE, mask) /\ ~Whole(FALSE, mask)
  <2>1. \A i \in 1..Len(dacl) : Allows(mask, i) <=> i \in Entries(TRUE) /\ mask \subseteq dacl[i].mask
    BY <1>1 DEF Allows, Applies, TokenHasSid
  <2>2. \A i \in 1..Len(dacl) : Denies(mask, i) <=> i \in Entries(FALSE) /\ mask \subseteq dacl[i].mask
    BY <1>1 DEF Denies, Applies, TokenHasSid
  <2>3. \A allow : Entries(allow) \subseteq 1..Len(dacl)
    BY <1>1
  <2> HIDE DEF Entries
  <2> QED
    BY <2>1, <2>2, <2>3, AclDecides
<1>3. ASSUME NEW mask \in (SUBSET Rights) \ {{}}, ~Part(FALSE, mask)
      PROVE  ~Whole(FALSE, mask)
  <2>1. \A i \in Entries(FALSE) : mask \cap dacl[i].mask = {}
    BY <1>3
  <2>2. mask # {} /\ \A r : r \in {} <=> FALSE
    OBVIOUS
  <2> HIDE DEF Entries
  <2>3. ASSUME NEW i \in Entries(FALSE), mask \subseteq dacl[i].mask
        PROVE  FALSE
    BY <2>1, <2>2, <2>3
  <2> QED
    BY <2>3
<1> HIDE DEF Whole, Part
<1>4. \A mask \in (SUBSET Rights) \ {{}} :
         /\ AclCheck(mask) => Whole(TRUE, mask) /\ ~Whole(FALSE, mask)
         /\ Whole(TRUE, mask) /\ ~Part(FALSE, mask) => AclCheck(mask)
  BY <1>2, <1>3, Zenon
<1> QED
  BY <1>4, Zenon DEF DenyWins, Whole, Part, Entries

LEMMA AceStep == AceInv /\ [AccessStep]_accessVars => AceInv'
<1> SUFFICES ASSUME AceInv, [AccessStep]_accessVars
             PROVE  AceInv'
  OBVIOUS
<1>1. ASSUME NEW allow \in BOOLEAN, NEW sid \in Sids, NEW mask \in SUBSET Rights,
             AclAdd(allow, sid, mask)
      PROVE  AceInv'
  <2>1. [allow |-> allow, sid |-> sid, mask |-> mask] \in Aces
    BY DEF Aces
  <2> QED
    BY <1>1, <2>1 DEF AclAdd, AceInv
<1>2. ASSUME dacl' = dacl
      PROVE  AceInv'
  BY <1>2 DEF AceInv
<1> QED
  BY <1>1, <1>2, Zenon DEF AccessStep, Impersonate, Revert, accessVars

-----------------------------------------------------------------------------
(* plugin.c: the newest request about each name is the row of that name,   *)
(* in the order of the first requests.                                     *)
Request(k, i, e) == [kind |-> k, order |-> i, entry |-> e]
RequestsOf(t) == UNION {{Request(k, i, t[k][i]) : i \in DOMAIN t[k]} : k \in Kinds}

OneOfAName(t) ==
  \A k \in Kinds : /\ Len(t[k]) <= BackendSlots
                   /\ \A i, j \in DOMAIN t[k] : t[k][i].name = t[k][j].name => i = j

BackendInv ==
  /\ seeded \in BOOLEAN
  /\ backends \in [Kinds -> Seq(BackendRows)] /\ OneOfAName(backends)
  /\ wanted = RequestsOf(backends)
  /\ ~seeded => backends = Nothing

LEMMA RequestsAreRows ==
  ASSUME NEW t
  PROVE  \A r : r \in RequestsOf(t) <=> \E k \in Kinds : \E i \in DOMAIN t[k] : r = Request(k, i, t[k][i])
<1> DEFINE Of(k) == {Request(k, i, t[k][i]) : i \in DOMAIN t[k]}
<1>1. RequestsOf(t) = UNION {Of(k) : k \in Kinds}
  BY DEF RequestsOf
<1>2. \A r, k : r \in Of(k) <=> \E i \in DOMAIN t[k] : r = Request(k, i, t[k][i])
  BY Zenon
<1> HIDE DEF Of
<1>3. \A r : r \in RequestsOf(t) <=> \E k \in Kinds : r \in Of(k)
  BY <1>1
<1> QED
  BY <1>2, <1>3, Zenon

LEMMA RequestFields ==
  \A k, i, e : /\ Request(k, i, e).kind = k /\ Request(k, i, e).order = i
               /\ Request(k, i, e).entry = e
BY DEF Request

LEMMA TableTells ==
  ASSUME BackendInv
  PROVE  /\ Table \in [Kinds -> Seq(BackendRows)] /\ OneOfAName(Table)
         /\ Requests = RequestsOf(Table)
<1>1. CASE seeded
  BY <1>1 DEF BackendInv, Table, Requests
<1>2. CASE ~seeded
  <2>1. Table = Seeds
    BY <1>2 DEF Table
  <2>2. Requests = RequestsOf(Seeds)
    BY <1>2, Zenon DEF Requests, RequestsOf, Request
  <2> QED
    BY <2>1, <2>2, BackendAssumption DEF OneOfAName
<1> QED
  BY <1>1, <1>2

LEMMA BackendStarts == BackendInit => BackendInv
<1> SUFFICES ASSUME BackendInit
             PROVE  BackendInv
  OBVIOUS
<1>1. backends = Nothing /\ seeded = FALSE /\ wanted = {}
  BY DEF BackendInit
<1>2. << >> \in Seq(BackendRows)
  OBVIOUS
<1>3. \A k \in Kinds : backends[k] = << >>
  BY <1>1 DEF Nothing
<1>4. backends \in [Kinds -> Seq(BackendRows)]
  BY <1>1, <1>2 DEF Nothing
<1>5. RequestsOf(backends) = {}
  <2>1. \A r : r \notin RequestsOf(backends)
    BY <1>3, RequestsAreRows
  <2> QED
    BY <2>1
<1>6. OneOfAName(backends)
  BY <1>3, BackendAssumption DEF OneOfAName
<1> QED
  BY <1>1, <1>4, <1>5, <1>6 DEF BackendInv

(* There are as many requests of a kind as rows in its table.              *)
LEMMA RowsOfAKind ==
  ASSUME NEW t \in [Kinds -> Seq(BackendRows)], NEW k \in Kinds
  PROVE  Cardinality({r \in RequestsOf(t) : r.kind = k}) = Len(t[k])
<1> DEFINE asked == {r \in RequestsOf(t) : r.kind = k}
           row == [i \in 1..Len(t[k]) |-> Request(k, i, t[k][i])]
<1>1. Len(t[k]) \in Nat /\ DOMAIN t[k] = 1..Len(t[k])
  OBVIOUS
<1>2. \A r : r \in asked <=> \E i \in 1..Len(t[k]) : r = row[i]
  <2>1. ASSUME NEW r
        PROVE  r \in asked <=> \E i \in 1..Len(t[k]) : r = Request(k, i, t[k][i])
    BY <1>1, RequestsAreRows, RequestFields
  <2>2. \A i \in 1..Len(t[k]) : row[i] = Request(k, i, t[k][i])
    OBVIOUS
  <2> HIDE DEF asked, row
  <2> QED
    BY <2>1, <2>2
<1>3. row \in Bijection(1..Len(t[k]), asked)
  <2>1. \A i \in 1..Len(t[k]) : row[i].order = i
    BY RequestFields
  <2>2. row \in [1..Len(t[k]) -> asked]
    BY <1>2
  <2> QED
    <3>1. IsInjective(row)
      BY <2>1, <2>2 DEF IsInjective
    <3>2. \A r \in asked : \E i \in 1..Len(t[k]) : row[i] = r
      BY <1>2
    <3> HIDE DEF row, asked
    <3> QED
      BY <2>2, <3>1, <3>2 DEF Bijection, Injection, Surjection
<1>4. IsFiniteSet(1..Len(t[k])) /\ Cardinality(1..Len(t[k])) = Len(t[k])
  <2>1. PICK n \in Nat : n = Len(t[k])
    BY <1>1
  <2>2. IsFiniteSet(1..n) /\ Cardinality(1..n) = n
    BY FS_Interval
  <2> QED
    BY <2>1, <2>2
<1> HIDE DEF asked, row
<1>5. Cardinality(asked) = Cardinality(1..Len(t[k]))
  BY <1>3, <1>4, FS_Bijection DEF ExistsBijection
<1> QED
  BY <1>4, <1>5 DEF asked

LEMMA BackendRegister ==
  ASSUME BackendInv, NEW k \in Kinds, NEW e \in BackendRows, Register(k, e)
  PROVE  BackendInv'
<1>1. PICK t : t = Table
  OBVIOUS
<1>3. t \in [Kinds -> Seq(BackendRows)] /\ OneOfAName(t) /\ Requests = RequestsOf(t)
  BY <1>1, TableTells
<1>4. DOMAIN t[k] = 1..Len(t[k]) /\ Len(t[k]) \in Nat /\ t[k] \in Seq(BackendRows)
  BY <1>3
<1> DEFINE known == {r \in Requests : r.kind = k /\ r.entry.name = e.name}
           named == {i \in DOMAIN t[k] : t[k][i].name = e.name}
<1>5. named = Registered(k, e.name)
  BY <1>1 DEF Registered
<1>6. seeded' = TRUE
  BY DEF Register
<1>7. ASSUME NEW i \in named
      PROVE  BackendInv'
  <2>1. named = {i}
    BY <1>3 DEF OneOfAName
  <2>2. Min(named) = i
    <3>1. named \subseteq Nat
      BY <1>4
    <3>2. named # {}
      BY <2>1
    <3>3. Min(named) \in named
      BY <3>1, <3>2, MinIsMember, Zenon
    <3> QED
      BY <2>1, <3>3
  <2> DEFINE u == [t EXCEPT ![k] = [@ EXCEPT ![i] = e]]
  <2>3. backends' = u
    BY <1>1, <1>5, <2>1, <2>2 DEF Register
  <2>4. u[k] = [t[k] EXCEPT ![i] = e] /\ \A c \in Kinds \ {k} : u[c] = t[c]
    BY <1>3
  <2>5. u[k] \in Seq(BackendRows) /\ Len(u[k]) = Len(t[k]) /\ DOMAIN u[k] = DOMAIN t[k]
    BY <1>4, <2>4
  <2>6. u \in [Kinds -> Seq(BackendRows)]
    BY <1>3, <2>5
  <2>7. u[k][i] = e /\ \A j \in DOMAIN t[k] \ {i} : u[k][j] = t[k][j]
    BY <1>4, <2>4
  <2>8. \A j \in DOMAIN t[k] : u[k][j].name = t[k][j].name
    BY <2>1, <2>7
  <2> HIDE DEF u
  <2>9. OneOfAName(u)
    <3>1. ASSUME NEW c \in Kinds
          PROVE  DOMAIN u[c] = DOMAIN t[c] /\ Len(u[c]) = Len(t[c])
                 /\ \A j \in DOMAIN t[c] : u[c][j].name = t[c][j].name
      BY <2>4, <2>5, <2>8
    <3> QED
      BY <1>3, <3>1 DEF OneOfAName
  <2>10. known = {Request(k, i, t[k][i])}
    <3>1. \A r : r \in known <=> r = Request(k, i, t[k][i])
      BY <1>3, <2>1, RequestsAreRows DEF Request
    <3> QED
      BY <3>1
  <2>11. wanted' = (Requests \ known) \cup {Request(k, i, e)}
    <3>1. wanted' = (Requests \ known) \cup {[r EXCEPT !.entry = e] : r \in known}
      BY <2>10, Zenon DEF Register
    <3>2. [Request(k, i, t[k][i]) EXCEPT !.entry = e] = Request(k, i, e)
      BY DEF Request
    <3> QED
      BY <2>10, <3>1, <3>2
  <2>12. wanted' = RequestsOf(u)
    <3>1. ASSUME NEW r
          PROVE  r \in wanted' <=> r \in RequestsOf(u)
      <4>1. r \in Requests <=> \E c \in Kinds : \E j \in DOMAIN t[c] : r = Request(c, j, t[c][j])
        BY <1>3, RequestsAreRows
      <4>2. r \in RequestsOf(u) <=> \E c \in Kinds : \E j \in DOMAIN u[c] : r = Request(c, j, u[c][j])
        BY RequestsAreRows
      <4>3. r \in wanted' <=> \/ r \in Requests /\ r # Request(k, i, t[k][i])
                              \/ r = Request(k, i, e)
        BY <2>10, <2>11
      <4>4. ASSUME r \in wanted'
            PROVE  r \in RequestsOf(u)
        <5>1. CASE r = Request(k, i, e)
          BY <2>5, <2>7, <4>2, <5>1
        <5>2. CASE r \in Requests /\ r # Request(k, i, t[k][i])
          <6>1. PICK c, j : c \in Kinds /\ j \in DOMAIN t[c] /\ r = Request(c, j, t[c][j])
            BY <4>1, <5>2
          <6>2. CASE c = k
            BY <2>5, <2>7, <4>2, <5>2, <6>1, <6>2
          <6>3. CASE c # k
            BY <2>4, <4>2, <6>1, <6>3
          <6> QED
            BY <6>2, <6>3
        <5> QED
          BY <4>3, <4>4, <5>1, <5>2
      <4>5. ASSUME r \in RequestsOf(u)
            PROVE  r \in wanted'
        <5>1. PICK c, j : c \in Kinds /\ j \in DOMAIN u[c] /\ r = Request(c, j, u[c][j])
          BY <4>2, <4>5
        <5>2. r.kind = c /\ r.order = j
          BY <5>1 DEF Request
        <5>3. Request(k, i, t[k][i]).kind = k /\ Request(k, i, t[k][i]).order = i
          BY DEF Request
        <5>4. CASE c = k /\ j = i
          BY <2>7, <4>3, <5>1, <5>4
        <5>5. CASE c = k /\ j # i
          <6>1. r \in Requests
            BY <2>5, <2>7, <4>1, <5>1, <5>5
          <6> QED
            BY <4>3, <5>2, <5>3, <5>5, <6>1
        <5>6. CASE c # k
          <6>1. r \in Requests
            BY <2>4, <4>1, <5>1, <5>6
          <6> QED
            BY <4>3, <5>2, <5>3, <5>6, <6>1
        <5> QED
          BY <5>4, <5>5, <5>6
      <4> QED
        BY <4>4, <4>5
    <3> QED
      BY <3>1
  <2> QED
    BY <1>6, <2>3, <2>6, <2>9, <2>12 DEF BackendInv
<1>8. CASE named = {}
  <2>1. known = {}
    <3>1. ASSUME NEW r \in known
          PROVE  FALSE
      <4>1. PICK c, j : c \in Kinds /\ j \in DOMAIN t[c] /\ r = Request(c, j, t[c][j])
        BY <1>3, RequestsAreRows
      <4>2. c = k /\ j \in named
        BY <4>1 DEF Request
      <4> QED
        BY <1>8, <4>2
    <3> QED
      BY <3>1
  <2>2. Cardinality({r \in Requests : r.kind = k}) = Len(t[k])
    BY <1>3, RowsOfAKind
  <2>3. CASE Len(t[k]) >= BackendSlots
    <3>1. backends' = t
      <4>1. ~(Len(t[k]) < BackendSlots) /\ Registered(k, e.name) = {}
        BY <1>4, <1>5, <1>8, <2>3, BackendAssumption
      <4>2. backends' = [t EXCEPT ![k] = t[k]]
        BY <1>1, <4>1 DEF Register
      <4> QED
        BY <1>3, <4>2
    <3>2. wanted' = Requests
      <4>1. ~(Len(t[k]) < BackendSlots)
        BY <1>4, <2>3, BackendAssumption
      <4> QED
        BY <2>1, <2>2, <4>1, Zenon DEF Register
    <3> QED
      BY <1>3, <1>6, <3>1, <3>2 DEF BackendInv
  <2>4. CASE Len(t[k]) < BackendSlots
    <3> DEFINE u == [t EXCEPT ![k] = Append(@, e)]
    <3>1. backends' = u
      BY <1>1, <1>5, <1>8, <2>4 DEF Register
    <3>2. u[k] = Append(t[k], e) /\ \A c \in Kinds \ {k} : u[c] = t[c]
      BY <1>3
    <3>3. /\ u[k] \in Seq(BackendRows) /\ Len(u[k]) = Len(t[k]) + 1
          /\ DOMAIN u[k] = 1..Len(t[k]) + 1
          /\ u[k][Len(t[k]) + 1] = e
          /\ \A j \in DOMAIN t[k] : u[k][j] = t[k][j]
      BY <1>4, <3>2
    <3>4. u \in [Kinds -> Seq(BackendRows)]
      BY <1>3, <3>3
    <3> HIDE DEF u
    <3>5. OneOfAName(u)
      <4>1. ASSUME NEW i \in DOMAIN u[k], NEW j \in DOMAIN u[k], u[k][i].name = u[k][j].name
            PROVE  i = j
        <5>1. \A l \in DOMAIN u[k] : l \in DOMAIN t[k] \/ l = Len(t[k]) + 1
          BY <1>4, <3>3
        <5>2. \A l \in DOMAIN t[k] : t[k][l].name # e.name
          BY <1>8
        <5> QED
          BY <1>3, <3>3, <4>1, <5>1, <5>2 DEF OneOfAName
      <4>2. Len(u[k]) <= BackendSlots
        BY <1>4, <2>4, <3>3, BackendAssumption
      <4> QED
        BY <1>3, <3>2, <4>1, <4>2 DEF OneOfAName
    <3>6. wanted' = Requests \cup {Request(k, Len(t[k]) + 1, e)}
      BY <2>1, <2>2, <2>4, Zenon DEF Register, Request
    <3>7. wanted' = RequestsOf(u)
      <4>1. ASSUME NEW r
            PROVE  r \in wanted' <=> r \in RequestsOf(u)
        <5>1. r \in Requests <=> \E c \in Kinds : \E j \in DOMAIN t[c] : r = Request(c, j, t[c][j])
          BY <1>3, RequestsAreRows
        <5>2. r \in RequestsOf(u) <=> \E c \in Kinds : \E j \in DOMAIN u[c] : r = Request(c, j, u[c][j])
          BY RequestsAreRows
        <5>3. \A j : j \in DOMAIN u[k] <=> j \in DOMAIN t[k] \/ j = Len(t[k]) + 1
          BY <1>4, <3>3
        <5> QED
          BY <3>2, <3>3, <3>6, <5>1, <5>2, <5>3
      <4> QED
        BY <4>1
    <3> QED
      BY <1>6, <3>1, <3>4, <3>5, <3>7 DEF BackendInv
  <2> QED
    BY <1>4, <2>3, <2>4, BackendAssumption
<1> QED
  BY <1>7, <1>8

LEMMA BackendAvailable ==
  ASSUME BackendInv, NEW name, NEW a \in BOOLEAN, SetAvailable(name, a)
  PROVE  BackendInv'
<1> DEFINE Set(e) == IF e.name = name THEN [e EXCEPT !.available = a] ELSE e
<1>1. \A e \in BackendRows : Set(e) \in BackendRows /\ Set(e).name = e.name
  BY DEF BackendRows
<1>2. /\ backends' = [k \in Kinds |-> [i \in DOMAIN backends[k] |-> Set(backends[k][i])]]
      /\ wanted' = {IF r.entry.name = name THEN [r EXCEPT !.entry.available = a] ELSE r : r \in wanted}
      /\ seeded' = seeded
  BY DEF SetAvailable
<1>3. backends \in [Kinds -> Seq(BackendRows)] /\ OneOfAName(backends) /\ wanted = RequestsOf(backends)
  BY DEF BackendInv
<1>4. \A k \in Kinds : \A i \in DOMAIN backends[k] : backends[k][i] \in BackendRows
  BY <1>3
<1>5. ASSUME NEW k \in Kinds
      PROVE  /\ DOMAIN backends'[k] = DOMAIN backends[k] /\ Len(backends'[k]) = Len(backends[k])
             /\ \A i \in DOMAIN backends[k] : backends'[k][i] = Set(backends[k][i])
             /\ backends'[k] \in Seq(BackendRows)
  <2>1. backends'[k] = [i \in DOMAIN backends[k] |-> Set(backends[k][i])]
    BY <1>2
  <2>2. DOMAIN backends[k] = 1..Len(backends[k]) /\ Len(backends[k]) \in Nat
    BY <1>3
  <2> HIDE DEF Set
  <2>3. backends'[k] \in Seq(BackendRows) /\ Len(backends'[k]) = Len(backends[k])
    BY <1>1, <1>4, <2>1, <2>2
  <2> QED
    BY <2>1, <2>3
<1>6. backends' \in [Kinds -> Seq(BackendRows)]
  BY <1>2, <1>5
<1>7. OneOfAName(backends')
  <2> HIDE DEF Set
  <2> QED
    BY <1>1, <1>3, <1>4, <1>5 DEF OneOfAName
<1>8. wanted' = RequestsOf(backends')
  <2> DEFINE Change(r) == IF r.entry.name = name THEN [r EXCEPT !.entry.available = a] ELSE r
  <2>1. \A k \in Kinds : \A i \in DOMAIN backends[k] :
           Change(Request(k, i, backends[k][i])) = Request(k, i, backends'[k][i])
    BY <1>5 DEF Request
  <2>3. wanted' = {Change(q) : q \in wanted}
    BY <1>2
  <2> HIDE DEF Change, Set
  <2>2. ASSUME NEW r
        PROVE  r \in wanted' <=> r \in RequestsOf(backends')
    <3>1. r \in wanted' <=> \E k \in Kinds : \E i \in DOMAIN backends[k] : r = Request(k, i, backends'[k][i])
      <4>1. r \in wanted' <=> \E q \in wanted : r = Change(q)
        BY <2>3
      <4>2. \A q : q \in wanted <=> \E k \in Kinds : \E i \in DOMAIN backends[k] :
                                      q = Request(k, i, backends[k][i])
        BY <1>3, RequestsAreRows
      <4> QED
        BY <2>1, <4>1, <4>2
    <3> QED
      BY <1>5, <3>1, RequestsAreRows
  <2> QED
    BY <2>2
<1>9. ~seeded => backends' = Nothing
  <2> SUFFICES ASSUME ~seeded
               PROVE  backends' = Nothing
    OBVIOUS
  <2>1. \A k \in Kinds : backends[k] = << >>
    BY DEF BackendInv, Nothing
  <2>2. \A k \in Kinds : backends'[k] = << >>
    BY <1>5, <2>1
  <2> QED
    BY <1>6, <2>2 DEF Nothing
<1> QED
  BY <1>2, <1>6, <1>7, <1>8, <1>9 DEF BackendInv

LEMMA BackendKeeps == BackendInv /\ [BackendStep]_backendVars => BackendInv'
<1> SUFFICES ASSUME BackendInv, [BackendStep]_backendVars
             PROVE  BackendInv'
  OBVIOUS
<1>1. CASE SeedDefaults
  <2>1. backends' = Table /\ seeded' = TRUE /\ wanted' = Requests
    BY <1>1 DEF SeedDefaults
  <2>2. PICK t : t = Table
    OBVIOUS
  <2> QED
    BY <2>1, <2>2, TableTells DEF BackendInv
<1>2. ASSUME NEW k \in Kinds, NEW n \in BackendNames, NEW p \in Priorities, NEW a \in BOOLEAN,
             Register(k, [name |-> n, priority |-> p, available |-> a])
      PROVE  BackendInv'
  <2>1. PICK e : e = [name |-> n, priority |-> p, available |-> a]
    OBVIOUS
  <2>2. Register(k, e)
    BY <1>2, <2>1, Zenon
  <2>3. e \in BackendRows
    BY <2>1, BackendAssumption DEF BackendRows
  <2> QED
    BY <2>2, <2>3, BackendRegister
<1>3. ASSUME NEW n \in BackendNames, NEW a \in BOOLEAN, SetAvailable(n, a)
      PROVE  BackendInv'
  BY <1>3, BackendAvailable
<1>4. CASE UNCHANGED backendVars
  BY <1>4 DEF backendVars, BackendInv
<1> QED
  BY <1>1, <1>2, <1>3, <1>4, Zenon DEF BackendStep

(* cellar_backend_pick: the best of the rows passed so far, 0 for none.    *)
NextBest(k, i, v) == IF Table[k][i].available /\ Better(k, i, v) THEN i ELSE v

NameOf(k, b) ==
  CASE b # 0 -> Table[k][b].name
    [] b = 0 /\ k = "graphics" -> "Software"
    [] OTHER -> None

IsBest(k, b, n) ==
  /\ b \in 0..n
  /\ b = 0 => \A j \in 1..n : ~Table[k][j].available
  /\ b # 0 => /\ Table[k][b].available
              /\ \A j \in 1..n : Table[k][j].available =>
                   \/ Table[k][b].priority < Table[k][j].priority
                   \/ Table[k][b].priority = Table[k][j].priority /\ b <= j

LEMMA TableRows ==
  ASSUME BackendInv, NEW k \in Kinds
  PROVE  /\ Len(Table[k]) \in Nat /\ DOMAIN Table[k] = 1..Len(Table[k])
         /\ \A j \in 1..Len(Table[k]) : /\ Table[k][j].priority \in Int
                                       /\ Table[k][j].available \in BOOLEAN
<1>1. PICK t : t = Table[k] /\ t \in Seq(BackendRows)
  BY TableTells
<1>2. Len(t) \in Nat /\ DOMAIN t = 1..Len(t)
  BY <1>1
<1>3. \A j \in 1..Len(t) : t[j] \in BackendRows
  BY <1>1, <1>2, EntryType
<1> QED
  BY <1>1, <1>2, <1>3 DEF BackendRows

LEMMA PickWalk ==
  ASSUME BackendInv, NEW k \in Kinds
  PROVE  \E f : /\ f = [i \in 0..Len(Table[k]) |-> IF i = 0 THEN 0 ELSE NextBest(k, i, f[i - 1])]
                /\ Pick(k) = NameOf(k, f[Len(Table[k])])
<1>1. PICK n : n = Len(Table[k]) /\ n \in Nat
  BY TableTells
<1>2. PICK step : step = [i \in 1..n |-> [v \in 0..n |-> NextBest(k, i, v)]]
  OBVIOUS
<1>3. Steps(n, 0..n, 0, step)
  <2>1. \A i \in 1..n, v \in 0..n : NextBest(k, i, v) \in 0..n
    BY <1>1 DEF NextBest
  <2> QED
    BY <1>1, <1>2, <2>1 DEF Steps
<1>4. PICK f : Follows(f, n, 0..n, 0, step)
  BY <1>3, RecursionExists
<1>5. /\ f \in [0..n -> 0..n] /\ f[0] = 0
      /\ \A i \in 1..n : f[i] = NextBest(k, i, f[i - 1])
  <2>1. /\ f \in [0..n -> 0..n] /\ f[0] = 0
        /\ \A i \in 1..n : f[i] = step[i][f[i - 1]]
    BY <1>4 DEF Follows
  <2>2. \A i \in 1..n : i - 1 \in 0..n /\ f[i - 1] \in 0..n
    BY <1>1, <2>1
  <2>3. \A i \in 1..n, v \in 0..n : step[i][v] = NextBest(k, i, v)
    BY <1>2
  <2> QED
    BY <2>1, <2>2, <2>3
<1>6. f = [i \in 0..n |-> IF i = 0 THEN 0 ELSE NextBest(k, i, f[i - 1])]
  BY <1>1, <1>5
<1> DEFINE g == CHOOSE g : g = [i \in 0..Len(Table[k]) |->
                                  IF i = 0 THEN 0 ELSE NextBest(k, i, g[i - 1])]
<1>7. g = [i \in 0..Len(Table[k]) |-> IF i = 0 THEN 0 ELSE NextBest(k, i, g[i - 1])]
  BY <1>1, <1>6, Zenon
<1>8. Pick(k) = NameOf(k, g[Len(Table[k])])
  BY Zenon DEF Pick, NextBest, NameOf
<1> HIDE DEF g
<1> QED
  BY <1>7, <1>8

LEMMA PickDecides ==
  ASSUME BackendInv, NEW k \in Kinds
  PROVE  \E b : IsBest(k, b, Len(Table[k])) /\ Pick(k) = NameOf(k, b)
<1>1. PICK n : n = Len(Table[k]) /\ n \in Nat
  BY TableTells
<1>2. PICK f : /\ f = [i \in 0..Len(Table[k]) |-> IF i = 0 THEN 0 ELSE NextBest(k, i, f[i - 1])]
               /\ Pick(k) = NameOf(k, f[Len(Table[k])])
  BY PickWalk
<1>3. f[0] = 0 /\ \A i \in 1..n : f[i] = NextBest(k, i, f[i - 1])
  BY <1>1, <1>2
<1>4. \A j \in 1..n : Table[k][j].priority \in Int /\ Table[k][j].available \in BOOLEAN
  BY <1>1, TableRows
<1> DEFINE best == {i \in 0..n : IsBest(k, f[i], i)}
<1>5. 0 \in best
  BY <1>1, <1>3 DEF IsBest
<1>6. ASSUME NEW i \in 1..n, IsBest(k, f[i - 1], i - 1)
      PROVE  IsBest(k, f[i], i)
  <2>1. \A j : j \in 1..i <=> j = i \/ j \in 1..i - 1
    BY <1>1
  <2>2. PICK v : v = f[i - 1]
    OBVIOUS
  <2>3. f[i] = NextBest(k, i, v)
    BY <1>3, <2>2
  <2>4. IsBest(k, v, i - 1)
    BY <1>6, <2>2
  <2>5. CASE ~Table[k][i].available
    BY <2>1, <2>3, <2>4, <2>5 DEF NextBest, IsBest
  <2>6. CASE Table[k][i].available /\ Better(k, i, v)
    <3>1. f[i] = i
      BY <2>3, <2>6 DEF NextBest
    <3>2. ASSUME NEW j \in 1..i, Table[k][j].available, j # i
          PROVE  Table[k][i].priority < Table[k][j].priority
      <4>1. j \in 1..i - 1 /\ j \in 1..n /\ v # 0
        BY <1>1, <2>1, <2>4, <3>2 DEF IsBest
      <4>2. /\ Table[k][v].priority <= Table[k][j].priority
            /\ Table[k][i].priority < Table[k][v].priority
            /\ v \in 1..n
        BY <1>1, <1>4, <2>4, <2>6, <3>2, <4>1 DEF IsBest, Better
      <4> QED
        BY <1>4, <4>1, <4>2
    <3> QED
      BY <1>1, <2>6, <3>1, <3>2 DEF IsBest
  <2>7. CASE Table[k][i].available /\ ~Better(k, i, v)
    <3>1. f[i] = v
      BY <2>3, <2>7 DEF NextBest
    <3>2. v \in 1..i - 1 /\ v \in 1..n /\ ~(Table[k][i].priority < Table[k][v].priority)
      BY <1>1, <2>4, <2>7 DEF IsBest, Better
    <3>3. Table[k][v].priority <= Table[k][i].priority /\ v <= i
      BY <1>1, <1>4, <3>2
    <3>4. \/ Table[k][v].priority < Table[k][i].priority
          \/ Table[k][v].priority = Table[k][i].priority /\ v <= i
      BY <1>4, <3>2, <3>3
    <3> QED
      BY <1>1, <2>1, <2>4, <3>1, <3>2, <3>4 DEF IsBest
  <2> QED
    BY <2>5, <2>6, <2>7
<1>7. \A i \in 1..n : i - 1 \in best => i \in best
  BY <1>6
<1> HIDE DEF best
<1>8. \A i \in 0..n : i \in best
  BY <1>1, <1>5, <1>7, Climb, Zenon
<1>9. n \in best
  <2>1. n \in 0..n
    BY <1>1
  <2> QED
    BY <1>8, <2>1
<1> QED
  BY <1>1, <1>2, <1>9 DEF best

LEMMA PickedIsBest == BackendInv => PickIsBest
<1> DEFINE Up(k) == {r \in Requests : r.kind = k /\ r.entry.available}
           Before(r, s) == \/ r.entry.priority < s.entry.priority
                           \/ r.entry.priority = s.entry.priority /\ r.order < s.order
           First(k) == {r \in Up(k) : \A s \in Up(k) \ {r} : Before(r, s)}
<1>1. ASSUME BackendInv, NEW k \in Kinds
      PROVE  Pick(k) = IF First(k) # {} THEN (CHOOSE r \in First(k) : TRUE).entry.name
                       ELSE IF k = "graphics" THEN "Software" ELSE None
  <2>1. PICK n : n = Len(Table[k]) /\ n \in Nat
    BY <1>1, TableTells
  <2>2. PICK b : IsBest(k, b, n) /\ Pick(k) = NameOf(k, b)
    BY <1>1, <2>1, PickDecides
  <2> DEFINE Row(j) == Request(k, j, Table[k][j])
  <2>3. DOMAIN Table[k] = 1..n /\ Requests = RequestsOf(Table)
    BY <1>1, <2>1, TableRows, TableTells
  <2>4. ASSUME NEW r
        PROVE  r \in Up(k) <=> \E j \in 1..n : r = Row(j) /\ Table[k][j].available
    <3>1. r \in Requests <=> \E c \in Kinds : \E j \in DOMAIN Table[c] : r = Request(c, j, Table[c][j])
      BY <2>3, RequestsAreRows
    <3>2. r \in Requests /\ r.kind = k <=> \E j \in 1..n : r = Request(k, j, Table[k][j])
      <4>1. ASSUME r \in Requests, r.kind = k
            PROVE  \E j \in 1..n : r = Request(k, j, Table[k][j])
        <5>1. PICK c \in Kinds : \E j \in DOMAIN Table[c] : r = Request(c, j, Table[c][j])
          BY <3>1, <4>1
        <5>2. c = k
          BY <4>1, <5>1, RequestFields
        <5> QED
          BY <2>3, <5>1, <5>2
      <4>2. ASSUME NEW j \in 1..n, r = Request(k, j, Table[k][j])
            PROVE  r \in Requests /\ r.kind = k
        BY <2>3, <3>1, <4>2, RequestFields
      <4> QED
        BY <4>1, <4>2
    <3> QED
      BY <3>2, RequestFields
  <2>5. \A j \in 1..n : Table[k][j].priority \in Int
    BY <1>1, <2>1, TableRows
  <2>6. \A i, j \in 1..n : Before(Row(i), Row(j)) <=>
           \/ Table[k][i].priority < Table[k][j].priority
           \/ Table[k][i].priority = Table[k][j].priority /\ i < j
    BY RequestFields
  <2> HIDE DEF Up, Before, Row
  <2>7. CASE b = 0
    <3>1. First(k) = {}
      BY <2>2, <2>4, <2>7 DEF IsBest
    <3>2. Pick(k) = IF k = "graphics" THEN "Software" ELSE None
      BY <2>2, <2>7 DEF NameOf
    <3> QED
      BY <3>1, <3>2
  <2>8. CASE b # 0
    <3>1. b \in 1..n /\ Table[k][b].available
      BY <2>1, <2>2, <2>8 DEF IsBest
    <3>2. Row(b) \in Up(k)
      BY <2>4, <3>1
    <3>3. ASSUME NEW s \in Up(k), s # Row(b)
          PROVE  Before(Row(b), s) /\ ~Before(s, Row(b))
      <4>1. PICK j \in 1..n : s = Row(j) /\ Table[k][j].available
        BY <2>4
      <4>2. b # j
        BY <3>3, <4>1
      <4>3. \/ Table[k][b].priority < Table[k][j].priority
            \/ Table[k][b].priority = Table[k][j].priority /\ b <= j
        BY <2>2, <2>8, <4>1 DEF IsBest
      <4> QED
        BY <2>5, <2>6, <3>1, <4>1, <4>2, <4>3
    <3>4. First(k) = {Row(b)}
      BY <3>2, <3>3
    <3> HIDE DEF First
    <3>5. (CHOOSE r \in First(k) : TRUE) = Row(b)
      BY <3>4
    <3>6. Row(b).entry.name = Table[k][b].name
      BY RequestFields DEF Row
    <3>7. Pick(k) = Table[k][b].name
      BY <2>2, <2>8 DEF NameOf
    <3> QED
      BY <3>4, <3>5, <3>6, <3>7
  <2> QED
    BY <2>7, <2>8
<1>2. BackendInv => \A k \in Kinds :
         Pick(k) = IF First(k) # {} THEN (CHOOSE r \in First(k) : TRUE).entry.name
                   ELSE IF k = "graphics" THEN "Software" ELSE None
  BY <1>1
<1> QED
  BY <1>2, Zenon DEF PickIsBest

(* The scans of a table, for tables of any length.  cellar_backend_pick    *)
(* returns the best available backend by the newest request about each     *)
(* name, where none came before the seeding; cellar_access_check grants a  *)
(* mask only if an entry allows all of it and none denies all of it, and   *)
(* does if one allows it and none denies any part; and a print job goes to *)
(* the printer it names.                                                   *)
THEOREM ScansAreRight == Spec => []ScansDecide
<1>1. Init => BackendInv /\ AceInv /\ PrintInv
  <2>1. ASSUME AccessInit
        PROVE  AceInv
    <3>1. << >> \in Seq(Aces)
      OBVIOUS
    <3> QED
      BY <2>1, <3>1, Zenon DEF AccessInit, AceInv
  <2> QED
    BY <2>1, BackendStarts, PrintInit, Zenon DEF Init
<1>2. BackendInv /\ AceInv /\ PrintInv /\ [Next]_vars => (BackendInv /\ AceInv /\ PrintInv)'
  BY StepsApart, BackendKeeps, AceStep, PrintStepKeeps
<1>3. BackendInv /\ AceInv /\ PrintInv => ScansDecide
  BY PickedIsBest, DenialWins DEF ScansDecide, PrintInv
<1> QED
  BY <1>1, <1>2, <1>3, PTL DEF Spec
-----------------------------------------------------------------------------
(* perf.c and timer.c: rings that overwrite their oldest entry.            *)
(* A ring of cap slots that n values have been pushed into: it holds the    *)
(* last of them, each in the slot of its number.                           *)
Holds(r, cap, n, value) ==
  /\ r \in [ring : [0..cap - 1 -> Nat], pos : Nat, count : Nat]
  /\ n \in Nat /\ r.pos = n % cap /\ r.count = IF n < cap THEN n ELSE cap
  /\ \A k \in 1..n : k > n - cap => r.ring[(k - 1) % cap] = value[k]

LEMMA PushHolds ==
  ASSUME NEW cap \in Nat \ {0}, NEW r, NEW n, NEW value, Holds(r, cap, n, value),
         NEW new, NEW v \in Nat, new[n + 1] = v, \A k \in 1..n : new[k] = value[k]
  PROVE  Holds(Push(r, cap, v), cap, n + 1, new)
<1>1. PICK ring \in [0..cap - 1 -> Nat] : ring = r.ring
  BY DEF Holds
<1>2. /\ n \in Nat /\ r.pos = n % cap /\ r.count = IF n < cap THEN n ELSE cap
      /\ \A k \in 1..n : k > n - cap => ring[(k - 1) % cap] = value[k]
  BY <1>1 DEF Holds
<1>3. n % cap \in 0..cap - 1
  BY <1>2
<1>4. PICK after : after = [ring EXCEPT ![n % cap] = v]
  OBVIOUS
<1>5. after \in [0..cap - 1 -> Nat] /\ after[n % cap] = v
  BY <1>3, <1>4
<1>6. PICK p : p = Push(r, cap, v)
  OBVIOUS
<1>7. /\ p = [ring |-> after, pos |-> ((n % cap) + 1) % cap,
              count |-> IF r.count < cap THEN r.count + 1 ELSE r.count]
  BY <1>1, <1>2, <1>4, <1>6 DEF Push
<1>8. p.pos = (n + 1) % cap /\ (n + 1) % cap \in Nat
  <2>1. ((n % cap) + 1) % cap = (n + 1) % cap
    BY <1>2, RemainderSum
  <2>2. (n + 1) % cap \in Nat
    BY <1>2
  <2> QED
    BY <1>7, <2>1, <2>2
<1>9. p.count = (IF n + 1 < cap THEN n + 1 ELSE cap) /\ p.count \in Nat
  BY <1>2, <1>7
<1>10. ASSUME NEW k \in 1..(n + 1), k > (n + 1) - cap
       PROVE  p.ring[(k - 1) % cap] = new[k]
  <2>1. CASE k = n + 1
    BY <1>2, <1>5, <1>7, <2>1
  <2>2. CASE k # n + 1
    <3>1. k \in 1..n /\ k > n - cap /\ k - 1 \in Nat /\ k - 1 < n /\ n < (k - 1) + cap
      BY <1>2, <1>10, <2>2
    <3>2. PICK j : j = k - 1 /\ j \in Nat /\ j < n /\ n < j + cap
      BY <3>1
    <3>3. j % cap # n % cap
      BY ONLY <1>2, <3>2, RemaindersDiffer, cap \in Nat \ {0}
    <3>4. j % cap \in 0..cap - 1
      BY <3>2
    <3>5. after[j % cap] = ring[j % cap]
      BY <1>4, <3>3, <3>4
    <3>6. ring[j % cap] = value[k] /\ new[k] = value[k]
      BY <1>2, <3>1, <3>2
    <3> QED
      BY <1>7, <3>2, <3>5, <3>6
  <2> QED
    BY <2>1, <2>2
<1>11. p \in [ring : [0..cap - 1 -> Nat], pos : Nat, count : Nat]
  BY <1>5, <1>7, <1>8, <1>9
<1>12. Holds(p, cap, n + 1, new)
  BY <1>2, <1>8, <1>9, <1>10, <1>11 DEF Holds
<1> QED
  BY <1>6, <1>12

(* Read from its oldest entry on, it gives them in the order they came.     *)
LEMMA ReadHolds ==
  ASSUME NEW cap \in Nat \ {0}, NEW r, NEW n, NEW value, Holds(r, cap, n, value),
         NEW i \in 1..r.count
  PROVE  r.ring[(Oldest(r, cap) + i - 1) % cap] = value[n - r.count + i]
<1>1. /\ n \in Nat /\ r.pos = n % cap /\ r.count = IF n < cap THEN n ELSE cap
      /\ \A k \in 1..n : k > n - cap => r.ring[(k - 1) % cap] = value[k]
  BY DEF Holds
<1>2. PICK k : k = n - r.count + i /\ k \in 1..n /\ k > n - cap /\ k - 1 \in Nat
  BY <1>1
<1>3. PICK o : o = n + cap - r.count /\ o \in Nat
  BY <1>1
<1>4. Oldest(r, cap) = o % cap
  <2>1. cap - r.count \in Nat
    BY <1>1
  <2>2. ((n % cap) + (cap - r.count)) % cap = (n + (cap - r.count)) % cap
    BY <1>1, <2>1, RemainderSum
  <2>3. n % cap \in Nat
    BY <1>1
  <2>4. (n % cap) + cap - r.count = (n % cap) + (cap - r.count)
    BY <1>1, <2>3
  <2>5. n + cap - r.count = n + (cap - r.count)
    BY <1>1
  <2> QED
    BY <1>1, <1>3, <2>2, <2>4, <2>5 DEF Oldest
<1>5. (Oldest(r, cap) + i - 1) % cap = (k - 1) % cap
  <2>1. i - 1 \in Nat /\ o % cap \in Nat
    BY <1>1, <1>3
  <2>2. ((o % cap) + (i - 1)) % cap = (o + (i - 1)) % cap
    BY <1>3, <2>1, RemainderSum
  <2>3. (o % cap) + i - 1 = (o % cap) + (i - 1)
    BY <1>1, <2>1
  <2>4. o + (i - 1) = cap + (k - 1)
    BY <1>1, <1>2, <1>3
  <2>5. (cap + (k - 1)) % cap = (k - 1) % cap
    <3>1. cap % cap = 0
      BY RemainderUnique, cap = cap * 1 + 0, 0 \in 0..(cap - 1)
    <3>2. ((cap % cap) + (k - 1)) % cap = (cap + (k - 1)) % cap
      BY <1>2, RemainderSum
    <3>3. (cap % cap) + (k - 1) = k - 1
      BY <1>2, <3>1
    <3> QED
      BY <3>2, <3>3
  <2> QED
    BY <1>4, <2>2, <2>3, <2>4, <2>5
<1> QED
  BY <1>1, <1>2, <1>5

-----------------------------------------------------------------------------
(* The insertion sort of the report.                                        *)
(* s with v put behind its first p entries.                                 *)
Inserted(s, v, p, u) ==
  /\ u \in Seq(Nat) /\ Len(u) = Len(s) + 1
  /\ \A i \in 1..(Len(s) + 1) :
       u[i] = IF i <= p THEN s[i] ELSE IF i = p + 1 THEN v ELSE s[i - 1]

LEMMA InsertPlace ==
  ASSUME NEW s \in Seq(Nat), NEW v \in Nat, NEW p \in 0..Len(s)
  PROVE  Inserted(s, v, p, SubSeq(s, 1, p) \o <<v>> \o SubSeq(s, p + 1, Len(s)))
<1>1. PICK k \in Nat : k = Len(s)
  OBVIOUS
<1>2. \A i \in 1..k : s[i] \in Nat
  BY <1>1
<1>3. PICK a : a = SubSeq(s, 1, p)
  OBVIOUS
<1>4. PICK b : b = SubSeq(s, p + 1, k)
  OBVIOUS
<1>5. p \in Int /\ k \in Int /\ 0 <= p /\ p <= k
  BY <1>1
<1>6. a \in Seq(Nat) /\ Len(a) = p /\ \A i \in 1..p : a[i] = s[i]
  <2>1. 1 \in Int /\ \A i \in 1..p : s[i] \in Nat
    BY <1>2, <1>5
  <2>2. /\ a \in Seq(Nat) /\ Len(a) = IF 1 <= p THEN p - 1 + 1 ELSE 0
        /\ \A i \in 1..(p - 1 + 1) : a[i] = s[1 + i - 1]
    BY ONLY <1>3, <1>5, <2>1, SubSeqProperties
  <2> QED
    BY ONLY <1>5, <2>2
<1>7. b \in Seq(Nat) /\ Len(b) = k - p /\ \A i \in 1..(k - p) : b[i] = s[p + i]
  <2>1. p + 1 \in Int /\ \A i \in (p + 1)..k : s[i] \in Nat
    BY <1>2, <1>5
  <2>2. PICK m \in Int : m = p + 1
    BY <2>1
  <2>3. /\ b \in Seq(Nat) /\ Len(b) = IF m <= k THEN k - m + 1 ELSE 0
        /\ \A i \in 1..(k - m + 1) : b[i] = s[m + i - 1]
    BY ONLY <1>4, <1>5, <2>1, <2>2, SubSeqProperties
  <2> QED
    BY ONLY <1>5, <2>2, <2>3
<1>8. <<v>> \in Seq(Nat) /\ Len(<<v>>) = 1 /\ <<v>>[1] = v
  OBVIOUS
<1>9. PICK o : o = <<v>> /\ o \in Seq(Nat) /\ Len(o) = 1 /\ o[1] = v
  BY <1>8
<1>10. PICK d : d = a \o o
  OBVIOUS
<1>11. /\ d \in Seq(Nat) /\ Len(d) = p + 1
       /\ \A i \in 1..(p + 1) : d[i] = IF i <= p THEN a[i] ELSE o[i - p]
  BY ONLY <1>5, <1>6, <1>9, <1>10, ConcatProperties
<1>12. PICK u : u = d \o b
  OBVIOUS
<1>13. /\ u \in Seq(Nat) /\ Len(u) = (p + 1) + (k - p)
       /\ \A i \in 1..((p + 1) + (k - p)) : u[i] = IF i <= p + 1 THEN d[i] ELSE b[i - (p + 1)]
  <2>1. /\ u \in Seq(Nat) /\ Len(u) = Len(d) + Len(b)
        /\ \A i \in 1..(Len(d) + Len(b)) : u[i] = IF i <= Len(d) THEN d[i] ELSE b[i - Len(d)]
    BY ONLY <1>7, <1>11, <1>12, ConcatProperties
  <2> QED
    BY ONLY <1>7, <1>11, <2>1
<1>14. (p + 1) + (k - p) = k + 1
  BY <1>5
<1>15. ASSUME NEW i \in 1..(k + 1)
       PROVE  u[i] = IF i <= p THEN s[i] ELSE IF i = p + 1 THEN v ELSE s[i - 1]
  <2>1. CASE i <= p
    <3>1. i \in 1..p /\ i \in 1..(p + 1) /\ i <= p + 1
      BY ONLY <1>5, <2>1, i \in 1..(k + 1)
    <3>2. u[i] = d[i]
      BY ONLY <1>13, <1>14, <3>1, i \in 1..(k + 1)
    <3>3. d[i] = a[i] /\ a[i] = s[i]
      BY ONLY <1>6, <1>11, <2>1, <3>1
    <3> QED
      BY ONLY <2>1, <3>2, <3>3
  <2>2. CASE i = p + 1
    <3>1. i - p = 1 /\ ~(i <= p)
      BY ONLY <1>5, <2>2
    <3> QED
      BY ONLY <1>5, <1>9, <1>11, <1>13, <1>14, <2>2, <3>1, i \in 1..(k + 1)
  <2>3. CASE i > p + 1
    <3>1. PICK j \in 1..(k - p) : j = i - (p + 1)
      BY ONLY <1>5, <2>3, i \in 1..(k + 1)
    <3>2. p + j = i - 1 /\ ~(i <= p + 1) /\ ~(i <= p) /\ i # p + 1
      BY ONLY <1>5, <2>3, <3>1, i \in 1..(k + 1)
    <3>3. u[i] = b[j]
      BY ONLY <1>13, <1>14, <3>1, <3>2, i \in 1..(k + 1)
    <3>4. b[j] = s[p + j]
      BY ONLY <1>7, <3>1
    <3> QED
      BY ONLY <3>2, <3>3, <3>4
  <2> QED
    BY ONLY <1>5, <2>1, <2>2, <2>3, i \in 1..(k + 1)
<1>16. u = SubSeq(s, 1, p) \o <<v>> \o SubSeq(s, p + 1, Len(s))
  BY <1>1, <1>3, <1>4, <1>9, <1>10, <1>12
<1>17. Inserted(s, v, p, u)
  BY ONLY <1>1, <1>13, <1>14, <1>15 DEF Inserted
<1> QED
  BY <1>16, <1>17

(* The insertion puts v behind the entries that are at most v.              *)
LEMMA InsertFinds ==
  ASSUME NEW s \in Seq(Nat), NEW v \in Nat, NEW p \in 0..Len(s),
         \A i \in 1..Len(s) : s[i] <= v <=> i <= p
  PROVE  Inserted(s, v, p, InsertSorted(s, v))
<1>1. PICK low : low = {0} \cup {i \in DOMAIN s : s[i] <= v}
  OBVIOUS
<1>2. p \in Nat /\ Len(s) \in Nat /\ DOMAIN s = 1..Len(s)
  OBVIOUS
<1>3. low = 0..p
  BY <1>1, <1>2
<1>4. Max(low) = p
  <2>1. p \in low /\ low \subseteq 0..p /\ low # {}
    BY ONLY <1>2, <1>3
  <2>2. Max(low) \in low /\ \A x \in low : x <= Max(low)
    BY <1>2, <2>1, MaxIsMember
  <2> QED
    BY ONLY <1>2, <1>3, <2>1, <2>2
<1>5. InsertSorted(s, v) = InsertAt(s, 1 + p, v)
  BY <1>1, <1>4, Zenon DEF InsertSorted
<1>6. InsertSorted(s, v) = SubSeq(s, 1, (1 + p) - 1) \o <<v>> \o SubSeq(s, 1 + p, Len(s))
  BY <1>5, Zenon DEF InsertAt
<1>7. (1 + p) - 1 = p /\ 1 + p = p + 1
  BY <1>2
<1>8. InsertSorted(s, v) = SubSeq(s, 1, p) \o <<v>> \o SubSeq(s, p + 1, Len(s))
  BY <1>6, <1>7
<1> QED
  BY <1>8, InsertPlace

(* Of the first k entries those that are at most t are the first m.         *)
FirstAre(s, k, t, m) == \A i \in 1..k : s[i] <= t <=> i <= m

(* So up to any t there is one more of them if v is one.                    *)
LEMMA InsertCounts ==
  ASSUME NEW s \in Seq(Nat), NEW v \in Nat, NEW p \in 0..Len(s), NEW u, Inserted(s, v, p, u),
         NEW t \in Int, NEW e \in 0..Len(s),
         FirstAre(s, Len(s), v, p), FirstAre(s, Len(s), t, e)
  PROVE  FirstAre(u, Len(s) + 1, t, e + IF v <= t THEN 1 ELSE 0)
<1>1. PICK k \in Nat : k = Len(s)
  OBVIOUS
<1>2. /\ p \in Int /\ 0 <= p /\ p <= k /\ e \in Int /\ 0 <= e /\ e <= k /\ k \in Int
      /\ v \in Int /\ t \in Int
  BY <1>1
<1>3. \A i \in 1..k : s[i] \in Int /\ (s[i] <= v <=> i <= p) /\ (s[i] <= t <=> i <= e)
  BY <1>1 DEF FirstAre
<1>4. \A i \in 1..(k + 1) : u[i] = IF i <= p THEN s[i] ELSE IF i = p + 1 THEN v ELSE s[i - 1]
  BY <1>1 DEF Inserted
<1>5. v <= t => p <= e
  <2>1. CASE p = 0
    BY ONLY <1>2, <2>1
  <2>2. CASE p > 0
    <3>1. p \in 1..k
      BY ONLY <1>2, <2>2
    <3>2. s[p] \in Int /\ s[p] <= v /\ (s[p] <= t <=> p <= e)
      BY ONLY <1>2, <1>3, <3>1
    <3> QED
      BY ONLY <1>2, <3>2
  <2> QED
    BY ONLY <1>2, <2>1, <2>2
<1>6. ~(v <= t) => e <= p
  <2>1. CASE e = 0
    BY ONLY <1>2, <2>1
  <2>2. CASE e > 0
    <3>1. e \in 1..k
      BY ONLY <1>2, <2>2
    <3>2. s[e] \in Int /\ s[e] <= t /\ (s[e] <= v <=> e <= p)
      BY ONLY <1>2, <1>3, <3>1
    <3> QED
      BY ONLY <1>2, <3>2
  <2> QED
    BY ONLY <1>2, <2>1, <2>2
<1>7. ASSUME NEW i \in 1..(k + 1)
      PROVE  u[i] <= t <=> i <= e + IF v <= t THEN 1 ELSE 0
  <2>0. i \in Int /\ 1 <= i /\ i <= k + 1
    BY <1>2
  <2>1. CASE i <= p
    <3>1. i \in 1..k /\ u[i] = s[i]
      BY ONLY <1>2, <1>4, <2>0, <2>1, i \in 1..(k + 1)
    <3>2. u[i] <= t <=> i <= e
      BY ONLY <1>3, <3>1
    <3> QED
      BY ONLY <1>2, <1>5, <2>0, <2>1, <3>2
  <2>2. CASE i = p + 1
    <3>1. u[i] = v
      BY ONLY <1>2, <1>4, <2>0, <2>2, i \in 1..(k + 1)
    <3> QED
      BY ONLY <1>2, <1>5, <1>6, <2>0, <2>2, <3>1
  <2>3. CASE i > p + 1
    <3>1. PICK j \in 1..k : j = i - 1
      BY ONLY <1>2, <2>0, <2>3
    <3>2. u[i] = s[j]
      BY ONLY <1>2, <1>4, <2>0, <2>3, <3>1, i \in 1..(k + 1)
    <3>3. u[i] <= t <=> j <= e
      BY ONLY <1>3, <3>1, <3>2
    <3> QED
      BY ONLY <1>2, <1>5, <1>6, <2>0, <2>3, <3>1, <3>3
  <2> QED
    BY ONLY <1>2, <2>0, <2>1, <2>2, <2>3
<1> QED
  BY <1>1, <1>7 DEF FirstAre

(* Which of the first k entries are at most t.                              *)
AtMost(s, k, t) == {i \in 1..k : s[i] <= t}

(* s has the first k entries of seq in order: those up to any t come first. *)
Ordered(s, seq, k) ==
  /\ s \in Seq(Nat) /\ Len(s) = k
  /\ \A t \in Int : AtMost(s, k, t) = 1..Cardinality(AtMost(seq, k, t))

LEMMA CountAtMost ==
  ASSUME NEW seq \in Seq(Nat), NEW k \in 0..Len(seq), NEW t \in Int
  PROVE  /\ Cardinality(AtMost(seq, k, t)) \in 0..k
         /\ k < Len(seq) =>
              Cardinality(AtMost(seq, k + 1, t)) =
                Cardinality(AtMost(seq, k, t)) + IF seq[k + 1] <= t THEN 1 ELSE 0
<1>1. PICK before : before = AtMost(seq, k, t)
  OBVIOUS
<1>2. IsFiniteSet(1..k) /\ Cardinality(1..k) = k /\ before \subseteq 1..k
  BY <1>1, FS_Interval DEF AtMost
<1>3. IsFiniteSet(before) /\ Cardinality(before) <= k /\ Cardinality(before) \in Nat
  BY <1>2, FS_Subset, FS_CardinalityType
<1>4. ASSUME k < Len(seq)
      PROVE  Cardinality(AtMost(seq, k + 1, t)) = Cardinality(before) + IF seq[k + 1] <= t THEN 1 ELSE 0
  <2>1. 1..(k + 1) = 1..k \cup {k + 1} /\ k + 1 \notin before
    BY <1>2
  <2>2. CASE seq[k + 1] <= t
    <3>1. AtMost(seq, k + 1, t) = before \cup {k + 1}
      BY <1>1, <2>1, <2>2 DEF AtMost
    <3> QED
      BY <1>3, <2>1, <2>2, <3>1, FS_AddElement
  <2>3. CASE ~(seq[k + 1] <= t)
    <3>1. AtMost(seq, k + 1, t) = before
      BY <1>1, <2>1, <2>3 DEF AtMost
    <3> QED
      BY <1>3, <2>3, <3>1
  <2> QED
    BY <2>2, <2>3
<1> QED
  BY <1>1, <1>3, <1>4

LEMMA InsertOrders ==
  ASSUME NEW seq \in Seq(Nat), NEW k \in Nat, k < Len(seq), NEW s, Ordered(s, seq, k)
  PROVE  Ordered(InsertSorted(s, seq[k + 1]), seq, k + 1)
<1>1. /\ s \in Seq(Nat) /\ Len(s) = k /\ \A i \in 1..k : s[i] \in Nat
      /\ k \in 0..Len(seq) /\ k + 1 \in 1..Len(seq)
  BY DEF Ordered
<1>2. PICK v \in Nat : v = seq[k + 1]
  OBVIOUS
<1>3. PICK c : c = [t \in Int |-> Cardinality(AtMost(seq, k, t))]
  OBVIOUS
<1>4. \A t \in Int : c[t] \in 0..k /\ AtMost(s, k, t) = 1..c[t]
  BY <1>1, <1>3, CountAtMost DEF Ordered
<1>5. \A t \in Int, i \in 1..k : s[i] <= t <=> i <= c[t]
  BY <1>4 DEF AtMost
<1>6. PICK p : p \in 0..k /\ \A i \in 1..k : s[i] <= v <=> i <= p
  <2>1. c[v] \in 0..k
    BY <1>2, <1>4
  <2> QED
    BY <1>2, <1>5, <2>1
<1>7. PICK u : u = InsertSorted(s, v)
  OBVIOUS
<1>8. Inserted(s, v, p, u)
  BY <1>1, <1>6, <1>7, InsertFinds
<1>10. /\ u \in Seq(Nat) /\ Len(u) = k + 1
       /\ \A i \in 1..(k + 1) : u[i] = IF i <= p THEN s[i] ELSE IF i = p + 1 THEN v ELSE s[i - 1]
  BY <1>1, <1>8 DEF Inserted
<1>11. ASSUME NEW t \in Int
       PROVE  AtMost(u, k + 1, t) = 1..Cardinality(AtMost(seq, k + 1, t))
  <2>1. PICK e : e = c[t] /\ e \in 0..k
    BY <1>4
  <2>2. Cardinality(AtMost(seq, k + 1, t)) = e + IF v <= t THEN 1 ELSE 0
    BY <1>1, <1>2, <1>3, <2>1, CountAtMost
  <2>3. \A i \in 1..k : (s[i] <= t <=> i <= e) /\ (s[i] <= v <=> i <= p)
    <3>1. \A i \in 1..k : s[i] <= t <=> i <= e
      BY <1>5, <2>1
    <3> QED
      BY <1>6, <3>1
  <2>4. \A i \in 1..(k + 1) : u[i] <= t <=> i <= e + IF v <= t THEN 1 ELSE 0
    <3>1. /\ s \in Seq(Nat) /\ Len(s) = k /\ p \in 0..Len(s) /\ e \in 0..Len(s)
          /\ FirstAre(s, Len(s), v, p) /\ FirstAre(s, Len(s), t, e)
      BY ONLY <1>1, <1>6, <2>1, <2>3 DEF FirstAre
    <3>2. FirstAre(u, Len(s) + 1, t, e + IF v <= t THEN 1 ELSE 0)
      BY ONLY <1>8, <3>1, v \in Nat, t \in Int, InsertCounts
    <3> QED
      BY ONLY <3>1, <3>2 DEF FirstAre
  <2>5. PICK m \in Nat : m = e + IF v <= t THEN 1 ELSE 0
    BY <2>1
  <2>6. m <= k + 1
    BY <2>1, <2>5
  <2>7. \A i \in 1..(k + 1) : u[i] <= t <=> i <= m
    BY <2>4, <2>5
  <2>8. AtMost(u, k + 1, t) = 1..m
    BY ONLY <2>5, <2>6, <2>7, k \in Nat DEF AtMost
  <2> QED
    BY <2>2, <2>5, <2>8
<1> QED
  BY <1>2, <1>7, <1>10, <1>11 DEF Ordered

LEMMA SortOrders ==
  ASSUME NEW seq \in Seq(Nat)
  PROVE  Ordered(Sorted(seq), seq, Len(seq))
<1>1. PICK n \in Nat : n = Len(seq)
  OBVIOUS
<1>2. PICK step : step = [i \in 1..n |-> [s \in Seq(Nat) |-> InsertSorted(s, seq[i])]]
  OBVIOUS
<1>3. Steps(n, Seq(Nat), << >>, step)
  <2>1. ASSUME NEW s \in Seq(Nat), NEW t \in Nat
        PROVE  InsertSorted(s, t) \in Seq(Nat)
    <3>1. PICK low : low = {0} \cup {i \in DOMAIN s : s[i] <= t}
      OBVIOUS
    <3>2. Len(s) \in Nat /\ low \subseteq 0..Len(s) /\ low # {}
      BY <3>1
    <3>3. PICK m \in 0..Len(s) : m = Max(low)
      BY <3>2, MaxIsMember
    <3>4. InsertSorted(s, t) = InsertAt(s, 1 + m, t)
      BY <3>1, <3>3, Zenon DEF InsertSorted
    <3>5. InsertSorted(s, t) = SubSeq(s, 1, (1 + m) - 1) \o <<t>> \o SubSeq(s, 1 + m, Len(s))
      BY <3>4, Zenon DEF InsertAt
    <3>6. SubSeq(s, 1, (1 + m) - 1) \in Seq(Nat) /\ SubSeq(s, 1 + m, Len(s)) \in Seq(Nat)
      BY <3>3
    <3> QED
      BY <3>5, <3>6
  <2>2. \A i \in 1..n : seq[i] \in Nat
    BY <1>1
  <2>3. << >> \in Seq(Nat)
    OBVIOUS
  <2> QED
    BY <1>1, <1>2, <2>1, <2>2, <2>3 DEF Steps
<1>4. PICK f : Follows(f, n, Seq(Nat), << >>, step)
  BY <1>3, RecursionExists
<1>5. /\ f \in [0..n -> Seq(Nat)] /\ f[0] = << >>
      /\ \A i \in 1..n : f[i] = InsertSorted(f[i - 1], seq[i])
  <2>1. f \in [0..n -> Seq(Nat)] /\ f[0] = << >> /\ \A i \in 1..n : f[i] = step[i][f[i - 1]]
    BY <1>4 DEF Follows
  <2>2. \A i \in 1..n : f[i - 1] \in Seq(Nat)
    BY <1>1, <2>1
  <2> QED
    BY <1>2, <2>1, <2>2
<1>6. f = [i \in 0..n |-> IF i = 0 THEN << >> ELSE InsertSorted(f[i - 1], seq[i])]
  BY <1>1, <1>5
<1> DEFINE g == CHOOSE g : g = [i \in 0..Len(seq) |->
                                  IF i = 0 THEN << >> ELSE InsertSorted(g[i - 1], seq[i])]
<1>7. g = [i \in 0..Len(seq) |-> IF i = 0 THEN << >> ELSE InsertSorted(g[i - 1], seq[i])]
  BY <1>1, <1>6, Zenon
<1>8. Sorted(seq) = g[Len(seq)]
  BY Zenon DEF Sorted
<1> HIDE DEF g
<1>9. g[0] = << >> /\ \A i \in 1..n : g[i] = InsertSorted(g[i - 1], seq[i])
  BY <1>1, <1>7, SMTT(40)
<1> DEFINE good == {k \in 0..n : Ordered(g[k], seq, k)}
<1>10. 0 \in good
  <2>1. ASSUME NEW t \in Int
        PROVE  AtMost(<< >>, 0, t) = {} /\ AtMost(seq, 0, t) = {}
    BY DEF AtMost
  <2>2. 1..Cardinality({}) = {}
    BY FS_EmptySet
  <2>3. << >> \in Seq(Nat) /\ Len(<< >>) = 0
    OBVIOUS
  <2>4. Ordered(<< >>, seq, 0)
    BY <2>1, <2>2, <2>3, Zenon DEF Ordered
  <2> QED
    BY <1>1, <1>9, <2>4
<1>11. ASSUME NEW i \in 1..n, i - 1 \in good
       PROVE  i \in good
  <2>1. PICK k : k = i - 1 /\ k \in Nat /\ k < Len(seq) /\ k + 1 = i
    BY <1>1
  <2>2. Ordered(g[k], seq, k)
    BY <1>11, <2>1
  <2>3. Ordered(InsertSorted(g[k], seq[k + 1]), seq, k + 1)
    BY <2>1, <2>2, InsertOrders
  <2>4. g[i] = InsertSorted(g[k], seq[k + 1])
    BY <1>9, <2>1
  <2> QED
    BY <2>1, <2>3, <2>4
<1>12. \A k \in 0..n : k \in good
  <2> HIDE DEF good
  <2> QED
    BY <1>10, <1>11, Climb
<1> QED
  BY <1>1, <1>8, <1>12

-----------------------------------------------------------------------------
SamplesInv == Holds(sample, SampleCap, traced, [k \in 1..traced |-> k])
FramesInv == frames \in Seq(Nat) /\ Holds(frame, FrameCap, Len(frames), frames)

LEMMA RingsInit == SamplesInit /\ FramesInit => SamplesInv /\ FramesInv
<1> SUFFICES ASSUME SamplesInit, FramesInit
             PROVE  SamplesInv /\ FramesInv
  OBVIOUS
<1>1. ASSUME NEW cap \in Nat \ {0}, NEW value
      PROVE  Holds([ring |-> [i \in 0..cap - 1 |-> 0], pos |-> 0, count |-> 0], cap, 0, value)
  <2>1. 0 % cap = 0
    BY RemainderUnique, 0 = cap * 0 + 0, 0 \in 0..(cap - 1)
  <2> QED
    BY <2>1 DEF Holds
<1>2. SampleCap \in Nat \ {0} /\ FrameCap \in Nat \ {0}
  BY RingsAssumption
<1>3. traced = 0 /\ frames = << >> /\ << >> \in Seq(Nat) /\ Len(<< >>) = 0
  BY DEF SamplesInit, FramesInit
<1>4. Holds(sample, SampleCap, traced, [k \in 1..traced |-> k])
  BY <1>1, <1>2, <1>3, Zenon DEF SamplesInit
<1>5. Holds(frame, FrameCap, Len(frames), frames)
  <2>1. Holds(frame, FrameCap, 0, frames)
    BY <1>1, <1>2, Zenon DEF FramesInit
  <2> QED
    BY <1>3, <2>1
<1> QED
  BY <1>3, <1>4, <1>5 DEF SamplesInv, FramesInv

LEMMA SamplesStep == SamplesInv /\ [SampleStep]_sampleVars => SamplesInv'
<1> SUFFICES ASSUME SamplesInv, [SampleStep]_sampleVars
             PROVE  SamplesInv'
  OBVIOUS
<1>1. CASE UNCHANGED sampleVars
  BY <1>1 DEF SamplesInv, sampleVars
<1>2. CASE Trace
  <2>1. traced \in Nat /\ traced + 1 \in Nat
    BY DEF SamplesInv, Holds
  <2>2. PICK old : old = [k \in 1..traced |-> k]
    OBVIOUS
  <2>3. PICK new : new = [k \in 1..(traced + 1) |-> k]
    OBVIOUS
  <2>4. new[traced + 1] = traced + 1 /\ \A k \in 1..traced : new[k] = old[k]
    BY <2>1, <2>2, <2>3
  <2>5. Holds(sample, SampleCap, traced, old) /\ SampleCap \in Nat \ {0}
    BY <2>2, RingsAssumption DEF SamplesInv
  <2>6. Holds(Push(sample, SampleCap, traced + 1), SampleCap, traced + 1, new)
    BY ONLY <2>1, <2>4, <2>5, PushHolds
  <2>7. sample' = Push(sample, SampleCap, traced + 1) /\ traced' = traced + 1
    BY <1>2 DEF Trace
  <2> QED
    BY <2>3, <2>6, <2>7, Zenon DEF SamplesInv
<1> QED
  BY <1>1, <1>2 DEF SampleStep

LEMMA FramesStep == FramesInv /\ [FrameStep]_frameVars => FramesInv'
<1> SUFFICES ASSUME FramesInv, [FrameStep]_frameVars
             PROVE  FramesInv'
  OBVIOUS
<1>1. CASE UNCHANGED frameVars
  BY <1>1 DEF FramesInv, frameVars
<1>2. CASE InitFrames
  <2>1. frame' = [ring |-> frame.ring, pos |-> 0, count |-> 0] /\ frames' = << >>
    BY <1>2 DEF InitFrames, FramesInv, Holds
  <2>2. frame.ring \in [0..FrameCap - 1 -> Nat] /\ FrameCap \in Nat \ {0}
    BY RingsAssumption DEF FramesInv, Holds
  <2>3. 0 % FrameCap = 0
    BY <2>2, RemainderUnique, 0 = FrameCap * 0 + 0, 0 \in 0..(FrameCap - 1)
  <2>4. Holds([ring |-> frame.ring, pos |-> 0, count |-> 0], FrameCap, 0, << >>)
    BY <2>2, <2>3 DEF Holds
  <2>5. << >> \in Seq(Nat) /\ Len(<< >>) = 0
    OBVIOUS
  <2> QED
    BY <2>1, <2>4, <2>5, Zenon DEF FramesInv
<1>3. ASSUME NEW t \in FrameTimes, AddFrame(t)
      PROVE  FramesInv'
  <2>1. PICK n : n = Len(frames) /\ n \in Nat /\ frames \in Seq(Nat)
    BY DEF FramesInv
  <2>2. t \in Nat /\ FrameCap \in Nat \ {0}
    BY RingsAssumption
  <2>3. PICK new : new = Append(frames, t)
    OBVIOUS
  <2>4. new \in Seq(Nat) /\ Len(new) = n + 1 /\ new[n + 1] = t /\ \A k \in 1..n : new[k] = frames[k]
    BY <2>1, <2>2, <2>3
  <2>5. Holds(frame, FrameCap, n, frames)
    BY <2>1 DEF FramesInv
  <2>6. Holds(Push(frame, FrameCap, t), FrameCap, n + 1, new)
    BY ONLY <2>2, <2>4, <2>5, PushHolds
  <2>7. frame' = Push(frame, FrameCap, t) /\ frames' = new
    BY <1>3, <2>3 DEF AddFrame
  <2> QED
    BY <2>4, <2>6, <2>7, Zenon DEF FramesInv
<1> QED
  BY <1>1, <1>2, <1>3 DEF FrameStep

LEMMA DrainsInOrder == SamplesInv => DrainInOrder
<1> SUFFICES ASSUME SamplesInv
             PROVE  DrainInOrder
  OBVIOUS
<1>1. PICK value : value = [k \in 1..traced |-> k]
  OBVIOUS
<1>2. SampleCap \in Nat \ {0} /\ Holds(sample, SampleCap, traced, value)
  BY <1>1, RingsAssumption DEF SamplesInv
<1>3. traced \in Nat /\ sample.count = IF traced < SampleCap THEN traced ELSE SampleCap
  BY <1>2 DEF Holds
<1>4. PICK kept \in Nat : kept = sample.count /\ kept <= traced
  BY <1>2, <1>3
<1>5. ASSUME NEW i \in 1..kept
      PROVE  sample.ring[(Oldest(sample, SampleCap) + i - 1) % SampleCap] = traced - kept + i
  <2>1. i \in 1..sample.count
    BY <1>4
  <2>2. sample.ring[(Oldest(sample, SampleCap) + i - 1) % SampleCap] = value[traced - sample.count + i]
    BY ONLY <1>2, <2>1, ReadHolds
  <2>3. traced - kept + i \in 1..traced
    BY <1>3, <1>4
  <2> QED
    BY <1>1, <1>4, <2>2, <2>3
<1>6. ASSUME NEW n \in 0..SampleCap + 1
      PROVE  LET m == IF n < kept THEN n ELSE kept
             IN  \E from \in traced - kept..traced - m : Drain(n) = [i \in 1..m |-> from + i]
  <2>1. PICK m : m = (IF n < kept THEN n ELSE kept) /\ \A i \in 1..m : i \in 1..kept
    BY <1>4
  <2>2. Drain(n) = [i \in 1..m |-> sample.ring[(Oldest(sample, SampleCap) + i - 1) % SampleCap]]
    BY <1>4, <2>1 DEF Drain
  <2>3. Drain(n) = [i \in 1..m |-> (traced - kept) + i]
    BY <1>5, <2>1, <2>2
  <2>4. m \in Nat /\ m <= kept
    BY <1>4, <2>1
  <2>5. traced - kept \in traced - kept..traced - m
    BY <1>3, <1>4, <2>4
  <2>6. \E from \in traced - kept..traced - m : Drain(n) = [i \in 1..m |-> from + i]
    BY <2>3, <2>5
  <2> QED
    BY <2>1, <2>6, Zenon
<1>7. kept = IF traced < SampleCap THEN traced ELSE SampleCap
  BY <1>3, <1>4
<1> QED
  BY <1>6, <1>7, Zenon DEF DrainInOrder

(* What the report reads off the sorted frames.                             *)
LEMMA SortedTells ==
  ASSUME NEW seq \in Seq(Nat), NEW n \in Nat \ {0}, n = Len(seq),
         NEW j \in 1..n, NEW x, x = Sorted(seq)[j]
  PROVE  /\ x \in Nat /\ Cardinality(AtMost(seq, n, x)) >= j
         /\ Cardinality(AtMost(seq, n, x - 1)) < j
         /\ Cardinality(AtMost(seq, n, x)) <= n
<1>1. PICK s : s = Sorted(seq)
  OBVIOUS
<1>2. Ordered(s, seq, n)
  BY <1>1, SortOrders
<1>3. s \in Seq(Nat) /\ Len(s) = n /\ \A t \in Int : AtMost(s, n, t) = 1..Cardinality(AtMost(seq, n, t))
  BY <1>2 DEF Ordered
<1>4. x \in Nat
  BY <1>1, <1>3
<1>5. x - 1 \in Int /\ x \in Int
  BY <1>4
<1>6. PICK c : c = Cardinality(AtMost(seq, n, x))
  OBVIOUS
<1>7. PICK b : b = Cardinality(AtMost(seq, n, x - 1))
  OBVIOUS
<1>8. n \in 0..Len(seq)
  OBVIOUS
<1>9. c \in 0..n /\ b \in 0..n
  BY <1>5, <1>6, <1>7, <1>8, CountAtMost
<1>10. AtMost(s, n, x) = 1..c /\ AtMost(s, n, x - 1) = 1..b
  BY <1>3, <1>5, <1>6, <1>7
<1>11. j \in AtMost(s, n, x) /\ j \notin AtMost(s, n, x - 1)
  <2>1. s[j] = x
    BY <1>1
  <2> QED
    BY <1>4, <2>1 DEF AtMost
<1> QED
  BY <1>4, <1>6, <1>7, <1>9, <1>10, <1>11

LEMMA ReportsRecent == FramesInv => ReportIsRecent
<1> SUFFICES ASSUME FramesInv
             PROVE  ReportIsRecent
  OBVIOUS
<1>1. PICK all \in Nat : all = Len(frames) /\ frames \in Seq(Nat)
  BY DEF FramesInv
<1>2. FrameCap \in Nat \ {0} /\ Holds(frame, FrameCap, all, frames)
  BY <1>1, RingsAssumption DEF FramesInv
<1>3. PICK n \in Nat : n = frame.count /\ n = (IF all < FrameCap THEN all ELSE FrameCap) /\ n <= all
  BY <1>2 DEF Holds
<1>4. PICK window : window = [i \in 1..n |-> frames[all - n + i]]
  OBVIOUS
<1>5. window \in Seq(Nat) /\ Len(window) = n
  <2>1. \A i \in 1..n : frames[all - n + i] \in Nat
    BY <1>1, <1>3
  <2> QED
    BY <1>4, <2>1
<1>6. window = [i \in 1..frame.count |-> frame.ring[(Oldest(frame, FrameCap) + i - 1) % FrameCap]]
  <2>1. ASSUME NEW i \in 1..n
        PROVE  frame.ring[(Oldest(frame, FrameCap) + i - 1) % FrameCap] = frames[all - n + i]
    <3>1. i \in 1..frame.count
      BY <1>3
    <3>2. frame.ring[(Oldest(frame, FrameCap) + i - 1) % FrameCap] = frames[all - frame.count + i]
      BY ONLY <1>2, <3>1, ReadHolds
    <3> QED
      BY <1>3, <3>2
  <2> QED
    BY <1>3, <1>4, <2>1
<1>7. PICK low : low = Low1Index(n) + 1
  OBVIOUS
<1>8. PICK r : r = Report
  OBVIOUS
<1>9. r = [sum |-> Total(window), n |-> n, low1 |-> Sorted(window)[low], max |-> Sorted(window)[n]]
  BY <1>3, <1>6, <1>7, <1>8, Zenon DEF Report
<1>10. /\ r.n = n /\ r.sum = Total(window) /\ r.low1 = Sorted(window)[low]
       /\ r.max = Sorted(window)[n]
  BY <1>9
<1> DEFINE Within(t) == Cardinality({i \in 1..n : window[i] <= t})
           Below(t) == Cardinality({i \in 1..n : window[i] < t})
           down == (99 * n) \div 100
           up == (99 * n + 99) \div 100
<1>11. ASSUME NEW t \in Nat
       PROVE  Within(t) = Cardinality(AtMost(window, n, t)) /\ Below(t) = Cardinality(AtMost(window, n, t - 1))
  <2>1. \A i \in 1..n : window[i] \in Nat
    BY <1>5
  <2>2. {i \in 1..n : window[i] < t} = {i \in 1..n : window[i] <= t - 1}
    BY <2>1
  <2> QED
    BY <2>2 DEF AtMost
<1>12. ASSUME n > 0
       PROVE  low \in 1..n /\ low \in down..up
  <2>1. CASE n = 1
    <3>1. (99 * 1) \div 100 = 0 /\ (99 * 1 + 99) \div 100 = 1
      OBVIOUS
    <3>2. low = 1
      BY <1>7, <2>1 DEF Low1Index
    <3> QED
      BY <2>1, <3>1, <3>2
  <2>2. CASE n > 1
    <3>1. /\ (99 * n) \div 100 >= 1 /\ (99 * n) \div 100 <= n /\ (99 * n) \div 100 \in Int
          /\ (99 * n) \div 100 <= (99 * n + 99) \div 100 /\ (99 * n + 99) \div 100 \in Int
      BY <2>2, SMT
    <3> QED
      BY <1>7, <2>2, <3>1 DEF Low1Index
  <2> QED
    BY <1>12, <2>1, <2>2
<1>13. ASSUME n > 0
       PROVE  /\ Within(r.max) = n /\ Below(r.max) < n
              /\ Below(r.low1) < up /\ Within(r.low1) >= down
  <2>1. n \in Nat \ {0} /\ n \in 1..n /\ low \in 1..n
    BY <1>12, <1>13
  <2>2. PICK x : x = r.max
    OBVIOUS
  <2>3. /\ x \in Nat /\ Cardinality(AtMost(window, n, x)) >= n
        /\ Cardinality(AtMost(window, n, x - 1)) < n /\ Cardinality(AtMost(window, n, x)) <= n
    BY ONLY <1>5, <1>10, <2>1, <2>2, SortedTells
  <2>4. PICK y : y = r.low1
    OBVIOUS
  <2>5. /\ y \in Nat /\ Cardinality(AtMost(window, n, y)) >= low
        /\ Cardinality(AtMost(window, n, y - 1)) < low
    BY ONLY <1>5, <1>10, <2>1, <2>4, SortedTells
  <2>6. Cardinality(AtMost(window, n, x)) = n
    <3>1. n \in 0..Len(window) /\ x \in Int
      BY <1>5, <2>3
    <3>2. Cardinality(AtMost(window, n, x)) \in 0..n
      BY <1>5, <3>1, CountAtMost
    <3> QED
      BY ONLY <2>3, <3>2, n \in Nat
  <2>7. Within(x) = n /\ Below(x) < n
    <3>1. Within(x) = Cardinality(AtMost(window, n, x)) /\ Below(x) = Cardinality(AtMost(window, n, x - 1))
      BY <1>11, <2>3
    <3> HIDE DEF Within, Below
    <3> QED
      BY ONLY <2>3, <2>6, <3>1
  <2>8. Below(y) < up /\ Within(y) >= down
    <3>1. /\ Within(y) = Cardinality(AtMost(window, n, y))
          /\ Below(y) = Cardinality(AtMost(window, n, y - 1))
      BY <1>11, <2>5
    <3>2. low \in down..up /\ down \in Int /\ up \in Int
      BY <1>12, <1>13
    <3>3. Cardinality(AtMost(window, n, y)) \in Nat /\ Cardinality(AtMost(window, n, y - 1)) \in Nat
      <4>1. n \in 0..Len(window) /\ y \in Int /\ y - 1 \in Int
        BY <1>5, <2>5
      <4>2. /\ Cardinality(AtMost(window, n, y)) \in 0..n
            /\ Cardinality(AtMost(window, n, y - 1)) \in 0..n
        BY <1>5, <4>1, CountAtMost
      <4> QED
        BY <4>2
    <3> HIDE DEF Within, Below, down, up
    <3> QED
      BY ONLY <2>5, <3>1, <3>2, <3>3
  <2> QED
    BY <1>12, <1>13, <2>2, <2>4, <2>7, <2>8
<1> QED
  BY <1>1, <1>3, <1>4, <1>8, <1>10, <1>13, ZenonT(40) DEF ReportIsRecent

-----------------------------------------------------------------------------
(* notify.c: the history.                                                   *)
(* The notifications after n that have been closed or are in the history h. *)
Younger(h, c, next, n) == {m \in n + 1..next - 1 : m \in c \/ \E i \in DOMAIN h : h[i] = m}

NotesKept(h, c, next) ==
  /\ h \in Seq(Nat) /\ Len(h) <= NotifyCap /\ next \in Nat \ {0}
  /\ \A i \in DOMAIN h : h[i] \in 1..next - 1
  /\ \A i, j \in DOMAIN h : i < j => h[i] < h[j]
  /\ \A n \in 1..next - 1 :
       (n \notin c /\ \A i \in DOMAIN h : h[i] # n) =>
         Cardinality(Younger(h, c, next, n)) >= NotifyCap

NotifyInv == NotesKept(history, closed, nextNote)

LEMMA NotifyTells == NotifyInv => HistoryIsRecent
  BY DEF NotifyInv, NotesKept, HistoryIsRecent, Younger

LEMMA AfterNumber ==
  ASSUME NEW h, NEW c, NEW next \in Nat, NEW n \in Nat
  PROVE  IsFiniteSet(Younger(h, c, next, n)) /\ Cardinality(Younger(h, c, next, n)) \in Nat
<1>1. n + 1 \in Int /\ next - 1 \in Int
  OBVIOUS
<1>2. IsFiniteSet((n + 1)..(next - 1))
  BY <1>1, FS_Interval
<1>3. Younger(h, c, next, n) \subseteq (n + 1)..(next - 1)
  BY DEF Younger
<1> QED
  BY <1>2, <1>3, FS_Subset, FS_CardinalityType

(* What stays missing has as many after it as before, if none of them goes. *)
LEMMA AfterGrows ==
  ASSUME NEW h, NEW c, NEW next \in Nat, NEW g, NEW d, NEW end \in Nat, NEW n \in Nat,
         Younger(h, c, next, n) \subseteq Younger(g, d, end, n),
         Cardinality(Younger(h, c, next, n)) >= NotifyCap
  PROVE  Cardinality(Younger(g, d, end, n)) >= NotifyCap
<1>1. PICK S : S = Younger(h, c, next, n) /\ IsFiniteSet(S) /\ Cardinality(S) \in Nat
  BY AfterNumber
<1>2. PICK T : T = Younger(g, d, end, n) /\ IsFiniteSet(T) /\ Cardinality(T) \in Nat
  BY AfterNumber
<1>3. S \in SUBSET T
  BY <1>1, <1>2
<1>4. Cardinality(S) <= Cardinality(T)
  BY ONLY <1>2, <1>3, FS_Subset
<1>5. NotifyCap \in Nat
  BY SessionAssumption
<1> QED
  BY ONLY <1>1, <1>2, <1>4, <1>5, Cardinality(Younger(h, c, next, n)) >= NotifyCap

LEMMA NotifyStarts == SessionInit => NotifyInv
<1> SUFFICES ASSUME SessionInit
             PROVE  NotifyInv
  OBVIOUS
<1>1. history = << >> /\ nextNote = 1
  BY DEF SessionInit
<1>2. << >> \in Seq(Nat) /\ Len(<< >>) = 0 /\ DOMAIN << >> = {} /\ 1..1 - 1 = {}
  OBVIOUS
<1>3. NotifyCap \in Nat
  BY SessionAssumption
<1> QED
  BY <1>1, <1>2, <1>3 DEF NotifyInv, NotesKept

LEMMA ShowAppends ==
  ASSUME NEW h, NEW c, NEW next, NotesKept(h, c, next), Len(h) < NotifyCap
  PROVE  NotesKept(Append(h, next), c, next + 1)
<1>1. h \in Seq(Nat) /\ next \in Nat \ {0} /\ \A i \in DOMAIN h : h[i] \in 1..next - 1
  BY DEF NotesKept
<1>2. PICK k \in Nat : k = Len(h) /\ k < NotifyCap /\ DOMAIN h = 1..k
  BY <1>1
<1>3. PICK g : g = Append(h, next)
  OBVIOUS
<1>4. /\ g \in Seq(Nat) /\ Len(g) = k + 1 /\ DOMAIN g = 1..(k + 1)
      /\ g[k + 1] = next /\ \A i \in 1..k : g[i] = h[i]
  BY <1>1, <1>2, <1>3
<1>0. next \in Int /\ 1 <= next /\ k \in Int /\ 0 <= k /\ \A i \in 1..k : h[i] \in 1..next - 1
  BY <1>1, <1>2
<1>5. \A i \in 1..(k + 1) : g[i] \in 1..(next + 1) - 1
  <2> SUFFICES ASSUME NEW i \in 1..(k + 1)
               PROVE  g[i] \in 1..(next + 1) - 1
    OBVIOUS
  <2>1. CASE i = k + 1
    BY ONLY <1>0, <1>4, <2>1
  <2>2. CASE i # k + 1
    <3>1. i \in 1..k
      BY ONLY <1>0, <2>2, i \in 1..(k + 1)
    <3>2. g[i] = h[i] /\ h[i] \in 1..next - 1
      BY ONLY <1>0, <1>4, <3>1
    <3> QED
      BY ONLY <1>0, <3>2
  <2> QED
    BY <2>1, <2>2
<1>6. ASSUME NEW i \in 1..(k + 1), NEW j \in 1..(k + 1), i < j
      PROVE  g[i] < g[j]
  <2>1. i \in 1..k /\ g[i] = h[i] /\ h[i] \in 1..next - 1
    <3>1. i \in 1..k
      BY ONLY <1>0, <1>6, i \in 1..(k + 1), j \in 1..(k + 1)
    <3> QED
      BY ONLY <1>0, <1>4, <3>1
  <2>2. CASE j = k + 1
    BY ONLY <1>0, <1>4, <2>1, <2>2
  <2>3. CASE j # k + 1
    <3>1. j \in 1..k /\ g[j] = h[j]
      BY <1>2, <1>4, <2>3
    <3> QED
      BY <1>2, <1>6, <2>1, <3>1 DEF NotesKept
  <2> QED
    BY <2>2, <2>3
<1>7. ASSUME NEW n \in 1..(next + 1) - 1, n \notin c, \A i \in DOMAIN g : g[i] # n
      PROVE  Cardinality(Younger(g, c, next + 1, n)) >= NotifyCap
  <2>1. n # next /\ n \in 1..next - 1 /\ n \in Nat
    BY <1>1, <1>2, <1>4, <1>7
  <2>2. \A i \in DOMAIN h : h[i] # n
    BY <1>2, <1>4, <1>7
  <2>3. Cardinality(Younger(h, c, next, n)) >= NotifyCap
    BY <1>7, <2>1, <2>2 DEF NotesKept
  <2>4. Younger(h, c, next, n) \subseteq Younger(g, c, next + 1, n)
    <3>1. \A m \in n + 1..next - 1 : m \in n + 1..(next + 1) - 1
      BY <1>1, <2>1
    <3>2. \A i \in DOMAIN h : i \in DOMAIN g /\ g[i] = h[i]
      BY <1>2, <1>4
    <3> QED
      BY <3>1, <3>2 DEF Younger
  <2>5. next \in Nat /\ next + 1 \in Nat
    BY <1>1
  <2> QED
    BY ONLY <2>1, <2>3, <2>4, <2>5, AfterGrows
<1>8. next + 1 \in Nat \ {0} /\ Len(g) <= NotifyCap
  BY <1>1, <1>2, <1>4, SessionAssumption
<1>9. NotesKept(g, c, next + 1)
  BY <1>4, <1>5, <1>6, <1>7, <1>8 DEF NotesKept
<1> QED
  BY <1>3, <1>9

(* A full history loses its oldest entry: NotifyCap younger ones follow it. *)
LEMMA ShowShifts ==
  ASSUME NEW h, NEW c, NEW next, NotesKept(h, c, next), ~(Len(h) < NotifyCap)
  PROVE  NotesKept(Append(Tail(h), next), c, next + 1)
<1>1. h \in Seq(Nat) /\ next \in Nat \ {0} /\ \A i \in DOMAIN h : h[i] \in 1..next - 1
  BY DEF NotesKept
<1>2. PICK k \in Nat \ {0} : k = NotifyCap /\ k = Len(h) /\ DOMAIN h = 1..k
  BY <1>1, SessionAssumption DEF NotesKept
<1>3. \A i, j \in 1..k : i < j => h[i] < h[j]
  BY <1>2 DEF NotesKept
<1>0. next \in Int /\ 1 <= next /\ k \in Int /\ 1 <= k /\ \A i \in 1..k : h[i] \in 1..next - 1
  BY <1>1, <1>2
<1>4. PICK t : t = Tail(h) /\ t \in Seq(Nat) /\ Len(t) = k - 1 /\ \A i \in 1..(k - 1) : t[i] = h[i + 1]
  <2>1. h # << >> /\ h \in Seq(Nat) /\ Len(h) = k
    BY <1>1, <1>2
  <2>2. /\ Tail(h) \in Seq(Nat) /\ Len(Tail(h)) = Len(h) - 1
        /\ \A i \in 1..Len(Tail(h)) : Tail(h)[i] = h[i + 1]
    BY ONLY <2>1, HeadTailProperties
  <2> QED
    BY ONLY <2>1, <2>2
<1>5. PICK g : g = Append(t, next)
  OBVIOUS
<1>6. /\ g \in Seq(Nat) /\ Len(g) = k /\ DOMAIN g = 1..k
      /\ \A i \in 1..k : g[i] = IF i = k THEN next ELSE h[i + 1]
  BY <1>1, <1>2, <1>4, <1>5
<1>7. \A i \in 1..k : g[i] \in 1..(next + 1) - 1
  <2> SUFFICES ASSUME NEW i \in 1..k
               PROVE  g[i] \in 1..(next + 1) - 1
    OBVIOUS
  <2>1. CASE i = k
    BY ONLY <1>0, <1>6, <2>1
  <2>2. CASE i # k
    <3>1. i + 1 \in 1..k
      BY ONLY <1>0, <2>2, i \in 1..k
    <3>2. g[i] = h[i + 1] /\ h[i + 1] \in 1..next - 1
      BY ONLY <1>0, <1>6, <2>2, <3>1, i \in 1..k
    <3> QED
      BY ONLY <1>0, <3>2
  <2> QED
    BY <2>1, <2>2
<1>8. ASSUME NEW i \in 1..k, NEW j \in 1..k, i < j
      PROVE  g[i] < g[j]
  <2>1. i + 1 \in 1..k /\ g[i] = h[i + 1] /\ h[i + 1] \in 1..next - 1
    <3>1. i + 1 \in 1..k /\ i # k
      BY ONLY <1>0, <1>8, i \in 1..k, j \in 1..k
    <3> QED
      BY ONLY <1>0, <1>6, <3>1, i \in 1..k
  <2>2. CASE j = k
    BY ONLY <1>0, <1>6, <2>1, <2>2
  <2>3. CASE j # k
    <3>1. j + 1 \in 1..k /\ g[j] = h[j + 1] /\ i + 1 < j + 1
      BY <1>2, <1>6, <1>8, <2>3
    <3> QED
      BY <1>3, <2>1, <3>1
  <2> QED
    BY <2>2, <2>3
<1>9. ASSUME NEW n \in 1..(next + 1) - 1, n \notin c, \A i \in DOMAIN g : g[i] # n
      PROVE  Cardinality(Younger(g, c, next + 1, n)) >= NotifyCap
  <2>1. n # next /\ n \in 1..next - 1 /\ n \in Nat
    BY <1>1, <1>2, <1>6, <1>9
  <2>2. PICK T : T = Younger(g, c, next + 1, n)
    OBVIOUS
  <2>3. 1 \in 1..k /\ h[1] \in 1..next - 1
    BY <1>1, <1>2
  <2>4. CASE n <= h[1]
    <3>1. ASSUME NEW i \in 1..k
          PROVE  g[i] \in T
      <4>1. n < g[i]
        <5>1. CASE i = k
          BY <1>6, <2>1, <5>1
        <5>2. CASE i # k
          <6>1. i + 1 \in 1..k /\ 1 < i + 1 /\ g[i] = h[i + 1]
            BY <1>2, <1>6, <5>2
          <6>2. h[1] < h[i + 1] /\ h[i + 1] \in 1..next - 1
            BY <1>1, <1>2, <1>3, <2>3, <6>1
          <6> QED
            BY <2>1, <2>3, <2>4, <6>1, <6>2
        <5> QED
          BY <5>1, <5>2
      <4>2. g[i] \in n + 1..(next + 1) - 1
        BY <1>7, <2>1, <4>1
      <4> QED
        BY <1>6, <2>2, <4>2 DEF Younger
    <3>2. \A i, j \in 1..k : g[i] = g[j] => i = j
      <4> SUFFICES ASSUME NEW i \in 1..k, NEW j \in 1..k, i # j
                   PROVE  g[i] # g[j]
        OBVIOUS
      <4>1. (i < j \/ j < i) /\ g[i] \in Int /\ g[j] \in Int
        BY ONLY <1>0, <1>7, i \in 1..k, j \in 1..k, i # j
      <4> QED
        BY <1>8, <4>1
    <3>3. g \in [1..k -> T]
      BY <1>6, <3>1
    <3>4. g \in Injection(1..k, T)
      BY <3>2, <3>3 DEF Injection, IsInjective
    <3>5. IsFiniteSet(T) /\ Cardinality(T) \in Nat
      <4>1. next + 1 \in Nat
        BY <1>1
      <4> QED
        BY <2>1, <2>2, <4>1, AfterNumber
    <3>6. Cardinality(1..k) <= Cardinality(T)
      BY ONLY <3>4, <3>5, FS_Injection
    <3>7. Cardinality(1..k) = k
      <4>1. Cardinality(1..k) = IF 1 <= k THEN k - 1 + 1 ELSE 0
        BY ONLY <1>0, 1 \in Int, FS_Interval
      <4> QED
        BY ONLY <1>0, <4>1
    <3> QED
      BY <1>2, <2>2, <3>5, <3>6, <3>7
  <2>5. CASE n > h[1]
    <3>1. ASSUME NEW i \in 1..k
          PROVE  h[i] # n /\ (h[i] > n => \E j \in 1..k : g[j] = h[i])
      <4>1. CASE i = 1
        BY <2>1, <2>3, <2>5, <4>1
      <4>2. CASE i # 1
        <5>1. PICK j \in 1..k : i = j + 1 /\ j # k
          <6>1. i - 1 \in 1..k /\ i = (i - 1) + 1 /\ i - 1 # k
            BY <1>2, <4>2
          <6> QED
            BY <6>1
        <5>2. g[j] = h[i]
          BY <1>6, <5>1
        <5>3. g[j] # n
          BY <1>6, <1>9
        <5> QED
          BY <5>2, <5>3
      <4> QED
        BY <4>1, <4>2
    <3>2. Cardinality(Younger(h, c, next, n)) >= NotifyCap
      BY <1>2, <1>9, <2>1, <3>1 DEF NotesKept
    <3>3. Younger(h, c, next, n) \subseteq T
      <4>1. \A m \in n + 1..next - 1 : m \in n + 1..(next + 1) - 1 /\ m > n
        BY <1>1, <2>1
      <4>2. \A m : m > n /\ (\E i \in DOMAIN h : h[i] = m) => \E j \in DOMAIN g : g[j] = m
        BY <1>2, <1>6, <3>1
      <4> QED
        BY <2>2, <4>1, <4>2 DEF Younger
    <3>4. next \in Nat /\ next + 1 \in Nat
      BY <1>1
    <3> QED
      BY ONLY <2>1, <2>2, <3>2, <3>3, <3>4, AfterGrows
  <2> QED
    BY <2>1, <2>3, <2>4, <2>5
<1>10. next + 1 \in Nat \ {0}
  BY <1>1
<1>11. NotesKept(g, c, next + 1)
  BY <1>2, <1>6, <1>7, <1>8, <1>9, <1>10 DEF NotesKept
<1> QED
  BY <1>4, <1>5, <1>11

LEMMA CloseKeeps ==
  ASSUME NEW h, NEW c, NEW next, NotesKept(h, c, next), NEW id, NEW place \in DOMAIN h, h[place] = id
  PROVE  NotesKept(RemoveAt(h, place), c \cup {id}, next)
<1>1. h \in Seq(Nat) /\ next \in Nat \ {0} /\ \A i \in DOMAIN h : h[i] \in 1..next - 1
  BY DEF NotesKept
<1>2. PICK k \in Nat : k = Len(h) /\ DOMAIN h = 1..k /\ k <= NotifyCap /\ place \in 1..k
  BY <1>1 DEF NotesKept
<1>3. \A i, j \in 1..k : i < j => h[i] < h[j]
  BY <1>2 DEF NotesKept
<1>4. PICK g : g = RemoveAt(h, place)
  OBVIOUS
<1>5. /\ g \in Seq(Nat) /\ Len(g) = k - 1 /\ DOMAIN g = 1..(k - 1)
      /\ \A i \in 1..(k - 1) : g[i] = IF i < place THEN h[i] ELSE h[i + 1]
  <2>0. /\ place \in Int /\ k \in Int /\ 1 <= place /\ place <= k /\ place - 1 \in Int /\ place + 1 \in Int /\ 1 \in Int
    BY <1>2
  <2>1. PICK a : a = SubSeq(h, 1, place - 1)
    OBVIOUS
  <2>2. PICK b : b = SubSeq(h, place + 1, k)
    OBVIOUS
  <2>3. \A i \in 1..k : h[i] \in Nat
    BY <1>1, <1>2
  <2>4. a \in Seq(Nat) /\ Len(a) = place - 1 /\ \A i \in 1..(place - 1) : a[i] = h[i]
    <3>1. PICK p \in Int : p = place - 1 /\ \A i \in 1..p : h[i] \in Nat
      BY ONLY <2>0, <2>3
    <3>2. /\ a \in Seq(Nat) /\ Len(a) = IF 1 <= p THEN p - 1 + 1 ELSE 0
          /\ \A i \in 1..(p - 1 + 1) : a[i] = h[1 + i - 1]
      BY ONLY <2>0, <2>1, <3>1, SubSeqProperties
    <3> QED
      BY ONLY <2>0, <3>1, <3>2
  <2>5. b \in Seq(Nat) /\ Len(b) = k - place /\ \A i \in 1..(k - place) : b[i] = h[place + i]
    <3>1. PICK p \in Int : p = place + 1 /\ \A i \in p..k : h[i] \in Nat
      BY ONLY <2>0, <2>3
    <3>2. /\ b \in Seq(Nat) /\ Len(b) = IF p <= k THEN k - p + 1 ELSE 0
          /\ \A i \in 1..(k - p + 1) : b[i] = h[p + i - 1]
      BY ONLY <2>0, <2>2, <3>1, SubSeqProperties
    <3>3. Len(b) = k - place
      BY ONLY <2>0, <3>1, <3>2
    <3>4. ASSUME NEW i \in 1..(k - place)
          PROVE  b[i] = h[place + i]
      <4>1. i \in 1..(k - p + 1) /\ p + i - 1 = place + i
        BY ONLY <2>0, <3>1, i \in 1..(k - place)
      <4> QED
        BY ONLY <3>2, <4>1
    <3> QED
      BY ONLY <3>2, <3>3, <3>4
  <2>6. g = a \o b
    BY <1>2, <1>4, <2>1, <2>2, Zenon DEF RemoveAt
  <2>7. /\ g \in Seq(Nat) /\ Len(g) = Len(a) + Len(b)
        /\ \A i \in 1..(Len(a) + Len(b)) : g[i] = IF i <= Len(a) THEN a[i] ELSE b[i - Len(a)]
    BY ONLY <2>4, <2>5, <2>6, ConcatProperties
  <2>8. Len(a) + Len(b) = k - 1
    BY ONLY <2>0, <2>4, <2>5
  <2>9. ASSUME NEW i \in 1..(k - 1)
        PROVE  g[i] = IF i < place THEN h[i] ELSE h[i + 1]
    <3>1. CASE i < place
      <4>1. i \in 1..(place - 1) /\ i <= place - 1
        BY ONLY <2>0, <3>1, i \in 1..(k - 1)
      <4> QED
        BY ONLY <2>4, <2>7, <2>8, <3>1, <4>1, i \in 1..(k - 1)
    <3>2. CASE ~(i < place)
      <4>1. PICK j \in 1..(k - place) : j = i - (place - 1) /\ place + j = i + 1
        BY ONLY <2>0, <3>2, i \in 1..(k - 1)
      <4>2. ~(i <= place - 1)
        BY ONLY <2>0, <3>2, i \in 1..(k - 1)
      <4>3. g[i] = b[j]
        BY ONLY <2>4, <2>7, <2>8, <4>1, <4>2, i \in 1..(k - 1)
      <4> QED
        BY ONLY <2>5, <3>2, <4>1, <4>3
    <3> QED
      BY <3>1, <3>2
  <2> QED
    <3>1. DOMAIN g = 1..Len(g)
      BY ONLY <2>7
    <3> QED
      BY ONLY <2>7, <2>8, <2>9, <3>1
<1>6. \A i \in 1..(k - 1) : i \in 1..k /\ i + 1 \in 1..k /\ i \in Int /\ place \in Int
  BY <1>2
<1>7. \A i \in 1..(k - 1) : g[i] \in 1..next - 1
  BY <1>1, <1>2, <1>5, <1>6
<1>8. ASSUME NEW i \in 1..(k - 1), NEW j \in 1..(k - 1), i < j
      PROVE  g[i] < g[j]
  <2>1. PICK x \in 1..k : g[i] = h[x] /\ x = IF i < place THEN i ELSE i + 1
    BY <1>5, <1>6
  <2>2. PICK y \in 1..k : g[j] = h[y] /\ y = IF j < place THEN j ELSE j + 1
    BY <1>5, <1>6
  <2>3. x < y
    BY ONLY <1>6, <1>8, <2>1, <2>2, i \in 1..(k - 1), j \in 1..(k - 1), k \in Nat
  <2> QED
    BY <1>3, <2>1, <2>2, <2>3
<1>9. ASSUME NEW m
      PROVE  (\E i \in DOMAIN h : h[i] = m) => m = id \/ \E i \in DOMAIN g : g[i] = m
  <2> SUFFICES ASSUME NEW i \in 1..k, h[i] = m, i # place
               PROVE  \E j \in 1..(k - 1) : g[j] = m
    BY <1>2, <1>5
  <2>1. CASE i < place
    <3>1. i \in 1..(k - 1)
      BY <1>2, <2>1
    <3> QED
      BY <1>5, <2>1, <3>1
  <2>2. CASE ~(i < place)
    <3>1. PICK j \in 1..(k - 1) : i = j + 1 /\ ~(j < place)
      <4>1. i - 1 \in 1..(k - 1) /\ i = (i - 1) + 1 /\ ~(i - 1 < place)
        BY <1>2, <2>2
      <4> QED
        BY <4>1
    <3> QED
      BY <1>5, <3>1
  <2> QED
    BY <2>1, <2>2
<1>10. ASSUME NEW n \in 1..next - 1, n \notin c \cup {id}, \A i \in DOMAIN g : g[i] # n
       PROVE  Cardinality(Younger(g, c \cup {id}, next, n)) >= NotifyCap
  <2>1. n \in Nat /\ next \in Nat
    BY <1>1
  <2>2. n \notin c /\ \A i \in DOMAIN h : h[i] # n
    BY <1>9, <1>10
  <2>3. Cardinality(Younger(h, c, next, n)) >= NotifyCap
    BY <2>2 DEF NotesKept
  <2>4. Younger(h, c, next, n) \subseteq Younger(g, c \cup {id}, next, n)
    BY <1>9 DEF Younger
  <2> QED
    BY ONLY <2>1, <2>3, <2>4, AfterGrows
<1>11. Len(g) <= NotifyCap
  BY <1>2, <1>5, SessionAssumption
<1>12. NotesKept(g, c \cup {id}, next)
  BY <1>1, <1>5, <1>7, <1>8, <1>10, <1>11 DEF NotesKept
<1> QED
  BY <1>4, <1>12

LEMMA NotifyKeeps == NotifyInv /\ [NotifyStep]_notifyVars => NotifyInv'
<1> SUFFICES ASSUME NotifyInv, [NotifyStep]_notifyVars
             PROVE  NotesKept(history', closed', nextNote')
  BY DEF NotifyInv
<1>1. NotesKept(history, closed, nextNote)
  BY DEF NotifyInv
<1>2. CASE UNCHANGED notifyVars
  BY <1>1, <1>2 DEF notifyVars
<1>3. CASE Show
  <2>1. closed' = closed /\ nextNote' = nextNote + 1
    BY <1>3 DEF Show
  <2>2. CASE Len(history) < NotifyCap
    <3>1. history' = Append(history, nextNote)
      BY <1>3, <2>2 DEF Show
    <3> QED
      BY <1>1, <2>1, <2>2, <3>1, ShowAppends
  <2>3. CASE ~(Len(history) < NotifyCap)
    <3>1. history' = Append(Tail(history), nextNote)
      BY <1>3, <2>3 DEF Show
    <3> QED
      BY <1>1, <2>1, <2>3, <3>1, ShowShifts
  <2> QED
    BY <2>2, <2>3
<1>4. ASSUME NEW id \in 1..IdLimit, CloseNote(id)
      PROVE  NotesKept(history', closed', nextNote')
  <2>1. history \in Seq(Nat) /\ DOMAIN history \subseteq Nat
    BY <1>1 DEF NotesKept
  <2>2. PICK found : found = {i \in DOMAIN history : history[i] = id}
    OBVIOUS
  <2>3. found \subseteq Nat /\ found # {}
    BY <1>4, <2>1, <2>2 DEF CloseNote
  <2>4. PICK place : place = Min(found) /\ place \in found
    BY <2>3, MinIsMember
  <2>5. place \in DOMAIN history /\ history[place] = id
    BY <2>2, <2>4
  <2>6. history' = RemoveAt(history, place) /\ closed' = closed \cup {id} /\ nextNote' = nextNote
    BY <1>4, <2>2, <2>4, Zenon DEF CloseNote
  <2> QED
    BY <1>1, <2>5, <2>6, CloseKeeps
<1> QED
  BY <1>2, <1>3, <1>4 DEF NotifyStep, DesktopNotify

(* Samples, frame times and notifications: the last ones, in order, for     *)
(* every capacity and however often the rings wrap.                        *)
THEOREM HistoriesAreLatest == Spec => []HistoriesKeepLatest
<1> DEFINE Inv == SamplesInv /\ FramesInv /\ NotifyInv
<1>1. Inv => HistoriesKeepLatest
  BY DrainsInOrder, ReportsRecent, NotifyTells DEF HistoriesKeepLatest
<1>2. Init => Inv
  BY RingsInit, NotifyStarts DEF Init
<1>3. Inv /\ [Next]_vars => Inv'
  BY StepsApart, SamplesStep, FramesStep, NotifyKeeps
<1> QED
  BY <1>1, <1>2, <1>3, PTL DEF Spec

-----------------------------------------------------------------------------
(* What a user decides by is true, for every image, registry, workspace    *)
(* and log, and with the runtimes of other workspaces changing meanwhile.  *)
THEOREM VerdictsAreHonest == Spec => []VerdictsHonest
<1> DEFINE Inv == AnalysisInv /\ DoctorInv /\ DiagnoseInv
<1>1. Inv => VerdictsHonest
  BY AnalysisTells, DoctorTells, DiagnoseTells, DependenciesKnown, Zenon DEF VerdictsHonest
<1>2. Init => Inv
  BY AnalysisStarts, DoctorStarts, DiagnoseStarts, Zenon DEF Init
<1>3. Inv /\ [Next]_vars => Inv'
  BY StepsApart, AnalysisKeeps, DoctorKeeps, DiagnoseKeeps
<1> QED
  BY <1>1, <1>2, <1>3, PTL DEF Spec

(* The database and the profile are read for what they were meant to say,  *)
(* whatever names there are and wherever a save was killed, for any number *)
(* of entries, issues and saves.                                           *)
THEOREM TornFilesAreRecognised == Spec => []TornFilesRecognised
<1> DEFINE Inv == DbInv /\ FileInv /\ ConfInv
<1>1. Inv => TornFilesRecognised
  BY FileReads, ConfReads, Zenon DEF TornFilesRecognised
<1>2. Init => Inv
  BY DbStarts, FileStarts, ConfStarts, Zenon DEF Init
<1>3. Inv /\ [Next]_vars => Inv'
  BY StepsApart, DbKeeps, FileKeeps, ConfKeeps
<1> QED
  BY <1>1, <1>2, <1>3, PTL DEF Spec

(* What is converted is exact, for every text, locale, buffer and number of *)
(* variables: it comes back from UTF-8, reads back, is expanded once.       *)
THEOREM ConversionsAreExact == Spec => []ConversionsExact
<1> DEFINE Inv == TextInv /\ FigureInv /\ ShellInv
<1>1. Inv => ConversionsExact
  BY TextExact, FigureExact, ExpansionExact, Zenon DEF ConversionsExact
<1>2. Init => Inv
  BY TextStarts, FigureStarts, ShellStarts, Zenon DEF Init
<1>3. Inv /\ [Next]_vars => Inv'
  <2> SUFFICES ASSUME TextInv, FigureInv, ShellInv, [Next]_vars
               PROVE  TextInv' /\ FigureInv' /\ ShellInv'
    OBVIOUS
  <2>1. [LocaleStep]_localeVars /\ [ShellStep]_shellVars
    BY StepsApart
  <2>2. TextInv' /\ FigureInv'
    BY <2>1, TextKeeps, FigureKeeps, Zenon
  <2>3. ShellInv'
    BY <2>1, ShellInvKeeps, Zenon
  <2> QED
    BY <2>2, <2>3
<1> QED
  BY <1>1, <1>2, <1>3, PTL DEF Spec

-----------------------------------------------------------------------------
(* com.c.                                                                  *)
ClassRows == [clsid : Classes, fac : Factories]
ClassInv ==
  /\ comInited \subseteq ComThreads
  /\ classes \in Seq(ClassRows) /\ Len(classes) <= ClassSlots
  /\ \A i, j \in DOMAIN classes : classes[i].clsid = classes[j].clsid => i = j

LEMMA ClassStarts == ComInit => ClassInv
BY ComAssumption DEF ComInit, ClassInv

LEMMA RegisterKeeps ==
  ASSUME ClassInv, NEW c \in Classes, NEW f \in Factories, RegisterClass(c, f)
  PROVE  ClassInv'
<1>1. comInited' = comInited /\ comInited \subseteq ComThreads
  BY Zenon DEF ClassInv, RegisterClass
<1>2. /\ classes \in Seq(ClassRows) /\ Len(classes) <= ClassSlots
      /\ \A i, j \in DOMAIN classes : classes[i].clsid = classes[j].clsid => i = j
  BY DEF ClassInv
<1>3. CASE SlotsOf(c) # {}
  <2>1. classes' = [i \in DOMAIN classes |->
                      IF i \in SlotsOf(c) THEN [classes[i] EXCEPT !.fac = f] ELSE classes[i]]
    BY <1>3, Zenon DEF RegisterClass
  <2>2. \A i \in DOMAIN classes : classes[i] \in ClassRows
    BY <1>2, EntryType, Zenon
  <2>3. \A i \in DOMAIN classes : classes'[i] \in ClassRows /\ classes'[i].clsid = classes[i].clsid
    BY <2>1, <2>2 DEF ClassRows
  <2>4. DOMAIN classes = 1..Len(classes) /\ Len(classes) \in Nat
    BY <1>2
  <2>5. classes' \in Seq(ClassRows) /\ Len(classes') = Len(classes) /\ DOMAIN classes' = DOMAIN classes
    <3>1. classes' \in [1..Len(classes) -> ClassRows]
      BY <2>1, <2>3, <2>4
    <3> QED
      BY ONLY <3>1, <2>4
  <2> QED
    BY <1>1, <1>2, <2>3, <2>5 DEF ClassInv
<1>4. CASE SlotsOf(c) = {}
  <2>1. classes' = Append(classes, [clsid |-> c, fac |-> f]) /\ Len(classes) < ClassSlots
    BY <1>4, Zenon DEF RegisterClass
  <2>2. [clsid |-> c, fac |-> f] \in ClassRows /\ [clsid |-> c, fac |-> f].clsid = c
    BY DEF ClassRows
  <2>3. PICK row : row = [clsid |-> c, fac |-> f] /\ row \in ClassRows /\ row.clsid = c
    BY <2>2
  <2>4. /\ classes' \in Seq(ClassRows) /\ Len(classes') = Len(classes) + 1
        /\ DOMAIN classes' = 1..(Len(classes) + 1) /\ DOMAIN classes = 1..Len(classes)
        /\ Len(classes) \in Nat
        /\ \A i \in 1..Len(classes) : classes'[i] = classes[i]
        /\ classes'[Len(classes) + 1] = row
    BY <1>2, <2>1, <2>3
  <2>5. \A i \in DOMAIN classes : classes[i].clsid # c
    BY <1>4 DEF SlotsOf
  <2>6. \A i, j \in DOMAIN classes' : classes'[i].clsid = classes'[j].clsid => i = j
    BY <1>2, <2>3, <2>4, <2>5
  <2>7. Len(classes') <= ClassSlots
    BY <2>1, <2>4, ComAssumption
  <2> QED
    BY <1>1, <2>4, <2>6, <2>7 DEF ClassInv
<1> QED
  BY <1>3, <1>4

LEMMA ClassesKeep == ClassInv /\ [ComNext]_comVars => ClassInv'
<1> SUFFICES ASSUME ClassInv, [ComNext]_comVars
             PROVE  ClassInv'
  OBVIOUS
<1>1. CASE classes' = classes /\ comInited' \subseteq ComThreads
  BY <1>1, Zenon DEF ClassInv
<1>2. comInited \subseteq ComThreads
  BY DEF ClassInv
<1>3. CASE UNCHANGED comVars
  BY <1>1, <1>2, <1>3 DEF comVars
<1>4. ASSUME NEW t \in ComThreads, NEW apt, ComInitialize(t, apt)
      PROVE  ClassInv'
  BY <1>1, <1>2, <1>4 DEF ComInitialize
<1>5. ASSUME NEW t \in ComThreads, ComUninitialize(t) \/ Unmarshal(t)
      PROVE  ClassInv'
  BY <1>1, <1>2, <1>5 DEF ComUninitialize, Unmarshal
<1>6. ASSUME NEW t \in ComThreads, NEW c \in Classes, NEW iid, ComCreate(t, c, iid)
      PROVE  ClassInv'
  <2>1. classes' = classes /\ comInited' = comInited
    BY <1>6, Zenon DEF ComCreate
  <2> QED
    BY <1>1, <1>2, <2>1
<1>7. ASSUME NEW t \in ComThreads, NEW o \in Objects, AddRef(t, o) \/ Release(t, o) \/ Marshal(t, o)
      PROVE  ClassInv'
  <2>1. classes' = classes /\ comInited' = comInited
    BY <1>7, Zenon DEF AddRef, Release, Marshal
  <2> QED
    BY <1>1, <1>2, <2>1
<1> QED
  BY <1>3, <1>4, <1>5, <1>6, <1>7, RegisterKeeps, Zenon DEF ComNext

LEMMA ComTyped == RefInv /\ ClassInv => ComTypeOK
BY Zenon DEF RefInv, ClassInv, ComTypeOK

-----------------------------------------------------------------------------
(* audio.c and mod_winmm.c.                                                *)
ChunkInv ==
  /\ \A s \in 1..Slots : total[s] <= MaxChunks /\ counted[s] <= total[s]
  /\ wav.size <= MaxChunks

LEMMA ChunksStart == WaveInit => ChunkInv
BY WaveAssumption DEF WaveInit, ChunkInv

LEMMA ChunksKeep ==
  ASSUME PrivacyInv, WavInv, ChunkInv, [WaveNext]_waveVars
  PROVE  ChunkInv'
<1> USE DEF ChunkInv
<1>0. /\ total \in [1..Slots -> Nat] /\ counted \in [1..Slots -> Nat] /\ handle \in [Clients -> 0..Slots]
      /\ wav \in [size : Nat, data : Seq(0..Slots)]
      /\ MaxChunks \in Nat /\ Slots \in Nat
  BY WaveAssumption DEF WavInv
<1>1. CASE UNCHANGED waveVars
  BY <1>1 DEF waveVars
<1>2. ASSUME NEW c \in Clients, WaveOpen(c)
      PROVE  ChunkInv'
  <2>1. PICK s : /\ total' = [total EXCEPT ![s] = 0] /\ counted' = [counted EXCEPT ![s] = 0]
                 /\ wav' = [size |-> 0, data |-> << >>]
    BY <1>2, Zenon DEF WaveOpen, OpenSink
  <2>2. wav'.size = 0
    BY <2>1
  <2> QED
    BY <1>0, <2>1, <2>2
<1>3. ASSUME NEW c \in Clients, WaveWrite(c)
      PROVE  ChunkInv'
  <2>1. PICK s : /\ s = handle[c] /\ total' = [total EXCEPT ![s] = @ + 1] /\ wav' = wav
                 /\ counted' = [counted EXCEPT ![s] = @ + 1] \/ counted' = counted
                 /\ total[s] < MaxChunks
    BY <1>3, Zenon DEF WaveWrite
  <2>2. \A t \in 1..Slots : counted[t] \in Nat /\ total[t] \in Nat
    BY <1>0
  <2>3. \A t \in 1..Slots : total'[t] = IF t = s THEN total[t] + 1 ELSE total[t]
    BY <1>0, <2>1
  <2>4. \A t \in 1..Slots : counted'[t] = counted[t] \/ (t = s /\ counted'[t] = counted[t] + 1)
    BY <1>0, <2>1
  <2> QED
    BY <1>0, <2>1, <2>2, <2>3, <2>4
<1>4. ASSUME NEW c \in Clients, WaveReset(c)
      PROVE  ChunkInv'
  BY <1>4 DEF WaveReset
<1>5. ASSUME NEW c \in Clients, WaveClose(c)
      PROVE  ChunkInv'
  <2>1. PICK s : /\ s = handle[c] /\ total' = [total EXCEPT ![s] = 0]
                 /\ counted' = [counted EXCEPT ![s] = 0]
                 /\ wav' = [size |-> counted[s], data |-> Filled(s, spilled[s], total[s])]
    BY <1>5, Zenon DEF WaveClose, CloseSink
  <2>2. wav'.size = counted[s]
    BY <2>1
  <2>3. s \in 1..Slots
    BY <1>0, <1>5, <2>1 DEF WaveClose, Valid
  <2> QED
    BY <1>0, <2>1, <2>2, <2>3
<1>6. ASSUME NEW s \in 1..Slots, WaveSpill(s)
      PROVE  ChunkInv'
  <2>1. PICK d : wav' = [wav EXCEPT !.data = d] /\ total' = total /\ counted' = counted
    BY <1>6, Zenon DEF WaveSpill
  <2>2. wav'.size = wav.size
    BY <1>0, <2>1
  <2> QED
    BY <2>1, <2>2
<1> QED
  BY <1>1, <1>2, <1>3, <1>4, <1>5, <1>6, Zenon DEF WaveNext

LEMMA WaveTyped == PrivacyInv /\ WavInv /\ ChunkInv => WaveTypeOK
<1> SUFFICES ASSUME PrivacyInv, WavInv, ChunkInv
             PROVE  WaveTypeOK
  OBVIOUS
<1>1. wav \in [size : Nat, data : Seq(0..Slots)]
  BY DEF WavInv
<1>2. wav.size \in Nat /\ MaxChunks \in Nat
  BY ONLY <1>1, WaveAssumption
<1>3. /\ total \in [1..Slots -> Nat] /\ spilled \in [1..Slots -> Nat]
      /\ counted \in [1..Slots -> Nat]
  BY DEF WavInv
<1>4. \A s \in 1..Slots : /\ spilled[s] \in 0..total[s] /\ counted[s] \in 0..total[s]
                          /\ total[s] \in 0..MaxChunks
  BY <1>2, <1>3 DEF WavInv, ChunkInv
<1> QED
  BY <1>2, <1>4 DEF PrivacyInv, ChunkInv, WaveTypeOK

-----------------------------------------------------------------------------
(* security.c.                                                             *)
LEMMA AccessTyped ==
  /\ AccessInit => AccessTypeOK
  /\ AceInv /\ AccessTypeOK /\ [AccessStep]_accessVars => AccessTypeOK'
<1>1. AccessInit => AccessTypeOK
  BY AccessAssumption DEF AccessInit, AccessTypeOK
<1>2. ASSUME AceInv, AccessTypeOK, [AccessStep]_accessVars
      PROVE  AccessTypeOK'
  <2>0. dacl \in Seq(Aces) /\ AceSlots \in Nat /\ TokenUser \in Sids
    BY <1>2, AccessAssumption DEF AceInv
  <2>1. CASE UNCHANGED accessVars
    BY <1>2, <2>1 DEF accessVars, AccessTypeOK
  <2>2. ASSUME NEW allow \in BOOLEAN, NEW sid \in Sids, NEW mask \in SUBSET Rights, AclAdd(allow, sid, mask)
        PROVE  AccessTypeOK'
    <3>1. PICK ace : dacl' = Append(dacl, ace) /\ Len(dacl) < AceSlots /\ impersonated' = impersonated
      BY <2>2 DEF AclAdd
    <3>2. Len(dacl') = Len(dacl) + 1 /\ Len(dacl) \in Nat
      BY <2>0, <3>1
    <3> QED
      BY <1>2, <2>0, <3>1, <3>2 DEF AccessTypeOK
  <2>3. ASSUME NEW sid \in Sids, Impersonate(sid)
        PROVE  AccessTypeOK'
    BY <1>2, <2>3 DEF Impersonate, AccessTypeOK
  <2>4. CASE Revert
    BY <1>2, <2>0, <2>4 DEF Revert, AccessTypeOK
  <2> QED
    BY <1>2, <2>1, <2>2, <2>3, <2>4, Zenon DEF AccessStep
<1> QED
  BY <1>1, <1>2


-----------------------------------------------------------------------------
(* plugin.c.                                                               *)
LEMMA BackendTyped == BackendInv => BackendTypeOK
<1> SUFFICES ASSUME BackendInv
             PROVE  BackendTypeOK
  OBVIOUS
<1>1. \A k \in Kinds : Len(backends[k]) <= BackendSlots
  BY Zenon DEF BackendInv, OneOfAName
<1>2. ~seeded => \A k \in Kinds : backends[k] = << >>
  BY DEF BackendInv, Nothing
<1> QED
  BY <1>1, <1>2 DEF BackendTypeOK

-----------------------------------------------------------------------------
(* mod_advapi32.c.                                                         *)
RegSlotsKept == Len(key) <= RegSlots

LEMMA RegBound == RegSlots \in Nat \ {0}
BY RegAssumption, Zenon

LEMMA RegSlotsKeep ==
  ASSUME KeyInv, RegSlotsKept, [RegStep]_regVars
  PROVE  RegSlotsKept'
<1>0. key \in Seq(Keys) /\ RegSlots \in Nat
  BY RegBound DEF KeyInv
<1>1. CASE key' = key
  BY <1>1 DEF RegSlotsKept
<1>2. ASSUME NEW from \in DOMAIN RootName \cup Handles \cup {0}, NEW sub, RegOpen(from, sub)
      PROVE  RegSlotsKept'
  <2>1. CASE key' = key
    BY <1>1, <2>1
  <2>2. CASE key' # key
    <3>1. PICK row : key' = Append(key, row) /\ Len(key) < RegSlots
      BY <1>2, <2>2, Zenon DEF RegOpen
    <3>2. Len(key') = Len(key) + 1 /\ Len(key) \in Nat
      BY <1>0, <3>1
    <3> QED
      BY <1>0, <3>1, <3>2 DEF RegSlotsKept
  <2> QED
    BY <2>1, <2>2
<1>3. ASSUME NEW h \in Handles, NEW v \in RegValues, RegSet(h, v)
      PROVE  RegSlotsKept'
  <2>1. PICK row : key' = [key EXCEPT ![h] = row] /\ h \in DOMAIN key
    BY <1>3, Zenon DEF RegSet
  <2>2. Len(key') = Len(key)
    BY <1>0, <2>1
  <2> QED
    BY <2>2 DEF RegSlotsKept
<1>4. CASE UNCHANGED regVars
  BY <1>1, <1>4 DEF regVars
<1> QED
  BY <1>2, <1>3, <1>4, Zenon DEF RegStep, RegClose

LEMMA RegTyped == KeyInv /\ RegSlotsKept => RegTypeOK
<1> SUFFICES ASSUME KeyInv, RegSlotsKept
             PROVE  RegTypeOK
  OBVIOUS
<1>1. key \in Seq(Keys) /\ RegSlots \in Nat
  BY RegBound DEF KeyInv
<1>2. DOMAIN key \subseteq Handles
  BY <1>1 DEF RegSlotsKept, Handles
<1>3. \A o \in opened : o[1] \in DOMAIN key
  BY DEF KeyInv
<1> QED
  BY <1>2, <1>3, SlotTypes, Zenon DEF RegTypeOK, RegSlotsKept

-----------------------------------------------------------------------------
(* perf.c and timer.c.                                                     *)
LEMMA HoldsTyped ==
  ASSUME NEW cap \in Nat \ {0}, NEW r, NEW n, NEW value, Holds(r, cap, n, value)
  PROVE  r.pos \in 0..cap - 1 /\ r.count \in 0..cap
<1>1. n \in Nat /\ r.pos = n % cap /\ r.count = IF n < cap THEN n ELSE cap
  BY DEF Holds
<1> QED
  BY <1>1

LEMMA SamplesTyped == SamplesInv /\ FramesInv => SamplesTypeOK
BY HoldsTyped, RingsAssumption DEF SamplesInv, FramesInv, SamplesTypeOK

-----------------------------------------------------------------------------
(* loader.c.                                                               *)
LEMMA ImageTyped == ImageInv => ImageTypeOK
<1> SUFFICES ASSUME ImageInv
             PROVE  ImageTypeOK
  OBVIOUS
<1>1. MapInv
  BY DEF ImageInv
<1>2. placed \in -1..Sections /\ mapped \in [0..ImageSize - 1 -> Nat]
  BY <1>1 DEF MapInv
<1>3. RawSize \in Nat /\ HeaderSize \in Nat /\ ImageSize \in Nat
  BY ImageAssumption
<1>4. ASSUME NEW a \in 0..ImageSize - 1
      PROVE  mapped[a] \in 0..RawSize + ImageSize
  <2>0. a \in Nat /\ a < ImageSize
    BY <1>3, <1>4
  <2>1. CASE placed = -1
    BY <1>1, <1>3, <2>1 DEF MapInv
  <2>2. CASE mapped[a] = FromHeaders(a)
    BY <1>3, <2>0, <2>2 DEF FromHeaders
  <2>3. CASE placed # -1 /\ \E i \in 1..Sections : FromData(i, a) /\ mapped[a] = FileByte(i, a)
    <3>1. PICK i \in 1..Sections : FromData(i, a) /\ mapped[a] = FileByte(i, a)
      BY <2>3
    <3>2. section \in Layouts
      BY <2>3 DEF ImageInv
    <3>3. PICK s \in Rows : s = section[i]
      BY <3>2, LayoutRows
    <3>4. s.va \in Nat /\ s.offset \in Nat /\ s.size \in Nat
      BY <3>3 DEF Rows
    <3>5. /\ s.offset < RawSize /\ a \in s.va..s.va + s.size - 1
          /\ mapped[a] = s.offset + (a - s.va) + 1
      BY <3>1, <3>3 DEF FromData, Fits, DataRange, FileByte
    <3> QED
      BY <1>3, <2>0, <3>4, <3>5
  <2>4. placed # -1 => HasOrigin(a)
    BY <1>1 DEF MapInv
  <2> QED
    BY <2>1, <2>2, <2>3, <2>4 DEF HasOrigin
<1> QED
  BY <1>2, <1>4 DEF ImageTypeOK

-----------------------------------------------------------------------------
(* locale.c.                                                               *)
LEMMA LocaleTyped ==
  /\ LocaleInit => LocaleTypeOK
  /\ LocaleTypeOK /\ [LocaleStep]_localeVars => LocaleTypeOK'
<1>1. LocaleInit => LocaleTypeOK
  BY LocaleAssumption DEF LocaleInit, LocaleTypeOK, NoText, NotBack
<1>2. ASSUME LocaleTypeOK, [LocaleStep]_localeVars
      PROVE  LocaleTypeOK'
  <2>1. CASE UNCHANGED localeVars
    BY <1>2, <2>1 DEF localeVars, LocaleTypeOK
  <2>2. ASSUME NEW l \in Locales, SetLocale(l)
        PROVE  LocaleTypeOK'
    BY <1>2, <2>2 DEF SetLocale, LocaleTypeOK
  <2>3. ASSUME NEW page \in Pages, NEW text, NEW cap \in Caps, Convert(page, text, cap)
        PROVE  LocaleTypeOK'
    <3>1. /\ locale' = locale /\ back' = back
          /\ given' = [page |-> page, text |-> text, under |-> locale]
      BY <2>3, Zenon DEF Convert
    <3> QED
      BY <1>2, <3>1 DEF LocaleTypeOK
  <2>4. ASSUME NEW cap \in Caps, ConvertBack(cap)
        PROVE  LocaleTypeOK'
    <3>1. PICK t : /\ locale' = locale /\ given' = given
                   /\ back' = [text |-> t, cap |-> cap, under |-> locale]
      BY <2>4, Zenon DEF ConvertBack
    <3> QED
      BY <1>2, <3>1 DEF LocaleTypeOK
  <2>5. ASSUME NEW minus \in BOOLEAN, NEW n \in 1..MaxDigits, Format(minus, SubSeq(Digits, 1, n))
        PROVE  LocaleTypeOK'
    <3>1. locale' = locale /\ given' = given /\ back' = back
      BY <2>5, Zenon DEF Format
    <3> QED
      BY <1>2, <3>1 DEF LocaleTypeOK
  <2> QED
    BY <1>2, <2>1, <2>2, <2>3, <2>4, <2>5, Zenon DEF LocaleStep
<1> QED
  BY <1>1, <1>2

-----------------------------------------------------------------------------
(* shell.c.                                                                *)
ShellTyped == shellOf \in BottlePaths \cup {""}

LEMMA ShellKeeps ==
  /\ HostInit => ShellTyped
  /\ ShellTyped /\ [ShellStep]_shellVars => ShellTyped'
<1>1. HostInit => ShellTyped
  BY Zenon DEF HostInit, ShellTyped
<1>2. ShellTyped /\ UNCHANGED shellVars => ShellTyped'
  <2>1. UNCHANGED shellVars => shellOf' = shellOf
    BY DEF shellVars
  <2> QED
    BY <2>1, Zenon DEF ShellTyped
<1>3. ShellTyped /\ ShellStep => ShellTyped'
  BY Zenon DEF ShellTyped, ShellStep, ShellInit, ShellExpand
<1> QED
  BY <1>1, <1>2, <1>3

-----------------------------------------------------------------------------
(* print.c.                                                                *)
PaperInv ==
  /\ Len(printers) <= PrinterSlots /\ job \in 1..JobLimit
  /\ \A f, g \in paper : <<f.dir, f.id>> = <<g.dir, g.id>> => f = g

LEMMA PaperStarts == HostInit => PaperInv
<1>1. {PrinterSlots, JobLimit} \subseteq Nat \ {0}
  BY HostAssumption
<1>2. 1 \in 1..JobLimit /\ 0 <= PrinterSlots
  BY <1>1
<1>3. HostInit => printers = << >> /\ job = 1 /\ paper = {}
  BY Zenon DEF HostInit
<1>4. Len(<< >>) = 0
  OBVIOUS
<1> QED
  BY <1>2, <1>3, <1>4, Zenon DEF PaperInv

LEMMA ReadyFits ==
  ASSUME PrintInv, PaperInv
  PROVE  Ready \in Seq(PrinterRows) /\ Len(Ready) <= PrinterSlots
<1>1. {PrinterSlots, JobLimit} \subseteq Nat \ {0}
  BY HostAssumption
<1>2. Ready \in Seq(PrinterRows)
  BY ReadyKeeps
<1>3. CASE printers = << >>
  <2>1. Ready = <<[name |-> CellarPdf, default |-> TRUE]>>
    BY <1>3 DEF Ready
  <2>2. Len(Ready) = 1
    BY <2>1
  <2> QED
    BY <1>1, <1>2, <2>2
<1>4. CASE printers # << >>
  BY <1>2, <1>4 DEF Ready, PaperInv
<1> QED
  BY <1>3, <1>4

LEMMA PaperKeeps ==
  ASSUME PrintInv, PaperInv, [PrintStep]_printVars
  PROVE  PaperInv'
<1>0. PrinterSlots \in Nat \ {0} /\ JobLimit \in Nat \ {0}
  <2>1. {PrinterSlots, JobLimit} \subseteq Nat \ {0}
    BY HostAssumption
  <2> QED
    BY <2>1
<1>1. CASE UNCHANGED printVars
  BY <1>1 DEF printVars, PaperInv
<1>2. ASSUME NEW name \in Printers, NEW default \in BOOLEAN, AddPrinter(name, default)
      PROVE  PaperInv'
  <2>1. PICK row : printers' = Append(Ready, row) /\ Len(Ready) < PrinterSlots
    BY <1>2 DEF AddPrinter
  <2>2. Len(printers') = Len(Ready) + 1 /\ Len(Ready) \in Nat
    BY <2>1, ReadyFits
  <2>3. Len(printers') <= PrinterSlots
    BY <1>0, <2>1, <2>2
  <2> QED
    BY <1>2, <2>3 DEF AddPrinter, PaperInv
<1>3. ASSUME NEW name \in Printers \cup {Unnamed}, NEW doc \in Documents, NEW dir \in JobDirs,
             NEW w \in BOOLEAN, PrintJob(name, doc, dir, w)
      PROVE  PaperInv'
  <2>1. PICK sheet : /\ sheet = [dir |-> dir, id |-> job, of |-> doc]
                     /\ job' = job + 1 /\ printers' = Ready /\ job < JobLimit
                     /\ \/ paper' = {f \in paper : <<f.dir, f.id>> # <<dir, job>>} \cup {sheet}
                        \/ paper' = paper
    BY <1>3 DEF PrintJob
  <2>2. sheet.dir = dir /\ sheet.id = job
    BY <2>1
  <2>3. \A f, g \in paper' : <<f.dir, f.id>> = <<g.dir, g.id>> => f = g
    BY <2>1, <2>2 DEF PaperInv
  <2>4. job' \in 1..JobLimit
    BY <1>0, <2>1 DEF PaperInv
  <2> QED
    BY <2>1, <2>3, <2>4, ReadyFits DEF PaperInv
<1>4. ASSUME NEW name \in Printers, NoSuchPrinter(name)
      PROVE  PaperInv'
  BY <1>4, ReadyFits DEF NoSuchPrinter, PaperInv
<1>5. CASE NextProcess
  BY <1>0, <1>5 DEF NextProcess, PaperInv
<1> QED
  BY <1>1, <1>2, <1>3, <1>4, <1>5, Zenon DEF PrintStep

LEMMA HostTyped == PaperInv /\ ShellTyped => HostTypeOK
BY Zenon DEF PaperInv, ShellTyped, HostTypeOK

-----------------------------------------------------------------------------
(* service.c, device.c, notify.c.                                          *)
NestingKept == Len(running) <= MaxNesting
IdsKept == nextDevice \in 1..IdLimit + 1
NotesNumbered == nextNote \in 1..IdLimit + 1

LEMMA SessionBounds == MaxNesting \in Nat /\ IdLimit \in Nat /\ Nodes \in Nat \ {0, 1}
BY SessionAssumption

LEMMA CountersStart == SessionInit => NestingKept /\ IdsKept /\ NotesNumbered
<1> SUFFICES ASSUME SessionInit
             PROVE  NestingKept /\ IdsKept /\ NotesNumbered
  OBVIOUS
<1>1. running = << >> /\ nextDevice = 1 /\ nextNote = 1
  BY Zenon DEF SessionInit
<1> QED
  BY <1>1, SessionBounds DEF NestingKept, IdsKept, NotesNumbered

LEMMA NestingKeeps ==
  ASSUME SvcInv, NestingKept, [ServiceStep]_serviceVars
  PROVE  NestingKept'
<1>0. running \in Seq(Services) /\ Len(running) \in Nat /\ MaxNesting \in Nat
  BY SessionBounds DEF SvcInv
<1>1. CASE running' = running
  BY <1>1 DEF NestingKept
<1>2. CASE UNCHANGED serviceVars
  BY <1>1, <1>2 DEF serviceVars
<1>3. ASSUME NEW s \in Services, SvcRegister(s) \/ SvcStop(s)
      PROVE  NestingKept'
  BY <1>1, <1>3 DEF SvcRegister, SvcStop
<1>4. ASSUME NEW s \in Services, SvcStart(s)
      PROVE  NestingKept'
  <2>1. running' = Append(running, s) /\ Len(running) < MaxNesting
    BY <1>4 DEF SvcStart
  <2>2. Len(running') = Len(running) + 1
    BY <1>0, <2>1
  <2> QED
    BY <1>0, <2>1, <2>2 DEF NestingKept
<1>5. ASSUME NEW s \in Services, SvcMainReturns(s)
      PROVE  NestingKept'
  <2>1. running' = SubSeq(running, 1, Len(running) - 1) /\ running # << >>
    BY <1>5 DEF SvcMainReturns
  <2>2. Len(running) \in Nat \ {0}
    BY <1>0, <2>1, SomeLength
  <2>3. PICK n : n = Len(running) - 1 /\ n \in Nat /\ n < Len(running)
    BY <2>2
  <2>4. \A i \in 1..n : running[i] \in Services
    BY <1>0, <2>3
  <2>5. Len(SubSeq(running, 1, n)) = IF 1 <= n THEN n - 1 + 1 ELSE 0
    BY ONLY <2>3, <2>4, SubSeqProperties
  <2>6. Len(running') = n
    BY ONLY <2>1, <2>3, <2>5
  <2> QED
    BY <1>0, <2>3, <2>6 DEF NestingKept
<1> QED
  BY <1>2, <1>3, <1>4, <1>5, Zenon DEF ServiceStep

LEMMA IdsKeep ==
  ASSUME IdsKept, [DeviceStep]_deviceVars
  PROVE  IdsKept'
<1>1. \/ nextDevice' = nextDevice \/ nextDevice' = 1
      \/ nextDevice <= IdLimit /\ nextDevice' = nextDevice + 1
  BY Zenon DEF deviceVars, DeviceStep, Attach, Detach, DeviceReset
<1> QED
  BY <1>1, SessionBounds DEF IdsKept

LEMMA NotesNumberedKeep ==
  ASSUME NotesNumbered, [NotifyStep]_notifyVars
  PROVE  NotesNumbered'
<1>1. \/ nextNote' = nextNote
      \/ nextNote <= IdLimit /\ nextNote' = nextNote + 1
  BY Zenon DEF notifyVars, NotifyStep, DesktopNotify, Show, CloseNote
<1> QED
  BY <1>1, SessionBounds DEF NotesNumbered

-----------------------------------------------------------------------------
(* desktop.c.                                                              *)
FileIds == {EntryId[n] : n \in EntryNames}

DesktopInv ==
  /\ DOMAIN shortcut = FileIds
  /\ \A id \in FileIds : shortcut[id] = "" \/ EntryId[shortcut[id]] = id
  /\ mime \in Seq(EntryNames) /\ {clipboard, lastUrl} \subseteq Texts \cup {""}

LEMMA DesktopStarts == SessionInit => DesktopInv
<1> SUFFICES ASSUME SessionInit
             PROVE  DesktopInv
  OBVIOUS
<1>1. /\ shortcut = [id \in FileIds |-> ""] /\ mime = << >> /\ clipboard = "" /\ lastUrl = ""
  BY Zenon DEF SessionInit, FileIds
<1>2. << >> \in Seq(EntryNames)
  OBVIOUS
<1> QED
  BY <1>1, <1>2, Zenon DEF DesktopInv

LEMMA DesktopKeeps ==
  ASSUME DesktopInv, [DesktopStep]_desktopVars
  PROVE  DesktopInv'
<1>1. CASE UNCHANGED desktopVars
  <2>1. shortcut' = shortcut /\ mime' = mime /\ clipboard' = clipboard /\ lastUrl' = lastUrl
    BY <1>1 DEF desktopVars
  <2> QED
    BY <2>1, Zenon DEF DesktopInv
<1>2. ASSUME NEW n \in EntryNames, WriteShortcut(n)
      PROVE  DesktopInv'
  <2>1. /\ shortcut' = [shortcut EXCEPT ![EntryId[n]] = n]
        /\ mime' = mime /\ clipboard' = clipboard /\ lastUrl' = lastUrl
    BY <1>2 DEF WriteShortcut
  <2>2. DOMAIN shortcut' = FileIds
    BY <2>1, Zenon DEF DesktopInv
  <2>3. EntryId[n] \in DOMAIN shortcut
    BY Zenon DEF DesktopInv, FileIds
  <2>4. /\ shortcut'[EntryId[n]] = n
        /\ \A id \in DOMAIN shortcut : id # EntryId[n] => shortcut'[id] = shortcut[id]
    BY ONLY <2>1, <2>3
  <2>5. \A id \in FileIds : shortcut'[id] = "" \/ EntryId[shortcut'[id]] = id
    BY <2>4, Zenon DEF DesktopInv
  <2> QED
    BY <2>1, <2>2, <2>5, Zenon DEF DesktopInv
<1>3. ASSUME NEW n \in EntryNames, WriteMime(n)
      PROVE  DesktopInv'
  <2>1. /\ mime' = Append(mime, n) /\ shortcut' = shortcut /\ clipboard' = clipboard
        /\ lastUrl' = lastUrl
    BY <1>3 DEF WriteMime
  <2>2. mime \in Seq(EntryNames)
    BY Zenon DEF DesktopInv
  <2>3. mime' \in Seq(EntryNames)
    BY ONLY <2>1, <2>2, n \in EntryNames
  <2> QED
    BY <2>1, <2>3, Zenon DEF DesktopInv
<1>4. ASSUME NEW text \in Texts
      PROVE  Kept[text].clipboard \in Texts /\ Kept[text].url \in Texts
  BY SessionAssumption
<1>5. ASSUME NEW text \in Texts, ClipboardSet(text)
      PROVE  DesktopInv'
  <2>1. /\ clipboard' \in Texts /\ shortcut' = shortcut /\ mime' = mime /\ lastUrl' = lastUrl
    BY <1>4, <1>5, Zenon DEF ClipboardSet
  <2> QED
    BY <2>1, Zenon DEF DesktopInv
<1>6. ASSUME NEW text \in Texts, OpenUrl(text)
      PROVE  DesktopInv'
  <2>1. /\ lastUrl' \in Texts /\ shortcut' = shortcut /\ mime' = mime /\ clipboard' = clipboard
    BY <1>4, <1>6, Zenon DEF OpenUrl
  <2> QED
    BY <2>1, Zenon DEF DesktopInv
<1> QED
  BY <1>1, <1>2, <1>3, <1>5, <1>6, Zenon DEF DesktopStep

-----------------------------------------------------------------------------
(* a11y.c.                                                                 *)
Kids(p, id) == {j \in DOMAIN p : p[j] = id}

IsTree(p, c) ==
  /\ p \in Seq(Nat) /\ c \in Seq(Nat) /\ Len(c) = Len(p) /\ Len(p) < Nodes
  /\ \A i \in DOMAIN p : p[i] < i /\ c[i] = Cardinality(Kids(p, i))

NodeInv == IsTree(parent, children)

LEMMA NodesStart ==
  ASSUME parent = << >>, children = << >>
  PROVE  NodeInv
BY SessionBounds DEF NodeInv, IsTree

LEMMA RootedTree ==
  ASSUME NodeInv
  PROVE  IsTree(Parents, Counts) /\ Len(Parents) \in Nat \ {0}
<1>1. CASE parent = << >>
  <2>1. Parents = <<0>> /\ Counts = <<0>>
    BY <1>1 DEF Parents, Counts
  <2>2. PICK p : p = <<0>>
    OBVIOUS
  <2>3. p \in Seq(Nat) /\ Len(p) = 1 /\ DOMAIN p = {1} /\ p[1] = 0
    BY ONLY <2>2
  <2>4. Kids(p, 1) = {}
    BY <2>3 DEF Kids
  <2>5. Cardinality(Kids(p, 1)) = 0
    BY <2>4, FS_EmptySet
  <2>6. IsTree(p, p)
    BY <2>3, <2>5, SessionBounds DEF IsTree
  <2> QED
    BY <2>1, <2>2, <2>3, <2>6
<1>2. CASE parent # << >>
  <2>1. Parents = parent /\ Counts = children /\ parent \in Seq(Nat)
    BY <1>2 DEF Parents, Counts, NodeInv, IsTree
  <2> QED
    BY <1>2, <2>1, SomeLength DEF NodeInv
<1> QED
  BY <1>1, <1>2

LEMMA TreeGrows ==
  ASSUME NEW p, NEW c, IsTree(p, c), NEW under \in DOMAIN p, Len(p) + 1 < Nodes
  PROVE  IsTree(Append(p, under), Append([c EXCEPT ![under] = @ + 1], 0))
<1>1. PICK n : n = Len(p) /\ n \in Nat /\ p \in Seq(Nat) /\ c \in Seq(Nat) /\ Len(c) = n
  BY DEF IsTree
<1>2. DOMAIN p = 1..n /\ DOMAIN c = 1..n /\ under \in 1..n
  BY <1>1
<1>3. PICK q : q = Append(p, under)
  OBVIOUS
<1>4. /\ q \in Seq(Nat) /\ Len(q) = n + 1 /\ DOMAIN q = 1..(n + 1)
      /\ \A i \in 1..n : q[i] = p[i]
      /\ q[n + 1] = under
  BY ONLY <1>1, <1>2, <1>3
<1>5. PICK d : d = [c EXCEPT ![under] = @ + 1]
  OBVIOUS
<1>6. /\ d \in Seq(Nat) /\ Len(d) = n
      /\ \A i \in 1..n : d[i] = IF i = under THEN c[i] + 1 ELSE c[i]
  BY ONLY <1>1, <1>2, <1>5
<1>7. PICK e : e = Append(d, 0)
  OBVIOUS
<1>15. d \in Seq(Nat) /\ Len(d) = n /\ n \in Nat
  BY <1>1, <1>6
<1>8. /\ e \in Seq(Nat) /\ Len(e) = n + 1 /\ e[n + 1] = 0
      /\ \A i \in 1..n : e[i] = d[i]
  BY ONLY <1>7, <1>15
<1>12. \A i \in DOMAIN p : p[i] < i /\ c[i] = Cardinality(Kids(p, i))
  BY DEF IsTree
<1>13. \A i \in 1..n : p[i] < i /\ c[i] = Cardinality(Kids(p, i))
  BY <1>2, <1>12, Zenon
<1>14. \A i \in 1..n : p[i] \in Nat
  BY ONLY <1>1, <1>2
<1>9. \A i \in 1..n : p[i] < i /\ c[i] = Cardinality(Kids(p, i)) /\ p[i] \in Nat
  BY <1>13, <1>14, Zenon
<1>10. ASSUME NEW i \in 1..(n + 1)
       PROVE  q[i] < i /\ e[i] = Cardinality(Kids(q, i))
  <2>6. n \in Nat /\ (i \in 1..n \/ i = n + 1) /\ under \in 1..n
    BY ONLY <1>1, <1>2, <1>10
  <2>7. /\ \A j \in 1..n : q[j] = p[j]
        /\ q[n + 1] = under
    BY <1>4
  <2>8. \A j \in 1..n : p[j] < j
    BY <1>9
  <2>1. q[i] < i
    BY ONLY <2>6, <2>7, <2>8
  <2>2. ASSUME NEW k
        PROVE  IsFiniteSet(Kids(p, k)) /\ Cardinality(Kids(p, k)) \in Nat
    <3>1. Kids(p, k) \subseteq 1..n
      BY <1>2 DEF Kids
    <3>2. IsFiniteSet(1..n)
      BY <1>1, FS_Interval
    <3> QED
      BY <3>1, <3>2, FS_Subset, FS_CardinalityType
  <2>3. CASE i = n + 1
    <3>1. Kids(q, i) = {}
      <4>1. \A j \in 1..n : p[j] # n + 1
        BY ONLY <2>6, <2>8, <1>14
      <4> QED
        BY ONLY <1>4, <2>3, <2>6, <2>7, <4>1 DEF Kids
    <3> QED
      BY <1>8, <2>1, <2>3, <3>1, FS_EmptySet
  <2>4. CASE i \in 1..n /\ i = under
    <3>1. Kids(q, i) = Kids(p, i) \cup {n + 1}
      BY ONLY <1>2, <1>4, <2>4, <2>6, <2>7 DEF Kids
    <3>2. n + 1 \notin Kids(p, i)
      BY <1>1, <1>2 DEF Kids
    <3>3. Cardinality(Kids(q, i)) = Cardinality(Kids(p, i)) + 1
      BY <2>2, <3>1, <3>2, FS_AddElement
    <3> QED
      BY <1>6, <1>8, <1>9, <2>1, <2>4, <3>3
  <2>5. CASE i \in 1..n /\ i # under
    <3>1. Kids(q, i) = Kids(p, i)
      BY ONLY <1>2, <1>4, <2>5, <2>6, <2>7 DEF Kids
    <3> QED
      BY <1>6, <1>8, <1>9, <2>1, <2>5, <3>1
  <2> QED
    BY <1>1, <2>3, <2>4, <2>5
<1>11. n + 1 < Nodes
  BY <1>1
<1> QED
  BY <1>3, <1>4, <1>5, <1>7, <1>8, <1>10, <1>11 DEF IsTree

LEMMA NodesKeep == NodeInv /\ [NodeStep]_nodeVars => NodeInv'
<1> SUFFICES ASSUME NodeInv, [NodeStep]_nodeVars
             PROVE  NodeInv'
  OBVIOUS
<1>1. CASE UNCHANGED nodeVars
  BY <1>1 DEF nodeVars, NodeInv
<1>2. CASE RefuseNode
  BY <1>2, RootedTree DEF RefuseNode, NodeInv
<1>3. CASE ResetNodes
  <2>1. parent' = << >> /\ children' = << >>
    BY <1>3 DEF ResetNodes
  <2> QED
    BY <2>1, SessionBounds DEF NodeInv, IsTree
<1>4. ASSUME NEW p \in 0..Nodes - 1, CreateNode(p)
      PROVE  NodeInv'
  <2>1. PICK under : /\ under \in DOMAIN Parents /\ Len(Parents) + 1 < Nodes
                     /\ parent' = Append(Parents, under)
                     /\ children' = Append([Counts EXCEPT ![under] = @ + 1], 0)
    BY <1>4, Zenon DEF CreateNode
  <2>2. PICK a, b : a = Parents /\ b = Counts /\ IsTree(a, b)
    BY RootedTree
  <2> QED
    BY <2>1, <2>2, TreeGrows DEF NodeInv
<1> QED
  BY <1>1, <1>2, <1>3, <1>4, Zenon DEF NodeStep

LEMMA TreeTells == NodeInv => TreeCounts /\ Len(parent) < Nodes /\ Len(children) = Len(parent)
<1> SUFFICES ASSUME NodeInv
             PROVE  TreeCounts
  BY DEF NodeInv, IsTree
<1>1. ASSUME NEW i \in DOMAIN parent
      PROVE  parent[i] < i /\ children[i] = Cardinality(ChildrenOf(i))
  <2>1. parent # << >>
    BY <1>1
  <2>2. ChildrenOf(i) = Kids(parent, i)
    BY <2>1 DEF ChildrenOf, Kids, Parents
  <2> QED
    BY <2>2 DEF NodeInv, IsTree
<1> QED
  BY <1>1 DEF TreeCounts

LEMMA SessionTyped ==
  SvcInv /\ NestingKept /\ IdsKept /\ NotesNumbered /\ NotifyInv /\ NodeInv /\ DesktopInv
    => SessionTypeOK /\ TreeCounts
<1> SUFFICES ASSUME SvcInv, NestingKept, IdsKept, NotesNumbered, NotifyInv, NodeInv, DesktopInv
             PROVE  SessionTypeOK /\ TreeCounts
  OBVIOUS
<1>1. Len(history) <= NotifyCap
  BY Zenon DEF NotifyInv, NotesKept
<1>2. service \in [Services -> {"none", "stopped", "start_pending", "running"}]
  BY Zenon DEF SvcInv
<1> QED
  BY <1>1, <1>2, TreeTells, Zenon
     DEF SessionTypeOK, NestingKept, IdsKept, NotesNumbered, DesktopInv

-----------------------------------------------------------------------------
LEMMA WavStarts == WaveInit => WavInv
<1> SUFFICES ASSUME WaveInit
             PROVE  WavInv
  OBVIOUS
<1>1. /\ open = [s \in 1..Slots |-> FALSE] /\ total = [s \in 1..Slots |-> 0]
      /\ counted = [s \in 1..Slots |-> 0] /\ spilled = [s \in 1..Slots |-> 0] /\ wav = [size |-> 0, data |-> << >>]
      /\ handle = [c \in Clients |-> 0]
  BY DEF WaveInit
<1>2. << >> \in Seq(0..Slots) /\ Len(<< >>) = 0 /\ DOMAIN << >> = {}
  OBVIOUS
<1>3. wav \in [size : Nat, data : Seq(0..Slots)] /\ wav.size = 0 /\ wav.data = << >>
  BY <1>1, <1>2
<1>4. WavWhole
  BY <1>2, <1>3 DEF WavWhole
<1> QED
  BY <1>1, <1>3, <1>4, WaveAssumption DEF WavInv

LEMMA WavKeeps == WavInv /\ [WaveNext]_waveVars => WavInv'
<1> SUFFICES ASSUME WavInv, [WaveNext]_waveVars
             PROVE  WavInv'
  OBVIOUS
<1>1. CASE UNCHANGED waveVars
  BY <1>1 DEF waveVars, WavInv, WavWhole
<1>2. ASSUME NEW c \in Clients, WaveReset(c)
      PROVE  WavInv'
  BY <1>2 DEF WaveReset, WavInv, WavWhole
<1> QED
  BY <1>1, <1>2, WavOpen, WavWrite, WavSpill, WavClose, Zenon DEF WaveNext

LEMMA SvcStarts == SessionInit => SvcInv
<1> SUFFICES ASSUME SessionInit
             PROVE  SvcInv
  OBVIOUS
<1>1. /\ service = [s \in Services |-> "none"] /\ running = << >>
      /\ last = [s \in Services |-> "stop"]
  BY Zenon DEF SessionInit
<1> QED
  BY <1>1 DEF SvcInv, ServiceSettled

LEMMA ImageStarts == Init => ImageInv
<1> SUFFICES ASSUME Init
             PROVE  ImageInv
  OBVIOUS
<1>1. /\ mapped = [a \in 0..ImageSize - 1 |-> 0] /\ placed = -1
      /\ part = "image" => section \in Layouts
  BY DEF Init, ImageInit, IdleImage
<1> QED
  BY <1>1, ImageAssumption DEF ImageInv, MapInv

LEMMA AceStarts == AccessInit => AceInv
<1>1. << >> \in Seq(Aces)
  OBVIOUS
<1> QED
  BY <1>1, Zenon DEF AccessInit, AceInv

LEMMA RegSlotsStart == RegInit => RegSlotsKept
  BY RegBound DEF RegInit, RegSlotsKept

LEMMA NodesBegin == SessionInit => NodeInv
<1>1. ASSUME SessionInit
      PROVE  parent = << >> /\ children = << >>
  BY <1>1, Zenon DEF SessionInit
<1> QED
  BY <1>1, NodesStart

-----------------------------------------------------------------------------
(* The invariants of the components that share their types.                 *)
SessionInv ==
  /\ SvcInv /\ NestingKept /\ IdsKept /\ NotesNumbered /\ NotifyInv /\ NodeInv /\ DesktopInv
DeviceInv == PrivacyInv /\ WavInv /\ ChunkInv
TablesInv == /\ SamplesInv /\ FramesInv /\ BackendInv /\ AceInv /\ AccessTypeOK
             /\ KeyInv /\ RegSlotsKept /\ DbInv /\ ProfileTypeOK
LaunchInv == /\ AnalysisInv /\ HeapInv /\ PlaceInv /\ ImageInv /\ DoctorInv /\ DiagnoseInv
DeskInv == LocaleTypeOK /\ PrintInv /\ PaperInv /\ ShellTyped

LEMMA SessionKept == Spec => []SessionInv
<1>1. Init => SessionInv
  BY SvcStarts, CountersStart, NotifyStarts, NodesBegin, DesktopStarts, Zenon DEF Init, SessionInv
<1>2. SessionInv /\ [Next]_vars => SessionInv'
  <2> SUFFICES ASSUME SessionInv, [Next]_vars
               PROVE  SessionInv'
    OBVIOUS
  <2> USE StepsApart, StepsApart DEF SessionInv
  <2>1. SvcInv' /\ NestingKept'
    BY SvcKeeps, NestingKeeps
  <2>2. IdsKept' /\ NotesNumbered'
    BY IdsKeep, NotesNumberedKeep
  <2>3. NotifyInv' /\ NodeInv' /\ DesktopInv'
    BY NotifyKeeps, NodesKeep, DesktopKeeps
  <2> QED
    BY <2>1, <2>2, <2>3
<1> QED
  BY <1>1, <1>2, PTL DEF Spec

LEMMA DevicesKept == Spec => []DeviceInv
<1>1. Init => DeviceInv
  BY PrivacyInit, WavStarts, ChunksStart, Zenon DEF Init, DeviceInv
<1>2. DeviceInv /\ [Next]_vars => DeviceInv'
  BY StepsApart, PrivacyStep, WavKeeps, ChunksKeep DEF DeviceInv
<1> QED
  BY <1>1, <1>2, PTL DEF Spec

LEMMA TablesKept == Spec => []TablesInv
<1>1. Init => TablesInv
  BY RingsInit, BackendStarts, AceStarts, AccessTyped, KeyInit, RegSlotsStart, DbStarts, ProfileTyped,
     Zenon DEF Init, TablesInv
<1>2. TablesInv /\ [Next]_vars => TablesInv'
  <2> SUFFICES ASSUME TablesInv, [Next]_vars
               PROVE  TablesInv'
    OBVIOUS
  <2> USE StepsApart, StepsApart DEF TablesInv
  <2>1. SamplesInv' /\ FramesInv' /\ BackendInv'
    BY SamplesStep, FramesStep, BackendKeeps
  <2>2. AceInv' /\ AccessTypeOK'
    BY AceStep, AccessTyped
  <2>3. KeyInv' /\ RegSlotsKept'
    BY KeyStep, RegSlotsKeep
  <2>4. DbInv' /\ ProfileTypeOK'
    BY DbKeeps, ProfileTyped
  <2> QED
    BY <2>1, <2>2, <2>3, <2>4
<1> QED
  BY <1>1, <1>2, PTL DEF Spec

LEMMA LaunchKept == Spec => []LaunchInv
<1>1. Init => LaunchInv
  BY AnalysisStarts, HeapInit, PlaceStarts, ImageStarts, DoctorStarts, DiagnoseStarts, Zenon
     DEF Init, LaunchInv
<1>2. LaunchInv /\ [Next]_vars => LaunchInv'
  <2> SUFFICES ASSUME LaunchInv, [Next]_vars
               PROVE  LaunchInv'
    OBVIOUS
  <2> USE StepsApart, StepsApart DEF LaunchInv
  <2>1. AnalysisInv' /\ DoctorInv' /\ DiagnoseInv'
    BY AnalysisKeeps, DoctorKeeps, DiagnoseKeeps
  <2>2. HeapInv' /\ PlaceInv'
    BY HeapStep, PlaceKeeps
  <2>3. ImageInv'
    BY ImageStepKeeps
  <2> QED
    BY <2>1, <2>2, <2>3
<1> QED
  BY <1>1, <1>2, PTL DEF Spec

LEMMA DeskKept == Spec => []DeskInv
<1>1. Init => DeskInv
  BY LocaleTyped, PrintInit, PaperStarts, ShellKeeps, Zenon DEF Init, DeskInv
<1>2. DeskInv /\ [Next]_vars => DeskInv'
  <2> SUFFICES ASSUME DeskInv, [Next]_vars
               PROVE  DeskInv'
    OBVIOUS
  <2> USE StepsApart, StepsApart DEF DeskInv
  <2>1. LocaleTypeOK' /\ ShellTyped'
    BY LocaleTyped, ShellKeeps
  <2>2. PrintInv' /\ PaperInv'
    BY PrintStepKeeps, PaperKeeps
  <2> QED
    BY <2>1, <2>2
<1> QED
  BY <1>1, <1>2, PTL DEF Spec

(* Whatever the sizes of the tables and rings of a process, no field of     *)
(* their state leaves its range, every tree, list and table keeps its shape *)
(* and the counts beside them stay true to what they count.                 *)
THEOREM ProcessWellTyped == Spec => []ProcessTypeOK
<1> DEFINE Inv == /\ RefInv /\ ClassInv /\ DeviceInv /\ SessionInv /\ TablesInv /\ LaunchInv /\ DeskInv
<1>1. Init => RefInv /\ ClassInv
  BY RefInit, ClassStarts, Zenon DEF Init
<1>2. RefInv /\ ClassInv /\ [Next]_vars => RefInv' /\ ClassInv'
  BY RefStep, ClassesKeep, StepsApart
<1>3. Inv => ProcessTypeOK
  <2> SUFFICES ASSUME Inv
               PROVE  ProcessTypeOK
    OBVIOUS
  <2>1. ComTypeOK /\ WaveTypeOK
    BY ComTyped, WaveTyped, Zenon DEF DeviceInv
  <2>2. SessionTypeOK /\ TreeCounts
    BY SessionTyped, Zenon DEF SessionInv
  <2>3. SamplesTypeOK /\ BackendTypeOK /\ AccessTypeOK /\ RegTypeOK /\ DbTypeOK /\ ProfileTypeOK
    BY SamplesTyped, BackendTyped, RegTyped, DbTyped, Zenon DEF TablesInv
  <2>4. AnalysisTypeOK /\ LoaderTypeOK /\ ImageTypeOK /\ DoctorTypeOK
    BY AnalysisTyped, LoaderTyped, ImageTyped, DoctorTyped, Zenon DEF LaunchInv
  <2>5. LocaleTypeOK /\ HostTypeOK
    BY HostTyped, Zenon DEF DeskInv
  <2> QED
    BY <2>1, <2>2, <2>3, <2>4, <2>5, Zenon DEF ProcessTypeOK
<1> QED
  BY <1>1, <1>2, <1>3, DevicesKept, SessionKept, TablesKept, LaunchKept, DeskKept, PTL DEF Spec
=============================================================================
