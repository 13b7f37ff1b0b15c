---------------------------- MODULE LaunchProofs ----------------------------
(***************************************************************************)
(* What the launch of an application goes through, for every image,        *)
(* registry, workspace, log, text and number of calls: the staged load,    *)
(* the analysis, the doctor and the diagnosis, the two text files in which *)
(* what was found is remembered, and the conversions of its locale and its *)
(* shell.  Each part has an invariant, that its steps keep and that says   *)
(* what it should; ProcessProofs draws the conclusions.                    *)
(***************************************************************************)
EXTENDS ImageLoader, CompatAnalysis, LaunchDoctor, CompatDb, AppProfile, LocaleText, HostServices,
        LoopLemmas

(* loader.c: the heap of a load, and what the imports are bound to.        *)
BlockKinds == {"sections", "raw", "mapped", "imports", "exports", "strings"}
Parts == {"map", "imports", "exports", "relocs", "finish"}
Stages == {"headers", "raw", "thunks", "names", "blocks"} \cup Parts

(* What the heap holds while a load runs: the blocks of its image, the     *)
(* file, and the local table of parse_exports in the stage that frees it.  *)
Transient == IF stage = "names" THEN {"file", "local"} ELSE {"file"}

HeapInv ==
  /\ stage \in Stages \cup {"idle"} /\ img \subseteq BlockKinds
  /\ stage # "idle" =>
       /\ image = NoImage
       /\ Blocks(img) \subseteq heap /\ heap \subseteq Blocks(img \cup Transient)
  /\ LoadAllOrNothing

(* The stage after another one reads a part of the image, or finishes.     *)
LEMMA AfterIsPart ==
  ASSUME NEW i \in 0..3
  PROVE  After(i) \in Parts
<1> DEFINE later == {j \in i + 1..5 : j = 5 \/ Order[j] \in flags}
<1>1. later \subseteq 1..5 /\ 5 \in later
  OBVIOUS
<1>2. later \subseteq Nat /\ later # {}
  BY <1>1
<1> HIDE DEF later
<1>3. Min(later) \in 1..5
  BY <1>1, <1>2, MinIsMember
<1>4. After(i) = Order[Min(later)]
  BY DEF After, later
<1> QED
  BY <1>3, <1>4 DEF Order, Parts

LEMMA HeapInit == LoaderInit => HeapInv
<1> SUFFICES ASSUME LoaderInit
             PROVE  HeapInv
  OBVIOUS
<1>1. stage = "idle" /\ img = {} /\ heap = {} /\ image = NoImage
  BY DEF LoaderInit
<1> QED
  BY <1>1 DEF HeapInv, LoadAllOrNothing, NoImage

(* A stage that fails frees everything.                                    *)
LEMMA HeapFail ==
  ASSUME HeapInv, stage # "idle", Fail
  PROVE  HeapInv'
<1>1. /\ stage' = "idle" /\ img' = {} /\ image' = image /\ image = NoImage
      /\ heap' = heap \ Blocks(img \cup {"file", "local"})
  BY DEF Fail, Return, HeapInv
<1>2. heap' = {}
  BY <1>1 DEF HeapInv, Blocks, Transient
<1> QED
  BY <1>1, <1>2 DEF HeapInv, LoadAllOrNothing, NoImage

(* A stage that goes on has what it allocated in its image.                *)
LEMMA HeapGoesOn ==
  ASSUME HeapInv, stage \notin {"idle", "names"}, NEW to \in Stages \ {"names"},
         NEW new \in SUBSET BlockKinds, Step(to, new)
  PROVE  HeapInv'
<1>1. /\ stage' = to /\ img' = img \cup new /\ heap' = heap \cup Blocks(new)
      /\ image' = image /\ loads' = loads
  BY DEF Step
<1> QED
  BY <1>1 DEF HeapInv, LoadAllOrNothing, Blocks, Transient, Stages, Parts

(* One case per stage; most of them fail or go on.                         *)
LEMMA HeapStage ==
  ASSUME HeapInv, LoadStep
  PROVE  HeapInv'
<1>1. \A i \in 0..3 : After(i) \in Stages \ {"names", "idle"}
  BY AfterIsPart DEF Stages, Parts
<1>2. CASE ParseHeaders
  <2>1. stage = "headers"
    BY <1>2 DEF ParseHeaders
  <2>2. PICK new \in {{}, {"sections"}} : Fail \/ Step("raw", new)
    BY <1>2 DEF ParseHeaders
  <2>3. "raw" \in Stages \ {"names"} /\ new \in SUBSET BlockKinds
    BY DEF Stages, BlockKinds
  <2> QED
    BY <2>1, <2>2, <2>3, HeapFail, HeapGoesOn
<1>3. CASE CopyRaw
  <2>1. stage = "raw" /\ (Fail \/ Step(After(0), {"raw"}))
    BY <1>3 DEF CopyRaw
  <2>2. After(0) \in Stages \ {"names"} /\ {"raw"} \in SUBSET BlockKinds
    BY <1>1 DEF BlockKinds
  <2> QED
    BY <2>1, <2>2, HeapFail, HeapGoesOn
<1>4. CASE MapSections
  <2>1. stage = "map" /\ (Fail \/ Step(After(1), {"mapped"}))
    BY <1>4 DEF MapSections
  <2>2. After(1) \in Stages \ {"names"} /\ {"mapped"} \in SUBSET BlockKinds
    BY <1>1 DEF BlockKinds
  <2> QED
    BY <2>1, <2>2, HeapFail, HeapGoesOn
<1>5. CASE ImportDescriptor
  <2>1. /\ stage = "imports"
        /\ Fail \/ Step(After(2), {}) \/ Step("imports", {}) \/ Step("thunks", {})
    BY <1>5 DEF ImportDescriptor
  <2>2. {After(2), "imports", "thunks"} \subseteq Stages \ {"names"} /\ {} \in SUBSET BlockKinds
    BY <1>1 DEF Stages, Parts
  <2> QED
    BY <2>1, <2>2, HeapFail, HeapGoesOn
<1>6. CASE ImportThunk
  <2>1. stage = "thunks" /\ (Fail \/ Step("imports", {}) \/ Step("thunks", {"imports"}))
    BY <1>6 DEF ImportThunk
  <2>2. /\ {"imports", "thunks"} \subseteq Stages \ {"names"}
        /\ {} \in SUBSET BlockKinds /\ {"imports"} \in SUBSET BlockKinds
    BY DEF Stages, Parts, BlockKinds
  <2> QED
    BY <2>1, <2>2, HeapFail, HeapGoesOn
<1>7. CASE ParseExports
  <2>1. CASE Fail \/ Step(After(3), {})
    <3>1. stage = "exports" /\ After(3) \in Stages \ {"names"} /\ {} \in SUBSET BlockKinds
      BY <1>1, <1>7 DEF ParseExports
    <3> QED
      BY <2>1, <3>1, HeapFail, HeapGoesOn
  <2>2. CASE ~(Fail \/ Step(After(3), {}))
    <3>1. /\ stage = "exports" /\ stage' = "names" /\ img' = img \cup {"exports"}
          /\ heap' = heap \cup Blocks({"exports", "local"}) /\ image' = image /\ loads' = loads
      BY <1>7, <2>2 DEF ParseExports
    <3>2. /\ img \subseteq BlockKinds /\ image = NoImage /\ Blocks(img) \subseteq heap
          /\ heap \subseteq Blocks(img \cup {"file"})
      BY <3>1 DEF HeapInv, Transient
    <3>3. Transient' = {"file", "local"} /\ stage' \in Stages \cup {"idle"}
      BY <3>1 DEF Transient, Stages
    <3>4. img' \subseteq BlockKinds /\ image' = NoImage
      BY <3>1, <3>2 DEF BlockKinds
    <3>5. Blocks(img') \subseteq heap' /\ heap' \subseteq Blocks(img' \cup {"file", "local"})
      BY ONLY <3>1, <3>2 DEF Blocks
    <3>6. stage' # "idle" /\ LoadAllOrNothing'
      BY ONLY <3>1 DEF LoadAllOrNothing
    <3>7. /\ Blocks(img)' \subseteq heap' /\ heap' \subseteq Blocks(img \cup Transient)'
      BY ONLY <3>1, <3>3, <3>5 DEF Blocks
    <3> QED
      BY ONLY <3>3, <3>4, <3>6, <3>7 DEF HeapInv
  <2> QED
    BY <2>1, <2>2
<1>8. CASE ExportNames
  <2>1. CASE Fail
    BY <1>8, <2>1, HeapFail DEF ExportNames
  <2>2. CASE ~Fail
    <3>1. /\ stage = "names" /\ stage' = After(3) /\ img' = img \cup {"strings"}
          /\ heap' = (heap \ Blocks({"local"})) \cup Blocks({"strings"})
          /\ image' = image /\ loads' = loads
      BY <1>8, <2>2 DEF ExportNames
    <3>2. stage' \in Stages \ {"names", "idle"}
      BY <1>1, <3>1
    <3>3. \A k : <<loads, k>> \in Blocks({"local"}) => k = "local"
      BY DEF Blocks
    <3> QED
      BY <3>1, <3>2, <3>3 DEF HeapInv, LoadAllOrNothing, Blocks, Transient, BlockKinds
  <2> QED
    BY <2>1, <2>2
<1>9. CASE RelocDirectory
  <2>1. stage = "relocs" /\ (Step("finish", {}) \/ Step("blocks", {}))
    BY <1>9 DEF RelocDirectory
  <2>2. {"finish", "blocks"} \subseteq Stages \ {"names"} /\ {} \in SUBSET BlockKinds
    BY DEF Stages, Parts
  <2> QED
    BY <2>1, <2>2, HeapGoesOn
<1>10. CASE RelocBlock
  <2>1. /\ stage = "blocks"
        /\ \/ Fail
           \/ Step("finish", {})
           \/ UNCHANGED <<stage, img, heap, image, loads>>
    BY <1>10 DEF RelocBlock
  <2>2. "finish" \in Stages \ {"names"} /\ {} \in SUBSET BlockKinds
    BY DEF Stages, Parts
  <2>3. CASE UNCHANGED <<stage, img, heap, image, loads>>
    BY <2>3 DEF HeapInv, LoadAllOrNothing, Blocks, Transient
  <2> QED
    BY <2>1, <2>2, <2>3, HeapFail, HeapGoesOn
<1>11. CASE FinishLoad
  <2>1. /\ stage = "finish" /\ stage' = "idle" /\ img' = {}
        /\ image' = [load |-> loads, blocks |-> img, bindings |-> bindings]
        /\ heap' = heap \ Blocks({"file"})
    BY <1>11 DEF FinishLoad, Return
  <2>2. "file" \notin img
    BY DEF HeapInv, BlockKinds
  <2>3. heap' = Blocks(img)
    BY <2>1, <2>2 DEF HeapInv, Blocks, Transient
  <2>4. Blocks(img) = {<<image'.load, k>> : k \in image'.blocks}
    BY <2>1 DEF Blocks
  <2> QED
    BY <2>1, <2>3, <2>4 DEF HeapInv, LoadAllOrNothing
<1> QED
  BY <1>2, <1>3, <1>4, <1>5, <1>6, <1>7, <1>8, <1>9, <1>10, <1>11 DEF LoadStep

LEMMA HeapStep == HeapInv /\ [LoaderStep]_loaderVars => HeapInv'
<1> SUFFICES ASSUME HeapInv, [LoaderStep]_loaderVars
             PROVE  HeapInv'
  OBVIOUS
<1>1. ASSUME NEW d \in DOMAIN Modules, RegisterModule(d)
      PROVE  HeapInv'
  BY <1>1 DEF RegisterModule, HeapInv, LoadAllOrNothing, Blocks, Transient
<1>2. ASSUME NEW asked \in FlagSets, NEW fromFile \in BOOLEAN, BeginLoad(asked, fromFile)
      PROVE  HeapInv'
  <2>1. /\ stage = "idle" /\ image = NoImage /\ stage' = "headers" /\ loads' = loads + 1
        /\ heap' = heap \cup (IF fromFile THEN {<<loads + 1, "file">>} ELSE {})
        /\ img' = img /\ image' = image
    BY <1>2 DEF BeginLoad
  <2>2. img = {} /\ heap = {}
    BY <2>1 DEF HeapInv, LoadAllOrNothing, NoImage
  <2> QED
    BY <2>1, <2>2 DEF HeapInv, LoadAllOrNothing, Blocks, Transient, Stages
<1>3. CASE LoadStep
  BY <1>3, HeapStage
<1>4. CASE Unload
  <2>1. heap' = {} /\ image' = NoImage /\ stage' = stage /\ stage = "idle" /\ img' = img
    BY <1>4 DEF Unload, HeapInv, LoadAllOrNothing
  <2> QED
    BY <2>1 DEF HeapInv, LoadAllOrNothing, NoImage
<1>5. CASE UNCHANGED loaderVars
  BY <1>5 DEF loaderVars, HeapInv, LoadAllOrNothing, Blocks, Transient
<1> QED
  BY <1>1, <1>2, <1>3, <1>4, <1>5 DEF LoaderStep

-----------------------------------------------------------------------------
Found(name, ms) == {i \in DOMAIN ms : Modules[ms[i]].name = name}

(* A lookup that has found its module goes on finding it: the new one is   *)
(* behind it in the table.                                                 *)
LEMMA ResolveStays ==
  ASSUME modules \in Seq(DOMAIN Modules), NEW d \in DOMAIN Modules,
         modules' = Append(modules, d), NEW name, NEW fn, Resolve(name, fn) # Unresolved
  PROVE  Resolve(name, fn)' = Resolve(name, fn)
<1> DEFINE old == Found(name, modules)
           new == Found(name, modules')
<1>1. old # {}
  BY DEF Resolve, FindModule, Found
<1>2. /\ DOMAIN modules = 1..Len(modules) /\ Len(modules) \in Nat
      /\ DOMAIN modules' = 1..Len(modules) + 1
      /\ \A i \in DOMAIN modules : modules'[i] = modules[i]
  OBVIOUS
<1>3. old \subseteq Nat /\ new \subseteq Nat /\ old \subseteq new
  BY <1>2 DEF Found
<1>4. \A i \in new : i <= Len(modules) => i \in old
  BY <1>2 DEF Found
<1>5. old \subseteq 1..Len(modules)
  BY <1>2 DEF Found
<1>6. FindModule(name) = Min(old) /\ FindModule(name)' = Min(new)
  BY <1>1, <1>3 DEF FindModule, Found
<1> HIDE DEF old, new
<1>7. /\ Min(old) \in old /\ \A n \in old : Min(old) <= n
      /\ Min(new) \in new /\ \A n \in new : Min(new) <= n
  BY <1>1, <1>3, MinIsMember
<1>8. Min(new) <= Min(old) /\ Min(old) \in 1..Len(modules) /\ Min(new) \in Nat
  BY <1>3, <1>5, <1>7
<1>9. Min(new) \in old
  BY <1>2, <1>4, <1>7, <1>8
<1>10. Min(new) = Min(old)
  BY <1>3, <1>7, <1>8, <1>9
<1>11. modules'[Min(old)] = modules[Min(old)]
  BY <1>2, <1>8
<1> QED
  BY <1>6, <1>10, <1>11 DEF Resolve

(* What the proofs below need of sequences.                                *)
LEMMA SeqFacts ==
  ASSUME NEW T
  PROVE  /\ << >> \in Seq(T) /\ DOMAIN << >> = {}
         /\ \A s \in Seq(T) : DOMAIN s \subseteq Nat /\ \A i \in DOMAIN s : s[i] \in T
         /\ \A s \in Seq(T), e \in T :
              /\ Append(s, e) \in Seq(T)
              /\ \A i \in DOMAIN Append(s, e) :
                   Append(s, e)[i] = e \/ (i \in DOMAIN s /\ Append(s, e)[i] = s[i])
<1>1. << >> \in Seq(T) /\ DOMAIN << >> = {}
  OBVIOUS
<1>2. \A s \in Seq(T) : DOMAIN s \subseteq Nat /\ \A i \in DOMAIN s : s[i] \in T
  OBVIOUS
<1>3. \A s \in Seq(T), e \in T :
        /\ Append(s, e) \in Seq(T)
        /\ \A i \in DOMAIN Append(s, e) :
             Append(s, e)[i] = e \/ (i \in DOMAIN s /\ Append(s, e)[i] = s[i])
  OBVIOUS
<1> QED
  BY <1>1, <1>2, <1>3

(* What a lookup may return.                                               *)
Targets == {Unresolved} \cup (DOMAIN Modules) \X (FunctionNames \cup {""})
Imports == [module : ModuleNames \cup {""}, fn : FunctionNames \cup {""}, to : Targets]

Settled(bs) ==
  \A i \in DOMAIN bs : bs[i].to # Unresolved => bs[i].to = Resolve(bs[i].module, bs[i].fn)

(* The imports of the load that is running are right before the caller     *)
(* gets them.                                                              *)
BindInv ==
  /\ modules \in Seq(DOMAIN Modules) /\ reading \in ModuleNames \cup {""}
  /\ bindings \in Seq(Imports) /\ image.bindings \in Seq(Imports)
  /\ Settled(bindings) /\ Settled(image.bindings)

LEMMA ResolveType ==
  ASSUME BindInv, NEW name, NEW fn \in FunctionNames \cup {""}
  PROVE  Resolve(name, fn) \in Targets
<1> DEFINE old == Found(name, modules)
<1>1. CASE old = {}
  BY <1>1 DEF Resolve, FindModule, Found, Targets
<1>2. CASE old # {}
  <2>1. old \subseteq DOMAIN modules /\ DOMAIN modules \subseteq Nat
    BY SeqFacts, Zenon DEF BindInv, Found
  <2>2. FindModule(name) = Min(old)
    BY <1>2 DEF FindModule, Found
  <2>3. Min(old) \in DOMAIN modules
    BY <1>2, <2>1, MinIsMember
  <2>4. modules[Min(old)] \in DOMAIN Modules
    BY <2>3, SeqFacts, Zenon DEF BindInv
  <2>5. Resolve(name, fn) \in {Unresolved, <<modules[Min(old)], fn>>}
    BY <2>2, Zenon DEF Resolve
  <2> HIDE DEF old
  <2>6. <<modules[Min(old)], fn>> \in (DOMAIN Modules) \X (FunctionNames \cup {""})
    BY <2>4
  <2> QED
    BY <2>5, <2>6, Zenon DEF Targets
<1> QED
  BY <1>1, <1>2

LEMMA BindInit == LoaderInit => BindInv
<1> SUFFICES ASSUME LoaderInit
             PROVE  BindInv
  OBVIOUS
<1>1. modules = << >> /\ reading = "" /\ bindings = << >> /\ image.bindings = << >>
  BY DEF LoaderInit, NoImage
<1>2. << >> \in Seq(DOMAIN Modules) /\ << >> \in Seq(Imports) /\ Settled(<< >>)
  BY SeqFacts, Zenon DEF Settled
<1> QED
  BY <1>1, <1>2 DEF BindInv

LEMMA BindRegister ==
  ASSUME BindInv, NEW d \in DOMAIN Modules, RegisterModule(d)
  PROVE  BindInv'
<1>1. /\ modules' = Append(modules, d) /\ modules \in Seq(DOMAIN Modules)
      /\ bindings' = bindings /\ image' = image /\ reading' = reading
  BY DEF RegisterModule, BindInv
<1>2. ASSUME NEW bs \in Seq(Imports), Settled(bs), NEW i \in DOMAIN bs, bs[i].to # Unresolved
      PROVE  bs[i].to = Resolve(bs[i].module, bs[i].fn)'
  <2>1. bs[i].to = Resolve(bs[i].module, bs[i].fn)
    BY <1>2 DEF Settled
  <2> QED
    BY <1>1, <1>2, <2>1, ResolveStays
<1>3. modules' \in Seq(DOMAIN Modules)
  BY <1>1
<1>4. Settled(bindings)' /\ Settled(image.bindings)'
  BY <1>1, <1>2 DEF BindInv, Settled
<1> QED
  BY <1>1, <1>3, <1>4 DEF BindInv

(* A thunk is bound to what the lookup returns at that moment.             *)
LEMMA BindThunk ==
  ASSUME BindInv, NEW fn \in FunctionNames \cup {""},
         bindings' = Append(bindings, [module |-> reading, fn |-> fn, to |-> Resolve(reading, fn)]),
         UNCHANGED <<modules, reading, image>>
  PROVE  BindInv'
<1> DEFINE import == [module |-> reading, fn |-> fn, to |-> Resolve(reading, fn)]
<1>1. import \in Imports
  BY ResolveType DEF Imports, BindInv
<1>2. bindings \in Seq(Imports) /\ Settled(bindings)
  BY DEF BindInv
<1>3. \A name, f : Resolve(name, f)' = Resolve(name, f)
  BY DEF Resolve, FindModule
<1>4. import.to = Resolve(import.module, import.fn)
  OBVIOUS
<1> HIDE DEF import
<1>5. bindings' = Append(bindings, import)
  BY DEF import
<1>6. /\ Append(bindings, import) \in Seq(Imports)
      /\ \A i \in DOMAIN Append(bindings, import) :
           \/ Append(bindings, import)[i] = import
           \/ i \in DOMAIN bindings /\ Append(bindings, import)[i] = bindings[i]
  <2>1. \A s \in Seq(Imports), e \in Imports :
          /\ Append(s, e) \in Seq(Imports)
          /\ \A i \in DOMAIN Append(s, e) :
               Append(s, e)[i] = e \/ (i \in DOMAIN s /\ Append(s, e)[i] = s[i])
    BY SeqFacts, Zenon
  <2> QED
    BY <1>1, <1>2, <2>1, Zenon
<1>7. bindings' \in Seq(Imports)
  BY <1>5, <1>6, Zenon
<1>8. ASSUME NEW i \in DOMAIN bindings'
      PROVE  bindings'[i] = import \/ (i \in DOMAIN bindings /\ bindings'[i] = bindings[i])
  BY <1>5, <1>6, <1>8, Zenon
<1>9. Settled(bindings)'
  BY <1>2, <1>3, <1>4, <1>8 DEF Settled
<1>10. Settled(image.bindings)'
  BY <1>3 DEF Settled, BindInv
<1> QED
  BY <1>7, <1>9, <1>10 DEF BindInv

(* Every other step keeps the table, and drops the imports of the load or  *)
(* hands them to the caller.                                               *)
LEMMA BindElsewhere ==
  ASSUME BindInv, UNCHANGED modules, reading' \in ModuleNames \cup {""},
         bindings' \in {bindings, << >>}, image'.bindings \in {image.bindings, bindings, << >>}
  PROVE  BindInv'
<1>1. \A name, f : Resolve(name, f)' = Resolve(name, f)
  BY DEF Resolve, FindModule
<1>2. << >> \in Seq(Imports) /\ \A i \in DOMAIN << >> : FALSE
  BY SeqFacts, Zenon
<1> QED
  BY <1>1, <1>2 DEF BindInv, Settled

LEMMA BindStep == BindInv /\ [LoaderStep]_loaderVars => BindInv'
<1> SUFFICES ASSUME BindInv, [LoaderStep]_loaderVars
             PROVE  BindInv'
  OBVIOUS
<1> USE DEF BindInv
<1>1. ASSUME NEW d \in DOMAIN Modules, RegisterModule(d)
      PROVE  BindInv'
  BY <1>1, BindRegister
<1>2. ASSUME NEW asked \in FlagSets, NEW fromFile \in BOOLEAN, BeginLoad(asked, fromFile)
      PROVE  BindInv'
  BY <1>2, BindElsewhere DEF BeginLoad, Tables
<1>3. CASE Fail
  BY <1>3, BindElsewhere DEF Fail, Return
<1>4. ASSUME NEW to, NEW new, Step(to, new), bindings' = bindings,
             reading' \in ModuleNames \cup {""}
      PROVE  BindInv'
  BY <1>4, BindElsewhere DEF Step
<1>5. CASE ParseHeaders
  BY <1>3, <1>4, <1>5 DEF ParseHeaders, Tables
<1>6. CASE CopyRaw \/ MapSections
  BY <1>3, <1>4, <1>6 DEF CopyRaw, MapSections, Tables
<1>7. CASE ImportDescriptor
  BY <1>3, <1>4, <1>7 DEF ImportDescriptor
<1>8. CASE ImportThunk
  <2>1. \/ Fail
        \/ Step("imports", {}) /\ UNCHANGED <<bindings, reading>>
        \/ \E fn \in FunctionNames \cup {""} :
             /\ bindings' = Append(bindings, [module |-> reading, fn |-> fn, to |-> Resolve(reading, fn)])
             /\ UNCHANGED <<modules, reading, image>>
    BY <1>8 DEF ImportThunk, Step
  <2> QED
    BY <1>3, <1>4, <2>1, BindThunk
<1>9. CASE ParseExports \/ ExportNames \/ RelocDirectory \/ RelocBlock
  <2>1. \/ Fail
        \/ UNCHANGED <<modules, bindings, image>> /\ reading' \in ModuleNames \cup {""}
    BY <1>9 DEF ParseExports, ExportNames, RelocDirectory, RelocBlock, Step, Tables
  <2> QED
    BY <1>3, <2>1, BindElsewhere
<1>10. CASE FinishLoad
  BY <1>10, BindElsewhere DEF FinishLoad, Return
<1>11. CASE Unload
  BY <1>11, BindElsewhere DEF Unload, NoImage
<1>12. CASE UNCHANGED loaderVars
  BY <1>12, BindElsewhere DEF loaderVars
<1> QED
  BY <1>1, <1>2, <1>5, <1>6, <1>7, <1>8, <1>9, <1>10, <1>11, <1>12 DEF LoaderStep, LoadStep

PlaceInv ==
  /\ loads \in 0..MaxLoads /\ image.load \in 0..loads /\ at \in 0..Width
  /\ stage = "thunks" => at < MaxImports

LEMMA LoaderBounds ==
  /\ MaxLoads \in Nat /\ MaxImports \in Nat /\ Width \in Nat \ {0} /\ MaxImports <= Width
BY LoaderAssumption

LEMMA PlaceStarts == LoaderInit => PlaceInv
<1> SUFFICES ASSUME LoaderInit
             PROVE  PlaceInv
  OBVIOUS
<1>1. loads = 0 /\ image = NoImage /\ at = 0 /\ stage = "idle"
  BY Zenon DEF LoaderInit
<1> QED
  BY <1>1, LoaderBounds DEF PlaceInv, NoImage

(* Where a stage may leave the position.                                   *)
Moved ==
  \/ at' = 0 /\ stage' # "thunks"
  \/ at' = at /\ (stage' = "thunks" => stage = "thunks" \/ at < MaxImports)
  \/ at' = at + 1 /\ stage' # "thunks" /\ (stage = "thunks" \/ at < MaxImports)
  \/ at' \in 0..Width - 1 /\ stage' # "thunks"

LEMMA ReturnMoves == Return => Moved /\ loads' = loads
BY DEF Return, Moved

LEMMA StageMoves ==
  ASSUME PlaceInv, LoadStep
  PROVE  Moved /\ loads' = loads /\ (image' = image \/ image'.load = loads)
<1>1. \A i \in 0..3 : After(i) \in Parts
  BY AfterIsPart
<1>2. \A i \in 0..3 : After(i) # "thunks"
  BY <1>1 DEF Parts
<1>3. ASSUME Fail
      PROVE  Moved /\ loads' = loads /\ image' = image
  BY <1>3, ReturnMoves DEF Fail
<1>4. ASSUME NEW to, NEW new, Step(to, new)
      PROVE  stage' = to /\ loads' = loads /\ image' = image
  BY <1>4 DEF Step
<1>5. CASE ParseHeaders
  <2>1. CASE Fail
    BY <1>3, <2>1
  <2>2. CASE ~Fail
    <3>1. at' = at /\ stage' = "raw" /\ loads' = loads /\ image' = image
      BY <1>5, <2>2 DEF ParseHeaders, Step, Tables
    <3> QED
      BY <3>1 DEF Moved
  <2> QED
    BY <2>1, <2>2
<1>6. CASE CopyRaw
  <2>1. CASE Fail
    BY <1>3, <2>1
  <2>2. CASE ~Fail
    <3>1. at' = at /\ stage' = After(0) /\ loads' = loads /\ image' = image
      BY <1>6, <2>2, Zenon DEF CopyRaw, Step, Tables
    <3> QED
      BY <1>2, <3>1 DEF Moved
  <2> QED
    BY <2>1, <2>2
<1>7. CASE MapSections
  <2>1. CASE Fail
    BY <1>3, <2>1
  <2>2. CASE ~Fail
    <3>1. at' = at /\ stage' = After(1) /\ loads' = loads /\ image' = image
      BY <1>7, <2>2, Zenon DEF MapSections, Step, Tables
    <3> QED
      BY <1>2, <3>1 DEF Moved
  <2> QED
    BY <2>1, <2>2
<1>8. CASE ImportDescriptor
  <2>1. CASE Fail
    BY <1>3, <2>1
  <2>2. CASE ~Fail
    <3>1. /\ loads' = loads /\ image' = image
          /\ \/ stage' = After(2) /\ at' = 0
             \/ stage' = "imports" /\ at' = at + 1 /\ at < MaxImports
             \/ stage' = "thunks" /\ at' = at /\ at < MaxImports
      BY <1>8, <2>2, Zenon DEF ImportDescriptor, Step
    <3> QED
      BY <1>2, <3>1 DEF Moved
  <2> QED
    BY <2>1, <2>2
<1>9. CASE ImportThunk
  <2>1. CASE Fail
    BY <1>3, <2>1
  <2>2. CASE ~Fail
    <3>1. /\ loads' = loads /\ image' = image /\ stage = "thunks"
          /\ \/ stage' = "imports" /\ at' = at + 1
             \/ stage' = "thunks" /\ at' = at
      BY <1>9, <2>2, Zenon DEF ImportThunk, Step
    <3> QED
      BY <3>1 DEF Moved
  <2> QED
    BY <2>1, <2>2
<1>10. CASE ParseExports
  <2>1. CASE Fail
    BY <1>3, <2>1
  <2>2. CASE ~Fail
    <3>1. /\ loads' = loads /\ image' = image /\ at' = at
          /\ stage' = After(3) \/ stage' = "names"
      BY <1>10, <2>2, Zenon DEF ParseExports, Step, Tables
    <3> QED
      BY <1>2, <3>1 DEF Moved
  <2> QED
    BY <2>1, <2>2
<1>11. CASE ExportNames
  <2>1. CASE Fail
    BY <1>3, <2>1
  <2>2. CASE ~Fail
    <3>1. /\ loads' = loads /\ image' = image /\ at' = at /\ stage' = After(3)
      BY <1>11, <2>2, Zenon DEF ExportNames, Tables
    <3> QED
      BY <1>2, <3>1 DEF Moved
  <2> QED
    BY <2>1, <2>2
<1>12. CASE RelocDirectory
  <2>1. /\ loads' = loads /\ image' = image
        /\ \/ stage' = "finish" /\ at' = at
           \/ stage' = "blocks" /\ at' \in 1..Width - 1
    BY <1>12, Zenon DEF RelocDirectory, Step, Tables
  <2> QED
    BY <2>1 DEF Moved
<1>13. CASE RelocBlock
  <2>1. CASE Fail
    BY <1>3, <2>1
  <2>2. CASE Step("finish", {}) /\ at' = 0
    BY <1>4, <2>2 DEF Moved
  <2>3. CASE ~Fail /\ ~(Step("finish", {}) /\ at' = 0)
    <3>1. PICK size \in 0..Width - 1 :
            /\ at' = (at + size) % Width /\ stage' = stage /\ loads' = loads /\ image' = image
      BY <1>13, <2>3, Zenon DEF RelocBlock
    <3>2. stage = "blocks"
      BY <1>13, Zenon DEF RelocBlock
    <3>3. at \in Nat /\ Width \in Nat \ {0}
      BY LoaderBounds DEF PlaceInv
    <3>4. at' \in 0..Width - 1
      BY ONLY <3>1, <3>3
    <3> QED
      BY <3>1, <3>2, <3>4 DEF Moved
  <2> QED
    BY <2>1, <2>2, <2>3
<1>14. CASE FinishLoad
  <2>1. Return /\ image' = [load |-> loads, blocks |-> img, bindings |-> bindings]
    BY <1>14 DEF FinishLoad
  <2>2. image'.load = loads
    BY ONLY <2>1
  <2> QED
    BY <2>1, <2>2, ReturnMoves
<1> QED
  BY <1>5, <1>6, <1>7, <1>8, <1>9, <1>10, <1>11, <1>12, <1>13, <1>14, Zenon DEF LoadStep

LEMMA PlaceKeeps == PlaceInv /\ [LoaderStep]_loaderVars => PlaceInv'
<1> SUFFICES ASSUME PlaceInv, [LoaderStep]_loaderVars
             PROVE  PlaceInv'
  OBVIOUS
<1>1. ASSUME NEW d \in DOMAIN Modules, RegisterModule(d)
      PROVE  PlaceInv'
  BY <1>1 DEF RegisterModule, PlaceInv
<1>2. ASSUME NEW asked \in FlagSets, NEW fromFile \in BOOLEAN, BeginLoad(asked, fromFile)
      PROVE  PlaceInv'
  <2>1. loads < MaxLoads /\ loads' = loads + 1 /\ stage' = "headers" /\ image' = image /\ at' = at
    BY <1>2 DEF BeginLoad, Tables
  <2> QED
    BY <2>1, LoaderBounds DEF PlaceInv
<1>3. CASE LoadStep
  <2>1. Moved /\ loads' = loads /\ (image' = image \/ image'.load = loads)
    BY <1>3, StageMoves
  <2>2. loads' \in 0..MaxLoads /\ image'.load \in 0..loads'
    BY <2>1, LoaderBounds DEF PlaceInv
  <2>3. at' \in 0..Width /\ (stage' = "thunks" => at' < MaxImports)
    BY <2>1, LoaderBounds DEF PlaceInv, Moved
  <2> QED
    BY <2>2, <2>3 DEF PlaceInv
<1>4. CASE Unload
  <2>1. image' = NoImage /\ loads' = loads /\ at' = at /\ stage' = stage
    BY <1>4 DEF Unload
  <2>2. image'.load = 0
    BY <2>1 DEF NoImage
  <2> QED
    BY <2>1, <2>2, LoaderBounds DEF PlaceInv
<1>5. CASE UNCHANGED loaderVars
  BY <1>5 DEF loaderVars, PlaceInv
<1> QED
  BY <1>1, <1>2, <1>3, <1>4, <1>5 DEF LoaderStep

LEMMA LoaderTyped == HeapInv /\ PlaceInv => LoaderTypeOK
<1> SUFFICES ASSUME HeapInv, PlaceInv
             PROVE  LoaderTypeOK
  OBVIOUS
<1>1. Parts \subseteq {Order[i] : i \in 1..5}
  <2>1. /\ Order[1] = "map" /\ Order[2] = "imports" /\ Order[3] = "exports" /\ Order[4] = "relocs"
        /\ Order[5] = "finish"
    BY DEF Order
  <2>2. 1 \in 1..5 /\ 2 \in 1..5 /\ 3 \in 1..5 /\ 4 \in 1..5 /\ 5 \in 1..5
    OBVIOUS
  <2> QED
    BY <2>1, <2>2, Zenon DEF Parts
<1>2. stage \in {"idle", "headers", "raw", "thunks", "names", "blocks"} \cup {Order[i] : i \in 1..5}
  BY <1>1, Zenon DEF HeapInv, Stages
<1>3. Blocks(img) \subseteq heap
  <2>1. CASE stage = "idle"
    BY <2>1 DEF HeapInv, LoadAllOrNothing, Blocks
  <2>2. CASE stage # "idle"
    BY <2>2 DEF HeapInv
  <2> QED
    BY <2>1, <2>2
<1> QED
  BY <1>2, <1>3, Zenon DEF PlaceInv, LoaderTypeOK

-----------------------------------------------------------------------------
(* compat.c and inspect.c: the pass over the imports.                      *)
ScanNames == ScanFunctions \cup {""}
ScanRows == [module : ScanModules, fn : ScanNames]
ClassOfImport(i) == Classify(imports[i].module, imports[i].fn)
Lacking ==
  {i \in DOMAIN imports : ClassOfImport(i) # "app" /\ <<imports[i].module, imports[i].fn>> \notin Exported}

(* Whether the import is supported, as the analyzer finds out.              *)
Has(dll, fn) == fn # "" /\ <<dll, fn>> \in Exported

NoneYet == [c \in Categories |-> 0]

AnalysisInv ==
  /\ imports \in Seq(ScanRows)
  /\ analysis.totals \in [Categories -> Nat] /\ analysis.supported \in [Categories -> Nat]
  /\ analysis.missing \in 0..MaxMissing
  /\ analysis = [totals |-> analysis.totals, supported |-> analysis.supported,
                 missing |-> analysis.missing, graphics |-> analysis.graphics,
                 audio |-> analysis.audio]
  /\ \A c \in Categories :
       /\ analysis.supported[c] <= analysis.totals[c]
       /\ analysis.supported[c] = analysis.totals[c] <=> \A i \in Lacking : ClassOfImport(i) # c
  /\ analysis.missing # 0 <=> MaxMissing # 0 /\ Lacking # {}
  /\ analysis.graphics = inspected.graphics /\ analysis.audio = inspected.audio
  /\ inspected.dlls \in Seq(ScanModules) /\ Len(inspected.dlls) <= MaxDlls
  /\ imports = << >> => ~inspected.dotnet /\ ~inspected.vcruntime

LEMMA AnalysisBounds == MaxScan \in Nat /\ MaxMissing \in Nat /\ MaxDlls \in Nat
<1>1. {MaxScan, MaxMissing, MaxDlls} \subseteq Nat
  BY AnalysisAssumption, Zenon
<1> QED
  BY ONLY <1>1

LEMMA AnalysisStarts == AnalysisInit => AnalysisInv
<1> SUFFICES ASSUME AnalysisInit
             PROVE  AnalysisInv
  OBVIOUS
<1>1. /\ imports = << >>
      /\ analysis.totals = NoneYet /\ analysis.supported = NoneYet /\ analysis.missing = 0
      /\ analysis = [totals |-> analysis.totals, supported |-> analysis.supported,
                     missing |-> analysis.missing, graphics |-> analysis.graphics,
                     audio |-> analysis.audio]
      /\ analysis.graphics = inspected.graphics /\ analysis.audio = inspected.audio
      /\ inspected.dlls = << >> /\ ~inspected.dotnet /\ ~inspected.vcruntime
  BY Zenon DEF AnalysisInit, NoneYet
<1>2. NoneYet \in [Categories -> Nat] /\ \A c \in Categories : NoneYet[c] = 0
  BY DEF NoneYet
<1>3. Lacking = {}
  BY <1>1 DEF Lacking
<1>4. imports \in Seq(ScanRows)
  BY <1>1
<1>5. analysis.missing \in 0..MaxMissing /\ inspected.dlls \in Seq(ScanModules) /\ Len(inspected.dlls) <= MaxDlls
  BY <1>1, AnalysisBounds
<1>6. \A c \in Categories :
        /\ analysis.supported[c] <= analysis.totals[c]
        /\ analysis.supported[c] = analysis.totals[c] <=> \A i \in Lacking : ClassOfImport(i) # c
  BY <1>1, <1>2, <1>3
<1> QED
  BY <1>1, <1>2, <1>3, <1>4, <1>5, <1>6, Zenon DEF AnalysisInv

LEMMA AnalyzedApp ==
  ASSUME NEW a, NEW dll, NEW fn, Classify(dll, fn) = "app"
  PROVE  Analyzed(a, dll, fn) = a
BY Zenon DEF Analyzed

Scored(a, dll, fn, c, has) ==
  [a EXCEPT !.totals[c] = @ + 1, !.supported[c] = IF has THEN @ + 1 ELSE @,
            !.missing = IF has \/ @ = MaxMissing THEN @ ELSE @ + 1,
            !.graphics = DetectGraphics(@, dll), !.audio = DetectAudio(@, dll)]

LEMMA AnalyzedScored ==
  ASSUME NEW a, NEW dll, NEW fn, Classify(dll, fn) # "app"
  PROVE  Analyzed(a, dll, fn) = Scored(a, dll, fn, Classify(dll, fn), Has(dll, fn))
BY Zenon DEF Analyzed, Scored, Has

LEMMA HasExport ==
  ASSUME NEW dll \in ScanModules, NEW fn
  PROVE  Has(dll, fn) <=> <<dll, fn>> \in Exported
<1>1. \A m \in ScanModules : <<m, "">> \notin Exported
  BY AnalysisAssumption, Zenon
<1> QED
  BY <1>1, Zenon DEF Has

LEMMA ClassIsCategory ==
  ASSUME NEW dll, NEW fn, Classify(dll, fn) # "app"
  PROVE  Classify(dll, fn) \in Categories
BY Zenon DEF Classify, Categories

(* The two passes look for the same graphics and audio, and what is not     *)
(* scored has none of either.                                              *)
LEMMA SameDetection ==
  ASSUME NEW old, NEW dll
  PROVE  /\ InspectGraphics(old, dll) = DetectGraphics(old, dll)
         /\ InspectAudio(old, dll) = DetectAudio(old, dll)
BY Zenon DEF InspectGraphics, DetectGraphics, InspectAudio, DetectAudio

LEMMA AppDetectsNothing ==
  ASSUME NEW old, NEW dll, NEW fn, Classify(dll, fn) = "app"
  PROVE  DetectGraphics(old, dll) = old /\ DetectAudio(old, dll) = old
<1>1. dll \notin GfxDlls /\ dll \notin AudioDlls
  BY Zenon DEF Classify
<1>2. dll \notin {"d3d12", "d3d11", "d3d9", "opengl32", "vulkan"}
  BY <1>1, Zenon DEF GfxDlls
<1>3. dll \notin {"xaudio2", "dsound"} /\ dll # "mmdevapi" /\ dll # "winmm"
  BY <1>1, Zenon DEF AudioDlls
<1>4. DetectAudio(old, dll) = old
  BY <1>3, Zenon DEF DetectAudio
<1> QED
  BY <1>2, <1>4, Zenon DEF DetectGraphics

LEMMA InspectedFields ==
  ASSUME NEW i, NEW dll
  PROVE  /\ \/ Inspected(i, dll).dlls = i.dlls
            \/ Len(i.dlls) # MaxDlls /\ Inspected(i, dll).dlls = Append(i.dlls, dll)
         /\ Inspected(i, dll).graphics = DetectGraphics(i.graphics, dll)
         /\ Inspected(i, dll).audio = DetectAudio(i.audio, dll)
<1>1. \/ Inspected(i, dll).dlls = i.dlls
      \/ Len(i.dlls) # MaxDlls /\ Inspected(i, dll).dlls = Append(i.dlls, dll)
  BY Zenon DEF Inspected
<1>2. /\ Inspected(i, dll).graphics = InspectGraphics(i.graphics, dll)
      /\ Inspected(i, dll).audio = InspectAudio(i.audio, dll)
  BY Zenon DEF Inspected
<1> QED
  BY <1>1, <1>2, SameDetection, Zenon

LEMMA AnalysisScans ==
  ASSUME AnalysisInv, NEW dll \in ScanModules, NEW fn \in ScanNames, ScanImport(dll, fn)
  PROVE  AnalysisInv'
<1>1. PICK row : row = [module |-> dll, fn |-> fn] /\ row \in ScanRows
  <2>1. [module |-> dll, fn |-> fn] \in ScanRows
    BY ONLY dll \in ScanModules, fn \in ScanNames DEF ScanRows
  <2> QED
    BY <2>1
<1>2. PICK n : n = Len(imports) /\ n \in Nat
  <2>1. imports \in Seq(ScanRows)
    BY Zenon DEF AnalysisInv
  <2> QED
    BY ONLY <2>1
<1>3. PICK class : class = Classify(dll, fn)
  OBVIOUS
<1>4. PICK has \in BOOLEAN : has = Has(dll, fn) /\ (has <=> <<dll, fn>> \in Exported)
  BY HasExport, Zenon DEF Has
<1>5. /\ imports \in Seq(ScanRows) /\ imports' = Append(imports, row)
      /\ analysis' = Analyzed(analysis, dll, fn) /\ inspected' = Inspected(inspected, dll)
  BY <1>1, Zenon DEF ScanImport, AnalysisInv
<1>6. /\ DOMAIN imports = 1..n /\ DOMAIN imports' = 1..(n + 1) /\ imports' \in Seq(ScanRows)
      /\ \A i \in 1..n : imports'[i] = imports[i]
      /\ imports'[n + 1] = row /\ imports' # << >>
  BY <1>1, <1>2, <1>5
<1>7. /\ \A i \in 1..n : ClassOfImport(i)' = ClassOfImport(i)
      /\ ClassOfImport(n + 1)' = class
  <2>1. row.module = dll /\ row.fn = fn
    BY <1>1
  <2>2. ClassOfImport(n + 1)' = class
    BY <1>3, <1>6, <2>1, Zenon DEF ClassOfImport
  <2> QED
    BY <1>6, <2>2, Zenon DEF ClassOfImport
<1>8. Lacking' = Lacking \cup {i \in {n + 1} : class # "app" /\ ~has}
  <2>1. Lacking' = {i \in 1..(n + 1) : (ClassOfImport(i) # "app" /\ <<imports[i].module, imports[i].fn>> \notin Exported)'}
    BY <1>6, Zenon DEF Lacking
  <2>2. \A i \in 1..n : i \in Lacking' <=> i \in Lacking
    <3>1. \A i \in 1..n : i \in 1..(n + 1)
      BY <1>2
    <3> QED
      BY <1>6, <1>7, <3>1, Zenon DEF Lacking
  <2>3. n + 1 \in Lacking' <=> class # "app" /\ ~has
    <3>1. n + 1 \in 1..(n + 1)
      BY <1>2
    <3>2. row.module = dll /\ row.fn = fn
      BY <1>1
    <3> QED
      BY <1>4, <1>6, <1>7, <3>1, <3>2, Zenon DEF Lacking
  <2>4. Lacking \subseteq 1..n /\ Lacking' \subseteq 1..(n + 1)
    BY <1>6, Zenon DEF Lacking
  <2>5. \A i \in 1..(n + 1) : i \in 1..n \/ i = n + 1
    BY <1>2
  <2>6. n + 1 \notin 1..n
    BY <1>2
  <2> QED
    BY <2>2, <2>3, <2>4, <2>5, <2>6, Zenon
<1>9. Lacking \subseteq 1..n
  BY <1>6, Zenon DEF Lacking
<1>10. \A i \in Lacking : ClassOfImport(i)' = ClassOfImport(i)
  BY <1>7, <1>9
<1>11. \A c : (\A i \in Lacking' : (ClassOfImport(i) # c)') <=>
           /\ \A i \in Lacking : ClassOfImport(i) # c
           /\ class # "app" /\ ~has => class # c
  BY <1>7, <1>8, <1>10, Zenon
<1>12. /\ inspected'.dlls \in Seq(ScanModules) /\ Len(inspected'.dlls) <= MaxDlls
       /\ inspected'.graphics = DetectGraphics(analysis.graphics, dll)
       /\ inspected'.audio = DetectAudio(analysis.audio, dll)
  <2>1. inspected.dlls \in Seq(ScanModules) /\ Len(inspected.dlls) <= MaxDlls /\ Len(inspected.dlls) \in Nat
    BY DEF AnalysisInv
  <2>2. PICK d : d = inspected'.dlls
    OBVIOUS
  <2>3. PICK e : e = inspected.dlls
    OBVIOUS
  <2>4. d = e \/ (Len(e) # MaxDlls /\ d = Append(e, dll))
    BY <1>5, <2>2, <2>3, InspectedFields, Zenon
  <2>5. d \in Seq(ScanModules) /\ Len(d) <= MaxDlls
    BY <2>1, <2>3, <2>4, AnalysisBounds
  <2>6. /\ inspected'.graphics = DetectGraphics(inspected.graphics, dll)
        /\ inspected'.audio = DetectAudio(inspected.audio, dll)
    BY <1>5, InspectedFields, Zenon
  <2> QED
    BY <2>2, <2>5, <2>6, Zenon DEF AnalysisInv
<1>13. CASE class = "app"
  <2>1. analysis' = analysis
    BY <1>3, <1>5, <1>13, AnalyzedApp, Zenon
  <2>2. Lacking' = Lacking
    BY <1>8, <1>13
  <2>3. /\ DetectGraphics(analysis.graphics, dll) = analysis.graphics
        /\ DetectAudio(analysis.audio, dll) = analysis.audio
    BY <1>3, <1>13, AppDetectsNothing, Zenon
  <2> QED
    BY <1>6, <1>11, <1>12, <1>13, <2>1, <2>2, <2>3, Zenon DEF AnalysisInv
<1>14. CASE class # "app"
  <2>1. analysis' = Scored(analysis, dll, fn, class, has)
    BY <1>3, <1>4, <1>5, <1>14, AnalyzedScored, Zenon
  <2>2. class \in Categories
    BY <1>3, <1>14, ClassIsCategory, Zenon
  <2>3. PICK t, s, m, g, a :
          /\ t = analysis.totals /\ s = analysis.supported /\ m = analysis.missing
          /\ g = analysis.graphics /\ a = analysis.audio
    OBVIOUS
  <2>4. PICK g1, a1 : g1 = DetectGraphics(g, dll) /\ a1 = DetectAudio(a, dll)
    OBVIOUS
  <2>5. /\ analysis'.totals = [t EXCEPT ![class] = @ + 1]
        /\ analysis'.supported = [s EXCEPT ![class] = IF has THEN @ + 1 ELSE @]
        /\ analysis'.missing = IF has \/ m = MaxMissing THEN m ELSE m + 1
        /\ analysis'.graphics = g1 /\ analysis'.audio = a1
        /\ analysis' = [totals |-> analysis'.totals, supported |-> analysis'.supported,
                        missing |-> analysis'.missing, graphics |-> analysis'.graphics,
                        audio |-> analysis'.audio]
    <3>1. analysis = [totals |-> t, supported |-> s, missing |-> m, graphics |-> g, audio |-> a]
      BY <2>3, Zenon DEF AnalysisInv
    <3> QED
      BY ONLY <2>1, <2>4, <3>1 DEF Scored
  <2>6. /\ t \in [Categories -> Nat] /\ s \in [Categories -> Nat] /\ m \in 0..MaxMissing
        /\ m # 0 <=> MaxMissing # 0 /\ Lacking # {}
    BY <2>3, Zenon DEF AnalysisInv
  <2>7. ASSUME NEW c \in Categories
        PROVE  s[c] <= t[c] /\ (s[c] = t[c] <=> \A i \in Lacking : ClassOfImport(i) # c)
    BY <2>3, Zenon DEF AnalysisInv
  <2>8. analysis'.totals \in [Categories -> Nat] /\ analysis'.supported \in [Categories -> Nat]
    <3>1. [t EXCEPT ![class] = @ + 1] \in [Categories -> Nat]
      BY ONLY <2>2, <2>6
    <3>2. [s EXCEPT ![class] = IF has THEN @ + 1 ELSE @] \in [Categories -> Nat]
      BY ONLY <2>2, <2>6, has \in BOOLEAN
    <3> QED
      BY <2>5, <3>1, <3>2, Zenon
  <2>9. ASSUME NEW c \in Categories
        PROVE  /\ analysis'.supported[c] <= analysis'.totals[c]
               /\ analysis'.supported[c] = analysis'.totals[c] <=> \A i \in Lacking' : (ClassOfImport(i) # c)'
    <3>1. PICK full \in BOOLEAN : full <=> \A i \in Lacking : ClassOfImport(i) # c
      OBVIOUS
    <3>2. (\A i \in Lacking' : (ClassOfImport(i) # c)') <=> full /\ (~has => class # c)
      BY <1>11, <1>14, <3>1, Zenon
    <3>3. s[c] \in Nat /\ t[c] \in Nat /\ s[c] <= t[c] /\ (s[c] = t[c] <=> full)
      BY <2>6, <2>7, <3>1
    <3>4. /\ analysis'.totals[c] = IF c = class THEN t[c] + 1 ELSE t[c]
          /\ analysis'.supported[c] = IF c = class /\ has THEN s[c] + 1 ELSE s[c]
      BY <2>5, <2>6
    <3>5. PICK x, y : x = analysis'.supported[c] /\ y = analysis'.totals[c]
      OBVIOUS
    <3>6. x <= y /\ (x = y <=> full /\ (~has => class # c))
      BY ONLY <3>1, <3>3, <3>4, <3>5, has \in BOOLEAN
    <3> QED
      BY <3>2, <3>5, <3>6, Zenon
  <2>10. /\ analysis'.missing \in 0..MaxMissing
         /\ analysis'.missing # 0 <=> MaxMissing # 0 /\ Lacking' # {}
    <3>1. Lacking' # {} <=> Lacking # {} \/ ~has
      BY <1>8, <1>14
    <3> QED
      BY <2>5, <2>6, <3>1, AnalysisBounds
  <2> QED
    BY <1>6, <1>12, <2>3, <2>4, <2>5, <2>8, <2>9, <2>10, Zenon DEF AnalysisInv
<1> QED
  BY <1>13, <1>14

LEMMA AnalysisKeeps == AnalysisInv /\ [AnalysisStep]_analysisVars => AnalysisInv'
<1> SUFFICES ASSUME AnalysisInv, [AnalysisStep]_analysisVars
             PROVE  AnalysisInv'
  OBVIOUS
<1>1. CASE UNCHANGED analysisVars
  <2>1. imports' = imports /\ analysis' = analysis /\ inspected' = inspected /\ clr' = clr
    BY <1>1 DEF analysisVars
  <2> QED
    BY <2>1, Zenon DEF AnalysisInv, Lacking, ClassOfImport
<1>2. CASE AnalysisStep
  <2>1. PICK dll \in ScanModules, fn \in ScanNames : ScanImport(dll, fn)
    BY <1>2, Zenon DEF AnalysisStep, ScanNames
  <2> QED
    BY <2>1, AnalysisScans
<1> QED
  BY <1>1, <1>2, Zenon

LEMMA CategoriesFinite == IsFiniteSet(Categories)
<1>1. IsFiniteSet({})
  BY FS_EmptySet
<1>2. \A S, x : IsFiniteSet(S) => IsFiniteSet(S \cup {x})
  BY FS_AddElement, Zenon
<1>3. Categories = ((((((({} \cup {"graphics"}) \cup {"audio"}) \cup {"input"}) \cup {"networking"})
                    \cup {"filesystem"}) \cup {"threading"}) \cup {"system"})
  BY Zenon DEF Categories
<1> QED
  BY <1>1, <1>2, <1>3, Zenon

(* A rounded percentage is 100 only for the whole.                          *)
LEMMA PercentFull ==
  ASSUME NEW p \in Nat, NEW w \in Nat, p <= w, NEW none
  PROVE  IF w = 0 THEN Percent(p, w, none) = none ELSE (Percent(p, w, none) = 100 <=> p = w)
<1>1. CASE w = 0
  BY <1>1 DEF Percent
<1>2. CASE w # 0
  <2>1. PICK x : x = p * 100 /\ x \in Nat
    OBVIOUS
  <2>2. PICK q : q = (x \div w) /\ q \in Int
    BY <1>2, <2>1
  <2>3. w * q <= x /\ x < w * q + w
    BY <1>2, <2>1, <2>2
  <2>4. q = 100 => p = w
    BY <2>1, <2>3
  <2>5. p = w => q = 100
    <3> SUFFICES ASSUME p = w
                 PROVE  q = 100
      OBVIOUS
    <3>1. w * q <= w * 100 /\ w * 100 < w * (q + 1)
      BY <2>1, <2>2, <2>3
    <3>2. q <= 100 /\ 100 < q + 1
      BY ONLY <1>2, <2>2, <3>1, w \in Nat
    <3> QED
      BY <2>2, <3>2
  <2>6. Percent(p, w, none) = q
    BY <1>2, <2>1, <2>2 DEF Percent
  <2> QED
    BY <1>2, <2>4, <2>5, <2>6
<1> QED
  BY <1>1, <1>2

LEMMA OverallTells == AnalysisInv => (Overall = 100 <=> Lacking = {})
<1> SUFFICES ASSUME AnalysisInv
             PROVE  Overall = 100 <=> Lacking = {}
  OBVIOUS
<1>1. PICK s, t : s = analysis.supported /\ t = analysis.totals
  OBVIOUS
<1>2. /\ s \in [Categories -> Nat] /\ t \in [Categories -> Nat]
      /\ \A c \in Categories : s[c] <= t[c]
      /\ \A c \in Categories : s[c] = t[c] <=> \A i \in Lacking : ClassOfImport(i) # c
  BY <1>1, Zenon DEF AnalysisInv
<1>3. PICK p, w : p = SumFunction(s) /\ w = SumFunction(t)
  OBVIOUS
<1>4. p \in Nat /\ w \in Nat /\ p <= w /\ (p = w <=> s = t)
  BY <1>2, <1>3, CategoriesFinite, SumsCompare
<1>5. s = t <=> \A c \in Categories : s[c] = t[c]
  BY <1>2
<1>6. \A i \in Lacking : ClassOfImport(i) \in Categories
  BY ClassIsCategory, Zenon DEF Lacking, ClassOfImport
<1>7. s = t <=> Lacking = {}
  BY <1>2, <1>5, <1>6, Zenon
<1>8. Overall = Percent(p, w, 100)
  BY <1>1, <1>3, Zenon DEF Overall
<1>9. Percent(p, w, 100) = 100 <=> p = w
  <2>1. IF w = 0 THEN Percent(p, w, 100) = 100 ELSE (Percent(p, w, 100) = 100 <=> p = w)
    BY <1>4, PercentFull
  <2>2. w = 0 => p = w
    BY <1>4
  <2> QED
    BY <2>1, <2>2, Zenon
<1> QED
  BY <1>4, <1>7, <1>8, <1>9, Zenon

LEMMA CategoryTells ==
  ASSUME AnalysisInv, NEW c \in Categories
  PROVE  CategoryPercent(c) = 100 <=>
           analysis.totals[c] > 0 /\ \A i \in Lacking : ClassOfImport(i) # c
<1>1. PICK p, w : p = analysis.supported[c] /\ w = analysis.totals[c]
  OBVIOUS
<1>2. p \in Nat /\ w \in Nat /\ p <= w
  BY <1>1 DEF AnalysisInv
<1>3. p = w <=> \A i \in Lacking : ClassOfImport(i) # c
  BY <1>1, Zenon DEF AnalysisInv
<1>4. CategoryPercent(c) = Percent(p, w, -1)
  BY <1>1, Zenon DEF CategoryPercent
<1>5. IF w = 0 THEN Percent(p, w, -1) = -1 ELSE (Percent(p, w, -1) = 100 <=> p = w)
  BY <1>2, PercentFull
<1>6. Percent(p, w, -1) = 100 <=> w > 0 /\ p = w
  BY ONLY <1>2, <1>5
<1> QED
  BY <1>1, <1>3, <1>4, <1>6, Zenon

ErrorFound == \E x \in Issues : x[1] = "error"

LEMMA ErrorTells == ErrorFound <=> analysis.missing # 0
<1>1. analysis.missing # 0 => ErrorFound
  <2>1. analysis.missing # 0 => <<"error", "missing">> \in Issues
    BY Zenon DEF Issues
  <2>2. <<"error", "missing">>[1] = "error"
    OBVIOUS
  <2> QED
    BY <2>1, <2>2, Zenon DEF ErrorFound
<1>2. ErrorFound => analysis.missing # 0
  <2> SUFFICES ASSUME analysis.missing = 0, NEW x \in Issues
               PROVE  x[1] # "error"
    BY Zenon DEF ErrorFound
  <2>1. x \in {<<"warn", "partial graphics">>, <<"warn", "d3d12">>, <<"info", "d3d11">>,
               <<"warn", "timer">>, <<"warn", "synchronization">>, <<"info", "ordinal">>}
    BY Zenon DEF Issues
  <2>2. PICK s, t : x = <<s, t>> /\ s \in {"warn", "info"}
    BY <2>1, Zenon
  <2>3. x[1] = s
    BY <2>2
  <2>4. "warn" # "error" /\ "info" # "error"
    OBVIOUS
  <2> QED
    BY <2>2, <2>3, <2>4, Zenon
<1> QED
  BY <1>1, <1>2

WhatIsKept == DetectSource([gfx |-> "", audio |-> ""])

LEMMA AnalysisTells == AnalysisInv => AnalysisHonest
<1> SUFFICES ASSUME AnalysisInv
             PROVE  AnalysisHonest
  OBVIOUS
<1>1. Overall = 100 <=> Lacking = {}
  BY OverallTells
<1>2. ErrorFound <=> MaxMissing # 0 /\ Lacking # {}
  BY ErrorTells, Zenon DEF AnalysisInv
<1>3. \A c \in Categories : CategoryPercent(c) = 100 <=>
           analysis.totals[c] > 0 /\ \A i \in Lacking : ClassOfImport(i) # c
  BY CategoryTells, Zenon
<1>4. WhatIsKept.rating = "LOW" => Overall # 100
  <2>1. WhatIsKept.rating = "LOW" => ~(Overall >= 60)
    BY Zenon DEF WhatIsKept, DetectSource
  <2>2. Overall = 100 => Overall >= 60
    OBVIOUS
  <2> QED
    BY <2>1, <2>2, Zenon
<1>5. imports = << >> /\ ~clr => WhatIsKept.deps = {}
  BY Zenon DEF AnalysisInv, WhatIsKept, DetectSource, NeedsDotnet
<1>6. analysis.graphics = inspected.graphics /\ analysis.audio = inspected.audio
  BY Zenon DEF AnalysisInv
<1>7. Recommended.graphics = "Vulkan" => inspected.graphics \in {"d3d9", "d3d11", "d3d12"}
  <2>1. Recommended.graphics = "Vulkan" => analysis.graphics \in {"d3d12", "d3d11", "d3d9"}
    BY Zenon DEF Recommended
  <2> QED
    BY <1>6, <2>1, Zenon
<1>8. MaxMissing > 0 => MaxMissing # 0
  BY AnalysisBounds
<1> DEFINE scored == {i \in DOMAIN imports : Classify(imports[i].module, imports[i].fn) # "app"}
           lacking == {i \in scored : <<imports[i].module, imports[i].fn>> \notin Exported}
<1>9. lacking = Lacking
  BY Zenon DEF Lacking, ClassOfImport
<1> HIDE DEF lacking
<1>10. /\ MaxMissing > 0 => (Overall = 100 <=> lacking = {}) /\ (ErrorFound <=> lacking # {})
       /\ \A c \in Categories :
            CategoryPercent(c) = 100 <=>
              /\ analysis.totals[c] > 0
              /\ \A i \in lacking : Classify(imports[i].module, imports[i].fn) # c
       /\ WhatIsKept.rating = "LOW" => ErrorFound \/ MaxMissing = 0
  BY <1>1, <1>2, <1>3, <1>4, <1>8, <1>9, Zenon DEF ClassOfImport
<1> QED
  BY <1>5, <1>6, <1>7, <1>10, Zenon DEF AnalysisHonest, WhatIsKept, ErrorFound, lacking

LEMMA AnalysisTyped == AnalysisInv => AnalysisTypeOK
<1> SUFFICES ASSUME AnalysisInv
             PROVE  AnalysisTypeOK
  OBVIOUS
<1>1. /\ analysis.totals \in [Categories -> Nat] /\ analysis.supported \in [Categories -> Nat]
      /\ analysis.missing \in 0..MaxMissing /\ Len(inspected.dlls) <= MaxDlls
      /\ \A c \in Categories : analysis.supported[c] <= analysis.totals[c]
  BY Zenon DEF AnalysisInv
<1>2. \A c \in Categories : analysis.supported[c] \in 0..analysis.totals[c]
  BY ONLY <1>1
<1> QED
  BY <1>1, <1>2, Zenon DEF AnalysisTypeOK

-----------------------------------------------------------------------------
(* workspace.c: the doctor.                                                *)
Doctored(w) == [of |-> w, checks |-> Checks(w),
                ready |-> \A i \in DOMAIN Checks(w) : Checks(w)[i][2] # "fail"]

DoctorInv ==
  /\ space \in [Spaces -> SpaceStates \cup {Missing}] /\ marker \in [Spaces -> SUBSET Runtimes]
  /\ bound \in Spaces \cup {Missing}
  /\ report = NoReport \/ \E w \in Spaces : report = Doctored(w)

LEMMA DoctorStarts == DoctorInit => DoctorInv
BY DEF DoctorInit, DoctorInv

LEMMA DoctorKeeps == DoctorInv /\ [DoctorStep]_doctorVars => DoctorInv'
<1> SUFFICES ASSUME DoctorInv, [DoctorStep]_doctorVars
             PROVE  DoctorInv'
  OBVIOUS
<1>1. ASSUME UNCHANGED <<space, marker, vulkan>>
      PROVE  \A w \in Spaces : Doctored(w)' = Doctored(w)
  <2> SUFFICES ASSUME NEW w \in Spaces
               PROVE  Doctored(w)' = Doctored(w)
    OBVIOUS
  <2>1. Renderer(w)' = Renderer(w)
    BY <1>1, Zenon DEF Renderer
  <2>2. Dependencies(w)' = Dependencies(w)
    BY <1>1, Zenon DEF Dependencies, InstalledIn
  <2>3. /\ Simple(w, "prefix")' = Simple(w, "prefix") /\ Simple(w, "storage")' = Simple(w, "storage")
        /\ Simple(w, "architecture")' = Simple(w, "architecture")
        /\ Simple(w, "hash")' = Simple(w, "hash") /\ Simple(w, "profile")' = Simple(w, "profile")
    BY <1>1, Zenon DEF Simple
  <2>4. Checks(w)' = Checks(w)
    BY ONLY <1>1, <2>1, <2>2, <2>3 DEF Checks
  <2> QED
    BY <2>4, Zenon DEF Doctored
<1>2. CASE UNCHANGED doctorVars
  BY <1>1, <1>2, Zenon DEF doctorVars, DoctorInv, NoReport
<1>3. ASSUME NEW w \in Spaces, Doctor(w)
      PROVE  DoctorInv'
  <2>1. report' = Doctored(w) /\ UNCHANGED <<space, marker, vulkan>>
    BY <1>3, Zenon DEF Doctor, Doctored
  <2>2. bound' \in Spaces \cup {Missing}
    BY <1>3, Zenon DEF Doctor, DoctorInv
  <2> QED
    BY <1>1, <2>1, <2>2, Zenon DEF DoctorInv
<1>4. ASSUME NEW w \in Spaces, Bind(w)
      PROVE  DoctorInv'
  BY <1>4, Zenon DEF Bind, DoctorInv, NoReport
<1>5. ASSUME NEW w \in Spaces, ChangeSpace(w)
      PROVE  DoctorInv'
  <2>1. report' = NoReport' /\ bound' \in Spaces \cup {Missing}
    BY <1>5, Zenon DEF ChangeSpace, DoctorInv, NoReport
  <2>2. space' \in [Spaces -> SpaceStates \cup {Missing}] /\ marker' \in [Spaces -> SUBSET Runtimes]
    BY <1>5 DEF ChangeSpace, DoctorInv
  <2> QED
    BY <2>1, <2>2, Zenon DEF DoctorInv
<1>6. ASSUME NEW kind \in {"vcruntime", "dotnet"}, ChangeRuntime(kind)
      PROVE  DoctorInv'
  <2>1. report' = NoReport' /\ bound' \in Spaces \cup {Missing} /\ UNCHANGED space
    BY <1>6, Zenon DEF ChangeRuntime, DoctorInv, NoReport
  <2>2. kind \in Runtimes
    BY Zenon DEF Runtimes
  <2>3. marker' \in [Spaces -> SUBSET Runtimes]
    BY <1>6, <2>2 DEF ChangeRuntime, DoctorInv
  <2> QED
    BY <2>1, <2>3, Zenon DEF DoctorInv
<1>7. ASSUME ChangeVulkan
      PROVE  DoctorInv'
  BY <1>7, Zenon DEF ChangeVulkan, DoctorInv, NoReport
<1> QED
  BY <1>2, <1>3, <1>4, <1>5, <1>6, <1>7, Zenon DEF DoctorStep, Run

(* The nine checks of a workspace that loads.                               *)
LEMMA NineChecks ==
  ASSUME NEW w, space[w] # Missing
  PROVE  /\ Len(Checks(w)) = 9 /\ DOMAIN Checks(w) = 1..9
         /\ Checks(w)[1] = <<"workspace", "ok">>
         /\ Checks(w)[2] = <<"executable", IF space[w].set /\ space[w].found THEN "ok" ELSE "fail">>
         /\ Checks(w)[6] = <<"renderer", Renderer(w)>>
         /\ Checks(w)[7] = <<"dependencies", Dependencies(w)>>
         /\ \A i \in {3, 4, 5, 8, 9} : \E c \in SimpleChecks : Checks(w)[i] = Simple(w, c)
<1>1. PICK e, r, d : /\ e = IF space[w].set /\ space[w].found THEN "ok" ELSE "fail"
                     /\ r = Renderer(w) /\ d = Dependencies(w)
  OBVIOUS
<1>2. PICK p, s, a, h, f : /\ p = Simple(w, "prefix") /\ s = Simple(w, "storage")
                           /\ a = Simple(w, "architecture") /\ h = Simple(w, "hash")
                           /\ f = Simple(w, "profile")
  OBVIOUS
<1>3. Checks(w) = << <<"workspace", "ok">>, <<"executable", e>>, p, s, a, <<"renderer", r>>,
                     <<"dependencies", d>>, h, f >>
  BY <1>1, <1>2, Zenon DEF Checks
<1>4. /\ Len(Checks(w)) = 9 /\ DOMAIN Checks(w) = 1..9
      /\ Checks(w)[1] = <<"workspace", "ok">> /\ Checks(w)[2] = <<"executable", e>>
      /\ Checks(w)[6] = <<"renderer", r>> /\ Checks(w)[7] = <<"dependencies", d>>
      /\ Checks(w)[3] = p /\ Checks(w)[4] = s /\ Checks(w)[5] = a /\ Checks(w)[8] = h
      /\ Checks(w)[9] = f
  BY ONLY <1>3
<1>5. {"prefix", "storage", "architecture", "hash", "profile"} = SimpleChecks
  BY DEF SimpleChecks
<1>6. \A i \in {3, 4, 5, 8, 9} : \E c \in SimpleChecks : Checks(w)[i] = Simple(w, c)
  BY <1>2, <1>4, <1>5, Zenon
<1> QED
  BY <1>1, <1>4, <1>6, Zenon

(* A report of one of them is about what it names.                          *)
LEMMA CheckNamed ==
  ASSUME NEW w, space[w] # Missing, NEW i \in 1..9, NEW c \in {"renderer", "dependencies"},
         Checks(w)[i] = <<c, "ok">>
  PROVE  i = IF c = "renderer" THEN 6 ELSE 7
<1>1. PICK check : check = Checks(w)[i] /\ check[1] = c
  <2>1. <<c, "ok">>[1] = c
    OBVIOUS
  <2> QED
    BY <2>1, Zenon
<1>2. i \in {3, 4, 5, 8, 9} => check[1] \in SimpleChecks
  <2>1. ASSUME NEW n \in SimpleChecks, check = Simple(w, n)
        PROVE  check[1] \in SimpleChecks
    <3>1. PICK v : check = <<n, v>>
      BY <2>1, Zenon DEF Simple
    <3>2. check[1] = n
      BY <3>1
    <3> QED
      BY <3>2
  <2> QED
    BY <1>1, <2>1, NineChecks, Zenon
<1>3. i = 1 => check[1] = "workspace"
  <2>1. i = 1 => check = <<"workspace", "ok">>
    BY <1>1, NineChecks, Zenon
  <2> QED
    BY ONLY <2>1, SMTT(30)
<1>4. i = 2 => check[1] = "executable"
  <2>1. PICK v : i = 2 => check = <<"executable", v>>
    BY <1>1, NineChecks, Zenon
  <2> QED
    BY ONLY <2>1, SMTT(30)
<1>5. i = 6 => check[1] = "renderer"
  <2>1. PICK v : i = 6 => check = <<"renderer", v>>
    BY <1>1, NineChecks, Zenon
  <2> QED
    BY ONLY <2>1, SMTT(30)
<1>6. i = 7 => check[1] = "dependencies"
  <2>1. PICK v : i = 7 => check = <<"dependencies", v>>
    BY <1>1, NineChecks, Zenon
  <2> QED
    BY ONLY <2>1, SMTT(30)
<1>7. c \notin SimpleChecks /\ c # "workspace" /\ c # "executable"
  BY Zenon DEF SimpleChecks
<1>8. i \in {3, 4, 5, 8, 9} \/ i = 1 \/ i = 2 \/ i = 6 \/ i = 7
  OBVIOUS
<1> QED
  BY <1>1, <1>2, <1>3, <1>4, <1>5, <1>6, <1>7, <1>8, Zenon

Says(w, c) == \E i \in DOMAIN Checks(w) : Checks(w)[i] = <<c, "ok">>

LEMMA DoctorSays ==
  ASSUME NEW w, space[w] # Missing
  PROVE  /\ Says(w, "dependencies") <=> Dependencies(w) = "ok"
         /\ Says(w, "renderer") <=> Renderer(w) = "ok"
         /\ (\A i \in DOMAIN Checks(w) : Checks(w)[i][2] # "fail") <=> space[w].set /\ space[w].found
<1>1. DOMAIN Checks(w) = 1..9 /\ 6 \in 1..9 /\ 7 \in 1..9 /\ 2 \in 1..9 /\ 6 # 7
  BY NineChecks
<1>2. \A v : (<<"dependencies", v>> = <<"dependencies", "ok">> <=> v = "ok") /\
             (<<"renderer", v>> = <<"renderer", "ok">> <=> v = "ok")
  OBVIOUS
<1>3. Says(w, "dependencies") <=> Dependencies(w) = "ok"
  <2>1. Says(w, "dependencies") <=> Checks(w)[7] = <<"dependencies", "ok">>
    BY <1>1, CheckNamed, Zenon DEF Says
  <2> QED
    BY <1>2, <2>1, NineChecks, Zenon
<1>4. Says(w, "renderer") <=> Renderer(w) = "ok"
  <2>1. Says(w, "renderer") <=> Checks(w)[6] = <<"renderer", "ok">>
    BY <1>1, CheckNamed, Zenon DEF Says
  <2> QED
    BY <1>2, <2>1, NineChecks, Zenon
<1>5. ASSUME NEW i \in 1..9, i # 2
      PROVE  Checks(w)[i][2] # "fail"
  <2>1. \E n, v : Checks(w)[i] = <<n, v>> /\ v \in {"ok", "warn"}
    <3>1. i \in {3, 4, 5, 8, 9} \/ i = 1 \/ i = 6 \/ i = 7
      BY <1>5
    <3>2. Renderer(w) \in {"ok", "warn"} /\ Dependencies(w) \in {"ok", "warn"} /\ "ok" \in {"ok", "warn"}
      BY Zenon DEF Renderer, Dependencies
    <3>3. \A c : \E v : Simple(w, c) = <<c, v>> /\ v \in {"ok", "warn"}
      BY Zenon DEF Simple
    <3>4. CASE i \in {3, 4, 5, 8, 9}
      <4>1. \E c \in SimpleChecks : Checks(w)[i] = Simple(w, c)
        BY <3>4, NineChecks, Zenon
      <4> QED
        BY <3>3, <4>1, Zenon
    <3>5. CASE i = 1
      BY <3>2, <3>5, NineChecks, Zenon
    <3>6. CASE i = 6
      BY <3>2, <3>6, NineChecks, Zenon
    <3>7. CASE i = 7
      BY <3>2, <3>7, NineChecks, Zenon
    <3> QED
      BY <3>1, <3>4, <3>5, <3>6, <3>7
  <2>2. PICK n, v : Checks(w)[i] = <<n, v>> /\ v \in {"ok", "warn"}
    BY <2>1
  <2>3. Checks(w)[i][2] = v
    BY <2>2
  <2> QED
    BY <2>2, <2>3, Zenon
<1>6. Checks(w)[2][2] # "fail" <=> space[w].set /\ space[w].found
  <2>1. PICK v : v = IF space[w].set /\ space[w].found THEN "ok" ELSE "fail"
    OBVIOUS
  <2>2. Checks(w)[2] = <<"executable", v>>
    BY <2>1, NineChecks, Zenon
  <2>3. Checks(w)[2][2] = v
    BY <2>2
  <2> QED
    BY <2>1, <2>3, Zenon
<1> QED
  BY <1>1, <1>3, <1>4, <1>5, <1>6, Zenon

LEMMA DoctorTells == DoctorInv => DoctorHonest
<1> SUFFICES ASSUME DoctorInv, report.of # Missing
             PROVE  DoctorHonest
  BY Zenon DEF DoctorHonest
<1>1. PICK w \in Spaces : report = Doctored(w)
  <2>1. NoReport.of = Missing
    BY DEF NoReport
  <2> QED
    BY <2>1, Zenon DEF DoctorInv
<1>2. report.of = w /\ report.checks = Checks(w)
      /\ report.ready = \A i \in DOMAIN Checks(w) : Checks(w)[i][2] # "fail"
  BY <1>1, Zenon DEF Doctored
<1>3. CASE space[w] = Missing
  <2>1. Checks(w) = << <<"workspace", "fail">> >>
    BY <1>3, Zenon DEF Checks
  <2>2. 1 \in DOMAIN Checks(w) /\ Checks(w)[1][2] = "fail"
    BY <2>1
  <2>3. ~report.ready
    BY <1>2, <2>2, Zenon
  <2> QED
    BY <1>2, <1>3, <2>3, Zenon DEF DoctorHonest
<1>4. CASE space[w] # Missing
  <2>1. report.ready <=> space[w].set /\ space[w].found
    BY <1>2, <1>4, DoctorSays, Zenon
  <2>2. Len(report.checks) = 9
    BY <1>2, <1>4, NineChecks, Zenon
  <2>3. Dependencies(w) = "ok" <=> {Kind(t) : t \in space[w].deps} \subseteq marker[w]
    <3>1. w # Missing
      BY <1>2
    <3> QED
      BY <3>1, Zenon DEF Dependencies, InstalledIn
  <2>4. space[w].gfx = "Vulkan" /\ Renderer(w) = "ok" => vulkan
    BY Zenon DEF Renderer
  <2>5. /\ (\E i \in DOMAIN report.checks : report.checks[i] = <<"dependencies", "ok">>)
             <=> Dependencies(w) = "ok"
        /\ (\E i \in DOMAIN report.checks : report.checks[i] = <<"renderer", "ok">>)
             <=> Renderer(w) = "ok"
    <3>1. /\ Says(w, "dependencies") <=> Dependencies(w) = "ok"
          /\ Says(w, "renderer") <=> Renderer(w) = "ok"
      BY <1>4, DoctorSays, Zenon
    <3>2. Says(w, "dependencies") <=>
            \E i \in DOMAIN report.checks : report.checks[i] = <<"dependencies", "ok">>
      BY <1>2, Zenon DEF Says
    <3>3. Says(w, "renderer") <=>
            \E i \in DOMAIN report.checks : report.checks[i] = <<"renderer", "ok">>
      BY <1>2, Zenon DEF Says
    <3> QED
      BY <3>1, <3>2, <3>3, Zenon
  <2> QED
    BY <1>2, <1>4, <2>1, <2>2, <2>3, <2>4, <2>5, Zenon DEF DoctorHonest
<1> QED
  BY <1>3, <1>4

-----------------------------------------------------------------------------
(* workspace.c: diagnose.                                                  *)
LogClasses ==
  {"vc-runtime", "dll-override", "gfx vulkan", "gfx directx", "box64", "wine", "unused"}
Noted == [line : Nat, class : LogClasses]

DiagnoseInv ==
  /\ log \in Seq(LogLines) /\ notes \in Seq(Noted) /\ scanning \in BOOLEAN
  /\ Len(notes) <= Len(log) /\ Len(log) <= MaxLines
  /\ notes = << >> <=> \A i \in DOMAIN log : ClassOf(log[i]) = "unused"
  /\ ~scanning => notes # << >>
  /\ \A i \in DOMAIN notes : notes[i].line <= Len(log)
  /\ \A i, j \in DOMAIN notes : i < j => notes[i].line < notes[j].line

LEMMA DiagnoseStarts == DiagnoseInit => DiagnoseInv
BY DoctorAssumption DEF DiagnoseInit, DiagnoseInv

LEMMA DiagnoseKeeps == DiagnoseInv /\ [DiagnoseStep]_diagnoseVars => DiagnoseInv'
<1> SUFFICES ASSUME DiagnoseInv, [DiagnoseStep]_diagnoseVars
             PROVE  DiagnoseInv'
  OBVIOUS
<1>1. CASE UNCHANGED diagnoseVars
  BY <1>1, Zenon DEF diagnoseVars, DiagnoseInv
<1>2. ASSUME NEW line \in LogLines, DiagnoseLine(line)
      PROVE  DiagnoseInv'
  <2>1. PICK class : class = ClassOf(line) /\ class \in LogClasses
    <3>1. ClassOf(line) \in LogClasses
      BY Zenon DEF ClassOf, LogClasses
    <3> QED
      BY <3>1
  <2>2. PICK n, m : n = Len(log) /\ m = Len(notes) /\ n \in Nat /\ m \in Nat
    BY DEF DiagnoseInv
  <2>3. /\ log \in Seq(LogLines) /\ notes \in Seq(Noted) /\ m <= n /\ n < MaxLines
        /\ DOMAIN log = 1..n /\ DOMAIN notes = 1..m
    BY <1>2, <2>2, DoctorAssumption DEF DiagnoseInv, DiagnoseLine
  <2>4. /\ log' = Append(log, line) /\ log' \in Seq(LogLines) /\ Len(log') = n + 1
        /\ DOMAIN log' = 1..(n + 1) /\ log'[n + 1] = line /\ \A i \in 1..n : log'[i] = log[i]
    BY <1>2, <2>2, <2>3 DEF DiagnoseLine
  <2>5. PICK note : note = [line |-> n + 1, class |-> class] /\ note \in Noted /\ note.line = n + 1
    <3>1. [line |-> n + 1, class |-> class] \in Noted /\ [line |-> n + 1, class |-> class].line = n + 1
      BY ONLY <2>1, <2>2 DEF Noted
    <3> QED
      BY <3>1, Zenon
  <2>6. IF class = "unused" THEN notes' = notes ELSE notes' = Append(notes, note)
    BY <1>2, <2>1, <2>4, <2>5, Zenon DEF DiagnoseLine
  <2>7. scanning' \in BOOLEAN /\ (~scanning' => notes' # << >>)
    BY <1>2, Zenon DEF DiagnoseLine
  <2>8. n + 1 <= MaxLines
    BY <2>2, <2>3, DoctorAssumption
  <2>9. /\ \A i \in 1..m : notes[i].line \in Nat /\ notes[i].line <= n
        /\ \A i, j \in 1..m : i < j => notes[i].line < notes[j].line
    <3>1. \A i \in 1..m : notes[i] \in Noted
      BY <2>3, EntryType, Zenon
    <3>2. \A i \in 1..m : notes[i].line \in Nat
      BY ONLY <3>1 DEF Noted
    <3> QED
      BY <2>2, <2>3, <3>2, Zenon DEF DiagnoseInv
  <2>10. (notes = << >>) <=> \A i \in 1..n : ClassOf(log[i]) = "unused"
    BY <2>3 DEF DiagnoseInv
  <2>11. (\A i \in 1..(n + 1) : ClassOf(log'[i]) = "unused")
           <=> (\A i \in 1..n : ClassOf(log[i]) = "unused") /\ class = "unused"
    <3>1. \A i : i \in 1..(n + 1) <=> i \in 1..n \/ i = n + 1
      BY <2>2
    <3> QED
      BY <2>1, <2>4, <3>1, Zenon
  <2>12. CASE class = "unused"
    <3>1. notes' = notes
      BY <2>6, <2>12
    <3>2. \A i \in 1..m : notes[i].line <= n + 1
      BY <2>2, <2>9
    <3>3. m <= n + 1
      BY <2>2, <2>3
    <3> QED
      BY <2>2, <2>3, <2>4, <2>7, <2>8, <2>9, <2>10, <2>11, <2>12, <3>1, <3>2, <3>3, Zenon DEF DiagnoseInv
  <2>13. CASE class # "unused"
    <3>1. notes' = Append(notes, note)
      BY <2>6, <2>13
    <3>2. /\ notes' \in Seq(Noted) /\ Len(notes') = m + 1 /\ DOMAIN notes' = 1..(m + 1)
          /\ notes' # << >> /\ notes'[m + 1] = note /\ \A i \in 1..m : notes'[i] = notes[i]
      BY <2>2, <2>3, <2>5, <3>1
    <3>3. \A i \in 1..(m + 1) : i \in 1..m \/ i = m + 1
      BY <2>2
    <3>4. \A i \in 1..(m + 1) : notes'[i].line <= n + 1
      BY <2>2, <2>5, <2>9, <3>2, <3>3
    <3>5. \A i, j \in 1..(m + 1) : i < j => notes'[i].line < notes'[j].line
      <4> SUFFICES ASSUME NEW i \in 1..(m + 1), NEW j \in 1..(m + 1), i < j
                   PROVE  notes'[i].line < notes'[j].line
        OBVIOUS
      <4>1. i \in 1..m
        BY <2>2
      <4>2. CASE j \in 1..m
        BY <2>9, <3>2, <4>1, <4>2
      <4>3. CASE j = m + 1
        BY <2>2, <2>5, <2>9, <3>2, <4>1, <4>3
      <4> QED
        BY <3>3, <4>2, <4>3
    <3>6. m + 1 <= n + 1
      BY <2>2, <2>3
    <3> QED
      BY <2>4, <2>7, <2>8, <2>11, <2>13, <3>2, <3>4, <3>5, <3>6, Zenon DEF DiagnoseInv
  <2> QED
    BY <2>12, <2>13
<1> QED
  BY <1>1, <1>2, Zenon DEF DiagnoseStep

LEMMA DiagnoseTells == DiagnoseInv => DiagnosisHonest
BY Zenon DEF DiagnoseInv, DiagnosisHonest, NothingFound

LEMMA DependenciesKnown ==
  \A t \in DetectSource([gfx |-> "", audio |-> ""]).deps : Kind(t) \in Runtimes
<1>1. DetectSource([gfx |-> "", audio |-> ""]).deps \subseteq {"vcruntime", "dotnet"}
  BY Zenon DEF DetectSource
<1>2. Kind("vcruntime") = "vcruntime"
  BY Zenon DEF Kind
<1>3. Kind("dotnet") = "dotnet"
  <2>1. "dotnet" \notin {"vcruntime", "vc", "vcredist"}
    OBVIOUS
  <2> QED
    BY <2>1, Zenon DEF Kind
<1>4. "vcruntime" \in Runtimes /\ "dotnet" \in Runtimes
  BY Zenon DEF Runtimes
<1> QED
  BY <1>1, <1>2, <1>3, <1>4, Zenon

LEMMA DoctorTyped == DoctorInv /\ DiagnoseInv => DoctorTypeOK
BY Zenon DEF DoctorInv, DiagnoseInv, DoctorTypeOK

-----------------------------------------------------------------------------
(* db.c: the entries, the lines of the file and the state of a parse.       *)
Titles == Apps \cup {Torn}
Remarks == {s \in Seq(IssueTexts \cup {Torn}) : Len(s) <= MaxIssues}
EntryRows == [app : Titles, rating : 0..3, issues : Remarks]
Listings == {db \in Seq(EntryRows) : \A i, j \in DOMAIN db : db[i].app = db[j].app => i = j}
AppLines == [key : {"app"}, v : Titles]
RatingLines == [key : {"rating"}, v : 0..3]
IssueLines == [key : {"issue"}, v : IssueTexts \cup {Torn}]
LineRows == AppLines \cup RatingLines \cup IssueLines
Parses == [db : Listings, have : BOOLEAN, cur : EntryRows]

DbInv == entries \in Listings /\ file \in Seq(LineRows)

LEMMA DbBounds ==
  /\ MaxIssues \in Nat /\ ReadBack \in [Apps -> Apps] /\ CutNames \in [Apps -> SUBSET Titles]
  /\ Torn \notin Apps \cup IssueTexts
  BY Zenon, DbAssumption DEF Titles

LEMMA NoRemarks == << >> \in Remarks
<1>1. MaxIssues \in Nat
  BY DbBounds
<1> QED
  BY <1>1 DEF Remarks

(* cellar_db_put keeps one entry of a name.                                 *)
LEMMA PutKeeps ==
  ASSUME NEW db \in Listings, NEW e \in EntryRows
  PROVE  Put(db, e) \in Listings
<1>1. db \in Seq(EntryRows) /\ \A i, j \in DOMAIN db : db[i].app = db[j].app => i = j
  BY DEF Listings
<1>2. PICK n : n = Len(db) /\ n \in Nat /\ DOMAIN db = 1..n
  BY <1>1
<1>3. PICK same : same = {i \in DOMAIN db : db[i].app = e.app}
  OBVIOUS
<1>4. CASE same # {}
  <2> DEFINE t == [i \in DOMAIN db |-> IF i \in same THEN e ELSE db[i]]
  <2>1. t \in Seq(EntryRows) /\ DOMAIN t = DOMAIN db
    <3>1. \A i \in 1..n : db[i] \in EntryRows
      BY <1>1, <1>2
    <3> QED
      BY <1>2, <3>1
  <2>2. \A i \in DOMAIN db : t[i].app = db[i].app
    BY <1>3
  <2>3. Put(db, e) = t
    BY <1>3, <1>4, Zenon DEF Put
  <2> HIDE DEF t
  <2> QED
    BY <1>1, <2>1, <2>2, <2>3 DEF Listings
<1>5. CASE same = {}
  <2>1. Put(db, e) = Append(db, e)
    BY <1>3, <1>5, Zenon DEF Put
  <2>2. PICK t : t = Append(db, e)
    OBVIOUS
  <2>3. t \in Seq(EntryRows) /\ DOMAIN t = 1..(n + 1) /\ t[n + 1] = e /\ \A i \in 1..n : t[i] = db[i]
    BY <1>1, <1>2, <2>2
  <2>4. \A i \in 1..n : db[i].app # e.app
    BY <1>2, <1>3, <1>5
  <2>5. ASSUME NEW i \in DOMAIN t, NEW j \in DOMAIN t, t[i].app = t[j].app
        PROVE  i = j
    <3>1. i \in 1..(n + 1) /\ j \in 1..(n + 1)
      BY <2>3
    <3>2. CASE i \in 1..n /\ j \in 1..n
      BY <1>1, <1>2, <2>3, <2>5, <3>2
    <3>3. CASE i = n + 1
      BY <1>2, <2>3, <2>4, <2>5, <3>1, <3>3
    <3>4. CASE j = n + 1
      BY <1>2, <2>3, <2>4, <2>5, <3>1, <3>4
    <3> QED
      BY <1>2, <3>1, <3>2, <3>3, <3>4
  <2> QED
    BY <2>1, <2>2, <2>3, <2>5 DEF Listings
<1> QED
  BY <1>4, <1>5

(* cellar_db_from_analysis makes an entry.                                  *)
KeepSteps(issues) ==
  [i \in 1..Len(issues) |-> [kept \in Remarks |-> KeepIssue(kept, issues[i])]]

LEMMA KeptIsRemark ==
  ASSUME NEW kept \in Remarks, NEW i, i.text \in IssueTexts
  PROVE  KeepIssue(kept, i) \in Remarks
<1>1. kept \in Seq(IssueTexts \cup {Torn}) /\ Len(kept) <= MaxIssues /\ MaxIssues \in Nat
  BY DbBounds DEF Remarks
<1>2. CASE i.level # "info" /\ Len(kept) < MaxIssues
  <2>1. KeepIssue(kept, i) = Append(kept, i.text)
    BY <1>2 DEF KeepIssue
  <2>2. Append(kept, i.text) \in Seq(IssueTexts \cup {Torn}) /\ Len(Append(kept, i.text)) = Len(kept) + 1
    BY <1>1
  <2> QED
    BY <1>1, <1>2, <2>1, <2>2 DEF Remarks
<1>3. CASE ~(i.level # "info" /\ Len(kept) < MaxIssues)
  BY <1>3 DEF KeepIssue
<1> QED
  BY <1>2, <1>3

IssueRows == [level : {"info", "error", "warn"}, text : IssueTexts]

LEMMA IssuesTyped ==
  ASSUME NEW issues, issues \in IssueLists
  PROVE  issues \in Seq(IssueRows)
<1>1. CASE issues = << >>
  BY <1>1
<1>2. CASE \E s, t \in IssueTexts :
             issues = <<[level |-> "info", text |-> s], [level |-> "error", text |-> s],
                        [level |-> "warn", text |-> t]>>
  <2>1. PICK s \in IssueTexts, t \in IssueTexts :
          issues = <<[level |-> "info", text |-> s], [level |-> "error", text |-> s],
                     [level |-> "warn", text |-> t]>>
    BY <1>2
  <2>2. /\ [level |-> "info", text |-> s] \in IssueRows
        /\ [level |-> "error", text |-> s] \in IssueRows
        /\ [level |-> "warn", text |-> t] \in IssueRows
    BY DEF IssueRows
  <2> QED
    BY <2>1, <2>2
<1> QED
  BY <1>1, <1>2 DEF IssueLists

LEMMA IssuesKept ==
  ASSUME NEW issues, issues \in IssueLists
  PROVE  FoldLeft(KeepIssue, << >>, issues) \in Remarks
<1>0. issues \in Seq(IssueRows)
  BY IssuesTyped
<1>1. PICK n : n = Len(issues) /\ n \in Nat /\ DOMAIN issues = 1..n
  BY <1>0
<1>2. \A i \in 1..n : issues[i].text \in IssueTexts
  <2>1. ASSUME NEW i \in 1..n
        PROVE  issues[i] \in IssueRows
    BY <1>0, <1>1, EntryType, Zenon
  <2> QED
    BY <2>1 DEF IssueRows
<1>3. PICK step : step = [i \in 1..n |-> [kept \in Remarks |-> KeepIssue(kept, issues[i])]]
  OBVIOUS
<1>4. step \in [1..n -> [Remarks -> Remarks]]
  <2>1. \A i \in 1..n : \A kept \in Remarks : KeepIssue(kept, issues[i]) \in Remarks
    BY <1>2, KeptIsRemark
  <2> QED
    BY <1>3, <2>1
<1> DEFINE Eq(g) == g = [s \in SUBSET (DOMAIN issues) |-> IF s = {} THEN << >> ELSE
                           KeepIssue(g[s \ {Max(s)}], issues[Max(s)])]
<1>5. \E F : Eq(F)
  <2>1. Peels(1..n, LastOf(n))
    BY <1>1, FrontsPeel, Zenon
  <2>2. PICK F : FoldsTo(F, 1..n, Remarks, << >>, LastOf(n), step)
    BY <1>4, <2>1, NoRemarks, SubsetFoldExists
  <2>3. F \in [SUBSET (1..n) -> Remarks] /\ F[{}] = << >>
    BY <2>2 DEF FoldsTo
  <2>4. ASSUME NEW s \in SUBSET (1..n), s # {}
        PROVE  F[s] = KeepIssue(F[s \ {Max(s)}], issues[Max(s)])
    <3>1. PICK m : m = Max(s) /\ m = LastOf(n)[s] /\ m \in s
      BY <2>1, <2>4 DEF LastOf, Peels
    <3>2. F[s] = step[m][F[s \ {m}]]
      BY <2>2, <2>4, <3>1, Zenon DEF FoldsTo
    <3>3. F[s \ {m}] \in Remarks /\ m \in 1..n
      BY <2>3, <3>1
    <3>4. F[s] = KeepIssue(F[s \ {m}], issues[m])
      BY <1>3, <3>2, <3>3
    <3> QED
      BY <3>1, <3>4
  <2>5. Eq(F)
    BY <1>1, <2>3, <2>4
  <2> QED
    BY <2>5, Zenon
<1>6. PICK g : g = (CHOOSE h : Eq(h))
  OBVIOUS
<1>7. Eq(g)
  <2> HIDE DEF Eq
  <2> QED
    BY <1>5, <1>6, Zenon
<1>8. FoldLeft(KeepIssue, << >>, issues) = g[1..n]
  BY <1>1, <1>6, Zenon DEF FoldLeft, MapThenFoldSet
<1>9. Recurs(g, 1..n, Remarks, << >>, LastOf(n), step)
  <2>1. g[{}] = << >>
    BY <1>1, <1>7
  <2>2. ASSUME NEW s \in SUBSET (1..n), s # {}, g[s \ {LastOf(n)[s]}] \in Remarks
        PROVE  g[s] = step[LastOf(n)[s]][g[s \ {LastOf(n)[s]}]]
    <3>1. Peels(1..n, LastOf(n))
      BY <1>1, FrontsPeel, Zenon
    <3>2. PICK m : m = Max(s) /\ m = LastOf(n)[s] /\ m \in s
      BY <2>2, <3>1 DEF LastOf, Peels
    <3>3. g[s] = KeepIssue(g[s \ {m}], issues[m])
      BY <1>1, <1>7, <2>2, <3>2
    <3> QED
      BY <1>3, <2>2, <3>2, <3>3
  <2> QED
    BY <2>1, <2>2, Zenon DEF Recurs
<1>10. PICK f : Follows(f, n, Remarks, << >>, step) /\ g[1..n] = f[n]
  BY <1>1, <1>4, <1>9, NoRemarks, LeftFoldFollows
<1> QED
  BY <1>1, <1>8, <1>10 DEF Follows

LEMMA AnalysisRecorded ==
  ASSUME NEW app \in Apps, NEW percent, NEW issues \in IssueLists
  PROVE  FromAnalysis(app, percent, issues) \in EntryRows
<1>1. PICK texts : texts = FoldLeft(KeepIssue, << >>, issues) /\ texts \in Remarks
  BY IssuesKept
<1>2. PICK rating : rating = (CASE percent >= 90 -> 3 [] percent \in 60..89 -> 2 [] OTHER -> 1)
  OBVIOUS
<1>3. rating \in 0..3
  BY <1>2
<1>4. FromAnalysis(app, percent, issues) = [app |-> app, rating |-> rating, issues |-> texts]
  BY <1>1, <1>2, Zenon DEF FromAnalysis
<1> QED
  BY <1>1, <1>3, <1>4 DEF EntryRows, Titles

(* cellar_db_save writes lines of the three kinds, also when it is cut.     *)
LEMMA LinesTyped ==
  ASSUME NEW e \in EntryRows
  PROVE  Lines(e) \in Seq(LineRows)
<1>1. e.app \in Titles /\ e.rating \in 0..3 /\ e.issues \in Remarks
  BY DEF EntryRows
<1>2. [key |-> "app", v |-> e.app] \in LineRows /\ [key |-> "rating", v |-> e.rating] \in LineRows
  BY <1>1 DEF LineRows, AppLines, RatingLines
<1>3. PICK head : head = <<[key |-> "app", v |-> e.app], [key |-> "rating", v |-> e.rating]>>
  OBVIOUS
<1>4. head \in Seq(LineRows)
  BY <1>2, <1>3
<1>5. PICK texts : texts = e.issues /\ texts \in Seq(IssueTexts \cup {Torn})
  BY <1>1 DEF Remarks
<1>6. PICK tail : tail = [i \in DOMAIN texts |-> [key |-> "issue", v |-> texts[i]]]
  OBVIOUS
<1>7. tail \in Seq(LineRows)
  <2>1. PICK n : n = Len(texts) /\ n \in Nat /\ DOMAIN texts = 1..n
    BY <1>5
  <2>2. \A i \in 1..n : [key |-> "issue", v |-> texts[i]] \in LineRows
    BY <1>5, <2>1 DEF LineRows, IssueLines
  <2>3. tail \in [1..n -> LineRows]
    BY <1>6, <2>1, <2>2
  <2> QED
    BY <2>1, <2>3
<1>8. Lines(e) = head \o tail
  BY <1>3, <1>5, <1>6, Zenon DEF Lines
<1> QED
  BY <1>4, <1>7, <1>8

(* The text of a table, entry by entry.                                     *)
Written(db) == FlattenSeq([i \in DOMAIN db |-> Lines(db[i])])
Sheets(f, db) ==
  /\ f \in [0..Len(db) -> Seq(LineRows)] /\ f[0] = << >>
  /\ \A k \in 1..Len(db) : f[k] = f[k - 1] \o Lines(db[k])

LEMMA WrittenInPages ==
  ASSUME NEW db \in Listings
  PROVE  \E f : Sheets(f, db) /\ Written(db) = f[Len(db)] /\ Written(db) \in Seq(LineRows)
<1>1. PICK n : n = Len(db) /\ n \in Nat /\ DOMAIN db = 1..n
  BY DEF Listings
<1>2. PICK seqs : seqs = [i \in DOMAIN db |-> Lines(db[i])]
  OBVIOUS
<1>3. \A i \in 1..n : Lines(db[i]) \in Seq(LineRows)
  <2>1. \A i \in 1..n : db[i] \in EntryRows
    BY <1>1 DEF Listings
  <2> QED
    BY <2>1, LinesTyped
<1>4. seqs \in Seq(Seq(LineRows)) /\ Len(seqs) = n
  <2>1. seqs \in [1..n -> Seq(LineRows)]
    BY <1>1, <1>2, <1>3
  <2> QED
    BY <1>1, <2>1
<1>5. PICK f : Follows(f, n, Seq(LineRows), << >>, Joins(seqs, LineRows)) /\ FlattenSeq(seqs) = f[n]
  BY <1>4, FlattenFollows
<1>6. f \in [0..n -> Seq(LineRows)] /\ f[0] = << >>
  BY <1>5 DEF Follows
<1>7. ASSUME NEW k \in 1..n
      PROVE  f[k] = f[k - 1] \o Lines(db[k])
  <2>1. f[k] = Joins(seqs, LineRows)[k][f[k - 1]]
    BY <1>5 DEF Follows
  <2>2. f[k - 1] \in Seq(LineRows)
    <3>1. k - 1 \in 0..n
      BY <1>1
    <3> QED
      BY <1>6, <3>1
  <2> QED
    BY <1>1, <1>2, <1>4, <2>1, <2>2 DEF Joins
<1>8. Written(db) = f[n] /\ f[n] \in Seq(LineRows)
  <2>1. f[n] \in Seq(LineRows)
    BY <1>1, <1>6
  <2> QED
    BY <1>2, <1>5, <2>1, Zenon DEF Written
<1>9. Sheets(f, db)
  BY <1>1, <1>6, <1>7 DEF Sheets
<1> QED
  BY <1>1, <1>8, <1>9

LEMMA TextTyped ==
  ASSUME entries \in Listings
  PROVE  Text \in Seq(LineRows) /\ Text = Written(entries)
<1>1. Text = Written(entries)
  BY Zenon DEF Text, Written
<1> QED
  BY <1>1, WrittenInPages

LEMMA CutTyped ==
  ASSUME NEW l \in LineRows, NEW cut \in CutLines(l)
  PROVE  cut \in Seq(LineRows)
<1> DEFINE spoilt == CASE l.key = "rating" -> {0}
                       [] l.key = "app" /\ l.v # Torn -> CutNames[l.v]
                       [] OTHER -> {Torn}
<1>1. CASE cut = << >>
  BY <1>1
<1>2. CASE \E v \in spoilt : cut = <<[l EXCEPT !.v = v]>>
  <2>1. PICK v : v \in spoilt /\ cut = <<[l EXCEPT !.v = v]>>
    BY <1>2
  <2>2. [l EXCEPT !.v = v] \in LineRows
    <3>1. CASE l \in AppLines
      <4>1. l.key = "app" /\ l.v \in Titles
        BY <3>1 DEF AppLines
      <4>2. v \in Titles
        <5>1. CASE l.v # Torn
          <6>1. v \in CutNames[l.v] /\ l.v \in Apps
            BY <2>1, <4>1, <5>1 DEF Titles
          <6> QED
            BY <6>1, DbBounds
        <5>2. CASE l.v = Torn
          BY <2>1, <4>1, <5>2 DEF Titles
        <5> QED
          BY <5>1, <5>2
      <4> QED
        BY <3>1, <4>2 DEF AppLines, LineRows
    <3>2. CASE l \in RatingLines
      <4>1. v = 0
        BY <2>1, <3>2 DEF RatingLines
      <4> QED
        BY <3>2, <4>1 DEF RatingLines, LineRows
    <3>3. CASE l \in IssueLines
      <4>1. v = Torn
        BY <2>1, <3>3 DEF IssueLines
      <4> QED
        BY <3>3, <4>1 DEF IssueLines, LineRows
    <3> QED
      BY <3>1, <3>2, <3>3 DEF LineRows
  <2> QED
    BY <2>1, <2>2
<1> QED
  BY <1>1, <1>2, Zenon DEF CutLines

(* cellar_db_open: every line leaves a table, and an entry to put in it.    *)
LEMMA ParseKeeps ==
  ASSUME NEW st \in Parses, NEW l \in LineRows
  PROVE  ParseLine(st, l) \in Parses
<1>1. st.db \in Listings /\ st.have \in BOOLEAN /\ st.cur \in EntryRows
  BY DEF Parses
<1>2. CASE l \in AppLines
  <2>1. l.key = "app" /\ l.v \in Titles
    BY <1>2 DEF AppLines
  <2>2. PICK name : name = (IF l.v = Torn THEN Torn ELSE ReadBack[l.v]) /\ name \in Titles
    BY <2>1, DbBounds DEF Titles
  <2>3. ParseLine(st, l) = Started(st, name)
    BY <2>1, <2>2 DEF ParseLine
  <2>4. PICK db : db = (IF st.have THEN Put(st.db, st.cur) ELSE st.db) /\ db \in Listings
    BY <1>1, PutKeeps
  <2>5. [app |-> name, rating |-> 0, issues |-> << >>] \in EntryRows
    BY <2>2, NoRemarks DEF EntryRows
  <2>6. Started(st, name) = [db |-> db, have |-> TRUE,
                             cur |-> [app |-> name, rating |-> 0, issues |-> << >>]]
    BY <2>4, Zenon DEF Started
  <2> QED
    BY <2>3, <2>4, <2>5, <2>6 DEF Parses
<1>3. CASE l \in RatingLines
  <2>1. l.key = "rating" /\ l.v \in 0..3
    BY <1>3 DEF RatingLines
  <2>2. ParseLine(st, l) = [st EXCEPT !.cur.rating = l.v]
    BY <2>1 DEF ParseLine
  <2> QED
    BY <2>1, <2>2 DEF Parses, EntryRows
<1>4. CASE l \in IssueLines
  <2>1. l.key = "issue" /\ l.v \in IssueTexts \cup {Torn}
    BY <1>4 DEF IssueLines
  <2>2. CASE Len(st.cur.issues) < MaxIssues
    <3>1. ParseLine(st, l) = [st EXCEPT !.cur.issues = Append(@, l.v)]
      BY <2>1, <2>2 DEF ParseLine
    <3>2. st.cur.issues \in Seq(IssueTexts \cup {Torn}) /\ Len(st.cur.issues) <= MaxIssues
      BY <1>1 DEF EntryRows, Remarks
    <3>3. PICK texts : texts = Append(st.cur.issues, l.v)
      OBVIOUS
    <3>4. texts \in Remarks
      BY <2>1, <2>2, <3>2, <3>3, DbBounds DEF Remarks
    <3>5. ParseLine(st, l) = [st EXCEPT !.cur.issues = texts]
      BY <3>1, <3>3
    <3> QED
      BY <3>4, <3>5 DEF Parses, EntryRows
  <2>3. CASE ~(Len(st.cur.issues) < MaxIssues)
    BY <2>1, <2>3 DEF ParseLine
  <2> QED
    BY <2>2, <2>3
<1> QED
  BY <1>2, <1>3, <1>4 DEF LineRows

Blank == [db |-> << >>, have |-> FALSE, cur |-> [app |-> Torn, rating |-> 0, issues |-> << >>]]
ParseSteps(lines) == [i \in 1..Len(lines) |-> [st \in Parses |-> ParseLine(st, lines[i])]]
AtEnd(st) == IF st.have THEN Put(st.db, st.cur) ELSE st.db

LEMMA BlankTyped == Blank \in Parses /\ << >> \in Listings
<1>1. << >> \in Seq(EntryRows) /\ DOMAIN << >> = {}
  OBVIOUS
<1>2. << >> \in Listings
  BY <1>1 DEF Listings
<1>3. [app |-> Torn, rating |-> 0, issues |-> << >>] \in EntryRows
  BY NoRemarks DEF EntryRows, Titles
<1> QED
  BY <1>2, <1>3 DEF Blank, Parses

LEMMA ParsedFollows ==
  ASSUME NEW lines \in Seq(LineRows)
  PROVE  \E f : /\ Follows(f, Len(lines), Parses, Blank, ParseSteps(lines))
                /\ Parsed(lines) = AtEnd(f[Len(lines)])
<1>1. PICK n : n = Len(lines) /\ n \in Nat /\ DOMAIN lines = 1..n
  OBVIOUS
<1>2. \A i \in 1..n : lines[i] \in LineRows
  BY <1>1
<1>3. PICK step : step = ParseSteps(lines)
  OBVIOUS
<1>4. step \in [1..n -> [Parses -> Parses]]
  <2>1. \A i \in 1..n : \A st \in Parses : ParseLine(st, lines[i]) \in Parses
    BY <1>2, ParseKeeps
  <2> QED
    BY <1>1, <1>3, <2>1 DEF ParseSteps
<1>5. \A i \in 1..n : \A st \in Parses : step[i][st] = ParseLine(st, lines[i])
  BY <1>1, <1>3 DEF ParseSteps
<1> DEFINE Eq(g) == g = [s \in SUBSET (DOMAIN lines) |-> IF s = {} THEN Blank ELSE
                           ParseLine(g[s \ {Max(s)}], lines[Max(s)])]
<1>6. Peels(1..n, LastOf(n))
  BY <1>1, FrontsPeel, Zenon
<1>7. ASSUME NEW s \in SUBSET (1..n), s # {}
      PROVE  Max(s) = LastOf(n)[s] /\ Max(s) \in s
  BY <1>6, <1>7 DEF LastOf, Peels
<1>8. \E F : Eq(F)
  <2>1. PICK F : FoldsTo(F, 1..n, Parses, Blank, LastOf(n), step)
    BY <1>4, <1>6, BlankTyped, SubsetFoldExists
  <2>2. F \in [SUBSET (1..n) -> Parses] /\ F[{}] = Blank
    BY <2>1 DEF FoldsTo
  <2>3. ASSUME NEW s \in SUBSET (1..n), s # {}
        PROVE  F[s] = ParseLine(F[s \ {Max(s)}], lines[Max(s)])
    <3>1. PICK m : m = Max(s) /\ m = LastOf(n)[s] /\ m \in s
      BY <1>7, <2>3
    <3>2. F[s] = step[m][F[s \ {m}]]
      BY <2>1, <2>3, <3>1, Zenon DEF FoldsTo
    <3>3. F[s \ {m}] \in Parses /\ m \in 1..n
      BY <2>2, <3>1
    <3>4. F[s] = ParseLine(F[s \ {m}], lines[m])
      BY <1>5, <3>2, <3>3
    <3> QED
      BY <3>1, <3>4
  <2>4. Eq(F)
    BY <1>1, <2>2, <2>3
  <2> QED
    BY <2>4, Zenon
<1>9. PICK g : g = (CHOOSE h : Eq(h))
  OBVIOUS
<1>10. Eq(g)
  <2> HIDE DEF Eq
  <2> QED
    BY <1>8, <1>9, Zenon
<1>11. FoldLeft(ParseLine, Blank, lines) = g[1..n]
  BY <1>1, <1>9, Zenon DEF FoldLeft, MapThenFoldSet
<1>12. Recurs(g, 1..n, Parses, Blank, LastOf(n), step)
  <2>1. g[{}] = Blank
    BY <1>1, <1>10
  <2>2. ASSUME NEW s \in SUBSET (1..n), s # {}, g[s \ {LastOf(n)[s]}] \in Parses
        PROVE  g[s] = step[LastOf(n)[s]][g[s \ {LastOf(n)[s]}]]
    <3>1. PICK m : m = Max(s) /\ m = LastOf(n)[s] /\ m \in s
      BY <1>7, <2>2
    <3>2. g[s] = ParseLine(g[s \ {m}], lines[m])
      BY <1>1, <1>10, <2>2, <3>1
    <3> QED
      BY <1>5, <2>2, <3>1, <3>2
  <2> QED
    BY <2>1, <2>2, Zenon DEF Recurs
<1>13. PICK f : Follows(f, n, Parses, Blank, step) /\ g[1..n] = f[n]
  <2>1. Blank \in Parses /\ n \in Nat
    BY <1>1, BlankTyped
  <2> HIDE DEF Eq
  <2>2. \E f : Follows(f, n, Parses, Blank, step) /\ g[1..n] = f[n]
    BY ONLY <1>4, <1>12, <2>1, LeftFoldFollows
  <2> QED
    BY <2>2
<1>14. Parsed(lines) = AtEnd(g[1..n])
  BY <1>11, Zenon DEF Parsed, AtEnd, Blank
<1> QED
  BY <1>1, <1>3, <1>13, <1>14, Zenon

LEMMA ParsedTyped ==
  ASSUME NEW lines \in Seq(LineRows)
  PROVE  Parsed(lines) \in Listings
<1>1. PICK f : /\ Follows(f, Len(lines), Parses, Blank, ParseSteps(lines))
               /\ Parsed(lines) = AtEnd(f[Len(lines)])
  BY ParsedFollows
<1>2. PICK st : st = f[Len(lines)] /\ st \in Parses
  <2>1. Len(lines) \in 0..Len(lines)
    OBVIOUS
  <2> QED
    BY <1>1, <2>1 DEF Follows
<1>3. st.db \in Listings /\ st.cur \in EntryRows
  BY <1>2 DEF Parses
<1> QED
  BY <1>1, <1>2, <1>3, PutKeeps DEF AtEnd

LEMMA DbStarts == DbInit => DbInv
  BY BlankTyped DEF DbInit, DbInv

LEMMA DbKeeps ==
  ASSUME DbInv, [DbStep]_dbVars
  PROVE  DbInv'
<1>1. entries \in Listings /\ file \in Seq(LineRows)
  BY DEF DbInv
<1>2. CASE \E a \in Apps, p \in Percents, i \in IssueLists : Record(a, p, i)
  <2>1. PICK a \in Apps, p \in Percents, i \in IssueLists : Record(a, p, i)
    BY <1>2
  <2>2. entries' = Put(entries, FromAnalysis(a, p, i)) /\ file' = file
    BY <2>1 DEF Record
  <2>3. entries' \in Listings
    BY <1>1, <2>2, AnalysisRecorded, PutKeeps
  <2> QED
    BY <1>1, <2>2, <2>3 DEF DbInv
<1>3. CASE SaveDb
  BY <1>1, <1>3, TextTyped DEF SaveDb, DbInv
<1>4. CASE OpenDb
  BY <1>1, <1>4, ParsedTyped DEF OpenDb, DbInv
<1>5. CASE \E n \in 1..Len(Text) : CrashInSave(n)
  <2>1. PICK n : n \in 1..Len(Text) /\ CrashInSave(n)
    BY <1>5
  <2>2. Text \in Seq(LineRows)
    BY <1>1, TextTyped
  <2>3. PICK t : t = Text
    OBVIOUS
  <2>4. PICK cut : /\ cut \in CutLines(t[n]) /\ file' = SubSeq(t, 1, n - 1) \o cut
                   /\ entries' = Parsed(SubSeq(t, 1, n - 1) \o cut)
    BY <2>1, <2>3, Zenon DEF CrashInSave
  <2>5. t[n] \in LineRows
    BY <2>1, <2>2, <2>3
  <2>6. cut \in Seq(LineRows)
    BY <2>4, <2>5, CutTyped
  <2>7. SubSeq(t, 1, n - 1) \in Seq(LineRows)
    BY <2>1, <2>2, <2>3
  <2>8. file' \in Seq(LineRows)
    BY <2>4, <2>6, <2>7
  <2>9. entries' \in Listings
    BY <2>4, <2>8, ParsedTyped
  <2> QED
    BY <2>8, <2>9 DEF DbInv
<1>6. CASE UNCHANGED dbVars
  BY <1>1, <1>6 DEF DbInv, dbVars
<1> QED
  BY <1>2, <1>3, <1>4, <1>5, <1>6, Zenon DEF DbStep

LEMMA DbTyped ==
  ASSUME DbInv
  PROVE  DbTypeOK
<1>1. entries \in Seq(EntryRows) /\ \A i, j \in DOMAIN entries : entries[i].app = entries[j].app => i = j
  BY DEF DbInv, Listings
<1>2. \A i \in DOMAIN entries : entries[i] \in EntryRows
  BY <1>1
<1> QED
  BY <1>1, <1>2 DEF DbTypeOK, EntryRows, Remarks, Titles

-----------------------------------------------------------------------------
(* Where a parse is after some lines.                                       *)
Reaches(lines, st) ==
  \E f : Follows(f, Len(lines), Parses, Blank, ParseSteps(lines)) /\ f[Len(lines)] = st

LEMMA ReachTyped ==
  ASSUME NEW lines \in Seq(LineRows), NEW st, Reaches(lines, st)
  PROVE  st \in Parses
<1>1. PICK f : Follows(f, Len(lines), Parses, Blank, ParseSteps(lines)) /\ f[Len(lines)] = st
  BY DEF Reaches
<1>2. Len(lines) \in 0..Len(lines)
  OBVIOUS
<1> QED
  BY <1>1, <1>2 DEF Follows

LEMMA ReachNone == Reaches(<< >>, Blank)
<1> DEFINE f == [i \in 0..0 |-> Blank]
<1>1. f \in [0..0 -> Parses] /\ f[0] = Blank
  BY BlankTyped
<1>2. Len(<< >>) = 0 /\ \A i \in 1..0 : FALSE
  OBVIOUS
<1> HIDE DEF f
<1>3. Follows(f, 0, Parses, Blank, ParseSteps(<< >>))
  BY <1>1, <1>2 DEF Follows
<1> QED
  BY <1>1, <1>2, <1>3 DEF Reaches

LEMMA ReachNext ==
  ASSUME NEW lines \in Seq(LineRows), NEW l \in LineRows, NEW st, Reaches(lines, st)
  PROVE  Reaches(Append(lines, l), ParseLine(st, l))
<1>1. PICK f : Follows(f, Len(lines), Parses, Blank, ParseSteps(lines)) /\ f[Len(lines)] = st
  BY DEF Reaches
<1>2. PICK n : n = Len(lines) /\ n \in Nat
  OBVIOUS
<1>3. PICK more : more = Append(lines, l)
  OBVIOUS
<1>4. Len(more) = n + 1 /\ more[n + 1] = l /\ \A i \in 1..n : more[i] = lines[i]
  BY <1>2, <1>3
<1>5. PICK new : new = ParseLine(st, l) /\ new \in Parses
  BY ReachTyped, ParseKeeps
<1>6. f \in [0..n -> Parses] /\ f[0] = Blank /\ f[n] = st
  BY <1>1, <1>2 DEF Follows
<1> DEFINE g == [i \in 0..n + 1 |-> IF i = n + 1 THEN new ELSE f[i]]
<1>7. /\ g \in [0..n + 1 -> Parses] /\ g[0] = Blank /\ g[n + 1] = new
      /\ \A i \in 0..n : g[i] = f[i]
  BY <1>2, <1>5, <1>6
<1> HIDE DEF g
<1>8. ASSUME NEW i \in 1..n + 1
      PROVE  g[i] = ParseSteps(more)[i][g[i - 1]]
  <2>1. g[i - 1] = f[i - 1] /\ f[i - 1] \in Parses
    <3>1. i - 1 \in 0..n
      BY <1>2
    <3> QED
      BY <1>6, <1>7, <3>1
  <2>2. ParseSteps(more)[i][g[i - 1]] = ParseLine(f[i - 1], more[i])
    BY <1>4, <2>1 DEF ParseSteps
  <2>3. CASE i = n + 1
    <3>1. i - 1 = n
      BY <1>2, <2>3
    <3>2. f[i - 1] = st /\ more[i] = l /\ g[i] = new
      BY <1>4, <1>6, <1>7, <2>3, <3>1
    <3>3. ParseSteps(more)[i][g[i - 1]] = ParseLine(st, l)
      BY <2>2, <3>2, Zenon
    <3> QED
      BY <1>5, <3>2, <3>3, Zenon
  <2>4. CASE i # n + 1
    <3>1. i \in 1..n /\ g[i] = f[i]
      BY <1>2, <1>7, <2>4
    <3>2. f[i] = ParseSteps(lines)[i][f[i - 1]]
      BY <1>1, <1>2, <3>1 DEF Follows
    <3>3. f[i] = ParseLine(f[i - 1], lines[i])
      BY <1>2, <2>1, <3>1, <3>2 DEF ParseSteps
    <3> QED
      BY <1>4, <2>2, <3>1, <3>3
  <2> QED
    BY <2>3, <2>4
<1>9. Follows(g, n + 1, Parses, Blank, ParseSteps(more))
  BY <1>7, <1>8 DEF Follows
<1> QED
  BY <1>3, <1>4, <1>5, <1>7, <1>9 DEF Reaches

LEMMA ReachParsed ==
  ASSUME NEW lines \in Seq(LineRows), NEW st, Reaches(lines, st)
  PROVE  Parsed(lines) = AtEnd(st)
<1>1. PICK n : n = Len(lines) /\ n \in Nat
  OBVIOUS
<1>2. PICK f : Follows(f, n, Parses, Blank, ParseSteps(lines)) /\ f[n] = st
  BY <1>1 DEF Reaches
<1>3. PICK g : Follows(g, n, Parses, Blank, ParseSteps(lines)) /\ Parsed(lines) = AtEnd(g[n])
  BY <1>1, ParsedFollows
<1> DEFINE good == {i \in 0..n : f[i] = g[i]}
<1>4. 0 \in good /\ \A i \in 1..n : i - 1 \in good => i \in good
  BY <1>1, <1>2, <1>3 DEF Follows
<1>5. \A i \in 0..n : i \in good
  <2> HIDE DEF good
  <2> QED
    BY <1>1, <1>4, Climb
<1>6. f[n] = g[n]
  BY <1>1, <1>5
<1> QED
  BY <1>2, <1>3, <1>6

-----------------------------------------------------------------------------
(* What the lines of an entry make of it.                                   *)
Reads(e) == IF e.app = Torn THEN Torn ELSE ReadBack[e.app]
Begun(e, m) ==
  [app |-> Reads(e), rating |-> IF m < 2 THEN 0 ELSE e.rating,
   issues |-> IF m < 2 THEN << >> ELSE SubSeq(e.issues, 1, m - 2)]
AfterLines(st, e, m) ==
  IF m = 0 THEN st ELSE [db |-> AtEnd(st), have |-> TRUE, cur |-> Begun(e, m)]

LEMMA LinesAre ==
  ASSUME NEW e \in EntryRows
  PROVE  /\ Len(e.issues) \in Nat /\ Len(e.issues) <= MaxIssues /\ MaxIssues \in Nat
         /\ e.issues \in Seq(IssueTexts \cup {Torn})
         /\ Lines(e) \in Seq(LineRows) /\ Len(Lines(e)) = Len(e.issues) + 2
         /\ Lines(e)[1] = [key |-> "app", v |-> e.app]
         /\ Lines(e)[2] = [key |-> "rating", v |-> e.rating]
         /\ \A i \in 1..Len(e.issues) : Lines(e)[i + 2] = [key |-> "issue", v |-> e.issues[i]]
<1>1. e.issues \in Remarks
  BY DEF EntryRows
<1>2. PICK texts : texts = e.issues /\ texts \in Seq(IssueTexts \cup {Torn}) /\ Len(texts) <= MaxIssues
  BY <1>1 DEF Remarks
<1>3. PICK n : n = Len(texts) /\ n \in Nat /\ DOMAIN texts = 1..n
  BY <1>2
<1>4. PICK head : head = <<[key |-> "app", v |-> e.app], [key |-> "rating", v |-> e.rating]>>
  OBVIOUS
<1>5. PICK tail : tail = [i \in DOMAIN texts |-> [key |-> "issue", v |-> texts[i]]]
  OBVIOUS
<1>6. Lines(e) = head \o tail
  BY <1>2, <1>4, <1>5, Zenon DEF Lines
<1>7. Len(tail) = n /\ tail \in Seq(IssueLines)
  <2>1. tail \in [1..n -> IssueLines]
    BY <1>2, <1>3, <1>5 DEF IssueLines
  <2> QED
    BY <1>3, <2>1
<1>8. Len(head) = 2 /\ head[1] = [key |-> "app", v |-> e.app] /\ head[2] = [key |-> "rating", v |-> e.rating]
  BY <1>4
<1>9. head \in Seq(LineRows) /\ tail \in Seq(LineRows)
  <2>1. e.app \in Titles /\ e.rating \in 0..3
    BY DEF EntryRows
  <2>2. [key |-> "app", v |-> e.app] \in LineRows /\ [key |-> "rating", v |-> e.rating] \in LineRows
    BY <2>1 DEF LineRows, AppLines, RatingLines
  <2>3. head \in Seq(LineRows)
    BY <1>4, <2>2
  <2>4. \A i \in 1..n : tail[i] \in LineRows
    BY <1>7 DEF LineRows
  <2>5. tail \in Seq(LineRows)
    BY <1>7, <2>4
  <2> QED
    BY <2>3, <2>5
<1>10. PICK all : all = head \o tail
  OBVIOUS
<1>11. Len(all) = n + 2 /\ all[1] = head[1] /\ all[2] = head[2] /\ \A i \in 1..n : all[i + 2] = tail[i]
  <2>1. /\ Len(all) = 2 + n
        /\ \A i \in 1..(2 + n) : all[i] = IF i <= 2 THEN head[i] ELSE tail[i - 2]
    <3>1. /\ Len(head \o tail) = Len(head) + Len(tail)
          /\ \A i \in 1..Len(head) + Len(tail) :
               (head \o tail)[i] = IF i <= Len(head) THEN head[i] ELSE tail[i - Len(head)]
      BY <1>9, ConcatProperties, Zenon
    <3> QED
      BY ONLY <1>3, <1>7, <1>8, <1>10, <3>1
  <2>2. all[1] = head[1] /\ all[2] = head[2]
    BY <1>3, <2>1
  <2>3. ASSUME NEW i \in 1..n
        PROVE  all[i + 2] = tail[i]
    BY <1>3, <2>1
  <2> QED
    BY <1>3, <2>1, <2>2, <2>3
<1>12. \A i \in 1..n : tail[i] = [key |-> "issue", v |-> texts[i]]
  BY <1>3, <1>5
<1>13. Lines(e) \in Seq(LineRows) /\ MaxIssues \in Nat
  BY LinesTyped, DbBounds
<1> QED
  BY <1>2, <1>3, <1>6, <1>8, <1>10, <1>11, <1>12, <1>13

LEMMA FrontTyped ==
  ASSUME NEW e \in EntryRows, NEW m \in 1..(Len(e.issues) + 2)
  PROVE  Begun(e, m) \in EntryRows
<1>1. e.issues \in Seq(IssueTexts \cup {Torn}) /\ Len(e.issues) <= MaxIssues /\ MaxIssues \in Nat
  BY LinesAre
<1>2. Reads(e) \in Titles /\ e.rating \in 0..3
  BY DbBounds DEF EntryRows, Titles, Reads
<1>3. PICK texts : texts = IF m < 2 THEN << >> ELSE SubSeq(e.issues, 1, m - 2)
  OBVIOUS
<1>4. texts \in Remarks
  <2>1. CASE m < 2
    BY <1>3, <2>1, NoRemarks
  <2>2. CASE ~(m < 2)
    <3>1. PICK k : k = m - 2 /\ k \in Nat /\ k <= Len(e.issues)
      BY <1>1, <2>2
    <3>2. SubSeq(e.issues, 1, k) \in Seq(IssueTexts \cup {Torn}) /\ Len(SubSeq(e.issues, 1, k)) = k
      BY ONLY <1>1, <3>1, SubSeqProperties
    <3>3. texts = SubSeq(e.issues, 1, k)
      BY <1>3, <2>2, <3>1
    <3> QED
      BY <1>1, <3>1, <3>2, <3>3 DEF Remarks
  <2> QED
    BY <2>1, <2>2
<1>5. Begun(e, m) = [app |-> Reads(e), rating |-> IF m < 2 THEN 0 ELSE e.rating, issues |-> texts]
  BY <1>3, Zenon DEF Begun
<1> QED
  BY <1>2, <1>4, <1>5 DEF EntryRows

LEMMA LineRead ==
  ASSUME NEW st \in Parses, NEW e \in EntryRows, NEW m \in 1..(Len(e.issues) + 2)
  PROVE  ParseLine(AfterLines(st, e, m - 1), Lines(e)[m]) = AfterLines(st, e, m)
<1>1. /\ Len(e.issues) \in Nat /\ Len(e.issues) <= MaxIssues /\ MaxIssues \in Nat
      /\ e.issues \in Seq(IssueTexts \cup {Torn})
      /\ Lines(e)[1] = [key |-> "app", v |-> e.app] /\ Lines(e)[2] = [key |-> "rating", v |-> e.rating]
      /\ \A i \in 1..Len(e.issues) : Lines(e)[i + 2] = [key |-> "issue", v |-> e.issues[i]]
  BY LinesAre
<1>2. PICK l : l = Lines(e)[m]
  OBVIOUS
<1>3. CASE m = 1
  <2>1. l.key = "app" /\ l.v = e.app /\ AfterLines(st, e, m - 1) = st
    BY <1>1, <1>2, <1>3 DEF AfterLines
  <2>2. ParseLine(st, l) = Started(st, Reads(e))
    BY <2>1 DEF ParseLine, Reads
  <2>3. Begun(e, 1) = [app |-> Reads(e), rating |-> 0, issues |-> << >>]
    BY DEF Begun
  <2>4. Started(st, Reads(e)) = [db |-> AtEnd(st), have |-> TRUE, cur |-> Begun(e, 1)]
    BY <2>3, Zenon DEF Started, AtEnd
  <2>5. AfterLines(st, e, 1) = [db |-> AtEnd(st), have |-> TRUE, cur |-> Begun(e, 1)]
    BY DEF AfterLines
  <2> QED
    BY <1>2, <1>3, <2>1, <2>2, <2>4, <2>5
<1>4. CASE m = 2
  <2>1. l.key = "rating" /\ l.v = e.rating
    BY <1>1, <1>2, <1>4
  <2>2. PICK was : was = AfterLines(st, e, 1)
    OBVIOUS
  <2>3. was = [db |-> AtEnd(st), have |-> TRUE,
               cur |-> [app |-> Reads(e), rating |-> 0, issues |-> << >>]]
    BY <2>2 DEF AfterLines, Begun
  <2>4. ParseLine(was, l) = [was EXCEPT !.cur.rating = e.rating]
    BY <2>1 DEF ParseLine
  <2>5. SubSeq(e.issues, 1, 0) = << >>
    BY <1>1
  <2>6. Begun(e, 2) = [app |-> Reads(e), rating |-> e.rating, issues |-> << >>]
    BY <2>5 DEF Begun
  <2>7. AfterLines(st, e, 2) = [db |-> AtEnd(st), have |-> TRUE,
                           cur |-> [app |-> Reads(e), rating |-> e.rating, issues |-> << >>]]
    <3>1. AfterLines(st, e, 2) = [db |-> AtEnd(st), have |-> TRUE, cur |-> Begun(e, 2)]
      BY DEF AfterLines
    <3> QED
      BY <2>6, <3>1, Zenon
  <2>8. ParseLine(was, l) = AfterLines(st, e, 2)
    BY <2>3, <2>4, <2>7
  <2> QED
    BY <1>2, <1>4, <2>2, <2>8
<1>5. CASE m > 2
  <2>1. PICK i : i = m - 2 /\ i \in 1..Len(e.issues) /\ m = i + 2
    BY <1>1, <1>5
  <2>2. l.key = "issue" /\ l.v = e.issues[i]
    <3>1. Lines(e)[i + 2] = [key |-> "issue", v |-> e.issues[i]]
      BY <1>1, <2>1
    <3>2. l = [key |-> "issue", v |-> e.issues[i]]
      BY <1>2, <2>1, <3>1
    <3> QED
      BY <3>2
  <2>3. PICK texts : texts = SubSeq(e.issues, 1, i - 1)
    OBVIOUS
  <2>4. PICK was : was = AfterLines(st, e, m - 1)
    OBVIOUS
  <2>5. was = [db |-> AtEnd(st), have |-> TRUE,
               cur |-> [app |-> Reads(e), rating |-> e.rating, issues |-> texts]]
    <3>1. m - 1 # 0 /\ ~(m - 1 < 2) /\ (m - 1) - 2 = i - 1
      BY <1>1, <2>1
    <3> QED
      BY <2>3, <2>4, <3>1 DEF AfterLines, Begun
  <2>6. Len(texts) = i - 1 /\ Append(texts, e.issues[i]) = SubSeq(e.issues, 1, i)
    BY ONLY <1>1, <2>1, <2>3, SubSeqProperties
  <2>7. Len(was.cur.issues) < MaxIssues
    BY <1>1, <2>1, <2>5, <2>6
  <2>8. ParseLine(was, l) = [was EXCEPT !.cur.issues = Append(@, e.issues[i])]
    BY <2>2, <2>7 DEF ParseLine
  <2>9. AfterLines(st, e, m) = [db |-> AtEnd(st), have |-> TRUE,
                           cur |-> [app |-> Reads(e), rating |-> e.rating,
                                    issues |-> SubSeq(e.issues, 1, i)]]
    <3>1. m # 0 /\ ~(m < 2) /\ m - 2 = i
      BY <1>1, <2>1
    <3> QED
      BY <3>1 DEF AfterLines, Begun
  <2>10. ParseLine(was, l) = AfterLines(st, e, m)
    BY <2>5, <2>6, <2>8, <2>9
  <2> QED
    BY <1>2, <2>4, <2>10
<1> QED
  BY <1>1, <1>3, <1>4, <1>5

(* Any front of the lines of an entry, after whatever came before.          *)
LEMMA PartRead ==
  ASSUME NEW p \in Seq(LineRows), NEW st, Reaches(p, st), NEW e \in EntryRows,
         NEW m \in 0..Len(Lines(e))
  PROVE  /\ p \o SubSeq(Lines(e), 1, m) \in Seq(LineRows)
         /\ Reaches(p \o SubSeq(Lines(e), 1, m), AfterLines(st, e, m))
<1>1. st \in Parses
  BY ReachTyped
<1>2. PICK t : t = Lines(e) /\ t \in Seq(LineRows) /\ Len(t) = Len(e.issues) + 2
  BY LinesAre
<1>3. PICK n : n = Len(t) /\ n \in Nat
  BY <1>2
<1> DEFINE good == {k \in 0..n : Reaches(p \o SubSeq(t, 1, k), AfterLines(st, e, k))}
<1>4. 0 \in good
  <2>1. p \o SubSeq(t, 1, 0) = p
    BY <1>2
  <2>2. AfterLines(st, e, 0) = st
    BY DEF AfterLines
  <2>3. Reaches(p \o SubSeq(t, 1, 0), AfterLines(st, e, 0))
    BY <2>1, <2>2, Zenon
  <2> QED
    BY <1>3, <2>3
<1>5. ASSUME NEW k \in 1..n, k - 1 \in good
      PROVE  k \in good
  <2>1. PICK q : q = p \o SubSeq(t, 1, k - 1)
    OBVIOUS
  <2>2. q \in Seq(LineRows) /\ t[k] \in LineRows
    BY <1>2, <1>3, <2>1
  <2>3. Reaches(Append(q, t[k]), ParseLine(AfterLines(st, e, k - 1), t[k]))
    BY <1>5, <2>1, <2>2, ReachNext
  <2>4. Append(q, t[k]) = p \o SubSeq(t, 1, k)
    BY <1>2, <1>3, <2>1, LineAppended
  <2>5. ParseLine(AfterLines(st, e, k - 1), t[k]) = AfterLines(st, e, k)
    BY <1>1, <1>2, <1>3, LineRead
  <2> QED
    BY <2>3, <2>4, <2>5
<1>6. \A k \in 0..n : k \in good
  <2> HIDE DEF good
  <2> QED
    BY <1>3, <1>4, <1>5, Climb
<1>7. p \o SubSeq(t, 1, m) \in Seq(LineRows)
  BY <1>2
<1> QED
  BY <1>2, <1>3, <1>6, <1>7

-----------------------------------------------------------------------------
(* The table that the text of another is read as, entry by entry.           *)
As(e) == [app |-> Reads(e), rating |-> e.rating, issues |-> e.issues]
Shadows(t, db) ==
  /\ t \in [0..Len(db) -> Listings] /\ t[0] = << >>
  /\ \A k \in 1..Len(db) : t[k] = Put(t[k - 1], As(db[k]))

LEMMA AsTyped ==
  ASSUME NEW e \in EntryRows
  PROVE  As(e) \in EntryRows /\ (Reads(e) = e.app => As(e) = e)
<1>1. Reads(e) \in Titles
  BY DbBounds DEF EntryRows, Titles, Reads
<1> QED
  BY <1>1 DEF EntryRows, As

LEMMA RowsOf ==
  ASSUME NEW db \in Listings
  PROVE  /\ Len(db) \in Nat /\ DOMAIN db = 1..Len(db)
         /\ \A i \in 1..Len(db) : db[i] \in EntryRows
         /\ \A i, j \in 1..Len(db) : db[i].app = db[j].app => i = j
<1>1. db \in Seq(EntryRows) /\ \A i, j \in DOMAIN db : db[i].app = db[j].app => i = j
  BY DEF Listings
<1>2. Len(db) \in Nat /\ DOMAIN db = 1..Len(db)
  BY <1>1
<1>3. \A i \in 1..Len(db) : db[i] \in EntryRows
  BY <1>1
<1> QED
  BY <1>1, <1>2, <1>3

LEMMA ShadowsExist ==
  ASSUME NEW db \in Listings
  PROVE  \E t : Shadows(t, db)
<1>1. PICK n : n = Len(db) /\ n \in Nat
  BY RowsOf
<1>2. PICK step : step = [k \in 1..n |-> [u \in Listings |-> Put(u, As(db[k]))]]
  OBVIOUS
<1>3. step \in [1..n -> [Listings -> Listings]]
  <2>1. \A k \in 1..n : As(db[k]) \in EntryRows
    BY <1>1, RowsOf, AsTyped
  <2>2. \A k \in 1..n : \A u \in Listings : Put(u, As(db[k])) \in Listings
    BY <2>1, PutKeeps
  <2> QED
    BY <1>2, <2>2
<1>4. Steps(n, Listings, << >>, step)
  BY <1>1, <1>3, BlankTyped, Zenon DEF Steps
<1>5. PICK t : Follows(t, n, Listings, << >>, step)
  BY <1>4, RecursionExists, Zenon
<1>6. t \in [0..n -> Listings] /\ t[0] = << >> /\ \A k \in 1..n : t[k] = step[k][t[k - 1]]
  BY <1>5 DEF Follows
<1>7. ASSUME NEW k \in 1..n
      PROVE  t[k] = Put(t[k - 1], As(db[k]))
  <2>1. k - 1 \in 0..n
    BY <1>1
  <2>2. t[k - 1] \in Listings
    BY <1>6, <2>1
  <2> QED
    BY <1>2, <1>6, <2>2
<1> QED
  BY <1>1, <1>6, <1>7 DEF Shadows

LEMMA PagesRead ==
  ASSUME NEW db \in Listings, NEW f, Sheets(f, db), NEW t, Shadows(t, db), NEW k \in 0..Len(db)
  PROVE  \E st : Reaches(f[k], st) /\ AtEnd(st) = t[k]
<1>1. PICK n : n = Len(db) /\ n \in Nat
  BY RowsOf
<1>2. f \in [0..n -> Seq(LineRows)] /\ f[0] = << >> /\ \A i \in 1..n : f[i] = f[i - 1] \o Lines(db[i])
  BY <1>1 DEF Sheets
<1>3. t[0] = << >> /\ \A i \in 1..n : t[i] = Put(t[i - 1], As(db[i]))
  BY <1>1 DEF Shadows
<1> DEFINE good == {i \in 0..n : \E st : Reaches(f[i], st) /\ AtEnd(st) = t[i]}
<1>4. 0 \in good
  <2>1. AtEnd(Blank) = << >>
    BY DEF AtEnd, Blank
  <2>2. Reaches(f[0], Blank) /\ AtEnd(Blank) = t[0]
    BY <1>2, <1>3, <2>1, ReachNone, Zenon
  <2> QED
    BY <1>1, <2>2
<1>5. ASSUME NEW i \in 1..n, i - 1 \in good
      PROVE  i \in good
  <2>1. PICK st : Reaches(f[i - 1], st) /\ AtEnd(st) = t[i - 1]
    BY <1>5
  <2>2. PICK e : e = db[i] /\ e \in EntryRows
    BY <1>1, RowsOf
  <2>3. PICK p : p = f[i - 1]
    OBVIOUS
  <2>4. p \in Seq(LineRows)
    BY <1>2, <1>5, <2>3
  <2>5. PICK l : l = Lines(e) /\ l \in Seq(LineRows) /\ Len(l) = Len(e.issues) + 2
    BY <2>2, LinesAre
  <2>6. e.issues \in Seq(IssueTexts \cup {Torn}) /\ Len(e.issues) \in Nat
    BY <2>2, LinesAre
  <2>7. PICK m : m = Len(l) /\ m \in 0..Len(l) /\ m = Len(e.issues) + 2
    BY <2>5
  <2>8. Reaches(p \o SubSeq(l, 1, m), AfterLines(st, e, m))
    BY <2>1, <2>2, <2>3, <2>4, <2>5, <2>7, PartRead
  <2>9. SubSeq(l, 1, m) = l
    BY <2>5, <2>7
  <2>10. SubSeq(e.issues, 1, m - 2) = e.issues
    BY <2>6, <2>7
  <2>11. AfterLines(st, e, m) = [db |-> AtEnd(st), have |-> TRUE, cur |-> As(e)]
    <3>1. m # 0 /\ ~(m < 2)
      BY <2>6, <2>7
    <3>2. Begun(e, m) = As(e)
      BY <2>10, <3>1 DEF Begun, As
    <3> QED
      BY <3>1, <3>2 DEF AfterLines
  <2>12. AtEnd(AfterLines(st, e, m)) = t[i]
    BY <1>3, <2>1, <2>2, <2>11 DEF AtEnd
  <2>13. f[i] = p \o l
    BY <1>2, <2>2, <2>3, <2>5
  <2>14. Reaches(f[i], AfterLines(st, e, m))
    BY <2>8, <2>9, <2>13, Zenon
  <2> QED
    BY <2>12, <2>14
<1>6. \A i \in 0..n : i \in good
  <2> HIDE DEF good
  <2> QED
    BY <1>1, <1>4, <1>5, Climb
<1> QED
  BY <1>1, <1>6

-----------------------------------------------------------------------------
(* A save that is cut short: what its last entry is read as.                *)
CutShort(q, e) ==
  \/ q.rating = 0 /\ q.issues = << >>
  \/ q.app = Reads(e) /\ Shorter(q, e)

LEMMA FrontShort ==
  ASSUME NEW e \in EntryRows, NEW m \in 1..(Len(e.issues) + 2)
  PROVE  CutShort(Begun(e, m), e)
<1>1. e.issues \in Seq(IssueTexts \cup {Torn}) /\ Len(e.issues) \in Nat
  BY LinesAre
<1>2. CASE m < 2
  BY <1>2 DEF Begun, CutShort
<1>3. CASE ~(m < 2)
  <2>1. PICK i : i = m - 2 /\ i \in 0..Len(e.issues)
    BY <1>1, <1>3
  <2>2. PICK texts : texts = SubSeq(e.issues, 1, i)
    OBVIOUS
  <2>3. Len(texts) = i /\ DOMAIN texts = 1..i /\ \A h \in 1..i : texts[h] = e.issues[h]
    BY <1>1, <2>1, <2>2
  <2>4. Begun(e, m) = [app |-> Reads(e), rating |-> e.rating, issues |-> texts]
    BY <1>3, <2>1, <2>2 DEF Begun
  <2> QED
    BY <2>1, <2>3, <2>4 DEF CutShort, Shorter
<1> QED
  BY <1>2, <1>3

LEMMA CutLineRead ==
  ASSUME NEW st \in Parses, NEW e \in EntryRows, NEW m \in 1..(Len(e.issues) + 2),
         NEW cut \in CutLines(Lines(e)[m]), cut # << >>
  PROVE  \E c \in LineRows, q \in EntryRows :
           /\ cut = <<c>> /\ CutShort(q, e)
           /\ ParseLine(AfterLines(st, e, m - 1), c) = [db |-> AtEnd(st), have |-> TRUE, cur |-> q]
<1>1. /\ Len(e.issues) \in Nat /\ Len(e.issues) <= MaxIssues /\ MaxIssues \in Nat
      /\ e.issues \in Seq(IssueTexts \cup {Torn})
      /\ Lines(e) \in Seq(LineRows) /\ Len(Lines(e)) = Len(e.issues) + 2
      /\ Lines(e)[1] = [key |-> "app", v |-> e.app] /\ Lines(e)[2] = [key |-> "rating", v |-> e.rating]
      /\ \A i \in 1..Len(e.issues) : Lines(e)[i + 2] = [key |-> "issue", v |-> e.issues[i]]
  BY LinesAre
<1>2. PICK l : l = Lines(e)[m] /\ l \in LineRows
  BY <1>1
<1>3. PICK v : cut = <<[l EXCEPT !.v = v]>>
  BY <1>2, Zenon DEF CutLines
<1>4. PICK c : c = [l EXCEPT !.v = v]
  OBVIOUS
<1>5. c \in LineRows
  <2>1. <<c>> \in Seq(LineRows)
    BY <1>2, <1>3, <1>4, CutTyped
  <2> QED
    BY <2>1
<1>6. PICK was : was = AfterLines(st, e, m - 1)
  OBVIOUS
<1>7. was \in Parses
  <2>1. CASE m = 1
    BY <1>6, <2>1 DEF AfterLines
  <2>2. CASE m # 1
    <3>1. m - 1 \in 1..(Len(e.issues) + 2) /\ m - 1 # 0
      BY <1>1, <2>2
    <3>2. Begun(e, m - 1) \in EntryRows
      BY <3>1, FrontTyped
    <3>3. AtEnd(st) \in Listings
      BY PutKeeps DEF AtEnd, Parses
    <3> QED
      BY <1>6, <3>1, <3>2, <3>3 DEF AfterLines, Parses
  <2> QED
    BY <2>1, <2>2
<1>8. PICK new : new = ParseLine(was, c) /\ new \in Parses
  BY <1>5, <1>7, ParseKeeps
<1>9. new.cur \in EntryRows
  BY <1>8 DEF Parses
<1>10. SUFFICES new = [db |-> AtEnd(st), have |-> TRUE, cur |-> new.cur] /\ CutShort(new.cur, e)
  BY <1>3, <1>4, <1>5, <1>6, <1>8, <1>9
<1>11. CASE m = 1
  <2>1. c.key = "app" /\ was = st
    BY <1>1, <1>2, <1>4, <1>6, <1>11 DEF AfterLines
  <2>2. PICK name : name = IF c.v = Torn THEN Torn ELSE ReadBack[c.v]
    OBVIOUS
  <2>3. new = Started(st, name)
    BY <1>8, <2>1, <2>2 DEF ParseLine
  <2>4. new = [db |-> AtEnd(st), have |-> TRUE, cur |-> [app |-> name, rating |-> 0, issues |-> << >>]]
    BY <2>3, Zenon DEF Started, AtEnd
  <2> QED
    BY <2>4 DEF CutShort
<1>12. CASE m = 2
  <2>1. c.key = "rating"
    BY <1>1, <1>2, <1>4, <1>12
  <2>2. was = [db |-> AtEnd(st), have |-> TRUE, cur |-> [app |-> Reads(e), rating |-> 0, issues |-> << >>]]
    BY <1>6, <1>12 DEF AfterLines, Begun
  <2>3. new = [was EXCEPT !.cur.rating = c.v]
    BY <1>8, <2>1 DEF ParseLine
  <2>4. c.v = 0
    <3>1. l.key = "rating"
      BY <1>1, <1>2, <1>12
    <3>2. cut \in {<<[l EXCEPT !.v = x]>> : x \in {0}}
      BY <1>2, <3>1 DEF CutLines
    <3>3. cut = <<[l EXCEPT !.v = 0]>>
      BY <3>2
    <3>4. cut[1] = c /\ cut[1] = [l EXCEPT !.v = 0]
      BY <1>3, <1>4, <3>3
    <3> QED
      BY <1>1, <1>2, <1>12, <3>4
  <2>5. new = [db |-> AtEnd(st), have |-> TRUE, cur |-> [app |-> Reads(e), rating |-> 0, issues |-> << >>]]
    BY <2>2, <2>3, <2>4
  <2> QED
    BY <2>5 DEF CutShort
<1>13. CASE m > 2
  <2>1. PICK i : i = m - 2 /\ i \in 1..Len(e.issues) /\ m = i + 2
    BY <1>1, <1>13
  <2>2. l = [key |-> "issue", v |-> e.issues[i]]
    <3>1. Lines(e)[i + 2] = [key |-> "issue", v |-> e.issues[i]]
      BY <1>1, <2>1
    <3> QED
      BY <1>2, <2>1, <3>1
  <2>3. c.key = "issue"
    BY <1>4, <2>2
  <2>4. c.v = Torn
    <3>1. cut \in {<<[l EXCEPT !.v = x]>> : x \in {Torn}}
      BY <1>2, <2>2 DEF CutLines
    <3>2. cut = <<[l EXCEPT !.v = Torn]>>
      BY <3>1
    <3>3. cut[1] = c /\ cut[1] = [l EXCEPT !.v = Torn]
      BY <1>3, <1>4, <3>2
    <3> QED
      BY <2>2, <3>3
  <2>5. PICK texts : texts = SubSeq(e.issues, 1, i - 1)
    OBVIOUS
  <2>6. was = [db |-> AtEnd(st), have |-> TRUE,
               cur |-> [app |-> Reads(e), rating |-> e.rating, issues |-> texts]]
    <3>1. m - 1 # 0 /\ ~(m - 1 < 2) /\ (m - 1) - 2 = i - 1
      BY <1>1, <2>1
    <3> QED
      BY <1>6, <2>5, <3>1 DEF AfterLines, Begun
  <2>7. texts \in Seq(IssueTexts \cup {Torn}) /\ Len(texts) = i - 1 /\ \A h \in 1..i - 1 : texts[h] = e.issues[h]
    BY <1>1, <2>1, <2>5
  <2>8. Len(was.cur.issues) < MaxIssues
    BY <1>1, <2>1, <2>6, <2>7
  <2>9. new = [was EXCEPT !.cur.issues = Append(@, Torn)]
    BY <1>8, <2>3, <2>4, <2>8 DEF ParseLine
  <2>10. PICK more : more = Append(texts, Torn)
    OBVIOUS
  <2>11. new = [db |-> AtEnd(st), have |-> TRUE,
                cur |-> [app |-> Reads(e), rating |-> e.rating, issues |-> more]]
    BY <2>6, <2>9, <2>10
  <2>12. /\ Len(more) = i /\ DOMAIN more = 1..i /\ more[i] = Torn
         /\ \A h \in 1..i - 1 : more[h] = e.issues[h]
    BY <2>1, <2>7, <2>10
  <2>13. \A h \in 1..i : more[h] \in {Torn, e.issues[h]}
    BY <1>1, <2>1, <2>12
  <2> QED
    BY <1>1, <2>1, <2>11, <2>12, <2>13 DEF CutShort, Shorter
<1> QED
  BY <1>1, <1>11, <1>12, <1>13

(* Where in the text it was cut: in a line of an entry.                     *)
Begins(a, w) == Len(a) <= Len(w) /\ \A i \in 1..Len(a) : w[i] = a[i]

LEMMA PagesBegin ==
  ASSUME NEW db \in Listings, NEW f, Sheets(f, db), NEW k \in 0..Len(db)
  PROVE  Begins(f[k], f[Len(db)])
<1>1. PICK n : n = Len(db) /\ n \in Nat
  BY RowsOf
<1>2. f \in [0..n -> Seq(LineRows)] /\ \A i \in 1..n : f[i] = f[i - 1] \o Lines(db[i])
  BY <1>1 DEF Sheets
<1>3. PICK a : a = f[k] /\ a \in Seq(LineRows)
  BY <1>1, <1>2
<1> DEFINE good == {i \in 0..n : i >= k => Begins(a, f[i])}
<1>4. 0 \in good
  BY <1>1, <1>3 DEF Begins
<1>5. ASSUME NEW i \in 1..n, i - 1 \in good
      PROVE  i \in good
  <2>1. CASE i < k
    BY <1>1, <2>1
  <2>2. CASE i = k
    BY <1>1, <1>3, <2>2 DEF Begins
  <2>3. CASE i > k
    <3>1. i - 1 >= k /\ i - 1 \in 0..n
      BY <1>1, <2>3
    <3>2. Begins(a, f[i - 1])
      BY <1>5, <3>1
    <3>3. PICK b : b = f[i - 1] /\ b \in Seq(LineRows)
      BY <1>2, <3>1
    <3>4. PICK l : l = Lines(db[i]) /\ l \in Seq(LineRows)
      BY <1>1, RowsOf, LinesTyped
    <3>5. f[i] = b \o l
      BY <1>2, <3>3, <3>4
    <3>6. PICK w : w = b \o l
      OBVIOUS
    <3>7. /\ Len(w) = Len(b) + Len(l) /\ Len(b) \in Nat /\ Len(l) \in Nat
          /\ \A h \in 1..Len(b) : w[h] = b[h]
      <4>1. b \in Seq(LineRows) /\ l \in Seq(LineRows)
        BY <3>3, <3>4
      <4> QED
        BY ONLY <4>1, <3>6
    <3>8. Len(a) <= Len(b) /\ \A h \in 1..Len(a) : b[h] = a[h]
      BY <3>2, <3>3 DEF Begins
    <3>9. Len(a) \in Nat
      BY <1>3
    <3>10. Begins(a, w)
      BY ONLY <3>7, <3>8, <3>9 DEF Begins
    <3>11. Begins(a, f[i])
      BY <3>5, <3>6, <3>10, Zenon
    <3> QED
      BY <1>1, <3>11
  <2> QED
    BY <1>1, <2>1, <2>2, <2>3
<1>6. \A i \in 0..n : i \in good
  <2> HIDE DEF good
  <2> QED
    BY <1>1, <1>4, <1>5, Climb
<1>7. n \in good /\ n >= k
  BY <1>1, <1>6
<1> QED
  BY <1>1, <1>3, <1>7

LEMMA EntryOfLine ==
  ASSUME NEW db \in Listings, NEW f, Sheets(f, db), NEW n \in 1..Len(f[Len(db)])
  PROVE  \E k \in 1..Len(db) : Len(f[k - 1]) < n /\ n <= Len(f[k])
<1>1. PICK c : c = Len(db) /\ c \in Nat
  BY RowsOf
<1>2. f \in [0..c -> Seq(LineRows)] /\ f[0] = << >>
  BY <1>1 DEF Sheets
<1>3. \A k \in 0..c : Len(f[k]) \in Nat
  BY <1>2
<1>4. PICK s : s = {k \in 0..c : n <= Len(f[k])}
  OBVIOUS
<1>5. c \in s
  BY <1>1, <1>3, <1>4
<1>6. PICK k \in s : \A h \in s : k <= h
  <2>1. s \subseteq Nat /\ s # {}
    BY <1>1, <1>4, <1>5
  <2> QED
    BY <2>1, MinIsMember
<1>7. k \in 0..c /\ n <= Len(f[k])
  BY <1>4
<1>8. Len(f[0]) = 0 /\ n >= 1
  BY <1>2
<1>9. k # 0
  BY <1>7, <1>8
<1>10. k \in 1..c /\ k - 1 \in 0..c
  BY <1>1, <1>7, <1>9
<1>11. k - 1 \notin s
  BY <1>6, <1>10
<1>12. Len(f[k - 1]) < n
  BY <1>1, <1>3, <1>4, <1>10, <1>11
<1> QED
  BY <1>1, <1>7, <1>10, <1>12

Splits(w, n, a, b) ==
  \E m \in 1..Len(b) : w[n] = b[m] /\ SubSeq(w, 1, n - 1) = a \o SubSeq(b, 1, m - 1)

LEMMA FrontOf ==
  ASSUME NEW S, NEW a \in Seq(S), NEW b \in Seq(S), NEW w \in Seq(S), NEW ab, ab = a \o b,
         Begins(ab, w), NEW n \in Nat, Len(a) < n, n <= Len(ab)
  PROVE  Splits(w, n, a, b)
<1>2. Len(ab) = Len(a) + Len(b) /\ \A i \in 1..Len(b) : ab[Len(a) + i] = b[i]
  OBVIOUS
<1>3. PICK m : m = n - Len(a) /\ m \in 1..Len(b)
  BY <1>2
<1>4. w[n] = b[m]
  BY <1>2, <1>3 DEF Begins
<1>5. PICK u : u = SubSeq(b, 1, m - 1)
  OBVIOUS
<1>6. u \in Seq(S) /\ Len(u) = m - 1 /\ \A i \in 1..m - 1 : u[i] = b[i]
  BY <1>3, <1>5
<1>7. PICK x : x = SubSeq(w, 1, n - 1)
  OBVIOUS
<1>8. n <= Len(w)
  BY <1>2 DEF Begins
<1>9. x \in Seq(S) /\ Len(x) = n - 1 /\ \A i \in 1..n - 1 : x[i] = w[i]
  BY <1>3, <1>7, <1>8
<1>10. PICK y : y = a \o u
  OBVIOUS
<1>11. /\ y \in Seq(S) /\ Len(y) = Len(a) + Len(u)
       /\ \A i \in 1..Len(a) : y[i] = a[i]
       /\ \A i \in 1..Len(u) : y[Len(a) + i] = u[i]
  <2>1. u \in Seq(S) /\ a \in Seq(S)
    BY <1>6
  <2> QED
    BY ONLY <1>10, <2>1, Joined
<1>12. Len(x) = Len(y)
  BY <1>3, <1>6, <1>9, <1>11
<1>13. ASSUME NEW i \in 1..Len(x)
       PROVE  x[i] = y[i]
  <2>1. i \in 1..n - 1 /\ i \in 1..Len(ab) /\ x[i] = ab[i]
    <3>1. i \in 1..n - 1
      BY <1>9
    <3>2. i \in 1..Len(ab)
      BY <1>8, <1>9, <3>1
    <3> QED
      BY <1>2, <1>3, <1>8, <1>9, <3>1, <3>2 DEF Begins
  <2>2. CASE i <= Len(a)
    <3>1. ab[i] = a[i]
      BY <2>2
    <3> QED
      BY <1>11, <2>1, <2>2, <3>1
  <2>3. CASE i > Len(a)
    <3>1. PICK h : h = i - Len(a) /\ h \in 1..m - 1 /\ i = Len(a) + h
      BY <1>3, <2>1, <2>3
    <3>2. h \in 1..Len(b) /\ h \in 1..Len(u)
      BY ONLY <1>3, <1>6, <3>1, Len(b) \in Nat
    <3>3. ab[i] = b[h] /\ y[i] = u[h] /\ u[h] = b[h]
      BY <1>2, <1>6, <1>11, <3>1, <3>2
    <3> QED
      BY <2>1, <3>3
  <2> QED
    BY <2>1, <2>2, <2>3
<1>14. x = y
  BY ONLY <1>9, <1>11, <1>12, <1>13
<1> QED
  BY <1>3, <1>4, <1>5, <1>7, <1>10, <1>14 DEF Splits

IsCut(lines, w) == \E n \in DOMAIN w : \E cut \in CutLines(w[n]) : lines = SubSeq(w, 1, n - 1) \o cut

LEMMA CutRead ==
  ASSUME NEW db \in Listings, NEW t, Shadows(t, db), NEW lines, IsCut(lines, Written(db))
  PROVE  \E k \in 1..Len(db) :
           \/ Parsed(lines) = t[k - 1]
           \/ \E q \in EntryRows : Parsed(lines) = Put(t[k - 1], q) /\ CutShort(q, db[k])
<1>1. PICK f : Sheets(f, db) /\ Written(db) = f[Len(db)] /\ Written(db) \in Seq(LineRows)
  BY WrittenInPages
<1>2. PICK w : w = Written(db) /\ w \in Seq(LineRows)
  BY <1>1
<1>3. PICK n \in DOMAIN w : \E cut \in CutLines(w[n]) : lines = SubSeq(w, 1, n - 1) \o cut
  BY <1>2, Zenon DEF IsCut
<1>4. PICK cut \in CutLines(w[n]) : lines = SubSeq(w, 1, n - 1) \o cut
  BY <1>3
<1>5. n \in 1..Len(f[Len(db)]) /\ n \in Nat /\ Len(db) \in Nat
  BY <1>1, <1>2, RowsOf
<1>6. PICK k \in 1..Len(db) : Len(f[k - 1]) < n /\ n <= Len(f[k])
  BY <1>1, <1>5, EntryOfLine
<1>7. PICK e : e = db[k] /\ e \in EntryRows
  BY RowsOf
<1>8. k - 1 \in 0..Len(db) /\ k \in 0..Len(db)
  BY <1>5
<1>9. f \in [0..Len(db) -> Seq(LineRows)] /\ f[k] = f[k - 1] \o Lines(e)
  BY <1>1, <1>7 DEF Sheets
<1>10. PICK a : a = f[k - 1] /\ a \in Seq(LineRows)
  BY <1>8, <1>9
<1>11. PICK l : l = Lines(e) /\ l \in Seq(LineRows) /\ Len(l) = Len(e.issues) + 2
  BY <1>7, LinesAre
<1>12. Begins(f[k], w)
  BY <1>1, <1>2, <1>8, PagesBegin
<1>13. PICK m \in 1..Len(l) : w[n] = l[m] /\ SubSeq(w, 1, n - 1) = a \o SubSeq(l, 1, m - 1)
  <2>1. Len(a) < n /\ f[k] = a \o l
    BY <1>6, <1>9, <1>10, <1>11, Zenon
  <2>2. Splits(w, n, a, l)
    BY <1>2, <1>5, <1>6, <1>10, <1>11, <1>12, <2>1, FrontOf, Zenon
  <2> QED
    BY <2>2 DEF Splits
<1>14. PICK st : Reaches(a, st) /\ AtEnd(st) = t[k - 1]
  BY <1>1, <1>8, <1>10, PagesRead
<1>15. st \in Parses
  BY <1>10, <1>14, ReachTyped
<1>16. PICK p : p = a \o SubSeq(l, 1, m - 1)
  OBVIOUS
<1>17. Len(e.issues) \in Nat /\ m - 1 \in 0..Len(l) /\ m \in 1..(Len(e.issues) + 2)
  BY <1>7, <1>11, LinesAre
<1>18. p \in Seq(LineRows) /\ Reaches(p, AfterLines(st, e, m - 1))
  BY <1>7, <1>10, <1>11, <1>14, <1>16, <1>17, PartRead
<1>19. lines = p \o cut /\ cut \in CutLines(l[m])
  BY <1>4, <1>13, <1>16, Zenon
<1>20. CASE cut = << >>
  <2>1. lines = p
    BY <1>18, <1>19, <1>20
  <2>2. Parsed(lines) = AtEnd(AfterLines(st, e, m - 1))
    BY <1>18, <2>1, ReachParsed
  <2>3. CASE m = 1
    <3>1. AfterLines(st, e, m - 1) = st
      BY <2>3 DEF AfterLines
    <3> QED
      BY <1>14, <2>2, <3>1
  <2>4. CASE m # 1
    <3>1. m - 1 # 0 /\ m - 1 \in 1..(Len(e.issues) + 2)
      BY <1>17, <2>4
    <3>2. AfterLines(st, e, m - 1) = [db |-> AtEnd(st), have |-> TRUE, cur |-> Begun(e, m - 1)]
      BY <3>1 DEF AfterLines
    <3>3. PICK q : q = Begun(e, m - 1) /\ q \in EntryRows /\ CutShort(q, e)
      BY <1>7, <3>1, FrontTyped, FrontShort
    <3>4. Parsed(lines) = Put(t[k - 1], q)
      BY <1>14, <2>2, <3>2, <3>3 DEF AtEnd
    <3> QED
      BY <1>7, <3>3, <3>4
  <2> QED
    BY <2>3, <2>4
<1>21. CASE cut # << >>
  <2>1. PICK c \in LineRows, q \in EntryRows :
          /\ cut = <<c>> /\ CutShort(q, e)
          /\ ParseLine(AfterLines(st, e, m - 1), c) = [db |-> AtEnd(st), have |-> TRUE, cur |-> q]
    BY <1>7, <1>11, <1>15, <1>17, <1>19, <1>21, CutLineRead
  <2>2. lines = Append(p, c)
    BY <1>18, <1>19, <2>1
  <2>3. Reaches(lines, ParseLine(AfterLines(st, e, m - 1), c)) /\ lines \in Seq(LineRows)
    BY <1>18, <2>1, <2>2, ReachNext
  <2>4. Parsed(lines) = AtEnd(ParseLine(AfterLines(st, e, m - 1), c))
    BY <2>3, ReachParsed
  <2>5. Parsed(lines) = Put(t[k - 1], q)
    BY <1>14, <2>1, <2>4 DEF AtEnd
  <2> QED
    BY <1>7, <2>1, <2>5
<1> QED
  BY <1>20, <1>21

-----------------------------------------------------------------------------
(* A table that has of the first k entries that were saved those that are   *)
(* plain, and no other that is, in their order.                             *)
Mirror(u, k) ==
  /\ \A i \in PlainOf(u) : \E j \in 1..k : u[i] = saved[j]
  /\ \A j \in 1..k : Plain(saved[j].app) => \E i \in DOMAIN u : u[i] = saved[j]
  /\ \A i, h \in PlainOf(u), j, l \in 1..k : i < h /\ u[i] = saved[j] /\ u[h] = saved[l] => j < l

LEMMA PlainReads ==
  ASSUME NEW j \in DOMAIN saved, saved[j] \in EntryRows
  PROVE  /\ Plain(Reads(saved[j])) => Reads(saved[j]) = saved[j].app
         /\ Plain(saved[j].app) => Reads(saved[j]) = saved[j].app
<1>1. saved[j].app \in Titles
  BY DEF EntryRows
<1>2. CASE saved[j].app = Torn
  <2>1. Reads(saved[j]) = Torn /\ ~(Torn \in Apps)
    BY <1>2, DbBounds DEF Reads
  <2> QED
    BY <1>2, <2>1 DEF Plain
<1>3. CASE saved[j].app # Torn
  <2>1. saved[j].app \in Apps /\ Reads(saved[j]) = ReadBack[saved[j].app]
    BY <1>1, <1>3 DEF Reads, Titles
  <2> QED
    BY <2>1 DEF Plain
<1> QED
  BY <1>2, <1>3

(* What cellar_db_put does to a table.                                      *)
PutIs(v, u, e) ==
  \/ /\ \E i \in DOMAIN u : u[i].app = e.app
     /\ DOMAIN v = DOMAIN u
     /\ \A i \in DOMAIN u : v[i] = IF u[i].app = e.app THEN e ELSE u[i]
  \/ /\ \A i \in DOMAIN u : u[i].app # e.app
     /\ DOMAIN v = 1..(Len(u) + 1)
     /\ v[Len(u) + 1] = e /\ \A i \in DOMAIN u : v[i] = u[i]

LEMMA PutDoes ==
  ASSUME NEW u \in Listings, NEW e \in EntryRows
  PROVE  PutIs(Put(u, e), u, e)
<1>1. PICK same : same = {i \in DOMAIN u : u[i].app = e.app}
  OBVIOUS
<1>2. CASE same # {}
  <2>1. Put(u, e) = [i \in DOMAIN u |-> IF i \in same THEN e ELSE u[i]]
    BY <1>1, <1>2, Zenon DEF Put
  <2> QED
    BY <1>1, <1>2, <2>1 DEF PutIs
<1>3. CASE same = {}
  <2>1. Put(u, e) = Append(u, e)
    BY <1>1, <1>3, Zenon DEF Put
  <2>2. u \in Seq(EntryRows)
    BY DEF Listings
  <2>3. PICK v : v = Append(u, e)
    OBVIOUS
  <2>4. DOMAIN v = 1..(Len(u) + 1) /\ v[Len(u) + 1] = e /\ \A i \in DOMAIN u : v[i] = u[i]
    BY <2>2, <2>3
  <2>5. \A i \in DOMAIN u : u[i].app # e.app
    BY <1>1, <1>3
  <2>6. PutIs(v, u, e)
    BY <2>4, <2>5 DEF PutIs
  <2> QED
    BY <2>1, <2>3, <2>6
<1> QED
  BY <1>2, <1>3

LEMMA MirrorNone == Mirror(<< >>, 0)
<1>1. DOMAIN << >> = {} /\ \A i \in 1..0 : FALSE
  OBVIOUS
<1> QED
  BY <1>1 DEF Mirror, PlainOf

LEMMA MirrorPut ==
  ASSUME saved \in Listings, NEW k \in 1..Len(saved), NEW u \in Listings, Mirror(u, k - 1)
  PROVE  Mirror(Put(u, As(saved[k])), k)
<1>1. PICK c : c = Len(saved) /\ c \in Nat /\ DOMAIN saved = 1..c
  BY RowsOf
<1>2. /\ \A j \in 1..c : saved[j] \in EntryRows
      /\ \A i, j \in 1..c : saved[i].app = saved[j].app => i = j
  BY <1>1, RowsOf
<1>3. PICK e : e = saved[k] /\ e \in EntryRows
  BY <1>1, <1>2
<1>4. PICK r : r = As(e)
  OBVIOUS
<1>5. r \in EntryRows /\ r.app = Reads(e) /\ (Reads(e) = e.app => r = e)
  BY <1>3, <1>4, AsTyped DEF As
<1>6. (Plain(r.app) => r = e) /\ (Plain(e.app) => r = e)
  BY <1>1, <1>3, <1>5, PlainReads
<1>7. PICK v : v = Put(u, r) /\ PutIs(v, u, r)
  BY <1>5, PutDoes
<1>8. PICK n : n = Len(u) /\ n \in Nat /\ DOMAIN u = 1..n
  BY RowsOf
<1>9. /\ \A i \in PlainOf(u) : \E j \in 1..k - 1 : u[i] = saved[j]
      /\ \A j \in 1..k - 1 : Plain(saved[j].app) => \E i \in DOMAIN u : u[i] = saved[j]
      /\ \A i, h \in PlainOf(u), j, l \in 1..k - 1 :
           i < h /\ u[i] = saved[j] /\ u[h] = saved[l] => j < l
  BY DEF Mirror
<1>10. \A j \in 1..k : j \in 1..c /\ (j \in 1..k - 1 \/ j = k)
  BY <1>1
<1>11. \A j \in 1..k - 1 : j \in 1..k
  BY <1>1
<1>12. CASE Plain(r.app)
  <2>1. r = e
    BY <1>6, <1>12
  <2>2. \A i \in DOMAIN u : u[i].app # r.app
    <3> SUFFICES ASSUME NEW i \in DOMAIN u, u[i].app = r.app
                 PROVE  FALSE
      OBVIOUS
    <3>1. i \in PlainOf(u)
      BY <1>12 DEF PlainOf
    <3>2. PICK j \in 1..k - 1 : u[i] = saved[j]
      BY <1>9, <3>1
    <3>3. j \in 1..c /\ k \in 1..c /\ saved[j].app = saved[k].app
      BY <1>1, <1>3, <2>1, <3>2
    <3>4. j = k
      BY <1>2, <3>3
    <3> QED
      BY <1>1, <3>4
  <2>3. DOMAIN v = 1..(n + 1) /\ v[n + 1] = e /\ \A i \in DOMAIN u : v[i] = u[i]
    BY <1>7, <1>8, <2>1, <2>2 DEF PutIs
  <2>4. \A i \in PlainOf(v) : i = n + 1 \/ (i \in PlainOf(u) /\ v[i] = u[i])
    BY <1>8, <2>3 DEF PlainOf
  <2>5. ASSUME NEW i \in PlainOf(v)
        PROVE  \E j \in 1..k : v[i] = saved[j]
    BY <1>1, <1>3, <1>9, <1>11, <2>3, <2>4
  <2>6. ASSUME NEW j \in 1..k, Plain(saved[j].app)
        PROVE  \E i \in DOMAIN v : v[i] = saved[j]
    <3>1. CASE j = k
      BY <1>3, <1>8, <2>3, <3>1
    <3>2. CASE j # k
      <4>1. j \in 1..k - 1
        BY <1>10, <3>2
      <4>2. PICK i \in DOMAIN u : u[i] = saved[j]
        BY <1>9, <2>6, <4>1
      <4> QED
        BY <1>8, <2>3, <4>2
    <3> QED
      BY <3>1, <3>2
  <2>7. ASSUME NEW i \in PlainOf(v), NEW h \in PlainOf(v), NEW j \in 1..k, NEW l \in 1..k,
               i < h, v[i] = saved[j], v[h] = saved[l]
        PROVE  j < l
    <3>1. i \in 1..n + 1 /\ h \in 1..n + 1
      BY <2>3 DEF PlainOf
    <3>2. i \in PlainOf(u) /\ v[i] = u[i] /\ i # n + 1
      BY <1>8, <2>4, <2>7, <3>1
    <3>3. PICK j2 \in 1..k - 1 : u[i] = saved[j2]
      BY <1>9, <3>2
    <3>4. j = j2
      BY <1>2, <1>10, <1>11, <2>7, <3>2, <3>3
    <3>5. CASE h = n + 1
      <4>1. l = k
        BY <1>1, <1>2, <1>3, <1>10, <2>3, <2>7, <3>5
      <4> QED
        BY <1>1, <3>3, <3>4, <4>1
    <3>6. CASE h # n + 1
      <4>1. h \in PlainOf(u) /\ v[h] = u[h]
        BY <2>4, <3>6
      <4>2. PICK l2 \in 1..k - 1 : u[h] = saved[l2]
        BY <1>9, <4>1
      <4>3. l = l2
        BY <1>2, <1>10, <1>11, <2>7, <4>1, <4>2
      <4> QED
        BY <1>9, <2>7, <3>2, <3>3, <3>4, <4>1, <4>2, <4>3
    <3> QED
      BY <3>5, <3>6
  <2>8. Mirror(v, k)
    BY <2>5, <2>6, <2>7 DEF Mirror
  <2> QED
    BY <1>3, <1>4, <1>7, <2>8
<1>13. CASE ~Plain(r.app)
  <2>1. ~Plain(e.app)
    BY <1>6, <1>13
  <2>2. DOMAIN u \subseteq DOMAIN v /\ \A i \in DOMAIN u : v[i] = u[i] \/ (v[i] = r /\ u[i].app = r.app)
    BY <1>7, <1>8 DEF PutIs
  <2>3. \A i \in DOMAIN v : i \in DOMAIN u \/ v[i] = r
    BY <1>7, <1>8 DEF PutIs
  <2>4. \A i \in PlainOf(v) : i \in PlainOf(u) /\ v[i] = u[i]
    BY <1>13, <2>2, <2>3 DEF PlainOf
  <2>5. ASSUME NEW i \in PlainOf(v)
        PROVE  \E j \in 1..k : v[i] = saved[j]
    BY <1>9, <1>11, <2>4
  <2>6. ASSUME NEW j \in 1..k, Plain(saved[j].app)
        PROVE  \E i \in DOMAIN v : v[i] = saved[j]
    <3>1. j \in 1..k - 1
      BY <1>3, <1>10, <2>1, <2>6
    <3>2. PICK i \in DOMAIN u : u[i] = saved[j]
      BY <1>9, <2>6, <3>1
    <3>3. u[i].app # r.app
      BY <1>13, <2>6, <3>2
    <3> QED
      BY <2>2, <3>2, <3>3
  <2>7. ASSUME NEW i \in PlainOf(v), NEW h \in PlainOf(v), NEW j \in 1..k, NEW l \in 1..k,
               i < h, v[i] = saved[j], v[h] = saved[l]
        PROVE  j < l
    <3>1. i \in PlainOf(u) /\ v[i] = u[i] /\ h \in PlainOf(u) /\ v[h] = u[h]
      BY <2>4
    <3>2. PICK j2 \in 1..k - 1 : u[i] = saved[j2]
      BY <1>9, <3>1
    <3>3. PICK l2 \in 1..k - 1 : u[h] = saved[l2]
      BY <1>9, <3>1
    <3>4. j = j2 /\ l = l2
      BY <1>2, <1>10, <1>11, <2>7, <3>1, <3>2, <3>3
    <3> QED
      BY <1>9, <2>7, <3>1, <3>2, <3>3, <3>4
  <2>8. Mirror(v, k)
    BY <2>5, <2>6, <2>7 DEF Mirror
  <2> QED
    BY <1>3, <1>4, <1>7, <2>8
<1> QED
  BY <1>12, <1>13

LEMMA ShadowsMirror ==
  ASSUME saved \in Listings, NEW t, Shadows(t, saved), NEW k \in 0..Len(saved)
  PROVE  t[k] \in Listings /\ Mirror(t[k], k)
<1>1. PICK c : c = Len(saved) /\ c \in Nat
  BY RowsOf
<1>2. t \in [0..c -> Listings] /\ t[0] = << >> /\ \A i \in 1..c : t[i] = Put(t[i - 1], As(saved[i]))
  BY <1>1 DEF Shadows
<1> DEFINE good == {i \in 0..c : Mirror(t[i], i)}
<1>3. 0 \in good
  <2>1. Mirror(t[0], 0)
    BY <1>2, MirrorNone, Zenon
  <2> QED
    BY <1>1, <2>1
<1>4. ASSUME NEW i \in 1..c, i - 1 \in good
      PROVE  i \in good
  <2>1. i - 1 \in 0..c
    BY <1>1
  <2>2. PICK u : u = t[i - 1] /\ u \in Listings
    BY <1>2, <2>1
  <2>3. Mirror(u, i - 1)
    BY <1>4, <2>2
  <2>4. Mirror(Put(u, As(saved[i])), i)
    BY <1>1, <2>2, <2>3, MirrorPut
  <2>5. Mirror(t[i], i)
    BY <1>2, <2>2, <2>4, Zenon
  <2> QED
    BY <2>5
<1>5. \A i \in 0..c : i \in good
  <2> HIDE DEF good
  <2> QED
    BY <1>1, <1>3, <1>4, Climb
<1> QED
  BY <1>1, <1>2, <1>5

-----------------------------------------------------------------------------
(* What a file that was cut may be read as.                                 *)
SavedAs(e) == \E j \in PlainOf(saved) : e = saved[j]
ReadsWell(found) ==
  /\ \A i, h \in PlainOf(found), j, l \in PlainOf(saved) :
       i < h /\ found[i] = saved[j] /\ found[h] = saved[l] => j < l
  /\ \A i \in PlainOf(found), j \in PlainOf(saved) :
       found[i].app = saved[j].app => Shorter(found[i], saved[j])
  /\ \A i, h \in PlainOf(found) : ~SavedAs(found[i]) /\ ~SavedAs(found[h]) => i = h

LEMMA ShorterBasics ==
  ASSUME NEW q \in EntryRows, NEW e \in EntryRows
  PROVE  Shorter(e, e) /\ (q.rating = 0 /\ q.issues = << >> => Shorter(q, e))
<1>1. e.issues \in Seq(IssueTexts \cup {Torn})
  BY DEF EntryRows, Remarks
<1>2. PICK texts : texts = e.issues
  OBVIOUS
<1>3. Len(texts) \in Nat /\ DOMAIN texts = 1..Len(texts)
  BY <1>1, <1>2
<1>4. Shorter(e, e)
  BY <1>2, <1>3 DEF Shorter
<1>5. ASSUME q.rating = 0, q.issues = << >>
      PROVE  Shorter(q, e)
  <2>1. Len(<< >>) = 0 /\ DOMAIN << >> = {}
    OBVIOUS
  <2> QED
    BY <1>2, <1>3, <1>5, <2>1 DEF Shorter
<1> QED
  BY <1>4, <1>5

(* A row of a mirror is that of one saved entry, known by its name.         *)
LEMMA MirrorRow ==
  ASSUME saved \in Listings, NEW k \in 0..Len(saved), NEW u \in Listings, Mirror(u, k),
         NEW i \in PlainOf(u)
  PROVE  \E j \in 1..k : /\ u[i] = saved[j] /\ j \in PlainOf(saved) /\ saved[j] \in EntryRows
                         /\ \A l \in DOMAIN saved : saved[l].app = u[i].app => l = j
<1>1. PICK c : c = Len(saved) /\ c \in Nat /\ DOMAIN saved = 1..c
  BY RowsOf
<1>2. /\ \A j \in 1..c : saved[j] \in EntryRows
      /\ \A l, j \in 1..c : saved[l].app = saved[j].app => l = j
  BY <1>1, RowsOf
<1>3. PICK j \in 1..k : u[i] = saved[j]
  BY DEF Mirror
<1>4. j \in 1..c
  BY <1>1
<1>5. j \in PlainOf(saved)
  BY <1>1, <1>3, <1>4 DEF PlainOf
<1> QED
  BY <1>1, <1>2, <1>3, <1>4, <1>5

LEMMA MirrorAlone ==
  ASSUME saved \in Listings, NEW k \in 0..Len(saved), NEW u \in Listings, Mirror(u, k)
  PROVE  ReadsWell(u)
<1>1. PlainOf(saved) \subseteq DOMAIN saved
  BY DEF PlainOf
<1>2. ASSUME NEW i \in PlainOf(u), NEW h \in PlainOf(u), NEW j \in PlainOf(saved),
             NEW l \in PlainOf(saved), i < h, u[i] = saved[j], u[h] = saved[l]
      PROVE  j < l
  <2>1. j \in 1..k
    BY <1>1, <1>2, MirrorRow
  <2>2. l \in 1..k
    BY <1>1, <1>2, MirrorRow
  <2> QED
    BY <1>2, <2>1, <2>2 DEF Mirror
<1>3. ASSUME NEW i \in PlainOf(u), NEW j \in PlainOf(saved), u[i].app = saved[j].app
      PROVE  Shorter(u[i], saved[j])
  <2>1. u[i] = saved[j] /\ saved[j] \in EntryRows
    BY <1>1, <1>3, MirrorRow
  <2> QED
    BY <2>1, ShorterBasics
<1>4. \A i \in PlainOf(u) : SavedAs(u[i])
  BY MirrorRow DEF SavedAs
<1> QED
  BY <1>2, <1>3, <1>4 DEF ReadsWell

LEMMA MirrorCut ==
  ASSUME saved \in Listings, NEW k \in 1..Len(saved), NEW u \in Listings, Mirror(u, k - 1),
         NEW q \in EntryRows, CutShort(q, saved[k])
  PROVE  ReadsWell(Put(u, q))
<1>1. PICK c : c = Len(saved) /\ c \in Nat /\ DOMAIN saved = 1..c
  BY RowsOf
<1>2. /\ \A j \in 1..c : saved[j] \in EntryRows
      /\ \A i, j \in 1..c : saved[i].app = saved[j].app => i = j
  BY <1>1, RowsOf
<1>3. PICK v : v = Put(u, q) /\ PutIs(v, u, q)
  BY PutDoes
<1>4. PICK n : n = Len(u) /\ n \in Nat /\ DOMAIN u = 1..n
  BY RowsOf
<1>5. k - 1 \in 0..Len(saved) /\ k \in 1..c
  BY <1>1
<1>6. ReadsWell(u)
  BY <1>5, MirrorAlone
<1>7. PlainOf(saved) \subseteq 1..c
  BY <1>1 DEF PlainOf
(* A plain name of q is that of the entry cut, unless nothing of it but a   *)
(* name was read.                                                           *)
<1>8. ASSUME Plain(q.app), NEW j \in 1..c, q.app = saved[j].app
      PROVE  Shorter(q, saved[j]) /\ (j # k => q.rating = 0 /\ q.issues = << >>)
  <2>1. CASE q.rating = 0 /\ q.issues = << >>
    BY <1>2, <2>1, ShorterBasics
  <2>2. CASE q.app = Reads(saved[k]) /\ Shorter(q, saved[k])
    <3>1. saved[k].app = saved[j].app
      BY <1>1, <1>2, <1>5, <1>8, <2>2, PlainReads
    <3>2. j = k
      BY <1>2, <1>5, <3>1
    <3> QED
      BY <2>2, <3>2
  <2> QED
    BY <2>1, <2>2 DEF CutShort
<1>9. CASE ~Plain(q.app)
  <2>1. \A i \in PlainOf(v) : i \in PlainOf(u) /\ v[i] = u[i]
    BY <1>3, <1>4, <1>9 DEF PlainOf, PutIs
  <2>2. ReadsWell(v)
    BY <1>6, <2>1 DEF ReadsWell
  <2> QED
    BY <1>3, <2>2
<1>10. CASE Plain(q.app) /\ \E i \in DOMAIN u : u[i].app = q.app
  <2>1. PICK a \in DOMAIN u : u[a].app = q.app
    BY <1>10
  <2>2. DOMAIN v = DOMAIN u /\ v[a] = q /\ \A i \in DOMAIN u : i # a => v[i] = u[i]
    <3>1. ~(\A i \in DOMAIN u : u[i].app # q.app)
      BY <1>10
    <3>2. /\ DOMAIN v = DOMAIN u
          /\ \A i \in DOMAIN u : v[i] = IF u[i].app = q.app THEN q ELSE u[i]
      BY <1>3, <3>1 DEF PutIs
    <3>3. \A i, j \in DOMAIN u : u[i].app = u[j].app => i = j
      BY <1>4, RowsOf
    <3>4. \A i \in DOMAIN u : i # a => u[i].app # q.app
      BY ONLY <2>1, <3>3
    <3> QED
      BY ONLY <2>1, <3>2, <3>4
  <2>3. \A i \in PlainOf(v) : i \in PlainOf(u) /\ v[i].app = u[i].app
    BY <2>1, <2>2 DEF PlainOf
  <2>4. ASSUME NEW i \in PlainOf(v), NEW j \in 1..c, v[i].app = saved[j].app
        PROVE  u[i] = saved[j] /\ j \in 1..k - 1
    <3>1. i \in PlainOf(u) /\ u[i].app = saved[j].app
      BY <2>3, <2>4
    <3> QED
      BY <1>1, <1>5, <3>1, MirrorRow
  <2>5. ASSUME NEW i \in PlainOf(v), NEW h \in PlainOf(v), NEW j \in PlainOf(saved),
               NEW l \in PlainOf(saved), i < h, v[i] = saved[j], v[h] = saved[l]
        PROVE  j < l
    <3>1. u[i] = saved[j] /\ j \in 1..k - 1 /\ u[h] = saved[l] /\ l \in 1..k - 1
      BY <1>7, <2>4, <2>5
    <3>2. i \in PlainOf(u) /\ h \in PlainOf(u)
      BY <2>3
    <3> QED
      BY <2>5, <3>1, <3>2 DEF Mirror
  <2>6. ASSUME NEW i \in PlainOf(v), NEW j \in PlainOf(saved), v[i].app = saved[j].app
        PROVE  Shorter(v[i], saved[j])
    <3>1. u[i] = saved[j] /\ j \in 1..c
      BY <1>7, <2>4, <2>6
    <3>2. CASE i = a
      BY <1>8, <1>10, <2>2, <2>6, <3>1, <3>2
    <3>3. CASE i # a
      <4>1. v[i] = saved[j]
        BY <2>2, <2>3, <3>1, <3>3 DEF PlainOf
      <4> QED
        BY <1>2, <3>1, <4>1, ShorterBasics
    <3> QED
      BY <3>2, <3>3
  <2>7. ASSUME NEW i \in PlainOf(v), ~SavedAs(v[i])
        PROVE  i = a
    <3> SUFFICES ASSUME i # a
                 PROVE  FALSE
      OBVIOUS
    <3>1. i \in PlainOf(u) /\ v[i] = u[i]
      BY <2>2, <2>3 DEF PlainOf
    <3>2. \E j \in PlainOf(saved) : u[i] = saved[j]
      BY <1>5, <3>1, MirrorRow
    <3> QED
      BY <2>7, <3>1, <3>2 DEF SavedAs
  <2>8. ReadsWell(v)
    BY <2>5, <2>6, <2>7 DEF ReadsWell
  <2> QED
    BY <1>3, <2>8
<1>11. CASE Plain(q.app) /\ \A i \in DOMAIN u : u[i].app # q.app
  <2>1. DOMAIN v = 1..(n + 1) /\ v[n + 1] = q /\ \A i \in 1..n : v[i] = u[i]
    BY <1>3, <1>4, <1>11 DEF PutIs
  <2>2. \A i \in PlainOf(v) : i = n + 1 \/ (i \in 1..n /\ i \in PlainOf(u) /\ v[i] = u[i])
    BY <1>4, <2>1 DEF PlainOf
  <2>3. ASSUME NEW i \in PlainOf(v), i # n + 1, NEW j \in 1..c, v[i].app = saved[j].app
        PROVE  u[i] = saved[j] /\ j \in 1..k - 1
    <3>1. i \in PlainOf(u) /\ u[i].app = saved[j].app
      BY <2>2, <2>3
    <3> QED
      BY <1>1, <1>5, <3>1, MirrorRow
  <2>4. ASSUME NEW i \in PlainOf(v), NEW h \in PlainOf(v), NEW j \in PlainOf(saved),
               NEW l \in PlainOf(saved), i < h, v[i] = saved[j], v[h] = saved[l]
        PROVE  j < l
    <3>1. i \in 1..n /\ h \in 1..n + 1 /\ i # n + 1
      <4>1. i \in 1..n + 1 /\ h \in 1..n + 1
        BY <2>1 DEF PlainOf
      <4> QED
        BY <1>4, <2>4, <4>1
    <3>2. u[i] = saved[j] /\ j \in 1..k - 1 /\ l \in 1..c /\ i \in PlainOf(u)
      BY <1>7, <2>2, <2>3, <2>4, <3>1
    <3>3. CASE h = n + 1
      <4>1. q = saved[l] /\ Plain(saved[l].app)
        BY <1>11, <2>1, <2>4, <3>3
      <4>2. l \notin 1..k - 1
        <5> SUFFICES ASSUME l \in 1..k - 1
                     PROVE  FALSE
          OBVIOUS
        <5>1. \E b \in DOMAIN u : u[b] = saved[l]
          BY <4>1 DEF Mirror
        <5> QED
          BY <1>11, <4>1, <5>1
      <4> QED
        BY <1>1, <1>5, <3>2, <4>2
    <3>4. CASE h # n + 1
      <4>1. u[h] = saved[l] /\ l \in 1..k - 1 /\ h \in PlainOf(u)
        BY <2>2, <2>3, <2>4, <3>2, <3>4
      <4> QED
        BY <2>4, <3>2, <4>1 DEF Mirror
    <3> QED
      BY <3>3, <3>4
  <2>5. ASSUME NEW i \in PlainOf(v), NEW j \in PlainOf(saved), v[i].app = saved[j].app
        PROVE  Shorter(v[i], saved[j])
    <3>1. j \in 1..c
      BY <1>7
    <3>2. CASE i = n + 1
      BY <1>8, <1>11, <2>1, <2>5, <3>1, <3>2
    <3>3. CASE i # n + 1
      <4>1. v[i] = saved[j]
        BY <2>2, <2>3, <2>5, <3>1, <3>3
      <4> QED
        BY <1>2, <3>1, <4>1, ShorterBasics
    <3> QED
      BY <3>2, <3>3
  <2>6. ASSUME NEW i \in PlainOf(v), ~SavedAs(v[i])
        PROVE  i = n + 1
    <3> SUFFICES ASSUME i # n + 1
                 PROVE  FALSE
      OBVIOUS
    <3>1. i \in PlainOf(u) /\ v[i] = u[i]
      BY <2>2
    <3>2. \E j \in PlainOf(saved) : u[i] = saved[j]
      BY <1>5, <3>1, MirrorRow
    <3> QED
      BY <2>6, <3>1, <3>2 DEF SavedAs
  <2>7. ReadsWell(v)
    BY <2>4, <2>5, <2>6 DEF ReadsWell
  <2> QED
    BY <1>3, <2>7
<1> QED
  BY <1>9, <1>10, <1>11

-----------------------------------------------------------------------------
(* The file holds what the last save wrote, or what a kill left of it.      *)
FileInv ==
  /\ saved \in Listings /\ whole \in BOOLEAN
  /\ whole => file = Written(saved)
  /\ ~whole => IsCut(file, Written(saved))

LEMMA FileStarts == DbInit => FileInv
<1> SUFFICES ASSUME DbInit
             PROVE  FileInv
  OBVIOUS
<1>1. file = << >> /\ saved = << >> /\ whole = TRUE
  BY DEF DbInit
<1>2. saved \in Listings
  BY <1>1, BlankTyped
<1>3. PICK f : Sheets(f, saved) /\ Written(saved) = f[Len(saved)]
  BY <1>2, WrittenInPages
<1>4. Len(saved) = 0 /\ f[0] = << >>
  BY <1>1, <1>3 DEF Sheets
<1>5. Written(saved) = << >>
  BY <1>3, <1>4
<1> QED
  BY <1>1, <1>2, <1>5 DEF FileInv

LEMMA FileKeeps ==
  ASSUME DbInv, FileInv, [DbStep]_dbVars
  PROVE  FileInv'
<1>1. entries \in Listings
  BY DEF DbInv
<1>2. CASE UNCHANGED <<file, saved, whole>>
  BY <1>2 DEF FileInv
<1>3. CASE SaveDb
  <2>1. file' = Text /\ saved' = entries /\ whole' = TRUE
    BY <1>3 DEF SaveDb
  <2>2. Written(saved)' = Text
    <3>1. Written(saved)' = Written(saved')
      BY DEF Written
    <3> QED
      BY <1>1, <2>1, <3>1, TextTyped
  <2> QED
    BY <1>1, <2>1, <2>2 DEF FileInv
<1>4. CASE \E n \in 1..Len(Text) : CrashInSave(n)
  <2>1. PICK n : n \in 1..Len(Text) /\ CrashInSave(n)
    BY <1>4
  <2>2. saved' = entries /\ whole' = FALSE
    BY <2>1 DEF CrashInSave
  <2>3. PICK w : w = Text /\ w = Written(entries)
    BY <1>1, TextTyped
  <2>4. n \in DOMAIN w /\ \E cut \in CutLines(w[n]) : file' = SubSeq(w, 1, n - 1) \o cut
    BY <2>1, <2>3, Zenon DEF CrashInSave
  <2>5. IsCut(file', w)
    BY <2>4, Zenon DEF IsCut
  <2>6. Written(saved)' = w
    <3>1. Written(saved)' = Written(saved')
      BY DEF Written
    <3> QED
      BY <2>2, <2>3, <3>1
  <2>7. IsCut(file, Written(saved))'
    BY <2>5, <2>6, Zenon DEF IsCut
  <2> QED
    BY <1>1, <2>2, <2>7 DEF FileInv
<1>5. CASE \E a \in Apps, p \in Percents, i \in IssueLists : Record(a, p, i)
  BY <1>2, <1>5, Zenon DEF Record
<1>6. CASE OpenDb
  BY <1>2, <1>6, Zenon DEF OpenDb
<1>7. CASE UNCHANGED dbVars
  BY <1>2, <1>7 DEF dbVars
<1> QED
  BY <1>3, <1>4, <1>5, <1>6, <1>7, Zenon DEF DbStep

LEMMA FileReads ==
  ASSUME FileInv
  PROVE  ReopenFindsSaved
<1>1. saved \in Listings /\ whole \in BOOLEAN
  BY DEF FileInv
<1>2. PICK t : Shadows(t, saved)
  BY <1>1, ShadowsExist
<1>3. PICK c : c = Len(saved) /\ c \in Nat /\ DOMAIN saved = 1..c /\ c \in 0..Len(saved)
  BY <1>1, RowsOf
<1>4. PICK found : found = Parsed(file)
  OBVIOUS
<1>5. CASE whole
  <2>1. PICK f : Sheets(f, saved) /\ file = f[c] /\ file \in Seq(LineRows)
    BY <1>1, <1>3, <1>5, WrittenInPages DEF FileInv
  <2>2. PICK st : Reaches(file, st) /\ AtEnd(st) = t[c]
    BY <1>1, <1>2, <1>3, <2>1, PagesRead
  <2>3. found = t[c]
    BY <1>4, <2>1, <2>2, ReachParsed
  <2>4. found \in Listings /\ Mirror(found, c)
    BY <1>1, <1>2, <1>3, <2>3, ShadowsMirror
  <2>5. ReadsWell(found)
    BY <1>1, <1>3, <2>4, MirrorAlone
  <2>6. \A i \in PlainOf(found) : SavedAs(found[i])
    BY <1>1, <1>3, <2>4, MirrorRow DEF SavedAs
  <2>7. ASSUME NEW j \in PlainOf(saved)
        PROVE  \E i \in PlainOf(found) : found[i] = saved[j]
    <3>1. j \in 1..c /\ Plain(saved[j].app)
      BY <1>3 DEF PlainOf
    <3>2. PICK i \in DOMAIN found : found[i] = saved[j]
      BY <2>4, <3>1 DEF Mirror
    <3>3. i \in PlainOf(found)
      BY <3>1, <3>2 DEF PlainOf
    <3> QED
      BY <3>2, <3>3
  <2> QED
    BY <1>4, <2>5, <2>6, <2>7, Zenon DEF ReopenFindsSaved, ReadsWell, SavedAs
<1>6. CASE ~whole
  <2>1. IsCut(file, Written(saved))
    BY <1>6 DEF FileInv
  <2>2. PICK k \in 1..Len(saved) :
          \/ Parsed(file) = t[k - 1]
          \/ \E q \in EntryRows : Parsed(file) = Put(t[k - 1], q) /\ CutShort(q, saved[k])
    BY <1>1, <1>2, <2>1, CutRead
  <2>3. k - 1 \in 0..Len(saved)
    BY <1>3
  <2>4. t[k - 1] \in Listings /\ Mirror(t[k - 1], k - 1)
    BY <1>1, <1>2, <2>3, ShadowsMirror
  <2>5. ReadsWell(found)
    <3>1. CASE Parsed(file) = t[k - 1]
      BY <1>1, <1>4, <2>3, <2>4, <3>1, MirrorAlone
    <3>2. ASSUME NEW q \in EntryRows, Parsed(file) = Put(t[k - 1], q), CutShort(q, saved[k])
          PROVE  ReadsWell(found)
      BY <1>1, <1>4, <2>4, <3>2, MirrorCut
    <3> QED
      BY <2>2, <3>1, <3>2
  <2> QED
    BY <1>4, <1>6, <2>5, Zenon DEF ReopenFindsSaved, ReadsWell, SavedAs
<1> QED
  BY <1>1, <1>5, <1>6

-----------------------------------------------------------------------------
(* profile.c: the text of a save, or a front of one.                        *)
ConfInv ==
  \/ conf = NoConf \/ conf = << >>
  \/ \E setup \in Setups, good \in 0..1 :
       LET text == TextOf(setup, good)
       IN  \/ conf = text /\ (good = 1 => setup \in confirmed)
           \/ conf \in {<<text[1]>>, <<CutLine(text[1])>>, <<text[1], CutLine(text[2])>>}

LEMMA ConfStarts == ProfileInit => ConfInv
  BY Zenon DEF ProfileInit, ConfInv

LEMMA ConfKeeps == ConfInv /\ [ProfileStep]_profileVars => ConfInv'
<1> SUFFICES ASSUME ConfInv, [ProfileStep]_profileVars
             PROVE  ConfInv'
  OBVIOUS
<1>1. CASE UNCHANGED profileVars
  BY <1>1, Zenon DEF profileVars, ConfInv
<1>2. ASSUME NEW setup \in Setups, NEW good \in 0..1, SaveProfile(setup, good)
      PROVE  ConfInv'
  <2>1. conf' = TextOf(setup, good) /\ (good = 1 => setup \in confirmed')
    BY <1>2 DEF SaveProfile
  <2> QED
    BY <2>1, Zenon DEF ConfInv
<1>3. ASSUME NEW setup \in Setups, NEW good \in 0..1, CrashInProfileSave(setup, good)
      PROVE  ConfInv'
  <2>1. PICK text : text = TextOf(setup, good)
    OBVIOUS
  <2>2. PICK cut \in 0..1 :
          conf' \in {SubSeq(text, 1, cut), SubSeq(text, 1, cut) \o <<CutLine(text[cut + 1])>>}
    BY <1>3, <2>1, Zenon DEF CrashInProfileSave
  <2>3. PICK first, second : text = <<first, second>>
    BY <2>1 DEF TextOf
  <2>4. PICK a : a = CutLine(first)
    OBVIOUS
  <2>5. PICK b : b = CutLine(second)
    OBVIOUS
  <2>6. text[1] = first /\ text[2] = second
    BY <2>3
  <2>7. CASE cut = 0
    <3>1. SubSeq(text, 1, 0) = << >> /\ << >> \o <<a>> = <<a>> /\ cut + 1 = 1
      BY ONLY <2>3, <2>7
    <3>2. conf' \in {<< >>, <<a>>}
      BY ONLY <2>2, <2>4, <2>6, <2>7, <3>1, Zenon
    <3> QED
      BY <2>1, <2>4, <2>6, <3>2, Zenon DEF ConfInv
  <2>8. CASE cut = 1
    <3>1. SubSeq(text, 1, 1) = <<first>> /\ <<first>> \o <<b>> = <<first, b>> /\ cut + 1 = 2
      <4>1. /\ SubSeq(<<first, second>>, 1, 1) = <<first>>
            /\ <<first>> \o <<b>> = <<first, b>>
        BY FirstOfTwo, TwoJoined
      <4>2. cut + 1 = 2
        BY <2>8
      <4> QED
        BY <2>3, <4>1, <4>2, Zenon
    <3>2. conf' \in {<<first>>, <<first, b>>}
      BY ONLY <2>2, <2>5, <2>6, <2>8, <3>1, Zenon
    <3> QED
      BY <2>1, <2>5, <2>6, <3>2, Zenon DEF ConfInv
  <2> QED
    BY <2>7, <2>8
<1> QED
  BY <1>1, <1>2, <1>3 DEF ProfileStep

(* A mark is read from a whole text only, and beside its own setup.         *)
LEMMA ConfReads == ConfInv => LastGoodWhole
<1> SUFFICES ASSUME ConfInv, Field("last_good", 0) = 1
             PROVE  Field("setup", Default) \in confirmed
  BY DEF LastGoodWhole, Loaded
<1>1. PICK same : same = {i \in DOMAIN conf : conf[i].key = "last_good"}
  OBVIOUS
<1>2. PICK i \in same : conf[i].v = 1
  <2>1. Field("last_good", 0) = IF same = {} THEN 0 ELSE conf[CHOOSE i \in same : \A j \in same : i <= j].v
    BY <1>1, Zenon DEF Field
  <2>2. same # {}
    BY <2>1
  <2>3. DOMAIN conf \subseteq Nat
    <3>1. ASSUME NEW setup, NEW good
          PROVE  TextOf(setup, good) = <<TextOf(setup, good)[1], TextOf(setup, good)[2]>>
      BY DEF TextOf
    <3> QED
      BY <3>1 DEF ConfInv, NoConf
  <2>4. same \subseteq Nat
    BY <1>1, <2>3
  <2>5. \E i \in same : \A j \in same : i <= j
    BY <2>2, <2>4, MinIsMember
  <2> QED
    BY <2>1, <2>2, <2>5
<1>3. i \in DOMAIN conf /\ conf[i].key = "last_good"
  BY <1>1
<1>4. conf # << >> /\ conf # NoConf
  BY <1>3 DEF NoConf
<1>5. PICK setup \in Setups, good \in 0..1 :
        LET text == TextOf(setup, good)
        IN  \/ conf = text /\ (good = 1 => setup \in confirmed)
            \/ conf \in {<<text[1]>>, <<CutLine(text[1])>>, <<text[1], CutLine(text[2])>>}
  BY <1>4, Zenon DEF ConfInv
<1>6. PICK first : first = [key |-> "setup", v |-> setup]
  OBVIOUS
<1>7. PICK second : second = [key |-> "last_good", v |-> good]
  OBVIOUS
<1>8. TextOf(setup, good)[1] = first /\ TextOf(setup, good)[2] = second /\ TextOf(setup, good) = <<first, second>>
  BY <1>6, <1>7 DEF TextOf
<1>9. CutLine(first).key = "setup" /\ CutLine(second).v = 0
  BY <1>6, <1>7 DEF CutLine
<1>10. conf = <<first, second>> /\ (good = 1 => setup \in confirmed)
  <2>1. CASE conf = TextOf(setup, good) /\ (good = 1 => setup \in confirmed)
    BY <1>8, <2>1
  <2>2. CASE conf \in {<<first>>, <<CutLine(first)>>}
    BY <1>3, <1>6, <1>9, <2>2
  <2>3. CASE conf = <<first, CutLine(second)>>
    <3>1. i = 2
      BY <1>3, <1>6, <2>3
    <3> QED
      BY <1>2, <1>9, <2>3, <3>1
  <2> QED
    BY <1>5, <1>8, <2>1, <2>2, <2>3, Zenon
<1>11. good = 1
  <2>1. i = 2
    BY <1>3, <1>6, <1>10
  <2> QED
    BY <1>2, <1>7, <1>10, <2>1
<1>12. Field("setup", Default) = setup
  <2>1. PICK b : b = {h \in DOMAIN conf : conf[h].key = "setup"}
    OBVIOUS
  <2>2. b = {1}
    BY <1>6, <1>7, <1>10, <2>1
  <2>3. Field("setup", Default) = conf[CHOOSE h \in b : \A j \in b : h <= j].v
    BY <2>1, <2>2, Zenon DEF Field
  <2>4. PICK h : h = (CHOOSE a \in b : \A j \in b : a <= j)
    OBVIOUS
  <2>5. h = 1
    BY <2>2, <2>4
  <2>6. Field("setup", Default) = conf[h].v
    BY <2>3, <2>4, Zenon
  <2>7. conf[1] = first /\ first.v = setup
    BY <1>6, <1>10
  <2> QED
    BY <2>5, <2>6, <2>7, Zenon
<1> QED
  BY <1>10, <1>11, <1>12

LEMMA ProfileTyped ==
  /\ ProfileInit => ProfileTypeOK
  /\ ProfileTypeOK /\ [ProfileStep]_profileVars => ProfileTypeOK'
<1>1. ProfileInit => ProfileTypeOK
  BY DEF ProfileInit, ProfileTypeOK, NoConf
<1>2. ASSUME ProfileTypeOK, [ProfileStep]_profileVars
      PROVE  ProfileTypeOK'
  <2>1. CASE UNCHANGED profileVars
    BY <1>2, <2>1 DEF profileVars, ProfileTypeOK
  <2>2. ASSUME NEW setup \in Setups, NEW good \in 0..1
        PROVE  \E a, b : TextOf(setup, good) = <<a, b>>
    BY DEF TextOf
  <2>3. ASSUME NEW setup \in Setups, NEW good \in 0..1, SaveProfile(setup, good)
        PROVE  ProfileTypeOK'
    <3>1. PICK a, b : conf' = <<a, b>>
      BY <2>2, <2>3, Zenon DEF SaveProfile
    <3>2. Len(conf') = 2
      BY <3>1
    <3> QED
      BY <1>2, <2>3, <3>2 DEF SaveProfile, ProfileTypeOK
  <2>4. ASSUME NEW setup \in Setups, NEW good \in 0..1, CrashInProfileSave(setup, good)
        PROVE  ProfileTypeOK'
    <3>1. PICK a, b : TextOf(setup, good) = <<a, b>>
      BY <2>2, Zenon
    <3>2. PICK cut \in 0..1 : \E c : \/ conf' = SubSeq(<<a, b>>, 1, cut)
                                     \/ conf' = SubSeq(<<a, b>>, 1, cut) \o <<c>>
      BY <2>4, <3>1 DEF CrashInProfileSave
    <3>10. PICK c : \/ conf' = SubSeq(<<a, b>>, 1, cut)
                    \/ conf' = SubSeq(<<a, b>>, 1, cut) \o <<c>>
      BY <3>2
    <3>3. PICK t : t = <<a, b>>
      OBVIOUS
    <3>4. t \in Seq({a, b, c}) /\ Len(t) = 2 /\ <<c>> \in Seq({a, b, c}) /\ Len(<<c>>) = 1
      BY ONLY <3>3
    <3>9. SubSeq(t, 1, cut) \in Seq({a, b, c}) /\ Len(SubSeq(t, 1, cut)) = cut
      <4>1. PICK V : V = {a, b, c} /\ t \in Seq(V) /\ Len(t) = 2
        BY ONLY <3>4
      <4>2. cut \in Nat /\ cut =< Len(t)
        BY ONLY <4>1, cut \in 0..1
      <4>3. SubSeq(t, 1, cut) \in Seq(V) /\ Len(SubSeq(t, 1, cut)) = cut
        <5>1. CASE cut = 0
          <6>1. SubSeq(t, 1, 0) = << >>
            BY ONLY <4>1
          <6> QED
            BY ONLY <5>1, <6>1
        <5>2. CASE cut = 1
          <6>1. SubSeq(t, 1, 1) \in Seq(V) /\ Len(SubSeq(t, 1, 1)) = 1
            BY ONLY <4>1
          <6> QED
            BY ONLY <5>2, <6>1
        <5> QED
          BY ONLY <5>1, <5>2, cut \in 0..1
      <4> QED
        BY ONLY <4>1, <4>3
    <3>5. PICK u : u = SubSeq(t, 1, cut) /\ u \in Seq({a, b, c}) /\ Len(u) = cut
      BY <3>9
    <3>6. Len(u \o <<c>>) = cut + 1
      BY ONLY <3>4, <3>5, ConcatProperties
    <3>7. Len(conf') \in 0..2
      BY <3>10, <3>3, <3>5, <3>6
    <3>8. confirmed' \subseteq Setups
      BY <1>2, <2>4 DEF CrashInProfileSave, ProfileTypeOK
    <3> QED
      BY <3>7, <3>8 DEF ProfileTypeOK
  <2> QED
    BY <1>2, <2>1, <2>3, <2>4, Zenon DEF ProfileStep
<1> QED
  BY <1>1, <1>2

-----------------------------------------------------------------------------
(* locale.c: a text goes to UTF-8 entry by entry, and the loop that takes   *)
(* it back finds each where it was put.                                     *)

(* The code points of two bytes and of three, as the loop puts them together. *)
Two8(c, d) == (c % 32) * 64 + (d % 64)
Three8(c, d, e) == (c % 16) * 4096 + (d % 64) * 64 + (e % 64)
CodePoint(u) == u \in Nat /\ 1 <= u /\ u < 65536

(* One turn of the loop that reads UTF-8, at p of the text.                 *)
ReadTurn(q, text, p, t) ==
  LET c == text[p]
  IN  IF p > Len(text) THEN << >>
      ELSE IF c < 128 THEN <<c>> \o t[p + 1]
      ELSE IF c \in 192..223 /\ p < Len(text)
      THEN <<ByteOf(q, Two8(c, text[p + 1]))>> \o t[p + 2]
      ELSE IF c \in 224..239 /\ p + 1 < Len(text)
      THEN <<ByteOf(q, Three8(c, text[p + 1], text[p + 2]))>> \o t[p + 3]
      ELSE <<63>> \o t[p + 1]
Reads8(f, q, text) ==
  f = [p \in 1..Len(text) + 3 |-> ReadTurn(q, text, p, f)]

LEMMA Reads8Exist ==
  ASSUME NEW q, NEW text \in Seq(Nat)
  PROVE  \E f : Reads8(f, q, text)
<1>1. PICK n : n = Len(text) /\ n \in Nat /\ \A p \in 1..n : text[p] \in Nat
  OBVIOUS
<1>2. PICK S : S = Nat \cup {ByteOf(q, u) : u \in Nat}
  OBVIOUS
<1> DEFINE Two(p) == text[p] \in 192..223 /\ p < Len(text)
           Three(p) == text[p] \in 224..239 /\ p + 1 < Len(text)
           One(p) == text[p] < 128
           At2(p) == Two8(text[p], text[p + 1])
           At3(p) == Three8(text[p], text[p + 1], text[p + 2])
           Put1(p) == IF One(p) THEN <<text[p]>> ELSE IF Two(p) THEN <<ByteOf(q, At2(p))>>
                      ELSE IF Three(p) THEN <<ByteOf(q, At3(p))>> ELSE <<63>>
           Skip1(p) == IF One(p) THEN 1 ELSE IF Two(p) THEN 2 ELSE IF Three(p) THEN 3 ELSE 1
<1>3. ASSUME NEW p \in 1..n
      PROVE  Put1(p) \in Seq(S) /\ Skip1(p) \in 1..3
  <2>1. Skip1(p) \in 1..3
    OBVIOUS
  <2>2. One(p) => <<text[p]>> \in Seq(S)
    BY <1>1, <1>2
  <2>3. Two(p) => <<ByteOf(q, At2(p))>> \in Seq(S)
    <3>1. Two(p) => At2(p) \in Nat
      <4>1. Two(p) => p + 1 \in 1..n
        BY <1>1
      <4> QED
        BY <1>1, <4>1 DEF Two8
    <3> HIDE DEF At2
    <3>2. Two(p) => ByteOf(q, At2(p)) \in S
      BY <1>2, <3>1
    <3> QED
      BY <3>2
  <2>4. Three(p) => <<ByteOf(q, At3(p))>> \in Seq(S)
    <3>1. Three(p) => At3(p) \in Nat
      <4>1. Three(p) => p + 1 \in 1..n /\ p + 2 \in 1..n
        BY <1>1
      <4>2. Three(p) => text[p] \in Nat /\ text[p + 1] \in Nat /\ text[p + 2] \in Nat
        BY <1>1, <4>1
      <4>3. PICK a, b, c : a = text[p] /\ b = text[p + 1] /\ c = text[p + 2]
        OBVIOUS
      <4>4. Three(p) => Three8(a, b, c) \in Nat
        <5>1. SUFFICES ASSUME Three(p)
                       PROVE  Three8(a, b, c) \in Nat
          OBVIOUS
        <5>2. a \in Nat /\ b \in Nat /\ c \in Nat
          BY <4>2, <4>3, <5>1
        <5>3. a % 16 \in 0..15 /\ b % 64 \in 0..63 /\ c % 64 \in 0..63
          BY ONLY <5>2
        <5>4. PICK x, y, z : x = a % 16 /\ y = b % 64 /\ z = c % 64
          OBVIOUS
        <5>5. x * 4096 + y * 64 + z \in Nat
          <6>1. x \in 0..15 /\ y \in 0..63 /\ z \in 0..63
            BY ONLY <5>3, <5>4
          <6> QED
            BY ONLY <6>1
        <5> QED
          BY ONLY <5>4, <5>5 DEF Three8
      <4> QED
        BY ONLY <4>3, <4>4
    <3> HIDE DEF At3
    <3>2. Three(p) => ByteOf(q, At3(p)) \in S
      BY <1>2, <3>1
    <3> QED
      BY <3>2
  <2>5. <<63>> \in Seq(S)
    BY <1>2
  <2> HIDE DEF One, Two, Three, At2, At3
  <2> QED
    BY <2>1, <2>2, <2>3, <2>4, <2>5
<1>4. PICK put, skip : put = [p \in 1..n |-> Put1(p)] /\ skip = [p \in 1..n |-> Skip1(p)]
  OBVIOUS
<1>5. /\ put \in [1..n -> Seq(S)] /\ skip \in [1..n -> 1..3]
      /\ \A p \in 1..n : put[p] = Put1(p) /\ skip[p] = Skip1(p)
  <2> HIDE DEF Put1, Skip1
  <2> QED
    BY <1>3, <1>4
<1>6. 3 \in Nat
  OBVIOUS
<1>7. PICK f : Walks(f, n, 3, S, put, skip)
  BY ONLY <1>1, <1>5, <1>6, WalkExists
<1>8. /\ f \in [1..n + 3 -> Seq(S)] /\ \A p \in n + 1..n + 3 : f[p] = << >>
      /\ \A p \in 1..n : f[p] = put[p] \o f[p + skip[p]]
  BY <1>7 DEF Walks
<1>9. ASSUME NEW p \in 1..n + 3
      PROVE  f[p] = ReadTurn(q, text, p, f)
  <2>1. CASE p > n
    <3>1. p \in n + 1..n + 3
      BY <1>1, <2>1
    <3> QED
      BY <1>1, <1>8, <2>1, <3>1 DEF ReadTurn
  <2>2. CASE ~(p > n)
    <3>1. p \in 1..n
      BY <1>1, <2>2
    <3>2. f[p] = Put1(p) \o f[p + Skip1(p)]
      <4> HIDE DEF Put1, Skip1
      <4> QED
        BY <1>5, <1>8, <3>1
    <3>3. ReadTurn(q, text, p, f) =
            IF One(p) THEN <<text[p]>> \o f[p + 1]
            ELSE IF Two(p) THEN <<ByteOf(q, At2(p))>> \o f[p + 2]
            ELSE IF Three(p) THEN <<ByteOf(q, At3(p))>> \o f[p + 3] ELSE <<63>> \o f[p + 1]
      <4>1. ~(p > Len(text))
        BY <1>1, <2>2
      <4> QED
        BY <4>1, Zenon DEF ReadTurn
    <3>4. /\ Put1(p) = IF One(p) THEN <<text[p]>>
                       ELSE IF Two(p) THEN <<ByteOf(q, At2(p))>>
                       ELSE IF Three(p) THEN <<ByteOf(q, At3(p))>> ELSE <<63>>
          /\ Skip1(p) = IF One(p) THEN 1 ELSE IF Two(p) THEN 2 ELSE IF Three(p) THEN 3 ELSE 1
      <4> HIDE DEF One, Two, Three, At2, At3
      <4> QED
        BY Zenon DEF Put1, Skip1
    <3>5. f[p] = Put1(p) \o f[p + Skip1(p)]
      BY <3>2
    <3> HIDE DEF One, Two, Three, At2, At3, Put1, Skip1
    <3>6. CASE One(p)
      BY ONLY <3>3, <3>4, <3>5, <3>6
    <3>7. CASE ~One(p) /\ Two(p)
      BY ONLY <3>3, <3>4, <3>5, <3>7
    <3>8. CASE ~One(p) /\ ~Two(p) /\ Three(p)
      BY ONLY <3>3, <3>4, <3>5, <3>8
    <3>9. CASE ~One(p) /\ ~Two(p) /\ ~Three(p)
      BY ONLY <3>3, <3>4, <3>5, <3>9
    <3> QED
      BY ONLY <3>6, <3>7, <3>8, <3>9
  <2> QED
    BY <2>1, <2>2
<1>10. f = [p \in 1..n + 3 |-> ReadTurn(q, text, p, f)]
  <2> HIDE DEF ReadTurn
  <2> QED
    BY <1>8, <1>9
<1> QED
  BY <1>1, <1>10 DEF Reads8

LEMMA DecodedReads ==
  ASSUME NEW q, NEW text \in Seq(Nat)
  PROVE  \E f : Reads8(f, q, text) /\ Decoded(q, text) = f[1]
<1> DEFINE from == CHOOSE from : from =
      [i \in 1..Len(text) + 3 |->
        LET c == text[i]
        IN  IF i > Len(text) THEN << >>
            ELSE IF c < 128 THEN <<c>> \o from[i + 1]
            ELSE IF c \in 192..223 /\ i < Len(text)
            THEN <<ByteOf(q, (c % 32) * 64 + (text[i + 1] % 64))>> \o from[i + 2]
            ELSE IF c \in 224..239 /\ i + 1 < Len(text)
            THEN <<ByteOf(q, (c % 16) * 4096 + (text[i + 1] % 64) * 64 + (text[i + 2] % 64))>>
                   \o from[i + 3]
            ELSE <<63>> \o from[i + 1]]
<1>1. \E f : Reads8(f, q, text)
  BY Reads8Exist
<1>2. Reads8(from, q, text)
  <2>1. from = CHOOSE f : Reads8(f, q, text)
    BY ONLY ZenonT(30) DEF Reads8, ReadTurn, Two8, Three8
  <2> HIDE DEF from
  <2> QED
    BY ONLY <1>1, <2>1, ZenonT(30)
<1>3. Decoded(q, text) = from[1]
  BY Zenon DEF Decoded
<1> QED
  BY <1>2, <1>3

TwoByte(u) == u \in Nat /\ 128 <= u /\ u < 2048
LEMMA TwoBytes ==
  ASSUME NEW u, TwoByte(u), NEW c, c = 192 + u \div 64, NEW d, d = 128 + (u % 64)
  PROVE  /\ c \in 192..223 /\ d \in Nat /\ Utf8Put(u) = <<c, d>>
         /\ Two8(c, d) = u
<1>0. u \in 128..2047
  BY DEF TwoByte
<1>1. Utf8Put(u) = <<192 + u \div 64, 128 + (u % 64)>>
  BY <1>0 DEF Utf8Put, Utf8Tail
<1>2. PICK a, b : a = u \div 64 /\ b = u % 64 /\ a \in 0..31 /\ b \in 0..63 /\ u = 64 * a + b
  BY <1>0
<1>3. (192 + a) % 32 = a /\ (128 + b) % 64 = b
  BY ONLY <1>2
<1>4. a * 64 + b = u
  BY ONLY <1>2
<1>5. 192 + a \in 192..223 /\ 128 + b \in Nat
  BY ONLY <1>2
<1> QED
  BY <1>1, <1>2, <1>3, <1>4, <1>5 DEF Two8

LEMMA ThreeBytes ==
  ASSUME NEW u, CodePoint(u), 2048 <= u, NEW c, c = 224 + u \div 4096,
         NEW d, d = 128 + ((u \div 64) % 64), NEW e, e = 128 + (u % 64)
  PROVE  /\ c \in 224..239 /\ d \in Nat /\ e \in Nat /\ Utf8Put(u) = <<c, d, e>>
         /\ Three8(c, d, e) = u
<1>0. u \in Nat /\ u < 65536
  BY DEF CodePoint
<1>1. Utf8Put(u) = <<224 + u \div 4096, 128 + ((u \div 64) % 64), 128 + (u % 64)>>
  BY <1>0 DEF Utf8Put, Utf8Tail
<1>2. PICK a, k, m, b : a = u \div 4096 /\ k = u \div 64 /\ m = k % 64 /\ b = u % 64
  OBVIOUS
<1>3. a \in 0..15 /\ k \in Nat /\ m \in 0..63 /\ b \in 0..63
  BY <1>0, <1>2
<1>4. a * 4096 + m * 64 + b = u
  <2>1. PICK j : j = k \div 64
    OBVIOUS
  <2>2. j \in Nat /\ k = 64 * j + m
    BY <1>2, <1>3, <2>1
  <2>3. u = 64 * k + b
    BY <1>0, <1>2
  <2>4. u - 4096 * a \in 0..4095
    BY <1>0, <1>2
  <2> QED
    <3>1. PICK y : y = m * 64 + b
      OBVIOUS
    <3>2. y \in 0..4095 /\ u = 4096 * j + y
      BY ONLY <1>3, <2>2, <2>3, <3>1
    <3>3. PICK z : z = u - 4096 * a
      OBVIOUS
    <3>4. z \in 0..4095 /\ u = 4096 * a + z
      BY ONLY <1>0, <1>3, <2>4, <3>3
    <3>5. j = a
      <4>1. a \in Nat /\ j \in Nat /\ y \in Nat /\ z \in Nat /\ y < 4096 /\ z < 4096
        BY ONLY <1>3, <2>2, <3>2, <3>4
      <4>2. CASE j < a
        BY ONLY <3>2, <3>4, <4>1, <4>2
      <4>3. CASE a < j
        BY ONLY <3>2, <3>4, <4>1, <4>3
      <4> QED
        BY ONLY <4>1, <4>2, <4>3
    <3> QED
      BY ONLY <1>3, <2>2, <3>1, <3>2, <3>5
<1>5. (224 + a) % 16 = a /\ (128 + m) % 64 = m /\ (128 + b) % 64 = b
  BY ONLY <1>3
<1>6. 224 + a \in 224..239 /\ 128 + m \in Nat /\ 128 + b \in Nat
  BY ONLY <1>3
<1> QED
  BY <1>1, <1>2, <1>4, <1>5, <1>6 DEF Three8

(* A byte of a code page that is a code point, and is found again.          *)
Kept8(q, m) ==
  \A b \in 1..255 : CodePoint(m[b]) /\ (~(m[b] < 128) => ByteOf(q, m[b]) = b) /\ (m[b] < 128 => m[b] = b)

LEMMA ReadsAt ==
  ASSUME NEW q, NEW text, NEW f, Reads8(f, q, text), NEW p \in 1..Len(text) + 3
  PROVE  f[p] = ReadTurn(q, text, p, f)
BY Zenon DEF Reads8

(* The byte b stands as w, from o on, in a text that the loop reads.        *)
CharAt(q, b, u, text, f, o, w) ==
  /\ b \in 1..255 /\ CodePoint(u) /\ (~(u < 128) => ByteOf(q, u) = b) /\ (u < 128 => u = b)
  /\ text \in Seq(Nat) /\ Reads8(f, q, text) /\ o \in Nat
  /\ w = Utf8Put(u) /\ o + Len(w) <= Len(text) /\ \A k \in 1..Len(w) : text[o + k] = w[k]

(* ... and is what the loop reads from there.                               *)
Goes(b, f, o, w) == Len(w) \in 1..3 /\ f[o + 1] = <<b>> \o f[o + Len(w) + 1]

LEMMA CharRead ==
  ASSUME NEW q, NEW b, NEW u, NEW text, NEW f, NEW o, NEW w, CharAt(q, b, u, text, f, o, w)
  PROVE  Goes(b, f, o, w)
<1> SUFFICES Len(w) \in 1..3 /\ f[o + 1] = <<b>> \o f[o + Len(w) + 1]
  BY DEF Goes
<1>0. /\ b \in 1..255 /\ CodePoint(u) /\ (~(u < 128) => ByteOf(q, u) = b) /\ (u < 128 => u = b)
      /\ text \in Seq(Nat) /\ Reads8(f, q, text) /\ o \in Nat
      /\ w = Utf8Put(u) /\ o + Len(w) <= Len(text) /\ \A k \in 1..Len(w) : text[o + k] = w[k]
  BY Zenon DEF CharAt
<1> USE <1>0
<1>1. w = Utf8Put(u) /\ (~(u < 128) => ByteOf(q, u) = b) /\ (u < 128 => u = b)
  OBVIOUS
<1>7. u \in Nat
  BY DEF CodePoint
<1>2. PICK n : n = Len(text) /\ n \in Nat
  OBVIOUS
<1>3. \A p \in 1..n + 3 : f[p] = ReadTurn(q, text, p, f)
  BY <1>2, ReadsAt, Zenon
<1>4. CASE u < 128
  <2>0. Utf8Put(u) = <<u>>
    BY <1>4 DEF Utf8Put
  <2>1. w = <<u>> /\ Len(w) = 1 /\ w[1] = u /\ w \in Seq(Nat)
    BY <1>1, <1>7, <2>0
  <2>2. o + 1 <= n /\ text[o + 1] = u /\ o + 1 \in 1..n + 3 /\ ~(o + 1 > n) /\ o + 1 + 1 = o + Len(w) + 1
    BY <1>2, <2>1
  <2>3. f[o + 1] = <<u>> \o f[o + 1 + 1]
    <3>1. f[o + 1] = ReadTurn(q, text, o + 1, f)
      BY <1>3, <2>2
    <3>2. ~(o + 1 > Len(text))
      BY <1>2, <2>2
    <3>3. ReadTurn(q, text, o + 1, f) = <<text[o + 1]>> \o f[o + 1 + 1]
      BY <1>4, <2>2, <3>2, Zenon DEF ReadTurn
    <3> QED
      BY <2>2, <3>1, <3>3
  <2> QED
    BY <1>1, <1>4, <2>1, <2>2, <2>3, SMTT(40)
<1>5. CASE ~(u < 128) /\ u < 2048
  <2>1. TwoByte(u)
    BY <1>5, <1>7 DEF TwoByte
  <2>9. PICK c, d : c = 192 + u \div 64 /\ d = 128 + (u % 64)
    OBVIOUS
  <2>2. c \in 192..223 /\ d \in Nat /\ w = <<c, d>> /\ Two8(c, d) = u
    <3>1. c \in 192..223 /\ d \in Nat /\ Utf8Put(u) = <<c, d>> /\ Two8(c, d) = u
      BY ONLY <2>1, <2>9, TwoBytes
    <3> QED
      BY <1>1, <3>1, Zenon
  <2>3. Len(w) = 2 /\ w[1] = c /\ w[2] = d /\ w \in Seq(Nat)
    BY <2>2
  <2>4. /\ o + 1 < n /\ text[o + 1] = c /\ text[o + 1 + 1] = d /\ o + 1 \in 1..n + 3
        /\ ~(o + 1 > n) /\ ~(c < 128) /\ o + 1 + 2 = o + Len(w) + 1 /\ o + 1 + 1 = o + 2
    BY <1>2, <2>2, <2>3
  <2>5. f[o + 1] = <<ByteOf(q, Two8(c, d))>> \o f[o + 1 + 2]
    <3>1. f[o + 1] = ReadTurn(q, text, o + 1, f)
      BY <1>3, <2>4
    <3>2. ~(o + 1 > Len(text)) /\ o + 1 < Len(text)
      BY <1>2, <2>4
    <3>3. text[o + 1] \in 192..223 /\ ~(text[o + 1] < 128)
      BY <2>2, <2>4
    <3>4. ReadTurn(q, text, o + 1, f)
            = <<ByteOf(q, Two8(text[o + 1], text[o + 1 + 1]))>> \o f[o + 1 + 2]
      BY ONLY <3>2, <3>3, Zenon DEF ReadTurn
    <3> QED
      BY <2>4, <3>1, <3>4, Zenon
  <2>6. Len(w) \in 1..3
    BY <2>3
  <2>7. f[o + 1] = <<b>> \o f[o + 1 + 2]
    BY ONLY <1>1, <1>5, <2>2, <2>5
  <2> QED
    BY <2>4, <2>6, <2>7, Zenon
<1>6. CASE ~(u < 2048)
  <2>1. CodePoint(u) /\ 2048 <= u
    BY <1>6, <1>7
  <2>9. PICK c, d, e : c = 224 + u \div 4096 /\ d = 128 + ((u \div 64) % 64) /\ e = 128 + (u % 64)
    OBVIOUS
  <2>2. /\ c \in 224..239 /\ d \in Nat /\ e \in Nat /\ w = <<c, d, e>>
        /\ Three8(c, d, e) = u
    <3>1. /\ c \in 224..239 /\ d \in Nat /\ e \in Nat /\ Utf8Put(u) = <<c, d, e>>
          /\ Three8(c, d, e) = u
      BY ONLY <2>1, <2>9, ThreeBytes
    <3> QED
      BY <1>1, <3>1, Zenon
  <2>3. Len(w) = 3 /\ w[1] = c /\ w[2] = d /\ w[3] = e /\ w \in Seq(Nat)
    BY <2>2
  <2>4. /\ o + 1 + 1 < n /\ text[o + 1] = c /\ text[o + 1 + 1] = d /\ text[o + 1 + 2] = e
        /\ o + 1 \in 1..n + 3 /\ ~(o + 1 > n) /\ ~(c < 128) /\ c \notin 192..223
        /\ o + 1 + 3 = o + Len(w) + 1
    <3>1. o + 1 + 1 = o + 2 /\ o + 1 + 2 = o + 3 /\ o + 1 + 3 = o + Len(w) + 1
      BY <2>3
    <3>2. o + 3 <= n /\ text[o + 1] = w[1] /\ text[o + 2] = w[2] /\ text[o + 3] = w[3]
      BY <1>2, <2>3
    <3>3. o + 1 + 1 < n /\ o + 1 \in 1..n + 3 /\ ~(o + 1 > n)
      BY ONLY <1>0, <1>2, <3>2, SMTT(40)
    <3>4. ~(c < 128) /\ c \notin 192..223
      BY ONLY <2>2
    <3> QED
      BY <2>3, <3>1, <3>2, <3>3, <3>4
  <2>5. f[o + 1] = <<ByteOf(q, Three8(c, d, e))>> \o f[o + 1 + 3]
    <3>1. f[o + 1] = ReadTurn(q, text, o + 1, f)
      BY <1>3, <2>4
    <3>2. ~(o + 1 > Len(text)) /\ o + 1 + 1 < Len(text)
      BY <1>2, <2>4
    <3>3. text[o + 1] \in 224..239 /\ ~(text[o + 1] < 128)
      BY <2>2, <2>4
    <3>4. ReadTurn(q, text, o + 1, f)
            = <<ByteOf(q, Three8(text[o + 1], text[o + 1 + 1], text[o + 1 + 2]))>> \o f[o + 1 + 3]
      <4>1. ~(text[o + 1] \in 192..223 /\ o + 1 < Len(text))
        BY <2>4
      <4> QED
        BY ONLY <3>2, <3>3, <4>1, Zenon DEF ReadTurn
    <3> QED
      BY <2>4, <3>1, <3>4, Zenon
  <2>6. Len(w) \in 1..3
    BY <2>3
  <2>7. f[o + 1] = <<b>> \o f[o + 1 + 3]
    BY ONLY <1>1, <1>6, <1>7, <2>2, <2>5
  <2> QED
    BY <2>4, <2>6, <2>7, Zenon
<1> QED
  BY <1>4, <1>5, <1>6

(* A text comes back from the UTF-8 of its bytes.                           *)
LEMMA TextComesBack ==
  ASSUME NEW q, NEW m, Kept8(q, m), NEW t \in Seq(1..255),
         NEW text, text = FlattenSeq([i \in DOMAIN t |-> Utf8Put(m[t[i]])])
  PROVE  Decoded(q, text) = t /\ Len(text) >= Len(t)
<1>0. PICK n : n = Len(t)
  OBVIOUS
<1>1. n = Len(t) /\ n \in Nat /\ DOMAIN t = 1..n /\ \A i \in 1..n : t[i] \in 1..255
  <2>1. DOMAIN t = 1..n /\ n \in Nat
    BY <1>0
  <2>2. \A i \in 1..n : t[i] \in 1..255
    BY <1>0, <2>1, EntryType, Zenon
  <2> QED
    BY <1>0, <2>1, <2>2
<1>2. PICK seqs : seqs = [i \in 1..n |-> Utf8Put(m[t[i]])]
  OBVIOUS
<1>3. \A i \in 1..n : CodePoint(m[t[i]]) /\ (~(m[t[i]] < 128) => ByteOf(q, m[t[i]]) = t[i]) /\ (m[t[i]] < 128 => m[t[i]] = t[i])
  BY <1>1, Zenon DEF Kept8
<1>4. \A i \in 1..n : Utf8Put(m[t[i]]) \in Seq(Nat) /\ Len(Utf8Put(m[t[i]])) \in 1..3
  <2>1. ASSUME NEW u, CodePoint(u)
        PROVE  Utf8Put(u) \in Seq(Nat) /\ Len(Utf8Put(u)) \in 1..3
    <3>0. u \in Nat
      BY <2>1 DEF CodePoint
    <3>1. CASE u < 128
      BY <3>0, <3>1 DEF Utf8Put
    <3>2. CASE ~(u < 128)
      <4>1. PICK c, d, e, g : c = u \div 64 /\ d = u % 64 /\ e = u \div 4096 /\ g = (u \div 64) % 64
        OBVIOUS
      <4>2. c \in Nat /\ d \in Nat /\ e \in Nat /\ g \in Nat
        BY <3>0, <4>1
      <4>3. Utf8Put(u) = <<192 + c, 128 + d>> \/ Utf8Put(u) = <<224 + e, 128 + g, 128 + d>>
        BY <3>2, <4>1, SMTT(40) DEF Utf8Put, Utf8Tail
      <4>4. ASSUME NEW x \in Nat, NEW y \in Nat, NEW z \in Nat
            PROVE  /\ <<x, y>> \in Seq(Nat) /\ Len(<<x, y>>) \in 1..3
                   /\ <<x, y, z>> \in Seq(Nat) /\ Len(<<x, y, z>>) \in 1..3
        OBVIOUS
      <4>5. 192 + c \in Nat /\ 128 + d \in Nat /\ 224 + e \in Nat /\ 128 + g \in Nat
        BY <4>2
      <4>6. CASE Utf8Put(u) = <<192 + c, 128 + d>>
        BY <4>4, <4>5, <4>6
      <4>7. CASE Utf8Put(u) = <<224 + e, 128 + g, 128 + d>>
        BY <4>4, <4>5, <4>7
      <4> QED
        BY <4>3, <4>6, <4>7
    <3> QED
      BY <3>1, <3>2
  <2> QED
    BY <1>3, <2>1, Zenon
<1>5. seqs \in Seq(Seq(Nat)) /\ Len(seqs) = n /\ \A i \in 1..n : seqs[i] = Utf8Put(m[t[i]])
  <2>1. seqs \in [1..n -> Seq(Nat)]
    BY <1>2, <1>4
  <2> QED
    BY <1>1, <1>2, <2>1, SMTT(40)
<1>6. text = FlattenSeq(seqs)
  BY <1>1, <1>2
<1>7. PICK ends : Places(ends, seqs, text, Nat)
  BY <1>5, <1>6, FlattenPlaces
<1>8. /\ ends \in [0..n -> Nat] /\ ends[0] = 0 /\ text \in Seq(Nat) /\ Len(text) = ends[n]
      /\ \A j \in 1..n : /\ ends[j] = ends[j - 1] + Len(seqs[j]) /\ ends[j] <= Len(text)
                         /\ \A k \in 1..Len(seqs[j]) : text[ends[j - 1] + k] = seqs[j][k]
  BY <1>5, <1>7 DEF Places
<1>9. PICK f : Reads8(f, q, text) /\ Decoded(q, text) = f[1]
  BY <1>8, DecodedReads
<1>10. ASSUME NEW j \in 1..n
       PROVE  f[ends[j - 1] + 1] = <<t[j]>> \o f[ends[j] + 1] /\ ends[j] >= ends[j - 1] + 1
  <2>1. PICK o, w, u : o = ends[j - 1] /\ w = seqs[j] /\ u = m[t[j]]
    OBVIOUS
  <2>2. o \in Nat /\ w = Utf8Put(u) /\ CodePoint(u) /\ (~(u < 128) => ByteOf(q, u) = t[j]) /\ (u < 128 => u = t[j])
    <3>1. j - 1 \in 0..n
      BY <1>1
    <3> QED
      BY <1>3, <1>5, <1>8, <2>1, <3>1
  <2>3. o + Len(w) <= Len(text) /\ \A k \in 1..Len(w) : text[o + k] = w[k]
    BY <1>8, <2>1
  <2>4. /\ Len(w) \in 1..3 /\ f[o + 1] = <<t[j]>> \o f[o + Len(w) + 1]
    <3>1. t[j] \in 1..255
      BY <1>1
    <3> HIDE DEF Reads8
    <3>2. text \in Seq(Nat) /\ Reads8(f, q, text)
      BY <1>8, <1>9
    <3>3. Goes(t[j], f, o, w)
      <4>1. CharAt(q, t[j], u, text, f, o, w)
        BY ONLY <2>2, <2>3, <3>1, <3>2 DEF CharAt
      <4> QED
        BY <4>1, CharRead, Zenon
    <3> QED
      BY <3>3 DEF Goes
  <2>5. ends[j] = o + Len(w)
    BY <1>8, <2>1
  <2> QED
    BY <2>1, <2>2, <2>4, <2>5
<1>11. PICK g : g = [j \in 0..n |-> f[ends[j] + 1]]
  OBVIOUS
<1>12. g[n] = << >>
  <2>0. PICK p : p = Len(text) + 1
    OBVIOUS
  <2>9. Len(text) \in Nat
    BY <1>8
  <2>1. p = Len(text) + 1 /\ p \in 1..Len(text) + 3 /\ p > Len(text)
    BY <2>0, <2>9
  <2>2. f[p] = ReadTurn(q, text, p, f)
    BY <1>9, <2>1, ReadsAt
  <2>3. f[p] = << >>
    BY <2>1, <2>2 DEF ReadTurn
  <2>4. n \in 0..n
    BY <1>1
  <2> QED
    BY <1>8, <1>11, <2>1, <2>3, <2>4
<1>13. \A j \in 1..n : g[j - 1] = <<t[j]>> \o g[j]
  <2>1. \A j \in 1..n : j \in 0..n /\ j - 1 \in 0..n
    BY <1>1
  <2> QED
    BY <1>10, <1>11, <2>1
<1>14. g[0] = t
  BY <1>1, <1>12, <1>13, Rebuilt
<1>15. Decoded(q, text) = t
  <2>1. 0 \in 0..n /\ 0 + 1 = 1
    BY <1>1
  <2> QED
    BY <1>8, <1>9, <1>11, <1>14, <2>1
<1>16. ends[n] >= n
  <2> DEFINE good == {j \in 0..n : ends[j] >= j}
  <2>1. 0 \in good
    BY <1>1, <1>8
  <2>2. ASSUME NEW j \in 1..n, j - 1 \in good
        PROVE  j \in good
    <3>1. j \in 0..n /\ j - 1 \in 0..n
      BY <1>1
    <3>2. ends[j] \in Nat /\ ends[j - 1] \in Nat /\ ends[j - 1] >= j - 1
      BY <1>8, <2>2, <3>1
    <3>3. ends[j] >= ends[j - 1] + 1
      BY <1>10
    <3>4. ends[j] >= j
      BY ONLY <3>1, <3>2, <3>3, <1>1
    <3> QED
      BY <3>1, <3>4
  <2>3. \A j \in 0..n : j \in good
    <3> HIDE DEF good
    <3> QED
      BY <1>1, <2>1, <2>2, Climb
  <2>4. n \in 0..n
    BY <1>1
  <2> QED
    BY <2>3, <2>4
<1> QED
  BY <1>1, <1>8, <1>15, <1>16

LEMMA C1Distinct ==
  ASSUME NEW i \in 1..32, NEW j \in 1..32, C1[i] = C1[j]
  PROVE  i = j
BY SMTT(60) DEF C1

(* The page that a text is taken back by, the one that it is looked up by   *)
(* on the way to UTF-8, and the code points of the bytes of that one.       *)
Ansi(l, page) == IF page = ACP THEN l.acp ELSE page
PageOf(l, page) == IF Ansi(l, page) = OEMCP THEN l.oemcp ELSE Ansi(l, page)
Points(l, page) == [b \in 1..255 |-> IF PageOf(l, page) = 1252 /\ b \in 128..159 THEN C1[b - 127] ELSE b]
Encoded(l, page, text) == FlattenSeq([i \in DOMAIN text |-> Utf8Put(Points(l, page)[text[i]])])
TakenBack(l, page, text, cap) ==
  CutTo(IF Ansi(l, page) = UTF8 THEN text ELSE Decoded(Ansi(l, page), text), cap - 1)

LEMMA C1Points ==
  ASSUME NEW k \in 1..32
  PROVE  /\ C1[k] \in Nat /\ 128 < C1[k] /\ C1[k] < 8483 /\ k \in DOMAIN C1
         /\ C1[k] \in 128..255 => C1[k] = 127 + k
<1>1. DOMAIN C1 = 1..32
  BY SMTT(60) DEF C1
<1>2. C1[k] \in Nat /\ 128 < C1[k] /\ C1[k] < 8483
  BY SMTT(60) DEF C1
<1>3. C1[k] \in 128..255 => C1[k] = 127 + k
  BY SMTT(60) DEF C1
<1> QED
  BY <1>1, <1>2, <1>3

LEMMA C1Found ==
  ASSUME NEW k \in 1..32
  PROVE  C1[k] \in Range(C1) /\ (CHOOSE j \in DOMAIN C1 : C1[j] = C1[k]) = k
<1>1. DOMAIN C1 = 1..32
  BY SMTT(60) DEF C1
<1>2. C1[k] \in Range(C1)
  BY <1>1, Zenon DEF Range
<1>3. PICK h : h = (CHOOSE j \in DOMAIN C1 : C1[j] = C1[k])
  OBVIOUS
<1>4. h \in DOMAIN C1 /\ C1[h] = C1[k]
  BY <1>1, <1>3, Zenon
<1>5. h = k
  BY <1>1, <1>4, C1Distinct, Zenon
<1> QED
  BY <1>2, <1>3, <1>5

LEMMA PageKeeps ==
  ASSUME NEW l, NEW page, ~(Ansi(l, page) = OEMCP /\ l.oemcp = 1252)
  PROVE  Kept8(Ansi(l, page), Points(l, page))
<1>1. PICK q, m : q = Ansi(l, page) /\ m = Points(l, page)
  OBVIOUS
<1>2. ASSUME NEW b \in 1..255
      PROVE  CodePoint(m[b]) /\ (~(m[b] < 128) => ByteOf(q, m[b]) = b) /\ (m[b] < 128 => m[b] = b)
  <2>1. CodePoint(b)
    BY DEF CodePoint
  <2>2. CASE q = 1252 /\ b \in 128..159
    <3>1. m[b] = C1[b - 127]
      BY <1>1, <2>2 DEF Points, PageOf, OEMCP
    <3>2. PICK k : k = b - 127 /\ k \in 1..32
      BY <2>2
    <3>3. PICK u : u = C1[k]
      OBVIOUS
    <3>4. u \in Nat /\ 128 < u /\ u < 8483 /\ (u \in 128..255 => u = 127 + k)
      BY <3>2, <3>3, C1Points
    <3>5. u \in Range(C1) /\ (CHOOSE j \in DOMAIN C1 : C1[j] = u) = k
      BY <3>2, <3>3, C1Found
    <3>6. ByteOf(q, u) = b
      <4>1. CASE u \in 128..255
        <5>1. u = b
          BY <3>2, <3>4, <4>1
        <5>2. ByteOf(q, u) = u
          BY <2>2, <4>1 DEF ByteOf
        <5> QED
          BY <5>1, <5>2
      <4>2. CASE u \notin 128..255
        <5>1. ByteOf(q, u) = 127 + k
          <6>1. ByteOf(q, u) =
                  IF u \in Range(C1) THEN 127 + CHOOSE j \in DOMAIN C1 : C1[j] = u ELSE 63
            <7>1. q = 1252
              BY <2>2
            <7> QED
              BY ONLY <7>1, <4>2 DEF ByteOf
          <6>2. PICK x : x = (CHOOSE j \in DOMAIN C1 : C1[j] = u)
            OBVIOUS
          <6>3. ByteOf(q, u) = 127 + x /\ x = k
            BY ONLY <3>5, <6>1, <6>2, Zenon
          <6> QED
            BY ONLY <6>3
        <5> QED
          BY <3>2, <5>1
      <4> QED
        BY <4>1, <4>2
    <3>7. CodePoint(u) /\ ~(u < 128)
      BY <3>4 DEF CodePoint
    <3> QED
      BY <3>1, <3>2, <3>3, <3>6, <3>7
  <2>3. CASE q = 1252 /\ b \notin 128..159
    <3>1. m[b] = b
      BY <1>1, <2>3 DEF Points
    <3>2. ~(b < 128) => ByteOf(q, b) = b
      BY <2>3 DEF ByteOf
    <3> QED
      BY <2>1, <3>1, <3>2
  <2>4. CASE q # 1252
    <3>1. PageOf(l, page) # 1252
      BY <1>1, <2>4 DEF PageOf
    <3>2. m[b] = b
      BY <1>1, <3>1 DEF Points
    <3>3. ByteOf(q, b) = b
      BY <2>4 DEF ByteOf
    <3> QED
      BY <2>1, <3>2, <3>3
  <2> QED
    BY <2>2, <2>3, <2>4
<1>3. Kept8(q, m)
  BY <1>2, Zenon DEF Kept8
<1> QED
  BY <1>1, <1>3, ZenonT(40)

LEMMA CutIsPrefix ==
  ASSUME NEW S, NEW t \in Seq(S), NEW n \in Nat
  PROVE  /\ CutTo(t, n) \in Seq(S) /\ Len(CutTo(t, n)) = (IF Len(t) < n THEN Len(t) ELSE n)
         /\ Len(CutTo(t, n)) <= Len(t)
         /\ CutTo(t, n) = SubSeq(t, 1, Len(CutTo(t, n)))
         /\ Len(t) <= n => CutTo(t, n) = t
         /\ Len(CutTo(t, n)) >= Len(t) => CutTo(t, n) = t
<1>1. PICK k : k = (IF Len(t) < n THEN Len(t) ELSE n)
  OBVIOUS
<1>2. Len(t) \in Nat /\ k \in 0..Len(t) /\ (Len(t) <= n => k = Len(t))
  BY <1>1
<1>3. CutTo(t, n) = SubSeq(t, 1, k)
  BY <1>1 DEF CutTo
<1>4. SubSeq(t, 1, k) \in Seq(S) /\ Len(SubSeq(t, 1, k)) = k
  BY <1>2
<1>5. SubSeq(t, 1, Len(t)) = t
  OBVIOUS
<1>6. k >= Len(t) => k = Len(t)
  BY <1>2
<1>7. PICK c : c = CutTo(t, n)
  OBVIOUS
<1>8. c \in Seq(S) /\ Len(c) = k /\ c = SubSeq(t, 1, k) /\ (k = Len(t) => c = t)
  BY <1>3, <1>4, <1>5, <1>7
<1>9. Len(c) <= Len(t) /\ (Len(t) <= n => c = t) /\ (Len(c) >= Len(t) => c = t)
  BY ONLY <1>2, <1>6, <1>8
<1>10. /\ c \in Seq(S) /\ Len(c) = (IF Len(t) < n THEN Len(t) ELSE n) /\ c = SubSeq(t, 1, Len(c))
  BY ONLY <1>1, <1>8
<1> QED
  BY <1>7, <1>9, <1>10, Zenon

(* What was converted, and taken back, under the locale of the time.        *)
TextInv ==
  /\ given # NoText =>
       /\ given.text \in Seq(Bytes)
       /\ utf8 # Overflow =>
            IF given.page = UTF8 THEN \E c \in Nat \ {0} : utf8 = CutTo(given.text, c - 1)
            ELSE utf8 = Encoded(given.under, given.page, given.text)
  /\ back.cap # 0 =>
       /\ given # NoText /\ utf8 # Overflow /\ back.cap \in Nat \ {0}
       /\ back.text = TakenBack(back.under, given.page, utf8, back.cap)

LEMMA ByteTexts ==
  ASSUME NEW t \in Seq(Bytes)
  PROVE  t \in Seq(1..255) /\ Len(t) \in Nat /\ \A i \in DOMAIN t : t[i] \in 1..255
<1>1. Bytes \subseteq 1..255
  BY LocaleAssumption
<1>2. PICK V : V = 1..255
  OBVIOUS
<1>3. t \in Seq(V)
  <2>1. Bytes \subseteq V
    BY <1>1, <1>2
  <2> QED
    BY ONLY <2>1, t \in Seq(Bytes)
<1>4. \A i \in DOMAIN t : t[i] \in V
  BY <1>3, EntryType, Zenon
<1> QED
  BY <1>2, <1>3, <1>4

LEMMA TextStarts == LocaleInit => TextInv
BY DEF LocaleInit, TextInv, NoText, NotBack

LEMMA TextKeeps ==
  ASSUME TextInv, [LocaleStep]_localeVars
  PROVE  TextInv'
<1>1. CASE UNCHANGED localeVars
  BY <1>1 DEF localeVars, TextInv
<1>2. CASE \E l \in Locales : SetLocale(l)
  BY <1>2 DEF SetLocale, TextInv
<1>3. CASE \E minus \in BOOLEAN, n \in 1..MaxDigits : Format(minus, SubSeq(Digits, 1, n))
  BY <1>3 DEF Format, TextInv
<1>4. ASSUME NEW cap \in Caps, ConvertBack(cap)
      PROVE  TextInv'
  <2>1. /\ given # NoText /\ utf8 # Overflow /\ given' = given /\ utf8' = utf8
        /\ back' = [text |-> Utf8ToCp(given.page, utf8, cap), cap |-> cap, under |-> locale]
    BY <1>4 DEF ConvertBack
  <2>2. cap \in Nat \ {0}
    BY LocaleAssumption
  <2>3. Utf8ToCp(given.page, utf8, cap) = TakenBack(locale, given.page, utf8, cap)
    BY DEF Utf8ToCp, TakenBack, Ansi
  <2> QED
    BY <2>1, <2>2, <2>3 DEF TextInv
<1>5. ASSUME NEW page \in Pages, NEW n \in 1..MaxText, NEW text \in [1..n -> Bytes],
             NEW cap \in Caps, Convert(page, text, cap)
      PROVE  TextInv'
  <2>1. /\ given = NoText /\ back' = back /\ utf8' = CpToUtf8(page, text, cap)
        /\ given' = [page |-> page, text |-> text, under |-> locale]
    BY <1>5 DEF Convert
  <2>2. back.cap = 0
    BY <2>1 DEF TextInv
  <2>3. n \in Nat \ {0} /\ cap \in Nat \ {0}
    BY LocaleAssumption
  <2>4. text \in Seq(Bytes) /\ Len(text) = n /\ DOMAIN text = 1..n
    BY <2>3
  <2>5. given' # NoText
    <3>1. text # << >>
      BY <2>3, <2>4
    <3> QED
      BY <2>1, <3>1 DEF NoText
  <2>6. CASE page = UTF8
    <3>1. utf8' = CutTo(text, cap - 1)
      BY <2>1, <2>6 DEF CpToUtf8
    <3> QED
      BY <2>1, <2>2, <2>3, <2>4, <2>6, <3>1 DEF TextInv
  <2>7. CASE page # UTF8
    <3>1. PICK all : all = FlattenSeq([i \in DOMAIN text |-> Utf8Put(MapCp(page, text[i]))])
      OBVIOUS
    <3>2. utf8' = all \/ utf8' = Overflow
      BY <2>1, <2>7, <3>1 DEF CpToUtf8
    <3>3. ASSUME NEW i \in DOMAIN text
          PROVE  Utf8Put(MapCp(page, text[i])) = Utf8Put(Points(locale, page)[text[i]])
      <4>1. text[i] \in 1..255
        BY <2>4, ByteTexts, Zenon
      <4>2. Resolved(page) = PageOf(locale, page)
        BY Zenon DEF Resolved, PageOf, Ansi
      <4>3. Points(locale, page)[text[i]]
              = IF PageOf(locale, page) = 1252 /\ text[i] \in 128..159 THEN C1[text[i] - 127] ELSE text[i]
        BY <4>1, Zenon DEF Points
      <4>4. MapCp(page, text[i])
              = IF Resolved(page) = 1252 /\ text[i] \in 128..159 THEN C1[text[i] - 127] ELSE text[i]
        BY Zenon DEF MapCp
      <4>5. MapCp(page, text[i]) = Points(locale, page)[text[i]]
        BY ONLY <4>2, <4>3, <4>4
      <4> QED
        BY ONLY <4>5
    <3>4. all = Encoded(locale, page, text)
      <4>1. [i \in DOMAIN text |-> Utf8Put(MapCp(page, text[i]))]
              = [i \in DOMAIN text |-> Utf8Put(Points(locale, page)[text[i]])]
        BY <3>3, Zenon
      <4> QED
        BY <3>1, <4>1, Zenon DEF Encoded
    <3> QED
      BY <2>1, <2>2, <2>4, <2>7, <3>2, <3>4 DEF TextInv
  <2> QED
    BY <2>6, <2>7
<1> QED
  <2>1. CASE LocaleStep
    BY <1>2, <1>3, <1>4, <1>5, <2>1 DEF LocaleStep
  <2> QED
    BY <1>1, <2>1

LEMMA PrefixOf ==
  ASSUME NEW S, NEW t \in Seq(S), NEW n \in 0..Len(t), NEW p, p = SubSeq(t, 1, n)
  PROVE  IsPrefix(p, t)
<1>1. p \in Seq(S) /\ Len(p) = n /\ Len(t) \in Nat /\ Len(p) <= Len(t)
  OBVIOUS
<1>2. SubSeq(t, 1, Len(p)) = p
  BY <1>1
<1> QED
  BY <1>1, <1>2 DEF IsPrefix

LEMMA TextExact == TextInv => TextRoundTrips
<1> SUFFICES ASSUME TextInv, back.cap # 0, back.under = given.under,
                    ~(given.page = ACP /\ Ansi(given.under, given.page) = UTF8),
                    ~(Ansi(given.under, given.page) = OEMCP /\ given.under.oemcp = 1252)
             PROVE  /\ IsPrefix(back.text, given.text)
                    /\ (back.cap > Len(given.text) /\ Len(utf8) >= Len(given.text))
                         => back.text = given.text
  BY ZenonT(40) DEF TextRoundTrips, Ansi
<1>1. PICK l, page, t, n, u, x : /\ l = given.under /\ page = given.page /\ t = given.text
                                 /\ n = back.cap - 1 /\ u = utf8 /\ x = back.text
  OBVIOUS
<1>2. /\ t \in Seq(Bytes) /\ back.cap \in Nat \ {0} /\ x = TakenBack(l, page, u, back.cap)
      /\ IF page = UTF8 THEN \E c \in Nat \ {0} : u = CutTo(t, c - 1) ELSE u = Encoded(l, page, t)
  BY <1>1 DEF TextInv
<1>3. t \in Seq(1..255) /\ Len(t) \in Nat
  BY <1>2, ByteTexts
<1>4. n \in Nat /\ back.cap = n + 1
  BY <1>1, <1>2
<1>5. \/ page = UTF8 /\ Ansi(l, page) = UTF8
      \/ page # UTF8 /\ Ansi(l, page) # UTF8
  BY <1>1 DEF Ansi, ACP, UTF8
<1>6. CASE page = UTF8 /\ Ansi(l, page) = UTF8
  <2>1. PICK c \in Nat \ {0} : u = CutTo(t, c - 1)
    BY <1>2, <1>6
  <2>2. c - 1 \in Nat
    OBVIOUS
  <2>3. PICK k : k = Len(u) /\ u \in Seq(1..255) /\ u = SubSeq(t, 1, k) /\ k <= Len(t) /\ (k >= Len(t) => u = t)
    BY <1>3, <2>1, <2>2, CutIsPrefix
  <2>4. k \in 0..Len(t)
    BY <1>3, <2>3
  <2>5. x = CutTo(u, n)
    BY <1>2, <1>4, <1>6 DEF TakenBack
  <2>0. PICK h : h = Len(x)
    BY ONLY Zenon
  <2>6. /\ h = Len(x) /\ x \in Seq(1..255) /\ x = SubSeq(u, 1, h) /\ h <= k
        /\ (k <= n => x = u)
    <3>1. u \in Seq(1..255) /\ n \in Nat
      BY <1>4, <2>3
    <3>2. /\ CutTo(u, n) \in Seq(1..255) /\ Len(CutTo(u, n)) <= Len(u)
          /\ CutTo(u, n) = SubSeq(u, 1, Len(CutTo(u, n)))
          /\ Len(u) <= n => CutTo(u, n) = u
      BY ONLY <3>1, CutIsPrefix, ZenonT(40)
    <3> QED
      BY <2>0, <2>3, <2>5, <3>2, ZenonT(40)
  <2>7. h \in 0..k
    BY <2>4, <2>6
  <2>8. x = SubSeq(t, 1, h)
    BY <1>3, <2>3, <2>4, <2>6, <2>7
  <2>9. IsPrefix(x, t)
    <3>1. h \in 0..Len(t)
      BY <2>4, <2>7
    <3> QED
      BY ONLY <1>3, <2>8, <3>1, PrefixOf
  <2>10. (back.cap > Len(t) /\ k >= Len(t)) => x = t
    BY <1>3, <1>4, <2>3, <2>4, <2>6
  <2> QED
    BY <1>1, <2>3, <2>9, <2>10
<1>7. CASE page # UTF8 /\ Ansi(l, page) # UTF8
  <2>1. PICK q, m : q = Ansi(l, page) /\ m = Points(l, page)
    OBVIOUS
  <2>2. Kept8(q, m)
    BY <1>1, <2>1, PageKeeps
  <2>3. u = FlattenSeq([i \in DOMAIN t |-> Utf8Put(m[t[i]])])
    BY <1>2, <1>7, <2>1 DEF Encoded
  <2>4. Decoded(q, u) = t
    BY <1>3, <2>2, <2>3, TextComesBack
  <2>5. x = CutTo(t, n)
    BY <1>2, <1>4, <1>7, <2>1, <2>4 DEF TakenBack
  <2>0. PICK h : h = Len(x)
    BY ONLY Zenon
  <2>6. /\ h = Len(x) /\ x = SubSeq(t, 1, h) /\ h <= Len(t) /\ x \in Seq(1..255)
        /\ (Len(t) <= n => x = t)
    BY <1>3, <2>0, <1>4, <2>5, CutIsPrefix
  <2>7. h \in 0..Len(t)
    BY <1>3, <2>6
  <2>8. IsPrefix(x, t)
    BY ONLY <1>3, <2>6, <2>7, PrefixOf
  <2>9. back.cap > Len(t) => x = t
    BY <1>3, <1>4, <2>6
  <2> QED
    BY <1>1, <2>8, <2>9
<1> QED
  BY <1>5, <1>6, <1>7

-----------------------------------------------------------------------------
(* locale.c: the number without its separators, and where they are.         *)

LEMMA NotThere ==
  ASSUME NEW X, NEW a \in Seq(X), NEW b \in Seq(X), NEW c, c \notin Range(a \o b)
  PROVE  c \notin Range(a) /\ c \notin Range(b)
<1>1. PICK y : y = a \o b
  OBVIOUS
<1>2. /\ y \in Seq(X) /\ Len(y) = Len(a) + Len(b) /\ Len(a) \in Nat /\ Len(b) \in Nat
      /\ \A i \in 1..Len(a) : y[i] = a[i]
      /\ \A i \in 1..Len(b) : y[Len(a) + i] = b[i]
  BY ONLY <1>1, a \in Seq(X), b \in Seq(X), Joined
<1>3. /\ DOMAIN y = 1..Len(y) /\ DOMAIN a = 1..Len(a) /\ DOMAIN b = 1..Len(b)
  BY <1>2
<1>4. \A i \in 1..Len(y) : y[i] # c
  BY <1>1, <1>3 DEF Range
<1>5. PICK m, l : m = Len(a) /\ l = Len(b) /\ m \in Nat /\ l \in Nat
  BY <1>2
<1>6. \A i \in 1..m : i \in 1..m + l
  BY ONLY <1>5
<1>7. \A i \in 1..l : m + i \in 1..m + l
  BY ONLY <1>5
<1>8. (\A i \in 1..m : a[i] # c) /\ \A i \in 1..l : b[i] # c
  BY <1>2, <1>4, <1>5, <1>6, <1>7
<1> QED
  BY <1>3, <1>5, <1>8 DEF Range

(* The groups of a number: one more character after a digit that is marked. *)
Marked(n, i) == (n - i) % 3 = 0 /\ i < n
Group(d, c, i) == IF Marked(Len(d), i) THEN <<d[i], c>> ELSE <<d[i]>>
Groups(d, c) == [i \in DOMAIN d |-> Group(d, c, i)]

LEMMA GroupsTyped ==
  ASSUME NEW X, NEW d \in Seq(X), NEW c \in X
  PROVE  /\ Groups(d, c) \in Seq(Seq(X)) /\ Len(Groups(d, c)) = Len(d)
         /\ \A i \in 1..Len(d) : Groups(d, c)[i] = Group(d, c, i)
         /\ Grouped(d, c) = FlattenSeq(Groups(d, c)) /\ Grouped(d, c) \in Seq(X)
<1>1. PICK n : n = Len(d) /\ n \in Nat /\ DOMAIN d = 1..n /\ \A i \in 1..n : d[i] \in X
  OBVIOUS
<1>2. PICK V, g : V = Seq(X) /\ g = Groups(d, c)
  OBVIOUS
<1>3. ASSUME NEW i \in 1..n
      PROVE  Group(d, c, i) \in V
  <2>1. <<d[i], c>> \in Seq(X) /\ <<d[i]>> \in Seq(X)
    BY <1>1
  <2> QED
    BY <1>2, <2>1 DEF Group
<1>4. g = [i \in 1..n |-> Group(d, c, i)]
  BY <1>1, <1>2 DEF Groups
<1>5. g \in [1..n -> V]
  BY ONLY <1>3, <1>4
<1>6. g \in Seq(V) /\ Len(g) = n
  BY ONLY <1>1, <1>5
<1>7. \A i \in 1..n : g[i] = Group(d, c, i)
  BY ONLY <1>4
<1>8. Grouped(d, c) = FlattenSeq(g)
  BY <1>2, Zenon DEF Grouped, Groups, Group, Marked
<1>9. FlattenSeq(g) \in Seq(X)
  <2>1. << >> \in Seq(X) /\ g \in Seq(Seq(X))
    BY <1>2, <1>6
  <2> QED
    BY <2>1, FlattenAppend, Zenon
<1> QED
  BY <1>1, <1>2, <1>6, <1>7, <1>8, <1>9

(* Without the separators the groups are the digits.                        *)
Strips(h, X, c) == h = [x \in X |-> IF x = c THEN << >> ELSE <<x>>]

LEMMA StripsTyped ==
  ASSUME NEW X, NEW c, NEW h, Strips(h, X, c)
  PROVE  /\ h \in [X -> Seq(X)]
         /\ \A x \in X : h[x] = IF x = c THEN << >> ELSE <<x>>
<1>1. PICK V : V = Seq(X)
  OBVIOUS
<1>2. \A x \in X : (IF x = c THEN << >> ELSE <<x>>) \in V
  BY <1>1
<1>3. h = [x \in X |-> IF x = c THEN << >> ELSE <<x>>]
  BY DEF Strips
<1>4. h \in [X -> V]
  BY ONLY <1>2, <1>3
<1> QED
  BY <1>1, <1>3, <1>4

LEMMA GroupsStripped ==
  ASSUME NEW X, NEW d \in Seq(X), NEW c \in X, c \notin Range(d), NEW h, Strips(h, X, c)
  PROVE  Over(h, Grouped(d, c)) = d
<1>1. PICK n, g : n = Len(d) /\ n \in Nat /\ g = Groups(d, c)
  OBVIOUS
<1>2. /\ g \in Seq(Seq(X)) /\ Len(g) = n /\ \A i \in 1..n : g[i] = Group(d, c, i)
      /\ Grouped(d, c) = FlattenSeq(g)
  BY <1>1, GroupsTyped
<1>3. h \in [X -> Seq(X)] /\ \A x \in X : h[x] = IF x = c THEN << >> ELSE <<x>>
  BY StripsTyped
<1>4. \A i \in 1..n : d[i] \in X /\ d[i] # c
  BY <1>1 DEF Range
<1>5. ASSUME NEW i \in 1..n
      PROVE  Over(h, g[i]) = <<d[i]>>
  <2>1. PICK x, u, w : x = d[i] /\ u = <<x>> /\ w = <<c>>
    OBVIOUS
  <2>2. x \in X /\ x # c /\ u \in Seq(X) /\ w \in Seq(X)
    BY <1>4, <2>1
  <2>3. h[x] = u /\ h[c] = << >>
    BY <1>3, <2>1, <2>2
  <2>4. Over(h, u) = u
    <3>1. Over(h, <<x>>) = h[x]
      BY ONLY <1>3, <2>2, OverOne
    <3> QED
      BY <2>1, <2>3, <3>1
  <2>5. Over(h, w) = << >>
    <3>1. Over(h, <<c>>) = h[c]
      BY ONLY <1>3, c \in X, OverOne
    <3> QED
      BY <2>1, <2>3, <3>1
  <2>6. Over(h, u \o w) = Over(h, u) \o Over(h, w)
    <3>1. Joinable(h, X, X, u, w)
      BY <1>3, <2>2, Zenon DEF Joinable
    <3> QED
      BY ONLY <3>1, OverTwo
  <2>7. u \o << >> = u /\ u \o w = <<x, c>>
    <3>1. u \o << >> = u
      BY ONLY <2>2
    <3>2. <<x>> \o <<c>> = <<x, c>>
      <4>2. <<x>> \in Seq(X)
        BY <2>1, <2>2
      <4>1. Append(<<x>>, c) = <<x, c>>
        <5>1. PICK z, t : z = Append(<<x>>, c) /\ t = <<x, c>>
          OBVIOUS
        <5>2. z \in Seq(X) /\ Len(z) = 2 /\ z[1] = x /\ z[2] = c
          BY ONLY <4>2, <5>1, c \in X
        <5>3. t \in Seq(X) /\ Len(t) = 2 /\ t[1] = x /\ t[2] = c
          BY ONLY <2>2, <5>1, c \in X
        <5>4. z = t
          BY ONLY <5>2, <5>3, SeqEqual
        <5> QED
          BY <5>1, <5>4
      <4>3. Append(<<x>>, c) = <<x>> \o <<c>>
        BY ONLY <4>2, c \in X, AppendIsConcat, Zenon
      <4> QED
        BY ONLY <4>1, <4>3
    <3> QED
      BY ONLY <2>1, <3>1, <3>2
  <2>8. g[i] = u \/ g[i] = u \o w
    BY <1>2, <2>1, <2>7 DEF Group
  <2> QED
    BY <2>1, <2>4, <2>5, <2>6, <2>7, <2>8, Zenon
<1>6. Singly(h, X, g, d)
  BY <1>1, <1>2, <1>3, <1>5, Zenon DEF Singly
<1> QED
  BY <1>2, <1>6, OverSingles, Zenon

(* A number: sign, digits, separator, point, what follows it.               *)
NumberOf(X, s, d, c, p, e) ==
  /\ s \in Seq(X) /\ d \in Seq(X) /\ c \in X /\ p \in Seq(X) /\ e \in Seq(X)
  /\ Len(d) >= 1 /\ Len(p) = 1 /\ c \notin Range(s \o d \o p \o e)

LEMMA NumberStripped ==
  ASSUME NEW X, NEW s, NEW d, NEW c, NEW p, NEW e, NumberOf(X, s, d, c, p, e),
         NEW h, Strips(h, X, c)
  PROVE  Over(h, s \o Grouped(d, c) \o p \o e) = s \o d \o p \o e
<1>0. /\ s \in Seq(X) /\ d \in Seq(X) /\ c \in X /\ p \in Seq(X) /\ e \in Seq(X)
      /\ c \notin Range(s \o d \o p \o e)
  BY Zenon DEF NumberOf
<1>1. PICK g : g = Grouped(d, c) /\ g \in Seq(X)
  BY <1>0, GroupsTyped
<1>2. s \o d \in Seq(X) /\ s \o d \o p \in Seq(X) /\ s \o g \in Seq(X) /\ s \o g \o p \in Seq(X)
  BY <1>0, <1>1
<1>3. c \notin Range(s \o d \o p) /\ c \notin Range(e)
  BY <1>0, <1>2, NotThere
<1>4. c \notin Range(s \o d) /\ c \notin Range(p)
  BY <1>0, <1>2, <1>3, NotThere
<1>5. c \notin Range(s) /\ c \notin Range(d)
  BY <1>0, <1>4, NotThere
<1>6. h \in [X -> Seq(X)] /\ \A x \in X : h[x] = IF x = c THEN << >> ELSE <<x>>
  BY StripsTyped
<1>7. ASSUME NEW t \in Seq(X), c \notin Range(t)
      PROVE  Over(h, t) = t
  <2>1. \A i \in 1..Len(t) : t[i] \in X /\ t[i] # c
    BY <1>7 DEF Range
  <2>2. \A i \in 1..Len(t) : h[t[i]] = <<t[i]>>
    BY <1>6, <2>1
  <2> QED
    BY ONLY <1>6, <2>2, t \in Seq(X), OverItself
<1>8. Over(h, g) = d
  BY <1>0, <1>1, <1>5, GroupsStripped
<1>9. ASSUME NEW a \in Seq(X), NEW b \in Seq(X)
      PROVE  Over(h, a \o b) = Over(h, a) \o Over(h, b)
  <2>1. Joinable(h, X, X, a, b)
    BY <1>6, Zenon DEF Joinable
  <2> QED
    BY ONLY <2>1, OverTwo
<1>10. Over(h, s) = s /\ Over(h, p) = p /\ Over(h, e) = e
  BY <1>0, <1>3, <1>4, <1>5, <1>7
<1>11. Over(h, s \o g) = s \o d
  <2>1. Over(h, s \o g) = Over(h, s) \o Over(h, g)
    BY ONLY <1>0, <1>1, <1>9
  <2> QED
    BY ONLY <2>1, <1>8, <1>10
<1>12. Over(h, (s \o g) \o p) = (s \o d) \o p
  <2>1. PICK a : a = s \o g /\ a \in Seq(X)
    BY <1>2
  <2>2. Over(h, a \o p) = Over(h, a) \o Over(h, p)
    BY <1>0, <1>9, <2>1
  <2> QED
    BY ONLY <1>10, <1>11, <2>1, <2>2
<1>13. Over(h, ((s \o g) \o p) \o e) = ((s \o d) \o p) \o e
  <2>1. PICK a : a = (s \o g) \o p /\ a \in Seq(X)
    BY <1>2
  <2>2. Over(h, a \o e) = Over(h, a) \o Over(h, e)
    BY <1>0, <1>9, <2>1
  <2> QED
    BY ONLY <1>10, <1>12, <2>1, <2>2
<1> QED
  BY <1>1, <1>13

(* Where the groups lie: their lengths, from the end.                       *)
LEMMA GroupsReach ==
  ASSUME NEW X, NEW d \in Seq(X), NEW c \in X, NEW ends, NEW n, n = Len(d),
         Places(ends, Groups(d, c), Grouped(d, c), X)
  PROVE  \A m \in 0..n : ends[n] = ends[n - m] + (IF m = 0 THEN 0 ELSE m + ((m - 1) \div 3))
<1>1. n \in Nat
  OBVIOUS
<1>2. PICK g : g = Groups(d, c)
  OBVIOUS
<1>3. /\ Len(g) = n /\ \A i \in 1..n : g[i] = Group(d, c, i)
  BY <1>2, GroupsTyped
<1>4. ends \in [0..n -> Nat] /\ \A j \in 1..n : ends[j] = ends[j - 1] + Len(g[j])
  BY <1>2, <1>3 DEF Places
<1>5. \A j \in 1..n : Len(g[j]) = IF (n - j) % 3 = 0 /\ j < n THEN 2 ELSE 1
  <2>1. ASSUME NEW j \in 1..n
        PROVE  Len(g[j]) = IF (n - j) % 3 = 0 /\ j < n THEN 2 ELSE 1
    <3>1. g[j] = Group(d, c, j)
      BY <1>3
    <3>2. Len(<<d[j], c>>) = 2 /\ Len(<<d[j]>>) = 1
      OBVIOUS
    <3>3. PICK two, one : two = <<d[j], c>> /\ one = <<d[j]>>
      OBVIOUS
    <3>4. g[j] = IF (n - j) % 3 = 0 /\ j < n THEN two ELSE one
      BY <3>1, <3>3, Zenon DEF Group, Marked
    <3> QED
      BY ONLY <3>2, <3>3, <3>4
  <2> QED
    BY <2>1
<1> DEFINE Gap(m) == IF m = 0 THEN 0 ELSE m + ((m - 1) \div 3)
           good == {m \in 0..n : ends[n] = ends[n - m] + Gap(m)}
<1>6. 0 \in good
  <2>1. n - 0 = n /\ n \in 0..n /\ 0 \in 0..n
    BY <1>1
  <2> QED
    BY <1>4, <2>1
<1>7. ASSUME NEW m \in 1..n, m - 1 \in good
      PROVE  m \in good
  <2>1. PICK j : j = n - (m - 1) /\ j \in 1..n /\ j - 1 = n - m /\ n - j = m - 1 /\ (j < n <=> m > 1)
    BY <1>1
  <2>2. j \in 0..n /\ j - 1 \in 0..n /\ n \in 0..n /\ m \in 0..n
    BY <1>1, <2>1
  <2>3. PICK x, y, z : x = ends[j - 1] /\ y = ends[j] /\ z = ends[n]
    OBVIOUS
  <2>4. x \in Nat /\ y \in Nat /\ z \in Nat
    BY <1>4, <2>2, <2>3
  <2>5. z = y + Gap(m - 1)
    BY <1>7, <2>1, <2>3
  <2>6. y = x + (IF (m - 1) % 3 = 0 /\ m > 1 THEN 2 ELSE 1)
    BY <1>4, <1>5, <2>1, <2>3
  <2>7. z = x + Gap(m)
    <3>1. m \in Nat /\ m >= 1
      BY <1>1
    <3>2. CASE m = 1
      BY ONLY <2>4, <2>5, <2>6, <3>2
    <3>3. CASE m > 1
      <4>1. PICK k : k = m - 2 /\ k \in Nat
        BY <3>1, <3>3
      <4>2. Gap(m - 1) = m - 1 + (k \div 3) /\ Gap(m) = m + ((k + 1) \div 3)
        BY <3>1, <3>3, <4>1
      <4>3. (k + 1) \div 3 = (k \div 3) + (IF (k + 1) % 3 = 0 THEN 1 ELSE 0)
        BY ONLY <4>1
      <4>4. k + 1 = m - 1
        BY <3>1, <4>1
      <4>5. k \div 3 \in Nat /\ (k + 1) \div 3 \in Nat
        BY ONLY <4>1
      <4>6. y = x + (IF (k + 1) % 3 = 0 THEN 2 ELSE 1)
        BY <2>6, <3>3, <4>4
      <4> QED
        BY ONLY <2>4, <2>5, <3>1, <4>2, <4>3, <4>5, <4>6
    <3> QED
      BY <3>1, <3>2, <3>3
  <2> QED
    BY <2>1, <2>2, <2>3, <2>7
<1>8. \A m \in 0..n : m \in good
  <2> HIDE DEF good
  <2> QED
    BY <1>1, <1>6, <1>7, Climb
<1> QED
  BY <1>8

(* The separators among the groups: after each digit that is marked.        *)
EveryFourth(g, n, c) ==
  /\ \A m \in 1..Len(g) : g[m] = c => \E k \in 1..(n - 1) \div 3 : m = Len(g) + 1 - 4 * k
  /\ \A k \in 1..(n - 1) \div 3 :
       Len(g) + 1 - 4 * k \in 1..Len(g) /\ g[Len(g) + 1 - 4 * k] = c
LEMMA GroupSeparators ==
  ASSUME NEW X, NEW d \in Seq(X), NEW c \in X, c \notin Range(d), Len(d) >= 1
  PROVE  EveryFourth(Grouped(d, c), Len(d), c)
<1>0. PICK g, n : g = Grouped(d, c) /\ n = Len(d)
  BY ONLY Zenon
<1>1. n \in Nat /\ n >= 1 /\ \A i \in 1..n : d[i] # c
  BY <1>0 DEF Range
<1>2. PICK s : s = Groups(d, c)
  OBVIOUS
<1>3. /\ s \in Seq(Seq(X)) /\ Len(s) = n /\ \A i \in 1..n : s[i] = Group(d, c, i)
      /\ g = FlattenSeq(s)
  BY <1>0, <1>2, GroupsTyped
<1>4. PICK ends : Places(ends, s, g, X)
  BY <1>3, FlattenPlaces
<1>5. \A m \in 0..n : ends[n] = ends[n - m] + (IF m = 0 THEN 0 ELSE m + ((m - 1) \div 3))
  BY <1>0, <1>2, <1>4, GroupsReach
<1>6. /\ ends \in [0..n -> Nat] /\ Len(g) = ends[n]
      /\ \A j \in 1..n : /\ ends[j] = ends[j - 1] + Len(s[j])
                         /\ \A k \in 1..Len(s[j]) : g[ends[j - 1] + k] = s[j][k]
  BY <1>3, <1>4 DEF Places
<1>7. PICK w : w = ends[n] /\ w \in Nat /\ w = Len(g)
  BY <1>1, <1>6
<1>8. ASSUME NEW j \in 1..n
      PROVE  IF (n - j) % 3 = 0 /\ j < n
             THEN Len(s[j]) = 2 /\ s[j][1] = d[j] /\ s[j][2] = c
             ELSE Len(s[j]) = 1 /\ s[j][1] = d[j]
  <2>1. s[j] = IF (n - j) % 3 = 0 /\ j < n THEN <<d[j], c>> ELSE <<d[j]>>
    BY <1>0, <1>3, Zenon DEF Group, Marked
  <2> QED
    BY <2>1
<1>9. ASSUME NEW j \in 1..n, (n - j) % 3 = 0, j < n
      PROVE  \E k \in 1..(n - 1) \div 3 : ends[j] = w + 1 - 4 * k /\ n - j = 3 * k
  <2>1. PICK m : m = n - j /\ m \in 1..n - 1 /\ m \in 0..n /\ n - m = j
    BY <1>1, <1>9
  <2>2. PICK x : x = ends[j] /\ x \in Nat
    BY <1>6
  <2>3. w = x + (m + ((m - 1) \div 3))
    <3>1. ends[n] = ends[n - m] + (IF m = 0 THEN 0 ELSE m + ((m - 1) \div 3))
      BY <1>5, <2>1
    <3>2. m # 0
      BY <1>1, <2>1
    <3> QED
      BY ONLY <1>7, <2>1, <2>2, <3>1, <3>2
  <2>4. PICK k : k = m \div 3
    OBVIOUS
  <2>5. m % 3 = 0 /\ m \in Nat /\ m >= 1
    BY <1>9, <2>1
  <2>6. k \in Nat /\ m = 3 * k /\ (m - 1) \div 3 = k - 1 /\ k >= 1
    BY ONLY <2>4, <2>5
  <2>7. k <= (n - 1) \div 3
    <3>1. 3 * k <= n - 1
      BY <1>1, <2>1, <2>6
    <3> QED
      BY ONLY <1>1, <2>6, <3>1
  <2>8. k \in 1..(n - 1) \div 3
    BY <1>1, <2>6, <2>7
  <2>9. x = w + 1 - 4 * k
    BY ONLY <1>7, <2>2, <2>3, <2>6
  <2> QED
    BY <2>1, <2>2, <2>6, <2>8, <2>9
<1>10. ASSUME NEW m \in 1..Len(g), g[m] = c
       PROVE  \E k \in 1..(n - 1) \div 3 : m = Len(g) + 1 - 4 * k
  <2>1. PICK j \in 1..n : \E k \in 1..Len(s[j]) : m = ends[j - 1] + k /\ g[m] = s[j][k]
    <3>1. s \in Seq(Seq(X))
      BY <1>3
    <3>2. LiesIn(ends, s, g, m)
      BY ONLY <1>4, <3>1, m \in 1..Len(g), PlaceOf
    <3>3. Len(s) = n
      BY <1>3
    <3> QED
      BY ONLY <3>2, <3>3 DEF LiesIn
  <2>2. PICK k \in 1..Len(s[j]) : m = ends[j - 1] + k /\ g[m] = s[j][k]
    BY <2>1
  <2>3. s[j][1] # c
    BY <1>1, <1>8
  <2>4. k # 1
    BY <1>10, <2>2, <2>3
  <2>5. (n - j) % 3 = 0 /\ j < n /\ k = 2 /\ Len(s[j]) = 2
    BY <1>8, <2>2, <2>4
  <2>6. ends[j] = ends[j - 1] + Len(s[j])
    BY <1>6
  <2>7. m = ends[j]
    BY <2>2, <2>5, <2>6
  <2> QED
    BY <1>7, <1>9, <2>5, <2>7
<1>11. ASSUME NEW k \in 1..(n - 1) \div 3
       PROVE  Len(g) + 1 - 4 * k \in 1..Len(g) /\ g[Len(g) + 1 - 4 * k] = c
  <2>0. PICK m : m = Len(g) + 1 - 4 * k
    OBVIOUS
  <2>1. 3 * k <= n - 1 /\ k \in Nat /\ k >= 1
    BY <1>1
  <2>2. PICK j : j = n - 3 * k /\ j \in 1..n /\ j < n /\ (n - j) % 3 = 0 /\ n - j = 3 * k
    BY <1>1, <2>1
  <2>3. PICK l \in 1..(n - 1) \div 3 : ends[j] = w + 1 - 4 * l /\ n - j = 3 * l
    BY <1>9, <2>2
  <2>4. l = k
    BY <1>1, <2>1, <2>2, <2>3
  <2>5. m = ends[j]
    BY <1>7, <2>0, <2>3, <2>4
  <2>6. Len(s[j]) = 2 /\ s[j][2] = c
    BY <1>8, <2>2
  <2>7. ends[j] = ends[j - 1] + 2 /\ 2 \in 1..Len(s[j])
    <3>1. ends[j] = ends[j - 1] + Len(s[j])
      BY <1>6, <2>2
    <3>2. 2 \in 1..2
      OBVIOUS
    <3> QED
      BY ONLY <2>6, <3>1, <3>2
  <2>8. g[ends[j - 1] + 2] = s[j][2]
    BY <1>6, <2>2, <2>7
  <2>9. m \in 1..Len(g)
    <3>1. j - 1 \in 0..n
      BY <1>1, <2>2
    <3>2. ends[j - 1] \in Nat
      BY <1>6, <3>1
    <3> QED
      BY <1>7, <2>0, <2>1, <2>5, <2>7, <3>2
  <2> QED
    BY <2>0, <2>5, <2>6, <2>7, <2>8, <2>9
<1> QED
  BY <1>0, <1>10, <1>11 DEF EveryFourth

(* The separators of a number: every fourth place before the point.         *)
SeparatorsIn(text, d, c, e) ==
  LET point == Len(text) - Len(e)
  IN  {i \in 1..point : text[i] = c} = {point - 4 * k : k \in 1..(Len(d) - 1) \div 3}
LEMMA NumberSeparators ==
  ASSUME NEW X, NEW s, NEW d, NEW c, NEW p, NEW e, NumberOf(X, s, d, c, p, e)
  PROVE  SeparatorsIn(s \o Grouped(d, c) \o p \o e, d, c, e)
<1>00. /\ s \in Seq(X) /\ d \in Seq(X) /\ c \in X /\ p \in Seq(X) /\ e \in Seq(X)
       /\ Len(d) >= 1 /\ Len(p) = 1 /\ c \notin Range(s \o d \o p \o e)
  BY Zenon DEF NumberOf
<1>01. PICK text : text = s \o Grouped(d, c) \o p \o e
  OBVIOUS
<1>02. PICK point : point = Len(text) - Len(e)
  BY ONLY Zenon
<1>0. PICK g, n : g = Grouped(d, c) /\ n = Len(d)
  BY ONLY Zenon
<1>1. g = Grouped(d, c) /\ g \in Seq(X) /\ n = Len(d) /\ n \in Nat /\ n >= 1
  <2>1. g \in Seq(X)
    BY <1>00, <1>0, GroupsTyped
  <2> QED
    BY <1>00, <1>0, <2>1
<1>2. s \o d \in Seq(X) /\ s \o d \o p \in Seq(X)
  BY <1>00
<1>3. c \notin Range(s \o d \o p)
  BY <1>00, <1>2, NotThere
<1>4. c \notin Range(s \o d) /\ c \notin Range(p)
  BY <1>00, <1>2, <1>3, NotThere
<1>5. c \notin Range(s) /\ c \notin Range(d)
  BY <1>00, <1>4, NotThere
<1>6. (\A i \in 1..Len(s) : s[i] # c) /\ p[1] # c
  BY <1>00, <1>4, <1>5 DEF Range
<1>7. /\ \A m \in 1..Len(g) : g[m] = c => \E k \in 1..(n - 1) \div 3 : m = Len(g) + 1 - 4 * k
      /\ \A k \in 1..(n - 1) \div 3 :
           Len(g) + 1 - 4 * k \in 1..Len(g) /\ g[Len(g) + 1 - 4 * k] = c
  <2>1. EveryFourth(Grouped(d, c), Len(d), c)
    BY <1>00, <1>5, GroupSeparators
  <2> QED
    BY <1>0, <2>1, Zenon DEF EveryFourth
<1>80. PICK a : a = s \o g
  OBVIOUS
<1>81. PICK b : b = a \o p
  OBVIOUS
<1>8. a = s \o g /\ b = a \o p /\ a \in Seq(X) /\ b \in Seq(X) /\ text = b \o e
  <2>1. a \in Seq(X)
    BY <1>00, <1>1, <1>80
  <2>2. b \in Seq(X)
    BY <1>00, <1>81, <2>1
  <2> QED
    BY <1>0, <1>01, <1>80, <1>81, <2>1, <2>2
<1>90. PICK S, w : S = Len(s) /\ w = Len(g)
  BY ONLY Zenon
<1>9. S = Len(s) /\ w = Len(g) /\ S \in Nat /\ w \in Nat
  BY <1>00, <1>1, <1>90
<1>10. /\ Len(a) = S + w /\ \A i \in 1..S : a[i] = s[i]
       /\ \A i \in 1..w : a[S + i] = g[i]
  <2>1. /\ a \in Seq(X) /\ Len(a) = Len(s) + Len(g) /\ Len(s) \in Nat /\ Len(g) \in Nat
        /\ \A i \in 1..Len(s) : a[i] = s[i]
        /\ \A i \in 1..Len(g) : a[Len(s) + i] = g[i]
    BY ONLY <1>00, <1>1, <1>8, Joined
  <2> QED
    BY ONLY <1>9, <2>1
<1>11. /\ Len(b) = S + w + 1 /\ \A i \in 1..S + w : b[i] = a[i]
       /\ b[S + w + 1] = p[1]
  <2>1. /\ b \in Seq(X) /\ Len(b) = Len(a) + Len(p) /\ Len(a) \in Nat /\ Len(p) \in Nat
        /\ \A i \in 1..Len(a) : b[i] = a[i]
        /\ \A i \in 1..Len(p) : b[Len(a) + i] = p[i]
    <3>1. a \in Seq(X) /\ p \in Seq(X) /\ b = a \o p
      BY <1>00, <1>8
    <3> QED
      BY ONLY <3>1, Joined
  <2>2. 1 \in 1..Len(p)
    BY <1>00
  <2> QED
    BY ONLY <1>00, <1>10, <2>1, <2>2
<1>12. Len(text) = S + w + 1 + Len(e) /\ Len(e) \in Nat /\ \A i \in 1..S + w + 1 : text[i] = b[i]
  <2>1. /\ text \in Seq(X) /\ Len(text) = Len(b) + Len(e) /\ Len(b) \in Nat /\ Len(e) \in Nat
        /\ \A i \in 1..Len(b) : text[i] = b[i]
        /\ \A i \in 1..Len(e) : text[Len(b) + i] = e[i]
    BY ONLY <1>00, <1>8, Joined
  <2> QED
    BY ONLY <1>11, <2>1
<1>13. point = S + w + 1
  BY <1>02, <1>9, <1>12
<1>14. ASSUME NEW i \in 1..S
       PROVE  text[i] # c
  <2>1. i \in 1..S + w /\ i \in 1..S + w + 1
    BY <1>9
  <2> QED
    BY <1>6, <1>9, <1>10, <1>11, <1>12, <2>1
<1>15. ASSUME NEW m \in 1..w
       PROVE  text[S + m] = g[m]
  <2>1. S + m \in 1..S + w /\ S + m \in 1..S + w + 1
    BY <1>9
  <2>2. text[S + m] = b[S + m] /\ b[S + m] = a[S + m] /\ a[S + m] = g[m]
    BY <1>10, <1>11, <1>12, <2>1
  <2> QED
    BY ONLY <2>2
<1>16. text[S + w + 1] # c
  <2>1. S + w + 1 \in 1..S + w + 1
    BY <1>9
  <2> QED
    BY <1>6, <1>11, <1>12, <2>1
<1>17. ASSUME NEW i \in 1..point, text[i] = c
       PROVE  \E k \in 1..(n - 1) \div 3 : i = point - 4 * k
  <2>1. i \in 1..S + w + 1 /\ i \notin 1..S /\ i # S + w + 1
    BY <1>13, <1>14, <1>16, <1>17
  <2>2. PICK m : m = i - S
    OBVIOUS
  <2>3. m \in 1..w /\ i = S + m
    BY ONLY <1>9, <2>1, <2>2
  <2>4. g[m] = c
    BY <1>15, <1>17, <2>3
  <2>5. PICK k \in 1..(n - 1) \div 3 : m = w + 1 - 4 * k
    BY <1>7, <1>9, <2>3, <2>4
  <2>6. i = point - 4 * k
    BY <1>9, <1>13, <2>3, <2>5
  <2> QED
    BY <2>6
<1>18. ASSUME NEW k \in 1..(n - 1) \div 3
       PROVE  point - 4 * k \in 1..point /\ text[point - 4 * k] = c
  <2>1. k \in Nat /\ k >= 1
    BY <1>1
  <2>2. PICK m : m = w + 1 - 4 * k
    OBVIOUS
  <2>3. m \in 1..w
    BY <1>7, <1>9, <2>2
  <2>4. g[m] = c
    BY <1>7, <1>9, <2>2, <2>3
  <2>5. point - 4 * k = S + m /\ S + m \in 1..point
    BY <1>9, <1>13, <2>1, <2>2, <2>3
  <2> QED
    BY <1>15, <2>3, <2>4, <2>5
<1>19. ASSUME NEW i
       PROVE  i \in {j \in 1..point : text[j] = c} <=> i \in {point - 4 * k : k \in 1..(n - 1) \div 3}
  <2>1. i \in 1..point /\ text[i] = c => \E k \in 1..(n - 1) \div 3 : i = point - 4 * k
    BY <1>17
  <2>2. (\E k \in 1..(n - 1) \div 3 : i = point - 4 * k) => i \in 1..point /\ text[i] = c
    BY <1>18, Zenon
  <2> QED
    BY <2>1, <2>2, Zenon
<1>20. {i \in 1..point : text[i] = c} = {point - 4 * k : k \in 1..(n - 1) \div 3}
  BY <1>19, Zenon
<1> QED
  BY <1>0, <1>01, <1>02, <1>20, Zenon DEF SeparatorsIn

(* What was formatted last, under the locale of the time.                   *)
FigureInv ==
  figure # NoFigure =>
    /\ figure.minus \in BOOLEAN
    /\ \E n \in 1..8 : figure.digits = SubSeq(Digits, 1, n)
    /\ figure.text = Sign(figure.minus) \o Grouped(figure.digits, Separator(figure.under))
                       \o <<Point(figure.under)>> \o Cents

LEMMA FigureStarts == LocaleInit => FigureInv
BY DEF LocaleInit, FigureInv

LEMMA FigureKeeps ==
  ASSUME FigureInv, [LocaleStep]_localeVars
  PROVE  FigureInv'
<1>1. CASE figure' = figure
  BY <1>1 DEF FigureInv
<1>2. CASE \E minus \in BOOLEAN, n \in 1..MaxDigits : Format(minus, SubSeq(Digits, 1, n))
  <2>1. PICK minus \in BOOLEAN, n \in 1..MaxDigits : Format(minus, SubSeq(Digits, 1, n))
    BY <1>2
  <2>2. n \in 1..8
    BY LocaleAssumption
  <2>3. PICK d : d = SubSeq(Digits, 1, n)
    OBVIOUS
  <2>4. figure' = [minus |-> minus, digits |-> d, text |-> FormatNumber(minus, d), under |-> locale]
    BY <2>1, <2>3 DEF Format
  <2>5. FormatNumber(minus, d)
          = Sign(minus) \o Grouped(d, Separator(locale)) \o <<Point(locale)>> \o Cents
    BY DEF FormatNumber
  <2> QED
    BY <2>2, <2>3, <2>4, <2>5 DEF FigureInv
<1>3. \/ figure' = figure
      \/ \E minus \in BOOLEAN, n \in 1..MaxDigits : Format(minus, SubSeq(Digits, 1, n))
  BY DEF LocaleStep, localeVars, SetLocale, Convert, ConvertBack
<1> QED
  BY <1>1, <1>2, <1>3

LEMMA FigureExact == FigureInv => NumberReadsBack
<1> SUFFICES ASSUME FigureInv, figure # NoFigure,
                    Separator(figure.under)
                      \notin Range(Sign(figure.minus) \o figure.digits \o <<Point(figure.under)>> \o Cents)
             PROVE  NumberReadsBack
  BY Zenon DEF NumberReadsBack
<1>1. PICK c, q, s, d, text : /\ c = Separator(figure.under) /\ q = Point(figure.under)
                              /\ s = Sign(figure.minus) /\ d = figure.digits /\ text = figure.text
  OBVIOUS
<1>2. PICK p, e : p = <<q>> /\ e = Cents
  OBVIOUS
<1>3. PICK X : X = {c, q, "-"} \cup {"0", "1", "2", "3", "4", "5", "6", "7", "8"}
  OBVIOUS
<1>4. s \in Seq(X) /\ p \in Seq(X) /\ Len(p) = 1 /\ e \in Seq(X) /\ Len(e) = 2 /\ c \in X
  <2>1. s \in Seq(X)
    <3>1. figure.minus \in BOOLEAN
      BY DEF FigureInv
    <3>2. s = <<"-">> \/ s = << >>
      BY ONLY <1>1, <3>1 DEF Sign
    <3>3. "-" \in X
      BY ONLY <1>3
    <3>4. <<"-">> \in Seq(X) /\ << >> \in Seq(X)
      BY ONLY <3>3
    <3> QED
      BY ONLY <3>2, <3>4
  <2>2. p \in Seq(X) /\ Len(p) = 1
    BY <1>2, <1>3
  <2>3. e \in Seq(X) /\ Len(e) = 2
    BY <1>2, <1>3 DEF Cents
  <2> QED
    BY <1>3, <2>1, <2>2, <2>3
<1>5. d \in Seq(X) /\ Len(d) >= 1
  <2>1. PICK n \in 1..8 : d = SubSeq(Digits, 1, n)
    BY <1>1 DEF FigureInv
  <2>2. PICK t : t = Digits
    OBVIOUS
  <2>3. t \in Seq(X) /\ Len(t) = 8
    BY <1>3, <2>2 DEF Digits
  <2>4. SubSeq(t, 1, n) \in Seq(X) /\ Len(SubSeq(t, 1, n)) = n
    <3>1. n \in Nat /\ n >= 1 /\ n <= 8
      OBVIOUS
    <3>2. t \in Seq(X) /\ n \in 1..Len(t)
      BY <2>3, <3>1
    <3>3. SubSeq(t, 1, n) \in Seq(X)
      BY ONLY <3>2, NextFront
    <3>4. Len(SubSeq(t, 1, n)) = n
      BY ONLY <3>1, <3>2
    <3> QED
      BY <3>3, <3>4
  <2> QED
    BY <2>1, <2>2, <2>4
<1>6. text = s \o Grouped(d, c) \o p \o e /\ c \notin Range(s \o d \o p \o e)
  BY <1>1, <1>2, Zenon DEF FigureInv
<1>60. NumberOf(X, s, d, c, p, e)
  BY <1>4, <1>5, <1>6, Zenon DEF NumberOf
<1>7. PICK h : h = [x \in X |-> IF x = c THEN << >> ELSE <<x>>]
  OBVIOUS
<1>8. Strips(h, X, c)
  BY <1>7, Zenon DEF Strips
<1>9. Over(h, text) = s \o d \o p \o e
  <2>1. Over(h, s \o Grouped(d, c) \o p \o e) = s \o d \o p \o e
    BY ONLY <1>60, <1>8, NumberStripped
  <2> QED
    BY <1>6, <2>1
<1>10. PICK point : point = Len(text) - Len(e)
  BY ONLY Zenon
<1>11. {i \in 1..point : text[i] = c} = {point - 4 * k : k \in 1..(Len(d) - 1) \div 3}
  <2>1. SeparatorsIn(s \o Grouped(d, c) \o p \o e, d, c, e)
    BY ONLY <1>60, NumberSeparators
  <2> QED
    BY <1>6, <1>10, <2>1, Zenon DEF SeparatorsIn
<1>12. text \in Seq(X)
  <2>1. Grouped(d, c) \in Seq(X)
    BY <1>4, <1>5, GroupsTyped
  <2> QED
    BY <1>4, <1>6, <2>1
<1>13. \A i \in DOMAIN text : text[i] \in X
  BY <1>12
<1>14. [i \in DOMAIN text |-> h[text[i]]]
         = [i \in DOMAIN text |-> IF text[i] = c THEN << >> ELSE <<text[i]>>]
  <2>1. ASSUME NEW i \in DOMAIN text
        PROVE  h[text[i]] = IF text[i] = c THEN << >> ELSE <<text[i]>>
    BY <1>7, <1>13, Zenon
  <2> QED
    BY <2>1, Zenon
<1>15. FlattenSeq([i \in DOMAIN text |-> IF text[i] = c THEN << >> ELSE <<text[i]>>]) = s \o d \o p \o e
  BY <1>9, <1>14, Zenon DEF Over
<1> QED
  BY <1>1, <1>2, <1>10, <1>11, <1>15, Zenon DEF NumberReadsBack

-----------------------------------------------------------------------------
(* shell.c: what was put in for a name is never the beginning of another.   *)

(* A name begins at p of the text: one turn of the loop, and the loop.      *)
NameAt(text, p) ==
  /\ p + 2 <= Len(text) /\ text[p] = "%" /\ text[p + 2] = "%"
  /\ text[p + 1] \in DOMAIN Named
ExpandTurn(b, text, p, t) ==
  IF p > Len(text) THEN << >>
  ELSE IF NameAt(text, p) THEN ValueOf(b, text[p + 1]) \o t[p + 3]
  ELSE <<text[p]>> \o t[p + 1]
Expands(f, b, text) ==
  f = [p \in 1..Len(text) + 4 |-> ExpandTurn(b, text, p, f)]

LEMMA ExpandsExist ==
  ASSUME NEW b, NEW Z, NEW text \in Seq(Z)
  PROVE  \E f : Expands(f, b, text)
<1>1. PICK n : n = Len(text) /\ n \in Nat /\ \A p \in 1..n : text[p] \in Z
  OBVIOUS
<1>2. PICK S : S = Z \cup {b} \cup {Named[x] : x \in DOMAIN Named}
  OBVIOUS
<1>3. PICK put, skip : /\ put = [p \in 1..n |-> IF NameAt(text, p) THEN ValueOf(b, text[p + 1]) ELSE <<text[p]>>]
                       /\ skip = [p \in 1..n |-> IF NameAt(text, p) THEN 3 ELSE 1]
  OBVIOUS
<1>4. put \in [1..n -> Seq(S)]
  <2>1. \A p \in 1..n : NameAt(text, p) => ValueOf(b, text[p + 1]) \in Seq(S)
    <3>1. ASSUME NEW p \in 1..n, NameAt(text, p)
          PROVE  ValueOf(b, text[p + 1]) \in Seq(S)
      <4>1. PICK x : x = text[p + 1] /\ x \in DOMAIN Named
        BY <3>1 DEF NameAt
      <4>2. b \in S /\ Named[x] \in S
        BY <1>2, <4>1
      <4> QED
        BY <4>1, <4>2 DEF ValueOf
    <3> QED
      BY <3>1
  <2>2. \A p \in 1..n : <<text[p]>> \in Seq(S)
    BY <1>1, <1>2
  <2> QED
    BY <1>3, <2>1, <2>2
<1>5. skip \in [1..n -> 1..4]
  BY <1>3
<1>6. PICK f : Walks(f, n, 4, S, put, skip)
  BY <1>1, <1>4, <1>5, WalkExists
<1>7. /\ f \in [1..n + 4 -> Seq(S)] /\ \A p \in n + 1..n + 4 : f[p] = << >>
      /\ \A p \in 1..n : f[p] = put[p] \o f[p + skip[p]]
  BY <1>6 DEF Walks
<1>8. ASSUME NEW p \in 1..n + 4
      PROVE  f[p] = ExpandTurn(b, text, p, f)
  <2>1. CASE p > n
    <3>1. p \in n + 1..n + 4
      BY <1>1, <2>1
    <3> QED
      BY <1>1, <1>7, <2>1, <3>1 DEF ExpandTurn
  <2>2. CASE ~(p > n)
    <3>1. p \in 1..n /\ ~(p > Len(text))
      BY <1>1, <2>2
    <3>2. CASE NameAt(text, p)
      <4>1. put[p] = ValueOf(b, text[p + 1]) /\ skip[p] = 3
        BY <1>3, <3>1, <3>2
      <4> QED
        BY <1>7, <3>1, <3>2, <4>1 DEF ExpandTurn
    <3>3. CASE ~NameAt(text, p)
      <4>1. put[p] = <<text[p]>> /\ skip[p] = 1
        BY <1>3, <3>1, <3>3
      <4> QED
        BY <1>7, <3>1, <3>3, <4>1 DEF ExpandTurn
    <3> QED
      BY <3>2, <3>3
  <2> QED
    BY <2>1, <2>2
<1>9. f = [p \in 1..n + 4 |-> ExpandTurn(b, text, p, f)]
  BY <1>7, <1>8
<1> QED
  BY <1>1, <1>9 DEF Expands

LEMMA ExpandIs ==
  ASSUME NEW b, NEW Z, NEW text \in Seq(Z)
  PROVE  \E f : Expands(f, b, text) /\ Expand(b, text) = f[1]
<1> DEFINE from == CHOOSE from : from =
      [p \in 1..Len(text) + 4 |->
        IF p > Len(text) THEN << >>
        ELSE IF /\ p + 2 <= Len(text) /\ text[p] = "%" /\ text[p + 2] = "%"
                /\ text[p + 1] \in DOMAIN Named
        THEN ValueOf(b, text[p + 1]) \o from[p + 3]
        ELSE <<text[p]>> \o from[p + 1]]
<1>1. \E f : Expands(f, b, text)
  BY ExpandsExist
<1>2. Expands(from, b, text)
  BY <1>1, Zenon DEF Expands, ExpandTurn, NameAt
<1>3. Expand(b, text) = from[1]
  BY Zenon DEF Expand
<1> QED
  BY <1>2, <1>3

(* The loop of a text of entries of Z.                                      *)
Marks(b, Z) == Z \cup {b} \cup {Named[x] : x \in DOMAIN Named}
Turns(f, b, text, n) ==
  /\ n = Len(text) /\ n \in Nat /\ \A p \in n + 1..n + 4 : f[p] = << >>
  /\ \A p \in 1..n : IF NameAt(text, p) THEN f[p] = <<b, Named[text[p + 1]]>> \o f[p + 3]
                     ELSE f[p] = <<text[p]>> \o f[p + 1]
LEMMA ExpandsGo ==
  ASSUME NEW b, NEW Z, NEW text \in Seq(Z), NEW f, Expands(f, b, text)
  PROVE  Turns(f, b, text, Len(text))
<1>0. PICK n : n = Len(text)
  BY ONLY Zenon
<1>1. n \in Nat
  BY <1>0
<1>2. \A p \in 1..n + 4 : f[p] = ExpandTurn(b, text, p, f)
  BY <1>0, Zenon DEF Expands
<1>3. ASSUME NEW p \in n + 1..n + 4
      PROVE  f[p] = << >>
  <2>1. p \in 1..n + 4 /\ p > Len(text)
    BY <1>0, <1>1
  <2> QED
    BY <1>2, <2>1 DEF ExpandTurn
<1>4. ASSUME NEW p \in 1..n
      PROVE  IF NameAt(text, p) THEN f[p] = <<b, Named[text[p + 1]]>> \o f[p + 3]
             ELSE f[p] = <<text[p]>> \o f[p + 1]
  <2>1. p \in 1..n + 4 /\ ~(p > Len(text))
    BY <1>0, <1>1
  <2>2. f[p] = ExpandTurn(b, text, p, f)
    BY <1>2, <2>1
  <2> QED
    BY <2>1, <2>2, Zenon DEF ExpandTurn, ValueOf
<1> QED
  BY <1>0, <1>1, <1>3, <1>4, Zenon DEF Turns

LEMMA ExpandsTyped ==
  ASSUME NEW b, NEW Z, NEW text \in Seq(Z), NEW f, Expands(f, b, text)
  PROVE  \A p \in 1..Len(text) + 4 : f[p] \in Seq(Marks(b, Z))
<1>0. PICK n : n = Len(text) /\ n \in Nat
  OBVIOUS
<1>1. /\ n \in Nat /\ \A p \in n + 1..n + 4 : f[p] = << >>
      /\ \A p \in 1..n : IF NameAt(text, p) THEN f[p] = <<b, Named[text[p + 1]]>> \o f[p + 3]
                         ELSE f[p] = <<text[p]>> \o f[p + 1]
  <2>1. Turns(f, b, text, Len(text))
    BY ExpandsGo
  <2> QED
    BY <1>0, <2>1, Zenon DEF Turns
<1>2. PICK S : S = Marks(b, Z)
  OBVIOUS
<1>3. b \in S /\ \A x \in DOMAIN Named : Named[x] \in S
  BY <1>2 DEF Marks
<1>4. \A p \in 1..n : text[p] \in S
  BY <1>0, <1>2 DEF Marks
<1> DEFINE holds == {p \in 1..n + 4 : f[p] \in Seq(S)}
<1>5. \A p \in n + 1..n + 4 : p \in holds
  <2>1. \A p \in n + 1..n + 4 : p \in 1..n + 4
    BY <1>0
  <2>2. << >> \in Seq(S)
    OBVIOUS
  <2> QED
    BY <1>1, <2>1, <2>2, Zenon
<1>6. ASSUME NEW p \in 1..n, \A q \in p + 1..n + 4 : q \in holds
      PROVE  p \in holds
  <2>1. p + 1 \in p + 1..n + 4 /\ p + 3 \in p + 1..n + 4 /\ p \in 1..n + 4
    BY <1>0
  <2>2. f[p + 1] \in Seq(S) /\ f[p + 3] \in Seq(S)
    BY <1>6, <2>1
  <2>3. CASE NameAt(text, p)
    <3>1. <<b, Named[text[p + 1]]>> \in Seq(S)
      BY <1>3, <2>3 DEF NameAt
    <3>2. f[p] = <<b, Named[text[p + 1]]>> \o f[p + 3]
      BY <1>1, <2>3
    <3>3. <<b, Named[text[p + 1]]>> \o f[p + 3] \in Seq(S)
      BY <2>2, <3>1
    <3> QED
      BY <2>1, <3>2, <3>3, Zenon
  <2>4. CASE ~NameAt(text, p)
    <3>1. <<text[p]>> \in Seq(S)
      BY <1>4
    <3>2. f[p] = <<text[p]>> \o f[p + 1]
      BY <1>1, <2>4
    <3>3. <<text[p]>> \o f[p + 1] \in Seq(S)
      BY <2>2, <3>1
    <3> QED
      BY <2>1, <3>2, <3>3, Zenon
  <2> QED
    BY <2>3, <2>4
<1>7. \A p \in 1..n + 4 : p \in holds
  <2> HIDE DEF holds
  <2>1. 4 \in Nat
    OBVIOUS
  <2> QED
    BY ONLY <1>0, <1>5, <1>6, <2>1, Downward
<1> QED
  BY <1>0, <1>2, <1>7

(* A text in which no name begins is left as it is.                         *)
Quiet(x) == \A k \in 1..Len(x) : ~NameAt(x, k)
LEMMA QuietStays ==
  ASSUME NEW b, NEW Z, NEW x \in Seq(Z), Quiet(x)
  PROVE  Expand(b, x) = x
<1>1. PICK f : Expands(f, b, x) /\ Expand(b, x) = f[1]
  BY ExpandIs
<1>2. PICK n : n = Len(x) /\ n \in Nat
  OBVIOUS
<1>3. /\ \A p \in n + 1..n + 4 : f[p] = << >>
      /\ \A p \in 1..n : IF NameAt(x, p) THEN f[p] = <<b, Named[x[p + 1]]>> \o f[p + 3]
                         ELSE f[p] = <<x[p]>> \o f[p + 1]
  <2>1. Turns(f, b, x, Len(x))
    BY <1>1, ExpandsGo
  <2> QED
    BY <1>2, <2>1, Zenon DEF Turns
<1>4. \A p \in 1..n : f[p] = <<x[p]>> \o f[p + 1]
  BY <1>2, <1>3 DEF Quiet
<1>5. PICK g : g = [j \in 0..n |-> f[j + 1]]
  OBVIOUS
<1>6. g[n] = << >>
  <2>1. n + 1 \in n + 1..n + 4 /\ n \in 0..n
    BY <1>2
  <2> QED
    BY <1>3, <1>5, <2>1
<1>7. ASSUME NEW j \in 1..n
      PROVE  g[j - 1] = <<x[j]>> \o g[j]
  <2>1. j - 1 \in 0..n /\ j \in 0..n /\ j - 1 + 1 = j
    BY <1>2
  <2> QED
    BY <1>4, <1>5, <2>1
<1>8. g[0] = x
  BY <1>2, <1>6, <1>7, Rebuilt
<1>9. g[0] = f[1]
  BY <1>2, <1>5
<1> QED
  BY <1>1, <1>8, <1>9

(* A name that begins after what was put out begins in what follows.        *)
LEMMA NameLater ==
  ASSUME NEW S, NEW x \in Seq(S), NEW y \in Seq(S), NEW k \in Nat, k > Len(x),
         NameAt(x \o y, k)
  PROVE  k - Len(x) \in 1..Len(y) /\ NameAt(y, k - Len(x))
<1>1. PICK z : z = x \o y
  OBVIOUS
<1>2. /\ z \in Seq(S) /\ Len(z) = Len(x) + Len(y) /\ Len(x) \in Nat /\ Len(y) \in Nat
      /\ \A i \in 1..Len(x) : z[i] = x[i]
      /\ \A i \in 1..Len(y) : z[Len(x) + i] = y[i]
  BY ONLY <1>1, x \in Seq(S), y \in Seq(S), Joined
<1>3. PICK m, l : m = Len(x) /\ l = Len(y) /\ m \in Nat /\ l \in Nat
  BY <1>2
<1>4. /\ k + 2 <= m + l /\ z[k] = "%" /\ z[k + 2] = "%" /\ z[k + 1] \in DOMAIN Named
  BY <1>1, <1>2, <1>3 DEF NameAt
<1>5. PICK j : j = k - m
  OBVIOUS
<1>6. j \in 1..l /\ j + 1 \in 1..l /\ j + 2 \in 1..l /\ k = m + j /\ k + 1 = m + (j + 1) /\ k + 2 = m + (j + 2)
  BY ONLY <1>3, <1>4, <1>5, k \in Nat, k > Len(x)
<1>7. z[k] = y[j] /\ z[k + 1] = y[j + 1] /\ z[k + 2] = y[j + 2]
  BY <1>2, <1>3, <1>6
<1>8. j + 2 <= Len(y)
  BY <1>3, <1>6
<1> QED
  BY <1>3, <1>4, <1>5, <1>6, <1>7, <1>8 DEF NameAt

(* What a path and what is below it are not.                                *)
LEMMA CharactersApart ==
  ASSUME NEW b \in BottlePaths
  PROVE  /\ b \notin Letters /\ b # "%" /\ \A x \in DOMAIN Named : Named[x] # b
         /\ \A x \in DOMAIN Named : Named[x] \notin Letters /\ Named[x] # "%"
         /\ DOMAIN Named \subseteq Letters /\ "%" \notin DOMAIN Named
<1>1. Range(Named) = {Named[x] : x \in DOMAIN Named}
  BY Zenon DEF Range
<1>2. /\ BottlePaths \cap (Range(Named) \cup Letters \cup {"%"}) = {}
      /\ Range(Named) \cap (Letters \cup {"%"}) = {}
      /\ "%" \notin DOMAIN Named /\ DOMAIN Named \subseteq Letters
  BY HostAssumption
<1>3. PICK R : R = Range(Named)
  OBVIOUS
<1>4. \A x \in DOMAIN Named : Named[x] \in R
  BY <1>1, <1>3
<1> QED
  BY ONLY <1>2, <1>3, <1>4, b \in BottlePaths

(* An entry of what comes out that is of the text, is there in the text.    *)
Shows(f, p) == f[p] # << >> /\ f[p][1] \in Letters \cup {"%"}
LeftAs(f, text, p) ==
  /\ p <= Len(text) /\ ~NameAt(text, p) /\ text[p] = f[p][1]
  /\ f[p] = <<text[p]>> \o f[p + 1]
LEMMA Leads ==
  ASSUME NEW b \in BottlePaths, NEW text \in Seq(Letters), NEW f, Expands(f, b, text),
         NEW p \in 1..Len(text) + 4, Shows(f, p)
  PROVE  LeftAs(f, text, p)
<1>0. PICK x : x = f[p] /\ x # << >> /\ x[1] \in Letters \cup {"%"}
  BY DEF Shows
<1>1. PICK n : n = Len(text) /\ n \in Nat
  OBVIOUS
<1>2. /\ \A q \in n + 1..n + 4 : f[q] = << >>
      /\ \A q \in 1..n : IF NameAt(text, q) THEN f[q] = <<b, Named[text[q + 1]]>> \o f[q + 3]
                         ELSE f[q] = <<text[q]>> \o f[q + 1]
  <2>1. Turns(f, b, text, Len(text))
    BY ExpandsGo
  <2> QED
    BY <1>1, <2>1, Zenon DEF Turns
<1>3. p <= n
  BY <1>0, <1>1, <1>2
<1>4. p \in 1..n /\ p + 1 \in 1..n + 4
  BY <1>1, <1>3
<1>5. \A q \in 1..n + 4 : f[q] \in Seq(Marks(b, Letters))
  BY <1>1, ExpandsTyped
<1>6. CASE NameAt(text, p)
  <2>1. p + 3 \in 1..n + 4
    BY <1>1, <1>4
  <2>2. PICK S : S = Marks(b, Letters)
    OBVIOUS
  <2>3. PICK v, y : v = Named[text[p + 1]] /\ y = f[p + 3]
    OBVIOUS
  <2>4. y \in Seq(S)
    BY <1>5, <2>1, <2>2, <2>3
  <2>5. x = <<b, v>> \o y
    BY <1>0, <1>2, <1>4, <1>6, <2>3
  <2>6. (<<b, v>> \o y)[1] = b
    BY ONLY <2>4
  <2> QED
    BY <1>0, <2>5, <2>6, CharactersApart
<1>7. CASE ~NameAt(text, p)
  <2>1. PICK y : y = f[p + 1] /\ y \in Seq(Marks(b, Letters))
    BY <1>4, <1>5
  <2>2. PICK c : c = text[p]
    OBVIOUS
  <2>3. x = <<c>> \o y
    BY <1>0, <1>2, <1>4, <1>7, <2>1, <2>2
  <2>4. (<<c>> \o y)[1] = c
    BY ONLY <2>1
  <2> QED
    BY <1>0, <1>1, <1>3, <1>7, <2>1, <2>2, <2>3, <2>4 DEF LeftAs
<1> QED
  BY <1>6, <1>7

LEMMA ExpandedIsQuiet ==
  ASSUME NEW b \in BottlePaths, NEW text \in Seq(Letters), NEW f, Expands(f, b, text)
  PROVE  Quiet(f[1])
<1>1. PICK n : n = Len(text) /\ n \in Nat
  OBVIOUS
<1>2. /\ \A q \in n + 1..n + 4 : f[q] = << >>
      /\ \A q \in 1..n : IF NameAt(text, q) THEN f[q] = <<b, Named[text[q + 1]]>> \o f[q + 3]
                         ELSE f[q] = <<text[q]>> \o f[q + 1]
  <2>1. Turns(f, b, text, Len(text))
    BY ExpandsGo
  <2> QED
    BY <1>1, <2>1, Zenon DEF Turns
<1>3. PICK S : S = Marks(b, Letters)
  OBVIOUS
<1>4. \A q \in 1..n + 4 : f[q] \in Seq(S)
  BY <1>1, <1>3, ExpandsTyped
<1>5. /\ b \in S /\ b # "%" /\ \A x \in DOMAIN Named : Named[x] \in S /\ Named[x] # "%"
      /\ \A x \in DOMAIN Named : x \in Letters
  BY <1>3, CharactersApart DEF Marks
<1>6. \A q \in 1..n : text[q] \in S
  BY <1>1, <1>3 DEF Marks
<1> DEFINE holds == {q \in 1..n + 4 : Quiet(f[q])}
<1>7. \A q \in n + 1..n + 4 : q \in holds
  <2>1. \A q \in n + 1..n + 4 : q \in 1..n + 4
    BY <1>1
  <2>2. Quiet(<< >>)
    BY DEF Quiet
  <2> QED
    BY <1>2, <2>1, <2>2, Zenon
<1>8. ASSUME NEW p \in 1..n, \A q \in p + 1..n + 4 : q \in holds
      PROVE  p \in holds
  <2>1. p + 1 \in p + 1..n + 4 /\ p + 3 \in p + 1..n + 4 /\ p \in 1..n + 4
    BY <1>1
  <2>2. Quiet(f[p + 1]) /\ Quiet(f[p + 3])
    BY <1>8, <2>1
  <2>3. p + 1 \in 1..n + 4 /\ p + 2 \in 1..n + 4 /\ p + 3 \in 1..n + 4
    BY <1>1
  <2>4. SUFFICES ASSUME NEW k \in 1..Len(f[p]), NameAt(f[p], k)
                 PROVE  FALSE
    BY <2>1 DEF Quiet
  <2>5. CASE NameAt(text, p)
    <3>1. PICK v, y : v = Named[text[p + 1]] /\ y = f[p + 3]
      OBVIOUS
    <3>2. v \in S /\ v # "%" /\ y \in Seq(S) /\ Quiet(y) /\ f[p] = <<b, v>> \o y
      BY <1>2, <1>4, <1>5, <2>2, <2>3, <2>5, <3>1 DEF NameAt
    <3>3. k \in Nat
      <4>1. f[p] \in Seq(S)
        BY <1>4, <2>1
      <4> QED
        BY <4>1
    <3>4. PICK u : u = <<b, v>>
      OBVIOUS
    <3>5. u \in Seq(S) /\ Len(u) = 2
      BY <1>5, <3>2, <3>4
    <3>6. (u \o y)[1] = b /\ (u \o y)[2] = v
      BY ONLY <3>2, <3>4
    <3>7. k # 1 /\ k # 2
      BY <1>5, <2>4, <3>2, <3>4, <3>6 DEF NameAt
    <3>8. k > Len(u)
      BY <2>4, <3>3, <3>5, <3>7
    <3>9. k - Len(u) \in 1..Len(y) /\ NameAt(y, k - Len(u))
      <4>1. NameAt(u \o y, k)
        BY <2>4, <3>2, <3>4
      <4> QED
        BY ONLY <3>2, <3>3, <3>5, <3>8, <4>1, NameLater
    <3> QED
      BY <3>2, <3>9 DEF Quiet
  <2>6. CASE ~NameAt(text, p)
    <3>1. PICK c, y : c = text[p] /\ y = f[p + 1]
      OBVIOUS
    <3>2. c \in S /\ y \in Seq(S) /\ Quiet(y) /\ f[p] = <<c>> \o y
      BY <1>2, <1>4, <1>6, <2>2, <2>3, <2>6, <3>1
    <3>3. k \in Nat /\ k >= 1
      <4>1. f[p] \in Seq(S)
        BY <1>4, <2>1
      <4> QED
        BY <4>1
    <3>4. PICK u : u = <<c>>
      OBVIOUS
    <3>5. u \in Seq(S) /\ Len(u) = 1
      BY <3>2, <3>4
    <3>6. CASE k # 1
      <4>1. k > Len(u) /\ NameAt(u \o y, k)
        BY <2>4, <3>2, <3>3, <3>4, <3>5, <3>6
      <4>2. k - Len(u) \in 1..Len(y) /\ NameAt(y, k - Len(u))
        BY ONLY <3>2, <3>3, <3>5, <4>1, NameLater
      <4> QED
        BY <3>2, <4>2 DEF Quiet
    <3>7. CASE k = 1
      <4>1. PICK z : z = u \o y
        OBVIOUS
      <4>2. 3 <= Len(z) /\ z[1] = "%" /\ z[2] \in DOMAIN Named /\ z[3] = "%"
        <5>1. NameAt(z, 1) /\ 1 + 1 = 2 /\ 1 + 2 = 3
          BY <2>4, <3>2, <3>4, <3>7, <4>1
        <5> QED
          BY ONLY <5>1 DEF NameAt
      <4>3. z[1] = c /\ z[2] = y[1] /\ z[3] = y[2] /\ 2 <= Len(y)
        <5>1. Len(z) = Len(u) + Len(y) /\ Len(y) \in Nat
          <6>1. y \in Seq(S) /\ u \in Seq(S) /\ z = u \o y
            BY <3>2, <3>5, <4>1
          <6> QED
            BY ONLY <6>1
        <5>2. 2 <= Len(y)
          BY ONLY <3>5, <4>2, <5>1
        <5> QED
          BY ONLY <3>2, <3>4, <4>1, <5>2
      <4>4. y # << >> /\ y[1] \in Letters \cup {"%"}
        BY <1>5, <4>2, <4>3
      <4>5. p + 1 <= n /\ text[p + 1] = y[1] /\ y = <<text[p + 1]>> \o f[p + 1 + 1]
        <5>1. p + 1 \in 1..Len(text) + 4 /\ Shows(f, p + 1)
          BY <1>1, <2>3, <3>1, <4>4 DEF Shows
        <5>2. LeftAs(f, text, p + 1)
          BY <5>1, Leads
        <5> QED
          BY <1>1, <3>1, <5>2 DEF LeftAs
      <4>6. PICK w, d : w = f[p + 2] /\ d = text[p + 1]
        OBVIOUS
      <4>7. w \in Seq(S) /\ y = <<d>> \o w /\ p + 1 + 1 = p + 2
        BY <1>4, <2>3, <4>5, <4>6, SMTT(40)
      <4>8. w # << >> /\ w[1] = y[2]
        <5>1. Len(y) = 1 + Len(w) /\ Len(w) \in Nat
          BY ONLY <4>7
        <5>2. Len(w) >= 1
          BY <4>3, <5>1
        <5> QED
          BY ONLY <4>7, <5>2
      <4>9. w[1] \in Letters \cup {"%"}
        BY <4>2, <4>3, <4>8
      <4>10. p + 2 <= n /\ text[p + 2] = w[1]
        <5>1. p + 2 \in 1..Len(text) + 4 /\ Shows(f, p + 2)
          BY <1>1, <2>3, <4>6, <4>8, <4>9 DEF Shows
        <5>2. LeftAs(f, text, p + 2)
          BY <5>1, Leads
        <5> QED
          BY <1>1, <4>6, <5>2 DEF LeftAs
      <4>11. NameAt(text, p)
        BY <1>1, <3>1, <4>2, <4>3, <4>5, <4>8, <4>10 DEF NameAt
      <4> QED
        BY <2>6, <4>11
    <3> QED
      BY <3>6, <3>7
  <2> QED
    BY <2>5, <2>6
<1>9. \A q \in 1..n + 4 : q \in holds
  <2> HIDE DEF holds
  <2>1. 4 \in Nat
    OBVIOUS
  <2> QED
    BY ONLY <1>1, <1>7, <1>8, <2>1, Downward
<1>10. 1 \in 1..n + 4
  BY <1>1
<1> QED
  BY <1>9, <1>10

(* The names put back for what they stand for: a table of each character.   *)
Folded(c) == IF c \in DOMAIN Named THEN Named[c] ELSE c
PathsBelow == {Named[x] : x \in DOMAIN Named}
BackOf(b, c) == CASE c = b -> << >>
                  [] c \in PathsBelow -> <<"%", c, "%">>
                  [] OTHER -> <<Folded(c)>>
PutsBack(h, b, S, T) ==
  /\ h \in [S -> Seq(T)] /\ h[b] = << >>
  /\ \A x \in DOMAIN Named : h[Named[x]] = <<"%", Named[x], "%">>
  /\ \A c \in Letters : h[c] = <<Folded(c)>>

LEMMA BackExists ==
  ASSUME NEW b \in BottlePaths, NEW S, S = Marks(b, Letters), NEW T, T = S \cup {"%"},
         NEW h, h = [c \in S |-> BackOf(b, c)]
  PROVE  PutsBack(h, b, S, T)
<1>1. /\ b \notin Letters /\ b # "%" /\ \A x \in DOMAIN Named : Named[x] # b
      /\ \A x \in DOMAIN Named : Named[x] \notin Letters /\ Named[x] # "%"
      /\ DOMAIN Named \subseteq Letters /\ "%" \notin DOMAIN Named
  BY CharactersApart
<1>2. S = Letters \cup {b} \cup PathsBelow
  BY DEF Marks, PathsBelow
<1>3. b \notin PathsBelow /\ \A c \in Letters : c # b /\ c \notin PathsBelow
  BY <1>1 DEF PathsBelow
<1>4. \A c \in S : h[c] = BackOf(b, c)
  BY Zenon
<1>5. h[b] = << >> /\ \A c \in PathsBelow : h[c] = <<"%", c, "%">>
  <2>1. BackOf(b, b) = << >>
    BY <1>3 DEF BackOf
  <2>2. ASSUME NEW c \in PathsBelow
        PROVE  BackOf(b, c) = <<"%", c, "%">>
    <3>1. c # b
      BY <1>3
    <3> QED
      BY <3>1 DEF BackOf
  <2>3. b \in S /\ \A c \in PathsBelow : c \in S
    BY <1>2
  <2> QED
    BY <1>4, <2>1, <2>2, <2>3, Zenon
<1>6. \A c \in Letters : h[c] = <<Folded(c)>>
  <2>1. ASSUME NEW c \in Letters
        PROVE  BackOf(b, c) = <<Folded(c)>>
    <3>1. c # b /\ c \notin PathsBelow
      BY <1>3
    <3> QED
      BY <3>1 DEF BackOf
  <2>2. \A c \in Letters : c \in S
    BY <1>2
  <2> QED
    BY <1>4, <2>1, <2>2, Zenon
<1>7. \A c \in Letters : Folded(c) \in T
  BY <1>2 DEF Folded, PathsBelow
<1>8. \A c \in S : h[c] \in Seq(T)
  <2>1. h[b] \in Seq(T)
    <3>1. << >> \in Seq(T)
      BY ONLY SMT
    <3> QED
      BY ONLY <1>5, <3>1
  <2>2. \A c \in PathsBelow : h[c] \in Seq(T)
    <3>1. \A c \in PathsBelow : c \in T /\ "%" \in T
      BY <1>2
    <3>2. ASSUME NEW c \in PathsBelow
          PROVE  h[c] \in Seq(T)
      <4>1. c \in T /\ "%" \in T /\ h[c] = <<"%", c, "%">>
        BY <1>5, <3>1
      <4>2. <<"%", c, "%">> \in Seq(T)
        BY ONLY <4>1
      <4> QED
        BY ONLY <4>1, <4>2
    <3> QED
      BY <3>2
  <2>3. \A c \in Letters : h[c] \in Seq(T)
    <3>1. ASSUME NEW c \in Letters
          PROVE  h[c] \in Seq(T)
      <4>1. PICK y : y = Folded(c)
        OBVIOUS
      <4>2. h[c] = <<y>> /\ y \in T
        BY <1>6, <1>7, <4>1
      <4>3. <<y>> \in Seq(T)
        BY ONLY <4>2
      <4> QED
        BY ONLY <4>2, <4>3
    <3> QED
      BY <3>1
  <2> QED
    BY <1>2, <2>1, <2>2, <2>3
<1>9. h \in [S -> Seq(T)]
  <2>1. PICK V : V = Seq(T)
    OBVIOUS
  <2>2. \A c \in S : h[c] \in V
    BY <1>8, <2>1
  <2>3. h = [c \in S |-> h[c]]
    BY <1>4, Zenon
  <2>4. h \in [S -> V]
    BY ONLY <2>2, <2>3
  <2> QED
    BY <2>1, <2>4
<1>10. \A x \in DOMAIN Named : h[Named[x]] = <<"%", Named[x], "%">>
  BY <1>5 DEF PathsBelow
<1> QED
  BY <1>5, <1>6, <1>9, <1>10 DEF PutsBack

LEMMA ExpandedReadsBack ==
  ASSUME NEW b \in BottlePaths, NEW text \in Seq(Letters), NEW f, Expands(f, b, text),
         NEW S, S = Marks(b, Letters), NEW T, T = S \cup {"%"}, NEW h, PutsBack(h, b, S, T),
         NEW fold, fold = [i \in DOMAIN text |-> Folded(text[i])]
  PROVE  Over(h, f[1]) = fold
<1>0. h \in [S -> Seq(T)]
  BY DEF PutsBack
<1>1. PICK n : n = Len(text) /\ n \in Nat /\ DOMAIN text = 1..n
  OBVIOUS
<1>2. /\ \A q \in n + 1..n + 4 : f[q] = << >>
      /\ \A q \in 1..n : IF NameAt(text, q) THEN f[q] = <<b, Named[text[q + 1]]>> \o f[q + 3]
                         ELSE f[q] = <<text[q]>> \o f[q + 1]
  <2>1. Turns(f, b, text, Len(text))
    BY ExpandsGo
  <2> QED
    BY <1>1, <2>1, Zenon DEF Turns
<1>3. \A q \in 1..n + 4 : f[q] \in Seq(S)
  BY <1>1, ExpandsTyped
<1>4. /\ b \in S /\ \A x \in DOMAIN Named : Named[x] \in S
      /\ DOMAIN Named \subseteq Letters /\ "%" \notin DOMAIN Named
      /\ \A c \in Letters : c \in S
  BY CharactersApart DEF Marks
<1>5. /\ h \in [S -> Seq(T)] /\ h[b] = << >>
      /\ \A x \in DOMAIN Named : h[Named[x]] = <<"%", Named[x], "%">>
      /\ \A c \in Letters : h[c] = <<Folded(c)>>
  BY DEF PutsBack
<1>6. \A q \in 1..n : text[q] \in Letters /\ text[q] \in S /\ fold[q] = Folded(text[q])
  BY <1>1, <1>4
<1>7. \A c \in Letters : Folded(c) \in T
  BY <1>4 DEF Folded
<1>8. fold \in Seq(T) /\ Len(fold) = n
  <2>1. \A q \in 1..n : Folded(text[q]) \in T
    BY <1>6, <1>7
  <2>2. fold = [q \in 1..n |-> Folded(text[q])]
    BY <1>1
  <2> QED
    BY ONLY <1>1, <2>1, <2>2
<1> DEFINE holds == {q \in 1..n + 4 : Over(h, f[q]) = SubSeq(fold, q, n)}
<1>9. \A q \in n + 1..n + 4 : q \in holds
  <2>1. \A q \in n + 1..n + 4 : q \in 1..n + 4 /\ SubSeq(fold, q, n) = << >>
    BY <1>1, <1>8
  <2>2. Over(h, << >>) = << >>
    BY OverNone
  <2> QED
    BY <1>2, <2>1, <2>2, Zenon
<1>10. ASSUME NEW p \in 1..n, \A q \in p + 1..n + 4 : q \in holds
       PROVE  p \in holds
  <2>1. p + 1 \in p + 1..n + 4 /\ p + 3 \in p + 1..n + 4 /\ p \in 1..n + 4
    BY <1>1
  <2>2. Over(h, f[p + 1]) = SubSeq(fold, p + 1, n) /\ Over(h, f[p + 3]) = SubSeq(fold, p + 3, n)
    BY <1>10, <2>1
  <2>3. f[p + 1] \in Seq(S) /\ f[p + 3] \in Seq(S)
    <3>1. p + 1 \in 1..n + 4 /\ p + 3 \in 1..n + 4
      BY <1>1
    <3> QED
      BY <1>3, <3>1
  <2>4. ASSUME NEW q \in 1..n
        PROVE  SubSeq(fold, q, n) = <<fold[q]>> \o SubSeq(fold, q + 1, n)
    <3>1. q \in 1..Len(fold) /\ n \in q..Len(fold)
      BY <1>1, <1>8
    <3> QED
      BY <1>8, <3>1, SubSeqRecursiveFirst, Zenon
  <2>5. CASE NameAt(text, p)
    <3>1. PICK x, v, y : x = text[p + 1] /\ v = Named[x] /\ y = f[p + 3]
      OBVIOUS
    <3>2. /\ p + 2 <= n /\ text[p] = "%" /\ text[p + 2] = "%" /\ x \in DOMAIN Named
      BY <1>1, <2>5, <3>1 DEF NameAt
    <3>3. f[p] = <<b, v>> \o y
      BY <1>2, <2>5, <3>1
    <3>4. <<b>> \in Seq(S) /\ <<v>> \in Seq(S) /\ y \in Seq(S)
      BY <1>4, <2>3, <3>1, <3>2
    <3>5. f[p] = <<b>> \o (<<v>> \o y) /\ <<v>> \o y \in Seq(S)
      BY ONLY <3>3, <3>4
    <3>16. PICK ub, uv, w : ub = <<b>> /\ uv = <<v>> /\ w = uv \o y
      OBVIOUS
    <3>17. ub \in Seq(S) /\ uv \in Seq(S) /\ w \in Seq(S) /\ f[p] = ub \o w
      BY <3>4, <3>5, <3>16
    <3>6. Over(h, f[p]) = Over(h, <<b>>) \o Over(h, <<v>> \o y)
      <4>0. ub \in Seq(S)
        BY <3>17
      <4>2. w \in Seq(S)
        BY <3>17
      <4>1. Over(h, ub \o w) = Over(h, ub) \o Over(h, w)
        <5>1. Joinable(h, S, T, ub, w)
          BY <1>0, <4>0, <4>2, Zenon DEF Joinable
        <5> QED
          BY ONLY <5>1, OverTwo
      <4> QED
        BY <3>16, <3>17, <4>1
    <3>7. Over(h, <<v>> \o y) = Over(h, <<v>>) \o Over(h, y)
      <4>0. uv \in Seq(S)
        BY <3>17
      <4>2. y \in Seq(S)
        BY <3>4
      <4>1. Over(h, uv \o y) = Over(h, uv) \o Over(h, y)
        <5>1. Joinable(h, S, T, uv, y)
          BY <1>0, <4>0, <4>2, Zenon DEF Joinable
        <5> QED
          BY ONLY <5>1, OverTwo
      <4> QED
        BY <3>16, <4>1
    <3>8. Over(h, <<b>>) = << >> /\ Over(h, <<v>>) = <<"%", v, "%">>
      <4>1. Over(h, <<b>>) = h[b]
        BY ONLY <1>0, <1>4, OverOne
      <4>2. v \in S
        BY <1>4, <3>1, <3>2
      <4>3. Over(h, <<v>>) = h[v]
        BY ONLY <1>0, <4>2, OverOne
      <4> QED
        BY <1>5, <3>1, <3>2, <4>1, <4>3
    <3>9. PICK r : r = SubSeq(fold, p + 3, n)
      OBVIOUS
    <3>10. Over(h, f[p]) = << >> \o (<<"%", v, "%">> \o r)
      BY <2>2, <3>1, <3>6, <3>7, <3>8, <3>9, Zenon
    <3>11. r \in Seq(T) /\ v \in T /\ "%" \in T
      <4>1. r \in Seq(T)
        BY <1>1, <1>8, <3>9
      <4> QED
        BY <1>4, <3>1, <3>2, <4>1
    <3>12. p \in 1..n /\ p + 1 \in 1..n /\ p + 2 \in 1..n /\ p + 1 + 1 = p + 2 /\ p + 2 + 1 = p + 3
      BY <1>1, <3>2
    <3>13. fold[p] = "%" /\ fold[p + 1] = v /\ fold[p + 2] = "%"
      BY <1>4, <1>6, <3>1, <3>2, <3>12 DEF Folded
    <3>14. SubSeq(fold, p, n) = <<"%">> \o (<<v>> \o (<<"%">> \o r))
      BY <2>4, <3>9, <3>12, <3>13
    <3>15. << >> \o (<<"%", v, "%">> \o r) = <<"%">> \o (<<v>> \o (<<"%">> \o r))
      BY ONLY <3>11
    <3> QED
      BY <2>1, <3>10, <3>14, <3>15, Zenon
  <2>6. CASE ~NameAt(text, p)
    <3>1. PICK c, y : c = text[p] /\ y = f[p + 1]
      OBVIOUS
    <3>2. c \in Letters /\ <<c>> \in Seq(S) /\ y \in Seq(S) /\ f[p] = <<c>> \o y
      <4>1. c \in Letters /\ c \in S
        BY <1>6, <3>1
      <4>2. <<c>> \in Seq(S)
        BY ONLY <4>1
      <4>3. f[p] = <<c>> \o y
        BY <1>2, <2>6, <3>1
      <4> QED
        BY <2>3, <3>1, <4>1, <4>2, <4>3
    <3>3. Over(h, f[p]) = Over(h, <<c>>) \o Over(h, y)
      <4>1. PICK u : u = <<c>> /\ u \in Seq(S)
        BY <3>2
      <4>2. Over(h, u \o y) = Over(h, u) \o Over(h, y)
        <5>1. Joinable(h, S, T, u, y)
          BY ONLY <1>0, <3>2, <4>1 DEF Joinable
        <5> QED
          BY ONLY <5>1, OverTwo
      <4>3. f[p] = u \o y
        BY ONLY <3>2, <4>1
      <4> QED
        BY ONLY <4>1, <4>2, <4>3
    <3>4. Over(h, <<c>>) = <<Folded(c)>>
      <4>1. c \in S
        BY <1>4, <3>2
      <4>2. Over(h, <<c>>) = h[c]
        BY ONLY <1>0, <4>1, OverOne
      <4> QED
        BY <1>5, <3>2, <4>2
    <3>5. SubSeq(fold, p, n) = <<Folded(c)>> \o SubSeq(fold, p + 1, n)
      BY <1>6, <2>4, <3>1
    <3> QED
      BY <2>1, <2>2, <3>1, <3>3, <3>4, <3>5, Zenon
  <2> QED
    BY <2>5, <2>6
<1>11. \A q \in 1..n + 4 : q \in holds
  <2> HIDE DEF holds
  <2>1. 4 \in Nat
    OBVIOUS
  <2> QED
    BY ONLY <1>1, <1>9, <1>10, <2>1, Downward
<1>12. 1 \in 1..n + 4 /\ SubSeq(fold, 1, n) = fold
  BY <1>1, <1>8
<1> QED
  BY <1>11, <1>12

(* What was expanded, for which bottle.                                     *)
ShellInv ==
  /\ shellOf \in BottlePaths \cup {""}
  /\ expanded # NotExpanded =>
       /\ expanded.text \in Seq(Letters) /\ expanded.with \in BottlePaths
       /\ expanded.out = Expand(expanded.with, expanded.text)

LEMMA ShellStarts == HostInit => ShellInv
BY DEF HostInit, ShellInv

LEMMA ShellInvKeeps ==
  ASSUME ShellInv, [ShellStep]_shellVars
  PROVE  ShellInv'
<1>1. CASE UNCHANGED shellVars
  BY <1>1 DEF shellVars, ShellInv
<1>2. CASE \E b \in BottlePaths : ShellInit(b)
  BY <1>2 DEF ShellInit, ShellInv
<1>3. ASSUME NEW n \in 1..MaxLetters, NEW text \in [1..n -> Letters], ShellExpand(text)
      PROVE  ShellInv'
  <2>1. n \in Nat
    BY HostAssumption
  <2>2. text \in Seq(Letters)
    BY ONLY <2>1, text \in [1..n -> Letters]
  <2>3. shellOf \in BottlePaths /\ shellOf' = shellOf
    BY <1>3 DEF ShellExpand, ShellInv
  <2>4. expanded' = [text |-> text, out |-> Expand(shellOf, text), with |-> shellOf]
    BY <1>3 DEF ShellExpand
  <2> QED
    BY <2>2, <2>3, <2>4 DEF ShellInv
<1> QED
  BY <1>1, <1>2, <1>3 DEF ShellStep

LEMMA ExpansionExact == ShellInv => ExpandsOnce
<1> SUFFICES ASSUME ShellInv, expanded # NotExpanded
             PROVE  ExpandsOnce
  BY Zenon DEF ExpandsOnce
<1>1. PICK b, text, out : b = expanded.with /\ text = expanded.text /\ out = expanded.out
  OBVIOUS
<1>2. text \in Seq(Letters) /\ b \in BottlePaths /\ out = Expand(b, text)
  BY <1>1 DEF ShellInv
<1>3. PICK f : Expands(f, b, text) /\ out = f[1]
  BY <1>2, ExpandIs
<1>4. PICK S, T : S = Marks(b, Letters) /\ T = S \cup {"%"}
  OBVIOUS
<1>5. out \in Seq(S)
  <2>1. 1 \in 1..Len(text) + 4
    BY <1>2
  <2> QED
    BY <1>2, <1>3, <1>4, <2>1, ExpandsTyped
<1>6. Quiet(out)
  BY <1>2, <1>3, ExpandedIsQuiet
<1>7. Expand(b, out) = out
  BY <1>5, <1>6, QuietStays
<1>8. PICK h : h = [c \in S |-> BackOf(b, c)]
  OBVIOUS
<1>9. PutsBack(h, b, S, T)
  BY ONLY <1>2, <1>4, <1>8, BackExists
<1>10. Over(h, out) = [i \in DOMAIN text |-> Folded(text[i])]
  BY <1>2, <1>3, <1>4, <1>9, ExpandedReadsBack
<1>11. \A i \in DOMAIN out : out[i] \in S
  BY <1>5
<1>12. [i \in DOMAIN out |-> h[out[i]]] = [i \in DOMAIN out |-> BackOf(b, out[i])]
  <2>1. ASSUME NEW i \in DOMAIN out
        PROVE  h[out[i]] = BackOf(b, out[i])
    BY <1>8, <1>11, Zenon
  <2> QED
    BY <2>1, Zenon
<1>13. FlattenSeq([i \in DOMAIN out |-> BackOf(b, out[i])])
         = [i \in DOMAIN text |-> Folded(text[i])]
  BY <1>10, <1>12, Zenon DEF Over
<1>14. /\ Expand(expanded.with, expanded.out) = expanded.out
       /\ FlattenSeq([i \in DOMAIN expanded.out |-> BackOf(expanded.with, expanded.out[i])])
            = [i \in DOMAIN expanded.text |-> Folded(expanded.text[i])]
  BY <1>1, <1>7, <1>13, Zenon
<1> QED
  BY <1>14, Zenon DEF ExpandsOnce, PathsBelow, Folded, BackOf
=============================================================================
