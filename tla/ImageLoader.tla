---------------------------- MODULE ImageLoader ----------------------------
(***************************************************************************)
(* The staged load of a PE image (loader.c, and the headers of pe.c) over  *)
(* the module registry (api.c, init.c).  What the file contains is chosen  *)
(* when a stage reads it; a stage either goes on to the next one or fails, *)
(* and then everything that was allocated has to go.  The performance      *)
(* counters, which nothing reads but a report, are left out.               *)
(***************************************************************************)
EXTENDS Integers, Sequences, FiniteSets, FiniteSetsExt

CONSTANTS
  Modules,      \* [descriptor -> [name, exports]]: what may be registered
  ModuleNames, FunctionNames,
  FlagSets,     \* the combinations of load flags callers pass
  Unresolved,   \* the NULL of a lookup
  MaxModules,   \* bound: registrations
  MaxImports,   \* bound: descriptors in an image, and thunks of a descriptor
  MaxLoads,     \* bound: loads
  Width,        \* 2^32, the modulus of uint32_t, in units of half a block header
  ImageEnd      \* mapped_size in these units

ASSUME LoaderAssumption ==
  /\ {MaxModules, MaxImports, MaxLoads, Width, ImageEnd} \subseteq Nat
  /\ ImageEnd < Width /\ MaxImports <= Width

VARIABLES
  modules,    \* g_modules: a sequence of descriptors
  stage,      \* where the load is: "idle" outside load_file
  flags,      \* the parts its caller asked for
  img,        \* the blocks the local cellar_image_t points to
  bindings,   \* its imports: a sequence of [module, fn, to]
  at,         \* position in the table that is being read
  endAt,      \* end of the relocation directory
  reading,    \* the module of the descriptor whose thunks are read
  wrapped,    \* history: a relocation block has taken rva past 2^32
  odd,        \* history: an odd number of relocation blocks has been read, so that
              \* reading one block for ever is a behaviour and not a stuttering one
  heap,       \* blocks allocated and not freed: <<load, kind>>
  image,      \* the caller's image: [load, blocks, bindings]; load 0 when it has none
  loads       \* loads begun

loaderVars == <<modules, stage, flags, img, bindings, at, endAt, reading, wrapped, odd, heap, image, loads>>

NoImage == [load |-> 0, blocks |-> {}, bindings |-> << >>]

LoaderInit ==
  /\ modules = << >> /\ stage = "idle" /\ flags = {} /\ img = {} /\ bindings = << >>
  /\ at = 0 /\ endAt = 0 /\ reading = "" /\ wrapped = FALSE /\ odd = FALSE /\ heap = {} /\ image = NoImage
  /\ loads = 0

-----------------------------------------------------------------------------
(* cellar_win32_register_module, and cellar_win32_init one after another;  *)
(* the same descriptor may come again.                                     *)
RegisterModule(d) ==
  /\ stage = "idle" /\ Len(modules) < MaxModules
  /\ modules' = Append(modules, d)
  /\ UNCHANGED <<stage, flags, img, bindings, at, endAt, reading, wrapped, odd, heap, image, loads>>

(* Variant: the newest module of a name is found.                          *)
FindLast(name) == LET found == {i \in DOMAIN modules : Modules[modules[i]].name = name}
                  IN  IF found = {} THEN 0 ELSE Max(found)
FindModule(name) == LET found == {i \in DOMAIN modules : Modules[modules[i]].name = name}
                    IN  IF found = {} THEN 0 ELSE Min(found)

(* cellar_win32_resolve: only the first module of the name is asked, and   *)
(* an ordinal ("") is never resolved.                                      *)
Resolve(name, fn) ==
  LET i == FindModule(name)
  IN  IF i # 0 /\ fn \in Modules[modules[i]].exports THEN <<modules[i], fn>> ELSE Unresolved

-----------------------------------------------------------------------------
Order == <<"map", "imports", "exports", "relocs", "finish">>
After(i) == LET later == {j \in i + 1..5 : j = 5 \/ Order[j] \in flags} IN Order[Min(later)]

Blocks(kinds) == {<<loads, k>> : k \in kinds}

(* The locals of load_buffer and load_file go out of scope.                *)
Return ==
  /\ stage' = "idle" /\ img' = {} /\ flags' = {} /\ bindings' = << >>
  /\ at' = 0 /\ endAt' = 0 /\ reading' = "" /\ odd' = FALSE
  /\ UNCHANGED <<modules, loads, wrapped>>

(* Variant: the local table of parse_exports is left to unload.            *)
FailForgetting ==
  Return /\ heap' = heap \ Blocks(img \cup {"file"}) /\ UNCHANGED image

(* cellar_image_unload of the local image, the free of load_file, and the  *)
(* free of parse_exports' local table.                                     *)
Fail ==
  Return /\ heap' = heap \ Blocks(img \cup {"file", "local"}) /\ UNCHANGED image

Tables == <<bindings, at, endAt, reading>>

Step(to, new) ==
  /\ stage' = to /\ img' = img \cup new /\ heap' = heap \cup Blocks(new)
  /\ UNCHANGED <<image, flags, loads, modules, wrapped, odd>>

(* load_file reads the file into a buffer of its own (through a map if it  *)
(* is large), load_buffer is given one; reading may fail.                  *)
BeginLoad(asked, fromFile) ==
  /\ stage = "idle" /\ image = NoImage /\ loads < MaxLoads
  /\ stage' = "headers" /\ flags' = asked /\ loads' = loads + 1 /\ wrapped' = FALSE
  /\ heap' = heap \cup (IF fromFile THEN {<<loads + 1, "file">>} ELSE {})
  /\ UNCHANGED <<modules, img, Tables, image, odd>>

(* cellar_parse_headers: any of its checks may fail, and the allocation of *)
(* the section table, which an image without sections does not have.       *)
ParseHeaders ==
  /\ stage = "headers"
  /\ \/ Fail
     \/ \E new \in {{}, {"sections"}} : Step("raw", new) /\ UNCHANGED Tables

CopyRaw ==
  /\ stage = "raw"
  /\ Fail \/ (Step(After(0), {"raw"}) /\ UNCHANGED Tables)

(* Fails for an image of size 0 and without memory.                        *)
MapSections ==
  /\ stage = "map"
  /\ Fail \/ (Step(After(1), {"mapped"}) /\ UNCHANGED Tables)

(* The next import descriptor: none, or not on the image; one without      *)
(* thunks; one whose name is not on the image; one of a module.            *)
ImportDescriptor ==
  /\ stage = "imports"
  /\ \/ /\ Step(After(2), {})
        /\ at' = 0 /\ reading' = "" /\ UNCHANGED <<bindings, endAt>>
     \/ /\ "mapped" \in img /\ at < MaxImports
        /\ \/ Step("imports", {}) /\ at' = at + 1 /\ UNCHANGED <<bindings, endAt, reading>>
           \/ Fail
           \/ \E m \in ModuleNames : /\ Step("thunks", {}) /\ reading' = m
                                     /\ UNCHANGED <<bindings, at, endAt>>

(* The next thunk: the end; a name that is not on the image, or no memory; *)
(* an import, which is resolved at once.                                   *)
ImportThunk ==
  /\ stage = "thunks"
  /\ \/ Step("imports", {}) /\ at' = at + 1 /\ UNCHANGED <<bindings, endAt, reading>>
     \/ Fail
     \/ \E fn \in FunctionNames \cup {""} :
          /\ Len(bindings) < MaxImports /\ Step("thunks", {"imports"})
          /\ bindings' = Append(bindings, [module |-> reading, fn |-> fn, to |-> Resolve(reading, fn)])
          /\ UNCHANGED <<at, endAt, reading>>

(* No directory, or no names; a directory that is not on the image or out  *)
(* of bounds, or no memory for the two tables; both tables, of which the   *)
(* second is a local one.                                                  *)
ParseExports ==
  /\ stage = "exports"
  /\ \/ Step(After(3), {}) /\ UNCHANGED Tables
     \/ Fail
     \/ /\ "mapped" \in img
        /\ stage' = "names" /\ img' = img \cup {"exports"}
        /\ heap' = heap \cup Blocks({"exports", "local"})
        /\ UNCHANGED <<image, flags, loads, modules, wrapped, odd, Tables>>

(* The table of names is not on the image, or is read, and each name that  *)
(* is there copied; the local table is freed on both ways out.             *)
ExportNames ==
  /\ stage = "names"
  /\ \/ Fail
     \/ /\ stage' = After(3) /\ img' = img \cup {"strings"}
        /\ heap' = (heap \ Blocks({"local"})) \cup Blocks({"strings"})
        /\ UNCHANGED <<image, flags, loads, modules, wrapped, odd, Tables>>

RelocDirectory ==
  /\ stage = "relocs"
  /\ \/ Step("finish", {}) /\ UNCHANGED Tables
     \/ \E from \in 1..Width - 1, size \in 1..Width - 1 :
          /\ Step("blocks", {}) /\ at' = from /\ endAt' = (from + size) % Width
          /\ UNCHANGED <<bindings, reading>>

(* Variant: a block shorter than its header is taken as it is.             *)
TooShortNever(size) == FALSE
TooShort(size) == size < 2

(* The next relocation block: the end of the directory, or a block header  *)
(* that no section of the image holds; a block that is refused; one that   *)
(* is passed.  The sum in the loop's condition has 64 bits, the other sums *)
(* have 32 and may wrap.                                                   *)
RelocBlock ==
  /\ stage = "blocks"
  /\ \/ Step("finish", {}) /\ at' = 0 /\ endAt' = 0 /\ UNCHANGED <<bindings, reading>>
     \/ /\ at + 2 <= endAt /\ "mapped" \in img /\ at + 2 <= ImageEnd
        /\ \E size \in 0..Width - 1 :
             IF TooShort(size) \/ (at + size) % Width > endAt
             THEN Fail
             ELSE /\ at' = (at + size) % Width
                  /\ wrapped' = (wrapped \/ at + size >= Width) /\ odd' = ~odd
                  /\ UNCHANGED <<modules, stage, flags, img, bindings, endAt, reading, heap, image, loads>>

(* *out is written, and only now.                                          *)
FinishLoad ==
  /\ stage = "finish"
  /\ Return
  /\ image' = [load |-> loads, blocks |-> img, bindings |-> bindings]
  /\ heap' = heap \ Blocks({"file"})

(* The caller unloads its image.                                           *)
Unload ==
  /\ stage = "idle" /\ image # NoImage
  /\ heap' = heap \ {<<image.load, k>> : k \in image.blocks}
  /\ image' = NoImage
  /\ UNCHANGED <<modules, stage, flags, img, bindings, at, endAt, reading, wrapped, odd, loads>>

LoadStep ==
  \/ ParseHeaders \/ CopyRaw \/ MapSections \/ ImportDescriptor \/ ImportThunk
  \/ ParseExports \/ ExportNames \/ RelocDirectory \/ RelocBlock \/ FinishLoad

LoaderStep ==
  \/ \E d \in DOMAIN Modules : RegisterModule(d)
  \/ \E asked \in FlagSets, fromFile \in BOOLEAN : BeginLoad(asked, fromFile)
  \/ LoadStep
  \/ Unload

-----------------------------------------------------------------------------
LoaderTypeOK ==
  /\ stage \in {"idle", "headers", "raw", "thunks", "names", "blocks"} \cup {Order[i] : i \in 1..5}
  /\ loads \in 0..MaxLoads /\ image.load \in 0..loads /\ at \in 0..Width
  /\ Blocks(img) \subseteq heap

(* A load gives its caller an image or leaves nothing behind: between      *)
(* loads, the blocks on the heap are those of the image that he holds,     *)
(* whatever stage has failed and whatever was allocated before it.         *)
LoadAllOrNothing ==
  stage = "idle" =>
    /\ heap = {<<image.load, k>> : k \in image.blocks}
    /\ img = {}

(* An import that was bound stays right: registering more modules, again   *)
(* or of the same name, does not change what a lookup of it returns.       *)
BoundStaysValid ==
  \A i \in DOMAIN image.bindings :
    LET import == image.bindings[i]
    IN  import.to # Unresolved => import.to = Resolve(import.module, import.fn)

(* Every load comes to its end, unless the relocation blocks of the image  *)
(* lead past 2^32 and back.                                                *)
LoadEnds == (stage # "idle") ~> (stage = "idle" \/ wrapped)
=============================================================================
