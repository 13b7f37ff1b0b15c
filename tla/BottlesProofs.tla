---------------------------- MODULE BottlesProofs ----------------------------
(***************************************************************************)
(* Proofs about Bottles, for every set of bottles, packages and payloads.  *)
(*                                                                         *)
(* A call is judged by what the bottle holds when it is over, and by what  *)
(* it holds wherever the process may be killed before that.  So the        *)
(* invariants speak of the writes that are left: Pends(i, f), the i-th     *)
(* phase left writes the file f, and Settles(f, v), f holds v when all     *)
(* phases are worked off.                                                  *)
(***************************************************************************)
EXTENDS Bottles, SequenceTheorems, TLAPS

AnyContent == {Absent} \cup UNION {Contents(f) : f \in Files}

(* The files of a bottle, each with a content of its own kind.             *)
Bottle == {files \in [Files -> AnyContent] :
           \A f \in Files : files[f] \in Contents(f) \cup {Absent}}

(* What a phase may write.                                                 *)
Writes == {ph \in UNION {[D -> AnyContent] : D \in SUBSET Files} :
             \A f \in DOMAIN ph : ph[f] \in Contents(f) \cup {Absent}}

IsArchive(records) ==
  /\ DOMAIN records \subseteq Saved
  /\ \A f \in DOMAIN records : records[f] \in Contents(f)

Ops == {"create", "delete", "config", "setting", "commit", "uninstall", "bind", "runtime",
        "backup", "restore", "clone"}

(* set_setting with any line.                                              *)
Sets(b) == \E line \in Lines : BeginSetting(b, line)

ArchiveTyped ==
  /\ archive.end \in {"none", "cut", "whole"}
  /\ archive.end # "none" => archive.records \in Writes /\ IsArchive(archive.records)
  /\ archive.of \in Bottle /\ archive.loose \subseteq Packages

CallTyped ==
  /\ todo \in Seq(Writes) /\ calls \in 0..MaxCalls
  /\ call = Idle \/ (call.op \in Ops /\ call.bottle \in Bottles)
  /\ todo # << >> => call.op \in Ops

TypeInv ==
  /\ disk \in [Bottles -> Bottle]
  /\ ArchiveTyped
  /\ CallTyped
  /\ current \in Bottles \cup {Absent}
  /\ before \in Bottle /\ source \in Bottle
  /\ made \in [Bottles -> Archs \cup {"junk", "lost"}]
  /\ loose \in [Bottles -> SUBSET Packages]

-----------------------------------------------------------------------------
(* The i-th phase left writes f.                                           *)
Pends(i, f) == i \in 1..Len(todo) /\ f \in DOMAIN todo[i]

(* When the call is over, f holds v: written by the last phase that writes *)
(* f, or there already.                                                    *)
Settles(f, v) ==
  \/ /\ \A i \in 1..Len(todo) : ~Pends(i, f)
     /\ disk[call.bottle][f] = v
  \/ \E i \in 1..Len(todo) :
       Pends(i, f) /\ todo[i][f] = v /\ \A j \in 1..Len(todo) : Pends(j, f) => j <= i

(* The bottle a call is working on.                                        *)
Busy(b) == todo # << >> /\ call.bottle = b

(* ArchKept, with what the call will leave in prefix.conf.                 *)
ArchInv ==
  \A b \in Bottles : made[b] # "lost" =>
    IF Busy(b)
    THEN \E v \in Contents(Conf) : Settles(Conf, v) /\ ConfSays(v).arch = made[b]
    ELSE Has(b, Conf) /\ ConfSays(disk[b][Conf]).arch = made[b]

Restored == call.op = "clone" \/ (call.op = "restore" /\ archive.end = "whole")

Target(f) ==
  IF source[f] # Absent THEN source[f]
  ELSE IF f = Conf THEN Defaults("win64") ELSE before[f]

(* RoundTrip, with what the call will leave in each file; a whole archive  *)
(* has a record of every file there was.                                   *)
RestoreInv ==
  /\ archive.end = "whole" => archive.records = Records(archive.of)
  /\ Restored => \A f \in Saved : Settles(f, Target(f))

-----------------------------------------------------------------------------
Listed(journal, x) ==
  journal \notin {Absent, Empty} /\ \E i \in DOMAIN journal : journal[i] = x

WrittenBy(p, content) == content \in {<<p, "whole">>, <<p, "torn">>}

(* Every file of a package is in its journal, but for some packages.       *)
Traces(files, but) ==
  \A p \in Packages \ but : \A x \in Payloads :
    WrittenBy(p, files[Payload(x)]) => Listed(files[Journal(p)], x)

(* No files are left where the directory is gone.                          *)
Solid(files) == files[Dir] = Absent => \A f \in Saved : files[f] = Absent

(* Phases that write nothing before there is a directory, and that have    *)
(* removed all files by the time they remove it.                           *)
Orderly(files, phases) ==
  \A i \in 1..Len(phases) :
    /\ Dir \in DOMAIN phases[i] /\ phases[i][Dir] = Absent =>
         \A f \in Saved :
           /\ files[f] = Absent \/ \E j \in 1..(i - 1) : f \in DOMAIN phases[j]
           /\ \A j \in 1..Len(phases) : f \in DOMAIN phases[j] => j < i /\ phases[j][f] = Absent
    /\ \A f \in Saved \cap DOMAIN phases[i] :
         phases[i][f] # Absent =>
           files[Dir] # Absent \/ \E j \in 1..(i - 1) : Dir \in DOMAIN phases[j]

DirInv ==
  /\ \A b \in Bottles : Solid(disk[b])
  /\ archive.end = "whole" => Solid(archive.of)
  /\ todo # << >> => Orderly(disk[call.bottle], todo)

(* Calls that write what they find in an archive, or remove the bottle.    *)
Replacing == call.op \in {"delete", "restore", "clone"}

(* Before the i-th phase the journal of p lists x, for good.               *)
ListsBefore(i, p, x) ==
  \/ /\ \A j \in 1..Len(todo) : ~Pends(j, Journal(p))
     /\ Listed(disk[call.bottle][Journal(p)], x)
  \/ \E j \in 1..(i - 1) :
       /\ Pends(j, Journal(p)) /\ Listed(todo[j][Journal(p)], x)
       /\ \A k \in 1..Len(todo) : Pends(k, Journal(p)) => k = j

(* A package's file is written when its journal lists it; the journal is   *)
(* written or removed when no file of the package is left there.           *)
OrderInv ==
  \A i \in 1..Len(todo) : \A p \in Packages \ loose[call.bottle] : \A x \in Payloads :
    /\ Pends(i, Payload(x)) /\ WrittenBy(p, todo[i][Payload(x)]) => ListsBefore(i, p, x)
    /\ Pends(i, Journal(p)) /\ WrittenBy(p, disk[call.bottle][Payload(x)]) =>
         \E j \in 1..(i - 1) : Pends(j, Payload(x))

(* What a replacing call leaves is traced, though not what it passes.      *)
SettledTraced ==
  \A p \in Packages \ loose[call.bottle] : \A x \in Payloads : \A c \in {<<p, "whole">>, <<p, "torn">>} :
    Settles(Payload(x), c) => \E journal \in Contents(Journal(p)) :
      Settles(Journal(p), journal) /\ Listed(journal, x)

TraceInv ==
  /\ \A b \in Bottles : (~Busy(b) \/ ~Replacing) => Traces(disk[b], loose[b])
  /\ todo # << >> /\ Replacing => SettledTraced
  /\ todo # << >> /\ ~Replacing => OrderInv
  /\ archive.end = "whole" => Traces(archive.of, archive.loose)


-----------------------------------------------------------------------------
(* The files of a bottle are different files, each with its own contents.  *)
LEMMA FileNames ==
  /\ Dir \in Files /\ Conf \in Saved /\ Marker \in Saved /\ Saved \subseteq Files
  /\ \A x \in Payloads : Payload(x) \in Saved /\ Payload(x)[1] = "file"
  /\ \A p \in Packages : Journal(p) \in Saved /\ Journal(p)[1] = "inf"
  /\ Dir # Conf /\ Dir # Marker /\ Conf # Marker /\ Dir \notin Saved
  /\ Dir[1] # "file" /\ Conf[1] # "file" /\ Marker[1] # "file"
  /\ \A x, y : Payload(x) # Dir /\ Payload(x) # Conf /\ Payload(x) # Marker
               /\ Payload(x) # Journal(y) /\ (Payload(x) = Payload(y) => x = y)
  /\ \A p, q : Journal(p) # Dir /\ Journal(p) # Conf /\ Journal(p) # Marker
               /\ (Journal(p) = Journal(q) => p = q)
<1>1. /\ \A x : Payload(x)[1] = "file" /\ Payload(x)[2] = x
      /\ \A p : Journal(p)[1] = "inf" /\ Journal(p)[2] = p
      /\ Dir[1] = "dir" /\ Conf[1] = "prefix.conf" /\ Marker[1] = "runtime"
  BY DEF Payload, Journal, Dir, Conf, Marker
<1>2. /\ \A x, y : Payload(x) # Dir /\ Payload(x) # Conf /\ Payload(x) # Marker
               /\ Payload(x) # Journal(y) /\ (Payload(x) = Payload(y) => x = y)
      /\ \A p, q : Journal(p) # Dir /\ Journal(p) # Conf /\ Journal(p) # Marker
               /\ (Journal(p) = Journal(q) => p = q)
      /\ Dir # Conf /\ Dir # Marker /\ Conf # Marker
  BY <1>1
<1>3. Dir \notin Saved
  BY <1>2 DEF Saved
<1> QED
  BY <1>1, <1>2, <1>3 DEF Saved, Files

LEMMA ContentsOf ==
  /\ Contents(Dir) = {"bare", "full"}
  /\ Contents(Conf) = Settings \cup {Empty}
  /\ Contents(Marker) = {"installed", Empty}
  /\ \A x \in Payloads : Contents(Payload(x)) = Packages \X {"whole", "torn"}
  /\ \A p \in Packages : Contents(Journal(p)) = Setups[p] \cup {Empty}
<1>1. \A x \in Payloads : Contents(Payload(x)) = Packages \X {"whole", "torn"}
  BY FileNames DEF Contents
<1>2. ASSUME NEW p \in Packages
      PROVE  Contents(Journal(p)) = Setups[p] \cup {Empty}
  <2> DEFINE own == UNION {Setups[r] : r \in {q \in Packages : Journal(p) = Journal(q)}}
  <2>1. \A q \in Packages : Journal(p) = Journal(q) <=> q = p
    BY FileNames
  <2>2. Contents(Journal(p)) = {Empty} \cup own
    BY FileNames DEF Contents
  <2>3. own = Setups[p]
    BY <2>1
  <2> HIDE DEF own
  <2> QED
    BY <2>2, <2>3
<1>3. /\ Contents(Dir) = {"bare", "full"}
      /\ Contents(Conf) = Settings \cup {Empty}
      /\ Contents(Marker) = {"installed", Empty}
  BY FileNames DEF Contents
<1> QED
  BY <1>1, <1>2, <1>3

(* Phases of one file, of none and of the records of a bottle.             *)
LEMMA OnePhase ==
  ASSUME NEW f \in Files, NEW c \in Contents(f) \cup {Absent}
  PROVE  One(f, c) \in Writes /\ DOMAIN One(f, c) = {f} /\ One(f, c)[f] = c
<1>1. One(f, c) \in [{f} -> AnyContent]
  BY DEF One, AnyContent
<1>2. {f} \in SUBSET Files
  OBVIOUS
<1> QED
  BY <1>1, <1>2 DEF One, Writes

LEMMA NoPhase == Nothing \in Writes /\ DOMAIN Nothing = {}
<1>1. Nothing \in [{} -> AnyContent]
  BY DEF Nothing
<1>2. {} \in SUBSET Files
  OBVIOUS
<1> QED
  BY <1>1, <1>2 DEF Nothing, Writes

LEMMA RecordsPhase ==
  ASSUME NEW files \in Bottle
  PROVE  /\ Records(files) \in Writes /\ IsArchive(Records(files))
         /\ DOMAIN Records(files) = {g \in Saved : files[g] # Absent}
         /\ \A f \in DOMAIN Records(files) : Records(files)[f] = files[f]
<1>1. Records(files) \in [{g \in Saved : files[g] # Absent} -> AnyContent]
  BY FileNames DEF Records, Bottle
<1>2. {g \in Saved : files[g] # Absent} \in SUBSET Files
  BY FileNames
<1>3. \A f \in {g \in Saved : files[g] # Absent} : files[f] \in Contents(f)
  BY FileNames DEF Bottle
<1> QED
  BY <1>1, <1>2, <1>3 DEF Records, Writes, IsArchive

-----------------------------------------------------------------------------
(* The phases of the calls.                                                *)
LEMMA CreatePhases ==
  ASSUME NEW b, NEW arch \in Archs
  PROVE  /\ Create(b, arch) \in Seq(Writes) /\ Len(Create(b, arch)) = 2
         /\ Create(b, arch)[1] = One(Dir, "full")
         /\ Create(b, arch)[2] = One(Conf, Defaults(arch))
<1>1. Defaults(arch) \in Settings
  BY DEF Defaults, Settings
<1>2. One(Dir, "full") \in Writes /\ One(Conf, Defaults(arch)) \in Writes
  BY <1>1, OnePhase, ContentsOf, FileNames
<1> QED
  BY <1>2 DEF Create

(* What delete writes first: every file there is goes.                     *)
Gone(files) == [f \in DOMAIN Records(files) |-> Absent]

LEMMA DeletePhases ==
  ASSUME NEW b \in Bottles, disk[b] \in Bottle
  PROVE  /\ Delete(b) \in Seq(Writes) /\ Len(Delete(b)) = 2
         /\ Delete(b)[1] = Gone(disk[b])
         /\ DOMAIN Gone(disk[b]) = {g \in Saved : disk[b][g] # Absent}
         /\ \A f \in DOMAIN Gone(disk[b]) : Gone(disk[b])[f] = Absent
         /\ Delete(b)[2] = One(Dir, Absent)
<1>1. DOMAIN Records(disk[b]) = {g \in Saved : disk[b][g] # Absent}
  BY RecordsPhase
<1>2. Gone(disk[b]) \in [DOMAIN Records(disk[b]) -> AnyContent]
  BY DEF Gone, AnyContent
<1>3. DOMAIN Records(disk[b]) \in SUBSET Files
  BY <1>1, FileNames
<1>4. Gone(disk[b]) \in Writes
  BY <1>2, <1>3 DEF Gone, Writes
<1>5. One(Dir, Absent) \in Writes
  BY OnePhase, FileNames
<1> QED
  BY <1>1, <1>4, <1>5 DEF Delete, Gone

LEMMA ConfSaysSettings ==
  ASSUME NEW c \in Contents(Conf)
  PROVE  ConfSays(c) \in Settings
BY ContentsOf DEF ConfSays, Defaults, Settings, Archs

LEMMA ConfigPhases ==
  ASSUME NEW b \in Bottles, disk[b] \in Bottle, NEW junk \in Archs \cup {"junk"}
  PROVE  \E c \in Settings :
           /\ c.arch = IF Has(b, Conf) THEN ConfSays(disk[b][Conf]).arch ELSE junk
           /\ Config(b, junk) = << One(Conf, c) >> /\ Config(b, junk) \in Seq(Writes)
<1> DEFINE arch == IF Has(b, Conf) THEN ConfSays(disk[b][Conf]).arch ELSE junk
           c == [Defaults(arch) EXCEPT !.gfx = "GL"]
<1>1. Has(b, Conf) => disk[b][Conf] \in Contents(Conf)
  BY FileNames DEF Bottle, Has
<1>2. arch \in Archs \cup {"junk"}
  BY <1>1, ConfSaysSettings DEF Settings
<1>3. c \in Settings /\ c.arch = arch
  BY <1>2 DEF Defaults, Settings
<1>4. One(Conf, c) \in Writes
  BY <1>3, OnePhase, ContentsOf, FileNames
<1> HIDE DEF c
<1>5. Config(b, junk) = << One(Conf, c) >>
  BY DEF Config, c
<1> QED
  BY <1>3, <1>4, <1>5

(* Settings with one line replaced, by any value of its key.               *)
LEMMA LineReplaced ==
  ASSUME NEW s \in Settings, NEW line \in Lines
  PROVE  /\ [s EXCEPT ![line.key] = line.value] \in Settings
         /\ [s EXCEPT ![line.key] = line.value].arch =
              IF line.key = "arch" THEN line.value ELSE s.arch
<1>1. CASE line.key = "gfx"
  <2>1. line.value \in {"Vulkan", "GL"}
    BY <1>1 DEF Lines
  <2> QED
    BY <1>1, <2>1 DEF Settings
<1>2. CASE line.key = "arch"
  <2>1. line.value \in Archs \cup {"junk"}
    BY <1>2 DEF Lines
  <2> QED
    BY <1>2, <2>1 DEF Settings
<1>3. CASE line.key = "user"
  <2>1. line.value \in {"none", "on"}
    BY <1>3 DEF Lines
  <2> QED
    BY <1>3, <2>1 DEF Settings
<1> QED
  BY <1>1, <1>2, <1>3 DEF Lines

LEMMA SettingPhases ==
  ASSUME NEW b \in Bottles, disk[b] \in Bottle, Has(b, Conf), NEW line \in Lines
  PROVE  \E c \in Settings :
           /\ c.arch = IF line.key = "arch" THEN line.value ELSE ConfSays(disk[b][Conf]).arch
           /\ SetSetting(b, line) = << One(Conf, c) >> /\ SetSetting(b, line) \in Seq(Writes)
<1> DEFINE c == [ConfSays(disk[b][Conf]) EXCEPT ![line.key] = line.value]
<1>1. disk[b][Conf] \in Contents(Conf)
  BY FileNames DEF Bottle, Has
<1>2. /\ c \in Settings
      /\ c.arch = IF line.key = "arch" THEN line.value ELSE ConfSays(disk[b][Conf]).arch
  BY <1>1, ConfSaysSettings, LineReplaced
<1>3. One(Conf, c) \in Writes
  BY <1>2, OnePhase, ContentsOf, FileNames
<1> HIDE DEF c
<1>4. SetSetting(b, line) = << One(Conf, c) >>
  BY DEF SetSetting, c
<1> QED
  BY <1>2, <1>3, <1>4

LEMMA MakeDirPhases ==
  ASSUME NEW b
  PROVE  /\ MakeDir(b) \in Seq(Writes)
         /\ Exists(b) => Len(MakeDir(b)) = 0
         /\ ~Exists(b) => Len(MakeDir(b)) = 1 /\ MakeDir(b)[1] = One(Dir, "bare")
<1>1. One(Dir, "bare") \in Writes
  BY OnePhase, ContentsOf, FileNames
<1> QED
  BY <1>1 DEF MakeDir

LEMMA AppliedPhases ==
  ASSUME NEW b, NEW p \in Packages, NEW list \in Setups[p]
  PROVE  /\ list \in Seq(Payloads)
         /\ Applied(b, p, list) \in Seq(Writes) /\ Len(Applied(b, p, list)) = Len(list)
         /\ \A i \in 1..Len(list) :
              Applied(b, p, list)[i] \in {Nothing, One(Payload(list[i]), <<p, "whole">>)}
<1>1. list \in Seq(Payloads)
  BY BottlesAssumption
<1>2. ASSUME NEW i \in 1..Len(list)
      PROVE  One(Payload(list[i]), <<p, "whole">>) \in Writes
  <2>1. list[i] \in Payloads
    BY <1>1
  <2>2. <<p, "whole">> \in Contents(Payload(list[i])) /\ Payload(list[i]) \in Files
    BY <2>1, ContentsOf, FileNames
  <2> QED
    BY <2>2, OnePhase
<1>3. Applied(b, p, list) \in [1..Len(list) -> Writes]
  BY <1>1, <1>2, NoPhase DEF Applied
<1>4. Applied(b, p, list) \in Seq(Writes)
  BY <1>1, <1>3, SeqDef
<1> QED
  BY <1>1, <1>3, <1>4, LenProperties DEF Applied

LEMMA Joined ==
  ASSUME NEW s \in Seq(Writes), NEW t \in Seq(Writes)
  PROVE  /\ s \o t \in Seq(Writes) /\ Len(s \o t) = Len(s) + Len(t)
         /\ \A i \in 1..Len(s) : (s \o t)[i] = s[i]
         /\ \A i \in 1..Len(t) : (s \o t)[Len(s) + i] = t[i]
<1>1. Len(s) \in Nat /\ Len(t) \in Nat
  BY LenProperties
<1>2. /\ s \o t \in Seq(Writes) /\ Len(s \o t) = Len(s) + Len(t)
      /\ \A i \in 1..Len(s) + Len(t) :
           (s \o t)[i] = IF i <= Len(s) THEN s[i] ELSE t[i - Len(s)]
  BY ConcatProperties
<1>3. ASSUME NEW i \in 1..Len(t)
      PROVE  (s \o t)[Len(s) + i] = t[i]
  <2>1. Len(s) + i \in 1..Len(s) + Len(t) /\ ~(Len(s) + i <= Len(s)) /\ (Len(s) + i) - Len(s) = i
    BY <1>1
  <2> QED
    BY <1>2, <2>1
<1> QED
  BY <1>1, <1>2, <1>3

LEMMA CommitPhases ==
  ASSUME NEW b, NEW p \in Packages, NEW list \in Setups[p]
  PROVE  /\ Commit(b, p, list) \in Seq(Writes)
         /\ \E m \in {0, 1} :
              /\ ~Exists(b) => m = 1
              /\ Len(Commit(b, p, list)) = m + 1 + Len(list) /\ Len(list) \in Nat
              /\ m = 1 => Commit(b, p, list)[1] = One(Dir, "bare")
              /\ Commit(b, p, list)[m + 1] = One(Journal(p), list)
              /\ \A i \in 1..Len(list) :
                   /\ list[i] \in Payloads
                   /\ Commit(b, p, list)[m + 1 + i]
                        \in {Nothing, One(Payload(list[i]), <<p, "whole">>)}
<1> DEFINE first == MakeDir(b)
           second == << One(Journal(p), list) >>
           third == Applied(b, p, list)
           m == Len(first)
<1>1. /\ first \in Seq(Writes) /\ m \in {0, 1} /\ (~Exists(b) => m = 1)
      /\ m = 1 => first[1] = One(Dir, "bare")
  BY MakeDirPhases
<1>2. One(Journal(p), list) \in Writes
  <2>1. list \in Contents(Journal(p)) /\ Journal(p) \in Files
    BY ContentsOf, FileNames
  <2> QED
    BY <2>1, OnePhase
<1>3. second \in Seq(Writes) /\ Len(second) = 1 /\ second[1] = One(Journal(p), list)
  BY <1>2
<1>4. /\ list \in Seq(Payloads) /\ Len(list) \in Nat
      /\ third \in Seq(Writes) /\ Len(third) = Len(list)
      /\ \A i \in 1..Len(list) : third[i] \in {Nothing, One(Payload(list[i]), <<p, "whole">>)}
  BY AppliedPhases
<1>5. \A i \in 1..Len(list) : list[i] \in Payloads
  BY <1>4, ElementOfSeq
<1> HIDE DEF first, second, third
<1> DEFINE front == first \o second
<1>6. /\ front \in Seq(Writes) /\ Len(front) = m + 1
      /\ m = 1 => front[1] = first[1]
      /\ front[m + 1] = second[1]
  BY <1>1, <1>3, Joined
<1> HIDE DEF front, m
<1>7. /\ front \o third \in Seq(Writes)
      /\ Len(front \o third) = Len(front) + Len(third)
      /\ \A i \in 1..Len(front) : (front \o third)[i] = front[i]
      /\ \A i \in 1..Len(third) : (front \o third)[Len(front) + i] = third[i]
  BY <1>4, <1>6, Joined
<1>8. Commit(b, p, list) = front \o third
  BY DEF Commit, first, second, third, front
<1>9. 1 \in 1..m + 1 /\ m + 1 \in 1..m + 1
  BY <1>1 DEF m
<1>10. /\ Len(Commit(b, p, list)) = m + 1 + Len(list)
       /\ m = 1 => Commit(b, p, list)[1] = One(Dir, "bare")
       /\ Commit(b, p, list)[m + 1] = One(Journal(p), list)
  BY <1>1, <1>3, <1>4, <1>6, <1>7, <1>8, <1>9 DEF m
<1>11. \A i \in 1..Len(list) :
         Commit(b, p, list)[m + 1 + i] \in {Nothing, One(Payload(list[i]), <<p, "whole">>)}
  BY <1>4, <1>6, <1>7, <1>8
<1>12. Commit(b, p, list) \in Seq(Writes)
  BY <1>7, <1>8
<1>13. m \in {0, 1} /\ (~Exists(b) => m = 1)
  BY <1>1 DEF m
<1> QED
  BY <1>4, <1>5, <1>10, <1>11, <1>12, <1>13

(* The actions the journal of p has for uninstall.                         *)
ListOf(b, p) == IF disk[b][Journal(p)] = Empty THEN << >> ELSE disk[b][Journal(p)]

LEMMA UninstallPhases ==
  ASSUME NEW b \in Bottles, disk[b] \in Bottle, NEW p \in Packages, Has(b, Journal(p))
  PROVE  LET list == ListOf(b, p)
         IN  /\ list \in Seq(Payloads)
             /\ Uninstall(b, p) \in Seq(Writes)
             /\ Len(list) \in Nat /\ Len(Uninstall(b, p)) = Len(list) + 1
             /\ \A i \in 1..Len(list) : /\ list[i] \in Payloads
                                        /\ Uninstall(b, p)[i] = One(Payload(list[i]), Absent)
             /\ Uninstall(b, p)[Len(list) + 1] = One(Journal(p), Absent)
<1> DEFINE list == ListOf(b, p)
           first == [i \in DOMAIN list |-> One(Payload(list[i]), Absent)]
           second == << One(Journal(p), Absent) >>
<1>1. disk[b][Journal(p)] \in Setups[p] \cup {Empty}
  BY FileNames, ContentsOf DEF Bottle, Has
<1>2. list \in Seq(Payloads)
  <2>1. Setups[p] \subseteq Seq(Payloads)
    BY BottlesAssumption
  <2> QED
    BY <1>1, <2>1 DEF ListOf
<1> HIDE DEF list
<1>3. Len(list) \in Nat /\ DOMAIN list = 1..Len(list) /\ \A i \in 1..Len(list) : list[i] \in Payloads
  BY <1>2, LenProperties, ElementOfSeq
<1>4. ASSUME NEW i \in 1..Len(list)
      PROVE  One(Payload(list[i]), Absent) \in Writes
  BY <1>3, OnePhase, FileNames
<1>5. first \in [1..Len(list) -> Writes]
  BY <1>3, <1>4
<1>6. first \in Seq(Writes)
  BY <1>3, <1>5, SeqDef
<1>7. Len(first) = Len(list) /\ \A i \in 1..Len(list) : first[i] = One(Payload(list[i]), Absent)
  BY <1>3, <1>5, <1>6, LenProperties
<1>8. second \in Seq(Writes) /\ Len(second) = 1 /\ second[1] = One(Journal(p), Absent)
  <2>1. One(Journal(p), Absent) \in Writes
    BY OnePhase, FileNames
  <2> QED
    BY <2>1
<1>9. Uninstall(b, p) = first \o second
  BY DEF Uninstall, ListOf, list
<1> HIDE DEF first, second
<1>10. /\ first \o second \in Seq(Writes) /\ Len(first \o second) = Len(first) + Len(second)
       /\ \A i \in 1..Len(first) : (first \o second)[i] = first[i]
       /\ \A i \in 1..Len(second) : (first \o second)[Len(first) + i] = second[i]
  BY <1>6, <1>8, Joined
<1> QED
  BY <1>2, <1>3, <1>7, <1>8, <1>9, <1>10 DEF list

LEMMA RuntimePhases ==
  ASSUME NEW b
  PROVE  /\ RuntimeInstall(b) \in Seq(Writes)
         /\ \E m \in {0, 1} :
              /\ ~Exists(b) => m = 1
              /\ Len(RuntimeInstall(b)) = m + 1
              /\ m = 1 => RuntimeInstall(b)[1] = One(Dir, "bare")
              /\ RuntimeInstall(b)[m + 1] = One(Marker, "installed")
         /\ RuntimeUninstall(b) \in Seq(Writes) /\ Len(RuntimeUninstall(b)) = 1
         /\ RuntimeUninstall(b)[1] = One(Marker, Absent)
<1>1. One(Marker, "installed") \in Writes /\ One(Marker, Absent) \in Writes
  BY OnePhase, ContentsOf, FileNames
<1>2. /\ MakeDir(b) \in Seq(Writes) /\ Len(MakeDir(b)) \in {0, 1}
      /\ ~Exists(b) => Len(MakeDir(b)) = 1
      /\ Len(MakeDir(b)) = 1 => MakeDir(b)[1] = One(Dir, "bare")
  BY MakeDirPhases
<1> DEFINE second == << One(Marker, "installed") >>
<1>3. second \in Seq(Writes) /\ Len(second) = 1 /\ second[1] = One(Marker, "installed")
  BY <1>1
<1>4. RuntimeInstall(b) = MakeDir(b) \o second
  BY DEF RuntimeInstall
<1> HIDE DEF second
<1>5. /\ MakeDir(b) \o second \in Seq(Writes) /\ Len(MakeDir(b) \o second) = Len(MakeDir(b)) + 1
      /\ Len(MakeDir(b)) = 1 => (MakeDir(b) \o second)[1] = MakeDir(b)[1]
      /\ (MakeDir(b) \o second)[Len(MakeDir(b)) + 1] = second[1]
  BY <1>2, <1>3, Joined
<1> QED
  BY <1>1, <1>2, <1>3, <1>4, <1>5 DEF RuntimeUninstall

LEMMA RestorePhases ==
  ASSUME NEW b, NEW records \in Writes
  PROVE  /\ Restore(b, records) \in Seq(Writes) /\ Len(Restore(b, records)) = 3
         /\ Restore(b, records)[1] = One(Dir, "full")
         /\ Restore(b, records)[2] = One(Conf, Defaults("win64"))
         /\ Restore(b, records)[3] = records
<1> DEFINE first == Create(b, "win64")
           second == << records >>
<1>1. /\ first \in Seq(Writes) /\ Len(first) = 2
      /\ first[1] = One(Dir, "full") /\ first[2] = One(Conf, Defaults("win64"))
  BY CreatePhases DEF Archs
<1>2. second \in Seq(Writes) /\ Len(second) = 1 /\ second[1] = records
  OBVIOUS
<1>3. Restore(b, records) = first \o second
  BY DEF Restore
<1> HIDE DEF first, second
<1>4. /\ first \o second \in Seq(Writes) /\ Len(first \o second) = Len(first) + Len(second)
      /\ \A i \in 1..Len(first) : (first \o second)[i] = first[i]
      /\ \A i \in 1..Len(second) : (first \o second)[Len(first) + i] = second[i]
  BY <1>1, <1>2, Joined
<1> QED
  BY <1>1, <1>2, <1>3, <1>4

-----------------------------------------------------------------------------
(* What Advance does to the writes that are left: the write of g is done,  *)
(* and the first d phases are over.                                        *)
Works(d, g) ==
  /\ \A i \in Nat \ {0}, f \in Files :
       Pends(i, f)' <=> Pends(i + d, f) /\ ~(i + d = 1 /\ f = g)
  /\ \A i \in Nat \ {0}, f \in Files : Pends(i, f)' => todo'[i][f] = todo[i + d][f]
  /\ \A i \in Nat \ {0}, f \in Files : Pends(i, f) /\ ~(i = 1 /\ f = g) => i > d
  /\ \/ disk' = disk /\ \A f \in Files : ~Pends(1, f)
     \/ /\ g \in Files /\ Pends(1, g) /\ todo[1][g] \in Contents(g) \cup {Absent}
        /\ disk' = [disk EXCEPT ![call.bottle][g] = todo[1][g]]

LEMMA PhaseTyped ==
  ASSUME NEW ph \in Writes
  PROVE  /\ DOMAIN ph \subseteq Files
         /\ \A f \in DOMAIN ph : ph[f] \in Contents(f) \cup {Absent}
BY DEF Writes

LEMMA AdvanceWorks ==
  ASSUME TypeInv, Advance
  PROVE  /\ \E d \in {0, 1} : \E g : Works(d, g)
         /\ todo' \in Seq(Writes)
<1>1. /\ todo \in Seq(Writes) /\ todo # << >> /\ Len(todo) \in Nat /\ Len(todo) >= 1
      /\ todo[1] \in Writes
  <2>1. todo \in Seq(Writes) /\ todo # << >>
    BY DEF TypeInv, CallTyped, Advance
  <2>2. Len(todo) \in Nat \ {0}
    BY <2>1, EmptySeq
  <2> QED
    BY <2>1, <2>2, ElementOfSeq
<1>2. /\ Tail(todo) \in Seq(Writes) /\ Len(Tail(todo)) = Len(todo) - 1
      /\ \A i \in 1..Len(todo) - 1 : Tail(todo)[i] = todo[i + 1]
  BY <1>1, HeadTailProperties
<1>3. CASE DOMAIN todo[1] = {} /\ todo' = Tail(todo) /\ UNCHANGED disk
  <2>1. \A i \in Nat \ {0}, f \in Files :
          Pends(i, f)' <=> Pends(i + 1, f) /\ ~(i + 1 = 1 /\ f = 1)
    BY <1>1, <1>2, <1>3 DEF Pends
  <2>2. \A i \in Nat \ {0}, f \in Files : Pends(i, f)' => todo'[i][f] = todo[i + 1][f]
    BY <1>1, <1>2, <1>3 DEF Pends
  <2>3. \A i \in Nat \ {0}, f \in Files : Pends(i, f) /\ ~(i = 1 /\ f = 1) => i > 1
    BY <1>1, <1>3 DEF Pends
  <2>5. \A f \in Files : ~Pends(1, f)
    BY <1>3 DEF Pends
  <2>4. Works(1, 1)
    BY <2>1, <2>2, <2>3, <2>5, <1>3, Zenon DEF Works
  <2> QED
    BY <2>4, <1>2, <1>3
<1>4. ASSUME NEW g \in DOMAIN todo[1],
             disk' = [disk EXCEPT ![call.bottle][g] = todo[1][g]],
             todo' = IF DOMAIN todo[1] = {g} THEN Tail(todo)
                     ELSE [todo EXCEPT ![1] = [h \in DOMAIN todo[1] \ {g} |-> todo[1][h]]]
      PROVE  (\E d \in {0, 1} : Works(d, g)) /\ todo' \in Seq(Writes)
  <2>1. g \in Files /\ Pends(1, g) /\ todo[1][g] \in Contents(g) \cup {Absent}
    BY <1>1, <1>4, PhaseTyped DEF Pends
  <2>2. CASE DOMAIN todo[1] = {g}
    <3>1. \A i \in Nat \ {0}, f \in Files :
            Pends(i, f)' <=> Pends(i + 1, f) /\ ~(i + 1 = 1 /\ f = g)
      BY <1>1, <1>2, <1>4, <2>2 DEF Pends
    <3>2. \A i \in Nat \ {0}, f \in Files : Pends(i, f)' => todo'[i][f] = todo[i + 1][f]
      BY <1>1, <1>2, <1>4, <2>2 DEF Pends
    <3>3. \A i \in Nat \ {0}, f \in Files : Pends(i, f) /\ ~(i = 1 /\ f = g) => i > 1
      BY <1>1, <2>2 DEF Pends
    <3>4. Works(1, g)
      BY <2>1, <3>1, <3>2, <3>3, <1>4, Zenon DEF Works
    <3> QED
      BY <3>4, <1>2, <1>4, <2>2
  <2>3. CASE DOMAIN todo[1] # {g}
    <3> DEFINE rest == [h \in DOMAIN todo[1] \ {g} |-> todo[1][h]]
    <3>1. rest \in Writes
      <4>1. todo[1] \in [DOMAIN todo[1] -> AnyContent] /\ DOMAIN todo[1] \subseteq Files
        BY <1>1 DEF Writes
      <4>2. rest \in [DOMAIN todo[1] \ {g} -> AnyContent]
        BY <4>1
      <4>3. DOMAIN todo[1] \ {g} \in SUBSET Files
        BY <4>1
      <4>4. \A f \in DOMAIN rest : rest[f] \in Contents(f) \cup {Absent}
        BY <1>1, PhaseTyped
      <4> QED
        BY <4>2, <4>3, <4>4 DEF Writes
    <3>2. DOMAIN rest = DOMAIN todo[1] \ {g} /\ \A h \in DOMAIN rest : rest[h] = todo[1][h]
      OBVIOUS
    <3>3. todo' = [todo EXCEPT ![1] = rest]
      BY <1>4, <2>3
    <3> HIDE DEF rest
    <3>4. /\ todo' \in Seq(Writes) /\ Len(todo') = Len(todo)
          /\ \A i \in 1..Len(todo) : todo'[i] = IF i = 1 THEN rest ELSE todo[i]
      <4>1. 1 \in 1..Len(todo)
        BY <1>1
      <4> QED
        BY <1>1, <3>1, <3>3, <4>1, ExceptSeq
    <3>5. \A i \in Nat \ {0}, f \in Files :
            Pends(i, f)' <=> Pends(i + 0, f) /\ ~(i + 0 = 1 /\ f = g)
      BY <1>1, <3>2, <3>4 DEF Pends
    <3>6. \A i \in Nat \ {0}, f \in Files : Pends(i, f)' => todo'[i][f] = todo[i + 0][f]
      BY <1>1, <3>2, <3>4 DEF Pends
    <3>8. \A i \in Nat \ {0}, f \in Files : Pends(i, f) /\ ~(i = 1 /\ f = g) => i > 0
      OBVIOUS
    <3>7. Works(0, g)
      BY <2>1, <3>5, <3>6, <3>8, <1>4, Zenon DEF Works
    <3> QED
      BY <3>4, <3>7
  <2> QED
    BY <2>2, <2>3
<1> QED
  BY <1>3, <1>4 DEF Advance

-----------------------------------------------------------------------------
(* Types.                                                                  *)
LEMMA BottleFiles ==
  ASSUME NEW files \in Bottle, NEW f \in Files
  PROVE  files[f] \in Contents(f) \cup {Absent}
BY DEF Bottle

LEMMA BottleExcept ==
  ASSUME NEW files \in Bottle, NEW f \in Files, NEW c \in Contents(f) \cup {Absent}
  PROVE  [files EXCEPT ![f] = c] \in Bottle
<1>1. c \in AnyContent
  BY DEF AnyContent
<1>2. [files EXCEPT ![f] = c] \in [Files -> AnyContent]
  BY <1>1 DEF Bottle
<1>3. \A g \in Files : [files EXCEPT ![f] = c][g] \in Contents(g) \cup {Absent}
  BY DEF Bottle
<1> QED
  BY <1>2, <1>3 DEF Bottle

LEMMA NoFilesTyped == NoFiles \in Bottle
BY DEF NoFiles, Bottle, AnyContent

LEMMA DiskExcept ==
  ASSUME TypeInv, NEW b \in Bottles, NEW f \in Files, NEW c \in Contents(f) \cup {Absent}
  PROVE  [disk EXCEPT ![b][f] = c] \in [Bottles -> Bottle]
<1>1. disk[b] \in Bottle
  BY DEF TypeInv
<1>2. [disk[b] EXCEPT ![f] = c] \in Bottle
  BY <1>1, BottleExcept
<1> QED
  BY <1>2 DEF TypeInv

LEMMA TornTyped ==
  ASSUME NEW f \in Files, NEW c \in Contents(f), f # Dir
  PROVE  Torn(f, c) \in Contents(f)
<1>1. CASE \E x \in Payloads : f = Payload(x)
  <2>1. PICK x \in Payloads : f = Payload(x)
    BY <1>1
  <2>2. f[1] = "file" /\ Contents(f) = Packages \X {"whole", "torn"}
    BY <2>1, FileNames, ContentsOf
  <2> QED
    BY <2>2 DEF Torn
<1>2. CASE \A x \in Payloads : f # Payload(x)
  <2>1. f \in {Conf, Marker} \cup {Journal(p) : p \in Packages}
    BY <1>2 DEF Files, Saved
  <2>2. Empty \in Contents(f) /\ f[1] # "file"
    BY <2>1, FileNames, ContentsOf
  <2> QED
    BY <2>2 DEF Torn
<1> QED
  BY <1>1, <1>2

(* A call begins with nothing left to do and touches no file.              *)
LEMMA CallBegins ==
  ASSUME TypeInv, NEW c, NEW phases \in Seq(Writes), Call(c, phases),
         (c = Idle /\ phases = << >>) \/ (c.op \in Ops /\ c.bottle \in Bottles)
  PROVE  /\ CallTyped' /\ disk' = disk /\ call' = c /\ todo' = phases /\ todo = << >>
BY BottlesAssumption DEF TypeInv, CallTyped, Call

LEMMA EmptyCallBegins ==
  ASSUME TypeInv, NEW c, Call(c, << >>),
         c = Idle \/ (c.op \in Ops /\ c.bottle \in Bottles)
  PROVE  CallTyped' /\ disk' = disk /\ call' = c /\ todo' = << >> /\ todo = << >>
<1>1. << >> \in Seq(Writes)
  OBVIOUS
<1> QED
  BY <1>1, CallBegins

LEMMA CreateTyped ==
  ASSUME TypeInv, NEW b \in Bottles, NEW arch \in Archs, BeginCreate(b, arch)
  PROVE  TypeInv'
<1>1. CallTyped' /\ disk' = disk
  BY CreatePhases, CallBegins DEF BeginCreate, Begin, Ops
<1>2. made' \in [Bottles -> Archs \cup {"junk", "lost"}] /\ loose' \in [Bottles -> SUBSET Packages]
  BY DEF BeginCreate, Owes, TypeInv
<1> QED
  BY <1>1, <1>2, NoFilesTyped DEF BeginCreate, Begin, TypeInv, ArchiveTyped

LEMMA DeleteTyped ==
  ASSUME TypeInv, NEW b \in Bottles, BeginDelete(b)
  PROVE  TypeInv'
<1>1. disk[b] \in Bottle
  BY DEF TypeInv
<1>2. CallTyped' /\ disk' = disk
  BY <1>1, DeletePhases, CallBegins DEF BeginDelete, Begin, Ops
<1>3. made' \in [Bottles -> Archs \cup {"junk", "lost"}] /\ loose' \in [Bottles -> SUBSET Packages]
  BY DEF BeginDelete, Owes, TypeInv
<1> QED
  BY <1>2, <1>3, NoFilesTyped DEF BeginDelete, Begin, TypeInv, ArchiveTyped

LEMMA ConfigTyped ==
  ASSUME TypeInv, NEW b \in Bottles, BeginConfig(b)
  PROVE  TypeInv'
<1>1. PICK junk \in Archs \cup {"junk"} : Begin([op |-> "config", bottle |-> b], Config(b, junk))
  BY DEF BeginConfig
<1>2. disk[b] \in Bottle
  BY DEF TypeInv
<1>3. Config(b, junk) \in Seq(Writes)
  BY <1>2, ConfigPhases
<1>4. CallTyped' /\ disk' = disk
  BY <1>1, <1>3, CallBegins DEF Begin, Ops
<1> QED
  BY <1>1, <1>4, NoFilesTyped DEF BeginConfig, Begin, TypeInv, ArchiveTyped

LEMMA SettingTyped ==
  ASSUME TypeInv, NEW b \in Bottles, Sets(b)
  PROVE  TypeInv'
<1>0. PICK line \in Lines : BeginSetting(b, line)
  BY DEF Sets
<1>1. disk[b] \in Bottle
  BY DEF TypeInv
<1>2. SetSetting(b, line) \in Seq(Writes)
  BY <1>0, <1>1, SettingPhases DEF BeginSetting
<1>3. CallTyped' /\ disk' = disk
  BY <1>0, <1>2, CallBegins DEF BeginSetting, Begin, Ops
<1>4. made' \in [Bottles -> Archs \cup {"junk", "lost"}] /\ loose' \in [Bottles -> SUBSET Packages]
  BY <1>0 DEF BeginSetting, Owes, TypeInv
<1> QED
  BY <1>0, <1>3, <1>4, NoFilesTyped DEF BeginSetting, Begin, TypeInv, ArchiveTyped

LEMMA CommitTyped ==
  ASSUME TypeInv, NEW b \in Bottles, NEW p \in Packages, BeginCommit(b, p)
  PROVE  TypeInv'
<1>1. PICK list \in Setups[p] : Begin([op |-> "commit", bottle |-> b], Commit(b, p, list))
  BY DEF BeginCommit
<1>2. Commit(b, p, list) \in Seq(Writes)
  BY CommitPhases
<1>3. CallTyped' /\ disk' = disk
  BY <1>1, <1>2, CallBegins DEF Begin, Ops
<1>4. made' \in [Bottles -> Archs \cup {"junk", "lost"}] /\ loose' \in [Bottles -> SUBSET Packages]
  BY DEF BeginCommit, Owes, TypeInv
<1> QED
  BY <1>1, <1>3, <1>4, NoFilesTyped DEF BeginCommit, Begin, TypeInv, ArchiveTyped

LEMMA UninstallTyped ==
  ASSUME TypeInv, NEW b \in Bottles, NEW p \in Packages, BeginUninstall(b, p)
  PROVE  TypeInv'
<1>1. disk[b] \in Bottle
  BY DEF TypeInv
<1>2. Uninstall(b, p) \in Seq(Writes)
  BY <1>1, UninstallPhases DEF BeginUninstall
<1>3. CallTyped' /\ disk' = disk
  BY <1>2, CallBegins DEF BeginUninstall, Begin, Ops
<1> QED
  BY <1>3, NoFilesTyped DEF BeginUninstall, Begin, TypeInv, ArchiveTyped

LEMMA RuntimeTyped ==
  ASSUME TypeInv, BeginRuntime \/ \E b \in Bottles : RuntimeInit(b)
  PROVE  TypeInv'
<1>1. CASE BeginRuntime
  <2>1. current \in Bottles
    BY <1>1 DEF BeginRuntime, TypeInv
  <2>2. PICK phases \in {RuntimeInstall(current), RuntimeUninstall(current)} :
          Begin([op |-> "runtime", bottle |-> current], phases)
    BY <1>1 DEF BeginRuntime
  <2>3. phases \in Seq(Writes)
    BY RuntimePhases
  <2>4. CallTyped' /\ disk' = disk
    BY <2>1, <2>2, <2>3, CallBegins DEF Begin, Ops
  <2> QED
    BY <1>1, <2>2, <2>4, NoFilesTyped DEF BeginRuntime, Begin, TypeInv, ArchiveTyped
<1>2. ASSUME NEW b \in Bottles, RuntimeInit(b)
      PROVE  TypeInv'
  <2>1. CallTyped' /\ disk' = disk
    BY <1>2, EmptyCallBegins DEF RuntimeInit, Begin, Ops
  <2> QED
    BY <1>2, <2>1, NoFilesTyped DEF RuntimeInit, Begin, TypeInv, ArchiveTyped
<1> QED
  BY <1>1, <1>2

LEMMA BackupTyped ==
  ASSUME TypeInv, NEW b \in Bottles, Backup(b)
  PROVE  TypeInv'
<1>1. CallTyped' /\ disk' = disk
  BY EmptyCallBegins DEF Backup, Begin, Ops
<1>2. disk[b] \in Bottle /\ loose[b] \subseteq Packages
  BY DEF TypeInv
<1>3. ArchiveTyped'
  BY <1>2, RecordsPhase DEF Backup, ArchiveTyped
<1> QED
  BY <1>1, <1>3, NoFilesTyped DEF Backup, Begin, TypeInv

LEMMA BackupCutTyped ==
  ASSUME TypeInv, NEW b \in Bottles, BackupCut(b)
  PROVE  TypeInv'
<1>1. CallTyped' /\ disk' = disk
  BY EmptyCallBegins DEF BackupCut, Begin
<1>2. disk[b] \in Bottle
  BY DEF TypeInv
<1>3. PICK kept \in SUBSET DOMAIN Records(disk[b]) :
        archive' = [end |-> "cut", of |-> NoFiles, loose |-> {},
                    records |-> [f \in kept |-> disk[b][f]]]
  BY DEF BackupCut
<1>4. [f \in kept |-> disk[b][f]] \in Writes /\ IsArchive([f \in kept |-> disk[b][f]])
  <2>1. kept \subseteq Saved /\ kept \subseteq Files /\ \A f \in kept : disk[b][f] # Absent
    BY <1>2, RecordsPhase, FileNames
  <2>2. \A f \in kept : disk[b][f] \in Contents(f)
    BY <1>2, <2>1, BottleFiles
  <2>3. [f \in kept |-> disk[b][f]] \in [kept -> AnyContent]
    BY <2>1, <2>2 DEF AnyContent
  <2> QED
    BY <2>1, <2>2, <2>3 DEF Writes, IsArchive
<1>5. ArchiveTyped'
  BY <1>3, <1>4, NoFilesTyped DEF ArchiveTyped
<1> QED
  BY <1>1, <1>5, NoFilesTyped DEF BackupCut, Begin, TypeInv

LEMMA ArchOfTyped ==
  ASSUME NEW records \in Writes, IsArchive(records)
  PROVE  ArchOf(records) \in Archs \cup {"junk"}
<1>1. Conf \in DOMAIN records => ConfSays(records[Conf]) \in Settings
  BY ConfSaysSettings DEF IsArchive
<1> QED
  BY <1>1 DEF ArchOf, Settings, Archs

LEMMA RestoreTyped ==
  ASSUME TypeInv, NEW b \in Bottles, BeginRestore(b)
  PROVE  TypeInv'
<1>1. archive.records \in Writes /\ IsArchive(archive.records)
  BY DEF BeginRestore, TypeInv, ArchiveTyped
<1>2. Restore(b, archive.records) \in Seq(Writes)
  BY <1>1, RestorePhases
<1>3. CallTyped' /\ disk' = disk
  BY <1>2, CallBegins DEF BeginRestore, Ops
<1>4. ArchOf(archive.records) \in Archs \cup {"junk"}
  BY <1>1, ArchOfTyped
<1>5. made' \in [Bottles -> Archs \cup {"junk", "lost"}] /\ loose' \in [Bottles -> SUBSET Packages]
  BY <1>4 DEF BeginRestore, MadeFrom, Owes, TypeInv, ArchiveTyped
<1>6. before' \in Bottle /\ source' \in Bottle
  BY DEF BeginRestore, TypeInv, ArchiveTyped
<1> QED
  BY <1>3, <1>5, <1>6 DEF BeginRestore, TypeInv, ArchiveTyped

LEMMA CloneTyped ==
  ASSUME TypeInv, NEW src \in Bottles, NEW dst \in Bottles, BeginClone(src, dst)
  PROVE  TypeInv'
<1>1. disk[src] \in Bottle /\ disk[dst] \in Bottle
  BY DEF TypeInv
<1>2. Records(disk[src]) \in Writes /\ IsArchive(Records(disk[src]))
  BY <1>1, RecordsPhase
<1>3. Restore(dst, Records(disk[src])) \in Seq(Writes)
  BY <1>2, RestorePhases
<1>4. CallTyped' /\ disk' = disk
  BY <1>3, CallBegins DEF BeginClone, Ops
<1>5. ArchOf(Records(disk[src])) \in Archs \cup {"junk"}
  BY <1>2, ArchOfTyped
<1>6. made' \in [Bottles -> Archs \cup {"junk", "lost"}] /\ loose' \in [Bottles -> SUBSET Packages]
  BY <1>5 DEF BeginClone, MadeFrom, Owes, TypeInv
<1> QED
  BY <1>1, <1>4, <1>6 DEF BeginClone, TypeInv, ArchiveTyped

LEMMA BottleOfCall ==
  ASSUME TypeInv, todo # << >>
  PROVE  call.bottle \in Bottles /\ call.op \in Ops
BY DEF TypeInv, CallTyped, Idle, Ops

LEMMA AdvanceTyped ==
  ASSUME TypeInv, Advance
  PROVE  TypeInv'
<1>1. todo' \in Seq(Writes)
  BY AdvanceWorks
<1>2. CallTyped'
  BY <1>1 DEF TypeInv, CallTyped, Advance, others
<1>3. call.bottle \in Bottles
  BY BottleOfCall DEF Advance
<1>0. PICK d \in {0, 1} : \E h : Works(d, h)
  BY AdvanceWorks
<1>4. PICK g : Works(d, g)
  BY <1>0
<1>5. disk' \in [Bottles -> Bottle]
  <2>1. CASE disk' = disk
    BY <2>1 DEF TypeInv
  <2>2. ASSUME g \in Files, todo[1][g] \in Contents(g) \cup {Absent},
               disk' = [disk EXCEPT ![call.bottle][g] = todo[1][g]]
        PROVE  disk' \in [Bottles -> Bottle]
    <3>1. [disk EXCEPT ![call.bottle][g] = todo[1][g]] \in [Bottles -> Bottle]
      BY <1>3, <2>2, DiskExcept
    <3> QED
      BY <2>2, <3>1
  <2> QED
    BY <1>4, <2>1, <2>2 DEF Works
<1> QED
  BY <1>2, <1>5 DEF TypeInv, Advance, others, ArchiveTyped

(* The file a killed process was writing, and what is left of it.          *)
Tears(f) ==
  /\ f \in Saved /\ Pends(1, f) /\ todo[1][f] \in Contents(f)
  /\ disk' = [disk EXCEPT ![call.bottle][f] = Torn(f, todo[1][f])]

LEMMA CrashTears ==
  ASSUME TypeInv, Crash
  PROVE  disk' = disk \/ \E f : Tears(f)
<1>1. todo \in Seq(Writes) /\ todo # << >>
  BY DEF TypeInv, CallTyped, Crash
<1>2. 1 \in 1..Len(todo) /\ todo[1] \in Writes
  BY <1>1, EmptySeq, ElementOfSeq
<1>3. ASSUME NEW f \in DOMAIN todo[1] \ {Dir}, todo[1][f] # Absent,
             disk' = [disk EXCEPT ![call.bottle][f] = Torn(f, todo[1][f])]
      PROVE  Tears(f)
  <2>1. f \in Files /\ todo[1][f] \in Contents(f)
    BY <1>2, <1>3, PhaseTyped
  <2>2. f \in Saved
    BY <2>1 DEF Files
  <2> QED
    BY <1>2, <1>3, <2>1, <2>2 DEF Tears, Pends
<1> QED
  BY <1>3 DEF Crash

LEMMA CrashTyped ==
  ASSUME TypeInv, Crash
  PROVE  TypeInv'
<1>1. call.bottle \in Bottles
  BY BottleOfCall DEF Crash
<1>2. disk' \in [Bottles -> Bottle]
  <2>1. ASSUME NEW f, Tears(f)
        PROVE  disk' \in [Bottles -> Bottle]
    <3>1. f \in Files /\ f # Dir
      BY <2>1, FileNames DEF Tears
    <3>2. Torn(f, todo[1][f]) \in Contents(f)
      BY <2>1, <3>1, TornTyped DEF Tears
    <3> QED
      BY <1>1, <2>1, <3>1, <3>2, DiskExcept DEF Tears
  <2> QED
    BY <2>1, CrashTears DEF TypeInv
<1>3. CallTyped'
  BY DEF TypeInv, CallTyped, Crash
<1>4. made' \in [Bottles -> Archs \cup {"junk", "lost"}] /\ loose' \in [Bottles -> SUBSET Packages]
  BY <1>1 DEF Crash, Owes, TypeInv
<1> QED
  BY <1>2, <1>3, <1>4 DEF TypeInv, Crash, ArchiveTyped

LEMMA InitTyped == Init => TypeInv
<1> SUFFICES ASSUME Init PROVE TypeInv
  OBVIOUS
<1>1. CallTyped
  BY BottlesAssumption DEF Init, CallTyped
<1>2. ArchiveTyped
  BY NoFilesTyped DEF Init, ArchiveTyped
<1> QED
  BY <1>1, <1>2, NoFilesTyped DEF Init, TypeInv

(* The actions, as the proofs below go through them.                       *)
Begins ==
  \E b \in Bottles :
    \/ \E arch \in Archs : BeginCreate(b, arch)
    \/ BeginDelete(b) \/ BeginConfig(b) \/ Sets(b)
    \/ \E p \in Packages : BeginCommit(b, p) \/ BeginUninstall(b, p)
    \/ RuntimeInit(b) \/ Backup(b) \/ BackupCut(b) \/ BeginRestore(b)
    \/ \E src \in Bottles : BeginClone(src, b)

LEMMA StepTyped == TypeInv /\ [Next]_vars => TypeInv'
<1> SUFFICES ASSUME TypeInv, [Next]_vars PROVE TypeInv'
  OBVIOUS
<1>1. CASE UNCHANGED vars
  BY <1>1 DEF vars, TypeInv, ArchiveTyped, CallTyped
<1>2. CASE Begins
  BY <1>2, CreateTyped, DeleteTyped, ConfigTyped, SettingTyped, CommitTyped, UninstallTyped,
     RuntimeTyped, BackupTyped, BackupCutTyped, RestoreTyped, CloneTyped DEF Begins
<1>3. CASE BeginRuntime \/ Advance \/ Crash
  BY <1>3, RuntimeTyped, AdvanceTyped, CrashTyped
<1> QED
  BY <1>1, <1>2, <1>3 DEF Next, Begins, Sets

LEMMA AlwaysTyped == Spec => []TypeInv
<1> QED
  BY InitTyped, StepTyped, PTL DEF Spec

(* Whatever is called and wherever it is killed, each file of a bottle and *)
(* of an archive holds what its own writers put there, or is truncated or  *)
(* missing.                                                                *)
THEOREM FilesKeepTheirKind == Spec => []BottlesTypeOK
<1>1. TypeInv => BottlesTypeOK
  <2> SUFFICES ASSUME TypeInv PROVE BottlesTypeOK
    OBVIOUS
  <2>1. \A b \in Bottles, f \in Files : disk[b][f] \in Contents(f) \cup {Absent}
    BY BottleFiles DEF TypeInv
  <2> QED
    BY <2>1 DEF TypeInv, BottlesTypeOK, ArchiveTyped, CallTyped, IsArchive
<1> QED
  BY <1>1, AlwaysTyped, PTL

-----------------------------------------------------------------------------
(* What a call will leave in a file does not change while it works.        *)
LEMMA TodoLen ==
  ASSUME TypeInv
  PROVE  Len(todo) \in Nat /\ (todo = << >> <=> Len(todo) = 0)
<1>1. todo \in Seq(Writes)
  BY DEF TypeInv, CallTyped
<1> QED
  BY <1>1, EmptySeq

LEMMA SettlesStays ==
  ASSUME TypeInv, Advance, NEW f \in Files, NEW v, Settles(f, v)
  PROVE  Settles(f, v)'
<1>1. TypeInv' /\ call' = call /\ call.bottle \in Bottles
  BY AdvanceTyped, BottleOfCall DEF Advance
<1>2. Len(todo) \in Nat /\ Len(todo') \in Nat
  BY <1>1, TodoLen DEF TypeInv, CallTyped
<1>0. PICK d \in {0, 1} : \E h : Works(d, h)
  BY AdvanceWorks
<1>3. PICK g : Works(d, g)
  BY <1>0
<1>4. \A i \in Nat \ {0} : /\ Pends(i, f)' <=> Pends(i + d, f) /\ ~(i + d = 1 /\ f = g)
                           /\ Pends(i, f)' => todo'[i][f] = todo[i + d][f]
                           /\ Pends(i, f) /\ ~(i = 1 /\ f = g) => i > d
  BY <1>3, Zenon DEF Works
<1>5. \A i : /\ Pends(i, f) => i \in 1..Len(todo)
             /\ Pends(i, f)' => i \in 1..Len(todo')
  BY DEF Pends
<1>6. disk \in [Bottles -> Bottle] /\ disk[call.bottle] \in [Files -> AnyContent]
  BY <1>1 DEF TypeInv, Bottle
<1>7. \/ disk' = disk /\ ~Pends(1, f)
      \/ /\ g \in Files /\ Pends(1, g)
         /\ disk' = [disk EXCEPT ![call.bottle][g] = todo[1][g]]
  BY <1>3, Zenon DEF Works
<1>8. CASE (\A i \in 1..Len(todo) : ~Pends(i, f)) /\ disk[call.bottle][f] = v
  <2>1. \A i \in Nat \ {0} : ~Pends(i, f)
    BY <1>5, <1>8
  <2>2. \A i \in 1..Len(todo') : ~Pends(i, f)'
    <3> TAKE i \in 1..Len(todo')
    <3>1. i \in Nat \ {0} /\ i + d \in Nat \ {0}
      BY <1>2
    <3> QED
      BY <2>1, <1>4, <3>1, Zenon
  <2>3. disk'[call.bottle][f] = v
    <3>1. ~Pends(1, f)
      BY <2>1
    <3>2. CASE disk' = disk
      BY <1>8, <3>2
    <3>3. CASE /\ g \in Files /\ Pends(1, g)
               /\ disk' = [disk EXCEPT ![call.bottle][g] = todo[1][g]]
      <4>1. f # g
        BY <3>1, <3>3
      <4> QED
        BY <4>1, <3>3, <1>6, <1>8, <1>1
    <3> QED
      BY <3>2, <3>3, <1>7
  <2> QED
    BY <2>2, <2>3, <1>1 DEF Settles
<1>9. ASSUME NEW i \in 1..Len(todo), Pends(i, f), todo[i][f] = v,
             \A j \in 1..Len(todo) : Pends(j, f) => j <= i
      PROVE  Settles(f, v)'
  <2>1. \A j \in 1..Len(todo') : Pends(j, f)' => j + d <= i /\ Pends(j + d, f) /\ ~(j + d = 1 /\ f = g)
    <3> SUFFICES ASSUME NEW j \in 1..Len(todo'), Pends(j, f)'
                 PROVE  j + d <= i /\ Pends(j + d, f) /\ ~(j + d = 1 /\ f = g)
      OBVIOUS
    <3>1. j \in Nat \ {0}
      BY <1>2
    <3>2. Pends(j + d, f) /\ ~(j + d = 1 /\ f = g)
      BY <1>4, <3>1, Zenon
    <3>3. j + d \in 1..Len(todo)
      BY <1>5, <3>2
    <3> QED
      BY <1>9, <3>2, <3>3
  <2>2. CASE i = 1 /\ f = g
    <3>1. \A j \in 1..Len(todo') : ~Pends(j, f)'
      <4> SUFFICES ASSUME NEW j \in 1..Len(todo'), Pends(j, f)' PROVE FALSE
        OBVIOUS
      <4>1. j + d <= 1 /\ ~(j + d = 1 /\ f = g)
        BY <2>1, <2>2
      <4>2. j + d = 1
        BY <4>1, <1>2
      <4> QED
        BY <4>1, <4>2, <2>2
    <3>2. disk' = [disk EXCEPT ![call.bottle][f] = v]
      BY <1>7, <1>9, <2>2
    <3>3. disk'[call.bottle][f] = v
      BY <3>2, <1>1, <1>6
    <3> QED
      BY <3>1, <3>3, <1>1 DEF Settles
  <2>3. CASE ~(i = 1 /\ f = g)
    <3>1. i \in Nat \ {0}
      BY <1>2
    <3>2. i > d
      BY <3>1, <1>4, <1>9, <2>3, Zenon
    <3>3. i - d \in Nat \ {0} /\ (i - d) + d = i
      BY <3>1, <3>2
    <3>4. Pends(i - d, f)' /\ todo'[i - d][f] = v
      <4>1. Pends((i - d) + d, f) /\ ~((i - d) + d = 1 /\ f = g)
        BY <3>3, <1>9, <2>3
      <4>2. Pends(i - d, f)'
        BY <4>1, <3>3, <1>4, Zenon
      <4>3. todo'[i - d][f] = todo[(i - d) + d][f]
        BY <4>2, <3>3, <1>4, Zenon
      <4> QED
        BY <4>2, <4>3, <3>3, <1>9
    <3>5. i - d \in 1..Len(todo')
      BY <3>4, <1>5
    <3>6. \A j \in 1..Len(todo') : Pends(j, f)' => j <= i - d
      BY <2>1, <1>2, <3>1
    <3> QED
      BY <3>4, <3>5, <3>6, Zenon DEF Settles
  <2> QED
    BY <2>2, <2>3
<1> QED
  BY <1>8, <1>9 DEF Settles

(* What a fresh call will leave: in a file that no phase writes, what is   *)
(* there; in a file that a phase writes last, what it writes.              *)
Untouched(f, phases) == \A i \in 1..Len(phases) : f \notin DOMAIN phases[i]

LEMMA SettlesUntouched ==
  ASSUME NEW f, NEW v, disk' = disk, Untouched(f, todo'), v = disk[call'.bottle][f]
  PROVE  Settles(f, v)'
<1>1. \A i \in 1..Len(todo') : ~Pends(i, f)'
  BY DEF Untouched, Pends
<1> QED
  BY <1>1 DEF Settles

LEMMA SettlesLast ==
  ASSUME NEW f, NEW v, NEW i \in 1..Len(todo'), f \in DOMAIN todo'[i], todo'[i][f] = v,
         \A j \in 1..Len(todo') : f \in DOMAIN todo'[j] => j <= i
  PROVE  Settles(f, v)'
BY DEF Settles, Pends

LEMMA SettlesEmpty ==
  ASSUME TypeInv, todo = << >>, NEW f, NEW v
  PROVE  Settles(f, v) <=> disk[call.bottle][f] = v
<1>1. 1..Len(todo) = {}
  BY TodoLen
<1> QED
  BY <1>1 DEF Settles

LEMMA ConfUntouched ==
  /\ \A b \in Bottles, p \in Packages : \A list \in Setups[p] : Untouched(Conf, Commit(b, p, list))
  /\ \A b \in Bottles, p \in Packages :
       disk[b] \in Bottle /\ Has(b, Journal(p)) => Untouched(Conf, Uninstall(b, p))
  /\ \A b : Untouched(Conf, RuntimeInstall(b)) /\ Untouched(Conf, RuntimeUninstall(b))
<1>1. ASSUME NEW b \in Bottles, NEW p \in Packages, NEW list \in Setups[p],
             NEW i \in 1..Len(Commit(b, p, list))
      PROVE  Conf \notin DOMAIN Commit(b, p, list)[i]
  <2>1. PICK m \in {0, 1} :
              /\ Len(Commit(b, p, list)) = m + 1 + Len(list) /\ Len(list) \in Nat
              /\ m = 1 => Commit(b, p, list)[1] = One(Dir, "bare")
              /\ Commit(b, p, list)[m + 1] = One(Journal(p), list)
              /\ \A k \in 1..Len(list) :
                   /\ list[k] \in Payloads
                   /\ Commit(b, p, list)[m + 1 + k]
                        \in {Nothing, One(Payload(list[k]), <<p, "whole">>)}
    BY CommitPhases
  <2>2. CASE i = m + 1
    BY <2>1, <2>2, FileNames DEF One
  <2>3. CASE i < m + 1
    BY <2>1, <2>3, FileNames DEF One
  <2>4. CASE i > m + 1
    <3>1. i - (m + 1) \in 1..Len(list) /\ m + 1 + (i - (m + 1)) = i
      BY <2>1, <2>4
    <3>2. PICK k \in 1..Len(list) : m + 1 + k = i
      BY <3>1
    <3>3. Commit(b, p, list)[i] \in {Nothing, One(Payload(list[k]), <<p, "whole">>)}
      BY <2>1, <3>2
    <3> QED
      BY <3>3, NoPhase, FileNames DEF One
  <2> QED
    BY <2>1, <2>2, <2>3, <2>4
<1>2. ASSUME NEW b \in Bottles, NEW p \in Packages, disk[b] \in Bottle, Has(b, Journal(p)),
             NEW i \in 1..Len(Uninstall(b, p))
      PROVE  Conf \notin DOMAIN Uninstall(b, p)[i]
  <2> DEFINE list == ListOf(b, p)
  <2>1. /\ Len(list) \in Nat /\ Len(Uninstall(b, p)) = Len(list) + 1
        /\ \A k \in 1..Len(list) : Uninstall(b, p)[k] = One(Payload(list[k]), Absent)
        /\ Uninstall(b, p)[Len(list) + 1] = One(Journal(p), Absent)
    BY <1>2, UninstallPhases
  <2> HIDE DEF list
  <2>2. CASE i = Len(list) + 1
    BY <2>1, <2>2, FileNames DEF One
  <2>3. CASE i # Len(list) + 1
    <3>1. i \in 1..Len(list)
      BY <2>1, <2>3
    <3>2. PICK x : x = list[i]
      OBVIOUS
    <3>3. Uninstall(b, p)[i] = One(Payload(x), Absent) /\ Payload(x) # Conf
      BY <2>1, <3>1, <3>2, FileNames
    <3> QED
      BY <3>3 DEF One
  <2> QED
    BY <2>2, <2>3
<1>3. ASSUME NEW b
      PROVE  Untouched(Conf, RuntimeInstall(b)) /\ Untouched(Conf, RuntimeUninstall(b))
  <2>1. PICK m \in {0, 1} :
              /\ Len(RuntimeInstall(b)) = m + 1
              /\ m = 1 => RuntimeInstall(b)[1] = One(Dir, "bare")
              /\ RuntimeInstall(b)[m + 1] = One(Marker, "installed")
    BY RuntimePhases
  <2>2. \A i \in 1..Len(RuntimeInstall(b)) : Conf \notin DOMAIN RuntimeInstall(b)[i]
    BY <2>1, FileNames DEF One
  <2>3. \A i \in 1..Len(RuntimeUninstall(b)) : Conf \notin DOMAIN RuntimeUninstall(b)[i]
    BY RuntimePhases, FileNames DEF One
  <2> QED
    BY <2>2, <2>3 DEF Untouched
<1> QED
  BY <1>1, <1>2, <1>3 DEF Untouched

-----------------------------------------------------------------------------
(* The architecture.                                                       *)
LEMMA ArchBegins ==
  ASSUME TypeInv, ArchInv, todo = << >>, disk' = disk, NEW b \in Bottles, call'.bottle = b,
         \A x \in Bottles : x # b => made'[x] = made[x],
         todo' # << >>,
         made'[b] # "lost" => \E v \in Contents(Conf) : Settles(Conf, v)' /\ ConfSays(v).arch = made'[b]
  PROVE  ArchInv'
BY DEF ArchInv, Busy, Has

LEMMA ArchStays ==
  ASSUME TypeInv, ArchInv, todo = << >>, disk' = disk, made' = made,
         todo' = << >> \/ (call'.bottle \in Bottles /\ Untouched(Conf, todo'))
  PROVE  ArchInv'
<1>1. \A b \in Bottles : ~Busy(b)
  BY DEF Busy
<1>2. CASE todo' = << >>
  BY <1>1, <1>2 DEF ArchInv, Busy, Has
<1>3. CASE todo' # << >> /\ call'.bottle \in Bottles /\ Untouched(Conf, todo')
  <2>1. PICK b \in Bottles : b = call'.bottle
    BY <1>3
  <2>2. PICK v : v = disk[b][Conf]
    OBVIOUS
  <2>3. Settles(Conf, v)'
    BY <1>3, <2>1, <2>2, SettlesUntouched
  <2>4. disk[b] \in Bottle
    BY DEF TypeInv
  <2>5. made[b] # "lost" => v \in Contents(Conf) /\ ConfSays(v).arch = made[b]
    BY <1>1, <2>2, <2>4, BottleFiles, FileNames DEF ArchInv, Has
  <2> QED
    BY <1>3, <2>1, <2>3, <2>5, ArchBegins
<1> QED
  BY <1>2, <1>3

LEMMA ConfSettlesLast ==
  ASSUME NEW c \in Settings, todo' = << One(Conf, c) >>
  PROVE  todo' # << >> /\ Settles(Conf, c)' /\ c \in Contents(Conf) /\ ConfSays(c) = c
<1>1. 1..Len(todo') = {1} /\ todo'[1] = One(Conf, c) /\ todo' # << >>
  OBVIOUS
<1>2. Settles(Conf, c)'
  <2>1. /\ 1 \in 1..Len(todo') /\ Conf \in DOMAIN todo'[1] /\ todo'[1][Conf] = c
        /\ \A j \in 1..Len(todo') : Conf \in DOMAIN todo'[j] => j <= 1
    BY <1>1 DEF One
  <2> QED
    BY <2>1, SettlesLast
<1>3. c # Empty
  BY BottlesAssumption
<1> QED
  BY <1>1, <1>2, <1>3, ContentsOf DEF ConfSays

(* What restore leaves in a file: the record, or its own prefix.conf.      *)
LEMMA RestoreSettles ==
  ASSUME NEW b, NEW records \in Writes, DOMAIN records \subseteq Saved,
         todo' = Restore(b, records), disk' = disk, NEW f \in Saved, NEW v,
         v = IF f \in DOMAIN records THEN records[f]
             ELSE IF f = Conf THEN Defaults("win64") ELSE disk[call'.bottle][f]
  PROVE  todo' # << >> /\ Settles(f, v)'
<1>1. /\ Len(todo') = 3 /\ todo'[1] = One(Dir, "full")
      /\ todo'[2] = One(Conf, Defaults("win64")) /\ todo'[3] = records
  BY RestorePhases
<1>2. f \notin DOMAIN todo'[1]
  BY <1>1, FileNames DEF One
<1>3. (f \in DOMAIN todo'[2] <=> f = Conf) /\ todo'[2][Conf] = Defaults("win64")
  BY <1>1 DEF One
<1>7. todo' # << >>
  BY <1>1
<1>4. ASSUME f \in DOMAIN records PROVE Settles(f, v)'
  <2>1. /\ 3 \in 1..Len(todo') /\ f \in DOMAIN todo'[3] /\ todo'[3][f] = v
        /\ \A j \in 1..Len(todo') : f \in DOMAIN todo'[j] => j <= 3
    BY <1>1, <1>4
  <2> QED
    BY <2>1, SettlesLast
<1>5. ASSUME f = Conf, f \notin DOMAIN records PROVE Settles(f, v)'
  <2>1. /\ 2 \in 1..Len(todo') /\ f \in DOMAIN todo'[2] /\ todo'[2][f] = v
    BY <1>1, <1>3, <1>5
  <2>2. \A j \in 1..Len(todo') : f \in DOMAIN todo'[j] => j <= 2
    BY <1>1, <1>5
  <2> QED
    BY <2>1, <2>2, SettlesLast
<1>6. ASSUME f # Conf, f \notin DOMAIN records PROVE Settles(f, v)'
  <2>1. Untouched(f, todo')
    BY <1>1, <1>2, <1>3, <1>6 DEF Untouched
  <2>2. v = disk[call'.bottle][f]
    BY <1>6
  <2> QED
    BY <2>1, <2>2, SettlesUntouched
<1> QED
  BY <1>4, <1>5, <1>6, <1>7

LEMMA ArchRestored ==
  ASSUME TypeInv, ArchInv, NEW b \in Bottles, NEW records \in Writes, IsArchive(records),
         todo = << >>, disk' = disk, todo' = Restore(b, records), call'.bottle = b,
         \A x \in Bottles : x # b => made'[x] = made[x], made'[b] \in {ArchOf(records), "lost"}
  PROVE  ArchInv'
<1>1. Defaults("win64") \in Settings /\ Defaults("win64").arch = "win64" /\ Defaults("win64") # Empty
  BY BottlesAssumption DEF Defaults, Settings, Archs
<1>2. PICK v : v = IF Conf \in DOMAIN records THEN records[Conf] ELSE Defaults("win64")
  OBVIOUS
<1>3. todo' # << >> /\ Settles(Conf, v)'
  BY <1>2, RestoreSettles, FileNames DEF IsArchive
<1>4. v \in Contents(Conf) /\ ConfSays(v).arch = ArchOf(records)
  BY <1>1, <1>2, ContentsOf DEF IsArchive, ArchOf, ConfSays
<1> QED
  BY <1>3, <1>4, ArchBegins

LEMMA ArchStep ==
  ASSUME TypeInv, ArchInv, [Next]_vars
  PROVE  ArchInv'
<1>1. ASSUME NEW b \in Bottles, NEW arch \in Archs, BeginCreate(b, arch)
      PROVE  ArchInv'
  <2>1. /\ todo = << >> /\ disk' = disk /\ todo' = Create(b, arch) /\ call'.bottle = b
        /\ made' = [made EXCEPT ![b] = arch]
    BY <1>1, CreatePhases, CallBegins DEF BeginCreate, Begin, Ops, Owes
  <2>2. /\ Len(todo') = 2 /\ todo'[1] = One(Dir, "full") /\ todo'[2] = One(Conf, Defaults(arch))
    BY <2>1, CreatePhases
  <2>3. PICK v : v = Defaults(arch)
    OBVIOUS
  <2>4. Settles(Conf, v)'
    <3>1. 2 \in 1..Len(todo') /\ Conf \in DOMAIN todo'[2] /\ todo'[2][Conf] = v
      BY <2>2, <2>3 DEF One
    <3>2. \A j \in 1..Len(todo') : Conf \in DOMAIN todo'[j] => j <= 2
      BY <2>2
    <3> QED
      BY <3>1, <3>2, SettlesLast
  <2>5. v \in Settings /\ v.arch = arch /\ v # Empty
    BY <2>3, BottlesAssumption DEF Defaults, Settings
  <2>6. v \in Contents(Conf) /\ ConfSays(v).arch = arch
    BY <2>5, ContentsOf DEF ConfSays
  <2>7. made'[b] = arch /\ \A x \in Bottles : x # b => made'[x] = made[x]
    BY <2>1 DEF TypeInv
  <2>8. todo' # << >>
    BY <2>2
  <2> QED
    BY <2>1, <2>4, <2>6, <2>7, <2>8, ArchBegins
<1>2. ASSUME NEW b \in Bottles, BeginDelete(b)
      PROVE  ArchInv'
  <2>1. disk[b] \in Bottle
    BY DEF TypeInv
  <2>2. todo = << >> /\ disk' = disk /\ todo' = Delete(b) /\ call'.bottle = b
    BY <1>2 DEF BeginDelete, Begin, Call
  <2>3. made'[b] = "lost" /\ \A x \in Bottles : x # b => made'[x] = made[x]
    BY <1>2 DEF BeginDelete, Owes, TypeInv
  <2> QED
    BY <2>2, <2>3 DEF ArchInv, Busy, Has
<1>3. ASSUME NEW b \in Bottles, BeginConfig(b)
      PROVE  ArchInv'
  <2>1. disk[b] \in Bottle /\ ~Busy(b)
    BY <1>3 DEF TypeInv, Busy, BeginConfig, Begin, Call
  <2>2. PICK junk \in Archs \cup {"junk"} : Begin([op |-> "config", bottle |-> b], Config(b, junk))
    BY <1>3 DEF BeginConfig
  <2>3. PICK c \in Settings :
          /\ c.arch = IF Has(b, Conf) THEN ConfSays(disk[b][Conf]).arch ELSE junk
          /\ Config(b, junk) = << One(Conf, c) >> /\ Config(b, junk) \in Seq(Writes)
    BY <2>1, ConfigPhases
  <2>4. /\ todo = << >> /\ disk' = disk /\ todo' = << One(Conf, c) >>
        /\ call'.bottle = b /\ made' = made
    BY <1>3, <2>2, <2>3 DEF BeginConfig, Begin, Call
  <2>5. todo' # << >> /\ Settles(Conf, c)' /\ c \in Contents(Conf) /\ ConfSays(c) = c
    BY <2>4, ConfSettlesLast
  <2>6. made[b] # "lost" => c.arch = made[b]
    BY <2>1, <2>3 DEF ArchInv
  <2> QED
    BY <2>4, <2>5, <2>6, ArchBegins
<1>13. ASSUME NEW b \in Bottles, Sets(b)
       PROVE  ArchInv'
  <2>0. PICK line \in Lines : BeginSetting(b, line)
    BY <1>13 DEF Sets
  <2>1. disk[b] \in Bottle /\ ~Busy(b) /\ Has(b, Conf)
    BY <2>0 DEF TypeInv, Busy, BeginSetting, Begin, Call
  <2>2. PICK c \in Settings :
          /\ c.arch = IF line.key = "arch" THEN line.value ELSE ConfSays(disk[b][Conf]).arch
          /\ SetSetting(b, line) = << One(Conf, c) >> /\ SetSetting(b, line) \in Seq(Writes)
    BY <2>1, SettingPhases
  <2>3. /\ todo = << >> /\ disk' = disk /\ todo' = << One(Conf, c) >> /\ call'.bottle = b
        /\ made' = [made EXCEPT ![b] =
             IF line.key = "arch" /\ line.value # made[b] THEN "lost" ELSE made[b]]
    BY <2>0, <2>2 DEF BeginSetting, Begin, Call, Owes
  <2>4. todo' # << >> /\ Settles(Conf, c)' /\ c \in Contents(Conf) /\ ConfSays(c) = c
    BY <2>3, ConfSettlesLast
  <2>5. \A x \in Bottles : x # b => made'[x] = made[x]
    BY <2>3 DEF TypeInv
  <2>6. made'[b] # "lost" => c.arch = made'[b]
    BY <2>1, <2>2, <2>3 DEF ArchInv, TypeInv
  <2> QED
    BY <2>3, <2>4, <2>5, <2>6, ArchBegins
<1>4. ASSUME NEW b \in Bottles, NEW p \in Packages, BeginCommit(b, p)
      PROVE  ArchInv'
  <2>1. PICK list \in Setups[p] : Begin([op |-> "commit", bottle |-> b], Commit(b, p, list))
    BY <1>4 DEF BeginCommit
  <2>2. todo = << >> /\ disk' = disk /\ todo' = Commit(b, p, list) /\ call'.bottle = b
    BY <2>1 DEF Begin, Call
  <2>3. made' = made
    BY <1>4 DEF BeginCommit, Owes, TypeInv
  <2>4. Untouched(Conf, Commit(b, p, list))
    BY ConfUntouched
  <2> QED
    BY <2>2, <2>3, <2>4, ArchStays
<1>5. ASSUME NEW b \in Bottles, NEW p \in Packages, BeginUninstall(b, p)
      PROVE  ArchInv'
  <2>1. /\ todo = << >> /\ disk' = disk /\ todo' = Uninstall(b, p) /\ call'.bottle = b
        /\ made' = made /\ Has(b, Journal(p)) /\ disk[b] \in Bottle
    BY <1>5 DEF BeginUninstall, Begin, Call, TypeInv
  <2> QED
    BY <2>1, ArchStays, ConfUntouched
<1>6. ASSUME BeginRuntime
      PROVE  ArchInv'
  <2>1. PICK phases \in {RuntimeInstall(current), RuntimeUninstall(current)} :
          Begin([op |-> "runtime", bottle |-> current], phases)
    BY <1>6 DEF BeginRuntime
  <2>2. /\ todo = << >> /\ disk' = disk /\ todo' = phases /\ call'.bottle \in Bottles /\ made' = made
    BY <1>6, <2>1 DEF BeginRuntime, Begin, Call, TypeInv
  <2>3. Untouched(Conf, phases)
    BY <2>1, ConfUntouched
  <2> QED
    BY <2>2, <2>3, ArchStays
<1>7. ASSUME NEW b \in Bottles, RuntimeInit(b) \/ Backup(b) \/ BackupCut(b)
      PROVE  ArchInv'
  <2>1. todo = << >> /\ disk' = disk /\ todo' = << >> /\ made' = made
    BY <1>7 DEF RuntimeInit, Backup, BackupCut, Begin, Call
  <2> QED
    BY <2>1, ArchStays
<1>8. ASSUME NEW b \in Bottles, BeginRestore(b)
      PROVE  ArchInv'
  <2>1. PICK records : records = archive.records
    OBVIOUS
  <2>2. records \in Writes /\ IsArchive(records)
    BY <1>8, <2>1 DEF BeginRestore, TypeInv, ArchiveTyped
  <2>3. todo = << >> /\ disk' = disk /\ todo' = Restore(b, records) /\ call'.bottle = b
    BY <1>8, <2>1 DEF BeginRestore, Call
  <2>4. made'[b] \in {ArchOf(records), "lost"} /\ \A x \in Bottles : x # b => made'[x] = made[x]
    BY <1>8, <2>1 DEF BeginRestore, MadeFrom, Owes, TypeInv
  <2> QED
    BY <2>2, <2>3, <2>4, ArchRestored
<1>9. ASSUME NEW src \in Bottles, NEW dst \in Bottles, BeginClone(src, dst)
      PROVE  ArchInv'
  <2>1. PICK records : records = Records(disk[src])
    OBVIOUS
  <2>2. records \in Writes /\ IsArchive(records)
    BY <2>1, RecordsPhase DEF TypeInv
  <2>3. todo = << >> /\ disk' = disk /\ todo' = Restore(dst, records) /\ call'.bottle = dst
    BY <1>9, <2>1 DEF BeginClone, Call
  <2>4. made'[dst] \in {ArchOf(records), "lost"} /\ \A x \in Bottles : x # dst => made'[x] = made[x]
    BY <1>9, <2>1 DEF BeginClone, MadeFrom, Owes, TypeInv
  <2> QED
    BY <2>2, <2>3, <2>4, ArchRestored
<1>10. ASSUME Advance
       PROVE  ArchInv'
  <2>1. /\ todo # << >> /\ call' = call /\ made' = made /\ call.bottle \in Bottles
        /\ TypeInv'
    BY <1>10, BottleOfCall, AdvanceTyped DEF Advance
  <2>2. PICK b \in Bottles : b = call.bottle
    BY <2>1
  <2>3. \A x \in Bottles : x # b => disk'[x] = disk[x]
    BY <1>10, <2>2 DEF Advance, TypeInv
  <2>4. ASSUME made[b] # "lost"
        PROVE  \E v \in Contents(Conf) : Settles(Conf, v)' /\ ConfSays(v).arch = made[b]
    <3>1. PICK v \in Contents(Conf) : Settles(Conf, v) /\ ConfSays(v).arch = made[b]
      BY <2>1, <2>2, <2>4 DEF ArchInv, Busy
    <3>2. Settles(Conf, v)'
      BY <1>10, <3>1, SettlesStays, FileNames
    <3> QED
      BY <3>1, <3>2
  <2>5. ASSUME todo' = << >>, made[b] # "lost"
        PROVE  disk'[b][Conf] \in Contents(Conf) /\ ConfSays(disk'[b][Conf]).arch = made[b]
    <3>1. PICK v \in Contents(Conf) : Settles(Conf, v)' /\ ConfSays(v).arch = made[b]
      BY <2>4, <2>5
    <3>2. 1..Len(todo') = {}
      BY <2>5
    <3>3. disk'[b][Conf] = v
      BY <2>1, <2>2, <3>1, <3>2 DEF Settles
    <3> QED
      BY <3>1, <3>3
  <2>6. Absent \notin Contents(Conf)
    BY BottlesAssumption, FileNames
  <2> SUFFICES ASSUME NEW x \in Bottles, made[x] # "lost"
               PROVE  IF todo' # << >> /\ x = b
                      THEN \E v \in Contents(Conf) : Settles(Conf, v)' /\ ConfSays(v).arch = made[x]
                      ELSE disk'[x][Conf] # Absent /\ ConfSays(disk'[x][Conf]).arch = made[x]
    BY <2>1, <2>2 DEF ArchInv, Busy, Has
  <2>7. CASE x # b
    BY <2>2, <2>3, <2>7 DEF ArchInv, Busy, Has
  <2>8. CASE x = b
    BY <2>4, <2>5, <2>6, <2>8
  <2> QED
    BY <2>7, <2>8
<1>11. ASSUME Crash
       PROVE  ArchInv'
  <2>1. call.bottle \in Bottles /\ todo' = << >>
    BY <1>11, BottleOfCall DEF Crash
  <2>2. /\ made'[call.bottle] = "lost"
        /\ \A x \in Bottles : x # call.bottle => made'[x] = made[x] /\ disk'[x] = disk[x]
    BY <1>11, <2>1 DEF Crash, Owes, TypeInv
  <2> QED
    BY <2>1, <2>2 DEF ArchInv, Busy, Has
<1>12. CASE UNCHANGED vars
  BY <1>12 DEF vars, ArchInv, Busy, Has, Settles, Pends
<1> QED
  BY <1>1, <1>2, <1>3, <1>4, <1>5, <1>6, <1>7, <1>8, <1>9, <1>10, <1>11, <1>12,
     <1>13 DEF Next, Sets

(* Installs, backups and changes of other settings keep the architecture   *)
(* that a bottle was made with, and restores and clones carry it over.     *)
(* Excepted are the bottles whose arch line set_setting has replaced by    *)
(* another, those that a restore or clone of another architecture went     *)
(* over, and those with a kill inside them.                                *)
THEOREM ArchitectureFixed == Spec => []ArchKept
<1>1. Init => ArchInv
  BY DEF Init, ArchInv
<1>2. TypeInv /\ ArchInv /\ [Next]_vars => ArchInv'
  BY ArchStep
<1>3. ArchInv => ArchKept
  BY DEF ArchInv, ArchKept, Busy
<1> QED
  BY <1>1, <1>2, <1>3, AlwaysTyped, PTL DEF Spec

-----------------------------------------------------------------------------
(* Restore and clone.                                                      *)
LEMMA OtherCallsRestoreNothing ==
  ASSUME RestoreInv, archive' = archive, call'.op \notin {"restore", "clone"}
  PROVE  RestoreInv'
BY DEF RestoreInv, Restored

LEMMA TargetsSettle ==
  ASSUME NEW b \in Bottles, NEW files \in Bottle, NEW records, records = Records(files),
         todo' = Restore(b, records), disk' = disk, call'.bottle = b,
         source' = files, before' = disk[b]
  PROVE  \A f \in Saved : Settles(f, Target(f))'
<1> SUFFICES ASSUME NEW f \in Saved PROVE Settles(f, Target(f))'
  OBVIOUS
<1>1. /\ records \in Writes /\ DOMAIN records = {g \in Saved : files[g] # Absent}
      /\ \A g \in DOMAIN records : records[g] = files[g]
  BY RecordsPhase
<1>2. PICK v : v = Target(f)'
  OBVIOUS
<1>3. v = IF f \in DOMAIN records THEN records[f]
          ELSE IF f = Conf THEN Defaults("win64") ELSE disk[call'.bottle][f]
  BY <1>1, <1>2 DEF Target
<1>4. DOMAIN records \subseteq Saved
  BY <1>1
<1>5. Settles(f, v)'
  BY <1>1, <1>3, <1>4, RestoreSettles
<1> QED
  BY <1>2, <1>5

LEMMA RestoreStep ==
  ASSUME TypeInv, RestoreInv, [Next]_vars
  PROVE  RestoreInv'
<1>1. ASSUME NEW b \in Bottles,
             \/ \E arch \in Archs : BeginCreate(b, arch)
             \/ BeginDelete(b) \/ BeginConfig(b) \/ Sets(b)
             \/ \E p \in Packages : BeginCommit(b, p) \/ BeginUninstall(b, p)
             \/ RuntimeInit(b)
      PROVE  RestoreInv'
  <2>1. CASE (\E arch \in Archs : BeginCreate(b, arch)) \/ BeginDelete(b) \/ RuntimeInit(b)
    BY <2>1, OtherCallsRestoreNothing DEF BeginCreate, BeginDelete, RuntimeInit, Begin, Call
  <2>2. CASE BeginConfig(b) \/ Sets(b)
    BY <2>2, OtherCallsRestoreNothing DEF BeginConfig, Sets, BeginSetting, Begin, Call
  <2>3. CASE \E p \in Packages : BeginCommit(b, p) \/ BeginUninstall(b, p)
    BY <2>3, OtherCallsRestoreNothing DEF BeginCommit, BeginUninstall, Begin, Call
  <2> QED
    BY <1>1, <2>1, <2>2, <2>3
<1>8. ASSUME BeginRuntime
      PROVE  RestoreInv'
  BY <1>8, OtherCallsRestoreNothing DEF BeginRuntime, Begin, Call
<1>2. ASSUME NEW b \in Bottles, Backup(b) \/ BackupCut(b)
      PROVE  RestoreInv'
  <2>1. call'.op \notin {"restore", "clone"}
    BY <1>2 DEF Backup, BackupCut, Begin, Call, Idle
  <2>2. archive'.end = "whole" => archive'.records = Records(archive'.of)
    BY <1>2 DEF Backup, BackupCut
  <2> QED
    BY <2>1, <2>2 DEF RestoreInv, Restored, Records
<1>3. ASSUME NEW b \in Bottles, BeginRestore(b)
      PROVE  RestoreInv'
  <2>1. /\ todo' = Restore(b, archive.records) /\ disk' = disk /\ call'.bottle = b
        /\ source' = archive.of /\ before' = disk[b] /\ archive' = archive /\ call'.op = "restore"
    BY <1>3 DEF BeginRestore, Call
  <2>2. CASE archive.end = "whole"
    <3>1. PICK records : records = archive.records
      OBVIOUS
    <3>2. PICK files \in Bottle : files = archive.of
      BY DEF TypeInv, ArchiveTyped
    <3>3. records = Records(files)
      BY <2>2, <3>1, <3>2 DEF RestoreInv
    <3>4. \A f \in Saved : Settles(f, Target(f))'
      BY <2>1, <3>1, <3>2, <3>3, TargetsSettle
    <3> QED
      BY <2>1, <3>4 DEF RestoreInv, Restored
  <2>3. CASE archive.end # "whole"
    BY <2>1, <2>3 DEF RestoreInv, Restored
  <2> QED
    BY <2>2, <2>3
<1>4. ASSUME NEW src \in Bottles, NEW dst \in Bottles, BeginClone(src, dst)
      PROVE  RestoreInv'
  <2>1. /\ todo' = Restore(dst, Records(disk[src])) /\ disk' = disk /\ call'.bottle = dst
        /\ source' = disk[src] /\ before' = disk[dst] /\ archive' = archive
    BY <1>4 DEF BeginClone, Call
  <2>2. PICK files \in Bottle : files = disk[src]
    BY DEF TypeInv
  <2>3. PICK records : records = Records(files)
    OBVIOUS
  <2>4. \A f \in Saved : Settles(f, Target(f))'
    BY <2>1, <2>2, <2>3, TargetsSettle
  <2> QED
    BY <2>1, <2>4 DEF RestoreInv, Restored
<1>5. ASSUME Advance
      PROVE  RestoreInv'
  <2>1. /\ call' = call /\ archive' = archive /\ before' = before /\ source' = source
    BY <1>5 DEF Advance, others
  <2>2. ASSUME NEW f \in Saved, Settles(f, Target(f))
        PROVE  Settles(f, Target(f))'
    <3>1. PICK v : v = Target(f) /\ v = Target(f)'
      BY <2>1 DEF Target
    <3>2. Settles(f, v)'
      BY <1>5, <2>2, <3>1, SettlesStays, FileNames
    <3> QED
      BY <3>1, <3>2
  <2> QED
    BY <2>1, <2>2 DEF RestoreInv, Restored
<1>6. ASSUME Crash
      PROVE  RestoreInv'
  <2>1. archive' = archive /\ call'.op \notin {"restore", "clone"}
    BY <1>6 DEF Crash, Idle
  <2> QED
    BY <2>1, OtherCallsRestoreNothing
<1>7. CASE UNCHANGED vars
  BY <1>7 DEF vars, RestoreInv, Restored, Settles, Pends, Target
<1> QED
  BY <1>1, <1>2, <1>3, <1>4, <1>5, <1>6, <1>7, <1>8 DEF Next, Sets

(* After the restore of a whole archive, and after a clone, the bottle has *)
(* every file as it was when the backup was taken.                         *)
THEOREM BackupsComeBack == Spec => []RoundTrip
<1>1. Init => RestoreInv
  BY DEF Init, RestoreInv, Restored, Idle
<1>2. TypeInv /\ RestoreInv /\ [Next]_vars => RestoreInv'
  BY RestoreStep
<1>3. TypeInv /\ RestoreInv => RoundTrip
  BY SettlesEmpty DEF RestoreInv, Restored, RoundTrip, Target
<1> QED
  BY <1>1, <1>2, <1>3, AlwaysTyped, PTL DEF Spec

LEMMA SettlesBack ==
  ASSUME TypeInv, Advance, NEW f \in Files, NEW v, Settles(f, v)'
  PROVE  Settles(f, v)
<1>1. TypeInv' /\ call' = call /\ call.bottle \in Bottles
  BY AdvanceTyped, BottleOfCall DEF Advance
<1>2. Len(todo) \in Nat /\ Len(todo') \in Nat
  BY <1>1, TodoLen DEF TypeInv, CallTyped
<1>0. PICK d \in {0, 1} : \E h : Works(d, h)
  BY AdvanceWorks
<1>3. PICK g : Works(d, g)
  BY <1>0
<1>4. \A i \in Nat \ {0} : /\ Pends(i, f)' <=> Pends(i + d, f) /\ ~(i + d = 1 /\ f = g)
                           /\ Pends(i, f)' => todo'[i][f] = todo[i + d][f]
                           /\ Pends(i, f) /\ ~(i = 1 /\ f = g) => i > d
  BY <1>3, Zenon DEF Works
<1>5. \A i : /\ Pends(i, f) => i \in 1..Len(todo)
             /\ Pends(i, f)' => i \in 1..Len(todo')
  BY DEF Pends
<1>6. disk \in [Bottles -> Bottle] /\ disk[call.bottle] \in [Files -> AnyContent]
  BY <1>1 DEF TypeInv, Bottle
<1>7. \/ disk' = disk /\ ~Pends(1, f)
      \/ /\ g \in Files /\ Pends(1, g)
         /\ disk' = [disk EXCEPT ![call.bottle][g] = todo[1][g]]
  BY <1>3, Zenon DEF Works
(* A write left before is left still, unless it is the one done.           *)
<1>8. ASSUME NEW j \in 1..Len(todo), Pends(j, f), ~(j = 1 /\ f = g)
      PROVE  j - d \in 1..Len(todo') /\ Pends(j - d, f)'
  <2>1. j \in Nat \ {0}
    BY <1>2
  <2>2. j > d
    BY <2>1, <1>4, <1>8, Zenon
  <2>3. j - d \in Nat \ {0} /\ (j - d) + d = j
    BY <2>1, <2>2
  <2>4. Pends((j - d) + d, f) /\ ~((j - d) + d = 1 /\ f = g)
    BY <2>3, <1>8
  <2>5. Pends(j - d, f)'
    BY <2>3, <2>4, <1>4, Zenon
  <2> QED
    BY <2>5, <1>5
<1>9. CASE (\A i \in 1..Len(todo') : ~Pends(i, f)') /\ disk'[call.bottle][f] = v
  <2>1. \A j \in 1..Len(todo) : Pends(j, f) => j = 1 /\ f = g
    BY <1>8, <1>9
  <2>2. CASE Pends(1, f)
    <3>1. f = g /\ 1 \in 1..Len(todo)
      BY <2>1, <2>2, <1>5
    <3>2. disk' = [disk EXCEPT ![call.bottle][g] = todo[1][g]]
      BY <1>7, <2>2
    <3>3. todo[1][f] = v
      BY <3>1, <3>2, <1>1, <1>6, <1>9
    <3>4. \A j \in 1..Len(todo) : Pends(j, f) => j <= 1
      BY <2>1
    <3> QED
      BY <2>2, <3>1, <3>3, <3>4 DEF Settles
  <2>3. CASE ~Pends(1, f)
    <3>1. \A j \in 1..Len(todo) : ~Pends(j, f)
      BY <2>1, <2>3
    <3>2. disk'[call.bottle][f] = disk[call.bottle][f]
      <4>1. CASE disk' = disk
        BY <4>1
      <4>2. CASE /\ g \in Files /\ Pends(1, g)
                 /\ disk' = [disk EXCEPT ![call.bottle][g] = todo[1][g]]
        <5>1. f # g
          BY <2>3, <4>2
        <5> QED
          BY <5>1, <4>2, <1>1, <1>6
      <4> QED
        BY <4>1, <4>2, <1>7
    <3> QED
      BY <3>1, <3>2, <1>9 DEF Settles
  <2> QED
    BY <2>2, <2>3
<1>10. ASSUME NEW i \in 1..Len(todo'), Pends(i, f)', todo'[i][f] = v,
              \A j \in 1..Len(todo') : Pends(j, f)' => j <= i
       PROVE  Settles(f, v)
  <2>1. i \in Nat \ {0}
    BY <1>2
  <2>2. Pends(i + d, f) /\ todo[i + d][f] = v
    BY <2>1, <1>4, <1>10, Zenon
  <2>3. i + d \in 1..Len(todo)
    BY <2>2, <1>5
  <2>4. ASSUME NEW j \in 1..Len(todo), Pends(j, f)
        PROVE  j <= i + d
    <3>1. CASE j = 1 /\ f = g
      BY <3>1, <2>1
    <3>2. CASE ~(j = 1 /\ f = g)
      <4>1. j - d \in 1..Len(todo') /\ Pends(j - d, f)'
        BY <1>8, <2>4, <3>2
      <4>2. j - d <= i
        BY <4>1, <1>10
      <4> QED
        BY <4>2, <2>1, <1>2
    <3> QED
      BY <3>1, <3>2
  <2> QED
    BY <2>2, <2>3, <2>4 DEF Settles
<1>11. \/ (\A i \in 1..Len(todo') : ~Pends(i, f)') /\ disk'[call.bottle][f] = v
       \/ \E i \in 1..Len(todo') :
            Pends(i, f)' /\ todo'[i][f] = v /\ \A j \in 1..Len(todo') : Pends(j, f)' => j <= i
  BY <1>1 DEF Settles
<1> QED
  BY <1>9, <1>10, <1>11

LEMMA SettlesUnique ==
  ASSUME NEW f, NEW c, NEW v, Settles(f, c)', Settles(f, v)'
  PROVE  c = v
BY DEF Settles

-----------------------------------------------------------------------------
(* The directory.                                                          *)
LEMMA DirBegins ==
  ASSUME DirInv, disk' = disk, archive' = archive,
         todo' # << >> => Orderly(disk[call'.bottle], todo')
  PROVE  DirInv'
<1> QED
  BY DEF DirInv, Solid, Orderly

(* Advance, file by file: what is left moves d phases forward, but for the *)
(* write of g, which is done.                                              *)
Shifts(d, g) ==
  /\ \A i \in Nat \ {0}, f \in Files : Pends(i, f)' =>
       Pends(i + d, f) /\ ~(i + d = 1 /\ f = g) /\ todo'[i][f] = todo[i + d][f]
  /\ \A j \in Nat \ {0}, f \in Files : Pends(j, f) /\ ~(j = 1 /\ f = g) =>
       j - d \in Nat \ {0} /\ Pends(j - d, f)' /\ todo'[j - d][f] = todo[j][f]
  /\ \A f \in Files : disk'[call.bottle][f] =
       IF Pends(1, f) /\ f = g THEN todo[1][f] ELSE disk[call.bottle][f]

LEMMA AdvanceShifts ==
  ASSUME TypeInv, Advance
  PROVE  /\ \E d \in {0, 1} : \E g : Shifts(d, g)
         /\ \A b \in Bottles : b # call.bottle => disk'[b] = disk[b]
         /\ call.bottle \in Bottles /\ call' = call /\ archive' = archive
         /\ loose' = loose /\ todo # << >> /\ TypeInv'
<1>1. /\ TypeInv' /\ call' = call /\ archive' = archive /\ loose' = loose /\ todo # << >>
      /\ call.bottle \in Bottles
  BY AdvanceTyped, BottleOfCall DEF Advance, others
<1>2. \A b \in Bottles : b # call.bottle => disk'[b] = disk[b]
  BY <1>1 DEF Advance, TypeInv
<1>3. PICK d \in {0, 1} : \E h : Works(d, h)
  BY AdvanceWorks
<1>4. PICK g : Works(d, g)
  BY <1>3
<1>5. /\ \A i \in Nat \ {0}, f \in Files :
           Pends(i, f)' <=> Pends(i + d, f) /\ ~(i + d = 1 /\ f = g)
      /\ \A i \in Nat \ {0}, f \in Files : Pends(i, f)' => todo'[i][f] = todo[i + d][f]
      /\ \A i \in Nat \ {0}, f \in Files : Pends(i, f) /\ ~(i = 1 /\ f = g) => i > d
  BY <1>4, Zenon DEF Works
<1>6. \A i \in Nat \ {0}, f \in Files : Pends(i, f)' =>
        Pends(i + d, f) /\ ~(i + d = 1 /\ f = g) /\ todo'[i][f] = todo[i + d][f]
  BY <1>5, Zenon
<1>7. ASSUME NEW j \in Nat \ {0}, NEW f \in Files, Pends(j, f), ~(j = 1 /\ f = g)
      PROVE  j - d \in Nat \ {0} /\ Pends(j - d, f)' /\ todo'[j - d][f] = todo[j][f]
  <2>1. j > d
    BY <1>5, <1>7, Zenon
  <2>2. j - d \in Nat \ {0} /\ (j - d) + d = j
    BY <2>1
  <2>3. Pends((j - d) + d, f) /\ ~((j - d) + d = 1 /\ f = g)
    BY <2>2, <1>7
  <2>4. Pends(j - d, f)'
    BY <2>2, <2>3, <1>5, Zenon
  <2>5. todo'[j - d][f] = todo[(j - d) + d][f]
    BY <2>2, <2>4, <1>5, Zenon
  <2> QED
    BY <2>2, <2>4, <2>5, Zenon
<1>8. \/ disk' = disk /\ \A f \in Files : ~Pends(1, f)
      \/ /\ g \in Files /\ Pends(1, g) /\ disk' = [disk EXCEPT ![call.bottle][g] = todo[1][g]]
  BY <1>4, Zenon DEF Works
<1>9. disk \in [Bottles -> Bottle] /\ disk[call.bottle] \in [Files -> AnyContent]
  BY <1>1 DEF TypeInv, Bottle
<1>10. \A f \in Files : disk'[call.bottle][f] =
         IF Pends(1, f) /\ f = g THEN todo[1][f] ELSE disk[call.bottle][f]
  BY <1>1, <1>8, <1>9
<1>11. Shifts(d, g)
  BY <1>6, <1>7, <1>10, Zenon DEF Shifts
<1> QED
  BY <1>1, <1>2, <1>11, Zenon

(* Orderly, of the files and phases of the call that is working.           *)
Ordered ==
  \A i \in Nat \ {0} :
    /\ Pends(i, Dir) /\ todo[i][Dir] = Absent =>
         \A f \in Saved :
           /\ disk[call.bottle][f] = Absent \/ \E j \in 1..(i - 1) : Pends(j, f)
           /\ \A j \in Nat \ {0} : Pends(j, f) => j < i /\ todo[j][f] = Absent
    /\ \A f \in Saved :
         Pends(i, f) /\ todo[i][f] # Absent =>
           disk[call.bottle][Dir] # Absent \/ \E j \in 1..(i - 1) : Pends(j, Dir)

LEMMA OrderedSame ==
  ASSUME TypeInv
  PROVE  Orderly(disk[call.bottle], todo) <=> Ordered
<1>1. Len(todo) \in Nat
  BY TodoLen
<1> QED
  BY <1>1 DEF Orderly, Ordered, Pends

LEMMA DirAdvance ==
  ASSUME TypeInv, DirInv, Advance
  PROVE  DirInv'
<1> DEFINE B == call.bottle
<1>1. /\ \A b \in Bottles : b # B => disk'[b] = disk[b]
      /\ B \in Bottles /\ call' = call /\ archive' = archive /\ todo # << >> /\ TypeInv'
  BY AdvanceShifts
<1>2. PICK d \in {0, 1} : \E h : Shifts(d, h)
  BY AdvanceShifts
<1>3. PICK g : Shifts(d, g)
  BY <1>2
<1>4. /\ \A i \in Nat \ {0}, f \in Files : Pends(i, f)' =>
           Pends(i + d, f) /\ ~(i + d = 1 /\ f = g) /\ todo'[i][f] = todo[i + d][f]
      /\ \A j \in Nat \ {0}, f \in Files : Pends(j, f) /\ ~(j = 1 /\ f = g) =>
           j - d \in Nat \ {0} /\ Pends(j - d, f)' /\ todo'[j - d][f] = todo[j][f]
      /\ \A f \in Files : disk'[B][f] = IF Pends(1, f) /\ f = g THEN todo[1][f] ELSE disk[B][f]
  BY <1>3, Zenon DEF Shifts
<1>5. Ordered /\ Solid(disk[B])
  BY <1>1, OrderedSame DEF DirInv
<1>6. Dir \in Files /\ Saved \subseteq Files /\ Dir \notin Saved
  BY FileNames
(* Once a write was left for a directory that there will be, there is one. *)
<1>7. ASSUME NEW i \in Nat \ {0}, NEW f \in Saved, Pends(i, f), todo[i][f] # Absent,
             Pends(1, Dir)
      PROVE  todo[1][Dir] # Absent
  BY <1>5, <1>7 DEF Ordered
<1>8. Solid(disk'[B])
  <2> SUFFICES ASSUME disk'[B][Dir] = Absent, NEW f \in Saved PROVE disk'[B][f] = Absent
    BY DEF Solid
  <2>1. CASE Pends(1, Dir) /\ Dir = g
    <3>1. todo[1][Dir] = Absent /\ f # g /\ f \in Files
      BY <1>4, <1>6, <2>1
    <3>2. disk[B][f] = Absent
      BY <1>5, <2>1, <3>1 DEF Ordered
    <3> QED
      BY <1>4, <3>1, <3>2
  <2>2. CASE ~(Pends(1, Dir) /\ Dir = g)
    <3>1. disk[B][Dir] = Absent
      BY <1>4, <1>6, <2>2
    <3>2. disk[B][f] = Absent
      BY <1>5, <3>1 DEF Solid
    <3>3. Pends(1, f) => todo[1][f] = Absent
      BY <1>5, <3>1 DEF Ordered
    <3> QED
      BY <1>4, <1>6, <3>2, <3>3
  <2> QED
    BY <2>1, <2>2
<1>9. ASSUME NEW i \in Nat \ {0}, Pends(i, Dir)', todo'[i][Dir] = Absent, NEW f \in Saved
      PROVE  /\ disk'[B][f] = Absent \/ \E j \in 1..(i - 1) : Pends(j, f)'
             /\ \A j \in Nat \ {0} : Pends(j, f)' => j < i /\ todo'[j][f] = Absent
  <2>1. f \in Files /\ i + d \in Nat \ {0}
    BY <1>6
  <2>2. Pends(i + d, Dir) /\ todo[i + d][Dir] = Absent
    BY <1>4, <1>6, <1>9, Zenon
  <2>3. /\ disk[B][f] = Absent \/ \E j \in 1..((i + d) - 1) : Pends(j, f)
        /\ \A j \in Nat \ {0} : Pends(j, f) => j < i + d /\ todo[j][f] = Absent
    BY <1>5, <2>1, <2>2, Zenon DEF Ordered
  <2>4. ASSUME NEW j \in Nat \ {0}, Pends(j, f)'
        PROVE  j < i /\ todo'[j][f] = Absent
    <3>1. Pends(j + d, f) /\ todo'[j][f] = todo[j + d][f]
      BY <1>4, <2>1, <2>4, Zenon
    <3>2. j + d \in Nat \ {0}
      OBVIOUS
    <3>3. j + d < i + d /\ todo[j + d][f] = Absent
      BY <2>3, <3>1, <3>2, Zenon
    <3> QED
      BY <3>1, <3>3
  <2>5. Pends(1, f) => todo[1][f] = Absent
    BY <2>3
  <2>6. CASE disk[B][f] = Absent
    BY <1>4, <2>1, <2>4, <2>5, <2>6
  <2>7. ASSUME NEW j \in 1..((i + d) - 1), Pends(j, f)
        PROVE  disk'[B][f] = Absent \/ \E k \in 1..(i - 1) : Pends(k, f)'
    <3>1. CASE j = 1 /\ f = g
      BY <1>4, <2>1, <2>5, <2>7, <3>1
    <3>2. CASE ~(j = 1 /\ f = g)
      <4>1. j \in Nat \ {0}
        OBVIOUS
      <4>2. j - d \in Nat \ {0} /\ Pends(j - d, f)'
        BY <1>4, <2>1, <2>7, <3>2, <4>1, Zenon
      <4>3. j - d \in 1..(i - 1)
        BY <4>2
      <4> QED
        BY <4>2, <4>3, Zenon
    <3> QED
      BY <3>1, <3>2
  <2> QED
    BY <2>3, <2>4, <2>6, <2>7
<1>10. ASSUME NEW i \in Nat \ {0}, NEW f \in Saved, Pends(i, f)', todo'[i][f] # Absent
       PROVE  disk'[B][Dir] # Absent \/ \E j \in 1..(i - 1) : Pends(j, Dir)'
  <2>1. f \in Files /\ i + d \in Nat \ {0}
    BY <1>6
  <2>2. Pends(i + d, f) /\ todo[i + d][f] # Absent
    BY <1>4, <1>10, <2>1, Zenon
  <2>3. disk[B][Dir] # Absent \/ \E j \in 1..((i + d) - 1) : Pends(j, Dir)
    BY <1>5, <2>1, <2>2, Zenon DEF Ordered
  <2>4. Pends(1, Dir) => todo[1][Dir] # Absent
    BY <1>7, <2>1, <2>2
  <2>5. CASE disk[B][Dir] # Absent
    BY <1>4, <1>6, <2>4, <2>5
  <2>6. ASSUME NEW j \in 1..((i + d) - 1), Pends(j, Dir)
        PROVE  disk'[B][Dir] # Absent \/ \E k \in 1..(i - 1) : Pends(k, Dir)'
    <3>1. CASE j = 1 /\ Dir = g
      BY <1>4, <1>6, <2>4, <2>6, <3>1
    <3>2. CASE ~(j = 1 /\ Dir = g)
      <4>1. j \in Nat \ {0}
        OBVIOUS
      <4>2. j - d \in Nat \ {0} /\ Pends(j - d, Dir)'
        BY <1>4, <1>6, <2>6, <3>2, <4>1, Zenon
      <4>3. j - d \in 1..(i - 1)
        BY <4>2
      <4> QED
        BY <4>2, <4>3, Zenon
    <3> QED
      BY <3>1, <3>2
  <2> QED
    BY <2>3, <2>5, <2>6
<1>11. Ordered'
  BY <1>1, <1>9, <1>10, Zenon DEF Ordered
<1>12. (Orderly(disk[call.bottle], todo) <=> Ordered)'
  BY <1>1, OrderedSame, PTL
<1>13. Orderly(disk'[B], todo')
  BY <1>1, <1>11, <1>12
<1>14. \A b \in Bottles : Solid(disk'[b])
  BY <1>1, <1>8 DEF DirInv
<1> QED
  BY <1>1, <1>13, <1>14 DEF DirInv

(* The phases of each call are orderly when it begins.                     *)
LEMMA OrderlyPhases ==
  ASSUME NEW b \in Bottles, NEW files \in Bottle, files = disk[b], Solid(files)
  PROVE  /\ \A arch \in Archs : Orderly(files, Create(b, arch))
         /\ Orderly(files, Delete(b))
         /\ Exists(b) => \A c : Orderly(files, << One(Conf, c) >>)
         /\ \A p \in Packages : \A list \in Setups[p] : Orderly(files, Commit(b, p, list))
         /\ \A p \in Packages : Has(b, Journal(p)) => Orderly(files, Uninstall(b, p))
         /\ Orderly(files, RuntimeInstall(b)) /\ Orderly(files, RuntimeUninstall(b))
         /\ \A records \in Writes :
              DOMAIN records \subseteq Saved => Orderly(files, Restore(b, records))
<1>0. /\ Dir \notin Saved /\ Dir # Conf /\ Conf \in Saved /\ Marker \in Saved
      /\ Absent \notin {"full", "bare"}
  BY FileNames, BottlesAssumption, ContentsOf
<1>1. ASSUME NEW arch \in Archs
      PROVE  Orderly(files, Create(b, arch))
  <2>1. /\ Len(Create(b, arch)) = 2 /\ Create(b, arch)[1] = One(Dir, "full")
        /\ Create(b, arch)[2] = One(Conf, Defaults(arch))
    BY CreatePhases
  <2> QED
    BY <2>1, <1>0 DEF Orderly, One
<1>2. Orderly(files, Delete(b))
  <2>1. /\ Len(Delete(b)) = 2 /\ Delete(b)[1] = Gone(files) /\ Delete(b)[2] = One(Dir, Absent)
        /\ DOMAIN Gone(files) = {g \in Saved : files[g] # Absent}
        /\ \A f \in DOMAIN Gone(files) : Gone(files)[f] = Absent
    BY DeletePhases
  <2> QED
    BY <2>1, <1>0 DEF Orderly, One
<1>3. ASSUME Exists(b), NEW c
      PROVE  Orderly(files, << One(Conf, c) >>)
  <2>1. PICK phases : phases = << One(Conf, c) >>
    OBVIOUS
  <2>2. Len(phases) = 1 /\ phases[1] = One(Conf, c)
    BY <2>1
  <2>3. Orderly(files, phases)
    BY <2>2, <1>0, <1>3 DEF Orderly, One, Exists
  <2> QED
    BY <2>1, <2>3
(* A call that has the directory made where there is none.                 *)
<1>4. ASSUME NEW phases, NEW m \in {0, 1}, ~Exists(b) => m = 1, Len(phases) \in Nat,
             m = 1 => phases[1] = One(Dir, "bare"),
             \A i \in 1..Len(phases) : i > m => Dir \notin DOMAIN phases[i]
      PROVE  Orderly(files, phases)
  <2>1. \A i \in 1..Len(phases) : Dir \in DOMAIN phases[i] => phases[i][Dir] # Absent
    BY <1>0, <1>4 DEF One
  <2>2. ASSUME NEW i \in 1..Len(phases), NEW f \in Saved \cap DOMAIN phases[i]
        PROVE  files[Dir] # Absent \/ \E j \in 1..(i - 1) : Dir \in DOMAIN phases[j]
    <3>1. CASE Exists(b)
      BY <3>1 DEF Exists
    <3>2. CASE m = 1
      <4>1. i # 1
        BY <1>0, <1>4, <2>2, <3>2 DEF One
      <4>2. 1 \in 1..(i - 1) /\ Dir \in DOMAIN phases[1]
        BY <1>4, <3>2, <4>1 DEF One
      <4> QED
        BY <4>2
    <3> QED
      BY <1>4, <3>1, <3>2
  <2> QED
    BY <2>1, <2>2 DEF Orderly
<1>5. ASSUME NEW p \in Packages, NEW list \in Setups[p]
      PROVE  Orderly(files, Commit(b, p, list))
  <2>1. PICK m \in {0, 1} :
              /\ ~Exists(b) => m = 1
              /\ Len(Commit(b, p, list)) = m + 1 + Len(list) /\ Len(list) \in Nat
              /\ m = 1 => Commit(b, p, list)[1] = One(Dir, "bare")
              /\ Commit(b, p, list)[m + 1] = One(Journal(p), list)
              /\ \A k \in 1..Len(list) :
                   /\ list[k] \in Payloads
                   /\ Commit(b, p, list)[m + 1 + k]
                        \in {Nothing, One(Payload(list[k]), <<p, "whole">>)}
    BY CommitPhases
  <2>2. ASSUME NEW i \in 1..Len(Commit(b, p, list)), i > m
        PROVE  Dir \notin DOMAIN Commit(b, p, list)[i]
    <3>1. CASE i = m + 1
      BY <2>1, <3>1, FileNames DEF One
    <3>2. CASE i # m + 1
      <4>1. i - (m + 1) \in 1..Len(list) /\ m + 1 + (i - (m + 1)) = i
        BY <2>1, <2>2, <3>2
      <4>2. PICK k \in 1..Len(list) : m + 1 + k = i
        BY <4>1
      <4>3. Commit(b, p, list)[i] \in {Nothing, One(Payload(list[k]), <<p, "whole">>)}
        BY <2>1, <4>2
      <4> QED
        BY <4>3, NoPhase, FileNames DEF One
    <3> QED
      BY <3>1, <3>2
  <2>3. Len(Commit(b, p, list)) \in Nat
    BY <2>1
  <2> QED
    BY <2>1, <2>2, <2>3, <1>4
<1>6. ASSUME NEW p \in Packages, Has(b, Journal(p))
      PROVE  Orderly(files, Uninstall(b, p))
  <2> DEFINE list == ListOf(b, p)
  <2>1. /\ Len(list) \in Nat /\ Len(Uninstall(b, p)) = Len(list) + 1
        /\ \A k \in 1..Len(list) : Uninstall(b, p)[k] = One(Payload(list[k]), Absent)
        /\ Uninstall(b, p)[Len(list) + 1] = One(Journal(p), Absent)
    BY <1>6, UninstallPhases
  <2>2. files[Dir] # Absent
    BY <1>6, FileNames DEF Has, Solid
  <2> HIDE DEF list
  <2>3. ASSUME NEW i \in 1..Len(Uninstall(b, p))
        PROVE  Dir \notin DOMAIN Uninstall(b, p)[i]
    <3>1. PICK f : f # Dir /\ Uninstall(b, p)[i] = One(f, Absent)
      <4>1. CASE i = Len(list) + 1
        BY <2>1, <4>1, FileNames
      <4>2. CASE i # Len(list) + 1
        <5>1. i \in 1..Len(list)
          BY <2>1, <4>2
        <5>2. PICK x : x = list[i]
          OBVIOUS
        <5> QED
          BY <2>1, <5>1, <5>2, FileNames
      <4> QED
        BY <4>1, <4>2
    <3> QED
      BY <3>1 DEF One
  <2> QED
    BY <2>2, <2>3 DEF Orderly
<1>7. Orderly(files, RuntimeInstall(b)) /\ Orderly(files, RuntimeUninstall(b))
  <2>1. PICK m \in {0, 1} :
              /\ ~Exists(b) => m = 1
              /\ Len(RuntimeInstall(b)) = m + 1
              /\ m = 1 => RuntimeInstall(b)[1] = One(Dir, "bare")
              /\ RuntimeInstall(b)[m + 1] = One(Marker, "installed")
    BY RuntimePhases
  <2>2. \A i \in 1..Len(RuntimeInstall(b)) : i > m => Dir \notin DOMAIN RuntimeInstall(b)[i]
    BY <2>1, FileNames DEF One
  <2>3. Len(RuntimeInstall(b)) \in Nat
    BY <2>1
  <2>4. Orderly(files, RuntimeInstall(b))
    BY <2>1, <2>2, <2>3, <1>4
  <2>5. Orderly(files, RuntimeUninstall(b))
    BY RuntimePhases, FileNames DEF Orderly, One
  <2> QED
    BY <2>4, <2>5
<1>8. ASSUME NEW records \in Writes, DOMAIN records \subseteq Saved
      PROVE  Orderly(files, Restore(b, records))
  <2>1. /\ Len(Restore(b, records)) = 3 /\ Restore(b, records)[1] = One(Dir, "full")
        /\ Restore(b, records)[2] = One(Conf, Defaults("win64"))
        /\ Restore(b, records)[3] = records
    BY RestorePhases
  <2>2. Dir \notin DOMAIN Restore(b, records)[2] /\ Dir \notin DOMAIN Restore(b, records)[3]
    BY <2>1, <1>0, <1>8 DEF One
  <2>3. /\ Restore(b, records)[1][Dir] # Absent /\ DOMAIN Restore(b, records)[1] = {Dir}
    BY <2>1, <1>0 DEF One
  <2> QED
    BY <2>1, <2>2, <2>3, <1>0 DEF Orderly
<1> QED
  BY <1>1, <1>2, <1>3, <1>5, <1>6, <1>7, <1>8

LEMMA DirStep ==
  ASSUME TypeInv, DirInv, [Next]_vars
  PROVE  DirInv'
<1>0. \A b \in Bottles : disk[b] \in Bottle /\ Solid(disk[b])
  BY DEF TypeInv, DirInv
<1>1. ASSUME NEW b \in Bottles, (\E arch \in Archs : BeginCreate(b, arch)) \/ BeginDelete(b)
      PROVE  DirInv'
  <2>1. /\ disk' = disk /\ archive' = archive /\ call'.bottle = b
        /\ todo' = Delete(b) \/ \E arch \in Archs : todo' = Create(b, arch)
    BY <1>1 DEF BeginCreate, BeginDelete, Begin, Call
  <2>2. Orderly(disk[b], todo')
    BY <1>0, <2>1, OrderlyPhases
  <2> QED
    BY <2>1, <2>2, DirBegins
<1>2. ASSUME NEW b \in Bottles, BeginConfig(b) \/ Sets(b)
      PROVE  DirInv'
  <2>3. \A line : \E c : SetSetting(b, line) = << One(Conf, c) >>
    BY DEF SetSetting
  <2>4. ASSUME NEW junk PROVE \E c : Config(b, junk) = << One(Conf, c) >>
    BY DEF Config
  <2>1. /\ disk' = disk /\ archive' = archive /\ call'.bottle = b /\ Exists(b)
        /\ \E c : todo' = << One(Conf, c) >>
    BY <1>2, <2>3, <2>4 DEF BeginConfig, Sets, BeginSetting, Begin, Call
  <2>2. Orderly(disk[b], todo')
    BY <1>0, <2>1, OrderlyPhases
  <2> QED
    BY <2>1, <2>2, DirBegins
<1>3. ASSUME NEW b \in Bottles, NEW p \in Packages, BeginCommit(b, p) \/ BeginUninstall(b, p)
      PROVE  DirInv'
  <2>1. /\ disk' = disk /\ archive' = archive /\ call'.bottle = b
        /\ \/ \E list \in Setups[p] : todo' = Commit(b, p, list)
           \/ Has(b, Journal(p)) /\ todo' = Uninstall(b, p)
    BY <1>3 DEF BeginCommit, BeginUninstall, Begin, Call
  <2>2. Orderly(disk[b], todo')
    BY <1>0, <2>1, OrderlyPhases
  <2> QED
    BY <2>1, <2>2, DirBegins
<1>4. ASSUME BeginRuntime
      PROVE  DirInv'
  <2>1. /\ disk' = disk /\ archive' = archive /\ call'.bottle = current /\ current \in Bottles
        /\ todo' = RuntimeInstall(current) \/ todo' = RuntimeUninstall(current)
    BY <1>4 DEF BeginRuntime, Begin, Call, TypeInv
  <2>2. Orderly(disk[current], todo')
    BY <1>0, <2>1, OrderlyPhases
  <2> QED
    BY <2>1, <2>2, DirBegins
<1>5. ASSUME NEW b \in Bottles, RuntimeInit(b) \/ Backup(b) \/ BackupCut(b)
      PROVE  DirInv'
  <2>1. /\ disk' = disk /\ todo' = << >>
        /\ archive' = archive \/ archive'.of = disk[b] \/ archive'.end = "cut"
    BY <1>5 DEF RuntimeInit, Backup, BackupCut, Begin, Call
  <2> QED
    BY <2>1, <1>0 DEF DirInv
<1>6. ASSUME NEW b \in Bottles, BeginRestore(b)
      PROVE  DirInv'
  <2>1. PICK records : records = archive.records
    OBVIOUS
  <2>2. /\ disk' = disk /\ archive' = archive /\ call'.bottle = b /\ todo' = Restore(b, records)
        /\ records \in Writes /\ DOMAIN records \subseteq Saved
    BY <1>6, <2>1 DEF BeginRestore, Call, TypeInv, ArchiveTyped, IsArchive
  <2>3. Orderly(disk[b], todo')
    BY <1>0, <2>2, OrderlyPhases
  <2> QED
    BY <2>2, <2>3, DirBegins
<1>7. ASSUME NEW src \in Bottles, NEW dst \in Bottles, BeginClone(src, dst)
      PROVE  DirInv'
  <2>1. PICK records : records = Records(disk[src])
    OBVIOUS
  <2>2. /\ disk' = disk /\ archive' = archive /\ call'.bottle = dst /\ todo' = Restore(dst, records)
        /\ records \in Writes /\ DOMAIN records \subseteq Saved
    BY <1>0, <1>7, <2>1, RecordsPhase DEF BeginClone, Call, IsArchive
  <2>3. Orderly(disk[dst], todo')
    BY <1>0, <2>2, OrderlyPhases
  <2> QED
    BY <2>2, <2>3, DirBegins
<1>8. ASSUME Crash
      PROVE  DirInv'
  <2>1. todo' = << >> /\ archive' = archive /\ call.bottle \in Bottles /\ todo # << >>
    BY <1>8, BottleOfCall DEF Crash
  <2>2. ASSUME NEW f, Tears(f)
        PROVE  \A b \in Bottles : Solid(disk'[b])
    <3>1. f \in Saved /\ Pends(1, f) /\ todo[1][f] # Absent
      BY <2>2, BottlesAssumption, FileNames DEF Tears
    <3>2. disk[call.bottle][Dir] # Absent
      <4>1. Ordered
        BY <2>1, OrderedSame DEF DirInv
      <4> QED
        BY <3>1, <4>1 DEF Ordered
    <3>3. disk'[call.bottle][Dir] # Absent /\ \A b \in Bottles : b # call.bottle => disk'[b] = disk[b]
      BY <2>1, <2>2, <3>1, <3>2, FileNames DEF Tears, TypeInv, Bottle
    <3> QED
      BY <1>0, <3>3 DEF Solid
  <2>3. \A b \in Bottles : Solid(disk'[b])
    BY <1>0, <1>8, <2>2, CrashTears
  <2> QED
    BY <2>1, <2>3 DEF DirInv
<1>9. CASE UNCHANGED vars
  BY <1>9 DEF vars, DirInv
<1> QED
  BY <1>1, <1>2, <1>3, <1>4, <1>5, <1>6, <1>7, <1>8, <1>9, DirAdvance DEF Next, Sets

-----------------------------------------------------------------------------
(* Traces: the calls as they begin.                                        *)
LEMMA WriterPresent ==
  ASSUME NEW p \in Packages, NEW x \in Payloads, NEW c, WrittenBy(p, c)
  PROVE  c # Absent /\ c \in {<<p, "whole">>, <<p, "torn">>}
BY BottlesAssumption, FileNames, ContentsOf DEF WrittenBy

(* A call that writes files in its own order, and only adds to loose.      *)
LEMMA TraceBegins ==
  ASSUME TypeInv, TraceInv, todo = << >>, disk' = disk, archive' = archive,
         call'.op \notin {"delete", "restore", "clone"}, NEW b \in Bottles, call'.bottle = b,
         \A x \in Bottles : x # b => loose'[x] = loose[x], loose[b] \subseteq loose'[b],
         OrderInv'
  PROVE  TraceInv'
<1>1. \A x \in Bottles : Traces(disk[x], loose[x])
  BY DEF TraceInv, Busy
<1>2. \A x \in Bottles : Traces(disk'[x], loose'[x])
  BY <1>1 DEF Traces
<1>3. archive'.end = "whole" => Traces(archive'.of, archive'.loose)
  BY DEF TraceInv
<1>4. ~Replacing'
  BY DEF Replacing
<1> QED
  BY <1>2, <1>3, <1>4 DEF TraceInv

LEMMA NothingTraced ==
  ASSUME \A i \in 1..Len(todo') : DOMAIN todo'[i] \subseteq {Dir, Conf, Marker}
  PROVE  OrderInv'
<1>1. \A i \in 1..Len(todo'), x \in Payloads, p \in Packages :
        ~Pends(i, Payload(x))' /\ ~Pends(i, Journal(p))'
  BY FileNames DEF Pends
<1> QED
  BY <1>1 DEF OrderInv

LEMMA PlainDomains ==
  ASSUME NEW b \in Bottles, disk[b] \in Bottle
  PROVE  /\ \A arch \in Archs : \A i \in 1..Len(Create(b, arch)) :
              DOMAIN Create(b, arch)[i] \subseteq {Dir, Conf, Marker}
         /\ \A c : \A i \in 1..Len(<< One(Conf, c) >>) :
              DOMAIN << One(Conf, c) >>[i] \subseteq {Dir, Conf, Marker}
         /\ \A i \in 1..Len(RuntimeInstall(b)) :
              DOMAIN RuntimeInstall(b)[i] \subseteq {Dir, Conf, Marker}
         /\ \A i \in 1..Len(RuntimeUninstall(b)) :
              DOMAIN RuntimeUninstall(b)[i] \subseteq {Dir, Conf, Marker}
<1>2. ASSUME NEW arch \in Archs, NEW i \in 1..Len(Create(b, arch))
      PROVE  DOMAIN Create(b, arch)[i] \subseteq {Dir, Conf, Marker}
  <2>1. /\ Len(Create(b, arch)) = 2 /\ Create(b, arch)[1] = One(Dir, "full")
        /\ Create(b, arch)[2] = One(Conf, Defaults(arch))
    BY CreatePhases
  <2>2. i = 1 \/ i = 2
    BY <2>1
  <2> QED
    BY <2>1, <2>2 DEF One
<1>3. ASSUME NEW c, NEW i \in 1..Len(<< One(Conf, c) >>)
      PROVE  DOMAIN << One(Conf, c) >>[i] \subseteq {Dir, Conf, Marker}
  <2>1. << One(Conf, c) >>[i] = One(Conf, c)
    OBVIOUS
  <2> QED
    BY <2>1 DEF One
<1>4. ASSUME NEW i \in 1..Len(RuntimeInstall(b))
      PROVE  DOMAIN RuntimeInstall(b)[i] \subseteq {Dir, Conf, Marker}
  <2>1. PICK m \in {0, 1} :
              /\ Len(RuntimeInstall(b)) = m + 1
              /\ m = 1 => RuntimeInstall(b)[1] = One(Dir, "bare")
              /\ RuntimeInstall(b)[m + 1] = One(Marker, "installed")
    BY RuntimePhases
  <2>2. RuntimeInstall(b)[i] \in {One(Dir, "bare"), One(Marker, "installed")}
    BY <2>1
  <2> QED
    BY <2>2 DEF One
<1>5. ASSUME NEW i \in 1..Len(RuntimeUninstall(b))
      PROVE  DOMAIN RuntimeUninstall(b)[i] \subseteq {Dir, Conf, Marker}
  <2>1. RuntimeUninstall(b)[i] = One(Marker, Absent)
    BY RuntimePhases
  <2> QED
    BY <2>1 DEF One
<1> QED
  BY <1>2, <1>3, <1>4, <1>5

(* The journal before the files.                                           *)
LEMMA CommitOrder ==
  ASSUME NEW b \in Bottles, NEW p \in Packages, NEW list \in Setups[p]
  PROVE  /\ todo' = Commit(b, p, list) /\ disk' = disk /\ call'.bottle = b
         /\ p \notin loose'[b] => \A x \in Payloads : ~WrittenBy(p, disk[b][Payload(x)])
         => OrderInv'
<1>0. PICK m \in {0, 1} :
        /\ ~Exists(b) => m = 1
        /\ Len(Commit(b, p, list)) = m + 1 + Len(list) /\ Len(list) \in Nat
        /\ m = 1 => Commit(b, p, list)[1] = One(Dir, "bare")
        /\ Commit(b, p, list)[m + 1] = One(Journal(p), list)
        /\ \A k \in 1..Len(list) :
             /\ list[k] \in Payloads
             /\ Commit(b, p, list)[m + 1 + k]
                  \in {Nothing, One(Payload(list[k]), <<p, "whole">>)}
  BY CommitPhases
<1> SUFFICES ASSUME todo' = Commit(b, p, list), disk' = disk, call'.bottle = b,
             p \notin loose'[b] => \A x \in Payloads : ~WrittenBy(p, disk[b][Payload(x)])
             PROVE  OrderInv'
  OBVIOUS
<1>1. /\ Len(todo') = m + 1 + Len(list) /\ Len(list) \in Nat
      /\ m = 1 => todo'[1] = One(Dir, "bare")
      /\ todo'[m + 1] = One(Journal(p), list)
      /\ \A k \in 1..Len(list) :
           /\ list[k] \in Payloads
           /\ todo'[m + 1 + k] \in {Nothing, One(Payload(list[k]), <<p, "whole">>)}
  BY <1>0
<1>2. list # Absent /\ list # Empty /\ DOMAIN list = 1..Len(list)
  <2>1. list \in Contents(Journal(p)) /\ Journal(p) \in Files
    BY ContentsOf, FileNames
  <2>2. list \in Seq(Payloads)
    BY BottlesAssumption
  <2> QED
    BY <2>1, <2>2, BottlesAssumption
<1>3. ASSUME NEW i \in 1..Len(todo')
      PROVE  \/ i = 1 /\ i < m + 1 /\ todo'[i] = One(Dir, "bare")
             \/ i = m + 1 /\ todo'[i] = One(Journal(p), list)
             \/ i > m + 1 /\ \E k \in 1..Len(list) :
                  list[k] \in Payloads /\ todo'[i] \in {Nothing, One(Payload(list[k]), <<p, "whole">>)}
  <2>1. CASE i > m + 1
    <3>1. i - (m + 1) \in 1..Len(list) /\ m + 1 + (i - (m + 1)) = i
      BY <1>1, <2>1
    <3>2. PICK k \in 1..Len(list) : m + 1 + k = i
      BY <3>1
    <3> QED
      BY <1>1, <2>1, <3>2
  <2>2. CASE ~(i > m + 1)
    BY <1>1, <2>2
  <2> QED
    BY <2>1, <2>2
<1>4. ASSUME NEW i \in 1..Len(todo'), NEW q \in Packages, Pends(i, Journal(q))'
      PROVE  i = m + 1 /\ q = p
  <2>1. Journal(q) \in DOMAIN todo'[i]
    BY <1>4 DEF Pends
  <2>2. todo'[i] # One(Dir, "bare") /\ todo'[i] # Nothing
    BY <2>1, FileNames, NoPhase DEF One
  <2>3. \A x \in Payloads : todo'[i] # One(Payload(x), <<p, "whole">>)
    BY <2>1, FileNames DEF One
  <2>4. i = m + 1 /\ todo'[i] = One(Journal(p), list)
    BY <1>3, <2>2, <2>3
  <2> QED
    BY <2>1, <2>4, FileNames DEF One
<1>5. ASSUME NEW i \in 1..Len(todo'), NEW q \in Packages, NEW x \in Payloads,
             Pends(i, Payload(x))', WrittenBy(q, todo'[i][Payload(x)])
      PROVE  ListsBefore(i, q, x)'
  <2>1. Payload(x) \in DOMAIN todo'[i]
    BY <1>5 DEF Pends
  <2>2. PICK k \in 1..Len(list) :
          i > m + 1 /\ list[k] \in Payloads /\ todo'[i] = One(Payload(list[k]), <<p, "whole">>)
    <3>1. todo'[i] # One(Dir, "bare") /\ todo'[i] # Nothing /\ todo'[i] # One(Journal(p), list)
      BY <2>1, FileNames, NoPhase DEF One
    <3> QED
      BY <1>3, <3>1
  <2>3. Payload(x) = Payload(list[k]) /\ todo'[i][Payload(x)] = <<p, "whole">>
    BY <2>1, <2>2 DEF One
  <2>4. list[k] = x /\ q = p
    <3>1. PICK y : y = list[k]
      OBVIOUS
    <3>2. x = y
      BY <2>3, <3>1, FileNames, Zenon
    <3>3. WrittenBy(q, <<p, "whole">>)
      BY <2>3, <1>5, Zenon
    <3>4. q = p
      BY <3>3 DEF WrittenBy
    <3> QED
      BY <3>1, <3>2, <3>4
  <2>5. Listed(list, x)
    BY <1>2, <2>4 DEF Listed
  <2>6. PICK j : j = m + 1
    OBVIOUS
  <2>7. j \in 1..(i - 1) /\ j \in 1..Len(todo')
    BY <1>1, <2>2, <2>6
  <2>8. Pends(j, Journal(p))' /\ todo'[j][Journal(p)] = list
    BY <1>1, <2>6, <2>7 DEF Pends, One
  <2>9. \A h \in 1..Len(todo') : Pends(h, Journal(p))' => h = j
    BY <1>4, <2>6
  <2> QED
    BY <2>4, <2>5, <2>7, <2>8, <2>9 DEF ListsBefore
<1>6. ASSUME NEW i \in 1..Len(todo'), NEW q \in Packages \ loose'[b], NEW x \in Payloads,
             Pends(i, Journal(q))', WrittenBy(q, disk'[b][Payload(x)])
      PROVE  FALSE
  <2>1. q = p
    BY <1>4, <1>6
  <2> QED
    BY <1>6, <2>1
<1> QED
  BY <1>5, <1>6 DEF OrderInv

(* The files before the journal.                                           *)
LEMMA UninstallOrder ==
  ASSUME TypeInv, NEW b \in Bottles, NEW p \in Packages, Has(b, Journal(p)),
         todo' = Uninstall(b, p), disk' = disk, call'.bottle = b, loose' = loose,
         Traces(disk[b], loose[b])
  PROVE  OrderInv'
<1> DEFINE list == ListOf(b, p)
<1>1. /\ Len(list) \in Nat /\ Len(todo') = Len(list) + 1 /\ list \in Seq(Payloads)
      /\ \A k \in 1..Len(list) : list[k] \in Payloads /\ todo'[k] = One(Payload(list[k]), Absent)
      /\ todo'[Len(list) + 1] = One(Journal(p), Absent)
  <2>1. disk[b] \in Bottle
    BY DEF TypeInv
  <2> QED
    BY <2>1, UninstallPhases
<1>2. \A x : Listed(disk[b][Journal(p)], x) => \E k \in DOMAIN list : list[k] = x
  BY DEF Listed, ListOf
<1> HIDE DEF list
<1>3. DOMAIN list = 1..Len(list)
  BY <1>1
<1>4. ASSUME NEW i \in 1..Len(todo'), NEW q \in Packages, Pends(i, Journal(q))'
      PROVE  i = Len(list) + 1 /\ q = p
  <2>1. Journal(q) \in DOMAIN todo'[i]
    BY <1>4 DEF Pends
  <2>2. i = Len(list) + 1
    <3>1. ASSUME i # Len(list) + 1 PROVE FALSE
      <4>1. i \in 1..Len(list)
        BY <1>1, <3>1
      <4>2. PICK x : x = list[i]
        OBVIOUS
      <4>3. todo'[i] = One(Payload(x), Absent) /\ Payload(x) # Journal(q)
        BY <1>1, <4>1, <4>2, FileNames
      <4> QED
        BY <2>1, <4>3 DEF One
    <3> QED
      BY <3>1
  <2>3. todo'[i] = One(Journal(p), Absent)
    BY <1>1, <2>2
  <2> QED
    BY <2>1, <2>2, <2>3, FileNames DEF One
<1>5. ASSUME NEW i \in 1..Len(todo'), NEW x \in Payloads, Pends(i, Payload(x))'
      PROVE  todo'[i][Payload(x)] = Absent
  <2>1. Payload(x) \in DOMAIN todo'[i]
    BY <1>5 DEF Pends
  <2>2. PICK f : todo'[i] = One(f, Absent)
    <3>1. CASE i = Len(list) + 1
      BY <1>1, <3>1
    <3>2. CASE i # Len(list) + 1
      <4>1. i \in 1..Len(list)
        BY <1>1, <3>2
      <4> QED
        BY <1>1, <4>1
    <3> QED
      BY <3>1, <3>2
  <2> QED
    BY <2>1, <2>2 DEF One
<1>6. ASSUME NEW i \in 1..Len(todo'), NEW q \in Packages \ loose'[b], NEW x \in Payloads,
             Pends(i, Journal(q))', WrittenBy(q, disk'[b][Payload(x)])
      PROVE  \E j \in 1..(i - 1) : Pends(j, Payload(x))'
  <2>1. q = p /\ i = Len(list) + 1
    BY <1>4, <1>6
  <2>2. Listed(disk[b][Journal(p)], x)
    BY <1>6, <2>1 DEF Traces
  <2>3. PICK k \in 1..Len(list) : list[k] = x
    BY <1>2, <1>3, <2>2
  <2>4. todo'[k] = One(Payload(x), Absent)
    BY <1>1, <2>3
  <2>5. Pends(k, Payload(x))'
    BY <1>1, <2>3, <2>4 DEF Pends, One
  <2>6. k \in 1..(i - 1)
    BY <1>1, <2>1
  <2> QED
    BY <2>5, <2>6
<1>7. ASSUME NEW i \in 1..Len(todo'), NEW q \in Packages, NEW x \in Payloads,
             Pends(i, Payload(x))', WrittenBy(q, todo'[i][Payload(x)])
      PROVE  FALSE
  BY <1>5, <1>7, WriterPresent
<1> QED
  BY <1>6, <1>7 DEF OrderInv

(* What delete leaves, and what restore and clone bring back.              *)
LEMMA DeleteTraced ==
  ASSUME NEW b \in Bottles, disk[b] \in Bottle, todo' = Delete(b), disk' = disk, call'.bottle = b
  PROVE  SettledTraced'
<1>1. /\ Len(todo') = 2 /\ todo'[1] = Gone(disk[b]) /\ todo'[2] = One(Dir, Absent)
      /\ DOMAIN Gone(disk[b]) = {g \in Saved : disk[b][g] # Absent}
      /\ \A f \in DOMAIN Gone(disk[b]) : Gone(disk[b])[f] = Absent
  BY DeletePhases
<1>2. ASSUME NEW p \in Packages, NEW x \in Payloads, NEW c \in {<<p, "whole">>, <<p, "torn">>},
             Settles(Payload(x), c)'
      PROVE  FALSE
  <2>1. c # Absent
    BY WriterPresent DEF WrittenBy
  <2>2. Payload(x) \in Saved /\ Payload(x) # Dir
    BY FileNames
  <2>3. \A i \in 1..Len(todo') : Payload(x) \in DOMAIN todo'[i] => todo'[i][Payload(x)] = Absent
    BY <1>1, <2>2 DEF One
  <2>4. disk[b][Payload(x)] # Absent => Pends(1, Payload(x))' /\ 1 \in 1..Len(todo')
    BY <1>1, <2>2 DEF Pends
  <2> QED
    BY <1>2, <2>1, <2>3, <2>4 DEF Settles, Pends
<1> QED
  BY <1>2 DEF SettledTraced

LEMMA RestoreTraced ==
  ASSUME TypeInv, NEW b \in Bottles, NEW files \in Bottle, NEW but, Traces(files, but),
         NEW records, records = Records(files), Solid(disk[b]),
         todo' = Restore(b, records), disk' = disk, call'.bottle = b,
         loose'[b] = IF Exists(b) THEN Packages ELSE but
  PROVE  SettledTraced'
<1>1. /\ records \in Writes /\ DOMAIN records = {g \in Saved : files[g] # Absent}
      /\ \A f \in DOMAIN records : records[f] = files[f]
  BY RecordsPhase
<1>2. ASSUME NEW p \in Packages, p \notin loose'[b], NEW x \in Payloads,
             NEW c \in {<<p, "whole">>, <<p, "torn">>}, Settles(Payload(x), c)'
      PROVE  \E journal \in Contents(Journal(p)) :
               Settles(Journal(p), journal)' /\ Listed(journal, x)
  <2>1. ~Exists(b) /\ p \notin but
    BY <1>2
  <2>2. \A f \in Saved : disk[call'.bottle][f] = Absent
    BY <2>1 DEF Exists, Solid
  <2>3. ASSUME NEW f \in Saved, f # Conf, NEW v, v = files[f]
        PROVE  Settles(f, v)'
    <3>1. v = IF f \in DOMAIN records THEN records[f]
              ELSE IF f = Conf THEN Defaults("win64") ELSE disk[call'.bottle][f]
      BY <1>1, <2>2, <2>3
    <3>2. DOMAIN records \subseteq Saved
      BY <1>1
    <3> QED
      BY <1>1, <2>3, <3>1, <3>2, RestoreSettles
  <2>4. /\ Payload(x) \in Saved /\ Payload(x) # Conf
        /\ Journal(p) \in Saved /\ Journal(p) # Conf /\ Journal(p) \in Files
    BY FileNames
  <2>5. PICK v : v = files[Payload(x)]
    OBVIOUS
  <2>6. Settles(Payload(x), v)'
    BY <2>3, <2>4, <2>5
  <2>7. v = c
    BY <1>2, <2>6, SettlesUnique
  <2>8. WrittenBy(p, files[Payload(x)])
    BY <1>2, <2>5, <2>7 DEF WrittenBy
  <2>9. Listed(files[Journal(p)], x)
    BY <2>1, <2>8 DEF Traces
  <2>10. PICK journal : journal = files[Journal(p)]
    OBVIOUS
  <2>11. Settles(Journal(p), journal)'
    BY <2>3, <2>4, <2>10
  <2>12. journal \in Contents(Journal(p))
    BY <2>4, <2>9, <2>10, BottleFiles DEF Listed
  <2> QED
    BY <2>9, <2>10, <2>11, <2>12
<1> QED
  BY <1>2 DEF SettledTraced

LEMMA ReplacingBegins ==
  ASSUME TypeInv, TraceInv, todo = << >>, disk' = disk, archive' = archive,
         call'.op \in {"delete", "restore", "clone"}, NEW b \in Bottles, call'.bottle = b,
         todo' # << >>, \A x \in Bottles : x # b => loose'[x] = loose[x],
         SettledTraced'
  PROVE  TraceInv'
<1>1. \A x \in Bottles : Traces(disk[x], loose[x])
  BY DEF TraceInv, Busy
<1>2. \A x \in Bottles : x # b => Traces(disk'[x], loose'[x])
  BY <1>1
<1>3. archive'.end = "whole" => Traces(archive'.of, archive'.loose)
  BY DEF TraceInv
<1>4. Replacing' /\ Busy(b)'
  BY DEF Replacing, Busy
<1> QED
  BY <1>2, <1>3, <1>4 DEF TraceInv

-----------------------------------------------------------------------------
(* Traces: the calls as they work.                                         *)
LEMMA ReplacingAdvances ==
  ASSUME TypeInv, TraceInv, Advance, Replacing
  PROVE  TraceInv'
<1> DEFINE B == call.bottle
<1>1. /\ \A b \in Bottles : b # B => disk'[b] = disk[b]
      /\ B \in Bottles /\ call' = call /\ archive' = archive /\ loose' = loose /\ todo # << >>
      /\ TypeInv'
  BY AdvanceShifts
<1>2. ASSUME NEW p \in Packages, p \notin loose[B], NEW x \in Payloads,
             NEW c \in {<<p, "whole">>, <<p, "torn">>}, Settles(Payload(x), c)'
      PROVE  \E journal \in Contents(Journal(p)) :
               Settles(Journal(p), journal)' /\ Listed(journal, x)
  <2>1. Payload(x) \in Files /\ Journal(p) \in Files
    BY FileNames
  <2>2. Settles(Payload(x), c)
    BY <1>2, <2>1, SettlesBack
  <2>3. PICK journal \in Contents(Journal(p)) : Settles(Journal(p), journal) /\ Listed(journal, x)
    BY <1>1, <1>2, <2>2 DEF TraceInv, SettledTraced
  <2>4. Settles(Journal(p), journal)'
    BY <2>1, <2>3, SettlesStays
  <2> QED
    BY <2>3, <2>4
<1>3. SettledTraced'
  BY <1>1, <1>2 DEF SettledTraced
<1>4. ASSUME todo' = << >>
      PROVE  Traces(disk'[B], loose[B])
  <2> SUFFICES ASSUME NEW p \in Packages, p \notin loose[B], NEW x \in Payloads,
                      WrittenBy(p, disk'[B][Payload(x)])
               PROVE  Listed(disk'[B][Journal(p)], x)
    BY DEF Traces
  <2>1. 1..Len(todo') = {}
    BY <1>4
  <2>2. PICK c : c = disk'[B][Payload(x)]
    OBVIOUS
  <2>3. c \in {<<p, "whole">>, <<p, "torn">>} /\ Settles(Payload(x), c)'
    BY <1>1, <2>1, <2>2 DEF WrittenBy, Settles
  <2>4. PICK journal \in Contents(Journal(p)) : Settles(Journal(p), journal)' /\ Listed(journal, x)
    BY <1>2, <2>3
  <2>5. journal = disk'[B][Journal(p)]
    BY <1>1, <2>1, <2>4 DEF Settles
  <2> QED
    BY <2>4, <2>5
<1>5. \A b \in Bottles : b # B => Traces(disk'[b], loose'[b])
  BY <1>1 DEF TraceInv, Busy
<1>6. archive'.end = "whole" => Traces(archive'.of, archive'.loose)
  BY <1>1 DEF TraceInv
<1>7. Replacing'
  BY <1>1 DEF Replacing
<1>8. ~Busy(B)' => todo' = << >>
  BY <1>1 DEF Busy
<1> QED
  BY <1>1, <1>3, <1>4, <1>5, <1>6, <1>7, <1>8 DEF TraceInv

LEMMA OrderlyAdvances ==
  ASSUME TypeInv, TraceInv, Advance, ~Replacing
  PROVE  TraceInv'
<1> DEFINE B == call.bottle
<1>1. /\ \A b \in Bottles : b # B => disk'[b] = disk[b]
      /\ B \in Bottles /\ call' = call /\ archive' = archive /\ loose' = loose /\ todo # << >>
      /\ TypeInv'
  BY AdvanceShifts
<1>2. PICK d \in {0, 1} : \E h : Shifts(d, h)
  BY AdvanceShifts
<1>3. PICK g : Shifts(d, g)
  BY <1>2
<1>4. /\ \A i \in Nat \ {0}, f \in Files : Pends(i, f)' =>
           Pends(i + d, f) /\ ~(i + d = 1 /\ f = g) /\ todo'[i][f] = todo[i + d][f]
      /\ \A j \in Nat \ {0}, f \in Files : Pends(j, f) /\ ~(j = 1 /\ f = g) =>
           j - d \in Nat \ {0} /\ Pends(j - d, f)' /\ todo'[j - d][f] = todo[j][f]
      /\ \A f \in Files : disk'[B][f] = IF Pends(1, f) /\ f = g THEN todo[1][f] ELSE disk[B][f]
  BY <1>3, Zenon DEF Shifts
<1>5. Traces(disk[B], loose[B]) /\ OrderInv
  BY <1>1 DEF TraceInv
<1>6. Len(todo) \in Nat /\ Len(todo') \in Nat
  BY <1>1, TodoLen DEF TypeInv, CallTyped
<1>7. \A i, f : (Pends(i, f) => i \in 1..Len(todo) /\ i \in Nat \ {0})
              /\ (Pends(i, f)' => i \in 1..Len(todo') /\ i \in Nat \ {0})
  BY <1>6 DEF Pends
(* OrderInv and ListsBefore for one file and its journal.                  *)
<1> SUFFICES ASSUME NEW p \in Packages, p \notin loose[B], NEW x \in Payloads
             PROVE  /\ WrittenBy(p, disk'[B][Payload(x)]) => Listed(disk'[B][Journal(p)], x)
                    /\ \A i \in 1..Len(todo') :
                         /\ Pends(i, Payload(x))' /\ WrittenBy(p, todo'[i][Payload(x)]) =>
                              ListsBefore(i, p, x)'
                         /\ Pends(i, Journal(p))' /\ WrittenBy(p, disk'[B][Payload(x)]) =>
                              \E j \in 1..(i - 1) : Pends(j, Payload(x))'
  <2>1. Traces(disk'[B], loose[B])
    BY DEF Traces
  <2>2. OrderInv'
    BY <1>1 DEF OrderInv
  <2>3. \A b \in Bottles : b # B => Traces(disk'[b], loose'[b])
    BY <1>1 DEF TraceInv, Busy
  <2>4. archive'.end = "whole" => Traces(archive'.of, archive'.loose)
    BY <1>1 DEF TraceInv
  <2>5. ~Replacing'
    BY <1>1 DEF Replacing
  <2> QED
    BY <1>1, <2>1, <2>2, <2>3, <2>4, <2>5 DEF TraceInv
<1>8. PICK file \in Files : file = Payload(x)
  BY FileNames
<1>9. PICK journal \in Files : journal = Journal(p)
  BY FileNames
<1>10. file # journal
  BY <1>8, <1>9, FileNames
<1>11. ASSUME NEW i, Pends(i, file), WrittenBy(p, todo[i][file])
       PROVE  \/ /\ \A j \in 1..Len(todo) : ~Pends(j, journal)
                 /\ Listed(disk[B][journal], x)
              \/ \E j \in 1..(i - 1) :
                   /\ Pends(j, journal) /\ Listed(todo[j][journal], x)
                   /\ \A k \in 1..Len(todo) : Pends(k, journal) => k = j
  <2>1. i \in 1..Len(todo)
    BY <1>7, <1>11
  <2>2. ListsBefore(i, p, x)
    BY <1>5, <1>8, <1>11, <2>1 DEF OrderInv
  <2> QED
    BY <2>2, <1>9 DEF ListsBefore
<1>12. ASSUME NEW i, Pends(i, journal), WrittenBy(p, disk[B][file])
       PROVE  \E j \in 1..(i - 1) : Pends(j, file)
  <2>1. i \in 1..Len(todo)
    BY <1>7, <1>12
  <2> QED
    BY <1>5, <1>8, <1>9, <1>12, <2>1 DEF OrderInv
(* The file that p writes now is listed, and its journal left alone.       *)
<1>13. ASSUME Pends(1, file), WrittenBy(p, todo[1][file])
       PROVE  (\A j : ~Pends(j, journal)) /\ Listed(disk[B][journal], x)
  BY <1>7, <1>11, <1>13
<1>14. ASSUME WrittenBy(p, disk'[B][file])
       PROVE  Listed(disk'[B][journal], x)
  <2>1. CASE Pends(1, file) /\ file = g
    BY <1>4, <1>10, <1>13, <1>14, <2>1
  <2>2. CASE ~(Pends(1, file) /\ file = g)
    <3>1. WrittenBy(p, disk[B][file])
      BY <1>4, <1>14, <2>2
    <3>2. ~Pends(1, journal)
      BY <3>1, <1>12
    <3>3. Listed(disk[B][journal], x)
      BY <3>1, <1>5, <1>8, <1>9 DEF Traces
    <3> QED
      BY <1>4, <3>2, <3>3
  <2> QED
    BY <2>1, <2>2
<1>15. ASSUME NEW i \in 1..Len(todo'), Pends(i, file)', WrittenBy(p, todo'[i][file])
       PROVE  \/ /\ \A j \in 1..Len(todo') : ~Pends(j, journal)'
                 /\ Listed(disk'[B][journal], x)
              \/ \E j \in 1..(i - 1) :
                   /\ Pends(j, journal)' /\ Listed(todo'[j][journal], x)
                   /\ \A k \in 1..Len(todo') : Pends(k, journal)' => k = j
  <2>1. i \in Nat \ {0}
    BY <1>6
  <2>2. Pends(i + d, file) /\ WrittenBy(p, todo[i + d][file])
    BY <1>4, <1>15, <2>1
  <2>3. \A k \in 1..Len(todo') : Pends(k, journal)' =>
          Pends(k + d, journal) /\ k + d \in 1..Len(todo) /\ ~(k + d = 1 /\ journal = g)
    <3> SUFFICES ASSUME NEW k \in 1..Len(todo'), Pends(k, journal)'
                 PROVE  Pends(k + d, journal) /\ k + d \in 1..Len(todo) /\ ~(k + d = 1 /\ journal = g)
      OBVIOUS
    <3>1. k \in Nat \ {0}
      BY <1>6
    <3>2. Pends(k + d, journal) /\ ~(k + d = 1 /\ journal = g)
      BY <1>4, <3>1
    <3> QED
      BY <1>7, <3>2
  <2>4. CASE (\A j \in 1..Len(todo) : ~Pends(j, journal)) /\ Listed(disk[B][journal], x)
    <3>1. ~Pends(1, journal)
      BY <1>7, <2>4
    <3>2. Listed(disk'[B][journal], x)
      BY <1>4, <2>4, <3>1
    <3> QED
      BY <2>3, <2>4, <3>2
  <2>5. ASSUME NEW j \in 1..((i + d) - 1), Pends(j, journal), Listed(todo[j][journal], x),
               \A k \in 1..Len(todo) : Pends(k, journal) => k = j
        PROVE  \/ /\ \A k \in 1..Len(todo') : ~Pends(k, journal)'
                  /\ Listed(disk'[B][journal], x)
               \/ \E h \in 1..(i - 1) :
                    /\ Pends(h, journal)' /\ Listed(todo'[h][journal], x)
                    /\ \A k \in 1..Len(todo') : Pends(k, journal)' => k = h
    <3>1. CASE j = 1 /\ journal = g
      <4>1. Listed(disk'[B][journal], x)
        BY <1>4, <2>5, <3>1
      <4>2. \A k \in 1..Len(todo') : ~Pends(k, journal)'
        BY <2>3, <2>5, <3>1
      <4> QED
        BY <4>1, <4>2
    <3>2. CASE ~(j = 1 /\ journal = g)
      <4>1. j \in Nat \ {0}
        OBVIOUS
      <4>2. j - d \in Nat \ {0} /\ Pends(j - d, journal)' /\ todo'[j - d][journal] = todo[j][journal]
        BY <1>4, <2>5, <3>2, <4>1
      <4>3. j - d \in 1..(i - 1)
        BY <2>1, <4>2
      <4>4. \A k \in 1..Len(todo') : Pends(k, journal)' => k = j - d
        BY <2>3, <2>5, <1>6
      <4>5. Listed(todo'[j - d][journal], x)
        BY <2>5, <4>2
      <4>6. PICK h : h = j - d
        OBVIOUS
      <4> QED
        BY <4>2, <4>3, <4>4, <4>5, <4>6
    <3> QED
      BY <3>1, <3>2
  <2> QED
    BY <1>11, <2>2, <2>4, <2>5
<1>16. ASSUME NEW i \in 1..Len(todo'), Pends(i, journal)', WrittenBy(p, disk'[B][file])
       PROVE  \E j \in 1..(i - 1) : Pends(j, file)'
  <2>1. i \in Nat \ {0}
    BY <1>6
  <2>2. Pends(i + d, journal)
    BY <1>4, <1>16, <2>1
  <2>3. ~(Pends(1, file) /\ file = g)
    BY <1>4, <1>13, <1>16, <2>2
  <2>4. WrittenBy(p, disk[B][file])
    BY <1>4, <1>16, <2>3
  <2>5. PICK j \in 1..((i + d) - 1) : Pends(j, file)
    BY <1>12, <2>2, <2>4
  <2>6. j \in Nat \ {0} /\ ~(j = 1 /\ file = g)
    BY <2>3, <2>5
  <2>7. j - d \in Nat \ {0} /\ Pends(j - d, file)'
    BY <1>4, <2>5, <2>6
  <2>8. j - d \in 1..(i - 1)
    BY <2>1, <2>7
  <2> QED
    BY <2>7, <2>8
<1>17. ASSUME NEW i \in 1..Len(todo'), Pends(i, file)', WrittenBy(p, todo'[i][file])
       PROVE  ListsBefore(i, p, x)'
  BY <1>1, <1>9, <1>15, <1>17 DEF ListsBefore
<1> QED
  BY <1>8, <1>9, <1>14, <1>16, <1>17

LEMMA CrashTraced ==
  ASSUME TypeInv, TraceInv, Crash
  PROVE  TraceInv'
<1> DEFINE B == call.bottle
<1>1. /\ todo # << >> /\ todo' = << >> /\ archive' = archive /\ B \in Bottles
      /\ \A b \in Bottles : b # B => loose'[b] = loose[b]
      /\ loose'[B] = IF Replacing THEN Packages ELSE loose[B]
  BY BottleOfCall DEF Crash, Owes, TypeInv, Replacing
<1>2. ASSUME NEW f, Tears(f), ~Replacing
      PROVE  Traces(disk'[B], loose[B])
  <2> SUFFICES ASSUME NEW p \in Packages, p \notin loose[B], NEW x \in Payloads,
                      WrittenBy(p, disk'[B][Payload(x)])
               PROVE  Listed(disk'[B][Journal(p)], x)
    BY DEF Traces
  <2>1. Traces(disk[B], loose[B]) /\ OrderInv
    BY <1>1, <1>2 DEF TraceInv
  <2>2. /\ f \in Files /\ Pends(1, f) /\ todo[1][f] \in Contents(f) /\ 1 \in 1..Len(todo)
        /\ disk' = [disk EXCEPT ![B][f] = Torn(f, todo[1][f])]
    BY <1>2, FileNames DEF Tears, Pends
  <2>3. /\ disk'[B][f] = Torn(f, todo[1][f])
        /\ \A h \in Files : h # f => disk'[B][h] = disk[B][h]
    BY <1>1, <2>2 DEF TypeInv, Bottle
  <2>4. Payload(x) \in Files /\ Journal(p) \in Files /\ Payload(x) # Journal(p)
    BY FileNames
  <2>5. CASE f = Payload(x)
    <3>1. PICK c : c = todo[1][f]
      OBVIOUS
    <3>2. c \in Packages \X {"whole", "torn"} /\ disk'[B][f] = <<c[1], "torn">>
      <4>1. f[1] = "file" /\ Contents(f) = Packages \X {"whole", "torn"}
        BY <2>5, FileNames, ContentsOf
      <4> QED
        BY <2>2, <2>3, <3>1, <4>1 DEF Torn
    <3>3. c[1] = p
      BY <2>5, <3>2 DEF WrittenBy
    <3>4. WrittenBy(p, c)
      BY <3>2, <3>3 DEF WrittenBy
    <3>5. ListsBefore(1, p, x)
      BY <2>1, <2>2, <2>5, <3>1, <3>4 DEF OrderInv
    <3>6. Listed(disk[B][Journal(p)], x)
      BY <3>5 DEF ListsBefore
    <3> QED
      BY <2>3, <2>4, <2>5, <3>6
  <2>6. CASE f # Payload(x)
    <3>1. WrittenBy(p, disk[B][Payload(x)])
      BY <2>3, <2>4, <2>6
    <3>2. Listed(disk[B][Journal(p)], x)
      BY <2>1, <3>1 DEF Traces
    <3>3. f # Journal(p)
      BY <2>1, <2>2, <3>1 DEF OrderInv
    <3> QED
      BY <2>3, <2>4, <3>2, <3>3
  <2> QED
    BY <2>5, <2>6
<1>3. \A b \in Bottles : b # B => disk'[b] = disk[b]
  BY <1>1 DEF Crash, TypeInv
<1>4. ASSUME ~Replacing
      PROVE  Traces(disk'[B], loose[B])
  <2>1. CASE disk' = disk
    BY <1>1, <1>4, <2>1 DEF TraceInv
  <2> QED
    BY <1>2, <1>4, <2>1, CrashTears
<1>5. Traces(disk'[B], loose'[B])
  <2>1. CASE Replacing
    BY <1>1, <2>1 DEF Traces
  <2>2. CASE ~Replacing
    BY <1>1, <1>4, <2>2
  <2> QED
    BY <2>1, <2>2
<1>6. \A b \in Bottles : Traces(disk'[b], loose'[b])
  <2>1. \A b \in Bottles : b # B => Traces(disk'[b], loose'[b])
    BY <1>1, <1>3 DEF TraceInv, Busy
  <2> QED
    BY <1>5, <2>1
<1>7. archive'.end = "whole" => Traces(archive'.of, archive'.loose)
  BY <1>1 DEF TraceInv
<1> QED
  BY <1>1, <1>6, <1>7 DEF TraceInv

LEMMA LongCalls ==
  ASSUME NEW b
  PROVE  Delete(b) # << >> /\ \A records \in Writes : Restore(b, records) # << >>
<1>1. PICK x, y : Delete(b) = << x, y >>
  BY DEF Delete
<1>2. Len(<< x, y >>) = 2 /\ Len(<< >>) = 0
  OBVIOUS
<1>3. ASSUME NEW records \in Writes PROVE Restore(b, records) # << >>
  <2>1. Len(Restore(b, records)) = 3
    BY RestorePhases
  <2> QED
    BY <1>2, <2>1
<1>4. Delete(b) # << >>
  BY <1>1, <1>2
<1> QED
  BY <1>3, <1>4

LEMMA TraceStep ==
  ASSUME TypeInv, RestoreInv, DirInv, TraceInv, [Next]_vars
  PROVE  TraceInv'
<1>0. \A b \in Bottles : disk[b] \in Bottle /\ Solid(disk[b]) /\ (todo = << >> => Traces(disk[b], loose[b]))
  BY DEF TypeInv, DirInv, TraceInv, Busy
<1>1. ASSUME NEW b \in Bottles,
             (\E arch \in Archs : BeginCreate(b, arch)) \/ BeginConfig(b) \/ Sets(b)
      PROVE  TraceInv'
  <2>1. \A line : \E c : SetSetting(b, line) = << One(Conf, c) >>
    BY DEF SetSetting
  <2>2. ASSUME NEW junk PROVE \E c : Config(b, junk) = << One(Conf, c) >>
    BY DEF Config
  <2>3. \/ \E arch \in Archs : todo' = Create(b, arch)
        \/ \E c : todo' = << One(Conf, c) >>
    BY <1>1, <2>1, <2>2 DEF BeginCreate, BeginConfig, Sets, BeginSetting, Begin, Call
  <2>4. /\ todo = << >> /\ disk' = disk /\ archive' = archive /\ call'.bottle = b /\ loose' = loose
        /\ call'.op \notin {"delete", "restore", "clone"}
    BY <1>1 DEF BeginCreate, BeginConfig, Sets, BeginSetting, Begin, Call, Owes, TypeInv
  <2>5. \A i \in 1..Len(todo') : DOMAIN todo'[i] \subseteq {Dir, Conf, Marker}
    <3>1. CASE \E arch \in Archs : todo' = Create(b, arch)
      BY <1>0, <3>1, PlainDomains
    <3>2. CASE \E c : todo' = << One(Conf, c) >>
      <4>1. PICK c : todo' = << One(Conf, c) >>
        BY <3>2
      <4>2. \A i \in 1..Len(todo') : todo'[i] = One(Conf, c)
        BY <4>1
      <4> QED
        BY <4>2 DEF One
    <3> QED
      BY <2>3, <3>1, <3>2
  <2>6. OrderInv'
    BY <2>5, NothingTraced
  <2> QED
    BY <2>4, <2>6, TraceBegins
<1>2. ASSUME BeginRuntime
      PROVE  TraceInv'
  <2>1. /\ todo = << >> /\ disk' = disk /\ archive' = archive /\ loose' = loose
        /\ call'.bottle = current /\ current \in Bottles /\ call'.op = "runtime"
        /\ todo' = RuntimeInstall(current) \/ todo' = RuntimeUninstall(current)
    BY <1>2 DEF BeginRuntime, Begin, Call, TypeInv
  <2>2. \A i \in 1..Len(todo') : DOMAIN todo'[i] \subseteq {Dir, Conf, Marker}
    BY <1>0, <2>1, PlainDomains
  <2>3. OrderInv'
    BY <2>2, NothingTraced
  <2> QED
    BY <2>1, <2>3, TraceBegins
<1>3. ASSUME NEW b \in Bottles, NEW p \in Packages, BeginCommit(b, p)
      PROVE  TraceInv'
  <2>1. PICK list \in Setups[p] : todo' = Commit(b, p, list)
    BY <1>3 DEF BeginCommit, Begin, Call
  <2>2. /\ todo = << >> /\ disk' = disk /\ archive' = archive /\ call'.bottle = b
        /\ call'.op = "commit"
        /\ \A x \in Bottles : x # b => loose'[x] = loose[x]
        /\ loose'[b] = IF Has(b, Journal(p)) THEN loose[b] \cup {p} ELSE loose[b]
    BY <1>3 DEF BeginCommit, Begin, Call, Owes, TypeInv
  <2>3. ASSUME p \notin loose'[b], NEW x \in Payloads, WrittenBy(p, disk[b][Payload(x)])
        PROVE  FALSE
    <3>1. disk[b][Journal(p)] = Absent /\ p \notin loose[b]
      BY <2>2, <2>3 DEF Has
    <3>2. Listed(disk[b][Journal(p)], x)
      BY <1>0, <2>2, <2>3, <3>1 DEF Traces
    <3> QED
      BY <3>1, <3>2 DEF Listed
  <2>4. OrderInv'
    BY <2>1, <2>2, <2>3, CommitOrder
  <2> QED
    BY <2>2, <2>4, TraceBegins
<1>4. ASSUME NEW b \in Bottles, NEW p \in Packages, BeginUninstall(b, p)
      PROVE  TraceInv'
  <2>1. /\ todo = << >> /\ disk' = disk /\ archive' = archive /\ call'.bottle = b /\ loose' = loose
        /\ call'.op = "uninstall" /\ todo' = Uninstall(b, p) /\ Has(b, Journal(p))
    BY <1>4 DEF BeginUninstall, Begin, Call
  <2>2. OrderInv'
    BY <1>0, <2>1, UninstallOrder
  <2> QED
    BY <2>1, <2>2, TraceBegins
<1>5. ASSUME NEW b \in Bottles, RuntimeInit(b) \/ Backup(b) \/ BackupCut(b)
      PROVE  TraceInv'
  <2>1. /\ todo = << >> /\ todo' = << >> /\ disk' = disk /\ loose' = loose
        /\ \/ archive' = archive
           \/ archive'.of = disk[b] /\ archive'.loose = loose[b]
           \/ archive'.end = "cut"
    BY <1>5 DEF RuntimeInit, Backup, BackupCut, Begin, Call
  <2>2. archive'.end = "whole" => Traces(archive'.of, archive'.loose)
    BY <1>0, <2>1 DEF TraceInv
  <2> QED
    BY <1>0, <2>1, <2>2 DEF TraceInv
<1>6. ASSUME NEW b \in Bottles, BeginDelete(b)
      PROVE  TraceInv'
  <2>1. /\ todo = << >> /\ disk' = disk /\ archive' = archive /\ call'.bottle = b
        /\ call'.op = "delete"
        /\ \A x \in Bottles : x # b => loose'[x] = loose[x]
    BY <1>6 DEF BeginDelete, Begin, Call, Owes, TypeInv
  <2>4. todo' = Delete(b)
    BY <1>6 DEF BeginDelete, Begin, Call
  <2>2. todo' # << >>
    BY <2>4, LongCalls
  <2>3. SettledTraced'
    BY <1>0, <2>1, <2>4, DeleteTraced
  <2> QED
    BY <2>1, <2>2, <2>3, ReplacingBegins
<1>7. ASSUME NEW b \in Bottles, BeginRestore(b)
      PROVE  TraceInv'
  <2>1. PICK records : records = archive.records
    OBVIOUS
  <2>2. /\ todo = << >> /\ disk' = disk /\ archive' = archive /\ call'.bottle = b
        /\ call'.op = "restore"
        /\ todo' = Restore(b, records) /\ records \in Writes
        /\ \A x \in Bottles : x # b => loose'[x] = loose[x]
        /\ loose'[b] = IF Exists(b) \/ archive.end # "whole" THEN Packages ELSE archive.loose
    BY <1>7, <2>1 DEF BeginRestore, Call, Owes, TypeInv, ArchiveTyped
  <2>4. todo' # << >>
    BY <2>2, LongCalls
  <2>5. SettledTraced'
    <3>1. CASE archive.end = "whole"
      <4>1. PICK files \in Bottle : files = archive.of
        BY DEF TypeInv, ArchiveTyped
      <4>2. records = Records(files) /\ Traces(files, archive.loose)
        BY <2>1, <3>1, <4>1 DEF RestoreInv, TraceInv
      <4>3. loose'[b] = IF Exists(b) THEN Packages ELSE archive.loose
        BY <2>2, <3>1
      <4> QED
        BY <1>0, <2>2, <4>2, <4>3, RestoreTraced
    <3>2. CASE archive.end # "whole"
      <4>1. loose'[call'.bottle] = Packages
        BY <2>2, <3>2
      <4> QED
        BY <4>1 DEF SettledTraced
    <3> QED
      BY <3>1, <3>2
  <2> QED
    BY <2>2, <2>4, <2>5, ReplacingBegins
<1>8. ASSUME NEW src \in Bottles, NEW dst \in Bottles, BeginClone(src, dst)
      PROVE  TraceInv'
  <2>1. PICK files \in Bottle : files = disk[src]
    BY <1>0
  <2>2. PICK records : records = Records(files)
    OBVIOUS
  <2>3. /\ todo = << >> /\ disk' = disk /\ archive' = archive /\ call'.bottle = dst
        /\ call'.op = "clone"
        /\ todo' = Restore(dst, records)
        /\ \A x \in Bottles : x # dst => loose'[x] = loose[x]
        /\ loose'[dst] = IF Exists(dst) THEN Packages ELSE loose[src]
    BY <1>8, <2>1, <2>2 DEF BeginClone, Call, Owes, TypeInv
  <2>4. Traces(files, loose[src])
    BY <1>0, <2>1, <2>3
  <2>5. SettledTraced'
    BY <1>0, <2>2, <2>3, <2>4, RestoreTraced
  <2>6. records \in Writes
    BY <2>2, RecordsPhase
  <2>7. todo' # << >>
    BY <2>3, <2>6, LongCalls
  <2> QED
    BY <2>3, <2>5, <2>7, ReplacingBegins
<1>9. ASSUME Advance
      PROVE  TraceInv'
  BY <1>9, ReplacingAdvances, OrderlyAdvances
<1>10. CASE UNCHANGED vars
  BY <1>10 DEF vars, TraceInv, Busy, Replacing, OrderInv, ListsBefore, SettledTraced, Settles, Pends
<1> QED
  BY <1>1, <1>2, <1>3, <1>4, <1>5, <1>6, <1>7, <1>8, <1>9, <1>10, CrashTraced DEF Next, Sets

(* Whatever calls are made and wherever they are killed, a file that a     *)
(* package wrote is listed in the package's journal when no call is at     *)
(* work, and an uninstall will find it.                                    *)
THEOREM FilesStayTraced == Spec => []TracedToJournal
<1>1. Init => RestoreInv /\ DirInv /\ TraceInv
  <2> SUFFICES ASSUME Init PROVE RestoreInv /\ DirInv /\ TraceInv
    OBVIOUS
  <2>1. RestoreInv
    BY DEF Init, RestoreInv, Restored, Idle
  <2>2. \A f \in Files : NoFiles[f] = Absent
    BY DEF NoFiles
  <2>3. DirInv
    BY <2>2, FileNames DEF Init, DirInv, Solid
  <2>4. Traces(NoFiles, {})
    BY <2>2, WriterPresent, FileNames DEF Traces
  <2>5. TraceInv
    BY <2>4 DEF Init, TraceInv
  <2> QED
    BY <2>1, <2>3, <2>5
<1>2. /\ TypeInv /\ RestoreInv /\ [Next]_vars => RestoreInv'
      /\ TypeInv /\ DirInv /\ [Next]_vars => DirInv'
      /\ TypeInv /\ RestoreInv /\ DirInv /\ TraceInv /\ [Next]_vars => TraceInv'
  BY RestoreStep, DirStep, TraceStep
<1>3. TraceInv => TracedToJournal
  BY DEF TraceInv, Busy, Traces, TracedToJournal, WrittenBy, Listed
<1> QED
  BY <1>1, <1>2, <1>3, AlwaysTyped, PTL DEF Spec
=============================================================================
