------------------------------ MODULE Bottles ------------------------------
(***************************************************************************)
(* The files of the bottles under one root and the calls of prefix.c,      *)
(* installer.c and runtime.c that write them, made one after another by a  *)
(* process that may be killed inside any of them.                          *)
(*                                                                         *)
(* A call settles what it will write when it begins and then works off a   *)
(* list of phases; a phase gives some files their new contents, in any     *)
(* order, as readdir or the archive has it.  The files of one phase stand  *)
(* for the code's loop, over nothing perhaps; a phase of one file for a    *)
(* single save or remove.                                                  *)
(***************************************************************************)
EXTENDS Integers, Sequences, FiniteSets

CONSTANTS
  Bottles,    \* names under the root
  Packages,   \* installer packages
  Payloads,   \* the files that packages bring
  Shortcuts,  \* those of them that are links on the desktop
  Setups,     \* [Packages -> set of action lists its versions have]
  Absent,     \* no such file
  Empty,      \* a truncated file
  MaxCalls    \* bound: the calls of a behaviour

Dir == <<"dir">>
Conf == <<"prefix.conf">>
Marker == <<"runtime">>
Payload(x) == <<"file", x>>
Journal(p) == <<"inf", p>>
Saved == {Conf, Marker} \cup {Payload(x) : x \in Payloads} \cup {Journal(p) : p \in Packages}
Files == {Dir} \cup Saved

Archs == {"win32", "win64"}

(* prefix.conf: gfx stands for the mode, gfx and audio, arch for arch and  *)
(* runner, user for the keys that only set_setting writes; junk for text   *)
(* that names no architecture.  What a truncated file lacks reads back as  *)
(* its default, or not at all.                                             *)
Settings == [gfx : {"Vulkan", "GL"}, arch : Archs \cup {"junk"}, user : {"none", "on"}]
Defaults(arch) == [gfx |-> "Vulkan", arch |-> arch, user |-> "none"]
ConfSays(content) == IF content = Empty THEN Defaults("win64") ELSE content

(* The lines that set_setting may be asked for: any key, any value.        *)
Lines ==
  [key : {"gfx"}, value : {"Vulkan", "GL"}] \cup [key : {"arch"}, value : Archs \cup {"junk"}]
    \cup [key : {"user"}, value : {"none", "on"}]

(* What the writers of a file put there, and what a killed one leaves.     *)
Contents(f) ==
  CASE f = Dir -> {"bare", "full"}
    [] f = Conf -> Settings \cup {Empty}
    [] f = Marker -> {"installed", Empty}
    [] f \in {Payload(x) : x \in Payloads} -> Packages \X {"whole", "torn"}
    [] OTHER -> {Empty} \cup UNION {Setups[p] : p \in {q \in Packages : f = Journal(q)}}

ASSUME BottlesAssumption ==
  /\ Shortcuts \subseteq Payloads
  /\ Setups \in [Packages -> SUBSET Seq(Payloads)]
  /\ \A f \in Files : Absent \notin Contents(f)
  /\ Empty \notin Settings /\ \A p \in Packages : Empty \notin Setups[p]
  /\ MaxCalls \in Nat

VARIABLES
  disk,     \* [Bottles -> [Files -> content]]
  archive,  \* the CBK1 file: its records, how it ends, and (history) what it is of
  current,  \* runtime.c's g_bottle
  todo,     \* the phases left of the call
  call,     \* the call begun last; Idle once it was cut short
  calls,    \* the number of calls begun
  before,   \* history: the target of a restore or clone before it
  source,   \* history: the files it is to bring back
  made,     \* history: [Bottles -> the architecture it was made with, or "lost"]
  loose     \* history: [Bottles -> packages with files their journal may not list]

vars == <<disk, archive, current, todo, call, calls, before, source, made, loose>>

Idle == [op |-> "idle"]
Exists(b) == disk[b][Dir] # Absent
Has(b, f) == disk[b][f] # Absent

(* backup_walk: the regular files that are there.                          *)
Records(files) == [f \in {g \in Saved : files[g] # Absent} |-> files[f]]

NoFiles == [f \in Files |-> Absent]

One(f, content) == [g \in {f} |-> content]
Nothing == [g \in {} |-> Absent]

-----------------------------------------------------------------------------
(* The phases of each call.                                                *)

(* create_arch: the directories of shell.c, then a fresh prefix.conf.      *)
Create(b, arch) == << One(Dir, "full"), One(Conf, Defaults(arch)) >>

(* delete: rm_rf takes the files in readdir's order, the directory last.   *)
Delete(b) ==
  << [f \in DOMAIN Records(disk[b]) |-> Absent], One(Dir, Absent) >>

(* Variant: the five keys are written with the defaults for NULL.          *)
ConfigFromDefaults(b, junk) == << One(Conf, [Defaults("win64") EXCEPT !.gfx = "GL"]) >>

(* set_config rewrites its five keys and drops the others; arch is what    *)
(* read_conf found, and without a prefix.conf whatever was in the record.  *)
Config(b, junk) ==
  << One(Conf, [Defaults(IF Has(b, Conf) THEN ConfSays(disk[b][Conf]).arch ELSE junk)
                  EXCEPT !.gfx = "GL"]) >>

(* Variant: the file is written with the one line only.                    *)
SetSettingAlone(b, line) == << One(Conf, [Defaults("win64") EXCEPT ![line.key] = line.value]) >>

(* set_setting reads the file, then writes it with one line replaced.      *)
SetSetting(b, line) ==
  << One(Conf, [ConfSays(disk[b][Conf]) EXCEPT ![line.key] = line.value]) >>

MakeDir(b) == IF Exists(b) THEN << >> ELSE << One(Dir, "bare") >>

(* Variant: each action is written to the path that the journal has.       *)
AppliedToJournal(b, p, list) ==
  [i \in DOMAIN list |->
     IF list[i] \in Shortcuts /\ disk[b][Dir] # "full" THEN Nothing
     ELSE One(Journal(p), <<p, "whole">>)]

(* The files of an action list; a link needs the desktop of create.        *)
Applied(b, p, list) ==
  [i \in DOMAIN list |->
     IF list[i] \in Shortcuts /\ disk[b][Dir] # "full" THEN Nothing
     ELSE One(Payload(list[i]), <<p, "whole">>)]

(* Variant: the journal is written when everything is in place.            *)
CommitJournalLast(b, p, list) ==
  MakeDir(b) \o Applied(b, p, list) \o << One(Journal(p), list) >>

(* commit: the journal with all actions first, then each action.           *)
Commit(b, p, list) ==
  MakeDir(b) \o << One(Journal(p), list) >> \o Applied(b, p, list)

(* uninstall: what the journal lists, then the journal.                    *)
Uninstall(b, p) ==
  LET list == IF disk[b][Journal(p)] = Empty THEN << >> ELSE disk[b][Journal(p)]
  IN  [i \in DOMAIN list |-> One(Payload(list[i]), Absent)] \o << One(Journal(p), Absent) >>

RuntimeInstall(b) == MakeDir(b) \o << One(Marker, "installed") >>
RuntimeUninstall(b) == << One(Marker, Absent) >>

(* restore: create, then every record over what is there.                  *)
Restore(b, records) == Create(b, "win64") \o << records >>

(* What a file holds when its writer was killed between open and close.    *)
Torn(f, content) == IF f[1] = "file" THEN <<content[1], "torn">> ELSE Empty

-----------------------------------------------------------------------------
Init ==
  /\ disk = [b \in Bottles |-> NoFiles]
  /\ archive = [end |-> "none", records |-> One(Dir, Absent), of |-> NoFiles, loose |-> {}]
  /\ current = Absent
  /\ todo = << >> /\ call = Idle /\ calls = 0
  /\ before = NoFiles /\ source = NoFiles
  /\ made = [b \in Bottles |-> "lost"]
  /\ loose = [b \in Bottles |-> {}]

Call(c, phases) ==
  /\ todo = << >> /\ calls < MaxCalls
  /\ call' = c
  /\ todo' = phases
  /\ calls' = calls + 1
  /\ UNCHANGED disk

Begin(c, phases) == Call(c, phases) /\ before' = NoFiles /\ source' = NoFiles

Owes(b, arch, packages) ==
  /\ made' = [made EXCEPT ![b] = arch]
  /\ loose' = [loose EXCEPT ![b] = packages]

BeginCreate(b, arch) ==
  /\ Begin([op |-> "create", bottle |-> b], Create(b, arch))
  /\ Owes(b, arch, loose[b])
  /\ UNCHANGED <<archive, current>>

BeginDelete(b) ==
  /\ Begin([op |-> "delete", bottle |-> b], Delete(b))
  /\ Owes(b, "lost", {})
  /\ UNCHANGED <<archive, current>>

BeginConfig(b) ==
  /\ Exists(b)
  /\ \E junk \in Archs \cup {"junk"} :
       /\ Has(b, Conf) => junk = "junk"
       /\ Begin([op |-> "config", bottle |-> b], Config(b, junk))
  /\ UNCHANGED <<archive, current, made, loose>>

BeginSetting(b, line) ==
  /\ Exists(b) /\ Has(b, Conf)
  /\ Begin([op |-> "setting", bottle |-> b], SetSetting(b, line))
  /\ Owes(b, IF line.key = "arch" /\ line.value # made[b] THEN "lost" ELSE made[b], loose[b])
  /\ UNCHANGED <<archive, current>>

BeginCommit(b, p) ==
  /\ \E list \in Setups[p] : Begin([op |-> "commit", bottle |-> b], Commit(b, p, list))
  /\ Owes(b, made[b], IF Has(b, Journal(p)) THEN loose[b] \cup {p} ELSE loose[b])
  /\ UNCHANGED <<archive, current>>

BeginUninstall(b, p) ==
  /\ Has(b, Journal(p))
  /\ Begin([op |-> "uninstall", bottle |-> b], Uninstall(b, p))
  /\ UNCHANGED <<archive, current, made, loose>>

RuntimeInit(b) ==
  /\ Begin([op |-> "bind", bottle |-> b], << >>)
  /\ current' = b
  /\ UNCHANGED <<archive, made, loose>>

BeginRuntime ==
  /\ current # Absent
  /\ \E phases \in {RuntimeInstall(current), RuntimeUninstall(current)} :
       Begin([op |-> "runtime", bottle |-> current], phases)
  /\ UNCHANGED <<archive, current, made, loose>>

(* Variant: an empty file is not worth a record.                           *)
BackupNonEmpty(b) ==
  /\ Begin([op |-> "backup", bottle |-> b], << >>)
  /\ LET kept == {f \in DOMAIN Records(disk[b]) : disk[b][f] # Empty}
     IN  archive' = [end |-> "whole", of |-> disk[b], loose |-> loose[b],
                     records |-> [f \in kept |-> disk[b][f]]]
  /\ UNCHANGED <<current, made, loose>>

(* backup never fails for what it reads: the archive of a bottle that does *)
(* not exist is an archive without records.                                *)
Backup(b) ==
  /\ Begin([op |-> "backup", bottle |-> b], << >>)
  /\ archive' = [end |-> "whole", of |-> disk[b], loose |-> loose[b],
                 records |-> Records(disk[b])]
  /\ UNCHANGED <<current, made, loose>>

(* Killed inside backup: some of the records, and perhaps part of one that *)
(* no restore will write.                                                  *)
BackupCut(b) ==
  /\ Begin(Idle, << >>)
  /\ \E kept \in SUBSET DOMAIN Records(disk[b]) :
       archive' = [end |-> "cut", of |-> NoFiles, loose |-> {},
                   records |-> [f \in kept |-> disk[b][f]]]
  /\ UNCHANGED <<current, made, loose>>

ArchOf(records) == IF Conf \in DOMAIN records THEN ConfSays(records[Conf]).arch ELSE "win64"

(* A bottle that the records make has their architecture; over one that    *)
(* is there they may bring another.                                        *)
MadeFrom(b, records) ==
  IF Exists(b) /\ made[b] # ArchOf(records) THEN "lost" ELSE ArchOf(records)

(* An archive cut between two records is restored like a whole one, with   *)
(* CELLAR_OK; one cut inside a record has all the others restored first.   *)
BeginRestore(b) ==
  /\ archive.end # "none"
  /\ Call([op |-> "restore", bottle |-> b], Restore(b, archive.records))
  /\ before' = disk[b] /\ source' = archive.of
  /\ Owes(b, MadeFrom(b, archive.records),
          IF Exists(b) \/ archive.end # "whole" THEN Packages ELSE archive.loose)
  /\ UNCHANGED <<archive, current>>

(* clone: backup into a hidden file, restore from it, remove it.           *)
BeginClone(src, dst) ==
  /\ Exists(src)
  /\ Call([op |-> "clone", bottle |-> dst], Restore(dst, Records(disk[src])))
  /\ before' = disk[dst] /\ source' = disk[src]
  /\ Owes(dst, MadeFrom(dst, Records(disk[src])), IF Exists(dst) THEN Packages ELSE loose[src])
  /\ UNCHANGED <<archive, current>>

others == <<archive, current, calls, before, source>>

(* The next file of the phase; a loop over nothing ends at once.           *)
Advance ==
  /\ todo # << >>
  /\ \/ \E f \in DOMAIN todo[1] :
          /\ disk' = [disk EXCEPT ![call.bottle][f] = todo[1][f]]
          /\ todo' = IF DOMAIN todo[1] = {f} THEN Tail(todo)
                     ELSE [todo EXCEPT ![1] = [g \in DOMAIN todo[1] \ {f} |-> todo[1][g]]]
     \/ DOMAIN todo[1] = {} /\ todo' = Tail(todo) /\ UNCHANGED disk
  /\ UNCHANGED <<others, call, made, loose>>

(* The process is killed, between two files or while one is being written. *)
Crash ==
  /\ todo # << >>
  /\ \/ UNCHANGED disk
     \/ \E f \in DOMAIN todo[1] \ {Dir} :
          /\ todo[1][f] # Absent
          /\ disk' = [disk EXCEPT ![call.bottle][f] = Torn(f, todo[1][f])]
  /\ todo' = << >> /\ call' = Idle /\ current' = Absent
  /\ Owes(call.bottle, "lost",
          IF call.op \in {"delete", "restore", "clone"} THEN Packages ELSE loose[call.bottle])
  /\ UNCHANGED <<archive, calls, before, source>>

Next ==
  \/ \E b \in Bottles :
       \/ \E arch \in Archs : BeginCreate(b, arch)
       \/ BeginDelete(b) \/ BeginConfig(b)
       \/ \E line \in Lines : BeginSetting(b, line)
       \/ \E p \in Packages : BeginCommit(b, p) \/ BeginUninstall(b, p)
       \/ RuntimeInit(b) \/ Backup(b) \/ BackupCut(b) \/ BeginRestore(b)
       \/ \E src \in Bottles : BeginClone(src, b)
  \/ BeginRuntime \/ Advance \/ Crash

Spec == Init /\ [][Next]_vars

-----------------------------------------------------------------------------
(* Types: each file holds what its own writers put there, or is truncated  *)
(* or missing, also in what an archive brings back.                        *)
BottlesTypeOK ==
  /\ \A b \in Bottles, f \in Files : disk[b][f] \in Contents(f) \cup {Absent}
  /\ archive.end # "none" =>
       \A f \in DOMAIN archive.records : archive.records[f] \in Contents(f)
  /\ current \in Bottles \cup {Absent} /\ calls \in 0..MaxCalls
  /\ made \in [Bottles -> Archs \cup {"junk", "lost"}]
  /\ loose \in [Bottles -> SUBSET Packages]

(* installer.h: actions are journalled "so they can be ... rolled back on  *)
(* uninstall".  Whatever calls are made and wherever they are killed, a    *)
(* file a package wrote is listed in that package's journal: the journal   *)
(* comes before the files and goes after them, and a backup carries both.  *)
(* Excepted are packages committed again over their own journal and        *)
(* bottles that a delete or restore was killed in or restored over.        *)
TracedToJournal ==
  todo = << >> =>
    \A b \in Bottles : \A p \in Packages \ loose[b] : \A x \in Payloads :
      disk[b][Payload(x)] \in {p} \X {"whole", "torn"} =>
        /\ disk[b][Journal(p)] \notin {Absent, Empty}
        /\ \E i \in DOMAIN disk[b][Journal(p)] : disk[b][Journal(p)][i] = x

(* After a restore of a whole archive, and after a clone, the bottle has   *)
(* every file as it was when the backup was taken, truncated ones too;     *)
(* files the archive does not have stay, except that prefix.conf is reset. *)
RoundTrip ==
  (todo = << >> /\ (call.op = "clone" \/ (call.op = "restore" /\ archive.end = "whole"))) =>
    \A f \in Saved :
      disk[call.bottle][f] = IF source[f] # Absent THEN source[f]
                             ELSE IF f = Conf THEN Defaults("win64") ELSE before[f]

(* prefix.h: the architecture is "fixed at creation".  Installs, backups   *)
(* and changes of other settings keep the one that the bottle was made     *)
(* with, wherever other bottles are killed, and restores and clones carry  *)
(* it over; a later create makes it anew.  Excepted, as the code lets them *)
(* change it, are bottles with a kill inside them, those whose arch line   *)
(* set_setting has replaced by another, and those that a restore or clone  *)
(* of another architecture went over.                                      *)
ArchKept ==
  todo = << >> =>
    \A b \in Bottles :
      made[b] # "lost" => Has(b, Conf) /\ ConfSays(disk[b][Conf]).arch = made[b]
=============================================================================
