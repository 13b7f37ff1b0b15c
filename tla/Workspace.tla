----------------------------- MODULE Workspace -----------------------------
(***************************************************************************)
(* The files of one Winaltor workspace and the calls of workspace.c that   *)
(* change them, made by processes that may overlap and may be killed.      *)
(*                                                                         *)
(* A call checks its arguments against the files, then works off a list of *)
(* file steps.  A text file is saved by opening it for writing, which      *)
(* truncates it, and writing and closing it: two steps.  A copy reads its  *)
(* source after its target is truncated.  A remove runs alone.             *)
(***************************************************************************)
EXTENDS Integers, Sequences, FiniteSets

CONSTANTS
  Procs,          \* processes that use the workspace
  Labels,         \* profile labels; "current" names current.profile itself
  Snaps,          \* snapshot labels
  Runners,        \* runner names: what a profile and a workspace agree on
  DefaultRunner,  \* the runner of ws_defaults
  Absent,         \* no such file
  Empty,          \* a truncated file, or a directory
  Budget          \* bound: two for each call of a behaviour, three for one that overlaps another

App == <<"app.conf">>
Prefix == <<"prefix.conf">>
Current == <<"current.profile">>
Dir == <<"dir">>
Saved == {App, Prefix, Current}

Profile(l) == IF l = "current" THEN Current ELSE <<"profile", l>>
Snap(s, f) == <<"snapshot", s, f[1]>>
SnapDir(s) == <<"snapshot", s, "dir">>
SnapLabel(s) == <<"snapshot", s, "label.txt">>

Paths ==
  Saved \cup {Dir} \cup {Profile(l) : l \in Labels}
    \cup {Snap(s, f) : s \in Snaps, f \in Saved}
    \cup UNION {{SnapDir(s), SnapLabel(s)} : s \in Snaps}

(* What a field reads as when its line is not there.                       *)
Unset == ""

Settings == [runner : Runners \cup {Unset}, shortcut : BOOLEAN]
Points == [label : Labels, runner : Runners, trust : {"local", "community"}]
Modes == {"win10", "win7"}

Calls ==
  [op : {"install", "remove", "repair"}]
    \cup [op : {"set"}, runner : Runners] \cup [op : {"mode"}, mode : Modes]
    \cup [op : {"save", "apply"}, point : [label : Labels, runner : Runners, trust : {"local"}]]
    \cup [op : {"import"}, point : [label : Labels, runner : Runners, trust : {"community"}]]
    \cup [op : {"snapshot", "rollback"}, snap : Snaps]

Idle == [op |-> "idle"]

ASSUME WorkspaceAssumption ==
  /\ DefaultRunner \in Runners /\ Unset \notin Runners
  /\ Absent # Empty /\ {Absent, Empty} \cap (Settings \cup Points \cup Modes \cup Snaps) = {}
  /\ Budget \in Nat

VARIABLES
  files,       \* [Paths -> content]
  call,        \* [Procs -> the call a process is in, or Idle]
  todo,        \* [Procs -> the file steps left]
  before,      \* history: [Procs -> the files when the call began]
  overlapped,  \* history: processes whose call has overlapped with another
  ragged,      \* history: a remove has been cut short
  calls        \* the calls begun, as Budget counts them

vars == <<files, call, todo, before, overlapped, ragged, calls>>

Busy == {p \in Procs : call[p] # Idle}

Has(f) == files[f] # Absent

(* load: the fields a truncated app.conf does not have get their defaults. *)
Load(content) == IF content = Empty THEN [runner |-> Unset, shortcut |-> FALSE] ELSE content

LabelOf(content) == IF content \in {Absent, Empty} THEN Unset ELSE content.label

Defaults == [runner |-> DefaultRunner, shortcut |-> FALSE]

Save(f, content) == << <<"open", f>>, <<"write", f, content>> >>

-----------------------------------------------------------------------------
(* What the checks at the top of each call demand.                         *)
Admitted(c) ==
  CASE c.op = "install" -> ~Has(App)
    [] c.op = "mode" -> Has(Dir)
    [] c.op \in {"save", "import", "repair"} -> TRUE
    [] c.op = "rollback" -> Has(App) /\ Has(SnapDir(c.snap))
    [] OTHER -> Has(App)

(* The file steps of each call, as far as they are settled when it begins. *)
Install ==
  << <<"mkdir", Dir>> >> \o Save(Prefix, "win10") \o Save(App, Defaults)
    \o Save(App, [Defaults EXCEPT !.shortcut = TRUE])

SetField(runner) == Save(App, [Load(files[App]) EXCEPT !.runner = runner])

SetConfig(mode) == Save(Prefix, mode)

ProfileSave(point) == << <<"mkdir", Dir>> >> \o Save(Profile(point.label), point)

ProfileApply(point) == << <<"apply", point>> >>

ProfileImport(point) == ProfileSave(point) \o ProfileApply(point)

Snapshot(s) ==
  << <<"mkdir", SnapDir(s)>>, <<"copy", App, Snap(s, App)>>,
     <<"copy", Prefix, Snap(s, Prefix)>>, <<"copy", Current, Snap(s, Current)>> >>
    \o Save(SnapLabel(s), s)

Rollback(s) ==
  << <<"copy", Snap(s, App), App>>, <<"copy", Snap(s, Prefix), Prefix>>,
     <<"copy", Snap(s, Current), Current>> >>

Steps(c) ==
  CASE c.op = "install" -> Install
    [] c.op = "set" -> SetField(c.runner)
    [] c.op = "mode" -> SetConfig(c.mode)
    [] c.op = "save" -> ProfileSave(c.point)
    [] c.op = "apply" -> ProfileApply(c.point)
    [] c.op = "import" -> ProfileImport(c.point)
    [] c.op = "snapshot" -> Snapshot(c.snap)
    [] c.op = "rollback" -> Rollback(c.snap)
    [] c.op = "repair" -> << <<"mkdir", Dir>>, <<"repair">> >>
    [] c.op = "remove" -> << <<"unlink">> >>

-----------------------------------------------------------------------------
NoFiles == [f \in Paths |-> Absent]

Init ==
  /\ files = NoFiles
  /\ call = [p \in Procs |-> Idle]
  /\ todo = [p \in Procs |-> << >>]
  /\ before = [p \in Procs |-> NoFiles]
  /\ overlapped = {} /\ ragged = FALSE /\ calls = 0

Cost == IF Busy = {} THEN 2 ELSE 3

Begin(p, c) ==
  /\ call[p] = Idle /\ calls + Cost <= Budget
  /\ Admitted(c)
  /\ Busy # {} => c.op # "remove" /\ \A q \in Busy : call[q].op # "remove"
  /\ calls' = calls + Cost
  /\ call' = [call EXCEPT ![p] = c]
  /\ todo' = [todo EXCEPT ![p] = Steps(c)]
  /\ before' = [before EXCEPT ![p] = files]
  /\ overlapped' = IF Busy = {} THEN {} ELSE overlapped \cup Busy \cup {p}
  /\ UNCHANGED <<files, ragged>>

history == <<before, overlapped, ragged, calls>>

(* The next step of p has the given name; then it goes on with steps.      *)
NextStep(p, name) == todo[p] # << >> /\ todo[p][1][1] = name

Continue(p, steps) == todo' = [todo EXCEPT ![p] = steps \o Tail(@)]

MakeDir(p) ==
  /\ NextStep(p, "mkdir")
  /\ files' = [files EXCEPT ![todo[p][1][2]] = Empty]
  /\ Continue(p, << >>)
  /\ UNCHANGED <<call, history>>

OpenFile(p) ==
  /\ NextStep(p, "open")
  /\ files' = [files EXCEPT ![todo[p][1][2]] = Empty]
  /\ Continue(p, << >>)
  /\ UNCHANGED <<call, history>>

WriteFile(p) ==
  /\ NextStep(p, "write")
  /\ files' = [files EXCEPT ![todo[p][1][2]] = todo[p][1][3]]
  /\ Continue(p, << >>)
  /\ UNCHANGED <<call, history>>

(* Variant: the first file that is missing ends the copying.               *)
CopyFileStopping(p) ==
  /\ NextStep(p, "copy")
  /\ LET from == todo[p][1][2]  to == todo[p][1][3]
     IN  IF Has(from) THEN Continue(p, << <<"open", to>>, <<"read", from, to>> >>)
         ELSE todo' = [todo EXCEPT ![p] = << >>]
  /\ UNCHANGED <<files, call, history>>

(* snapshot and rollback copy a file only where there is one.              *)
CopyFile(p) ==
  /\ NextStep(p, "copy")
  /\ LET from == todo[p][1][2]  to == todo[p][1][3]
     IN  Continue(p, IF Has(from) THEN << <<"open", to>>, <<"read", from, to>> >> ELSE << >>)
  /\ UNCHANGED <<files, call, history>>

ReadFile(p) ==
  /\ NextStep(p, "read")
  /\ Continue(p, << <<"write", todo[p][1][3], files[todo[p][1][2]]>> >>)
  /\ UNCHANGED <<files, call, history>>

(* Variant: the point is saved where the loaded workspace belongs.         *)
ApplySwapped(p) ==
  /\ NextStep(p, "apply")
  /\ LET point == todo[p][1][2]
     IN  Continue(p, IF Has(App) THEN Save(App, point) \o << <<"activate", point>> >> ELSE << >>)
  /\ UNCHANGED <<files, call, history>>

(* profile_apply: app.conf first, then the active point; an import into a  *)
(* workspace that does not load ends here with what it has done.           *)
Apply(p) ==
  /\ NextStep(p, "apply")
  /\ LET point == todo[p][1][2]
     IN  Continue(p, IF Has(App)
                     THEN Save(App, [Load(files[App]) EXCEPT !.runner = point.runner])
                            \o << <<"activate", point>> >>
                     ELSE << >>)
  /\ UNCHANGED <<files, call, history>>

(* Variant: the label is made current without a profile of its own.        *)
ActivateUnsaved(p) ==
  /\ NextStep(p, "activate")
  /\ LET point == todo[p][1][2]
     IN  Continue(p, IF LabelOf(files[Current]) = point.label THEN << >> ELSE Save(Current, point))
  /\ UNCHANGED <<files, call, history>>

(* Variant: both files are opened, then both are written.                  *)
ActivateBothOpen(p) ==
  /\ NextStep(p, "activate")
  /\ LET point == todo[p][1][2]
     IN  Continue(p, IF LabelOf(files[Current]) = point.label THEN << >>
                     ELSE << <<"open", Profile(point.label)>>, <<"open", Current>>,
                             <<"write", Profile(point.label), point>>,
                             <<"write", Current, point>> >>)
  /\ UNCHANGED <<files, call, history>>

(* profile_apply saves the point and current.profile unless the active     *)
(* point has the same label.                                               *)
Activate(p) ==
  /\ NextStep(p, "activate")
  /\ LET point == todo[p][1][2]
     IN  Continue(p, IF LabelOf(files[Current]) = point.label THEN << >>
                     ELSE Save(Profile(point.label), point) \o Save(Current, point))
  /\ UNCHANGED <<files, call, history>>

(* repair, after the directories: app.conf where it is missing, and once   *)
(* that is saved prefix.conf where it is missing, and a shortcut where the *)
(* app.conf that was loaded does not mention one.                          *)
Repair(p) ==
  /\ NextStep(p, "repair")
  /\ LET w == IF Has(App) THEN Load(files[App]) ELSE Defaults
     IN  Continue(p, (IF Has(App) THEN << >> ELSE Save(App, w)) \o << <<"prefix", w>> >>)
  /\ UNCHANGED <<files, call, history>>

RepairPrefix(p) ==
  /\ NextStep(p, "prefix")
  /\ LET w == todo[p][1][2]
     IN  Continue(p, (IF Has(Prefix) THEN << >> ELSE Save(Prefix, "win10"))
                       \o (IF w.shortcut THEN << >> ELSE Save(App, [w EXCEPT !.shortcut = TRUE])))
  /\ UNCHANGED <<files, call, history>>

(* rm_rf takes the files in the order readdir has them, the directory last. *)
Unlink(p) ==
  /\ NextStep(p, "unlink")
  /\ LET left == {f \in Paths \ {Dir} : Has(f)}
     IN  \/ /\ \E f \in left : files' = [files EXCEPT ![f] = Absent]
            /\ UNCHANGED todo
         \/ /\ left = {}
            /\ files' = [files EXCEPT ![Dir] = Absent]
            /\ Continue(p, << >>)
  /\ UNCHANGED <<call, history>>

Leave(p) ==
  /\ call' = [call EXCEPT ![p] = Idle]
  /\ before' = [before EXCEPT ![p] = NoFiles]
  /\ overlapped' = overlapped \ {p}
  /\ UNCHANGED <<files, calls>>

Return(p) ==
  /\ call[p] # Idle /\ todo[p] = << >>
  /\ Leave(p)
  /\ UNCHANGED <<todo, ragged>>

Crash(p) ==
  /\ todo[p] # << >>
  /\ Leave(p)
  /\ todo' = [todo EXCEPT ![p] = << >>]
  /\ ragged' = (ragged \/ call[p].op = "remove")

Work ==
  \E p \in Procs :
    \/ \E c \in Calls : Begin(p, c)
    \/ MakeDir(p) \/ OpenFile(p) \/ WriteFile(p) \/ CopyFile(p) \/ ReadFile(p)
    \/ Apply(p) \/ Activate(p) \/ Repair(p) \/ RepairPrefix(p) \/ Unlink(p)
    \/ Return(p)

Next == Work \/ \E p \in Procs : Crash(p)

Spec == Init /\ [][Next]_vars

(* The same without crashes.                                               *)
CalmSpec == Init /\ [][Work]_vars

-----------------------------------------------------------------------------
(* Types: each file holds what its own writers put there, or is truncated  *)
(* or missing: no call ever leaves one kind of text in the file of another.*)
TypeOK ==
  /\ files[App] \in Settings \cup {Absent, Empty}
  /\ files[Prefix] \in Modes \cup {Absent, Empty}
  /\ files[Current] \in Points \cup {Absent, Empty}
  /\ \A l \in Labels : files[Profile(l)] \in Points \cup {Absent, Empty}
  /\ call \in [Procs -> Calls \cup {Idle}]
  /\ overlapped \subseteq Procs /\ ragged \in BOOLEAN /\ calls \in 0..Budget

(* The active point is always a saved one: profile_apply saves the profile *)
(* of a label before it makes that label current, and a rollback can only  *)
(* bring back a label that still has its file; so with any overlapping     *)
(* calls and a crash after any step, short of a remove cut short.          *)
CurrentListed ==
  (~ragged /\ (\A p \in Procs : call[p].op # "remove") /\ LabelOf(files[Current]) # Unset)
    => Has(Profile(LabelOf(files[Current])))

(* What a call is to do to the files when nothing comes between.  "Apply a *)
(* profile point to the workspace and set it as current" (workspace.h).    *)
AfterApply(f, point) ==
  IF f[App] = Absent THEN f
  ELSE [f EXCEPT ![App] = [Load(@) EXCEPT !.runner = point.runner],
                 ![Profile(point.label)] = point, ![Current] = point]

Effect(c, f) ==
  CASE c.op = "install" ->
         [f EXCEPT ![Dir] = Empty, ![Prefix] = "win10",
                   ![App] = [Defaults EXCEPT !.shortcut = TRUE]]
    [] c.op = "set" -> [f EXCEPT ![App] = [Load(@) EXCEPT !.runner = c.runner]]
    [] c.op = "mode" -> [f EXCEPT ![Prefix] = c.mode]
    [] c.op = "save" -> [f EXCEPT ![Dir] = Empty, ![Profile(c.point.label)] = c.point]
    [] c.op = "apply" -> AfterApply(f, c.point)
    [] c.op = "import" ->
         AfterApply([f EXCEPT ![Dir] = Empty, ![Profile(c.point.label)] = c.point], c.point)
    [] c.op = "snapshot" ->
         [g \in Paths |->
            IF \E s \in Saved : g = Snap(c.snap, s) /\ f[s] # Absent
            THEN f[CHOOSE s \in Saved : g = Snap(c.snap, s)]
            ELSE IF g = SnapDir(c.snap) THEN Empty
            ELSE IF g = SnapLabel(c.snap) THEN c.snap ELSE f[g]]
    [] c.op = "rollback" ->
         [g \in Paths |->
            IF g \in Saved /\ f[Snap(c.snap, g)] # Absent THEN f[Snap(c.snap, g)] ELSE f[g]]
    [] c.op = "repair" ->
         [f EXCEPT ![Dir] = Empty,
                   ![Prefix] = IF @ = Absent THEN "win10" ELSE @,
                   ![App] = [IF @ = Absent THEN Defaults ELSE Load(@) EXCEPT !.shortcut = TRUE]]
    [] c.op = "remove" -> [g \in Paths |-> Absent]

(* What an apply under the label that is current already may leave as it   *)
(* was, though the point has changed: profile_apply compares only labels.  *)
LeftAlone(c, f) ==
  IF c.op \in {"apply", "import"} /\ LabelOf(f[Current]) = c.point.label
  THEN IF c.op = "apply" THEN {Current, Profile(c.point.label)}
       ELSE {Current} \ {Profile(c.point.label)}
  ELSE {}

(* A call that no other call overlaps, once it has returned, has done all  *)
(* of what it is for and nothing else, through all of its file steps: set  *)
(* changes the one field, snapshot and rollback move those of the three    *)
(* files that are there, import and apply leave app.conf, the profile and  *)
(* the active point in agreement.  Excepted are the profile and the active *)
(* point of an apply under the label that is current already: each of them *)
(* is the new point or what it was.                                        *)
CallsAreAtomic ==
  \A p \in Busy \ overlapped : todo[p] = << >> =>
    \A f \in Paths : \/ files[f] = Effect(call[p], before[p])[f]
                     \/ f \in LeftAlone(call[p], before[p]) /\ files[f] = before[p][f]

(* A crash costs at most one file: whatever step of a call the process is  *)
(* killed after, at most one of the files that the call does not itself    *)
(* copy empty is truncated, as each save is complete before the next.      *)
Texts == Paths \ ({Dir} \cup {SnapDir(s) : s \in Snaps})

CrashCostsOneFile ==
  \A p \in Busy \ overlapped :
    Cardinality({f \in Texts : /\ files[f] = Empty /\ before[p][f] # Empty
                              /\ Effect(call[p], before[p])[f] # Empty}) <= 1

(* WINALTOR.md: imported profiles "are marked `community` and never        *)
(* silently overwrite local profiles".  No step of an import changes the   *)
(* file of a local profile.                                                *)
ImportKeepsLocal ==
  [][\A p \in Procs, l \in Labels :
       (/\ call[p].op = "import" /\ todo'[p] # todo[p]
        /\ LabelOf(files[Profile(l)]) # Unset /\ files[Profile(l)].trust = "local")
         => files'[Profile(l)] = files[Profile(l)]]_vars

(* ARCHITECTURE.md: a snapshot "copies `app.conf`, `prefix.conf`, and the  *)
(* active profile"; "rollback restores those three".  After a rollback to  *)
(* a snapshot that was completed, the three files are the snapshot's.      *)
RollbackRestores ==
  \A p \in Busy \ overlapped, s \in Snaps :
    (call[p] = [op |-> "rollback", snap |-> s] /\ todo[p] = << >> /\ Has(SnapLabel(s)))
      => \A f \in Saved : files[f] = files[Snap(s, f)]
=============================================================================
