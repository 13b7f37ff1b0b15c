--------------------------- MODULE WorkspaceProofs ---------------------------
(***************************************************************************)
(* Proofs about Workspace, for every set of processes, labels, snapshots   *)
(* and runners and any number of calls, overlapping and killed.            *)
(***************************************************************************)
EXTENDS Workspace, SequenceTheorems, FiniteSetTheorems, TLAPS

(* What belongs in each file.                                              *)
Kept(h) == {h} \cup {Snap(s, h) : s \in Snaps}
PointFiles == Kept(Current)

Listable == PointFiles \cup {Profile(l) : l \in Labels}
LabelFiles == {SnapLabel(s) : s \in Snaps}

Kind(f) ==
  IF f \in Kept(App) THEN Settings
  ELSE IF f \in Kept(Prefix) THEN Modes
  ELSE IF f \in Listable THEN Points
  ELSE IF f \in LabelFiles THEN Snaps ELSE {}

AnyContent == {Absent, Empty} \cup Settings \cup Modes \cup Points \cup Snaps

FilesTyped(g) ==
  g \in [Paths -> AnyContent] /\ \A f \in Paths : g[f] \in Kind(f) \cup {Empty, Absent}

(* The steps that calls are made of.                                       *)
Dirs == {Dir} \cup {SnapDir(s) : s \in Snaps}
CopyPair(f, g) ==
  \E s \in Snaps, h \in Saved :
    \/ f = h /\ g = Snap(s, h)
    \/ f = Snap(s, h) /\ g = h

Copies(name) == {c \in {name} \X Paths \X Paths : CopyPair(c[2], c[3])}
Writes == {c \in {"write"} \X Paths \X AnyContent : c[3] \in Kind(c[2]) \cup {Empty}}
FileSteps ==
  {<<"mkdir", d>> : d \in Dirs} \cup {<<"open", f>> : f \in Paths}
    \cup Writes \cup Copies("copy") \cup Copies("read")
    \cup {<<"apply", point>> : point \in Points} \cup {<<"activate", point>> : point \in Points}
    \cup {<<"prefix", w>> : w \in Settings} \cup {<<"repair">>, <<"unlink">>}

TypeInv ==
  /\ FilesTyped(files)
  /\ call \in [Procs -> Calls \cup {Idle}]
  /\ todo \in [Procs -> Seq(FileSteps)]
  /\ overlapped \subseteq Procs /\ ragged \in BOOLEAN /\ calls \in 0..Budget

-----------------------------------------------------------------------------
LEMMA PathNames ==
  /\ App # Prefix /\ App # Current /\ Prefix # Current
  /\ Dir # App /\ Dir # Prefix /\ Dir # Current
  /\ \A l : Profile(l) # App /\ Profile(l) # Prefix /\ Profile(l) # Dir
            /\ (Profile(l) = Current <=> l = "current")
  /\ \A l, k : Profile(l) = Profile(k) => l = k
  /\ \A s : \A h \in Saved :
       /\ Snap(s, h) \notin Saved /\ Snap(s, h) # Dir
       /\ \A l : Snap(s, h) # Profile(l)
       /\ \A r : Snap(s, h) # SnapDir(r) /\ Snap(s, h) # SnapLabel(r)
       /\ \A r : \A k \in Saved : Snap(s, h) = Snap(r, k) => s = r /\ h = k
  /\ \A s, r : /\ SnapDir(s) # SnapLabel(r) /\ SnapDir(s) # Dir /\ SnapLabel(s) # Dir
               /\ SnapDir(s) \notin Saved /\ SnapLabel(s) \notin Saved
               /\ \A l : SnapDir(s) # Profile(l) /\ SnapLabel(s) # Profile(l)
               /\ SnapDir(s) = SnapDir(r) => s = r
               /\ SnapLabel(s) = SnapLabel(r) => s = r
<1>1. /\ App[1] = "app.conf" /\ Prefix[1] = "prefix.conf" /\ Current[1] = "current.profile"
      /\ Dir[1] = "dir" /\ Len(App) = 1 /\ Len(Prefix) = 1 /\ Len(Current) = 1 /\ Len(Dir) = 1
  BY DEF App, Prefix, Current, Dir
<1>2. \A l : l # "current" => Profile(l)[1] = "profile" /\ Profile(l)[2] = l /\ Len(Profile(l)) = 2
  BY DEF Profile
<1>3. Profile("current") = Current
  BY DEF Profile
<1>4. \A s, h : /\ Snap(s, h)[1] = "snapshot" /\ Snap(s, h)[2] = s /\ Snap(s, h)[3] = h[1]
                /\ Len(Snap(s, h)) = 3
  BY DEF Snap
<1>5. \A s : /\ SnapDir(s)[1] = "snapshot" /\ SnapDir(s)[2] = s /\ SnapDir(s)[3] = "dir"
             /\ SnapLabel(s)[1] = "snapshot" /\ SnapLabel(s)[2] = s /\ SnapLabel(s)[3] = "label.txt"
             /\ Len(SnapDir(s)) = 3 /\ Len(SnapLabel(s)) = 3
  BY DEF SnapDir, SnapLabel
<1>6. \A h : h \in Saved <=> h = App \/ h = Prefix \/ h = Current
  BY DEF Saved
<1> QED
  BY <1>1, <1>2, <1>3, <1>4, <1>5, <1>6

LEMMA KindOf ==
  /\ \A f : f \in Kept(App) => Kind(f) = Settings
  /\ \A f : f \in Kept(Prefix) => Kind(f) = Modes
  /\ \A f : f \in PointFiles => Kind(f) = Points
  /\ \A l \in Labels : Kind(Profile(l)) = Points
  /\ \A s \in Snaps : Kind(SnapLabel(s)) = Snaps
  /\ \A d \in Dirs : Kind(d) = {}
<1>1. \A h : \A f : f \in Kept(h) <=> f = h \/ \E s \in Snaps : f = Snap(s, h)
  BY DEF Kept
<1>2. \A h : h \in Saved <=> h = App \/ h = Prefix \/ h = Current
  BY DEF Saved
<1>3. \A f : f \in Kept(Prefix) => f \notin Kept(App)
  BY <1>1, <1>2, PathNames
<1>4. \A f : f \in Listable => f \notin Kept(App) /\ f \notin Kept(Prefix)
  BY <1>1, <1>2, PathNames DEF PointFiles, Listable
<1>5. \A f : f \in LabelFiles => f \notin Kept(App) /\ f \notin Kept(Prefix) /\ f \notin Listable
  BY <1>1, <1>2, PathNames DEF PointFiles, Listable, LabelFiles
<1>6. \A d \in Dirs : /\ d \notin Kept(App) /\ d \notin Kept(Prefix)
                     /\ d \notin Listable /\ d \notin LabelFiles
  BY <1>1, <1>2, PathNames DEF PointFiles, Listable, LabelFiles, Dirs
<1>7. /\ \A f \in PointFiles : f \in Listable
      /\ \A l \in Labels : Profile(l) \in Listable
      /\ \A s \in Snaps : SnapLabel(s) \in LabelFiles
  BY DEF Listable, LabelFiles
<1> QED
  BY <1>3, <1>4, <1>5, <1>6, <1>7 DEF Kind

LEMMA StepForms ==
  ASSUME NEW s \in FileSteps
  PROVE  /\ s[1] = "mkdir" => s[2] \in Dirs
         /\ s[1] = "open" => s[2] \in Paths
         /\ s[1] = "write" => s[2] \in Paths /\ s[3] \in Kind(s[2]) \cup {Empty}
         /\ s[1] \in {"copy", "read"} => s[2] \in Paths /\ s[3] \in Paths /\ CopyPair(s[2], s[3])
         /\ s[1] \in {"apply", "activate"} => s[2] \in Points
         /\ s[1] = "prefix" => s[2] \in Settings
         /\ s[1] = "unlink" => s = <<"unlink">>
<1>1. \A name : \A c \in Copies(name) :
        c[1] = name /\ c[2] \in Paths /\ c[3] \in Paths /\ CopyPair(c[2], c[3])
  BY DEF Copies
<1>2. CASE s \in Copies("copy") \cup Copies("read")
  BY <1>1, <1>2
<1>3. CASE \E d \in Dirs : s = <<"mkdir", d>>
  BY <1>3
<1>4. CASE \E f \in Paths : s = <<"open", f>>
  BY <1>4
<1>5. CASE s \in Writes
  BY <1>5 DEF Writes
<1>6. CASE \E point \in Points : s = <<"apply", point>> \/ s = <<"activate", point>>
  BY <1>6
<1>7. CASE s = <<"repair">> \/ s = <<"unlink">>
  BY <1>7
<1>8. CASE \E w \in Settings : s = <<"prefix", w>>
  BY <1>8
<1> QED
  BY <1>2, <1>3, <1>4, <1>5, <1>6, <1>7, <1>8 DEF FileSteps

LEMMA KindTyped == \A f : Kind(f) \cup {Empty, Absent} \subseteq AnyContent
BY DEF Kind, AnyContent

LEMMA StepsThere ==
  /\ \A d \in Dirs : <<"mkdir", d>> \in FileSteps
  /\ \A f \in Paths : <<"open", f>> \in FileSteps
  /\ \A f \in Paths : \A v \in Kind(f) \cup {Empty} : <<"write", f, v>> \in FileSteps
  /\ \A f \in Paths, g \in Paths :
       CopyPair(f, g) => <<"copy", f, g>> \in FileSteps /\ <<"read", f, g>> \in FileSteps
  /\ \A point \in Points : <<"apply", point>> \in FileSteps /\ <<"activate", point>> \in FileSteps
  /\ \A w \in Settings : <<"prefix", w>> \in FileSteps
  /\ <<"repair">> \in FileSteps /\ <<"unlink">> \in FileSteps
<1>1. \A f \in Paths, g \in Paths : \A name : CopyPair(f, g) => <<name, f, g>> \in Copies(name)
  BY DEF Copies
<1>2. \A f \in Paths : \A v \in Kind(f) \cup {Empty} : <<"write", f, v>> \in Writes
  BY KindTyped DEF Writes
<1> QED
  BY <1>1, <1>2 DEF FileSteps

LEMMA PathsThere ==
  /\ Saved \subseteq Paths /\ Dirs \subseteq Paths
  /\ \A l \in Labels : Profile(l) \in Paths
  /\ \A s \in Snaps : /\ SnapDir(s) \in Dirs /\ SnapLabel(s) \in Paths
                     /\ \A h \in Saved : Snap(s, h) \in Paths /\ Kind(Snap(s, h)) = Kind(h)
  /\ App \in Saved /\ Prefix \in Saved /\ Current \in Saved /\ Dir \in Dirs
<1>1. App \in Saved /\ Prefix \in Saved /\ Current \in Saved
  BY DEF Saved
<1>2. /\ Saved \subseteq Paths /\ Dirs \subseteq Paths
      /\ \A l \in Labels : Profile(l) \in Paths
      /\ \A s \in Snaps : /\ SnapDir(s) \in Dirs /\ SnapLabel(s) \in Paths
                         /\ \A h \in Saved : Snap(s, h) \in Paths
  BY DEF Paths, Dirs
<1>3. \A s \in Snaps : \A h \in Saved : Kind(Snap(s, h)) = Kind(h)
  <2>1. \A h : h \in Kept(h) /\ \A s \in Snaps : Snap(s, h) \in Kept(h)
    BY DEF Kept
  <2>2. \A h : h \in Saved <=> h = App \/ h = Prefix \/ h = Current
    BY DEF Saved
  <2> QED
    BY <2>1, <2>2, KindOf DEF PointFiles
<1> QED
  BY <1>1, <1>2, <1>3 DEF Dirs

LEMMA SaveSteps ==
  ASSUME NEW f \in Paths, NEW v \in Kind(f)
  PROVE  Save(f, v) \in Seq(FileSteps)
<1>1. <<"open", f>> \in FileSteps /\ <<"write", f, v>> \in FileSteps
  BY StepsThere
<1>2. PICK a, b : a = <<"open", f>> /\ b = <<"write", f, v>>
  OBVIOUS
<1>3. <<a, b>> \in Seq(FileSteps)
  BY <1>1, <1>2
<1> QED
  BY <1>2, <1>3 DEF Save

LEMMA TwoParts ==
  ASSUME NEW a \in Seq(FileSteps), NEW b \in Seq(FileSteps)
  PROVE  a \o b \in Seq(FileSteps)
OBVIOUS

LEMMA OneStep ==
  ASSUME NEW s \in FileSteps
  PROVE  << s >> \in Seq(FileSteps)
OBVIOUS

LEMMA CopyKinds ==
  ASSUME NEW f, NEW g, CopyPair(f, g)
  PROVE  Kind(f) = Kind(g) /\ (g \in PointFiles => f \in PointFiles)
<1>1. \A h \in Saved, s \in Snaps : h \in PointFiles <=> Snap(s, h) \in PointFiles
  BY PathNames, PathsThere DEF PointFiles, Kept
<1> QED
  BY <1>1, PathsThere DEF CopyPair

Ops == {"install", "remove", "repair", "set", "mode", "save", "apply", "import", "snapshot", "rollback"}

LEMMA CallFields ==
  ASSUME NEW c \in Calls
  PROVE  /\ c.op \in Ops
         /\ c.op \in {"save", "apply", "import"} => c.point \in Points
         /\ c.op = "set" => c.runner \in Runners
         /\ c.op = "mode" => c.mode \in Modes
         /\ c.op \in {"snapshot", "rollback"} => c.snap \in Snaps
         /\ c # Idle
<1>1. CASE c \in [op : {"install", "remove", "repair"}]
  BY <1>1 DEF Ops, Idle
<1>2. CASE c \in [op : {"set"}, runner : Runners]
  BY <1>2 DEF Ops, Idle
<1>3. CASE c \in [op : {"mode"}, mode : Modes]
  BY <1>3 DEF Ops, Idle
<1>4. CASE c \in [op : {"save", "apply"}, point : [label : Labels, runner : Runners, trust : {"local"}]]
  BY <1>4 DEF Ops, Idle, Points
<1>5. CASE c \in [op : {"import"}, point : [label : Labels, runner : Runners, trust : {"community"}]]
  BY <1>5 DEF Ops, Idle, Points
<1>6. CASE c \in [op : {"snapshot", "rollback"}, snap : Snaps]
  BY <1>6 DEF Ops, Idle
<1> QED
  BY <1>1, <1>2, <1>3, <1>4, <1>5, <1>6 DEF Calls

LEMMA StepsByName ==
  ASSUME NEW c \in Calls
  PROVE  /\ c.op = "install" => Steps(c) = Install
         /\ c.op = "set" => Steps(c) = SetField(c.runner)
         /\ c.op = "mode" => Steps(c) = SetConfig(c.mode)
         /\ c.op = "save" => Steps(c) = ProfileSave(c.point)
         /\ c.op = "apply" => Steps(c) = ProfileApply(c.point)
         /\ c.op = "import" => Steps(c) = ProfileImport(c.point)
         /\ c.op = "snapshot" => Steps(c) = Snapshot(c.snap)
         /\ c.op = "rollback" => Steps(c) = Rollback(c.snap)
         /\ c.op = "repair" => Steps(c) = << <<"mkdir", Dir>>, <<"repair">> >>
         /\ c.op = "remove" => Steps(c) = << <<"unlink">> >>
BY DEF Steps

LEMMA LoadTyped ==
  ASSUME NEW v \in Settings \cup {Empty}, NEW r \in Runners
  PROVE  /\ Load(v) \in Settings /\ [Load(v) EXCEPT !.runner = r] \in Settings
         /\ [Load(v) EXCEPT !.shortcut = TRUE] \in Settings
BY DEF Load, Settings

LEMMA DefaultsTyped ==
  Defaults \in Settings /\ [Defaults EXCEPT !.shortcut = TRUE] \in Settings
BY WorkspaceAssumption DEF Defaults, Settings

LEMMA HasApp ==
  ASSUME FilesTyped(files), Has(App)
  PROVE  files[App] \in Settings \cup {Empty}
<1>1. Kind(App) = Settings
  BY KindOf DEF Kept
<1> QED
  BY <1>1, PathsThere DEF FilesTyped, Has

LEMMA StepsTyped ==
  ASSUME TypeInv, NEW c \in Calls, Admitted(c)
  PROVE  Steps(c) \in Seq(FileSteps)
<1>1. /\ App \in Paths /\ Prefix \in Paths /\ Current \in Paths /\ Dir \in Dirs
      /\ Kind(App) = Settings /\ Kind(Prefix) = Modes /\ Kind(Current) = Points
      /\ \A l \in Labels : Profile(l) \in Paths /\ Kind(Profile(l)) = Points
      /\ \A s \in Snaps : SnapDir(s) \in Dirs /\ SnapLabel(s) \in Paths /\ Kind(SnapLabel(s)) = Snaps
  BY KindOf, PathsThere DEF Kept, PointFiles
<1>2. \A d \in Dirs : << <<"mkdir", d>> >> \in Seq(FileSteps)
  BY StepsThere, OneStep
<1>3. \A point \in Points :
        /\ ProfileSave(point) \in Seq(FileSteps) /\ ProfileApply(point) \in Seq(FileSteps)
  <2>1. ASSUME NEW point \in Points
        PROVE  point.label \in Labels /\ Save(Profile(point.label), point) \in Seq(FileSteps)
    BY <1>1, SaveSteps DEF Points
  <2>2. \A point \in Points : << <<"apply", point>> >> \in Seq(FileSteps)
    BY StepsThere, OneStep
  <2> QED
    BY <1>1, <1>2, <2>1, <2>2, TwoParts, Zenon DEF ProfileSave, ProfileApply
<1>4. \A s \in Snaps : \A h \in Saved :
        /\ <<"copy", h, Snap(s, h)>> \in FileSteps /\ <<"copy", Snap(s, h), h>> \in FileSteps
  <2>1. ASSUME NEW s \in Snaps, NEW h \in Saved
        PROVE  /\ CopyPair(h, Snap(s, h)) /\ CopyPair(Snap(s, h), h)
               /\ h \in Paths /\ Snap(s, h) \in Paths
    BY PathsThere DEF CopyPair
  <2> QED
    BY <2>1, StepsThere
<1>5. CASE c.op = "install"
  <2>1. Save(Prefix, "win10") \in Seq(FileSteps)
    BY <1>1, SaveSteps DEF Modes
  <2>2. Save(App, Defaults) \in Seq(FileSteps)
    BY <1>1, SaveSteps, DefaultsTyped
  <2>3. Save(App, [Defaults EXCEPT !.shortcut = TRUE]) \in Seq(FileSteps)
    BY <1>1, SaveSteps, DefaultsTyped
  <2>4. Install \in Seq(FileSteps)
    BY <1>1, <1>2, <2>1, <2>2, <2>3, TwoParts, Zenon DEF Install
  <2> QED
    BY <1>5, <2>4, StepsByName
<1>6. CASE c.op = "set"
  <2>1. Has(App)
    BY <1>6 DEF Admitted
  <2>2. [Load(files[App]) EXCEPT !.runner = c.runner] \in Settings
    BY <1>6, <2>1, CallFields, HasApp, LoadTyped DEF TypeInv
  <2>3. SetField(c.runner) \in Seq(FileSteps)
    BY <1>1, <2>2, SaveSteps DEF SetField
  <2> QED
    BY <1>6, <2>3, StepsByName
<1>7. CASE c.op = "mode"
  <2>1. SetConfig(c.mode) \in Seq(FileSteps)
    BY <1>1, <1>7, CallFields, SaveSteps DEF SetConfig
  <2> QED
    BY <1>7, <2>1, StepsByName
<1>8. CASE c.op = "save" \/ c.op = "apply"
  BY <1>3, <1>8, CallFields, StepsByName
<1>9. CASE c.op = "import"
  <2>1. ProfileImport(c.point) \in Seq(FileSteps)
    BY <1>3, <1>9, CallFields, TwoParts DEF ProfileImport
  <2> QED
    BY <1>9, <2>1, StepsByName
<1>10. CASE c.op = "snapshot"
  <2>1. PICK s \in Snaps : s = c.snap
    BY <1>10, CallFields
  <2>2. Save(SnapLabel(s), s) \in Seq(FileSteps)
    BY <1>1, SaveSteps
  <2>3. PICK a, b, d, e : /\ a = <<"mkdir", SnapDir(s)>> /\ b = <<"copy", App, Snap(s, App)>>
                          /\ d = <<"copy", Prefix, Snap(s, Prefix)>>
                          /\ e = <<"copy", Current, Snap(s, Current)>>
    OBVIOUS
  <2>4. a \in FileSteps /\ b \in FileSteps /\ d \in FileSteps /\ e \in FileSteps
    BY <1>1, <1>4, <2>3, StepsThere, PathsThere
  <2>5. <<a, b, d, e>> \in Seq(FileSteps)
    BY <2>4
  <2>6. Snapshot(s) = <<a, b, d, e>> \o Save(SnapLabel(s), s)
    BY <2>3 DEF Snapshot
  <2> QED
    BY <1>10, <2>1, <2>2, <2>5, <2>6, TwoParts, StepsByName
<1>11. CASE c.op = "rollback"
  <2>1. PICK s \in Snaps : s = c.snap
    BY <1>11, CallFields
  <2>3. PICK b, d, e : /\ b = <<"copy", Snap(s, App), App>> /\ d = <<"copy", Snap(s, Prefix), Prefix>>
                       /\ e = <<"copy", Snap(s, Current), Current>>
    OBVIOUS
  <2>4. b \in FileSteps /\ d \in FileSteps /\ e \in FileSteps
    BY <1>4, <2>3, PathsThere
  <2>5. <<b, d, e>> \in Seq(FileSteps)
    BY <2>4
  <2>6. Rollback(s) = <<b, d, e>>
    BY <2>3 DEF Rollback
  <2> QED
    BY <1>11, <2>1, <2>5, <2>6, StepsByName
<1>12. CASE c.op = "repair"
  <2>1. PICK a, b : a = <<"mkdir", Dir>> /\ b = <<"repair">>
    OBVIOUS
  <2>2. a \in FileSteps /\ b \in FileSteps
    BY <1>1, <2>1, StepsThere
  <2>3. <<a, b>> \in Seq(FileSteps)
    BY <2>2
  <2> QED
    BY <1>12, <2>1, <2>3, StepsByName
<1>13. CASE c.op = "remove"
  BY <1>13, StepsByName, StepsThere, OneStep
<1> QED
  BY <1>5, <1>6, <1>7, <1>8, <1>9, <1>10, <1>11, <1>12, <1>13, CallFields DEF Ops

-----------------------------------------------------------------------------
LEMMA HeadStep ==
  ASSUME TypeInv, NEW p \in Procs, todo[p] # << >>
  PROVE  todo[p][1] \in FileSteps /\ Tail(todo[p]) \in Seq(FileSteps)
<1>1. todo[p] \in Seq(FileSteps)
  BY DEF TypeInv
<1> QED
  BY <1>1

LEMMA Continued ==
  ASSUME TypeInv, NEW p \in Procs, todo[p] # << >>, NEW steps \in Seq(FileSteps), Continue(p, steps)
  PROVE  todo' \in [Procs -> Seq(FileSteps)]
<1>1. PICK rest \in Seq(FileSteps) : rest = Tail(todo[p])
  BY HeadStep
<1>2. steps \o rest \in Seq(FileSteps)
  BY TwoParts
<1>3. todo' = [todo EXCEPT ![p] = steps \o rest]
  BY <1>1 DEF Continue
<1> QED
  BY <1>2, <1>3 DEF TypeInv

LEMMA FilesExcept ==
  ASSUME FilesTyped(files), NEW f \in Paths, NEW v \in Kind(f) \cup {Empty, Absent},
         files' = [files EXCEPT ![f] = v]
  PROVE  FilesTyped(files')
BY KindTyped DEF FilesTyped

LEMMA TypeInit == Init => TypeInv
<1> SUFFICES ASSUME Init
             PROVE  TypeInv
  OBVIOUS
<1>1. /\ files = NoFiles /\ call = [p \in Procs |-> Idle] /\ todo = [p \in Procs |-> << >>]
      /\ overlapped = {} /\ ragged = FALSE /\ calls = 0
  BY DEF Init
<1>2. FilesTyped(files)
  BY <1>1 DEF FilesTyped, NoFiles, AnyContent
<1>3. << >> \in Seq(FileSteps)
  OBVIOUS
<1>4. call \in [Procs -> Calls \cup {Idle}]
  BY <1>1
<1>5. todo \in [Procs -> Seq(FileSteps)]
  BY <1>1, <1>3
<1>6. calls \in 0..Budget
  BY <1>1, WorkspaceAssumption
<1> QED
  BY <1>1, <1>2, <1>4, <1>5, <1>6 DEF TypeInv

(* A step of a call that writes at most one file and goes on.              *)
LEMMA WorkTyped ==
  ASSUME TypeInv, NEW p \in Procs, todo[p] # << >>, NEW steps \in Seq(FileSteps),
         Continue(p, steps), FilesTyped(files'), UNCHANGED <<call, history>>
  PROVE  TypeInv'
<1>1. todo' \in [Procs -> Seq(FileSteps)]
  BY Continued
<1> QED
  BY <1>1 DEF TypeInv, history

LEMMA FileTyped ==
  ASSUME TypeInv, NEW p \in Procs, MakeDir(p) \/ OpenFile(p) \/ WriteFile(p)
  PROVE  TypeInv'
<1>1. PICK s \in FileSteps : s = todo[p][1] /\ todo[p] # << >>
  BY HeadStep, Zenon DEF MakeDir, OpenFile, WriteFile, NextStep
<1>2. << >> \in Seq(FileSteps)
  OBVIOUS
<1>3. s[1] \in {"mkdir", "open", "write"} /\ Continue(p, << >>) /\ UNCHANGED <<call, history>>
  BY <1>1 DEF MakeDir, OpenFile, WriteFile, NextStep
<1>4. s[2] \in Paths
  BY <1>3, StepForms, PathsThere
<1>5. PICK v \in Kind(s[2]) \cup {Empty, Absent} : files' = [files EXCEPT ![s[2]] = v]
  <2>1. CASE MakeDir(p) \/ OpenFile(p)
    BY <1>1, <2>1 DEF MakeDir, OpenFile
  <2>2. CASE WriteFile(p)
    BY <1>1, <2>2, StepForms DEF WriteFile, NextStep
  <2> QED
    BY <2>1, <2>2
<1>6. FilesTyped(files')
  BY <1>4, <1>5, FilesExcept DEF TypeInv
<1> QED
  BY <1>1, <1>2, <1>3, <1>6, WorkTyped

LEMMA CopyTyped ==
  ASSUME TypeInv, NEW p \in Procs, CopyFile(p)
  PROVE  TypeInv'
<1>1. PICK s \in FileSteps : s = todo[p][1] /\ todo[p] # << >> /\ s[1] = "copy"
  BY HeadStep DEF CopyFile, NextStep
<1>2. PICK f \in Paths, g \in Paths : f = s[2] /\ g = s[3] /\ CopyPair(f, g)
  BY <1>1, StepForms
<1>3. PICK a, b : a = <<"open", g>> /\ b = <<"read", f, g>>
  OBVIOUS
<1>4. a \in FileSteps /\ b \in FileSteps
  BY <1>2, <1>3, StepsThere
<1>5. <<a, b>> \in Seq(FileSteps) /\ << >> \in Seq(FileSteps)
  BY <1>4
<1>6. /\ Continue(p, IF Has(f) THEN <<a, b>> ELSE << >>)
      /\ files' = files /\ UNCHANGED <<call, history>>
  BY <1>1, <1>2, <1>3 DEF CopyFile
<1>7. FilesTyped(files')
  BY <1>6 DEF TypeInv
<1> QED
  BY <1>1, <1>5, <1>6, <1>7, WorkTyped

(* What is read is what its target may hold, and is there.                 *)
ReadsPresent ==
  \A p \in Procs : \A i \in DOMAIN todo[p] : todo[p][i][1] = "read" => Has(todo[p][i][2])

LEMMA ReadTyped ==
  ASSUME TypeInv, ReadsPresent, NEW p \in Procs, ReadFile(p)
  PROVE  TypeInv'
<1>1. PICK s \in FileSteps : s = todo[p][1] /\ todo[p] # << >> /\ s[1] = "read"
  BY HeadStep DEF ReadFile, NextStep
<1>2. PICK f \in Paths, g \in Paths : f = s[2] /\ g = s[3] /\ CopyPair(f, g)
  BY <1>1, StepForms
<1>3. PICK b : b = <<"write", g, files[f]>>
  OBVIOUS
<1>4. Has(f)
  <2>1. todo[p] \in Seq(FileSteps)
    BY DEF TypeInv
  <2>2. 1 \in DOMAIN todo[p]
    BY <1>1, <2>1
  <2> QED
    BY <1>1, <1>2, <2>2 DEF ReadsPresent
<1>5. files[f] \in Kind(g) \cup {Empty}
  BY <1>2, <1>4, CopyKinds DEF TypeInv, FilesTyped, Has
<1>6. << b >> \in Seq(FileSteps)
  BY <1>3, <1>5, StepsThere, OneStep
<1>7. /\ Continue(p, << b >>) /\ files' = files /\ UNCHANGED <<call, history>>
  BY <1>1, <1>2, <1>3 DEF ReadFile
<1>8. FilesTyped(files')
  BY <1>7 DEF TypeInv
<1> QED
  BY <1>1, <1>6, <1>7, <1>8, WorkTyped

LEMMA ApplyTyped ==
  ASSUME TypeInv, NEW p \in Procs, Apply(p)
  PROVE  TypeInv'
<1>1. PICK s \in FileSteps : s = todo[p][1] /\ todo[p] # << >> /\ s[1] = "apply"
  BY HeadStep DEF Apply, NextStep
<1>2. PICK point \in Points : point = s[2]
  BY <1>1, StepForms
<1>3. PICK v : v = [Load(files[App]) EXCEPT !.runner = point.runner]
  OBVIOUS
<1>4. Has(App) => v \in Settings
  BY <1>3, HasApp, LoadTyped DEF TypeInv, Points
<1>5. Has(App) => Save(App, v) \in Seq(FileSteps)
  <2>1. Kind(App) = Settings /\ App \in Paths
    BY KindOf, PathsThere DEF Kept
  <2> QED
    BY <1>4, <2>1, SaveSteps
<1>6. << <<"activate", point>> >> \in Seq(FileSteps)
  BY StepsThere, OneStep
<1>7. Has(App) => Save(App, v) \o << <<"activate", point>> >> \in Seq(FileSteps)
  BY <1>5, <1>6, TwoParts
<1>8. /\ Continue(p, IF Has(App) THEN Save(App, v) \o << <<"activate", point>> >> ELSE << >>)
      /\ files' = files /\ UNCHANGED <<call, history>>
  BY <1>1, <1>2, <1>3 DEF Apply
<1>9. FilesTyped(files')
  BY <1>8 DEF TypeInv
<1>10. << >> \in Seq(FileSteps)
  OBVIOUS
<1> QED
  BY <1>1, <1>7, <1>8, <1>9, <1>10, WorkTyped

LEMMA ActivateTyped ==
  ASSUME TypeInv, NEW p \in Procs, Activate(p)
  PROVE  TypeInv'
<1>1. PICK s \in FileSteps : s = todo[p][1] /\ todo[p] # << >> /\ s[1] = "activate"
  BY HeadStep DEF Activate, NextStep
<1>2. PICK point \in Points : point = s[2]
  BY <1>1, StepForms
<1>3. Save(Profile(point.label), point) \o Save(Current, point) \in Seq(FileSteps)
  <2>1. /\ point.label \in Labels /\ Kind(Current) = Points /\ Current \in Paths
        /\ Kind(Profile(point.label)) = Points /\ Profile(point.label) \in Paths
    BY KindOf, PathsThere DEF Kept, PointFiles, Points
  <2>2. Save(Profile(point.label), point) \in Seq(FileSteps) /\ Save(Current, point) \in Seq(FileSteps)
    BY <2>1, SaveSteps
  <2> QED
    BY <2>2, TwoParts
<1>4. /\ Continue(p, IF LabelOf(files[Current]) = point.label THEN << >>
                     ELSE Save(Profile(point.label), point) \o Save(Current, point))
      /\ files' = files /\ UNCHANGED <<call, history>>
  BY <1>1, <1>2 DEF Activate
<1>5. FilesTyped(files')
  BY <1>4 DEF TypeInv
<1>6. << >> \in Seq(FileSteps)
  OBVIOUS
<1> QED
  BY <1>1, <1>3, <1>4, <1>5, <1>6, WorkTyped

LEMMA SettingsSteps ==
  /\ \A w \in Settings : [w EXCEPT !.shortcut = TRUE] \in Settings /\ Save(App, w) \in Seq(FileSteps)
  /\ Save(Prefix, "win10") \in Seq(FileSteps) /\ << >> \in Seq(FileSteps)
<1>1. Kind(App) = Settings /\ App \in Paths /\ Kind(Prefix) = Modes /\ Prefix \in Paths
  BY KindOf, PathsThere DEF Kept
<1>2. \A w \in Settings : [w EXCEPT !.shortcut = TRUE] \in Settings
  BY DEF Settings
<1>3. << >> \in Seq(FileSteps)
  OBVIOUS
<1> QED
  BY <1>1, <1>2, <1>3, SaveSteps DEF Modes

LEMMA RepairTyped ==
  ASSUME TypeInv, NEW p \in Procs, Repair(p)
  PROVE  TypeInv'
<1>1. todo[p] # << >>
  BY DEF Repair, NextStep
<1>2. PICK w : w = IF Has(App) THEN Load(files[App]) ELSE Defaults
  OBVIOUS
<1>3. w \in Settings
  BY <1>2, HasApp, LoadTyped, DefaultsTyped, WorkspaceAssumption DEF TypeInv
<1>4. PICK a, b : a = (IF Has(App) THEN << >> ELSE Save(App, w)) /\ b = << <<"prefix", w>> >>
  OBVIOUS
<1>5. a \o b \in Seq(FileSteps)
  <2>1. a \in Seq(FileSteps) /\ b \in Seq(FileSteps)
    BY <1>3, <1>4, SettingsSteps, StepsThere, OneStep
  <2> QED
    BY <2>1, TwoParts
<1>6. Continue(p, a \o b) /\ files' = files /\ UNCHANGED <<call, history>>
  BY <1>2, <1>4 DEF Repair
<1>7. FilesTyped(files')
  BY <1>6 DEF TypeInv
<1> QED
  BY <1>1, <1>5, <1>6, <1>7, WorkTyped

LEMMA PrefixTyped ==
  ASSUME TypeInv, NEW p \in Procs, RepairPrefix(p)
  PROVE  TypeInv'
<1>1. todo[p] # << >> /\ todo[p][1] \in FileSteps /\ todo[p][1][1] = "prefix"
  BY HeadStep DEF RepairPrefix, NextStep
<1>2. PICK w \in Settings : w = todo[p][1][2]
  BY <1>1, StepForms
<1>3. PICK b, c : /\ b = IF Has(Prefix) THEN << >> ELSE Save(Prefix, "win10")
                  /\ c = IF w.shortcut THEN << >> ELSE Save(App, [w EXCEPT !.shortcut = TRUE])
  OBVIOUS
<1>4. b \o c \in Seq(FileSteps)
  <2>1. b \in Seq(FileSteps) /\ c \in Seq(FileSteps)
    BY <1>3, SettingsSteps
  <2> QED
    BY <2>1, TwoParts
<1>5. Continue(p, b \o c) /\ files' = files /\ UNCHANGED <<call, history>>
  BY <1>2, <1>3 DEF RepairPrefix
<1>6. FilesTyped(files')
  BY <1>5 DEF TypeInv
<1> QED
  BY <1>1, <1>4, <1>5, <1>6, WorkTyped

LEMMA UnlinkTyped ==
  ASSUME TypeInv, NEW p \in Procs, Unlink(p)
  PROVE  TypeInv'
<1>1. PICK f \in Paths : files' = [files EXCEPT ![f] = Absent]
  BY PathsThere DEF Unlink
<1>2. FilesTyped(files')
  BY <1>1, FilesExcept DEF TypeInv
<1>3. todo[p] # << >> /\ UNCHANGED <<call, history>>
  BY DEF Unlink, NextStep
<1>4. CASE UNCHANGED todo
  BY <1>2, <1>3, <1>4 DEF TypeInv, history
<1>5. CASE Continue(p, << >>)
  <2>1. << >> \in Seq(FileSteps)
    OBVIOUS
  <2> QED
    BY <1>2, <1>3, <1>5, <2>1, WorkTyped
<1> QED
  BY <1>4, <1>5 DEF Unlink

LEMMA EndTyped ==
  ASSUME TypeInv, NEW p \in Procs, Return(p) \/ Crash(p)
  PROVE  TypeInv'
<1>1. files' = files /\ calls' = calls /\ call' = [call EXCEPT ![p] = Idle]
      /\ overlapped' = overlapped \ {p}
  BY DEF Return, Crash, Leave
<1>2. todo' \in [Procs -> Seq(FileSteps)]
  <2>1. << >> \in Seq(FileSteps)
    OBVIOUS
  <2> QED
    BY <2>1 DEF Return, Crash, TypeInv
<1>3. ragged' \in BOOLEAN
  BY DEF Return, Crash, TypeInv
<1>4. FilesTyped(files')
  BY <1>1 DEF TypeInv
<1> QED
  BY <1>1, <1>2, <1>3, <1>4 DEF TypeInv

LEMMA BeginTyped ==
  ASSUME TypeInv, NEW p \in Procs, NEW c \in Calls, Begin(p, c)
  PROVE  TypeInv'
<1>1. Steps(c) \in Seq(FileSteps)
  BY StepsTyped DEF Begin
<1>2. /\ files' = files /\ ragged' = ragged /\ calls' = calls + Cost /\ calls + Cost <= Budget
      /\ call' = [call EXCEPT ![p] = c] /\ todo' = [todo EXCEPT ![p] = Steps(c)]
  BY DEF Begin
<1>3. overlapped' \subseteq Procs
  BY DEF Begin, Busy, TypeInv
<1>4. FilesTyped(files')
  BY <1>2 DEF TypeInv
<1>5. call' \in [Procs -> Calls \cup {Idle}] /\ todo' \in [Procs -> Seq(FileSteps)]
  BY <1>1, <1>2 DEF TypeInv
<1>6. calls' \in 0..Budget
  BY <1>2, WorkspaceAssumption DEF TypeInv, Cost
<1> QED
  BY <1>2, <1>3, <1>4, <1>5, <1>6 DEF TypeInv

-----------------------------------------------------------------------------
(* How the list of file steps goes on: the new steps, then what is left.   *)
LEMMA Carried ==
  ASSUME TypeInv, NEW p \in Procs, todo[p] # << >>, NEW steps \in Seq(FileSteps), Continue(p, steps)
  PROVE  /\ \A q \in Procs \ {p} : todo'[q] = todo[q]
         /\ \A i \in DOMAIN steps : i \in DOMAIN todo'[p] /\ todo'[p][i] = steps[i]
         /\ \A i \in DOMAIN todo[p] :
              i # 1 => /\ Len(steps) + i - 1 \in DOMAIN todo'[p]
                       /\ todo'[p][Len(steps) + i - 1] = todo[p][i]
         /\ \A i \in DOMAIN todo'[p] :
              \/ i \in DOMAIN steps
              \/ (i - Len(steps) + 1 \in DOMAIN todo[p] /\ i - Len(steps) + 1 # 1)
         /\ 1 \in DOMAIN todo[p] /\ DOMAIN todo[p] = 1..Len(todo[p]) /\ Len(todo[p]) \in Nat
         /\ DOMAIN steps = 1..Len(steps) /\ Len(steps) \in Nat
         /\ DOMAIN todo'[p] = 1..Len(todo'[p]) /\ Len(todo'[p]) \in Nat
<1>1. PICK t \in Seq(FileSteps) : t = todo[p] /\ t # << >>
  BY DEF TypeInv
<1>2. /\ Tail(t) \in Seq(FileSteps) /\ Len(Tail(t)) = Len(t) - 1
      /\ \A i \in 1..(Len(t) - 1) : Tail(t)[i] = t[i + 1]
      /\ Len(t) \in Nat /\ Len(t) # 0 /\ DOMAIN t = 1..Len(t)
  BY <1>1
<1>3. PICK r \in Seq(FileSteps) : r = Tail(t)
  BY <1>2
<1>4. PICK u : u = steps \o r
  OBVIOUS
<1>5. /\ u \in Seq(FileSteps) /\ Len(u) = Len(steps) + Len(r)
      /\ \A i \in 1..(Len(steps) + Len(r)) : u[i] = IF i <= Len(steps) THEN steps[i] ELSE r[i - Len(steps)]
      /\ Len(steps) \in Nat /\ DOMAIN steps = 1..Len(steps) /\ DOMAIN u = 1..Len(u)
  BY <1>4, ConcatProperties
<1>6. todo' = [todo EXCEPT ![p] = u]
  BY <1>1, <1>3, <1>4 DEF Continue
<1>7. todo'[p] = u /\ \A q \in Procs \ {p} : todo'[q] = todo[q]
  BY <1>6 DEF TypeInv
<1>8. Len(r) = Len(t) - 1 /\ \A i \in 1..(Len(t) - 1) : r[i] = t[i + 1]
  BY <1>2, <1>3
<1>9. \A i \in DOMAIN steps : i \in DOMAIN u /\ u[i] = steps[i]
  BY <1>2, <1>5, <1>8
<1>10. \A i \in DOMAIN t : i # 1 => Len(steps) + i - 1 \in DOMAIN u /\ u[Len(steps) + i - 1] = t[i]
  <2>1. ASSUME NEW i \in DOMAIN t, i # 1
        PROVE  Len(steps) + i - 1 \in DOMAIN u /\ u[Len(steps) + i - 1] = t[i]
    <3>1. i \in Nat /\ i >= 2 /\ i <= Len(t)
      BY <1>2, <2>1
    <3>2. i - 1 \in 1..(Len(t) - 1) /\ r[i - 1] = t[i]
      BY <1>2, <1>8, <3>1
    <3>3. /\ Len(steps) + i - 1 \in 1..(Len(steps) + Len(r)) /\ ~(Len(steps) + i - 1 <= Len(steps))
          /\ (Len(steps) + i - 1) - Len(steps) = i - 1
      BY <1>2, <1>5, <1>8, <3>1
    <3> QED
      BY <1>5, <3>2, <3>3
  <2> QED
    BY <2>1
<1>11. \A i \in DOMAIN u : \/ i \in DOMAIN steps
                          \/ (i - Len(steps) + 1 \in DOMAIN t /\ i - Len(steps) + 1 # 1)
  BY <1>2, <1>5, <1>8
<1>12. 1 \in DOMAIN t
  BY <1>2
<1> QED
  BY <1>1, <1>2, <1>5, <1>7, <1>9, <1>10, <1>11, <1>12

(* A remove runs alone, and when it is done there is nothing left.         *)
RemoveAlone ==
  \A p \in Procs :
    /\ call[p] = Idle => todo[p] = << >>
    /\ call[p].op = "remove" =>
         /\ \A q \in Procs \ {p} : call[q] = Idle
         /\ todo[p] = << <<"unlink">> >> \/ (todo[p] = << >> /\ \A f \in Paths : ~Has(f))
    /\ call[p].op # "remove" => \A i \in DOMAIN todo[p] : todo[p][i] # <<"unlink">>

Quiet == ~ragged /\ \A p \in Procs : call[p].op # "remove"

(* A label that is current is that of a saved profile, now or by the time  *)
(* the write that makes it current gets its turn.                          *)
Listed(v) == LabelOf(v) # Unset => Has(Profile(LabelOf(v)))

Awaited(t, i) ==
  (t[i][1] = "write" /\ t[i][2] \in PointFiles) =>
    \/ Listed(t[i][3])
    \/ \E j \in 1..(i - 1) : t[j] = <<"open", Profile(LabelOf(t[i][3]))>>

ListInv ==
  /\ \A f \in PointFiles : Listed(files[f])
  /\ \A p \in Procs : \A i \in DOMAIN todo[p] : Awaited(todo[p], i)

WsInv == TypeInv /\ ReadsPresent /\ RemoveAlone /\ (Quiet => ListInv)

FileStep(p) ==
  \/ MakeDir(p) \/ OpenFile(p) \/ WriteFile(p) \/ CopyFile(p) \/ ReadFile(p)
  \/ Apply(p) \/ Activate(p) \/ Repair(p) \/ RepairPrefix(p)

LEMMA FileStepTyped ==
  ASSUME TypeInv, ReadsPresent, NEW p \in Procs, FileStep(p)
  PROVE  TypeInv'
BY FileTyped, CopyTyped, ReadTyped, ApplyTyped, ActivateTyped, RepairTyped, PrefixTyped
   DEF FileStep

(* What is there stays there, but for a remove.                            *)
LEMMA StayThere ==
  ASSUME TypeInv, NEW p \in Procs, FileStep(p)
  PROVE  \A f \in Paths : Has(f) => files'[f] # Absent
<1>1. CASE MakeDir(p) \/ OpenFile(p)
  <2>1. todo[p][1] \in FileSteps /\ todo[p][1][1] \in {"mkdir", "open"}
    BY <1>1, HeadStep DEF MakeDir, OpenFile, NextStep
  <2>2. PICK f \in Paths : f = todo[p][1][2]
    BY <2>1, StepForms, PathsThere
  <2>3. files' = [files EXCEPT ![f] = Empty]
    BY <1>1, <2>2 DEF MakeDir, OpenFile
  <2> QED
    BY <2>3, WorkspaceAssumption DEF Has, TypeInv, FilesTyped
<1>2. CASE WriteFile(p)
  <2>1. todo[p][1] \in FileSteps /\ todo[p][1][1] = "write"
    BY <1>2, HeadStep DEF WriteFile, NextStep
  <2>2. PICK f \in Paths, v \in Kind(todo[p][1][2]) \cup {Empty} :
          f = todo[p][1][2] /\ v = todo[p][1][3]
    BY <2>1, StepForms
  <2>3. \A g : Absent \notin Kind(g) \cup {Empty}
    BY WorkspaceAssumption DEF Kind
  <2>4. files' = [files EXCEPT ![f] = v]
    BY <1>2, <2>2 DEF WriteFile
  <2> QED
    BY <2>2, <2>3, <2>4 DEF Has, TypeInv, FilesTyped
<1>3. CASE CopyFile(p) \/ ReadFile(p) \/ Apply(p) \/ Activate(p) \/ Repair(p) \/ RepairPrefix(p)
  BY <1>3 DEF CopyFile, ReadFile, Apply, Activate, Repair, RepairPrefix, Has
<1> QED
  BY <1>1, <1>2, <1>3 DEF FileStep

(* What the steps that a call adds are like.                               *)
Good(steps) ==
  \A i \in DOMAIN steps :
    /\ steps[i] # <<"unlink">>
    /\ steps[i][1] = "read" => Has(steps[i][2])
    /\ Quiet => Awaited(steps, i)

LEMMA GoodParts ==
  ASSUME NEW a \in Seq(FileSteps), NEW b \in Seq(FileSteps), Good(a), Good(b)
  PROVE  Good(a \o b)
<1>1. PICK u : u = a \o b
  OBVIOUS
<1>2. /\ Len(u) = Len(a) + Len(b) /\ DOMAIN u = 1..Len(u)
      /\ Len(a) \in Nat /\ Len(b) \in Nat /\ DOMAIN a = 1..Len(a) /\ DOMAIN b = 1..Len(b)
      /\ \A i \in 1..(Len(a) + Len(b)) : u[i] = IF i <= Len(a) THEN a[i] ELSE b[i - Len(a)]
  BY <1>1, ConcatProperties
<1>3. SUFFICES ASSUME NEW i \in DOMAIN u
               PROVE  /\ u[i] # <<"unlink">> /\ (u[i][1] = "read" => Has(u[i][2]))
                      /\ Quiet => Awaited(u, i)
  BY <1>1 DEF Good
<1>4. CASE i <= Len(a)
  <2>1. i \in DOMAIN a /\ u[i] = a[i] /\ \A j \in 1..(i - 1) : u[j] = a[j]
    BY <1>2, <1>4
  <2>2. Awaited(a, i) => Awaited(u, i)
    BY <2>1 DEF Awaited
  <2> QED
    BY <2>1, <2>2 DEF Good
<1>5. CASE ~(i <= Len(a))
  <2>1. /\ i - Len(a) \in DOMAIN b /\ u[i] = b[i - Len(a)]
        /\ \A j \in 1..(i - Len(a) - 1) : j + Len(a) \in 1..(i - 1) /\ u[j + Len(a)] = b[j]
    BY <1>2, <1>5
  <2>2. PICK k \in DOMAIN b : k = i - Len(a)
    BY <2>1
  <2>3. Awaited(b, k) => Awaited(u, i)
    BY <2>1, <2>2 DEF Awaited
  <2> QED
    BY <2>1, <2>2, <2>3 DEF Good
<1> QED
  BY <1>4, <1>5

LEMMA GoodSave ==
  ASSUME NEW f, NEW v, f \in PointFiles => Listed(v) \/ f = Profile(LabelOf(v))
  PROVE  Good(Save(f, v))
<1>1. PICK a, b : a = <<"open", f>> /\ b = <<"write", f, v>>
  OBVIOUS
<1>2. PICK u : u = <<a, b>>
  OBVIOUS
<1>3. u = Save(f, v) /\ DOMAIN u = 1..2 /\ u[1] = a /\ u[2] = b
  BY <1>1, <1>2 DEF Save
<1>4. a[1] = "open" /\ b[1] = "write" /\ b[2] = f /\ b[3] = v
  BY <1>1
<1>5. Awaited(u, 1)
  BY <1>3, <1>4 DEF Awaited
<1>6. Awaited(u, 2)
  <2>1. CASE f = Profile(LabelOf(v))
    BY <1>1, <1>3, <1>4, <2>1 DEF Awaited
  <2>2. CASE f # Profile(LabelOf(v))
    BY <1>3, <1>4, <2>2 DEF Awaited
  <2> QED
    BY <2>1, <2>2
<1>7. a # <<"unlink">> /\ b # <<"unlink">>
  BY <1>4
<1> QED
  BY <1>3, <1>4, <1>5, <1>6, <1>7 DEF Good

LEMMA GoodOther ==
  ASSUME NEW s \in FileSteps, s[1] \in {"mkdir", "copy", "apply", "activate", "repair", "prefix", "open"}
  PROVE  Good(<< s >>)
<1>1. PICK u : u = << s >>
  OBVIOUS
<1>2. DOMAIN u = 1..1 /\ u[1] = s
  BY <1>1
<1>3. s # <<"unlink">> /\ s[1] # "read" /\ s[1] # "write"
  OBVIOUS
<1> QED
  BY <1>1, <1>2, <1>3 DEF Good, Awaited

LEMMA GoodNone == Good(<< >>)
BY DEF Good

LEMMA PointLabels ==
  /\ \A point \in Points : LabelOf(point) = point.label
  /\ App \notin PointFiles /\ Prefix \notin PointFiles
  /\ \A s \in Snaps : SnapLabel(s) \notin PointFiles
  /\ PointFiles \subseteq Paths /\ Current \in PointFiles
  /\ \A f \in PointFiles : Kind(f) = Points
  /\ \A v \in Points \cup {Empty, Absent} : LabelOf(v) # Unset => Profile(LabelOf(v)) \in Paths
<1>1. \A point \in Points : LabelOf(point) = point.label
  BY WorkspaceAssumption DEF LabelOf
<1>2. App \notin PointFiles /\ Prefix \notin PointFiles /\ \A s \in Snaps : SnapLabel(s) \notin PointFiles
  BY PathNames, PathsThere DEF PointFiles, Kept
<1>3. PointFiles \subseteq Paths /\ Current \in PointFiles
  BY PathsThere DEF PointFiles, Kept
<1>4. \A v \in Points \cup {Empty, Absent} : LabelOf(v) # Unset => Profile(LabelOf(v)) \in Paths
  BY <1>1, PathsThere DEF LabelOf, Points
<1> QED
  BY <1>1, <1>2, <1>3, <1>4, KindOf

(* The steps a call begins with.                                           *)
LEMMA GoodSteps ==
  ASSUME TypeInv, NEW c \in Calls, Admitted(c), c.op # "remove"
  PROVE  Good(Steps(c))
<1>1. /\ Dir \in Dirs /\ \A d \in Dirs : << <<"mkdir", d>> >> \in Seq(FileSteps) /\ Good(<< <<"mkdir", d>> >>)
  <2>1. ASSUME NEW d \in Dirs
        PROVE  << <<"mkdir", d>> >> \in Seq(FileSteps) /\ Good(<< <<"mkdir", d>> >>)
    <3>1. PICK s \in FileSteps : s = <<"mkdir", d>>
      BY StepsThere
    <3>2. << s >> \in Seq(FileSteps) /\ Good(<< s >>)
      BY <3>1, OneStep, GoodOther
    <3> QED
      BY <3>1, <3>2
  <2> QED
    BY <2>1, PathsThere
<1>2. \A v \in Settings : Save(App, v) \in Seq(FileSteps) /\ Good(Save(App, v))
  <2>1. App \in Paths /\ Kind(App) = Settings
    BY KindOf, PathsThere DEF Kept
  <2> QED
    BY <2>1, SaveSteps, GoodSave, PointLabels
<1>3. \A v \in Modes : Save(Prefix, v) \in Seq(FileSteps) /\ Good(Save(Prefix, v))
  <2>1. Prefix \in Paths /\ Kind(Prefix) = Modes
    BY KindOf, PathsThere DEF Kept
  <2> QED
    BY <2>1, SaveSteps, GoodSave, PointLabels
<1>4. \A point \in Points :
        /\ ProfileSave(point) \in Seq(FileSteps) /\ ProfileApply(point) \in Seq(FileSteps)
        /\ Good(ProfileSave(point)) /\ Good(ProfileApply(point))
  <2>1. ASSUME NEW point \in Points
        PROVE  /\ Save(Profile(point.label), point) \in Seq(FileSteps)
               /\ Good(Save(Profile(point.label), point))
    <3>1. /\ point.label \in Labels /\ Profile(point.label) \in Paths
          /\ Kind(Profile(point.label)) = Points /\ LabelOf(point) = point.label
      BY KindOf, PathsThere, PointLabels DEF Points
    <3> QED
      BY <3>1, SaveSteps, GoodSave
  <2>2. ASSUME NEW point \in Points
        PROVE  << <<"apply", point>> >> \in Seq(FileSteps) /\ Good(<< <<"apply", point>> >>)
    <3>1. PICK s \in FileSteps : s = <<"apply", point>>
      BY StepsThere
    <3>2. << s >> \in Seq(FileSteps) /\ Good(<< s >>)
      BY <3>1, OneStep, GoodOther
    <3> QED
      BY <3>1, <3>2
  <2> QED
    BY <1>1, <2>1, <2>2, TwoParts, GoodParts, Zenon DEF ProfileSave, ProfileApply
<1>5. CASE c.op = "install"
  <2>1. Save(Prefix, "win10") \in Seq(FileSteps) /\ Good(Save(Prefix, "win10"))
    BY <1>3 DEF Modes
  <2>2. PICK v \in Settings, w \in Settings : v = Defaults /\ w = [Defaults EXCEPT !.shortcut = TRUE]
    BY DefaultsTyped
  <2>3. PICK a \in Seq(FileSteps), b \in Seq(FileSteps), d \in Seq(FileSteps), e \in Seq(FileSteps) :
          /\ a = << <<"mkdir", Dir>> >> /\ b = Save(Prefix, "win10") /\ d = Save(App, v) /\ e = Save(App, w)
          /\ Good(a) /\ Good(b) /\ Good(d) /\ Good(e)
    BY <1>1, <1>2, <2>1, Zenon
  <2>4. Good(a \o b) /\ a \o b \in Seq(FileSteps)
    BY <2>3, GoodParts, TwoParts
  <2>5. Good(a \o b \o d) /\ a \o b \o d \in Seq(FileSteps)
    BY <2>3, <2>4, GoodParts, TwoParts
  <2>6. Good(a \o b \o d \o e)
    BY <2>3, <2>5, GoodParts
  <2>7. Install = a \o b \o d \o e
    BY <2>2, <2>3, Zenon DEF Install
  <2> QED
    BY <1>5, <2>6, <2>7, StepsByName
<1>6. CASE c.op = "set"
  <2>1. Has(App)
    BY <1>6 DEF Admitted
  <2>2. [Load(files[App]) EXCEPT !.runner = c.runner] \in Settings
    BY <1>6, <2>1, CallFields, HasApp, LoadTyped DEF TypeInv
  <2> QED
    BY <1>2, <1>6, <2>2, StepsByName DEF SetField
<1>7. CASE c.op = "mode"
  BY <1>3, <1>7, CallFields, StepsByName DEF SetConfig
<1>8. CASE c.op = "save" \/ c.op = "apply"
  BY <1>4, <1>8, CallFields, StepsByName
<1>9. CASE c.op = "import"
  BY <1>4, <1>9, CallFields, StepsByName, GoodParts DEF ProfileImport
<1>10. CASE c.op \in {"snapshot", "rollback"}
  <2>1. PICK s \in Snaps : s = c.snap
    BY <1>10, CallFields
  <2>2. \A h \in Saved : /\ <<"copy", h, Snap(s, h)>> \in FileSteps
                         /\ <<"copy", Snap(s, h), h>> \in FileSteps
    <3>1. \A h \in Saved : /\ CopyPair(h, Snap(s, h)) /\ CopyPair(Snap(s, h), h)
                           /\ h \in Paths /\ Snap(s, h) \in Paths
      BY PathsThere DEF CopyPair
    <3> QED
      BY <3>1, StepsThere
  <2>3. CASE c.op = "snapshot"
    <3>1. PICK a \in FileSteps, b \in FileSteps, d \in FileSteps, e \in FileSteps :
            /\ a = <<"mkdir", SnapDir(s)>> /\ b = <<"copy", App, Snap(s, App)>>
            /\ d = <<"copy", Prefix, Snap(s, Prefix)>> /\ e = <<"copy", Current, Snap(s, Current)>>
      BY <2>2, StepsThere, PathsThere
    <3>2. Good(<<a, b, d, e>>)
      <4>1. a[1] = "mkdir" /\ b[1] = "copy" /\ d[1] = "copy" /\ e[1] = "copy"
        BY <3>1
      <4>2. PICK u : u = <<a, b, d, e>>
        OBVIOUS
      <4>3. DOMAIN u = 1..4 /\ u[1] = a /\ u[2] = b /\ u[3] = d /\ u[4] = e
        BY <4>2
      <4>4. \A i \in 1..4 : u[i] # <<"unlink">> /\ u[i][1] # "read" /\ u[i][1] # "write"
        BY <4>1, <4>3
      <4> QED
        BY <4>2, <4>3, <4>4 DEF Good, Awaited
    <3>3. Save(SnapLabel(s), s) \in Seq(FileSteps) /\ Good(Save(SnapLabel(s), s))
      BY KindOf, PathsThere, SaveSteps, GoodSave, PointLabels
    <3>4. <<a, b, d, e>> \in Seq(FileSteps)
      OBVIOUS
    <3>5. Snapshot(s) = <<a, b, d, e>> \o Save(SnapLabel(s), s)
      BY <3>1 DEF Snapshot
    <3> QED
      BY <2>1, <2>3, <3>2, <3>3, <3>4, <3>5, GoodParts, StepsByName
  <2>4. CASE c.op = "rollback"
    <3>1. PICK b \in FileSteps, d \in FileSteps, e \in FileSteps :
            /\ b = <<"copy", Snap(s, App), App>> /\ d = <<"copy", Snap(s, Prefix), Prefix>>
            /\ e = <<"copy", Snap(s, Current), Current>>
      BY <2>2, PathsThere
    <3>2. b[1] = "copy" /\ d[1] = "copy" /\ e[1] = "copy"
      BY <3>1
    <3>3. PICK u : u = <<b, d, e>>
      OBVIOUS
    <3>4. DOMAIN u = 1..3 /\ u[1] = b /\ u[2] = d /\ u[3] = e
      BY <3>3
    <3>5. \A i \in 1..3 : u[i] # <<"unlink">> /\ u[i][1] # "read" /\ u[i][1] # "write"
      BY <3>2, <3>4
    <3>6. Good(u)
      BY <3>4, <3>5 DEF Good, Awaited
    <3>7. Rollback(s) = u
      BY <3>1, <3>3 DEF Rollback
    <3> QED
      BY <2>1, <2>4, <3>6, <3>7, StepsByName
  <2> QED
    BY <1>10, <2>3, <2>4
<1>11. CASE c.op = "repair"
  <2>1. PICK a \in FileSteps, b \in FileSteps : a = <<"mkdir", Dir>> /\ b = <<"repair">>
    BY StepsThere, PathsThere
  <2>2. a[1] = "mkdir" /\ b[1] = "repair"
    BY <2>1
  <2>3. PICK u : u = <<a, b>>
    OBVIOUS
  <2>4. DOMAIN u = 1..2 /\ u[1] = a /\ u[2] = b
    BY <2>3
  <2>5. \A i \in 1..2 : u[i] # <<"unlink">> /\ u[i][1] # "read" /\ u[i][1] # "write"
    BY <2>2, <2>4
  <2>6. Good(u)
    BY <2>4, <2>5 DEF Good, Awaited
  <2> QED
    BY <1>11, <2>1, <2>3, <2>6, StepsByName
<1> QED
  BY <1>5, <1>6, <1>7, <1>8, <1>9, <1>10, <1>11, CallFields DEF Ops

(* Each step of a call goes on with steps of that kind.                    *)
LEMMA GoodFileStep ==
  ASSUME WsInv, NEW p \in Procs, FileStep(p)
  PROVE  \E steps \in Seq(FileSteps) : Continue(p, steps) /\ Good(steps)
<1>1. << >> \in Seq(FileSteps) /\ Good(<< >>)
  BY GoodNone
<1>2. PICK s \in FileSteps : s = todo[p][1] /\ todo[p] # << >>
  BY HeadStep, Zenon DEF FileStep, MakeDir, OpenFile, WriteFile, CopyFile, ReadFile, Apply,
     Activate, Repair, RepairPrefix, NextStep, WsInv
<1>3. CASE MakeDir(p) \/ OpenFile(p) \/ WriteFile(p)
  BY <1>1, <1>3 DEF MakeDir, OpenFile, WriteFile
<1>4. CASE CopyFile(p)
  <2>1. s[1] = "copy"
    BY <1>2, <1>4 DEF CopyFile, NextStep
  <2>2. PICK f \in Paths, g \in Paths : f = s[2] /\ g = s[3] /\ CopyPair(f, g)
    BY <2>1, StepForms
  <2>3. PICK a, b : a = <<"open", g>> /\ b = <<"read", f, g>>
    OBVIOUS
  <2>4. a \in FileSteps /\ b \in FileSteps
    BY <2>2, <2>3, StepsThere
  <2>5. <<a, b>> \in Seq(FileSteps)
    BY <2>4
  <2>6. Continue(p, IF Has(f) THEN <<a, b>> ELSE << >>)
    BY <1>2, <1>4, <2>2, <2>3 DEF CopyFile
  <2>7. Has(f) => Good(<<a, b>>)
    <3>1. PICK u : u = <<a, b>>
      OBVIOUS
    <3>2. DOMAIN u = 1..2 /\ u[1] = a /\ u[2] = b
      BY <3>1
    <3>3. a[1] = "open" /\ b[1] = "read" /\ b[2] = f
      BY <2>3
    <3>4. \A i \in 1..2 : /\ u[i] # <<"unlink">> /\ u[i][1] # "write"
                          /\ u[i][1] = "read" => u[i][2] = f
      BY <3>2, <3>3
    <3> QED
      BY <3>1, <3>2, <3>4 DEF Good, Awaited
  <2> QED
    BY <1>1, <2>5, <2>6, <2>7
<1>5. CASE ReadFile(p)
  <2>1. s[1] = "read"
    BY <1>2, <1>5 DEF ReadFile, NextStep
  <2>2. PICK f \in Paths, g \in Paths : f = s[2] /\ g = s[3] /\ CopyPair(f, g)
    BY <2>1, StepForms
  <2>3. PICK b : b = <<"write", g, files[f]>>
    OBVIOUS
  <2>4. Has(f)
    <3>1. todo[p] \in Seq(FileSteps)
      BY DEF TypeInv, WsInv
    <3>2. 1 \in DOMAIN todo[p]
      BY <1>2, <3>1
    <3> QED
      BY <1>2, <2>1, <2>2, <3>2 DEF ReadsPresent, WsInv
  <2>5. files[f] \in Kind(g) \cup {Empty}
    BY <2>2, <2>4, CopyKinds DEF TypeInv, FilesTyped, Has, WsInv
  <2>6. << b >> \in Seq(FileSteps)
    BY <2>2, <2>3, <2>5, StepsThere, OneStep
  <2>7. Continue(p, << b >>)
    BY <1>2, <1>5, <2>2, <2>3 DEF ReadFile
  <2>8. Good(<< b >>)
    <3>1. PICK u : u = << b >>
      OBVIOUS
    <3>2. DOMAIN u = 1..1 /\ u[1] = b
      BY <3>1
    <3>3. b[1] = "write" /\ b[2] = g /\ b[3] = files[f] /\ b # <<"unlink">>
      BY <2>3
    <3>4. Quiet /\ g \in PointFiles => Listed(files[f])
      BY <2>2, CopyKinds DEF WsInv, ListInv
    <3> QED
      BY <3>1, <3>2, <3>3, <3>4 DEF Good, Awaited
  <2> QED
    BY <2>6, <2>7, <2>8
<1>6. CASE Apply(p)
  <2>1. s[1] = "apply"
    BY <1>2, <1>6 DEF Apply, NextStep
  <2>2. PICK point \in Points : point = s[2]
    BY <2>1, StepForms
  <2>3. PICK v : v = [Load(files[App]) EXCEPT !.runner = point.runner]
    OBVIOUS
  <2>4. Has(App) => v \in Settings
    BY <2>3, HasApp, LoadTyped DEF TypeInv, Points, WsInv
  <2>5. Has(App) => Save(App, v) \in Seq(FileSteps) /\ Good(Save(App, v))
    <3>1. App \in Paths /\ Kind(App) = Settings
      BY KindOf, PathsThere DEF Kept
    <3> QED
      BY <2>4, <3>1, SaveSteps, GoodSave, PointLabels
  <2>6. << <<"activate", point>> >> \in Seq(FileSteps) /\ Good(<< <<"activate", point>> >>)
    <3>1. PICK a \in FileSteps : a = <<"activate", point>>
      BY StepsThere
    <3>2. << a >> \in Seq(FileSteps) /\ Good(<< a >>)
      BY <3>1, OneStep, GoodOther
    <3> QED
      BY <3>1, <3>2
  <2>7. Has(App) => /\ Save(App, v) \o << <<"activate", point>> >> \in Seq(FileSteps)
                    /\ Good(Save(App, v) \o << <<"activate", point>> >>)
    BY <2>5, <2>6, TwoParts, GoodParts
  <2>8. Continue(p, IF Has(App) THEN Save(App, v) \o << <<"activate", point>> >> ELSE << >>)
    BY <1>2, <1>6, <2>2, <2>3 DEF Apply
  <2> QED
    BY <1>1, <2>7, <2>8
<1>7. CASE Activate(p)
  <2>1. s[1] = "activate"
    BY <1>2, <1>7 DEF Activate, NextStep
  <2>2. PICK point \in Points : point = s[2]
    BY <2>1, StepForms
  <2>3. PICK h \in Paths : /\ h = Profile(point.label) /\ Kind(h) = Points
                           /\ LabelOf(point) = point.label
    BY KindOf, PathsThere, PointLabels DEF Points
  <2>4. PICK a, b, d, e : /\ a = <<"open", h>> /\ b = <<"write", h, point>>
                          /\ d = <<"open", Current>> /\ e = <<"write", Current, point>>
    OBVIOUS
  <2>5. a \in FileSteps /\ b \in FileSteps /\ d \in FileSteps /\ e \in FileSteps
    <3>1. Current \in Paths /\ Kind(Current) = Points
      BY PointLabels
    <3> QED
      BY <2>3, <2>4, <3>1, StepsThere
  <2>6. PICK u : u = <<a, b, d, e>>
    OBVIOUS
  <2>7. u \in Seq(FileSteps)
    BY <2>5, <2>6
  <2>8. u = Save(h, point) \o Save(Current, point)
    BY <2>4, <2>6 DEF Save
  <2>9. Good(u)
    <3>1. DOMAIN u = 1..4 /\ u[1] = a /\ u[2] = b /\ u[3] = d /\ u[4] = e
      BY <2>6
    <3>2. /\ a[1] = "open" /\ d[1] = "open" /\ b[1] = "write" /\ e[1] = "write"
          /\ b[3] = point /\ e[3] = point
      BY <2>4
    <3>3. u[1] = <<"open", Profile(LabelOf(point))>>
      BY <2>3, <2>4, <3>1
    <3>4. \A i \in 1..4 : u[i] # <<"unlink">> /\ u[i][1] # "read"
      BY <3>1, <3>2
    <3>5. Awaited(u, 1) /\ Awaited(u, 3)
      BY <3>1, <3>2 DEF Awaited
    <3>6. Awaited(u, 2) /\ Awaited(u, 4)
      BY <3>1, <3>2, <3>3 DEF Awaited
    <3> QED
      BY <3>1, <3>4, <3>5, <3>6 DEF Good
  <2>10. Continue(p, IF LabelOf(files[Current]) = point.label THEN << >> ELSE u)
    BY <1>2, <1>7, <2>2, <2>3, <2>8 DEF Activate
  <2> QED
    BY <1>1, <2>7, <2>9, <2>10
<1>8. \A v \in Settings : Good(Save(App, v))
  <2>1. App \in Paths /\ Kind(App) = Settings
    BY KindOf, PathsThere DEF Kept
  <2> QED
    BY <2>1, GoodSave, PointLabels
<1>9. CASE Repair(p)
  <2>1. PICK w : w = IF Has(App) THEN Load(files[App]) ELSE Defaults
    OBVIOUS
  <2>2. w \in Settings
    BY <2>1, HasApp, LoadTyped, DefaultsTyped, WorkspaceAssumption DEF TypeInv, WsInv
  <2>3. PICK d \in FileSteps : d = <<"prefix", w>>
    BY <2>2, StepsThere
  <2>4. << d >> \in Seq(FileSteps) /\ Good(<< d >>)
    <3>1. d[1] = "prefix"
      BY <2>3
    <3> QED
      BY <3>1, OneStep, GoodOther
  <2>5. PICK a : a = IF Has(App) THEN << >> ELSE Save(App, w)
    OBVIOUS
  <2>6. a \in Seq(FileSteps) /\ Good(a)
    BY <1>1, <1>8, <2>2, <2>5, SettingsSteps
  <2>7. a \o << d >> \in Seq(FileSteps) /\ Good(a \o << d >>)
    BY <2>4, <2>6, TwoParts, GoodParts
  <2>8. Continue(p, a \o << d >>)
    BY <2>1, <2>3, <2>5, <1>9 DEF Repair
  <2> QED
    BY <2>7, <2>8
<1>10. CASE RepairPrefix(p)
  <2>1. PICK w \in Settings : w = s[2]
    <3>1. s[1] = "prefix"
      BY <1>2, <1>10 DEF RepairPrefix, NextStep
    <3> QED
      BY <3>1, StepForms
  <2>2. Good(Save(Prefix, "win10"))
    <3>1. Prefix \in Paths /\ Kind(Prefix) = Modes
      BY KindOf, PathsThere DEF Kept
    <3> QED
      BY <3>1, GoodSave, PointLabels DEF Modes
  <2>3. PICK b, c : /\ b = IF Has(Prefix) THEN << >> ELSE Save(Prefix, "win10")
                    /\ c = IF w.shortcut THEN << >> ELSE Save(App, [w EXCEPT !.shortcut = TRUE])
    OBVIOUS
  <2>4. b \in Seq(FileSteps) /\ c \in Seq(FileSteps) /\ Good(b) /\ Good(c)
    BY <1>1, <1>8, <2>1, <2>2, <2>3, SettingsSteps
  <2>5. b \o c \in Seq(FileSteps) /\ Good(b \o c)
    BY <2>4, TwoParts, GoodParts
  <2>6. Continue(p, b \o c)
    BY <1>2, <2>1, <2>3, <1>10 DEF RepairPrefix
  <2> QED
    BY <2>5, <2>6
<1> QED
  BY <1>3, <1>4, <1>5, <1>6, <1>7, <1>9, <1>10 DEF FileStep

-----------------------------------------------------------------------------
LEMMA WsInit == Init => WsInv
<1> SUFFICES ASSUME Init
             PROVE  WsInv
  OBVIOUS
<1>1. TypeInv
  BY TypeInit
<1>2. /\ \A f \in Paths : files[f] = Absent
      /\ \A p \in Procs : call[p] = Idle /\ todo[p] = << >>
  BY DEF Init, NoFiles
<1>3. ReadsPresent
  BY <1>2 DEF ReadsPresent
<1>4. RemoveAlone
  BY <1>2 DEF RemoveAlone, Idle
<1>5. ListInv
  <2>1. LabelOf(Absent) = Unset
    BY DEF LabelOf
  <2> QED
    BY <1>2, <2>1, PointLabels DEF ListInv, Listed
<1> QED
  BY <1>1, <1>3, <1>4, <1>5 DEF WsInv

LEMMA WsFileStep ==
  ASSUME WsInv, NEW p \in Procs, FileStep(p)
  PROVE  WsInv'
<1>1. PICK steps \in Seq(FileSteps) : Continue(p, steps) /\ Good(steps)
  BY GoodFileStep
<1>2. UNCHANGED <<call, before, overlapped, ragged, calls>> /\ todo[p] # << >>
  BY Zenon DEF FileStep, MakeDir, OpenFile, WriteFile, CopyFile, ReadFile, Apply, Activate,
     Repair, RepairPrefix, NextStep, history
<1>3. TypeInv'
  BY FileStepTyped DEF WsInv
<1>4. \A f \in Paths : Has(f) => files'[f] # Absent
  BY StayThere DEF WsInv
<1>5. /\ \A q \in Procs \ {p} : todo'[q] = todo[q]
      /\ \A i \in DOMAIN steps : i \in DOMAIN todo'[p] /\ todo'[p][i] = steps[i]
      /\ \A i \in DOMAIN todo[p] :
           i # 1 => /\ Len(steps) + i - 1 \in DOMAIN todo'[p]
                    /\ todo'[p][Len(steps) + i - 1] = todo[p][i]
      /\ \A i \in DOMAIN todo'[p] :
           \/ i \in DOMAIN steps
           \/ (i - Len(steps) + 1 \in DOMAIN todo[p] /\ i - Len(steps) + 1 # 1)
      /\ 1 \in DOMAIN todo[p] /\ DOMAIN todo[p] = 1..Len(todo[p]) /\ Len(todo[p]) \in Nat
      /\ DOMAIN steps = 1..Len(steps) /\ Len(steps) \in Nat
      /\ DOMAIN todo'[p] = 1..Len(todo'[p]) /\ Len(todo'[p]) \in Nat
  BY <1>1, <1>2, Carried DEF WsInv
<1>6. \A i \in DOMAIN todo'[p] :
        \/ i \in DOMAIN steps /\ todo'[p][i] = steps[i]
        \/ \E k \in DOMAIN todo[p] : k # 1 /\ i = Len(steps) + k - 1 /\ todo'[p][i] = todo[p][k]
  <2>1. ASSUME NEW i \in DOMAIN todo'[p], i \notin DOMAIN steps
        PROVE  \E k \in DOMAIN todo[p] : k # 1 /\ i = Len(steps) + k - 1 /\ todo'[p][i] = todo[p][k]
    <3>1. PICK k \in DOMAIN todo[p] : k = i - Len(steps) + 1 /\ k # 1
      BY <1>5, <2>1
    <3>2. i = Len(steps) + k - 1
      BY <1>5, <2>1, <3>1
    <3> QED
      BY <1>5, <3>1, <3>2
  <2> QED
    BY <1>5, <2>1
<1>7. \A q \in Procs : \A i \in DOMAIN todo[q] :
        todo[q][i][1] = "read" => todo[q][i][2] \in Paths
  <2>1. \A q \in Procs : \A i \in DOMAIN todo[q] : todo[q][i] \in FileSteps
    <3>1. ASSUME NEW q \in Procs
          PROVE  \A i \in DOMAIN todo[q] : todo[q][i] \in FileSteps
      <4>1. PICK t \in Seq(FileSteps) : t = todo[q]
        BY DEF WsInv, TypeInv
      <4> QED
        BY <4>1
    <3> QED
      BY <3>1
  <2> QED
    BY <2>1, StepForms
<1>8. ReadsPresent'
  <2>1. ASSUME NEW q \in Procs, NEW i \in DOMAIN todo'[q], todo'[q][i][1] = "read"
        PROVE  files'[todo'[q][i][2]] # Absent
    <3>1. CASE q # p
      BY <1>4, <1>5, <1>7, <2>1, <3>1 DEF WsInv, ReadsPresent
    <3>2. CASE q = p /\ i \in DOMAIN steps /\ todo'[p][i] = steps[i]
      <4>1. PICK s \in FileSteps : s = steps[i]
        BY <3>2
      <4>2. s[2] \in Paths /\ Has(s[2])
        BY <1>1, <2>1, <3>2, <4>1, StepForms DEF Good
      <4> QED
        BY <1>4, <3>2, <4>1, <4>2
    <3>3. CASE q = p /\ \E k \in DOMAIN todo[p] : todo'[p][i] = todo[p][k]
      BY <1>4, <1>7, <2>1, <3>3 DEF WsInv, ReadsPresent
    <3> QED
      BY <1>6, <2>1, <3>1, <3>2, <3>3
  <2> QED
    BY <2>1 DEF ReadsPresent, Has
<1>9. call[p].op # "remove"
  <2>1. PICK t : t = << <<"unlink">> >>
    OBVIOUS
  <2>2. t[1] = <<"unlink">> /\ t[1][1] = "unlink"
    BY <2>1
  <2>3. todo[p][1][1] # "unlink"
    BY DEF FileStep, MakeDir, OpenFile, WriteFile, CopyFile, ReadFile, Apply, Activate, Repair, RepairPrefix, NextStep
  <2>4. todo[p] # t
    BY <2>2, <2>3
  <2> QED
    BY <1>2, <2>1, <2>4 DEF WsInv, RemoveAlone
<1>10. \A q \in Procs : call[q].op # "remove"
  BY <1>2, <1>9 DEF WsInv, RemoveAlone, Idle
<1>11. RemoveAlone'
  <2>1. \A q \in Procs : call'[q].op # "remove"
    BY <1>2, <1>10
  <2>2. \A q \in Procs : call'[q] = Idle => todo'[q] = << >>
    BY <1>2, <1>5 DEF WsInv, RemoveAlone
  <2>3. \A i \in DOMAIN todo'[p] : todo'[p][i] # <<"unlink">>
    <3>1. \A i \in DOMAIN steps : steps[i] # <<"unlink">>
      BY <1>1 DEF Good
    <3>2. \A k \in DOMAIN todo[p] : todo[p][k] # <<"unlink">>
      BY <1>10 DEF WsInv, RemoveAlone
    <3> QED
      BY <1>6, <3>1, <3>2
  <2>4. \A q \in Procs : \A i \in DOMAIN todo'[q] : todo'[q][i] # <<"unlink">>
    BY <1>5, <1>10, <2>3 DEF WsInv, RemoveAlone
  <2> QED
    BY <2>1, <2>2, <2>4 DEF RemoveAlone
<1>12. ASSUME Quiet
       PROVE  ListInv'
  <2>1. ListInv
    BY <1>12 DEF WsInv
  <2>2. \A q \in Procs : \A i \in DOMAIN todo[q] :
          todo[q][i][1] = "write" => todo[q][i][2] \in Paths /\ todo[q][i][3] \in Kind(todo[q][i][2]) \cup {Empty}
    <3>1. ASSUME NEW q \in Procs, NEW i \in DOMAIN todo[q]
          PROVE  todo[q][i] \in FileSteps
      <4>1. PICK t \in Seq(FileSteps) : t = todo[q]
        BY DEF WsInv, TypeInv
      <4> QED
        BY <4>1
    <3> QED
      BY <3>1, StepForms
  <2>3. \A v \in Points \cup {Empty, Absent} : Listed(v) => (LabelOf(v) # Unset => files'[Profile(LabelOf(v))] # Absent)
    BY <1>4, PointLabels DEF Listed
  <2>4. /\ FilesTyped(files) /\ \A f \in PointFiles : f \in Paths /\ Kind(f) = Points
    BY PointLabels DEF WsInv, TypeInv
  <2>5. \A f \in PointFiles : files[f] \in Points \cup {Empty, Absent}
    BY <2>4 DEF FilesTyped
  <2>6. \A f \in PointFiles : LabelOf(files'[f]) # Unset => files'[Profile(LabelOf(files'[f]))] # Absent
    <3>1. CASE \A f \in PointFiles : files'[f] = files[f]
      BY <2>1, <2>3, <2>5, <3>1 DEF ListInv
    <3>2. CASE MakeDir(p) \/ OpenFile(p)
      <4>1. PICK g : files' = [files EXCEPT ![g] = Empty]
        BY <3>2 DEF MakeDir, OpenFile
      <4>2. \A f \in PointFiles : files'[f] = files[f] \/ files'[f] = Empty
        BY <2>4, <4>1 DEF FilesTyped
      <4>3. LabelOf(Empty) = Unset
        BY DEF LabelOf
      <4> QED
        BY <2>1, <2>3, <2>5, <4>2, <4>3 DEF ListInv
    <3>3. CASE WriteFile(p)
      <4>1. PICK g, v : g = todo[p][1][2] /\ v = todo[p][1][3]
        OBVIOUS
      <4>2. files' = [files EXCEPT ![g] = v] /\ todo[p][1][1] = "write"
        BY <3>3, <4>1 DEF WriteFile, NextStep
      <4>3. g \in PointFiles => Listed(v) /\ v \in Points \cup {Empty}
        <5>1. Awaited(todo[p], 1)
          BY <1>5, <2>1 DEF ListInv
        <5>2. \A j \in 1..(1 - 1) : FALSE
          OBVIOUS
        <5> QED
          BY <1>5, <2>2, <2>4, <4>1, <4>2, <5>1, <5>2 DEF Awaited
      <4>4. \A f \in PointFiles : files'[f] = files[f] \/ (g \in PointFiles /\ files'[f] = v)
        BY <2>4, <4>2 DEF FilesTyped
      <4> QED
        BY <2>1, <2>3, <2>5, <4>3, <4>4 DEF ListInv
    <3>4. CASE CopyFile(p) \/ ReadFile(p) \/ Apply(p) \/ Activate(p) \/ Repair(p) \/ RepairPrefix(p)
      BY <3>1, <3>4 DEF CopyFile, ReadFile, Apply, Activate, Repair, RepairPrefix
    <3> QED
      BY <3>2, <3>3, <3>4 DEF FileStep
  <2>7. ASSUME NEW f \in Paths, todo[p][1] = <<"open", f>>
        PROVE  files'[f] # Absent
    <3>1. todo[p][1][1] = "open" /\ todo[p][1][2] = f
      BY <2>7
    <3>2. OpenFile(p)
      BY <3>1 DEF FileStep, MakeDir, OpenFile, WriteFile, CopyFile, ReadFile, Apply, Activate, Repair, RepairPrefix, NextStep
    <3> QED
      BY <2>4, <3>1, <3>2, WorkspaceAssumption DEF OpenFile, FilesTyped
  <2>8. \A q \in Procs : \A i \in DOMAIN todo'[q] : Awaited(todo[q], i)'
    <3> SUFFICES ASSUME NEW q \in Procs, NEW i \in DOMAIN todo'[q]
                 PROVE  Awaited(todo[q], i)'
      OBVIOUS
    <3> SUFFICES ASSUME NEW g, NEW v,
                        todo'[q][i][1] = "write", g = todo'[q][i][2], v = todo'[q][i][3], g \in PointFiles,
                        LabelOf(v) # Unset, files'[Profile(LabelOf(v))] = Absent
                 PROVE  \E j \in 1..(i - 1) : todo'[q][j] = <<"open", Profile(LabelOf(v))>>
      BY Zenon DEF Awaited, Listed, Has
    <3>1. CASE q # p
      <4>1. todo'[q] = todo[q]
        BY <1>5, <3>1
      <4>2. Awaited(todo[q], i)
        BY <2>1, <4>1 DEF ListInv
      <4>3. v \in Points \cup {Empty, Absent}
        BY <2>2, <2>4, <4>1
      <4>4. ~Listed(v)
        BY <2>3, <4>3
      <4> QED
        BY <4>1, <4>2, <4>4 DEF Awaited
    <3>2. CASE q = p /\ i \in DOMAIN steps /\ todo'[p][i] = steps[i]
      <4>1. Awaited(steps, i)
        BY <1>1, <1>12, <3>2 DEF Good
      <4>2. v \in Points \cup {Empty, Absent}
        BY <2>4, <3>2, StepForms
      <4>3. ~Listed(v)
        BY <2>3, <4>2
      <4>4. PICK j \in 1..(i - 1) : steps[j] = <<"open", Profile(LabelOf(v))>>
        BY <3>2, <4>1, <4>3 DEF Awaited
      <4>5. j \in DOMAIN steps
        BY <1>5, <3>2, <4>4
      <4>6. todo'[p][j] = steps[j]
        BY <1>5, <4>5
      <4> QED
        BY <3>2, <4>4, <4>6
    <3>3. CASE q = p /\ \E k \in DOMAIN todo[p] : k # 1 /\ i = Len(steps) + k - 1 /\ todo'[p][i] = todo[p][k]
      <4>1. PICK k \in DOMAIN todo[p] : k # 1 /\ i = Len(steps) + k - 1 /\ todo'[p][i] = todo[p][k]
        BY <3>3
      <4>2. Awaited(todo[p], k)
        BY <2>1, <4>1 DEF ListInv
      <4>3. v \in Points \cup {Empty, Absent}
        BY <2>2, <2>4, <3>3, <4>1
      <4>4. ~Listed(v)
        BY <2>3, <4>3
      <4>5. PICK j \in 1..(k - 1) : todo[p][j] = <<"open", Profile(LabelOf(v))>>
        BY <3>3, <4>1, <4>2, <4>4 DEF Awaited
      <4>6. j # 1
        BY <2>7, <4>3, <4>5, PointLabels
      <4>7. /\ j \in DOMAIN todo[p] /\ Len(steps) + j - 1 \in 1..(i - 1)
        <5>1. /\ k \in Nat /\ k <= Len(todo[p]) /\ DOMAIN todo[p] = 1..Len(todo[p])
              /\ Len(todo[p]) \in Nat /\ Len(steps) \in Nat
          BY <1>5, <4>1
        <5>2. i = Len(steps) + k - 1 /\ j \in 1..(k - 1) /\ j # 1
          BY <4>1, <4>5, <4>6
        <5> QED
          BY ONLY <5>1, <5>2
      <4>8. todo'[p][Len(steps) + j - 1] = todo[p][j]
        BY <1>5, <4>6, <4>7
      <4> QED
        BY <3>3, <4>5, <4>7, <4>8
    <3> QED
      BY <1>6, <3>1, <3>2, <3>3
  <2> QED
    BY <2>6, <2>8 DEF ListInv, Listed, Has
<1> QED
  BY <1>2, <1>3, <1>8, <1>11, <1>12 DEF WsInv, Quiet

LEMMA WsBegin ==
  ASSUME WsInv, NEW p \in Procs, NEW c \in Calls, Begin(p, c)
  PROVE  WsInv'
<1>1. /\ call[p] = Idle /\ Admitted(c) /\ files' = files /\ ragged' = ragged
      /\ call' = [call EXCEPT ![p] = c] /\ todo' = [todo EXCEPT ![p] = Steps(c)]
      /\ Busy # {} => c.op # "remove" /\ \A q \in Busy : call[q].op # "remove"
  BY DEF Begin
<1>2. TypeInv'
  BY BeginTyped DEF WsInv
<1>3. PICK steps \in Seq(FileSteps) : steps = Steps(c)
  BY <1>1, StepsTyped DEF WsInv
<1>4. /\ \A q \in Procs : todo'[q] = IF q = p THEN steps ELSE todo[q]
      /\ \A q \in Procs : call'[q] = IF q = p THEN c ELSE call[q]
  BY <1>1, <1>3 DEF WsInv, TypeInv
<1>5. \A q \in Procs \ {p} : call[q].op # "remove"
  <2>1. ASSUME NEW q \in Procs \ {p}
        PROVE  call[q].op # "remove"
    <3>1. CASE call[q] = Idle
      BY <3>1 DEF Idle
    <3>2. CASE call[q] # Idle
      BY <1>1, <3>2 DEF Busy
    <3> QED
      BY <3>1, <3>2
  <2> QED
    BY <2>1
<1>6. c # Idle
  BY CallFields
<1>7. CASE c.op = "remove"
  <2>1. \A q \in Procs \ {p} : call[q] = Idle /\ todo[q] = << >>
    BY <1>1, <1>7 DEF Busy, WsInv, RemoveAlone
  <2>2. steps = << <<"unlink">> >>
    BY <1>3, <1>7, StepsByName
  <2>3. PICK s : s = <<"unlink">>
    OBVIOUS
  <2>4. DOMAIN steps = 1..1 /\ steps[1] = s /\ s[1] = "unlink"
    BY <2>2, <2>3
  <2>5. ReadsPresent'
    <3>1. \A i \in DOMAIN steps : steps[i][1] # "read"
      BY <2>4
    <3> QED
      BY <1>4, <2>1, <3>1 DEF ReadsPresent
  <2>6. RemoveAlone'
    BY <1>4, <1>6, <1>7, <2>1, <2>2 DEF RemoveAlone, Idle
  <2>7. ~Quiet'
    BY <1>4, <1>7 DEF Quiet
  <2> QED
    BY <1>2, <2>5, <2>6, <2>7 DEF WsInv
<1>8. CASE c.op # "remove"
  <2>1. Good(steps)
    BY <1>1, <1>3, <1>8, GoodSteps DEF WsInv
  <2>2. ReadsPresent'
    BY <1>1, <1>4, <2>1 DEF ReadsPresent, Has, Good, WsInv
  <2>3. RemoveAlone'
    <3>1. \A i \in DOMAIN steps : steps[i] # <<"unlink">>
      BY <2>1 DEF Good
    <3>2. \A q \in Procs : call'[q].op # "remove"
      BY <1>4, <1>5, <1>8
    <3>3. \A q \in Procs \ {p} : \A i \in DOMAIN todo[q] : todo[q][i] # <<"unlink">>
      BY <1>5 DEF WsInv, RemoveAlone
    <3>4. \A q \in Procs : \A i \in DOMAIN todo'[q] : todo'[q][i] # <<"unlink">>
      BY <1>4, <3>1, <3>3
    <3>5. \A q \in Procs : call'[q] = Idle => todo'[q] = << >>
      BY <1>4, <1>6 DEF WsInv, RemoveAlone
    <3> QED
      BY <3>2, <3>4, <3>5 DEF RemoveAlone
  <2>4. ASSUME Quiet'
        PROVE  ListInv'
    <3>1. Quiet
      <4>1. call[p].op # "remove"
        BY <1>1 DEF Idle
      <4> QED
        BY <1>1, <1>5, <2>4, <4>1 DEF Quiet
    <3>2. ListInv
      BY <3>1 DEF WsInv
    <3>3. \A f \in PointFiles : Listed(files[f])'
      BY <1>1, <3>2 DEF ListInv, Listed, Has
    <3>4. \A q \in Procs : \A i \in DOMAIN todo'[q] : Awaited(todo'[q], i)
      BY <1>4, <2>1, <3>1, <3>2 DEF ListInv, Good
    <3>5. \A t, i : Awaited(t, i) <=>
            ((t[i][1] = "write" /\ t[i][2] \in PointFiles) =>
               \/ (LabelOf(t[i][3]) # Unset => files[Profile(LabelOf(t[i][3]))] # Absent)
               \/ \E j \in 1..(i - 1) : t[j] = <<"open", Profile(LabelOf(t[i][3]))>>)
      BY Zenon DEF Awaited, Listed, Has
    <3>6. ASSUME NEW q \in Procs, NEW i \in DOMAIN todo'[q]
          PROVE  Awaited(todo[q], i)'
      <4>1. PICK t : t = todo'[q]
        OBVIOUS
      <4>2. Awaited(t, i)
        BY <3>4, <3>6, <4>1
      <4> QED
        BY <1>1, <3>5, <4>1, <4>2 DEF Awaited, Listed, Has
    <3> QED
      BY <3>3, <3>6 DEF ListInv
  <2> QED
    BY <1>2, <2>2, <2>3, <2>4 DEF WsInv
<1> QED
  BY <1>7, <1>8

(* Steps after which a process has nothing left to do, or no file is new.  *)
LEMMA WsEnd ==
  ASSUME WsInv, NEW p \in Procs, Return(p) \/ Crash(p)
  PROVE  WsInv'
<1>1. TypeInv'
  BY EndTyped DEF WsInv
<1>2. /\ files' = files /\ call' = [call EXCEPT ![p] = Idle]
      /\ ragged' = ragged \/ ragged' = (ragged \/ call[p].op = "remove")
      /\ todo' = [todo EXCEPT ![p] = << >>]
  BY DEF Return, Crash, Leave, WsInv, TypeInv
<1>3. /\ \A q \in Procs : todo'[q] = IF q = p THEN << >> ELSE todo[q]
      /\ \A q \in Procs : call'[q] = IF q = p THEN Idle ELSE call[q]
  BY <1>2 DEF WsInv, TypeInv
<1>4. ReadsPresent'
  BY <1>2, <1>3 DEF ReadsPresent, Has, WsInv
<1>5. RemoveAlone'
  BY <1>2, <1>3 DEF RemoveAlone, Has, WsInv, Idle
<1>6. ASSUME Quiet'
      PROVE  ListInv'
  <2>1. CASE call[p].op # "remove"
    <3>1. ListInv
      BY <1>2, <1>3, <1>6, <2>1 DEF Quiet, WsInv
    <3>2. \A f \in PointFiles : Listed(files[f])'
      BY <1>2, <3>1 DEF ListInv, Listed, Has
    <3>3. ASSUME NEW q \in Procs, NEW i \in DOMAIN todo'[q]
          PROVE  Awaited(todo[q], i)'
      <4>1. q # p /\ todo'[q] = todo[q]
        BY <1>3, <3>3
      <4>2. Awaited(todo[q], i)
        BY <3>1, <3>3, <4>1 DEF ListInv
      <4> QED
        BY <1>2, <4>1, <4>2 DEF Awaited, Listed, Has
    <3> QED
      BY <3>2, <3>3 DEF ListInv
  <2>2. CASE call[p].op = "remove"
    <3>1. Return(p)
      BY <1>6, <2>2 DEF Crash, Quiet
    <3>2. todo[p] = << >>
      BY <3>1 DEF Return
    <3>3. PICK t : t = << <<"unlink">> >>
      OBVIOUS
    <3>4. t # << >>
      BY <3>3
    <3>5. \A f \in Paths : ~Has(f)
      BY <2>2, <3>2, <3>3, <3>4 DEF WsInv, RemoveAlone
    <3>6. \A f \in PointFiles : LabelOf(files[f]) = Unset
      BY <3>5, PointLabels DEF Has, LabelOf
    <3>7. \A q \in Procs : todo'[q] = << >>
      BY <1>3, <2>2 DEF WsInv, RemoveAlone
    <3> QED
      BY <1>2, <3>6, <3>7 DEF ListInv, Listed
  <2> QED
    BY <2>1, <2>2
<1> QED
  BY <1>1, <1>4, <1>5, <1>6 DEF WsInv

LEMMA WsUnlink ==
  ASSUME WsInv, NEW p \in Procs, Unlink(p)
  PROVE  WsInv'
<1>1. TypeInv'
  BY UnlinkTyped DEF WsInv
<1>2. todo[p] # << >> /\ todo[p][1][1] = "unlink" /\ call' = call
  BY DEF Unlink, NextStep
<1>3. call[p].op = "remove"
  <2>1. PICK t \in Seq(FileSteps) : t = todo[p]
    BY DEF WsInv, TypeInv
  <2>2. 1 \in DOMAIN t /\ t[1] \in FileSteps
    BY <1>2, <2>1
  <2>3. t[1] = <<"unlink">>
    BY <1>2, <2>1, <2>2, StepForms
  <2> QED
    BY <2>1, <2>2, <2>3 DEF WsInv, RemoveAlone
<1>4. todo[p] = << <<"unlink">> >> /\ \A q \in Procs \ {p} : call[q] = Idle /\ todo[q] = << >>
  BY <1>2, <1>3 DEF WsInv, RemoveAlone
<1>5. /\ \A q \in Procs \ {p} : todo'[q] = << >>
      /\ \/ todo'[p] = << <<"unlink">> >>
         \/ (todo'[p] = << >> /\ \A f \in Paths : files'[f] = Absent)
  <2>1. CASE UNCHANGED todo
    BY <1>4, <2>1
  <2>2. CASE /\ {f \in Paths \ {Dir} : Has(f)} = {}
             /\ files' = [files EXCEPT ![Dir] = Absent] /\ Continue(p, << >>)
    <3>1. PICK s : s = <<"unlink">>
      OBVIOUS
    <3>2. todo[p] = << s >>
      BY <1>4, <3>1
    <3>3. PICK u : u = << >> \o Tail(<< s >>)
      OBVIOUS
    <3>4. u = << >>
      <4>1. PICK r : r = Tail(<< s >>)
        OBVIOUS
      <4>2. r = << >>
        BY <4>1
      <4>3. << >> \o r = << >>
        BY <4>2
      <4> QED
        BY <3>3, <4>1, <4>3
    <3>5. todo' = [todo EXCEPT ![p] = u]
      BY <2>2, <3>2, <3>3 DEF Continue
    <3>6. \A f \in Paths : files'[f] = Absent
      BY <2>2, PathsThere DEF Has, WsInv, TypeInv, FilesTyped
    <3> QED
      BY <1>4, <3>4, <3>5, <3>6 DEF WsInv, TypeInv
  <2> QED
    BY <2>1, <2>2 DEF Unlink
<1>6. ReadsPresent'
  <2>1. PICK t, s : s = <<"unlink">> /\ t = << s >>
    OBVIOUS
  <2>2. DOMAIN t = 1..1 /\ t[1] = s /\ s[1] = "unlink"
    BY <2>1
  <2>3. \A q \in Procs : todo'[q] = << >> \/ todo'[q] = t
    BY <1>5, <2>1
  <2> QED
    BY <2>2, <2>3 DEF ReadsPresent
<1>7. RemoveAlone'
  BY <1>2, <1>3, <1>4, <1>5 DEF RemoveAlone, Has, Idle
<1>8. ~Quiet'
  BY <1>2, <1>3 DEF Quiet
<1> QED
  BY <1>1, <1>6, <1>7, <1>8 DEF WsInv

LEMMA WsStep == WsInv /\ [Next]_vars => WsInv'
<1> SUFFICES ASSUME WsInv, [Next]_vars
             PROVE  WsInv'
  OBVIOUS
<1>1. CASE UNCHANGED vars
  BY <1>1 DEF vars, WsInv, TypeInv, FilesTyped, ReadsPresent, RemoveAlone, Quiet, ListInv, Listed,
     Awaited, Has
<1>2. CASE Next
  <2>1. PICK p \in Procs :
          \/ \E c \in Calls : Begin(p, c)
          \/ FileStep(p) \/ Unlink(p) \/ Return(p) \/ Crash(p)
    BY <1>2 DEF Next, Work, FileStep
  <2> QED
    BY <2>1, WsBegin, WsFileStep, WsUnlink, WsEnd
<1> QED
  BY <1>1, <1>2

LEMMA WsAlways == Spec => []WsInv
<1>1. Init => WsInv
  BY WsInit
<1>2. WsInv /\ [Next]_vars => WsInv'
  BY WsStep
<1> QED
  BY <1>1, <1>2, PTL DEF Spec

-----------------------------------------------------------------------------
(* Each file holds what its own writers put there, whatever the calls, the *)
(* order of their steps and the steps they are killed after: no text is    *)
(* copied, applied or repaired into the file of another (workspace.c).     *)
THEOREM FilesKeepTheirTexts == Spec => []TypeOK
<1>1. WsInv => TypeOK
  <2> SUFFICES ASSUME WsInv
               PROVE  TypeOK
    OBVIOUS
  <2>1. /\ App \in Paths /\ Prefix \in Paths /\ Current \in Paths
        /\ Kind(App) = Settings /\ Kind(Prefix) = Modes /\ Kind(Current) = Points
        /\ \A l \in Labels : Profile(l) \in Paths /\ Kind(Profile(l)) = Points
    BY KindOf, PathsThere DEF Kept, PointFiles
  <2> QED
    BY <2>1 DEF WsInv, TypeInv, FilesTyped, TypeOK
<1> QED
  BY <1>1, WsAlways, PTL

(* The active point is always a saved one: profile_apply saves a profile   *)
(* before it makes its label current, a snapshot or a rollback copies only *)
(* a label that has its file, and a kill after any step leaves it so, short *)
(* of a remove that was cut short.                                         *)
THEOREM ActivePointIsSaved == Spec => []CurrentListed
<1>1. WsInv => CurrentListed
  BY PointLabels DEF WsInv, Quiet, ListInv, Listed, CurrentListed
<1> QED
  BY <1>1, WsAlways, PTL

-----------------------------------------------------------------------------
(* What a step of a call that runs alone comes to, with the steps it adds. *)
Put(g, f, v) == [x \in Paths |-> IF x = f THEN v ELSE g[x]]

Activated(g, point) ==
  IF LabelOf(g[Current]) = point.label THEN g
  ELSE Put(Put(g, Profile(point.label), point), Current, point)

Applied(g, point) ==
  IF g[App] = Absent THEN g
  ELSE Activated(Put(g, App, [Load(g[App]) EXCEPT !.runner = point.runner]), point)

Kit(v) == IF v = Absent THEN Defaults ELSE Load(v)

Repaired(g) ==
  Put(Put(g, Prefix, IF g[Prefix] = Absent THEN "win10" ELSE g[Prefix]),
      App, [Kit(g[App]) EXCEPT !.shortcut = TRUE])

(* What repair does once it has an app.conf, which is w.                   *)
Furnished(g, w) ==
  IF w.shortcut THEN Put(g, Prefix, IF g[Prefix] = Absent THEN "win10" ELSE g[Prefix])
  ELSE Put(Put(g, Prefix, IF g[Prefix] = Absent THEN "win10" ELSE g[Prefix]),
           App, [w EXCEPT !.shortcut = TRUE])

Copied(g, f, x) == IF g[f] = Absent THEN g ELSE Put(g, x, g[f])

Do(s, g) ==
  IF s[1] \in {"mkdir", "open"} THEN Put(g, s[2], Empty)
  ELSE IF s[1] = "write" THEN Put(g, s[2], s[3])
  ELSE IF s[1] \in {"copy", "read"} THEN Copied(g, s[2], s[3])
  ELSE IF s[1] = "apply" THEN Applied(g, s[2])
  ELSE IF s[1] = "activate" THEN Activated(g, s[2])
  ELSE IF s[1] = "repair" THEN Repaired(g)
  ELSE IF s[1] = "prefix" THEN Furnished(g, s[2])
  ELSE NoFiles

Fills(s, f) == (s[1] = "write" /\ s[2] = f) \/ (s[1] = "read" /\ s[3] = f)

(* The steps t take the files from g to h, and wherever they get to, the   *)
(* only file of whole that is truncated is the one the next step fills.    *)
Leads(whole, g, t, h) ==
  \E r : /\ r[0] = g /\ r[Len(t)] = h
         /\ \A i \in 1..Len(t) :
              /\ r[i] = Do(t[i], r[i - 1])
              /\ \A f \in whole : r[i - 1][f] = Empty => Fills(t[i], f)

Clean(whole, g) == \A f \in whole : g[f] # Empty

LEMMA DoNamed ==
  ASSUME NEW g
  PROVE  /\ \A f : Do(<<"mkdir", f>>, g) = Put(g, f, Empty)
         /\ \A f : Do(<<"open", f>>, g) = Put(g, f, Empty)
         /\ \A f, v : Do(<<"write", f, v>>, g) = Put(g, f, v)
         /\ \A f, x : Do(<<"copy", f, x>>, g) = Copied(g, f, x)
         /\ \A f, x : Do(<<"read", f, x>>, g) = Copied(g, f, x)
         /\ \A point : Do(<<"apply", point>>, g) = Applied(g, point)
         /\ \A point : Do(<<"activate", point>>, g) = Activated(g, point)
         /\ Do(<<"repair">>, g) = Repaired(g)
         /\ \A w : Do(<<"prefix", w>>, g) = Furnished(g, w)
         /\ Do(<<"unlink">>, g) = NoFiles
BY DEF Do

LEMMA PutExcept ==
  ASSUME NEW g, DOMAIN g = Paths, g = [x \in Paths |-> g[x]], NEW f, NEW v
  PROVE  [g EXCEPT ![f] = v] = Put(g, f, v)
BY DEF Put

LEMMA Pair ==
  ASSUME NEW S, NEW a \in S, NEW b \in S
  PROVE  << a >> \o << b >> = << a, b >>
<1>0. << a >> \in Seq(S) /\ << b >> \in Seq(S)
  OBVIOUS
<1>1. PICK x, y, u : x = << a >> /\ y = << b >> /\ u = x \o y
  OBVIOUS
<1>2. /\ Len(x) = 1 /\ Len(y) = 1 /\ x[1] = a /\ y[1] = b
      /\ x \in Seq(S) /\ y \in Seq(S)
  BY <1>0, <1>1
<1>3. u \in Seq(S) /\ Len(u) = 2 /\ \A i \in 1..2 : u[i] = IF i <= 1 THEN x[i] ELSE y[i - 1]
  BY <1>1, <1>2, ConcatProperties
<1>4. u[1] = a /\ u[2] = b
  BY <1>2, <1>3
<1>5. PICK w : w = << a, b >>
  OBVIOUS
<1>6. w \in Seq(S) /\ Len(w) = 2 /\ w[1] = a /\ w[2] = b
  BY <1>5
<1>7. \A i \in 1..2 : u[i] = w[i]
  BY <1>4, <1>6
<1>8. u = w
  BY <1>3, <1>6, <1>7, SeqEqual
<1> QED
  BY <1>1, <1>5, <1>8

LEMMA Triple ==
  ASSUME NEW S, NEW a \in S, NEW b \in S, NEW c \in S
  PROVE  << a, b, c >> = << a >> \o << b >> \o << c >>
<1>1. PICK x, y : x = << a, b >> /\ y = << c >>
  OBVIOUS
<1>2. PICK u, w : u = x \o y /\ w = << a, b, c >>
  OBVIOUS
<1>3. /\ x \in Seq(S) /\ y \in Seq(S) /\ Len(x) = 2 /\ Len(y) = 1
      /\ x[1] = a /\ x[2] = b /\ y[1] = c
  BY <1>1
<1>4. u \in Seq(S) /\ Len(u) = 3 /\ \A i \in 1..3 : u[i] = IF i <= 2 THEN x[i] ELSE y[i - 2]
  <2>1. /\ u \in Seq(S) /\ Len(u) = Len(x) + Len(y)
        /\ \A i \in 1..Len(x) + Len(y) : u[i] = IF i <= Len(x) THEN x[i] ELSE y[i - Len(x)]
    BY <1>2, <1>3, ConcatProperties
  <2> QED
    BY <1>3, <2>1
<1>5. u[1] = a /\ u[2] = b /\ u[3] = c
  BY <1>3, <1>4
<1>6. w \in Seq(S) /\ Len(w) = 3 /\ w[1] = a /\ w[2] = b /\ w[3] = c
  BY <1>2
<1>7. \A i \in 1..3 : u[i] = w[i]
  BY <1>5, <1>6
<1>8. u = w
  BY <1>4, <1>6, <1>7, SeqEqual
<1> QED
  BY <1>1, <1>2, <1>8, Pair, Zenon

LEMMA Quadruple ==
  ASSUME NEW S, NEW a \in S, NEW b \in S, NEW c \in S, NEW d \in S
  PROVE  << a, b, c, d >> = << a, b, c >> \o << d >>
<1>1. PICK x, y : x = << a, b, c >> /\ y = << d >>
  OBVIOUS
<1>2. PICK u, w : u = x \o y /\ w = << a, b, c, d >>
  OBVIOUS
<1>3. /\ x \in Seq(S) /\ y \in Seq(S) /\ Len(x) = 3 /\ Len(y) = 1
      /\ x[1] = a /\ x[2] = b /\ x[3] = c /\ y[1] = d
  BY <1>1
<1>4. u \in Seq(S) /\ Len(u) = 4 /\ \A i \in 1..4 : u[i] = IF i <= 3 THEN x[i] ELSE y[i - 3]
  <2>1. /\ u \in Seq(S) /\ Len(u) = Len(x) + Len(y)
        /\ \A i \in 1..Len(x) + Len(y) : u[i] = IF i <= Len(x) THEN x[i] ELSE y[i - Len(x)]
    BY <1>2, <1>3, ConcatProperties
  <2> QED
    BY <1>3, <2>1
<1>5. u[1] = a /\ u[2] = b /\ u[3] = c /\ u[4] = d
  BY <1>3, <1>4
<1>6. w \in Seq(S) /\ Len(w) = 4 /\ w[1] = a /\ w[2] = b /\ w[3] = c /\ w[4] = d
  BY <1>2
<1>7. \A i \in 1..4 : u[i] = w[i]
  BY <1>5, <1>6
<1>8. u = w
  BY <1>4, <1>6, <1>7, SeqEqual
<1> QED
  BY <1>1, <1>2, <1>8

LEMMA LeadsNone ==
  ASSUME NEW whole, NEW g
  PROVE  Leads(whole, g, << >>, g)
<1>1. PICK r : r = [i \in 0..0 |-> g]
  OBVIOUS
<1>2. r[0] = g /\ Len(<< >>) = 0
  BY <1>1
<1> QED
  BY <1>2 DEF Leads

LEMMA LeadsNowhere ==
  ASSUME NEW whole, NEW g, NEW h, Leads(whole, g, << >>, h)
  PROVE  g = h
BY DEF Leads

LEMMA LeadsOne ==
  ASSUME NEW whole, NEW s, NEW g, NEW h, h = Do(s, g),
         \A f \in whole : g[f] = Empty => Fills(s, f)
  PROVE  Leads(whole, g, << s >>, h)
<1>1. PICK r : r = [i \in 0..1 |-> IF i = 0 THEN g ELSE h]
  OBVIOUS
<1>2. PICK t : t = << s >>
  OBVIOUS
<1>3. r[0] = g /\ r[1] = h /\ Len(t) = 1 /\ t[1] = s
  BY <1>1, <1>2
<1>4. Leads(whole, g, t, h)
  BY <1>3 DEF Leads
<1> QED
  BY <1>2, <1>4

LEMMA LeadsParts ==
  ASSUME NEW whole, NEW a \in Seq(FileSteps), NEW b \in Seq(FileSteps), NEW f, NEW g, NEW h,
         Leads(whole, f, a, g), Leads(whole, g, b, h)
  PROVE  Leads(whole, f, a \o b, h)
<1>1. PICK n \in Nat, m \in Nat : n = Len(a) /\ m = Len(b)
  OBVIOUS
<1>2. PICK u : u = a \o b
  OBVIOUS
<1>3. Len(u) = n + m /\ \A i \in 1..(n + m) : u[i] = IF i <= n THEN a[i] ELSE b[i - n]
  BY <1>1, <1>2, ConcatProperties
<1>4. PICK x : /\ x[0] = f /\ x[n] = g
               /\ \A i \in 1..n : /\ x[i] = Do(a[i], x[i - 1])
                                  /\ \A k \in whole : x[i - 1][k] = Empty => Fills(a[i], k)
  BY <1>1 DEF Leads
<1>5. PICK y : /\ y[0] = g /\ y[m] = h
               /\ \A i \in 1..m : /\ y[i] = Do(b[i], y[i - 1])
                                  /\ \A k \in whole : y[i - 1][k] = Empty => Fills(b[i], k)
  BY <1>1 DEF Leads
<1>6. PICK r : r = [i \in 0..(n + m) |-> IF i <= n THEN x[i] ELSE y[i - n]]
  OBVIOUS
<1>7. \A i \in 0..(n + m) : r[i] = IF i <= n THEN x[i] ELSE y[i - n]
  BY <1>6
<1>8. r[0] = f /\ r[n + m] = h
  <2>1. r[0] = f
    BY <1>4, <1>7
  <2>2. CASE m = 0
    BY <1>4, <1>5, <1>7, <2>2
  <2>3. CASE m > 0
    <3>1. PICK k \in 0..(n + m) : k = n + m /\ ~ (k <= n) /\ k - n = m
      BY <2>3
    <3>2. r[k] = y[k - n]
      BY <1>7, <3>1
    <3> QED
      BY <1>5, <2>1, <3>1, <3>2
  <2> QED
    BY <2>1, <2>2, <2>3
<1>9. ASSUME NEW i \in 1..(n + m)
      PROVE  /\ r[i] = Do(u[i], r[i - 1])
             /\ \A k \in whole : r[i - 1][k] = Empty => Fills(u[i], k)
  <2>1. PICK j \in 0..(n + m) : j = i - 1 /\ i \in 0..(n + m)
    OBVIOUS
  <2>2. CASE i <= n
    <3>1. u[i] = a[i]
      BY <1>3, <2>2
    <3>2. r[i] = x[i]
      BY <1>7, <2>1, <2>2
    <3>3. r[j] = x[j]
      BY <1>7, <2>1, <2>2
    <3>4. i \in 1..n
      BY <2>2
    <3> QED
      BY <1>4, <2>1, <3>1, <3>2, <3>3, <3>4
  <2>3. CASE i > n
    <3>1. PICK k \in 1..m : k = i - n
      BY <2>3
    <3>2. r[j] = y[k - 1]
      <4>1. CASE k = 1
        <5>1. j = n /\ j <= n /\ k - 1 = 0
          BY <2>1, <3>1, <4>1
        <5>2. r[j] = x[j]
          BY <1>7, <5>1
        <5> QED
          BY <1>4, <1>5, <5>1, <5>2
      <4>2. CASE k # 1
        <5>1. ~ (j <= n) /\ j - n = k - 1
          BY <2>1, <3>1, <4>2
        <5>2. r[j] = y[j - n]
          BY <1>7, <5>1
        <5> QED
          BY <5>1, <5>2
      <4> QED
        BY <4>1, <4>2
    <3>3. r[i] = y[i - n]
      BY <1>7, <2>1, <2>3
    <3>4. u[i] = b[i - n]
      BY <1>3, <2>3
    <3>5. y[k] = Do(b[k], y[k - 1]) /\ \A z \in whole : y[k - 1][z] = Empty => Fills(b[k], z)
      BY <1>5
    <3> QED
      BY <2>1, <3>1, <3>2, <3>3, <3>4, <3>5
  <2> QED
    BY <2>2, <2>3
<1>10. Leads(whole, f, u, h)
  <2>1. PICK l : l = Len(u) /\ l = n + m
    BY <1>3
  <2>2. r[0] = f /\ r[l] = h
    BY <1>8, <2>1
  <2>3. \A i \in 1..l : /\ r[i] = Do(u[i], r[i - 1])
                        /\ \A k \in whole : r[i - 1][k] = Empty => Fills(u[i], k)
    BY <1>9, <2>1
  <2> QED
    BY <2>1, <2>2, <2>3 DEF Leads
<1> QED
  BY <1>2, <1>10

LEMMA LeadsHead ==
  ASSUME NEW whole, NEW t \in Seq(FileSteps), t # << >>, NEW g, NEW h, Leads(whole, g, t, h)
  PROVE  /\ Leads(whole, Do(t[1], g), Tail(t), h)
         /\ \A f \in whole : g[f] = Empty => Fills(t[1], f)
<1>1. PICK n \in Nat : n = Len(t) /\ n > 0
  OBVIOUS
<1>2. PICK u : u = Tail(t)
  OBVIOUS
<1>3. Len(u) = n - 1 /\ \A i \in 1..(n - 1) : u[i] = t[i + 1]
  BY <1>1, <1>2, HeadTailProperties
<1>4. PICK x : /\ x[0] = g /\ x[n] = h
               /\ \A i \in 1..n : /\ x[i] = Do(t[i], x[i - 1])
                                  /\ \A f \in whole : x[i - 1][f] = Empty => Fills(t[i], f)
  BY <1>1 DEF Leads
<1>5. x[1] = Do(t[1], g) /\ \A f \in whole : g[f] = Empty => Fills(t[1], f)
  <2>1. 1 \in 1..n /\ 1 - 1 = 0
    BY <1>1
  <2> QED
    BY <1>4, <2>1
<1>6. PICK r : r = [i \in 0..(n - 1) |-> x[i + 1]]
  OBVIOUS
<1>7. \A i \in 0..(n - 1) : r[i] = x[i + 1]
  BY <1>6
<1>8. r[0] = x[1] /\ r[n - 1] = h
  <2>1. PICK k \in 0..(n - 1) : k = n - 1 /\ k + 1 = n /\ 0 \in 0..(n - 1) /\ 0 + 1 = 1
    BY <1>1
  <2>2. r[k] = x[k + 1] /\ r[0] = x[0 + 1]
    BY <1>7, <2>1
  <2> QED
    BY <1>4, <2>1, <2>2
<1>9. ASSUME NEW i \in 1..(n - 1)
      PROVE  /\ r[i] = Do(u[i], r[i - 1])
             /\ \A f \in whole : r[i - 1][f] = Empty => Fills(u[i], f)
  <2>1. PICK k \in 1..n, j \in 0..(n - 1) :
          k = i + 1 /\ j = i - 1 /\ k - 1 = i /\ j + 1 = i /\ i \in 0..(n - 1)
    BY <1>1
  <2>2. r[i] = x[k] /\ r[j] = x[j + 1] /\ u[i] = t[k]
    BY <1>3, <1>7, <2>1
  <2>3. x[k] = Do(t[k], x[k - 1]) /\ \A f \in whole : x[k - 1][f] = Empty => Fills(t[k], f)
    BY <1>4
  <2> QED
    BY <2>1, <2>2, <2>3
<1>10. Leads(whole, x[1], u, h)
  BY <1>3, <1>8, <1>9 DEF Leads
<1> QED
  BY <1>2, <1>5, <1>10

LEMMA LeadsSave ==
  ASSUME NEW whole \in SUBSET Paths, NEW f \in Paths, NEW v \in Kind(f), NEW g, Clean(whole, g)
  PROVE  Leads(whole, g, Save(f, v), Put(g, f, v)) /\ Clean(whole, Put(g, f, v))
<1>1. PICK a, b : a = <<"open", f>> /\ b = <<"write", f, v>>
  OBVIOUS
<1>2. PICK k, l : k = Put(g, f, Empty) /\ l = Put(k, f, v)
  OBVIOUS
<1>3. l = Put(g, f, v)
  BY <1>2 DEF Put
<1>4. k = Do(a, g)
  BY <1>1, <1>2, DoNamed, Zenon
<1>5. l = Do(b, k)
  BY <1>1, <1>2 DEF Do
<1>6. a \in FileSteps /\ b \in FileSteps
  BY <1>1, StepsThere
<1>7. Leads(whole, g, << a >>, k)
  BY <1>4, LeadsOne DEF Clean
<1>8. \A x \in whole : k[x] = Empty => Fills(b, x)
  <2>1. \A x \in whole : k[x] = Empty => x = f
    BY <1>2 DEF Put, Clean
  <2>2. Fills(b, f)
    BY <1>1 DEF Fills
  <2> QED
    BY <2>1, <2>2
<1>9. Leads(whole, k, << b >>, l)
  BY <1>5, <1>8, LeadsOne
<1>10. << a >> \in Seq(FileSteps) /\ << b >> \in Seq(FileSteps)
  BY <1>6
<1>11. Leads(whole, g, << a >> \o << b >>, l)
  BY <1>7, <1>9, <1>10, LeadsParts
<1>12. << a >> \o << b >> = Save(f, v)
  BY <1>1, <1>6, Pair, Zenon DEF Save
<1>13. v # Empty
  BY WorkspaceAssumption DEF Kind
<1>14. Clean(whole, Put(g, f, v))
  BY <1>13 DEF Clean, Put
<1> QED
  BY <1>3, <1>11, <1>12, <1>14

LEMMA LeadsDir ==
  ASSUME NEW whole \in SUBSET Texts, NEW d \in Dirs, NEW g, Clean(whole, g)
  PROVE  /\ Leads(whole, g, << <<"mkdir", d>> >>, Put(g, d, Empty))
         /\ Clean(whole, Put(g, d, Empty))
<1>1. Put(g, d, Empty) = Do(<<"mkdir", d>>, g)
  BY DoNamed, Zenon
<1>2. Leads(whole, g, << <<"mkdir", d>> >>, Put(g, d, Empty))
  <2>1. PICK s, h : s = <<"mkdir", d>> /\ h = Put(g, d, Empty)
    OBVIOUS
  <2>2. h = Do(s, g)
    BY <1>1, <2>1, Zenon
  <2>3. Leads(whole, g, << s >>, h)
    BY <2>2, LeadsOne DEF Clean
  <2> QED
    BY <2>1, <2>3, Zenon
<1>3. d \notin whole /\ whole \subseteq Paths
  BY DEF Texts, Dirs
<1> QED
  BY <1>2, <1>3 DEF Clean, Put

LEMMA LeadsCopy ==
  ASSUME NEW whole \in SUBSET Paths, NEW f \in Paths, NEW x \in Paths, NEW g, Clean(whole, g),
         x \in whole => g[f] # Empty
  PROVE  /\ Leads(whole, g, << <<"copy", f, x>> >>, Copied(g, f, x))
         /\ Clean(whole, Copied(g, f, x))
<1>1. Copied(g, f, x) = Do(<<"copy", f, x>>, g)
  BY DoNamed, Zenon
<1>2. Leads(whole, g, << <<"copy", f, x>> >>, Copied(g, f, x))
  <2>1. PICK s, h : s = <<"copy", f, x>> /\ h = Copied(g, f, x)
    OBVIOUS
  <2>2. h = Do(s, g)
    BY <1>1, <2>1, Zenon
  <2>3. Leads(whole, g, << s >>, h)
    BY <2>2, LeadsOne DEF Clean
  <2> QED
    BY <2>1, <2>3, Zenon
<1> QED
  BY <1>2 DEF Clean, Copied, Put

LEMMA LeadsStep ==
  ASSUME NEW whole, NEW s, NEW g, Clean(whole, g)
  PROVE  Leads(whole, g, << s >>, Do(s, g))
<1>1. PICK h : h = Do(s, g)
  OBVIOUS
<1>2. Leads(whole, g, << s >>, h)
  BY <1>1, LeadsOne DEF Clean
<1> QED
  BY <1>1, <1>2

-----------------------------------------------------------------------------
(* What a call comes to when nothing comes between: as Effect has it, but  *)
(* for what an apply under the current label leaves alone.                 *)
Outcome(c, f) ==
  IF c.op = "apply" THEN Applied(f, c.point)
  ELSE IF c.op = "import"
       THEN Applied([f EXCEPT ![Dir] = Empty, ![Profile(c.point.label)] = c.point], c.point)
  ELSE Effect(c, f)

(* The files that a call is not to leave truncated.                        *)
WholeFiles(c, g) == {f \in Texts : g[f] # Empty /\ Outcome(c, g)[f] # Empty}

LEMMA OutcomeByName ==
  ASSUME NEW c \in Calls, NEW f
  PROVE  /\ c.op = "install" =>
              Outcome(c, f) = [f EXCEPT ![Dir] = Empty, ![Prefix] = "win10",
                                       ![App] = [Defaults EXCEPT !.shortcut = TRUE]]
         /\ c.op = "set" => Outcome(c, f) = [f EXCEPT ![App] = [Load(@) EXCEPT !.runner = c.runner]]
         /\ c.op = "mode" => Outcome(c, f) = [f EXCEPT ![Prefix] = c.mode]
         /\ c.op = "save" =>
              Outcome(c, f) = [f EXCEPT ![Dir] = Empty, ![Profile(c.point.label)] = c.point]
         /\ c.op = "apply" => Outcome(c, f) = Applied(f, c.point)
         /\ c.op = "import" =>
              Outcome(c, f) =
                Applied([f EXCEPT ![Dir] = Empty, ![Profile(c.point.label)] = c.point], c.point)
         /\ c.op = "snapshot" =>
              Outcome(c, f) =
                [g \in Paths |->
                   IF \E s \in Saved : g = Snap(c.snap, s) /\ f[s] # Absent
                   THEN f[CHOOSE s \in Saved : g = Snap(c.snap, s)]
                   ELSE IF g = SnapDir(c.snap) THEN Empty
                   ELSE IF g = SnapLabel(c.snap) THEN c.snap ELSE f[g]]
         /\ c.op = "rollback" =>
              Outcome(c, f) =
                [g \in Paths |->
                   IF g \in Saved /\ f[Snap(c.snap, g)] # Absent THEN f[Snap(c.snap, g)] ELSE f[g]]
         /\ c.op = "repair" =>
              Outcome(c, f) =
                [f EXCEPT ![Dir] = Empty,
                          ![Prefix] = IF @ = Absent THEN "win10" ELSE @,
                          ![App] = [IF @ = Absent THEN Defaults ELSE Load(@) EXCEPT !.shortcut = TRUE]]
         /\ c.op = "remove" => Outcome(c, f) = [g \in Paths |-> Absent]
BY DEF Outcome, Effect

Tree(g) == DOMAIN g = Paths /\ g = [x \in Paths |-> g[x]]

LEMMA TreePut ==
  ASSUME NEW g, NEW f, NEW v
  PROVE  /\ Tree(Put(g, f, v))
         /\ \A x \in Paths : Put(g, f, v)[x] = IF x = f THEN v ELSE g[x]
<1>1. PICK h : h = Put(g, f, v)
  OBVIOUS
<1>2. h = [x \in Paths |-> IF x = f THEN v ELSE g[x]]
  BY <1>1 DEF Put
<1>3. Tree(h) /\ \A x \in Paths : h[x] = IF x = f THEN v ELSE g[x]
  BY <1>2 DEF Tree
<1> QED
  BY <1>1, <1>3

LEMMA SameTree ==
  ASSUME NEW g, NEW h, Tree(g), Tree(h), \A f \in Paths : g[f] = h[f]
  PROVE  g = h
BY DEF Tree

LEMMA FilesTree == TypeInv => Tree(files)
BY DEF TypeInv, FilesTyped, Tree

LEMMA CleanStart ==
  ASSUME NEW c
  PROVE  /\ WholeFiles(c, files) \in SUBSET Texts /\ WholeFiles(c, files) \in SUBSET Paths
         /\ Clean(WholeFiles(c, files), files)
         /\ \A f \in WholeFiles(c, files) : Outcome(c, files)[f] # Empty
BY DEF WholeFiles, Texts, Clean

LEMMA PathKinds ==
  /\ App \in Paths /\ Prefix \in Paths /\ Current \in Paths /\ Dir \in Dirs /\ Dir \in Paths
  /\ Kind(App) = Settings /\ Kind(Prefix) = Modes /\ Kind(Current) = Points
  /\ \A l \in Labels : Profile(l) \in Paths /\ Kind(Profile(l)) = Points
  /\ \A s \in Snaps : SnapDir(s) \in Dirs /\ SnapLabel(s) \in Paths /\ Kind(SnapLabel(s)) = Snaps
  /\ \A point \in Points : point.label \in Labels /\ point.runner \in Runners
BY KindOf, PathsThere DEF Kept, PointFiles, Points

LEMMA InstallLeads ==
  ASSUME TypeInv, NEW c \in Calls, c.op = "install"
  PROVE  Leads(WholeFiles(c, files), files, Install, Outcome(c, files))
<1>1. PICK whole : whole = WholeFiles(c, files)
  OBVIOUS
<1>2. PICK v : v = [Defaults EXCEPT !.shortcut = TRUE]
  OBVIOUS
<1>3. v \in Settings /\ Defaults \in Settings /\ "win10" \in Modes
  BY <1>2, DefaultsTyped DEF Modes
<1>4. PICK g1, g2, g3, g4 : /\ g1 = Put(files, Dir, Empty) /\ g2 = Put(g1, Prefix, "win10")
                            /\ g3 = Put(g2, App, Defaults) /\ g4 = Put(g3, App, v)
  OBVIOUS
<1>5. Leads(whole, files, << <<"mkdir", Dir>> >>, g1) /\ Clean(whole, g1)
  BY <1>1, <1>4, CleanStart, LeadsDir, PathKinds
<1>6. Leads(whole, g1, Save(Prefix, "win10"), g2) /\ Clean(whole, g2)
  BY <1>1, <1>3, <1>4, <1>5, CleanStart, LeadsSave, PathKinds
<1>7. Leads(whole, g2, Save(App, Defaults), g3) /\ Clean(whole, g3)
  BY <1>1, <1>3, <1>4, <1>6, CleanStart, LeadsSave, PathKinds
<1>8. Leads(whole, g3, Save(App, v), g4)
  BY <1>1, <1>3, <1>4, <1>7, CleanStart, LeadsSave, PathKinds
<1>9. /\ << <<"mkdir", Dir>> >> \in Seq(FileSteps) /\ Save(Prefix, "win10") \in Seq(FileSteps)
      /\ Save(App, Defaults) \in Seq(FileSteps) /\ Save(App, v) \in Seq(FileSteps)
  BY <1>3, PathKinds, SaveSteps, StepsThere, OneStep
<1>10. Leads(whole, files, Install, g4)
  <2>1. PICK a, b, d, e \in Seq(FileSteps) :
          /\ a = << <<"mkdir", Dir>> >> /\ b = Save(Prefix, "win10")
          /\ d = Save(App, Defaults) /\ e = Save(App, v)
    BY <1>9
  <2>2. Leads(whole, files, a \o b, g2) /\ a \o b \in Seq(FileSteps)
    BY <1>5, <1>6, <2>1, LeadsParts, TwoParts
  <2>3. Leads(whole, files, a \o b \o d, g3) /\ a \o b \o d \in Seq(FileSteps)
    BY <1>7, <2>1, <2>2, LeadsParts, TwoParts
  <2>4. Leads(whole, files, a \o b \o d \o e, g4)
    BY <1>8, <2>1, <2>3, LeadsParts
  <2> QED
    BY <1>2, <2>1, <2>4, Zenon DEF Install
<1>11. Outcome(c, files) = g4
  <2>1. PICK h : h = [files EXCEPT ![Dir] = Empty, ![Prefix] = "win10", ![App] = v]
    OBVIOUS
  <2>2. Tree(h) /\ \A x \in Paths : h[x] = IF x = App THEN v ELSE IF x = Prefix THEN "win10"
                                           ELSE IF x = Dir THEN Empty ELSE files[x]
    BY <2>1, FilesTree DEF Tree
  <2>3. Tree(g4) /\ \A x \in Paths : g4[x] = IF x = App THEN v ELSE IF x = Prefix THEN "win10"
                                             ELSE IF x = Dir THEN Empty ELSE files[x]
    BY <1>4, TreePut
  <2>4. h = g4
    BY <2>2, <2>3, SameTree
  <2> QED
    BY <1>2, <2>1, <2>4, OutcomeByName
<1> QED
  BY <1>1, <1>10, <1>11

LEMMA SetLeads ==
  ASSUME TypeInv, NEW c \in Calls, c.op = "set", Has(App)
  PROVE  Leads(WholeFiles(c, files), files, SetField(c.runner), Outcome(c, files))
<1>1. PICK v : v = [Load(files[App]) EXCEPT !.runner = c.runner]
  OBVIOUS
<1>2. v \in Settings
  BY <1>1, CallFields, HasApp, LoadTyped DEF TypeInv
<1>3. Leads(WholeFiles(c, files), files, Save(App, v), Put(files, App, v))
  BY <1>2, CleanStart, LeadsSave, PathKinds
<1>4. Outcome(c, files) = [files EXCEPT ![App] = v]
  BY <1>1, OutcomeByName, PathKinds, FilesTree DEF Tree
<1>5. Outcome(c, files) = Put(files, App, v)
  BY <1>4, PutExcept, FilesTree DEF Tree
<1> QED
  BY <1>1, <1>3, <1>5 DEF SetField

LEMMA ModeLeads ==
  ASSUME TypeInv, NEW c \in Calls, c.op = "mode"
  PROVE  Leads(WholeFiles(c, files), files, SetConfig(c.mode), Outcome(c, files))
<1>1. Leads(WholeFiles(c, files), files, Save(Prefix, c.mode), Put(files, Prefix, c.mode))
  BY CallFields, CleanStart, LeadsSave, PathKinds
<1>2. Outcome(c, files) = Put(files, Prefix, c.mode)
  <2>1. Outcome(c, files) = [files EXCEPT ![Prefix] = c.mode]
    BY OutcomeByName
  <2> QED
    BY <2>1, PutExcept, FilesTree DEF Tree
<1> QED
  BY <1>1, <1>2 DEF SetConfig

(* The directory and the point's own file, of save and of import.          *)
LEMMA ProfileLeads ==
  ASSUME TypeInv, NEW whole \in SUBSET Texts, Clean(whole, files), NEW point \in Points
  PROVE  LET g == [files EXCEPT ![Dir] = Empty, ![Profile(point.label)] = point]
         IN  Leads(whole, files, ProfileSave(point), g) /\ Clean(whole, g) /\ Tree(g)
<1>1. PICK f \in Paths : f = Profile(point.label) /\ point \in Kind(f)
  BY PathKinds
<1>2. PICK g1, g2 : g1 = Put(files, Dir, Empty) /\ g2 = Put(g1, f, point)
  OBVIOUS
<1>3. Leads(whole, files, << <<"mkdir", Dir>> >>, g1) /\ Clean(whole, g1)
  BY <1>2, LeadsDir, PathKinds
<1>4. Leads(whole, g1, Save(f, point), g2) /\ Clean(whole, g2)
  <2>1. whole \in SUBSET Paths
    BY DEF Texts
  <2> QED
    BY <1>1, <1>2, <1>3, <2>1, LeadsSave
<1>5. << <<"mkdir", Dir>> >> \in Seq(FileSteps) /\ Save(f, point) \in Seq(FileSteps)
  BY <1>1, PathKinds, SaveSteps, StepsThere, OneStep
<1>6. Leads(whole, files, << <<"mkdir", Dir>> >> \o Save(f, point), g2)
  BY <1>3, <1>4, <1>5, LeadsParts
<1>7. PICK h : h = [files EXCEPT ![Dir] = Empty, ![f] = point]
  OBVIOUS
<1>8. Tree(h) /\ \A x \in Paths : h[x] = IF x = f THEN point ELSE IF x = Dir THEN Empty ELSE files[x]
  BY <1>7, FilesTree DEF Tree
<1>9. Tree(g2) /\ \A x \in Paths : g2[x] = IF x = f THEN point ELSE IF x = Dir THEN Empty ELSE files[x]
  BY <1>2, TreePut
<1>10. h = g2
  BY <1>8, <1>9, SameTree
<1> QED
  BY <1>1, <1>4, <1>6, <1>7, <1>8, <1>10, Zenon DEF ProfileSave

LEMMA ApplyLeads ==
  ASSUME NEW whole, NEW g, Clean(whole, g), NEW point
  PROVE  Leads(whole, g, ProfileApply(point), Applied(g, point))
<1>1. PICK s : s = <<"apply", point>>
  OBVIOUS
<1>2. Do(s, g) = Applied(g, point)
  BY <1>1, DoNamed, Zenon
<1>3. Leads(whole, g, << s >>, Do(s, g))
  BY LeadsStep
<1> QED
  BY <1>1, <1>2, <1>3, Zenon DEF ProfileApply

LEMMA ImportLeads ==
  ASSUME TypeInv, NEW c \in Calls, c.op = "import"
  PROVE  Leads(WholeFiles(c, files), files, ProfileImport(c.point), Outcome(c, files))
<1>1. PICK whole : whole = WholeFiles(c, files)
  OBVIOUS
<1>2. PICK point \in Points : point = c.point
  BY CallFields
<1>3. PICK g : g = [files EXCEPT ![Dir] = Empty, ![Profile(point.label)] = point]
  OBVIOUS
<1>4. whole \in SUBSET Texts /\ Clean(whole, files)
  BY <1>1, CleanStart
<1>5. Leads(whole, files, ProfileSave(point), g) /\ Clean(whole, g) /\ Tree(g)
  BY <1>3, <1>4, ProfileLeads
<1>6. Leads(whole, g, ProfileApply(point), Applied(g, point))
  BY <1>5, ApplyLeads
<1>7. ProfileSave(point) \in Seq(FileSteps) /\ ProfileApply(point) \in Seq(FileSteps)
  <2>1. /\ << <<"mkdir", Dir>> >> \in Seq(FileSteps) /\ << <<"apply", point>> >> \in Seq(FileSteps)
        /\ Save(Profile(point.label), point) \in Seq(FileSteps)
    BY PathKinds, SaveSteps, StepsThere, OneStep
  <2> QED
    BY <2>1, TwoParts, Zenon DEF ProfileSave, ProfileApply
<1>8. Leads(whole, files, ProfileImport(point), Applied(g, point))
  BY <1>5, <1>6, <1>7, LeadsParts DEF ProfileImport
<1>9. Outcome(c, files) = Applied(g, point)
  BY <1>2, <1>3, OutcomeByName, Zenon
<1> QED
  BY <1>1, <1>2, <1>8, <1>9

LEMMA RemoveLeads ==
  ASSUME NEW c \in Calls, c.op = "remove"
  PROVE  Leads(WholeFiles(c, files), files, << <<"unlink">> >>, Outcome(c, files))
<1>1. PICK s : s = <<"unlink">>
  OBVIOUS
<1>2. Do(s, files) = NoFiles
  BY <1>1, DoNamed, Zenon
<1>3. Outcome(c, files) = NoFiles
  BY OutcomeByName DEF NoFiles
<1>4. Leads(WholeFiles(c, files), files, << s >>, Do(s, files))
  BY CleanStart, LeadsStep
<1> QED
  BY <1>1, <1>2, <1>3, <1>4, Zenon

LEMMA RepairEffect ==
  ASSUME NEW g, Tree(g)
  PROVE  [g EXCEPT ![Dir] = Empty,
                   ![Prefix] = IF @ = Absent THEN "win10" ELSE @,
                   ![App] = [IF @ = Absent THEN Defaults ELSE Load(@) EXCEPT !.shortcut = TRUE]]
           = Repaired(Put(g, Dir, Empty))
<1>1. PICK v : v = [Kit(g[App]) EXCEPT !.shortcut = TRUE]
  OBVIOUS
<1>2. PICK w : w = IF g[Prefix] = Absent THEN "win10" ELSE g[Prefix]
  OBVIOUS
<1>3. PICK h : h = [g EXCEPT ![Dir] = Empty, ![Prefix] = w, ![App] = v]
  OBVIOUS
<1>4. Tree(h) /\ \A x \in Paths : h[x] = IF x = App THEN v ELSE IF x = Prefix THEN w
                                         ELSE IF x = Dir THEN Empty ELSE g[x]
  BY <1>3 DEF Tree
<1>5. PICK k, l, m : k = Put(g, Dir, Empty) /\ l = Put(k, Prefix, w) /\ m = Put(l, App, v)
  OBVIOUS
<1>6. Tree(m) /\ \A x \in Paths : m[x] = IF x = App THEN v ELSE IF x = Prefix THEN w
                                         ELSE IF x = Dir THEN Empty ELSE g[x]
  BY <1>5, TreePut
<1>7. h = m
  <2>1. \A x \in Paths : h[x] = m[x]
    BY <1>4, <1>6, Zenon
  <2> QED
    BY <1>4, <1>6, <2>1, SameTree, Zenon
<1>8. k[Prefix] = g[Prefix] /\ k[App] = g[App]
  BY <1>5, TreePut, PathNames, PathsThere
<1>9. h = Repaired(k)
  BY <1>1, <1>2, <1>5, <1>7, <1>8 DEF Repaired
<1> QED
  BY <1>1, <1>2, <1>3, <1>5, <1>9 DEF Kit

LEMMA RepairLeads ==
  ASSUME TypeInv, NEW c \in Calls, c.op = "repair"
  PROVE  Leads(WholeFiles(c, files), files, << <<"mkdir", Dir>>, <<"repair">> >>, Outcome(c, files))
<1>1. PICK whole : whole = WholeFiles(c, files)
  OBVIOUS
<1>2. PICK g : g = Put(files, Dir, Empty)
  OBVIOUS
<1>3. Leads(whole, files, << <<"mkdir", Dir>> >>, g) /\ Clean(whole, g)
  BY <1>1, <1>2, CleanStart, LeadsDir, PathKinds
<1>4. PICK a, b : a = <<"mkdir", Dir>> /\ b = <<"repair">>
  OBVIOUS
<1>5. Do(b, g) = Repaired(g)
  BY <1>4, DoNamed, Zenon
<1>6. Leads(whole, g, << b >>, Do(b, g))
  BY <1>3, LeadsStep
<1>7. a \in FileSteps /\ b \in FileSteps
  BY <1>4, PathKinds, StepsThere
<1>8. Leads(whole, files, << a >>, g)
  BY <1>3, <1>4
<1>9. << a >> \in Seq(FileSteps) /\ << b >> \in Seq(FileSteps)
  BY <1>7
<1>10. Leads(whole, files, << a >> \o << b >>, Do(b, g))
  BY <1>6, <1>8, <1>9, LeadsParts
<1>11. << a >> \o << b >> = << a, b >>
  BY <1>7, Pair
<1>12. Outcome(c, files) = Repaired(g)
  <2>1. PICK h : h = Outcome(c, files)
    OBVIOUS
  <2>2. h = [files EXCEPT ![Dir] = Empty,
                          ![Prefix] = IF @ = Absent THEN "win10" ELSE @,
                          ![App] = [IF @ = Absent THEN Defaults ELSE Load(@) EXCEPT !.shortcut = TRUE]]
    BY <2>1, OutcomeByName, Zenon
  <2> QED
    BY <1>2, <2>1, <2>2, RepairEffect, FilesTree, Zenon
<1> QED
  BY <1>1, <1>4, <1>5, <1>10, <1>11, <1>12, Zenon

(* A copy within a snapshot or a rollback: every file is as it was or as   *)
(* the call leaves it.                                                     *)
LEMMA CopyLeads ==
  ASSUME NEW c, NEW whole, whole = WholeFiles(c, files), NEW e, e = Outcome(c, files),
         NEW f \in Paths, NEW x \in Paths, NEW g, Tree(g), Clean(whole, g),
         g[f] = files[f], files[f] # Absent => e[x] = files[f],
         NEW b, b = <<"copy", f, x>>, NEW h, h = Copied(g, f, x)
  PROVE  /\ Leads(whole, g, << b >>, h) /\ Clean(whole, h) /\ Tree(h)
         /\ \A y \in Paths : h[y] = IF y = x /\ files[f] # Absent THEN files[f] ELSE g[y]
<1>1. x \in whole => g[f] # Empty
  BY CleanStart, WorkspaceAssumption
<1>2. whole \in SUBSET Paths
  BY CleanStart
<1>3. Leads(whole, g, << b >>, h) /\ Clean(whole, h)
  BY <1>1, <1>2, LeadsCopy
<1>4. Tree(h) /\ \A y \in Paths : h[y] = IF y = x /\ files[f] # Absent THEN files[f] ELSE g[y]
  BY TreePut DEF Copied
<1> QED
  BY <1>3, <1>4

LEMMA CopySteps ==
  ASSUME NEW s \in Snaps, NEW h \in Saved
  PROVE  /\ <<"copy", h, Snap(s, h)>> \in FileSteps /\ <<"copy", Snap(s, h), h>> \in FileSteps
         /\ << <<"copy", h, Snap(s, h)>> >> \in Seq(FileSteps)
         /\ << <<"copy", Snap(s, h), h>> >> \in Seq(FileSteps)
<1>1. CopyPair(h, Snap(s, h)) /\ CopyPair(Snap(s, h), h) /\ h \in Paths /\ Snap(s, h) \in Paths
  BY PathsThere DEF CopyPair
<1> QED
  BY <1>1, StepsThere, OneStep

LEMMA RollbackEffect ==
  ASSUME NEW c \in Calls, c.op = "rollback", NEW g
  PROVE  /\ Tree(Outcome(c, g))
         /\ \A x \in Paths : Outcome(c, g)[x] =
              IF x \in Saved /\ g[Snap(c.snap, x)] # Absent THEN g[Snap(c.snap, x)] ELSE g[x]
<1>1. PICK s : s = c.snap
  OBVIOUS
<1>2. PICK h : h = [x \in Paths |->
                      IF x \in Saved /\ g[Snap(s, x)] # Absent THEN g[Snap(s, x)] ELSE g[x]]
  OBVIOUS
<1>3. Outcome(c, g) = h
  BY <1>1, <1>2 DEF Outcome, Effect
<1>4. /\ Tree(h)
      /\ \A x \in Paths : h[x] =
              IF x \in Saved /\ g[Snap(s, x)] # Absent THEN g[Snap(s, x)] ELSE g[x]
  BY <1>2 DEF Tree
<1> QED
  BY <1>1, <1>3, <1>4

LEMMA RollbackLeads ==
  ASSUME TypeInv, NEW c \in Calls, c.op = "rollback"
  PROVE  Leads(WholeFiles(c, files), files, Rollback(c.snap), Outcome(c, files))
<1>1. PICK s \in Snaps : s = c.snap
  BY CallFields
<1>2. PICK whole, h : whole = WholeFiles(c, files) /\ h = Outcome(c, files)
  OBVIOUS
<1>3. /\ Tree(h)
      /\ \A x \in Paths : h[x] =
           IF x \in Saved /\ files[Snap(s, x)] # Absent THEN files[Snap(s, x)] ELSE files[x]
  BY <1>1, <1>2, RollbackEffect
<1>4. PICK a1, a2, a3 \in Paths : a1 = Snap(s, App) /\ a2 = Snap(s, Prefix) /\ a3 = Snap(s, Current)
  BY PathsThere
<1>5. /\ App \in Paths /\ Prefix \in Paths /\ Current \in Paths
      /\ App # Prefix /\ App # Current /\ Prefix # Current
      /\ \A x : x \in Saved <=> x = App \/ x = Prefix \/ x = Current
      /\ \A x \in {a1, a2, a3} : x \notin Saved
  BY <1>4, PathNames, PathsThere DEF Saved
<1>6. PICK g1, g2, g3 : /\ g1 = Copied(files, a1, App) /\ g2 = Copied(g1, a2, Prefix)
                        /\ g3 = Copied(g2, a3, Current)
  OBVIOUS
<1>7. PICK b1, b2, b3 \in FileSteps :
        b1 = <<"copy", a1, App>> /\ b2 = <<"copy", a2, Prefix>> /\ b3 = <<"copy", a3, Current>>
  BY <1>4, CopySteps, PathsThere
<1>8. << b1 >> \in Seq(FileSteps) /\ << b2 >> \in Seq(FileSteps) /\ << b3 >> \in Seq(FileSteps)
  OBVIOUS
<1>9. /\ Leads(whole, files, << b1 >>, g1) /\ Clean(whole, g1) /\ Tree(g1)
      /\ \A y \in Paths : g1[y] = IF y = App /\ files[a1] # Absent THEN files[a1] ELSE files[y]
  <2>1. files[a1] # Absent => h[App] = files[a1]
    BY <1>3, <1>4, <1>5
  <2>2. Clean(whole, files) /\ Tree(files)
    BY <1>2, CleanStart, FilesTree
  <2> QED
    BY <1>2, <1>5, <1>6, <1>7, <2>1, <2>2, CopyLeads
<1>10. /\ Leads(whole, g1, << b2 >>, g2) /\ Clean(whole, g2) /\ Tree(g2)
       /\ \A y \in Paths : g2[y] = IF y = Prefix /\ files[a2] # Absent THEN files[a2] ELSE g1[y]
  <2>1. files[a2] # Absent => h[Prefix] = files[a2]
    BY <1>3, <1>4, <1>5
  <2>2. g1[a2] = files[a2]
    BY <1>5, <1>9
  <2> QED
    BY <1>2, <1>5, <1>6, <1>7, <1>9, <2>1, <2>2, CopyLeads
<1>11. /\ Leads(whole, g2, << b3 >>, g3) /\ Clean(whole, g3) /\ Tree(g3)
       /\ \A y \in Paths : g3[y] = IF y = Current /\ files[a3] # Absent THEN files[a3] ELSE g2[y]
  <2>1. files[a3] # Absent => h[Current] = files[a3]
    BY <1>3, <1>4, <1>5
  <2>2. g2[a3] = files[a3]
    BY <1>5, <1>9, <1>10
  <2> QED
    BY <1>2, <1>5, <1>6, <1>7, <1>10, <2>1, <2>2, CopyLeads
<1>12. << b1, b2, b3 >> = << b1 >> \o << b2 >> \o << b3 >>
  BY Triple
<1>13. Leads(whole, files, << b1 >> \o << b2 >> \o << b3 >>, g3)
  <2>1. Leads(whole, files, << b1 >> \o << b2 >>, g2) /\ << b1 >> \o << b2 >> \in Seq(FileSteps)
    BY <1>8, <1>9, <1>10, LeadsParts, TwoParts
  <2> QED
    BY <1>8, <1>11, <2>1, LeadsParts
<1>14. g3 = h
  <2>1. \A y \in Paths : g3[y] = h[y]
    BY <1>3, <1>4, <1>5, <1>9, <1>10, <1>11
  <2> QED
    BY <1>3, <1>11, <2>1, SameTree
<1> QED
  BY <1>1, <1>2, <1>4, <1>7, <1>12, <1>13, <1>14, Zenon DEF Rollback

LEMMA SnapshotEffect ==
  ASSUME NEW c \in Calls, c.op = "snapshot", NEW g
  PROVE  /\ Tree(Outcome(c, g))
         /\ \A h \in Saved : g[h] # Absent => Outcome(c, g)[Snap(c.snap, h)] = g[h]
         /\ \A x \in Paths :
              (\A h \in Saved : x = Snap(c.snap, h) => g[h] = Absent) =>
                Outcome(c, g)[x] = IF x = SnapDir(c.snap) THEN Empty
                                  ELSE IF x = SnapLabel(c.snap) THEN c.snap ELSE g[x]
<1>1. PICK s \in Snaps : s = c.snap
  BY CallFields
<1>2. PICK e : e = [x \in Paths |->
                      IF \E h \in Saved : x = Snap(s, h) /\ g[h] # Absent
                      THEN g[CHOOSE h \in Saved : x = Snap(s, h)]
                      ELSE IF x = SnapDir(s) THEN Empty
                      ELSE IF x = SnapLabel(s) THEN s ELSE g[x]]
  OBVIOUS
<1>3. Outcome(c, g) = e
  BY <1>1, <1>2 DEF Outcome, Effect
<1>4. Tree(e)
  BY <1>2 DEF Tree
<1>5. \A x \in Paths :
        (\A h \in Saved : x = Snap(s, h) => g[h] = Absent) =>
          e[x] = IF x = SnapDir(s) THEN Empty ELSE IF x = SnapLabel(s) THEN s ELSE g[x]
  BY <1>2
<1>6. ASSUME NEW h \in Saved, g[h] # Absent
      PROVE  e[Snap(s, h)] = g[h]
  <2>1. PICK x \in Paths : x = Snap(s, h)
    BY PathsThere
  <2>2. \A k \in Saved : x = Snap(s, k) => k = h
    BY <2>1, PathNames
  <2>3. (CHOOSE k \in Saved : x = Snap(s, k)) = h
    BY <2>1, <2>2
  <2> QED
    BY <1>2, <1>6, <2>1, <2>3
<1> QED
  BY <1>1, <1>3, <1>4, <1>5, <1>6

LEMMA SnapshotLeads ==
  ASSUME TypeInv, NEW c \in Calls, c.op = "snapshot"
  PROVE  Leads(WholeFiles(c, files), files, Snapshot(c.snap), Outcome(c, files))
<1>1. PICK s \in Snaps : s = c.snap
  BY CallFields
<1>2. PICK whole, h : whole = WholeFiles(c, files) /\ h = Outcome(c, files)
  OBVIOUS
<1>3. PICK d \in Dirs, l \in Paths : d = SnapDir(s) /\ l = SnapLabel(s) /\ s \in Kind(l)
  BY PathKinds
<1>4. PICK a1, a2, a3 \in Paths : a1 = Snap(s, App) /\ a2 = Snap(s, Prefix) /\ a3 = Snap(s, Current)
  BY PathsThere
<1>5. /\ App \in Paths /\ Prefix \in Paths /\ Current \in Paths /\ d \in Paths
      /\ App # Prefix /\ App # Current /\ Prefix # Current
      /\ \A x : x \in Saved <=> x = App \/ x = Prefix \/ x = Current
      /\ \A x \in {a1, a2, a3, d, l} : x \notin Saved
      /\ a1 # a2 /\ a1 # a3 /\ a2 # a3 /\ d # l
      /\ \A x \in {a1, a2, a3} : x # d /\ x # l
  BY <1>3, <1>4, PathNames, PathsThere DEF Saved
<1>6. /\ Tree(h)
      /\ files[App] # Absent => h[a1] = files[App]
      /\ files[Prefix] # Absent => h[a2] = files[Prefix]
      /\ files[Current] # Absent => h[a3] = files[Current]
      /\ \A x \in Paths :
           (/\ x = a1 => files[App] = Absent
            /\ x = a2 => files[Prefix] = Absent
            /\ x = a3 => files[Current] = Absent)
             => h[x] = IF x = d THEN Empty ELSE IF x = l THEN s ELSE files[x]
  BY <1>1, <1>2, <1>3, <1>4, <1>5, SnapshotEffect
<1>7. PICK g0, g1, g2, g3, g4 :
        /\ g0 = Put(files, d, Empty) /\ g1 = Copied(g0, App, a1) /\ g2 = Copied(g1, Prefix, a2)
        /\ g3 = Copied(g2, Current, a3) /\ g4 = Put(g3, l, s)
  OBVIOUS
<1>8. PICK b0, b1, b2, b3 \in FileSteps :
        /\ b0 = <<"mkdir", d>> /\ b1 = <<"copy", App, a1>> /\ b2 = <<"copy", Prefix, a2>>
        /\ b3 = <<"copy", Current, a3>>
  BY <1>4, CopySteps, PathsThere, StepsThere
<1>9. /\ << b0 >> \in Seq(FileSteps) /\ << b1 >> \in Seq(FileSteps)
      /\ << b2 >> \in Seq(FileSteps) /\ << b3 >> \in Seq(FileSteps)
      /\ Save(l, s) \in Seq(FileSteps)
  BY <1>3, OneStep, SaveSteps
<1>10. /\ Leads(whole, files, << b0 >>, g0) /\ Clean(whole, g0) /\ Tree(g0)
       /\ \A y \in Paths : g0[y] = IF y = d THEN Empty ELSE files[y]
  BY <1>2, <1>7, <1>8, CleanStart, LeadsDir, TreePut
<1>11. /\ Leads(whole, g0, << b1 >>, g1) /\ Clean(whole, g1) /\ Tree(g1)
       /\ \A y \in Paths : g1[y] = IF y = a1 /\ files[App] # Absent THEN files[App] ELSE g0[y]
  <2>1. g0[App] = files[App]
    BY <1>5, <1>10
  <2> QED
    BY <1>2, <1>5, <1>6, <1>7, <1>8, <1>10, <2>1, CopyLeads
<1>12. /\ Leads(whole, g1, << b2 >>, g2) /\ Clean(whole, g2) /\ Tree(g2)
       /\ \A y \in Paths : g2[y] = IF y = a2 /\ files[Prefix] # Absent THEN files[Prefix] ELSE g1[y]
  <2>1. g1[Prefix] = files[Prefix]
    BY <1>5, <1>10, <1>11
  <2> QED
    BY <1>2, <1>5, <1>6, <1>7, <1>8, <1>11, <2>1, CopyLeads
<1>13. /\ Leads(whole, g2, << b3 >>, g3) /\ Clean(whole, g3) /\ Tree(g3)
       /\ \A y \in Paths : g3[y] = IF y = a3 /\ files[Current] # Absent THEN files[Current] ELSE g2[y]
  <2>1. g2[Current] = files[Current]
    BY <1>5, <1>10, <1>11, <1>12
  <2> QED
    BY <1>2, <1>5, <1>6, <1>7, <1>8, <1>12, <2>1, CopyLeads
<1>14. /\ Leads(whole, g3, Save(l, s), g4) /\ Tree(g4)
       /\ \A y \in Paths : g4[y] = IF y = l THEN s ELSE g3[y]
  <2>1. whole \in SUBSET Paths
    BY <1>2, CleanStart
  <2> QED
    BY <1>3, <1>7, <1>13, <2>1, LeadsSave, TreePut
<1>15. Leads(whole, files, << b0 >> \o << b1 >> \o << b2 >> \o << b3 >> \o Save(l, s), g4)
  <2>1. Leads(whole, files, << b0 >> \o << b1 >>, g1) /\ << b0 >> \o << b1 >> \in Seq(FileSteps)
    BY <1>9, <1>10, <1>11, LeadsParts, TwoParts
  <2>2. /\ Leads(whole, files, << b0 >> \o << b1 >> \o << b2 >>, g2)
        /\ << b0 >> \o << b1 >> \o << b2 >> \in Seq(FileSteps)
    BY <1>9, <1>12, <2>1, LeadsParts, TwoParts
  <2>3. /\ Leads(whole, files, << b0 >> \o << b1 >> \o << b2 >> \o << b3 >>, g3)
        /\ << b0 >> \o << b1 >> \o << b2 >> \o << b3 >> \in Seq(FileSteps)
    BY <1>9, <1>13, <2>2, LeadsParts, TwoParts
  <2> QED
    BY <1>9, <1>14, <2>3, LeadsParts
<1>16. << b0, b1, b2, b3 >> = << b0 >> \o << b1 >> \o << b2 >> \o << b3 >>
  <2>1. << b0, b1, b2, b3 >> = << b0, b1, b2 >> \o << b3 >>
    BY Quadruple
  <2>2. << b0, b1, b2 >> = << b0 >> \o << b1 >> \o << b2 >>
    BY Triple
  <2> QED
    BY <2>1, <2>2, Zenon
<1>17. g4 = h
  <2>1. ASSUME NEW y \in Paths
        PROVE  g4[y] = h[y]
    <3>1. CASE y = a1
      BY <1>4, <1>5, <1>6, <1>10, <1>11, <1>12, <1>13, <1>14, <3>1
    <3>2. CASE y = a2
      BY <1>4, <1>5, <1>6, <1>10, <1>11, <1>12, <1>13, <1>14, <3>2
    <3>3. CASE y = a3
      BY <1>4, <1>5, <1>6, <1>10, <1>11, <1>12, <1>13, <1>14, <3>3
    <3>4. CASE y \notin {a1, a2, a3}
      BY <1>5, <1>6, <1>10, <1>11, <1>12, <1>13, <1>14, <3>4
    <3> QED
      BY <3>1, <3>2, <3>3, <3>4
  <2> QED
    BY <1>6, <1>14, <2>1, SameTree
<1> QED
  BY <1>1, <1>2, <1>3, <1>4, <1>8, <1>15, <1>16, <1>17, Zenon DEF Snapshot

(* Every call, as it begins: its steps come to what the call is for.       *)
LEMMA BeginLeads ==
  ASSUME TypeInv, NEW c \in Calls, Admitted(c)
  PROVE  Leads(WholeFiles(c, files), files, Steps(c), Outcome(c, files))
<1>1. c.op = "set" => Has(App)
  BY DEF Admitted
<1>2. CASE c.op = "save"
  <2>1. PICK whole : whole = WholeFiles(c, files)
    OBVIOUS
  <2>2. Leads(whole, files, ProfileSave(c.point),
              [files EXCEPT ![Dir] = Empty, ![Profile(c.point.label)] = c.point])
    BY <1>2, <2>1, CallFields, CleanStart, ProfileLeads
  <2>3. Outcome(c, files) = [files EXCEPT ![Dir] = Empty, ![Profile(c.point.label)] = c.point]
    BY <1>2, OutcomeByName, Zenon
  <2> QED
    BY <1>2, <2>1, <2>2, <2>3, StepsByName, Zenon
<1>3. CASE c.op = "apply"
  <2>1. Leads(WholeFiles(c, files), files, ProfileApply(c.point), Applied(files, c.point))
    BY <1>3, ApplyLeads, CleanStart, FilesTree
  <2>2. Outcome(c, files) = Applied(files, c.point)
    BY <1>3, OutcomeByName, Zenon
  <2> QED
    BY <1>3, <2>1, <2>2, StepsByName, Zenon
<1>4. CASE c.op = "install"
  BY <1>4, InstallLeads, StepsByName, Zenon
<1>5. CASE c.op = "set"
  BY <1>1, <1>5, SetLeads, StepsByName, Zenon
<1>6. CASE c.op = "mode"
  BY <1>6, ModeLeads, StepsByName, Zenon
<1>7. CASE c.op = "import"
  BY <1>7, ImportLeads, StepsByName, Zenon
<1>8. CASE c.op = "snapshot"
  BY <1>8, SnapshotLeads, StepsByName, Zenon
<1>9. CASE c.op = "rollback"
  BY <1>9, RollbackLeads, StepsByName, Zenon
<1>10. CASE c.op = "repair"
  BY <1>10, RepairLeads, StepsByName, Zenon
<1>11. CASE c.op = "remove"
  BY <1>11, RemoveLeads, StepsByName, Zenon
<1> QED
  BY <1>2, <1>3, <1>4, <1>5, <1>6, <1>7, <1>8, <1>9, <1>10, <1>11, CallFields DEF Ops

-----------------------------------------------------------------------------
(* What a file step does is what its list of steps said it would come to.  *)
LEMMA SavesLead ==
  ASSUME NEW whole \in SUBSET Paths, NEW a \in Seq(FileSteps), NEW f, NEW g,
         Leads(whole, f, a, g), Clean(whole, g), NEW x \in Paths, NEW v \in Kind(x)
  PROVE  Leads(whole, f, a \o Save(x, v), Put(g, x, v)) /\ Clean(whole, Put(g, x, v))
BY LeadsSave, LeadsParts, SaveSteps

LEMMA CopyStep ==
  ASSUME NEW whole \in SUBSET Paths, NEW f, NEW x, NEW g, Clean(whole, g), g[f] # Absent,
         f # x, f \in Paths, x \in Paths, CopyPair(f, x)
  PROVE  Leads(whole, g, << <<"open", x>>, <<"read", f, x>> >>, Copied(g, f, x))
<1>1. PICK a, b : a = <<"open", x>> /\ b = <<"read", f, x>>
  OBVIOUS
<1>2. PICK k : k = Put(g, x, Empty)
  OBVIOUS
<1>3. a \in FileSteps /\ b \in FileSteps
  BY <1>1, StepsThere
<1>4. k = Do(a, g)
  BY <1>1, <1>2 DEF Do
<1>5. Do(b, k) = Copied(k, f, x)
  BY <1>1 DEF Do
<1>6. k[f] = g[f]
  BY <1>2, TreePut
<1>7. Copied(k, f, x) = Copied(g, f, x)
  BY <1>2, <1>6 DEF Copied, Put
<1>8. Leads(whole, g, << a >>, k)
  BY <1>4, LeadsStep
<1>9. \A y \in whole : k[y] = Empty => Fills(b, y)
  <2>1. \A y \in whole : k[y] = Empty => y = x
    BY <1>2, TreePut DEF Clean
  <2>2. Fills(b, x)
    BY <1>1 DEF Fills
  <2> QED
    BY <2>1, <2>2
<1>10. PICK h : h = Do(b, k)
  OBVIOUS
<1>11. Leads(whole, k, << b >>, h)
  BY <1>9, <1>10, LeadsOne
<1>12. << a >> \in Seq(FileSteps) /\ << b >> \in Seq(FileSteps)
  BY <1>3
<1>13. Leads(whole, g, << a >> \o << b >>, h)
  BY <1>8, <1>11, <1>12, LeadsParts
<1>14. << a >> \o << b >> = << a, b >>
  BY <1>3, Pair
<1> QED
  BY <1>1, <1>5, <1>7, <1>10, <1>13, <1>14, Zenon

LEMMA ReadStep ==
  ASSUME NEW whole, NEW f, NEW x, NEW g, g[f] # Absent,
         \A y \in whole : g[y] = Empty => y = x
  PROVE  Leads(whole, g, << <<"write", x, g[f]>> >>, Copied(g, f, x))
<1>1. PICK v : v = g[f]
  OBVIOUS
<1>2. PICK b : b = <<"write", x, v>>
  OBVIOUS
<1>3. Do(b, g) = Put(g, x, v)
  BY <1>2 DEF Do
<1>4. Copied(g, f, x) = Put(g, x, v)
  BY <1>1 DEF Copied
<1>5. \A y \in whole : g[y] = Empty => Fills(b, y)
  BY <1>2 DEF Fills
<1>6. PICK h : h = Do(b, g)
  OBVIOUS
<1>7. Leads(whole, g, << b >>, h)
  BY <1>5, <1>6, LeadsOne
<1> QED
  BY <1>1, <1>2, <1>3, <1>4, <1>6, <1>7, Zenon

LEMMA ActivateStep ==
  ASSUME NEW whole \in SUBSET Paths, NEW g, Clean(whole, g), NEW point \in Points,
         LabelOf(g[Current]) # point.label
  PROVE  Leads(whole, g, Save(Profile(point.label), point) \o Save(Current, point),
               Activated(g, point))
<1>1. PICK f \in Paths : f = Profile(point.label) /\ point \in Kind(f)
  BY PathKinds
<1>2. PICK k : k = Put(g, f, point)
  OBVIOUS
<1>3. Leads(whole, g, Save(f, point), k) /\ Clean(whole, k) /\ Save(f, point) \in Seq(FileSteps)
  BY <1>1, <1>2, LeadsSave, SaveSteps
<1>4. Leads(whole, g, Save(f, point) \o Save(Current, point), Put(k, Current, point))
  BY <1>3, PathKinds, SavesLead
<1>5. Activated(g, point) = Put(k, Current, point)
  BY <1>1, <1>2 DEF Activated
<1> QED
  BY <1>1, <1>4, <1>5

LEMMA ApplyStep ==
  ASSUME FilesTyped(files), NEW whole \in SUBSET Paths, Clean(whole, files),
         NEW point \in Points, Has(App)
  PROVE  Leads(whole, files,
               Save(App, [Load(files[App]) EXCEPT !.runner = point.runner])
                 \o << <<"activate", point>> >>,
               Applied(files, point))
<1>1. PICK v : v = [Load(files[App]) EXCEPT !.runner = point.runner]
  OBVIOUS
<1>2. v \in Kind(App)
  BY <1>1, HasApp, LoadTyped, PathKinds
<1>3. PICK g : g = Put(files, App, v)
  OBVIOUS
<1>4. Leads(whole, files, Save(App, v), g) /\ Clean(whole, g) /\ Save(App, v) \in Seq(FileSteps)
  BY <1>2, <1>3, LeadsSave, PathKinds, SaveSteps
<1>5. PICK b \in FileSteps : b = <<"activate", point>>
  BY StepsThere
<1>6. Do(b, g) = Activated(g, point)
  BY <1>5 DEF Do
<1>7. Leads(whole, g, << b >>, Do(b, g)) /\ << b >> \in Seq(FileSteps)
  BY <1>4, LeadsStep, OneStep
<1>8. Leads(whole, files, Save(App, v) \o << b >>, Do(b, g))
  BY <1>4, <1>7, LeadsParts
<1>9. Applied(files, point) = Activated(g, point)
  BY <1>1, <1>3 DEF Applied, Has
<1> QED
  BY <1>1, <1>5, <1>6, <1>8, <1>9, Zenon

LEMMA PrefixStep ==
  ASSUME FilesTyped(files), NEW whole \in SUBSET Paths, Clean(whole, files), NEW w \in Settings
  PROVE  Leads(whole, files,
               (IF Has(Prefix) THEN << >> ELSE Save(Prefix, "win10"))
                 \o (IF w.shortcut THEN << >> ELSE Save(App, [w EXCEPT !.shortcut = TRUE])),
               Furnished(files, w))
<1>1. PICK v \in Settings : v = [w EXCEPT !.shortcut = TRUE]
  BY SettingsSteps
<1>2. PICK m \in Kind(Prefix) : m = "win10"
  BY PathKinds DEF Modes
<1>3. PICK b, c : /\ b = (IF Has(Prefix) THEN << >> ELSE Save(Prefix, m))
                  /\ c = (IF w.shortcut THEN << >> ELSE Save(App, v))
  OBVIOUS
<1>4. b \in Seq(FileSteps) /\ c \in Seq(FileSteps)
  BY <1>2, <1>3, SettingsSteps
<1>5. PICK g2, g3 : /\ g2 = (IF Has(Prefix) THEN files ELSE Put(files, Prefix, m))
                    /\ g3 = (IF w.shortcut THEN g2 ELSE Put(g2, App, v))
  OBVIOUS
<1>6. Leads(whole, files, b, g2) /\ Clean(whole, g2)
  BY <1>2, <1>3, <1>5, LeadsNone, LeadsSave, PathKinds
<1>7. Leads(whole, g2, c, g3)
  BY <1>3, <1>5, <1>6, LeadsNone, LeadsSave, PathKinds
<1>8. Leads(whole, files, b \o c, g3)
  BY <1>4, <1>6, <1>7, LeadsParts
<1>9. PICK k : k = IF files[Prefix] = Absent THEN m ELSE files[Prefix]
  OBVIOUS
<1>10. g2 = Put(files, Prefix, k)
  <2>1. Tree(files)
    BY DEF FilesTyped, Tree
  <2>2. Tree(g2) /\ \A x \in Paths : g2[x] = IF x = Prefix THEN k ELSE files[x]
    BY <1>5, <1>9, <2>1, TreePut DEF Has
  <2> QED
    BY <2>2, TreePut, SameTree
<1>11. g3 = Furnished(files, w)
  BY <1>1, <1>2, <1>5, <1>9, <1>10, Zenon DEF Furnished
<1> QED
  BY <1>1, <1>2, <1>3, <1>8, <1>11, Zenon

LEMMA RepairStep ==
  ASSUME FilesTyped(files), NEW whole \in SUBSET Paths, Clean(whole, files),
         NEW w, w = (IF Has(App) THEN Load(files[App]) ELSE Defaults)
  PROVE  Leads(whole, files,
               (IF Has(App) THEN << >> ELSE Save(App, w)) \o << <<"prefix", w>> >>,
               Repaired(files))
<1>1. PICK v : v = [w EXCEPT !.shortcut = TRUE]
  OBVIOUS
<1>2. w \in Settings /\ v \in Settings /\ (w.shortcut => v = w)
  <2>1. w \in Settings
    BY HasApp, LoadTyped, DefaultsTyped, WorkspaceAssumption
  <2> QED
    BY <1>1, <2>1 DEF Settings
<1>3. PICK a : a = IF Has(App) THEN << >> ELSE Save(App, w)
  OBVIOUS
<1>4. PICK d \in FileSteps : d = <<"prefix", w>>
  BY <1>2, StepsThere
<1>5. PICK g1 : g1 = IF Has(App) THEN files ELSE Put(files, App, w)
  OBVIOUS
<1>6. Leads(whole, files, a, g1) /\ Clean(whole, g1)
  BY <1>2, <1>3, <1>5, LeadsNone, LeadsSave, PathKinds
<1>7. PICK g3 : g3 = Furnished(g1, w)
  OBVIOUS
<1>8. Do(d, g1) = g3
  BY <1>4, <1>7, DoNamed, Zenon
<1>9. Leads(whole, g1, << d >>, g3)
  BY <1>6, <1>8, LeadsStep
<1>10. Leads(whole, files, a \o << d >>, g3)
  BY <1>2, <1>3, <1>6, <1>9, LeadsParts, OneStep, SettingsSteps
<1>11. PICK m : m = "win10"
  OBVIOUS
<1>12. PICK h, k : h = Repaired(files) /\ k = IF files[Prefix] = Absent THEN m ELSE files[Prefix]
  OBVIOUS
<1>13. v = [Kit(files[App]) EXCEPT !.shortcut = TRUE]
  BY <1>1 DEF Kit, Has
<1>14. Tree(h) /\ \A x \in Paths : h[x] = IF x = App THEN v ELSE IF x = Prefix THEN k ELSE files[x]
  <2>1. h = Put(Put(files, Prefix, k), App, v)
    BY <1>11, <1>12, <1>13 DEF Repaired
  <2> QED
    BY <2>1, TreePut
<1>15. Tree(files)
  BY DEF FilesTyped, Tree
<1>16. Tree(g3) /\ \A x \in Paths : g3[x] = h[x]
  <2>1. Tree(g1) /\ \A x \in Paths : g1[x] = IF x = App /\ ~Has(App) THEN w ELSE files[x]
    BY <1>5, <1>15, TreePut
  <2>2. g1[Prefix] = files[Prefix]
    BY <2>1, PathKinds, PathNames
  <2>3. PICK g2 : g2 = Put(g1, Prefix, k)
    OBVIOUS
  <2>4. Tree(g2) /\ \A x \in Paths : g2[x] = IF x = Prefix THEN k ELSE g1[x]
    BY <2>3, TreePut
  <2>5. g3 = IF w.shortcut THEN g2 ELSE Put(g2, App, v)
    BY <1>1, <1>7, <1>11, <1>12, <2>2, <2>3, Zenon DEF Furnished
  <2>6. w.shortcut => g2[App] = v
    <3>1. CASE Has(App) /\ w.shortcut
      <4>1. files[App] # Empty
        BY <3>1 DEF Load
      <4>2. w = files[App]
        BY <3>1, <4>1 DEF Load
      <4> QED
        BY <1>2, <2>1, <2>4, <3>1, <4>2, PathKinds, PathNames
    <3>2. CASE ~Has(App)
      BY <1>2, <2>1, <2>4, <3>2, PathKinds, PathNames
    <3> QED
      BY <3>1, <3>2
  <2>7. Tree(g3) /\ \A x \in Paths : g3[x] = IF x = App THEN v ELSE g2[x]
    BY <2>4, <2>5, <2>6, TreePut
  <2> QED
    BY <1>14, <2>1, <2>4, <2>7
<1>17. g3 = h
  BY <1>14, <1>16, SameTree
<1> QED
  BY <1>3, <1>4, <1>10, <1>12, <1>17, Zenon

(* An apply differs from AfterApply only in what it leaves as it was.       *)
LEMMA ApplyMisses ==
  ASSUME NEW g, Tree(g), NEW point \in Points
  PROVE  /\ g[App] # Absent => AfterApply(g, point)[Profile(point.label)] = point
         /\ \A x \in Paths :
              \/ Applied(g, point)[x] = AfterApply(g, point)[x]
              \/ /\ g[App] # Absent /\ LabelOf(g[Current]) = point.label
                 /\ x \in {Current, Profile(point.label)} /\ Applied(g, point)[x] = g[x]
<1>1. CASE g[App] = Absent
  BY <1>1 DEF Applied, AfterApply
<1>2. CASE g[App] # Absent
  <2>0. PICK f \in Paths : f = Profile(point.label)
    BY PathKinds
  <2>1. PICK v, h :
          /\ v = [Load(g[App]) EXCEPT !.runner = point.runner] /\ f = Profile(point.label)
          /\ h = Put(g, App, v)
    BY <2>0
  <2>2. App \in Paths /\ Current \in Paths /\ App # Current /\ App # f
    BY <2>1, PathNames, PathKinds
  <2>3. AfterApply(g, point) = [g EXCEPT ![App] = v, ![f] = point, ![Current] = point]
    BY <1>2, <2>1 DEF AfterApply
  <2>4. PICK e : e = [g EXCEPT ![App] = v, ![f] = point, ![Current] = point]
    OBVIOUS
  <2>5. \A x \in Paths : e[x] = IF x = App THEN v ELSE IF x \in {f, Current} THEN point ELSE g[x]
    BY <2>2, <2>4 DEF Tree
  <2>6. Tree(h) /\ \A x \in Paths : h[x] = IF x = App THEN v ELSE g[x]
    BY <2>1, TreePut
  <2>7. Applied(g, point) = Activated(h, point)
    BY <1>2, <2>1 DEF Applied
  <2>8. CASE LabelOf(g[Current]) = point.label
    <3>1. Applied(g, point) = h
      BY <2>2, <2>6, <2>7, <2>8 DEF Activated
    <3>2. \A x \in Paths :
            h[x] = e[x] \/ (x \in {Current, f} /\ h[x] = g[x])
      BY <2>2, <2>5, <2>6
    <3> QED
      BY <1>2, <2>1, <2>2, <2>3, <2>4, <2>5, <2>8, <3>1, <3>2
  <2>9. CASE LabelOf(g[Current]) # point.label
    <3>1. Applied(g, point) = Put(Put(h, f, point), Current, point)
      BY <2>1, <2>2, <2>6, <2>7, <2>9 DEF Activated
    <3>2. \A x \in Paths : Put(Put(h, f, point), Current, point)[x] = e[x]
      BY <2>2, <2>5, <2>6, TreePut
    <3> QED
      BY <2>1, <2>2, <2>3, <2>4, <2>5, <3>1, <3>2
  <2> QED
    BY <2>8, <2>9
<1> QED
  BY <1>1, <1>2

LEMMA OutcomeOrLeft ==
  ASSUME NEW c \in Calls, NEW g, Tree(g), NEW x \in Paths
  PROVE  \/ Outcome(c, g)[x] = Effect(c, g)[x]
         \/ x \in LeftAlone(c, g) /\ Outcome(c, g)[x] = g[x]
<1>1. CASE c.op = "apply"
  <2>1. Outcome(c, g) = Applied(g, c.point) /\ Effect(c, g) = AfterApply(g, c.point)
    BY <1>1 DEF Outcome, Effect
  <2>2. c.point \in Points
    BY <1>1, CallFields
  <2>3. LabelOf(g[Current]) = c.point.label =>
          LeftAlone(c, g) = {Current, Profile(c.point.label)}
    BY <1>1 DEF LeftAlone
  <2> QED
    BY <2>1, <2>2, <2>3, ApplyMisses
<1>2. CASE c.op = "import"
  <2>1. PICK point \in Points, f \in Paths : point = c.point /\ f = Profile(point.label)
    BY <1>2, CallFields, PathKinds
  <2>2. PICK h : h = [g EXCEPT ![Dir] = Empty, ![f] = point]
    OBVIOUS
  <2>3. Outcome(c, g) = Applied(h, point) /\ Effect(c, g) = AfterApply(h, point)
    BY <1>2, <2>1, <2>2 DEF Outcome, Effect
  <2>4. Tree(h) /\ h[f] = point /\ (Current # f => h[Current] = g[Current])
    BY <2>1, <2>2, PathNames, PathKinds DEF Tree
  <2>5. LabelOf(g[Current]) = point.label => LeftAlone(c, g) = {Current} \ {f}
    BY <1>2, <2>1 DEF LeftAlone
  <2>6. /\ h[App] # Absent => AfterApply(h, point)[f] = point
        /\ \/ Applied(h, point)[x] = AfterApply(h, point)[x]
           \/ /\ h[App] # Absent /\ LabelOf(h[Current]) = point.label
              /\ x \in {Current, f} /\ Applied(h, point)[x] = h[x]
    BY <2>1, <2>4, ApplyMisses
  <2>7. CASE x = f
    BY <2>3, <2>4, <2>6, <2>7
  <2>8. CASE x # f
    BY <2>3, <2>4, <2>5, <2>6, <2>8
  <2> QED
    BY <2>7, <2>8
<1>3. CASE c.op \notin {"apply", "import"}
  BY <1>3 DEF Outcome
<1> QED
  BY <1>1, <1>2, <1>3

(* The calls that nothing has overlapped are on their way to what they are *)
(* for, and are alone.                                                     *)
SoloInv ==
  /\ DOMAIN before = Procs
  /\ \A p \in Busy \ overlapped :
       /\ Busy = {p} /\ Tree(before[p])
       /\ Leads(WholeFiles(call[p], before[p]), files, todo[p], Outcome(call[p], before[p]))

LEMMA SoloFile ==
  ASSUME WsInv, SoloInv, NEW p \in Procs, FileStep(p), p \in Busy \ overlapped
  PROVE  LET whole == WholeFiles(call[p], before[p])
         IN  Leads(whole, files', todo'[p], Outcome(call[p], before[p]))
<1>1. PICK t \in Seq(FileSteps), s \in FileSteps, rest \in Seq(FileSteps) :
        t = todo[p] /\ t # << >> /\ s = t[1] /\ rest = Tail(t)
  <2>1. todo[p] # << >>
    BY Zenon DEF FileStep, MakeDir, OpenFile, WriteFile, CopyFile, ReadFile, Apply, Activate,
       Repair, RepairPrefix, NextStep
  <2> QED
    BY <2>1, HeadStep DEF WsInv, TypeInv
<1>2. PICK whole, e : whole = WholeFiles(call[p], before[p]) /\ e = Outcome(call[p], before[p])
  OBVIOUS
<1>3. whole \in SUBSET Paths
  BY <1>2 DEF WholeFiles, Texts
<1>4. FilesTyped(files) /\ Tree(files) /\ todo \in [Procs -> Seq(FileSteps)]
  BY FilesTree DEF WsInv, TypeInv
<1>5. Leads(whole, files, t, e)
  BY <1>1, <1>2 DEF SoloInv
<1>6. Leads(whole, Do(s, files), rest, e) /\ \A f \in whole : files[f] = Empty => Fills(s, f)
  BY <1>1, <1>5, LeadsHead
<1>7. ASSUME s[1] \notin {"write", "read"}
      PROVE  Clean(whole, files)
  BY <1>6, <1>7 DEF Clean, Fills
<1>8. \A steps \in Seq(FileSteps) : Continue(p, steps) => todo'[p] = steps \o rest
  BY <1>1, <1>4, Zenon DEF Continue
<1>9. ASSUME NEW steps \in Seq(FileSteps), Continue(p, steps), files' = files,
             Leads(whole, files, steps, Do(s, files))
      PROVE  Leads(whole, files', todo'[p], e)
  <2>1. Leads(whole, files, steps \o rest, e)
    BY <1>6, <1>9, LeadsParts
  <2> QED
    BY <1>8, <1>9, <2>1
<1>10. << >> \in Seq(FileSteps)
  OBVIOUS
<1>11. CASE MakeDir(p) \/ OpenFile(p) \/ WriteFile(p)
  <2>1. Continue(p, << >>) /\ files' = Do(s, files)
    <3>1. CASE MakeDir(p) \/ OpenFile(p)
      <4>1. files' = [files EXCEPT ![s[2]] = Empty] /\ s[1] \in {"mkdir", "open"}
            /\ Continue(p, << >>)
        BY <1>1, <3>1 DEF MakeDir, OpenFile, NextStep
      <4> QED
        BY <1>4, <4>1, PutExcept DEF Do, Tree
    <3>2. CASE WriteFile(p)
      <4>1. files' = [files EXCEPT ![s[2]] = s[3]] /\ s[1] = "write" /\ Continue(p, << >>)
        BY <1>1, <3>2 DEF WriteFile, NextStep
      <4> QED
        BY <1>4, <4>1, PutExcept DEF Do, Tree
    <3> QED
      BY <1>11, <3>1, <3>2
  <2>2. todo'[p] = rest
    <3>1. todo'[p] = << >> \o rest
      BY <1>8, <1>10, <2>1
    <3> QED
      BY <3>1
  <2> QED
    BY <1>2, <1>6, <2>1, <2>2
<1>12. CASE CopyFile(p)
  <2>1. PICK f \in Paths, x \in Paths : f = s[2] /\ x = s[3] /\ CopyPair(f, x) /\ s[1] = "copy"
    BY <1>1, <1>12, StepForms DEF CopyFile, NextStep
  <2>2. f # x
    BY <2>1, PathNames DEF CopyPair
  <2>3. Do(s, files) = Copied(files, f, x)
    BY <2>1 DEF Do
  <2>4. PICK u : u = << <<"open", x>>, <<"read", f, x>> >>
    OBVIOUS
  <2>5. files' = files /\ Continue(p, IF Has(f) THEN u ELSE << >>)
    BY <1>1, <1>12, <2>1, <2>4 DEF CopyFile
  <2>6. CASE Has(f)
    <3>1. u \in Seq(FileSteps)
      <4>1. PICK a, b : a = <<"open", x>> /\ b = <<"read", f, x>>
        OBVIOUS
      <4>2. a \in FileSteps /\ b \in FileSteps
        BY <2>1, <4>1, StepsThere
      <4> QED
        BY <2>4, <4>1, <4>2
    <3>2. Leads(whole, files, u, Do(s, files))
      BY <1>3, <1>7, <2>1, <2>2, <2>3, <2>4, <2>6, CopyStep DEF Has
    <3> QED
      BY <1>2, <1>9, <2>5, <2>6, <3>1, <3>2
  <2>7. CASE ~Has(f)
    <3>1. Do(s, files) = files
      BY <2>3, <2>7 DEF Copied, Has
    <3>2. Leads(whole, files, << >>, Do(s, files))
      BY <3>1, LeadsNone
    <3> QED
      BY <1>2, <1>9, <1>10, <2>5, <2>7, <3>2
  <2> QED
    BY <2>6, <2>7
<1>13. CASE ReadFile(p)
  <2>1. PICK f \in Paths, x \in Paths : f = s[2] /\ x = s[3] /\ CopyPair(f, x) /\ s[1] = "read"
    BY <1>1, <1>13, StepForms DEF ReadFile, NextStep
  <2>2. Has(f)
    <3>1. 1 \in DOMAIN todo[p]
      BY <1>1
    <3> QED
      BY <1>1, <2>1, <3>1 DEF WsInv, ReadsPresent
  <2>3. Do(s, files) = Copied(files, f, x)
    BY <2>1 DEF Do
  <2>4. PICK b : b = <<"write", x, files[f]>>
    OBVIOUS
  <2>5. files' = files /\ Continue(p, << b >>)
    BY <1>1, <1>13, <2>1, <2>4 DEF ReadFile
  <2>6. << b >> \in Seq(FileSteps)
    <3>1. files[f] \in Kind(x) \cup {Empty}
      BY <1>4, <2>1, <2>2, CopyKinds DEF FilesTyped, Has
    <3> QED
      BY <2>4, <3>1, StepsThere, OneStep
  <2>7. \A y \in whole : files[y] = Empty => y = x
    BY <1>6, <2>1 DEF Fills
  <2>8. Leads(whole, files, << b >>, Do(s, files))
    BY <2>2, <2>3, <2>4, <2>7, ReadStep DEF Has
  <2> QED
    BY <1>2, <1>9, <2>5, <2>6, <2>8
<1>14. CASE Apply(p)
  <2>1. PICK point \in Points : point = s[2] /\ s[1] = "apply"
    BY <1>1, <1>14, StepForms DEF Apply, NextStep
  <2>2. Do(s, files) = Applied(files, point)
    BY <2>1 DEF Do
  <2>3. PICK u : u = Save(App, [Load(files[App]) EXCEPT !.runner = point.runner])
                       \o << <<"activate", point>> >>
    OBVIOUS
  <2>4. files' = files /\ Continue(p, IF Has(App) THEN u ELSE << >>)
    BY <1>1, <1>14, <2>1, <2>3 DEF Apply
  <2>5. CASE Has(App)
    <3>1. u \in Seq(FileSteps)
      <4>1. [Load(files[App]) EXCEPT !.runner = point.runner] \in Kind(App)
        BY <1>4, <2>5, HasApp, LoadTyped, PathKinds
      <4>2. Save(App, [Load(files[App]) EXCEPT !.runner = point.runner]) \in Seq(FileSteps)
        BY <4>1, PathKinds, SaveSteps
      <4>3. << <<"activate", point>> >> \in Seq(FileSteps)
        BY StepsThere, OneStep
      <4> QED
        BY <2>3, <4>2, <4>3, TwoParts
    <3>2. Leads(whole, files, u, Do(s, files))
      BY <1>3, <1>4, <1>7, <2>1, <2>2, <2>3, <2>5, ApplyStep
    <3> QED
      BY <1>2, <1>9, <2>4, <2>5, <3>1, <3>2
  <2>6. CASE ~Has(App)
    <3>1. Do(s, files) = files
      BY <2>2, <2>6 DEF Applied, Has
    <3>2. Leads(whole, files, << >>, Do(s, files))
      BY <3>1, LeadsNone
    <3> QED
      BY <1>2, <1>9, <1>10, <2>4, <2>6, <3>2
  <2> QED
    BY <2>5, <2>6
<1>15. CASE Activate(p)
  <2>1. PICK point \in Points : point = s[2] /\ s[1] = "activate"
    BY <1>1, <1>15, StepForms DEF Activate, NextStep
  <2>2. Do(s, files) = Activated(files, point)
    BY <2>1 DEF Do
  <2>3. PICK u : u = Save(Profile(point.label), point) \o Save(Current, point)
    OBVIOUS
  <2>4. files' = files /\ Continue(p, IF LabelOf(files[Current]) = point.label THEN << >> ELSE u)
    BY <1>1, <1>15, <2>1, <2>3 DEF Activate
  <2>5. CASE LabelOf(files[Current]) # point.label
    <3>1. u \in Seq(FileSteps)
      BY <2>3, PathKinds, SaveSteps, TwoParts
    <3>2. Leads(whole, files, u, Do(s, files))
      BY <1>3, <1>7, <2>1, <2>2, <2>3, <2>5, ActivateStep
    <3> QED
      BY <1>2, <1>9, <2>4, <2>5, <3>1, <3>2
  <2>6. CASE LabelOf(files[Current]) = point.label
    <3>1. Do(s, files) = files
      BY <2>2, <2>6 DEF Activated
    <3>2. Leads(whole, files, << >>, Do(s, files))
      BY <3>1, LeadsNone
    <3> QED
      BY <1>2, <1>9, <1>10, <2>4, <2>6, <3>2
  <2> QED
    BY <2>5, <2>6
<1>16. CASE Repair(p)
  <2>1. s[1] = "repair"
    BY <1>1, <1>16 DEF Repair, NextStep
  <2>2. Do(s, files) = Repaired(files)
    BY <2>1 DEF Do
  <2>3. PICK w : w = IF Has(App) THEN Load(files[App]) ELSE Defaults
    OBVIOUS
  <2>4. PICK a, u : a = (IF Has(App) THEN << >> ELSE Save(App, w)) /\ u = a \o << <<"prefix", w>> >>
    OBVIOUS
  <2>5. files' = files /\ Continue(p, u)
    BY <1>16, <2>3, <2>4 DEF Repair
  <2>6. Leads(whole, files, u, Do(s, files))
    BY <1>3, <1>4, <1>7, <2>1, <2>2, <2>3, <2>4, RepairStep, Zenon
  <2>7. u \in Seq(FileSteps)
    <3>1. w \in Settings
      BY <1>4, <2>3, HasApp, LoadTyped, DefaultsTyped, WorkspaceAssumption
    <3>2. a \in Seq(FileSteps) /\ << <<"prefix", w>> >> \in Seq(FileSteps)
      BY <2>4, <3>1, SettingsSteps, StepsThere, OneStep
    <3> QED
      BY <2>4, <3>2, TwoParts
  <2> QED
    BY <1>2, <1>9, <2>5, <2>6, <2>7
<1>17. CASE RepairPrefix(p)
  <2>1. PICK w \in Settings : w = s[2] /\ s[1] = "prefix"
    BY <1>1, <1>17, StepForms DEF RepairPrefix, NextStep
  <2>2. Do(s, files) = Furnished(files, w)
    BY <2>1 DEF Do
  <2>3. PICK b, c : /\ b = (IF Has(Prefix) THEN << >> ELSE Save(Prefix, "win10"))
                    /\ c = (IF w.shortcut THEN << >> ELSE Save(App, [w EXCEPT !.shortcut = TRUE]))
    OBVIOUS
  <2>4. PICK u : u = b \o c
    OBVIOUS
  <2>5. files' = files /\ Continue(p, u)
    BY <1>1, <1>17, <2>1, <2>3, <2>4 DEF RepairPrefix
  <2>6. Leads(whole, files, u, Do(s, files))
    BY <1>3, <1>4, <1>7, <2>1, <2>2, <2>3, <2>4, PrefixStep, Zenon
  <2>7. u \in Seq(FileSteps)
    <3>1. b \in Seq(FileSteps) /\ c \in Seq(FileSteps)
      BY <2>3, SettingsSteps
    <3> QED
      BY <2>4, <3>1, TwoParts
  <2> QED
    BY <1>2, <1>9, <2>5, <2>6, <2>7
<1> QED
  BY <1>2, <1>11, <1>12, <1>13, <1>14, <1>15, <1>16, <1>17 DEF FileStep

LEMMA SoloUnlink ==
  ASSUME WsInv, SoloInv, NEW p \in Procs, Unlink(p), p \in Busy \ overlapped
  PROVE  LET whole == WholeFiles(call[p], before[p])
         IN  Leads(whole, files', todo'[p], Outcome(call[p], before[p]))
<1>1. PICK whole, e : whole = WholeFiles(call[p], before[p]) /\ e = Outcome(call[p], before[p])
  OBVIOUS
<1>2. PICK s : s = <<"unlink">>
  OBVIOUS
<1>3. s[1] = "unlink" /\ \A g : Do(s, g) = NoFiles
  BY <1>2, DoNamed, Zenon
<1>4. todo[p] = << s >>
  <2>1. PICK t \in Seq(FileSteps) : t = todo[p] /\ t # << >> /\ t[1][1] = "unlink"
    BY DEF WsInv, TypeInv, Unlink, NextStep
  <2>2. 1 \in DOMAIN t /\ t[1] \in FileSteps
    BY <2>1
  <2>3. t[1] = s
    BY <1>2, <2>1, <2>2, StepForms
  <2>4. call[p].op = "remove"
    BY <1>2, <2>1, <2>2, <2>3 DEF WsInv, RemoveAlone
  <2> QED
    BY <1>2, <2>1, <2>4 DEF WsInv, RemoveAlone
<1>5. Leads(whole, files, << s >>, e)
  BY <1>1, <1>4 DEF SoloInv
<1>6. << s >> \in Seq(FileSteps) /\ << s >> # << >> /\ << s >>[1] = s /\ Tail(<< s >>) = << >>
  <2>1. s \in FileSteps
    BY <1>2, StepsThere
  <2>2. PICK t : t = << s >>
    OBVIOUS
  <2>3. t \in Seq(FileSteps) /\ Len(t) = 1 /\ t[1] = s /\ t # << >>
    BY <2>1, <2>2
  <2>4. PICK r : r = Tail(t)
    OBVIOUS
  <2>5. r = << >>
    BY <2>2, <2>4
  <2> QED
    BY <2>2, <2>3, <2>4, <2>5
<1>7. Leads(whole, Do(s, files), << >>, e) /\ \A f \in whole : files[f] = Empty => Fills(s, f)
  <2>1. PICK t \in Seq(FileSteps) : t = << s >> /\ t # << >> /\ t[1] = s /\ Tail(t) = << >>
    BY <1>6
  <2>2. Leads(whole, files, t, e)
    BY <1>5, <2>1
  <2>3. Leads(whole, Do(t[1], files), Tail(t), e) /\ \A f \in whole : files[f] = Empty => Fills(t[1], f)
    BY <2>1, <2>2, LeadsHead
  <2> QED
    BY <2>1, <2>3
<1>8. e = NoFiles /\ Clean(whole, files)
  <2>1. Do(s, files) = e
    BY <1>7, LeadsNowhere
  <2>2. ~ \E f : Fills(s, f)
    BY <1>3 DEF Fills
  <2> QED
    BY <1>3, <1>7, <2>1, <2>2 DEF Clean
<1>9. PICK f \in Paths : files' = [files EXCEPT ![f] = Absent]
  BY PathsThere DEF Unlink
<1>10. Clean(whole, files')
  BY <1>8, <1>9, WorkspaceAssumption DEF Clean, WholeFiles, WsInv, TypeInv, FilesTyped
<1>11. CASE UNCHANGED todo
  <2>1. Leads(whole, files', << s >>, Do(s, files'))
    BY <1>10, LeadsStep
  <2> QED
    BY <1>1, <1>3, <1>4, <1>8, <1>11, <2>1
<1>12. CASE /\ {x \in Paths \ {Dir} : Has(x)} = {}
            /\ files' = [files EXCEPT ![Dir] = Absent] /\ Continue(p, << >>)
  <2>1. Tree(files) /\ \A x \in Paths \ {Dir} : files[x] = Absent
    BY <1>12, FilesTree DEF Has, WsInv
  <2>2. files' = Put(files, Dir, Absent)
    BY <1>12, <2>1, PutExcept DEF Tree
  <2>3. files' = NoFiles
    BY <2>1, <2>2 DEF Put, NoFiles
  <2>4. todo'[p] = << >>
    <3>1. PICK u : u = << >> \o Tail(<< s >>)
      OBVIOUS
    <3>2. u = << >>
      <4>1. << >> \o << >> = << >>
        OBVIOUS
      <4> QED
        BY <1>6, <3>1, <4>1
    <3>3. todo' = [todo EXCEPT ![p] = u]
      BY <1>4, <1>12, <3>1 DEF Continue
    <3> QED
      BY <3>2, <3>3 DEF WsInv, TypeInv
  <2> QED
    BY <1>1, <1>8, <2>3, <2>4, LeadsNone
<1> QED
  BY <1>11, <1>12 DEF Unlink

LEMMA IdleNotBusy ==
  ASSUME WsInv, NEW p \in Procs, todo[p] # << >>
  PROVE  p \in Busy
BY DEF WsInv, RemoveAlone, Busy

LEMMA SoloWork ==
  ASSUME WsInv, SoloInv, NEW p \in Procs, FileStep(p) \/ Unlink(p)
  PROVE  SoloInv'
<1>1. UNCHANGED <<call, before, overlapped>> /\ todo[p] # << >>
  BY Zenon DEF FileStep, MakeDir, OpenFile, WriteFile, CopyFile, ReadFile, Apply, Activate,
     Repair, RepairPrefix, Unlink, NextStep, history
<1>2. Busy' = Busy /\ p \in Busy
  BY <1>1, IdleNotBusy DEF Busy
<1>3. \A q \in Busy \ overlapped : q = p /\ Busy = {q} /\ Tree(before[q])
  BY <1>2 DEF SoloInv
<1>4. ASSUME p \notin overlapped
      PROVE  Leads(WholeFiles(call[p], before[p]), files', todo'[p], Outcome(call[p], before[p]))
  BY <1>2, <1>4, SoloFile, SoloUnlink, Zenon
<1>5. ASSUME NEW q \in (Busy \ overlapped)'
      PROVE  /\ (Busy = {q})' /\ Tree(before[q])'
             /\ Leads(WholeFiles(call[q], before[q]), files, todo[q], Outcome(call[q], before[q]))'
  <2>1. q = p /\ p \notin overlapped /\ Busy' = {q} /\ Tree(before'[q])
    BY <1>1, <1>2, <1>3, <1>5
  <2> QED
    BY <1>1, <1>4, <2>1
<1>6. (DOMAIN before = Procs)'
  BY <1>1 DEF SoloInv
<1> QED
  BY <1>5, <1>6 DEF SoloInv

LEMMA SoloBegin ==
  ASSUME WsInv, SoloInv, NEW p \in Procs, NEW c \in Calls, Begin(p, c)
  PROVE  SoloInv'
<1>1. /\ call[p] = Idle /\ Admitted(c) /\ files' = files
      /\ call' = [call EXCEPT ![p] = c] /\ todo' = [todo EXCEPT ![p] = Steps(c)]
      /\ before' = [before EXCEPT ![p] = files]
      /\ overlapped' = IF Busy = {} THEN {} ELSE overlapped \cup Busy \cup {p}
  BY DEF Begin
<1>2. c # Idle
  BY CallFields
<1>3. \A q \in Procs : call'[q] = IF q = p THEN c ELSE call[q]
  BY <1>1 DEF WsInv, TypeInv
<1>4. \A q : q \in Busy' <=> q = p \/ q \in Busy
  BY <1>2, <1>3 DEF Busy
<1>5. DOMAIN before' = Procs
  BY <1>1 DEF SoloInv
<1>6. CASE Busy # {}
  <2>1. \A q \in Busy' : q \in overlapped'
    BY <1>1, <1>4, <1>6
  <2> QED
    BY <1>5, <2>1 DEF SoloInv
<1>7. CASE Busy = {}
  <2>1. Busy' = {p}
    BY <1>4, <1>7
  <2>2. call'[p] = c /\ todo'[p] = Steps(c) /\ before'[p] = files /\ Tree(files)
    BY <1>1, <1>3, FilesTree DEF WsInv, TypeInv, SoloInv
  <2>3. Leads(WholeFiles(c, files), files, Steps(c), Outcome(c, files))
    BY <1>1, BeginLeads DEF WsInv
  <2>4. ASSUME NEW q \in (Busy \ overlapped)'
        PROVE  /\ (Busy = {q})' /\ Tree(before[q])'
               /\ Leads(WholeFiles(call[q], before[q]), files, todo[q], Outcome(call[q], before[q]))'
    <3>1. q = p
      BY <2>1, <2>4
    <3> QED
      BY <1>1, <2>1, <2>2, <2>3, <3>1
  <2> QED
    BY <1>5, <2>4 DEF SoloInv
<1> QED
  BY <1>6, <1>7

LEMMA SoloEnd ==
  ASSUME WsInv, SoloInv, NEW p \in Procs, Return(p) \/ Crash(p)
  PROVE  SoloInv'
<1>1. /\ call' = [call EXCEPT ![p] = Idle] /\ before' = [before EXCEPT ![p] = NoFiles]
      /\ overlapped' = overlapped \ {p}
  BY DEF Return, Crash, Leave
<1>2. p \in Busy
  BY IdleNotBusy DEF Return, Crash, Busy
<1>3. \A q : q \in Busy' <=> q \in Busy /\ q # p
  BY <1>1 DEF Busy, WsInv, TypeInv
<1>4. \A q \in Busy' : q \in overlapped'
  BY <1>1, <1>2, <1>3 DEF SoloInv
<1>5. DOMAIN before' = Procs
  BY <1>1 DEF SoloInv
<1> QED
  BY <1>4, <1>5 DEF SoloInv

LEMMA SoloInit == Init => SoloInv
<1> SUFFICES ASSUME Init
             PROVE  SoloInv
  OBVIOUS
<1>1. DOMAIN before = Procs /\ \A p \in Procs : call[p] = Idle
  BY DEF Init
<1> QED
  BY <1>1 DEF SoloInv, Busy

LEMMA SoloStep == WsInv /\ SoloInv /\ [Next]_vars => SoloInv'
<1> SUFFICES ASSUME WsInv, SoloInv, [Next]_vars
             PROVE  SoloInv'
  OBVIOUS
<1>1. CASE UNCHANGED vars
  BY <1>1 DEF vars, SoloInv, Busy
<1>2. CASE Next
  <2>1. PICK p \in Procs :
          \/ \E c \in Calls : Begin(p, c)
          \/ FileStep(p) \/ Unlink(p) \/ Return(p) \/ Crash(p)
    BY <1>2 DEF Next, Work, FileStep
  <2> QED
    BY <2>1, SoloBegin, SoloWork, SoloEnd
<1> QED
  BY <1>1, <1>2

LEMMA SoloAlways == Spec => []SoloInv
<1>1. Init => SoloInv
  BY SoloInit
<1>2. WsInv /\ SoloInv /\ [Next]_vars => SoloInv'
  BY SoloStep
<1> QED
  BY <1>1, <1>2, WsAlways, PTL DEF Spec

(* A call that nothing overlaps has, when it returns, done all of what it  *)
(* is for and nothing else, whichever file steps it took (workspace.c:     *)
(* set, mode, the profile calls, snapshot, rollback, repair, remove); only *)
(* an apply under the label that is current already may leave the profile  *)
(* and the active point as they were.                                      *)
THEOREM SoloCallsAreAtomic == Spec => []CallsAreAtomic
<1>1. WsInv /\ SoloInv => CallsAreAtomic
  <2> SUFFICES ASSUME WsInv, SoloInv, NEW p \in Busy \ overlapped, todo[p] = << >>, NEW f \in Paths
               PROVE  \/ files[f] = Effect(call[p], before[p])[f]
                      \/ f \in LeftAlone(call[p], before[p]) /\ files[f] = before[p][f]
    BY DEF CallsAreAtomic
  <2>1. Leads(WholeFiles(call[p], before[p]), files, << >>, Outcome(call[p], before[p]))
    BY DEF SoloInv
  <2>2. files = Outcome(call[p], before[p])
    BY <2>1, LeadsNowhere
  <2>3. call[p] \in Calls /\ Tree(before[p])
    BY DEF WsInv, TypeInv, SoloInv, Busy
  <2> QED
    BY <2>2, <2>3, OutcomeOrLeft
<1> QED
  BY <1>1, WsAlways, SoloAlways, PTL

(* A kill after any step of a call costs at most the one file that the     *)
(* step was to fill: each save and copy is complete before the next file   *)
(* is truncated (save_text, copy_file in workspace.c).                     *)
THEOREM KillCostsOneFile == Spec => []CrashCostsOneFile
<1>1. WsInv /\ SoloInv => CrashCostsOneFile
  <2> SUFFICES ASSUME WsInv, SoloInv, NEW p \in Busy \ overlapped
               PROVE  Cardinality({f \in Texts : /\ files[f] = Empty /\ before[p][f] # Empty
                                                 /\ Effect(call[p], before[p])[f] # Empty}) <= 1
    BY DEF CrashCostsOneFile
  <2>1. PICK torn : torn = {f \in Texts : /\ files[f] = Empty /\ before[p][f] # Empty
                                          /\ Effect(call[p], before[p])[f] # Empty}
    OBVIOUS
  <2>2. PICK whole, e : whole = WholeFiles(call[p], before[p]) /\ e = Outcome(call[p], before[p])
    OBVIOUS
  <2>3. torn \subseteq {f \in whole : files[f] = Empty}
    <3>1. call[p] \in Calls /\ Tree(before[p])
      BY DEF WsInv, TypeInv, SoloInv, Busy
    <3>2. ASSUME NEW f \in torn
          PROVE  e[f] # Empty
      BY <2>1, <2>2, <3>1, OutcomeOrLeft DEF Texts
    <3> QED
      BY <2>1, <2>2, <3>2 DEF WholeFiles
  <2>4. Leads(whole, files, todo[p], e)
    BY <2>2 DEF SoloInv
  <2>5. torn = {} \/ \E x : torn = {x}
    <3>1. CASE todo[p] = << >>
      <4>1. files = e
        BY <2>4, <3>1, LeadsNowhere
      <4>2. \A f \in whole : e[f] # Empty
        BY <2>2 DEF WholeFiles
      <4> QED
        BY <2>3, <4>1, <4>2
    <3>2. CASE todo[p] # << >>
      <4>1. PICK t \in Seq(FileSteps) : t = todo[p]
        BY DEF Busy, WsInv, TypeInv
      <4>2. \A f \in torn : Fills(t[1], f)
        <5>1. t # << >> /\ Leads(whole, files, t, e)
          BY <2>4, <3>2, <4>1
        <5>2. \A f \in whole : files[f] = Empty => Fills(t[1], f)
          BY <4>1, <5>1, LeadsHead
        <5> QED
          BY <2>3, <5>2
      <4>3. \A f \in torn, g \in torn : f = g
        BY <4>2 DEF Fills
      <4> QED
        BY <4>3
    <3> QED
      BY <3>1, <3>2
  <2>6. CASE torn = {}
    BY <2>1, <2>6, FS_EmptySet
  <2>7. CASE \E x : torn = {x}
    <3>1. PICK x : torn = {x}
      BY <2>7
    <3>2. Cardinality({x}) = 1
      BY FS_Singleton
    <3>3. Cardinality(torn) = 1
      BY <3>1, <3>2
    <3> QED
      BY <2>1, <3>3
  <2> QED
    BY <2>5, <2>6, <2>7
<1> QED
  BY <1>1, WsAlways, SoloAlways, PTL
=============================================================================
