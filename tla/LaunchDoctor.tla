---------------------------- MODULE LaunchDoctor ----------------------------
(***************************************************************************)
(* The launch doctor of workspace.c, which "cellar app doctor" and "run"   *)
(* decide by, over what the rest of the process changes: the workspaces,   *)
(* the runtimes installed in them through runtime.c's one bound bottle,    *)
(* and the graphics back end that would be picked.  And the log diagnosis  *)
(* of workspace.c, line by line.                                           *)
(***************************************************************************)
EXTENDS Integers, Sequences, FiniteSets

CONSTANTS
  Spaces,       \* workspaces
  SpaceStates,  \* bound: what a workspace can be, a set of Space records
  Missing,      \* no such workspace, or none bound
  LogLines,     \* bound: the lines of a log, each the set of the words it has
  MaxLines      \* bound: lines of a log

(* set: app.conf names an executable; found: it is there; fine: the simple *)
(* checks that go well; deps: the dependencies it declares.                *)
SimpleChecks == {"prefix", "storage", "architecture", "hash", "profile"}
Space ==
  [set : BOOLEAN, found : BOOLEAN, fine : SUBSET SimpleChecks,
   gfx : {"Vulkan", "Software", "OpenGL"}, deps : SUBSET STRING]

ASSUME DoctorAssumption ==
  /\ SpaceStates \subseteq Space /\ LogLines \subseteq SUBSET STRING
  /\ MaxLines \in Nat

VARIABLES
  space,   \* [Spaces -> a member of SpaceStates, or Missing]
  marker,  \* [Spaces -> the runtimes with an INSTALLED file there]
  bound,   \* runtime.c's g_bottle, Missing before g_inited
  vulkan,  \* Vulkan is what cellar_backend_pick returns for graphics
  report,  \* the report of the doctor, until something else happens
  log,     \* the log lines read so far
  notes,   \* what diagnose wrote about them: [line, class]
  scanning \* diagnose goes on to the next line

doctorVars == <<space, marker, bound, vulkan, report>>
diagnoseVars == <<log, notes, scanning>>

NoReport == [of |-> Missing, checks |-> << >>, ready |-> FALSE]

DoctorInit ==
  /\ space = [w \in Spaces |-> Missing] /\ marker = [w \in Spaces |-> {}]
  /\ bound = Missing /\ vulkan = TRUE /\ report = NoReport

DiagnoseInit == log = << >> /\ notes = << >> /\ scanning = TRUE

-----------------------------------------------------------------------------
Runtimes == {"vcruntime", "dotnet", "directx", "fonts", "systemlibs"}

(* cellar_runtime_parse, with "none" for CELLAR_RT_COUNT.                  *)
Kind(token) ==
  CASE token \in {"vcruntime", "vc", "vcredist"} -> "vcruntime"
    [] token \in {"dotnet", "net"} -> "dotnet"
    [] token \in {"directx", "dx"} -> "directx"
    [] token = "fonts" -> "fonts"
    [] token \in {"systemlibs", "system"} -> "systemlibs"
    [] OTHER -> "none"

InstalledIn(bottle, kind) == bottle # Missing /\ kind \in marker[bottle]

(* Variant: the runtimes are asked for in the bottle bound before.         *)
DependenciesWhereBound(w) ==
  IF \A t \in space[w].deps : InstalledIn(bound, Kind(t)) THEN "ok" ELSE "warn"

(* The doctor binds the workspace before it asks for its runtimes (of the  *)
(* first 16 names; the model has fewer).                                   *)
Dependencies(w) ==
  IF \A t \in space[w].deps : InstalledIn(w, Kind(t)) THEN "ok" ELSE "warn"

Simple(w, c) == <<c, IF c \in space[w].fine THEN "ok" ELSE "warn">>

Renderer(w) ==
  IF space[w].gfx = "Software" \/ (space[w].gfx = "Vulkan" /\ ~vulkan) THEN "warn" ELSE "ok"

(* The checks in their order; only the first two can fail.                 *)
Checks(w) ==
  IF space[w] = Missing THEN << <<"workspace", "fail">> >>
  ELSE << <<"workspace", "ok">>,
          <<"executable", IF space[w].set /\ space[w].found THEN "ok" ELSE "fail">>,
          Simple(w, "prefix"), Simple(w, "storage"), Simple(w, "architecture"),
          <<"renderer", Renderer(w)>>, <<"dependencies", Dependencies(w)>>,
          Simple(w, "hash"), Simple(w, "profile") >>

(* The doctor leaves a workspace that declares dependencies bound.         *)
Doctor(w) ==
  /\ report' = [of |-> w, checks |-> Checks(w),
                ready |-> \A i \in DOMAIN Checks(w) : Checks(w)[i][2] # "fail"]
  /\ bound' = IF space[w] # Missing /\ space[w].deps # {} THEN w ELSE bound
  /\ UNCHANGED <<space, marker, vulkan>>

(* "run" gives up before the doctor on a workspace that does not load.     *)
Run(w) == space[w] # Missing /\ Doctor(w)

Bind(w) ==
  /\ bound' = w /\ report' = NoReport
  /\ UNCHANGED <<space, marker, vulkan>>

(* install and uninstall, in whatever bottle is bound.                     *)
ChangeRuntime(kind) ==
  /\ bound # Missing
  /\ \E kinds \in {marker[bound] \cup {kind}, marker[bound] \ {kind}} :
       marker' = [marker EXCEPT ![bound] = kinds]
  /\ report' = NoReport
  /\ UNCHANGED <<space, bound, vulkan>>

(* The other calls of workspace.c, and whoever else has the files; remove  *)
(* takes the markers along.                                                *)
ChangeSpace(w) ==
  /\ \E s \in SpaceStates \cup {Missing} :
       /\ space' = [space EXCEPT ![w] = s]
       /\ marker' = IF s = Missing THEN [marker EXCEPT ![w] = {}] ELSE marker
  /\ report' = NoReport
  /\ UNCHANGED <<bound, vulkan>>

ChangeVulkan ==
  /\ vulkan' = ~vulkan /\ report' = NoReport
  /\ UNCHANGED <<space, marker, bound>>

DoctorStep ==
  \/ \E w \in Spaces : Doctor(w) \/ Run(w) \/ Bind(w) \/ ChangeSpace(w)
  \/ \E kind \in {"vcruntime", "dotnet"} : ChangeRuntime(kind)
  \/ ChangeVulkan

-----------------------------------------------------------------------------
(* What a line is taken for, by the first of the tests that fits.          *)
ClassOf(line) ==
  CASE line \cap {"visual c++", "vcruntime", "msvcr"} # {} -> "vc-runtime"
    [] line \cap {"override conflict", "dll override"} # {} -> "dll-override"
    [] "vulkan" \in line /\ line \cap {"fail", "error", "unavailable"} # {} -> "gfx vulkan"
    [] line \cap {"d3d", "directx"} # {} -> "gfx directx"
    [] line \cap {"box64", "box86"} # {} -> "box64"
    [] line \cap {"err:", "err,"} # {} -> "wine"
    [] OTHER -> "unused"

(* One line; when it leaves too little of the buffer, which its length and *)
(* that of the buffer decide, the rest of the log is not read.             *)
DiagnoseLine(line) ==
  /\ scanning /\ Len(log) < MaxLines
  /\ log' = Append(log, line)
  /\ notes' = IF ClassOf(line) = "unused" THEN notes
              ELSE Append(notes, [line |-> Len(log'), class |-> ClassOf(line)])
  /\ scanning' \in {TRUE} \cup {b \in BOOLEAN : notes' # << >>}

DiagnoseStep == \E line \in LogLines : DiagnoseLine(line)

(* "No obvious compatibility issues found".                                *)
NothingFound == notes = << >>

-----------------------------------------------------------------------------
DoctorTypeOK ==
  /\ space \in [Spaces -> SpaceStates \cup {Missing}]
  /\ marker \in [Spaces -> SUBSET Runtimes] /\ bound \in Spaces \cup {Missing}
  /\ Len(notes) <= Len(log) /\ Len(log) <= MaxLines

(* The verdict by which a launch goes on is about the workspace asked for, *)
(* whichever bottle the runtime manager was bound to: the report is READY  *)
(* just when the executable is set and there, and finds the dependencies   *)
(* in order just when each of them is a runtime installed in this very     *)
(* workspace; a workspace that loads gets all nine checks.                 *)
DoctorHonest ==
  report.of # Missing =>
    LET w == report.of
        says(c) == \E i \in DOMAIN report.checks : report.checks[i] = <<c, "ok">>
    IN  /\ report.ready <=> (space[w] # Missing /\ space[w].set /\ space[w].found)
        /\ space[w] # Missing =>
             /\ Len(report.checks) = 9
             /\ says("dependencies") <=> {Kind(t) : t \in space[w].deps} \subseteq marker[w]
             /\ (space[w].gfx = "Vulkan" /\ says("renderer")) => vulkan

(* A log is called clean just when no line of it is a symptom, although    *)
(* only a part of it may have been read; a line is reported at most once.  *)
DiagnosisHonest ==
  /\ NothingFound <=> \A i \in DOMAIN log : ClassOf(log[i]) = "unused"
  /\ ~scanning => ~NothingFound
  /\ \A i, j \in DOMAIN notes : i < j => notes[i].line < notes[j].line
=============================================================================
