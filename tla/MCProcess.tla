----------------------------- MODULE MCProcess -----------------------------
(***************************************************************************)
(* A small instance of every component of CellarProcess.                   *)
(***************************************************************************)
EXTENDS CellarProcess, TLC

(* seed_defaults, cut to the backends that can be told apart.              *)
SeededKinds ==
  "graphics" :> <<[name |-> "Vulkan", priority |-> 0, available |-> TRUE],
                  [name |-> "OpenGL", priority |-> 1, available |-> TRUE]>>
  @@ "audio" :> <<[name |-> "ALSA", priority |-> 0, available |-> TRUE]>>

(* One name is the beginning of another, and one has a ']' in it.          *)
Brackets == "game" :> "game" @@ "game2" :> "game2" @@ "game]" :> "game"
Cuts == "game" :> {Torn} @@ "game2" :> {Torn, "game"} @@ "game]" :> {Torn, "game"}

TwoRoots == 1001 :> "HKCU" @@ 1002 :> "HKLM"

(* Two modules of one name, with different exports; the images of the      *)
(* instance import from a third that nobody registers, too.                *)
TwoModules ==
  "kernel32" :> [name |-> "KERNEL32", exports |-> {"f"}]
  @@ "kernel32+" :> [name |-> "KERNEL32", exports |-> {"f", "g"}]

(* Loads that do and do not map the image before they read its tables.   *)
CallersFlags == {{}, {"map", "relocs"}, {"imports", "exports", "relocs"},
                 {"map", "imports", "exports", "relocs"}}
SomeExports ==
  {<<"d3d11", "f">>, <<"winmm", "f">>, <<"kernel32", "f">>, <<"kernel32", "GetCurrentDirectory">>}
(* Two names give one file; one text is longer than the URL buffer only.   *)
Dashed == "My App" :> "My-App" @@ "My-App" :> "My-App" @@ "Game" :> "Game"
Cut == "text" :> [clipboard |-> "text", url |-> "text"]
       @@ "long" :> [clipboard |-> "long", url |-> "text"]

(* A workspace in order, and ones that lack one thing each.                *)
Healthy == [set |-> TRUE, found |-> TRUE, fine |-> SimpleChecks, gfx |-> "Vulkan",
            deps |-> {"vc", "dotnet"}]
DoctoredSpaces ==
  {Healthy, [Healthy EXCEPT !.found = FALSE], [Healthy EXCEPT !.set = FALSE, !.fine = {}],
   [Healthy EXCEPT !.deps = {}, !.gfx = "Software"], [Healthy EXCEPT !.deps = {"vcruntime"}],
   [Healthy EXCEPT !.deps = {"other"}, !.gfx = "OpenGL"]}
SampleLines ==
  {{}, {"vulkan"}, {"vulkan", "fail"}, {"vulkan", "error", "d3d"}, {"directx", "err:"}, {"err,"},
   {"vcruntime", "err:"}, {"dll override", "d3d"}, {"box64"}}

(* The default, one with the marks and pages swapped, one of UTF-8.        *)
AtHome == [acp |-> 1252, oemcp |-> 437, decimal |-> ".", thousand |-> ","]
ThreeLocales ==
  {AtHome, [acp |-> 437, oemcp |-> 1252, decimal |-> ",", thousand |-> "."],
   [acp |-> UTF8, oemcp |-> UTF8, decimal |-> ",", thousand |-> ""]}

OfficeTwice == "Cellar PDF" :> "Cellar PDF" @@ "Office" :> "Office" @@ "office" :> "Office"
(* One variable in two cases.                                              *)
ShellNames == "w" :> "windows" @@ "W" :> "windows"
=============================================================================
