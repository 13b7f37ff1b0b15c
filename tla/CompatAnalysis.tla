--------------------------- MODULE CompatAnalysis ---------------------------
(***************************************************************************)
(* The pass over the imports of an image by the analyzer (compat.c) and    *)
(* the inspector (inspect.c), import by import, and what is concluded from *)
(* it.  A module is known by the prefix its name matches, a function by    *)
(* its name or "" for an ordinal.                                          *)
(***************************************************************************)
EXTENDS Integers, Sequences, FiniteSets, Functions

CONSTANTS
  ScanModules, ScanFunctions,
  Exported,    \* the <<module, function>> pairs the registry has
  MaxScan,     \* bound: imports of an image
  MaxMissing,  \* CELLAR_MAX_MISSING
  MaxDlls      \* CELLAR_INSPECT_MAX_DLLS

(* What the registry exports it exports by name.                           *)
ASSUME AnalysisAssumption ==
  /\ {MaxScan, MaxMissing, MaxDlls} \subseteq Nat
  /\ \A m \in ScanModules : <<m, "">> \notin Exported

VARIABLES
  imports,   \* the imports gone through: a sequence of [module, fn]
  analysis,  \* the local cellar_analysis_t and its two arrays of sums
  inspected, \* the local cellar_inspect_t
  clr        \* the image has a CLR directory

analysisVars == <<imports, analysis, inspected, clr>>

GfxDlls == {"d3d12", "d3d11", "d3d10", "d3d9", "d3d8", "d3dx", "dxgi", "ddraw", "opengl32", "glu32",
            "vulkan", "gdi32", "dwmapi", "d3dcompiler", "dwrite", "d2d1"}
AudioDlls == {"winmm", "dsound", "xaudio2", "mmdevapi", "avrt", "msacm32"}
InputDlls == {"dinput8", "dinput", "xinput", "wininput"}
NetDlls == {"ws2_32", "wsock32", "wininet", "winhttp", "iphlpapi", "dnsapi", "secur32", "schannel", "credui"}
KernelDlls == {"kernel32", "kernelbase", "msvcrt", "ucrtbase", "api-ms-win-crt-", "api-ms-win-core-file-",
               "api-ms-win-core-threadpool-", "api-ms-win-core-processthreads-"}
SysDlls == {"user32", "ntdll", "comctl32", "comdlg32", "ole32", "oleaut32", "uxtheme", "imm32", "setupapi",
            "crypt32", "bcrypt", "winspool", "propsys", "shcore", "advapi32", "shell32", "shlwapi",
            "version", "combase", "windows.storage"}

(* The functions of the model whose names have one of the code's words;    *)
(* GetCurrentDirectory has one of each list.                               *)
ThreadApis == {"CreateThread", "GetCurrentDirectory"}
FileApis == {"CreateFile", "GetCurrentDirectory"}
TimerApis == {"QueryPerformanceCounter", "QueryPerformanceFrequency", "timeGetTime",
              "GetSystemTimePreciseAsFileTime"}

Categories == {"graphics", "audio", "input", "networking", "filesystem", "threading", "system"}

(* classify, in the order of its tests; "app" is not scored.               *)
Classify(dll, fn) ==
  CASE dll \in GfxDlls -> "graphics"
    [] dll \in AudioDlls -> "audio"
    [] dll \in InputDlls -> "input"
    [] dll \in NetDlls -> "networking"
    [] dll \in KernelDlls /\ fn \in ThreadApis -> "threading"
    [] dll \in KernelDlls /\ fn \in FileApis \ ThreadApis -> "filesystem"
    [] dll \in KernelDlls /\ fn \notin ThreadApis \cup FileApis -> "system"
    [] dll \in SysDlls -> "system"
    [] OTHER -> "app"

(* detect_tech of the analyzer, classify_dll of the inspector: what is     *)
(* found later replaces what was found before, but for winmm.              *)
DetectGraphics(old, dll) ==
  IF dll \in {"d3d12", "d3d11", "d3d9", "opengl32", "vulkan"} THEN dll ELSE old

(* Variant: winmm, too, replaces what was found before.                    *)
DetectAudioAlways(old, dll) ==
  CASE dll \in {"xaudio2", "dsound"} -> "xaudio2" [] dll = "mmdevapi" -> "wasapi"
    [] dll = "winmm" -> "winmm" [] OTHER -> old

DetectAudio(old, dll) ==
  CASE dll \in {"xaudio2", "dsound"} -> "xaudio2" [] dll = "mmdevapi" -> "wasapi"
    [] dll = "winmm" /\ old = "" -> "winmm" [] OTHER -> old
InspectGraphics(old, dll) ==
  IF dll \in {"d3d12", "d3d11", "d3d9", "opengl32", "vulkan"} THEN dll ELSE old
InspectAudio(old, dll) ==
  CASE dll \in {"xaudio2", "dsound"} -> "xaudio2" [] dll = "mmdevapi" -> "wasapi"
    [] dll = "winmm" /\ old = "" -> "winmm" [] OTHER -> old

AnalysisInit ==
  /\ imports = << >>
  /\ analysis = [totals |-> [c \in Categories |-> 0], supported |-> [c \in Categories |-> 0],
                 missing |-> 0, graphics |-> "", audio |-> ""]
  /\ inspected = [dlls |-> << >>, graphics |-> "", audio |-> "",
                  dotnet |-> FALSE, vcruntime |-> FALSE]

(* One turn of the analyzer's loop; an ordinal is never supported, and of  *)
(* what is missing only the first MaxMissing are kept.                     *)
Analyzed(a, dll, fn) ==
  LET c == Classify(dll, fn)
      has == fn # "" /\ <<dll, fn>> \in Exported
  IN  IF c = "app" THEN a
      ELSE [a EXCEPT !.totals[c] = @ + 1, !.supported[c] = IF has THEN @ + 1 ELSE @,
                     !.missing = IF has \/ @ = MaxMissing THEN @ ELSE @ + 1,
                     !.graphics = DetectGraphics(@, dll), !.audio = DetectAudio(@, dll)]

(* One turn of the inspector's.                                            *)
Inspected(i, dll) ==
  [dlls |-> IF (\E n \in DOMAIN i.dlls : i.dlls[n] = dll) \/ Len(i.dlls) = MaxDlls THEN i.dlls
            ELSE Append(i.dlls, dll),
   graphics |-> InspectGraphics(i.graphics, dll), audio |-> InspectAudio(i.audio, dll),
   dotnet |-> i.dotnet \/ dll \in {"mscoree", "clr", "mscorlib"},
   vcruntime |-> i.vcruntime \/ dll \in {"msvcr", "vcruntime", "ucrtbase", "msvcp"}]

ScanImport(dll, fn) ==
  /\ Len(imports) < MaxScan
  /\ imports' = Append(imports, [module |-> dll, fn |-> fn])
  /\ analysis' = Analyzed(analysis, dll, fn)
  /\ inspected' = Inspected(inspected, dll)
  /\ UNCHANGED clr

Percent(part, whole, none) == IF whole = 0 THEN none ELSE (part * 100) \div whole
CategoryPercent(c) == Percent(analysis.supported[c], analysis.totals[c], -1)
Overall == Percent(SumFunction(analysis.supported), SumFunction(analysis.totals), 100)

Uses(fns) == {i \in DOMAIN imports : imports[i].fn \in fns}

(* The issues, as levels with what they are about.                         *)
Issues ==
  {x \in {<<"warn", "partial graphics">>} :
     analysis.totals["graphics"] # 0 /\ CategoryPercent("graphics") < 100}
  \cup {x \in {<<"warn", "d3d12">>} : analysis.totals["graphics"] # 0 /\ analysis.graphics = "d3d12"}
  \cup {x \in {<<"info", "d3d11">>} : analysis.totals["graphics"] # 0 /\ analysis.graphics = "d3d11"}
  \cup {x \in {<<"warn", "timer">>} : Uses(TimerApis) # {}}
  \cup {x \in {<<"warn", "synchronization">>} : Cardinality(Uses(ThreadApis)) > 4}
  \cup {x \in {<<"error", "missing">>} : analysis.missing # 0}
  \cup {x \in {<<"info", "ordinal">>} : Uses({""}) # {}}

Recommended ==
  [graphics |-> IF analysis.totals["graphics"] = 0 THEN "Software"
                ELSE IF analysis.graphics \in {"d3d12", "d3d11", "d3d9"} THEN "Vulkan" ELSE "OpenGL",
   audio |-> IF analysis.totals["audio"] # 0 /\ CategoryPercent("audio") < 100 THEN "PipeWire" ELSE "ALSA",
   shaderCache |-> analysis.totals["graphics"] # 0]

(* The directories are read after the imports.                             *)
NeedsDotnet == inspected.dotnet \/ clr

(* detect_source: what an install keeps of both passes, over its defaults. *)
DetectSource(default) ==
  [gfx |-> IF inspected.graphics = "" THEN default.gfx ELSE inspected.graphics,
   audio |-> IF inspected.audio = "" THEN default.audio ELSE inspected.audio,
   rating |-> IF Overall >= 90 THEN "HIGH" ELSE IF Overall >= 60 THEN "MEDIUM" ELSE "LOW",
   deps |-> {t \in {"vcruntime"} : inspected.vcruntime} \cup {t \in {"dotnet"} : NeedsDotnet}]

AnalysisStep == \E dll \in ScanModules, fn \in ScanFunctions \cup {""} : ScanImport(dll, fn)

-----------------------------------------------------------------------------
AnalysisTypeOK ==
  /\ \A c \in Categories : analysis.supported[c] \in 0..analysis.totals[c]
  /\ analysis.missing \in 0..MaxMissing /\ Len(inspected.dlls) <= MaxDlls

(* The verdict is honest: it is 100 percent just when every scored import  *)
(* has an implementation, which is just when no error is reported, also    *)
(* where the percentage is rounded and the list of what is missing is      *)
(* full; a category is at 100 just when nothing of it is missing.  And the *)
(* two passes, which are written apart, find the same graphics and audio.  *)
(* What an install keeps of them agrees: it is never rated LOW without an  *)
(* error, and no dependency is invented for an image that imports nothing  *)
(* and has no CLR header.                                                  *)
AnalysisHonest ==
  LET scored == {i \in DOMAIN imports : Classify(imports[i].module, imports[i].fn) # "app"}
      lacking == {i \in scored : <<imports[i].module, imports[i].fn>> \notin Exported}
      error == \E x \in Issues : x[1] = "error"
  IN  /\ MaxMissing > 0 => (Overall = 100 <=> lacking = {}) /\ (error <=> lacking # {})
      /\ \A c \in Categories :
           CategoryPercent(c) = 100 <=>
             /\ analysis.totals[c] > 0
             /\ \A i \in lacking : Classify(imports[i].module, imports[i].fn) # c
      /\ analysis.graphics = inspected.graphics /\ analysis.audio = inspected.audio
      /\ DetectSource([gfx |-> "", audio |-> ""]).rating = "LOW" => (error \/ MaxMissing = 0)
      /\ (imports = << >> /\ ~clr) => DetectSource([gfx |-> "", audio |-> ""]).deps = {}
      /\ Recommended.graphics = "Vulkan" => inspected.graphics \in {"d3d9", "d3d11", "d3d12"}
=============================================================================
