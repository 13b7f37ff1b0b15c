--------------------------- MODULE CellarProcess ---------------------------
(***************************************************************************)
(* The components of libcellar that live in one process and share no       *)
(* variable with one another.  A step of one leaves the others alone, so   *)
(* that what holds of each in every behaviour holds of their interleaving; *)
(* a behaviour here runs one of them, chosen at the start, which makes the *)
(* state space the sum of theirs and not the product.                      *)
(***************************************************************************)
EXTENDS ComObjects, WaveOut, SessionTables, SampleRings, BackendRegistry, AccessCheck,
        RegistryTable, CompatDb, AppProfile, CompatAnalysis, ImageLoader, PeImage,
        LaunchDoctor, LocaleText, HostServices

VARIABLE part  \* the component that runs

vars == <<part, comVars, waveVars, sessionVars, sampleVars, frameVars, backendVars, accessVars,
          regVars, dbVars, profileVars, analysisVars, loaderVars, imageVars,
          doctorVars, diagnoseVars, localeVars, hostVars>>

Components ==
  {"com", "wave", "services", "devices", "notifications", "a11y", "samples", "frames", "backends",
   "access", "registry", "database", "profile", "analysis", "loader", "image",
   "desktop", "doctor", "diagnose", "locale", "printing", "shell"}

Init ==
  /\ part \in Components
  /\ ComInit /\ WaveInit /\ SessionInit /\ SamplesInit /\ FramesInit /\ BackendInit
  /\ AccessInit /\ RegInit /\ DbInit /\ ProfileInit /\ AnalysisInit /\ LoaderInit
  /\ clr \in {FALSE, part = "analysis"}
  /\ DoctorInit /\ DiagnoseInit /\ LocaleInit /\ HostInit
  /\ IF part = "image" THEN ImageInit ELSE IdleImage

Leave(c, v) == IF part = c THEN TRUE ELSE UNCHANGED v

OthersUnchanged ==
  /\ Leave("com", comVars) /\ Leave("wave", waveVars)
  /\ Leave("services", serviceVars) /\ Leave("devices", deviceVars)
  /\ Leave("notifications", notifyVars) /\ Leave("a11y", nodeVars)
  /\ Leave("samples", sampleVars) /\ Leave("frames", frameVars)
  /\ Leave("backends", backendVars) /\ Leave("access", accessVars)
  /\ Leave("registry", regVars) /\ Leave("database", dbVars)
  /\ Leave("profile", profileVars) /\ Leave("analysis", analysisVars)
  /\ Leave("loader", loaderVars) /\ Leave("image", imageVars)
  /\ Leave("desktop", desktopVars) /\ Leave("doctor", doctorVars)
  /\ Leave("diagnose", diagnoseVars) /\ Leave("locale", localeVars)
  /\ Leave("printing", printVars) /\ Leave("shell", shellVars)

Next ==
  /\ UNCHANGED part /\ OthersUnchanged
  /\ \/ part = "com" /\ ComNext
     \/ part = "wave" /\ WaveNext
     \/ part = "services" /\ ServiceStep
     \/ part = "devices" /\ DeviceStep
     \/ part = "notifications" /\ NotifyStep
     \/ part = "a11y" /\ NodeStep
     \/ part = "samples" /\ SampleStep
     \/ part = "frames" /\ FrameStep
     \/ part = "backends" /\ BackendStep
     \/ part = "access" /\ AccessStep
     \/ part = "registry" /\ RegStep
     \/ part = "database" /\ DbStep
     \/ part = "profile" /\ ProfileStep
     \/ part = "analysis" /\ AnalysisStep
     \/ part = "loader" /\ LoaderStep
     \/ part = "image" /\ ImageStep
     \/ part = "desktop" /\ DesktopStep
     \/ part = "doctor" /\ DoctorStep
     \/ part = "diagnose" /\ DiagnoseStep
     \/ part = "locale" /\ LocaleStep
     \/ part = "printing" /\ PrintStep
     \/ part = "shell" /\ ShellStep

(* A load runs on its caller's thread until it returns.                    *)
LoadGoesOn == part = "loader" /\ LoadStep /\ UNCHANGED part /\ OthersUnchanged

Spec == Init /\ [][Next]_vars /\ WF_vars(LoadGoesOn)

-----------------------------------------------------------------------------
(* Types and shapes of every component's state, the tree of a11y.c with    *)
(* its counts among them.                                                  *)
ProcessTypeOK ==
  /\ ComTypeOK /\ WaveTypeOK /\ SessionTypeOK /\ TreeCounts /\ SamplesTypeOK /\ BackendTypeOK
  /\ AccessTypeOK /\ RegTypeOK /\ DbTypeOK /\ ProfileTypeOK /\ AnalysisTypeOK /\ LoaderTypeOK
  /\ ImageTypeOK /\ DoctorTypeOK /\ LocaleTypeOK /\ HostTypeOK

(* An identifier given out means one thing for ever: a device id is never  *)
(* given to a second device, a registry handle, closed or not, always      *)
(* means the key it was opened for, and the file of a print job's number   *)
(* keeps its document.                                                     *)
IdentifiersStable == DeviceIdsFresh /\ HandleIsKey /\ JobsKeepTheirFiles

(* The three bounded histories of a process, of samples, frame times and   *)
(* notifications, hold the latest entries and are read in order across     *)
(* their wrap.                                                             *)
HistoriesKeepLatest == DrainInOrder /\ ReportIsRecent /\ HistoryIsRecent

(* The choices made by one pass over a table come out right in whatever    *)
(* order it was filled: the back end to use, the access to grant and the   *)
(* printer of a job.                                                       *)
ScansDecide == PickIsBest /\ DenyWins /\ JobsGoWhereAsked

(* What is converted can be taken back: text between code pages and UTF-8, *)
(* a number and its separators, and a text with variables in it.           *)
ConversionsExact == TextRoundTrips /\ NumberReadsBack /\ ExpandsOnce

(* The two text files that a process rewrites in place are read for what   *)
(* they were meant to say, also when the writer was killed in the middle.  *)
TornFilesRecognised == ReopenFindsSaved /\ LastGoodWhole

(* The three verdicts that a user decides by tell the truth: that of the   *)
(* analyzer about an image, that of the doctor about a workspace and that  *)
(* of diagnose about a log.  And the dependencies that an install finds in *)
(* an image are ones that the doctor knows how to look for.                *)
VerdictsHonest ==
  /\ AnalysisHonest /\ DoctorHonest /\ DiagnosisHonest
  /\ \A t \in DetectSource([gfx |-> "", audio |-> ""]).deps : Kind(t) \in Runtimes
=============================================================================
