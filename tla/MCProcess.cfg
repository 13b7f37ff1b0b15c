\* Each component of a process on its own small instance: tables of one to
\* three slots, two threads or three clients, an image of six bytes, relocation
\* sums modulo five.  A behaviour ends where a bound is reached.
CONSTANTS
  ComThreads = {t1, t2}
  Classes = {c1, c2}
  Objects = {o1, o2}
  ClassSlots = 1
  MaxHeld = 2
  NoObject = NoObject
  Clients = {k1, k2, k3}
  Slots = 2
  MaxChunks = 2
  Services = {s1, s2}
  DeviceSlots = 2
  IdLimit = 4
  NotifyCap = 2
  Nodes = 5
  MaxNesting = 3
  EntryNames = {"My App", "My-App", "Game"}
  EntryId <- Dashed
  Texts = {"text", "long"}
  Kept <- Cut
  MaxMime = 2
  SampleCap = 3
  FrameCap = 3
  FrameTimes = {1, 2, 4}
  MaxSamples = 8
  MaxFrames = 6
  Kinds = {"graphics", "audio"}
  BackendNames = {"Vulkan", "ALSA", "X"}
  Priorities = {0, 1}
  BackendSlots = 3
  Seeds <- SeededKinds
  None = None
  Sids = {"user", "admin", "group"}
  Rights = {"read", "write"}
  AceSlots = 3
  TokenUser = "user"
  TokenGroup = "group"
  RootName <- TwoRoots
  SubKeys = {"A", "B"}
  RegValues = {"", "v"}
  NoValue = ""
  RegSlots = 3
  Apps = {"game", "game2", "game]"}
  ReadBack <- Brackets
  CutNames <- Cuts
  Torn = "torn"
  IssueTexts = {"i"}
  Percents = {50, 70}
  MaxIssues = 1
  MaxEntries = 2
  Modules <- TwoModules
  ModuleNames = {"KERNEL32", "USER32"}
  FunctionNames = {"f"}
  FlagSets <- CallersFlags
  Unresolved = Unresolved
  MaxModules = 2
  MaxImports = 2
  MaxLoads = 2
  Width = 5
  ImageEnd = 4
  RawSize = 6
  ImageSize = 6
  HeaderSize = 2
  Sections = 2
  Addresses = {1, 2, 3, 5}
  Offsets = {1, 4, 6}
  VirtualSizes = {0, 1, 2}
  DataSizes = {0, 1, 3}
  Setups = {"s1", "s2"}
  Default = "default"
  Damaged = "damaged"
  ScanModules = {"d3d11", "opengl32", "winmm", "dsound", "kernel32", "ws2_32", "mscoree", "ucrtbase"}
  ScanFunctions = {"f", "GetCurrentDirectory"}
  Exported <- SomeExports
  MaxScan = 3
  MaxMissing = 2
  MaxDlls = 3
  Spaces = {w1, w2}
  SpaceStates <- DoctoredSpaces
  Missing = Missing
  LogLines <- SampleLines
  MaxLines = 4
  Locales <- ThreeLocales
  English <- AtHome
  Pages = {0, 1, 437, 1252, 65001}
  Bytes = {65, 128, 129, 159, 195}
  Caps = {1, 3, 7}
  MaxText = 2
  MaxDigits = 8
  Overflow = Overflow
  Printers = {"Cellar PDF", "Office", "office"}
  SameName <- OfficeTwice
  CellarPdf = "Cellar PDF"
  PrinterSlots = 2
  JobDirs = {"/tmp", "/out"}
  Documents = {"a", "b"}
  JobLimit = 3
  BottlePaths = {"/x", "/y"}
  Named <- ShellNames
  Letters = {"%", "w", "W", "z"}
  MaxLetters = 5
SPECIFICATION Spec
CHECK_DEADLOCK FALSE
INVARIANTS
  ProcessTypeOK
  RefsAccounted
  HandlesPrivate
  WavWhole
  ServiceSettled
  IdentifiersStable
  HistoriesKeepLatest
  ScansDecide
  TornFilesRecognised
  LoadAllOrNothing
  BoundStaysValid
  MappedMatchesRaw
  VerdictsHonest
  ConversionsExact
PROPERTY LoadEnds
