# Verification of Winaltor / libcellar

TLA+ models, TLC runs and TLAPS proofs for the C code in `src/`: the `cellar`
compatibility library (PE loader, Win32 modules, synchronization, shared
memory, caches, bottles) and the Winaltor workspace layer on top of it.

- [1. The system](#1-the-system)
- [2. Modules and the code they model](#2-modules-and-the-code-they-model)
- [3. Runs: what is checked and what it shows](#3-runs-what-is-checked-and-what-it-shows)
- [4. Proofs](#4-proofs)
- [5. Where code and documents disagree](#5-where-code-and-documents-disagree)
- [6. What is not modelled](#6-what-is-not-modelled)
- [7. Plan](#7-plan)

Run a model with `tlc -config X.cfg M`, check proofs with `tlapm M.tla`.

## 1. The system

One static library and one command line program, `cellar`. A process loads a
Windows executable (`loader/`), resolves its imports against a registry of
built-in Win32 modules (`win32/`), and those modules call the services below.
The command line, and the workspace layer, keep *bottles* (prefixes) and
*workspaces* as directories of small text files. There is no daemon: processes
meet only in the file system, threads only in `sync/` and `shmem/`.

| Component (`src/src/...`) | State | Operations | What is hard | What makes it correct |
|---|---|---|---|---|
| `sync/sync.c` | one 32-bit futex word per mutex, semaphore, event; one per spinlock | lock, trylock, unlock; post, wait; set, reset, wait | every atomic access interleaves; EAGAIN, EINTR, weak CAS failures | exclusion, conservation of units, no forgotten sleeper |
| `shmem/shmem.c` | buffer, free-running `head` and `tail` | create, used, free, produce, consume, peek, drop | producer and consumer run at once on stale cursors; wrap | it is a bounded queue of bytes |
| `gfx/shadercache.c` | file: header (identity, count), appended records; handle: entries, append stream | open, lookup, insert, close, key helpers | stdio writes when it likes; crash tears the end; two handles at close | no blob of another device; what was stored is found |
| `workspace/workspace.c` | `app.conf`, `prefix.conf`, profiles, `current.profile`, snapshots | install, set, remove, repair, profile save/apply/import, snapshot, rollback, reports | load-change-save without a lock, truncate-then-write, calls of several files cut short | a call is all or one damaged file; active profile exists |
| `prefix/prefix.c` | `prefix.conf`, a directory tree, CBK1 archives | create, delete, get/set config and settings, clone, backup, restore | damaged archives, partial overlays, rewritten settings | a restore gives back what was backed up |
| `installer/installer.c` | journal file per package, files in the bottle, registry keys | commit, load, uninstall | interrupted commit or uninstall, repeated commit, shared files | uninstall removes what commit wrote |
| `runtime/runtime.c` | marker files, one process-wide current bottle | install, probe, select | a call for one bottle moves the next call of another | operations act on the bottle they name |
| `loader/loader.c`, `loader/pe.c` | an image: mapped memory, sections, imports, exports, relocations | load file, load buffer, parse, unload | a later stage fails after an earlier one took memory | all or nothing, nothing leaked |
| `win32/api.c`, `win32/init.c` | module table, trace hook | register, resolve, init | order of registration, ordinal and name imports | one answer per import |
| `win32/mod_advapi32.c` | registry table of 128 entries | open, query, set, close | table full, open creates | a value set is the value queried |
| `win32/mod_winmm.c`, `audio/` | eight wave devices, a sink each, WAV file | open, write, reset, close | slot reuse behind a stale handle; all devices write one file | a handle names its own device; WAV header agrees with data |
| `com/com.c` | apartments, class table, proxies, reference counts | register, create, query, marshal, unmarshal, revoke | reference counts along several paths, table limit 32 | alive while referenced, released once |
| `service/`, `device/`, `notify/`, `a11y/`, `desktop/` | bounded tables of the session | register, start, stop, attach, detach, send, dismiss | limits, reuse of identifiers, callbacks inside a call | identifiers name one entry |
| `plugin/plugin.c` | backend table per category, seeded lazily | register, set available, pick | calls before the seeding | pick is the best available |
| `perf/perf.c`, `timer/timer.c` | 256-entry sample ring; frame history | begin, end, drain; frame, report | wrap, percentile index | samples drained are the samples kept |
| `security/security.c` | descriptors of up to 16 ACEs | create, add, check | deny before allow, empty list | no access that no ACE grants |
| `db/db.c` | table of entries, text file | open, put, save, find | limits, escaping, merge of two runs | save then open is the identity |
| `compat/`, `inspect/` | sums over an image's imports; `profile.conf` | analyze, inspect, save and load a profile | two passes written apart; rounding; kills in a save | the verdict is honest; "last good" was good |
| `locale/`, `shell/`, `print/` | a locale, the paths of one bottle, printers and a job counter | convert, format, expand, print | two code page tables; buffers; `%` that overlap; counters that start at 1 in each process | what is converted can be taken back; a job keeps its file |
| `trace/`, `debug/`, `crash/`, `display/`, `port/`, `cli.c`, `testlab/` | a mask, a record | reports, argument parsing | wording | out of reach of a state machine |

How they interact: the workspace calls the prefix manager for `prefix.conf`
and directories; the installer and the runtime work in the bottle the runtime
holds current; Win32 modules hand wave devices to the audio sinks and COM
calls to the COM core; the loader asks the module registry; the shader cache
and the ring have no caller inside the library besides the tests and the
command line, they are offered to hosts of it. `sync.h` is used by the
library's clients: it never nests one primitive inside another, so `CellarSync`
puts the four side by side under the same threads.

`PROJECT.json` lists each hazard at its line.

## 2. Modules and the code they model

`PROJECT.json` maps each definition to its lines. Names follow the source.

### Synchronization (`sync/sync.c`)

`Futex` has what the primitives share: the program counters of the threads and
the futex calls. One atomic access is one step (every access in `sync.c` is
sequentially consistent).
A parked thread is one whose `pc` is the parking label of a word, so the
kernel's queue is a set of threads and a wake takes any of them.
`FUTEX_WAIT` compares and parks in one step, returns at once on another value,
and may return on a signal at any time.

| Module | Code | State |
|---|---|---|
| `FutexMutex` | `cellar_mutex_*` | `mword` 0, 1, 2; `mholder` the threads that were let in |
| `SpinLock` | `cellar_spinlock_*` | `sword`, `sholder` |
| `FutexSemaphore` | `cellar_semaphore_*` | `units` the count, `known` the local `c`, history `posted`, `taken` |
| `FutexEvent` | `cellar_event_*` | `signaled`, history `passedOver` |
| `CellarSync` | all four in one process | `pc`, `slips` |

A thread is in one call at a time. A lock is taken only by a thread that does
not hold it and released only by one that does; that is the callers' contract,
nothing in the code enforces it. The timeout of `cellar_futex_wait` is not
modelled: every caller in `sync.c` passes "forever".

`slips` is a history variable. Three steps of the code break a promise of a
primitive; each marks itself, and the invariants hold *up to* the mark. So
`WakeupOwed` says both that sleepers are owed a wake and that the failed
trylock is the only step in the code that can forget one.

### SPSC ring (`shmem/shmem.c`)

`SpscRing`: a call reads both cursors and fixes its length (`ProduceCall`,
`ConsumerCall`), copies byte by byte (`ProduceCopy`, `ConsumerCopy`, through
the two `memcpy`s of `Position`), and publishes its own cursor
(`ProducePublish`, `ConsumerReturn`). The two sides interleave at every byte.
`ByteQueue` is the abstract specification: calls of a bounded queue that decide
and answer in two atomic steps. `SpscRing` is shown to implement it under
`queue <- Stored`, `offer <- data`. The cursors are 64 bits wide and are
modelled as naturals: 2^64 bytes do not pass through a ring.

### Shader cache (`gfx/shadercache.c`)

`ShaderCache`: the file is a header and a sequence of cells (key, size, pieces
of a blob). `Insert` appends to stdio's buffer, `Spill(n)` writes any part of
it out, `CloseFlush` and `CloseCount` are the two halves of close, `Crash` may
come between any two steps and loses the buffer. `Lookup` is the scan of the
code, which also runs over the leftovers of torn records. `InsertShort` is the
insert whose `fwrite` takes only a part of the record: it answers -1 and counts
nothing, but what stdio took goes to the file with the rest. `OpenHeader` may
fail to get its append handle: the new header is on file, no handle comes back.
`CloseCount` may fail to open the file again, and leaves the count as it was.
`log` is history: the records that were inserted behind an undamaged end of
file. `harm` says what has happened to the file since its header was written:
nothing (`"none"`), a close that did not come to the count (`"uncounted"`), or a
part of a record that a crash or a failed insert left behind (`"torn"`). One
handle is open at a time (the header says the API is single-threaded).

### Workspace (`workspace/workspace.c`, `prefix/prefix.c`)

`Workspace`: `files` maps the paths of one workspace to contents. A call checks
its arguments (`Admitted`), then works off a list of steps: `mkdir`, `open`
(truncates), `write`, `copy`, `read`. Steps whose target depends on what is on
disk when they run (`Apply`, `Activate`, `Repair`, `RepairPrefix`, `CopyFile`)
replace themselves by others; a repair looks for `prefix.conf` only after it has
saved `app.conf`, so these are two. `Begin` therefore also does what the code does before its
first write: it loads the file. `app.conf` is abstracted to the runner (the
field that set, profiles and rollbacks compete for) and whether it has a
shortcut; `prefix.conf` to its mode. A save is two steps, truncated and
complete: the files are shorter than a stdio buffer, so they are written by one
`write` at `fclose`. `before`, `overlapped` and `ragged` are history. `Budget`
bounds the calls: one that begins while no other is running costs two, one that
overlaps another three. `remove`
runs alone in the model (nothing sensible can be said about calls in a
directory that is being deleted); a crash may still cut it short (`ragged`).

### Bottles (`prefix/prefix.c`, `installer/installer.c`, `runtime/runtime.c`)

`Bottles`: the files of several bottles and one CBK1 archive, under the calls
of the prefix manager, the installer and the runtime manager, one call after
another in a process that may be killed inside any of them. A call settles what
it will write when it begins (`BeginCreate` and its sisters, the guards being the
code's early returns) and works off phases; the files of one phase come in any
order, as `readdir` or the archive has them (`Advance`, `Torn`, `Crash`).

| Definition | Code |
|---|---|
| `Create`, `Delete`, `Config`, `SetSetting` | `cellar_prefix_create_arch`, `_delete`, `_set_config`, `_set_setting` |
| `Backup`, `Restore`, `BeginClone` | the archive walk, the overlay over a reset `prefix.conf`, their composition |
| `Commit`, `Applied`, `Uninstall` | the journal first, then the files; the files first, then the journal |
| `RuntimeInit`, `RuntimeInstall`, `RuntimeUninstall` | the bound bottle and its marker file |

A setting is any line of `prefix.conf`, those of the configuration among them
(`Lines`): `cellar prefix set NAME KEY VALUE` passes any key on. `archive.end`
says whether the archive is whole or was cut; `before`, `source`, `made` and
`loose` are history: what a restore started from and should bring back, the
architecture a bottle was made with, and the packages whose journal need not
list their files (committed twice, or in a bottle that a kill left halfway).
`made` becomes `"lost"` in the three ways the code can lose an architecture: a
kill inside a call, a setting that replaces the line `arch`, and a restore or
clone of another architecture over the bottle (`MadeFrom`).

### One process (`CellarProcess`)

The library's other components keep tables and rings of one process and share
no variable. `CellarProcess` puts them together: a behaviour runs one of them,
`part`, chosen at the start. As a step of one leaves the others' variables
alone, a property of one component holds of every interleaving of them when it
holds of that component; so the run explores the sum of their state spaces and
not the product. Where two parts of the code do share state they are one module
here: the doctor with the runtime manager's bound bottle, the loader with the
module registry, wave devices with the WAV file.

| Module | Code | State | Left out, and history |
|---|---|---|---|
| `ComObjects` | `com/com.c` | apartments per thread, class table, counts, one marshal buffer | `held` who owns which reference, `unclaimed` those nobody was ever given |
| `WaveOut` | `win32/mod_winmm.c`, `audio/audio.c` | device slots, what each sink counted and stdio spilled, the file | `counted` what a sink holds to be written, `stray` a handle was used after its close, `shared` two devices wrote the file, `cut` a write into it failed half-way |
| `SessionTables` | `service/`, `device/`, `notify/`, `a11y/`, `desktop/` | service states with the stack of mains inside `start`, device slots and ids, the notification history, the tree, shortcuts | `last` the request that returned last, `gone` and `closed` ids |
| `SampleRings` | `perf/perf.c`, `timer/timer.c` | the two rings | `traced`, `frames`; clocks and waits are the system's |
| `BackendRegistry` | `plugin/plugin.c` | a table per kind, whether it is seeded | `wanted` the requests about each name, `unheard` the names whose newest request came before the seeding and was lost |
| `AccessCheck` | `security/security.c` | the DACL, who the token acts for | a SID is its identity |
| `RegistryTable` | `win32/mod_advapi32.c` | the key table | `opened`, `writes` |
| `CompatDb` | `db/db.c` | entries in memory, the lines of the file | `saved`, `whole`; what a cut name spells is a constant |
| `AppProfile` | `compat/profile.c` | the lines of `profile.conf` | `confirmed` |
| `CompatAnalysis` | `compat/compat.c`, `inspect/inspect.c`, `detect_source` of `workspace.c` | the sums both passes keep while they go through the imports | modules by the prefix their name matches |
| `ImageLoader` | `loader/loader.c`, headers of `loader/pe.c`, `win32/api.c`, `win32/init.c` | stage, heap blocks, bindings, position in the table, module registry | `wrapped` the relocation sum passed 2^32, `odd`; bytes of the file are chosen when read |
| `PeImage` | `loader/pe.c`, `map_sections` | any section table, mapped bytes | offsets stand for the bytes there; one past the file is a byte of memory behind its buffer |
| `LaunchDoctor` | doctor and diagnose of `workspace.c`, `run` and `doctor` of `cli.c`, `runtime/runtime.c` | workspaces, markers, the bound bottle, a report, the notes of a log | six checks that look at one thing each are one set, `fine` |
| `LocaleText` | `locale/locale.c` | the locale | what was converted or formatted last; dates have one layout |
| `HostServices` | `print/print.c`, `shell/shell.c` | printers, job counter, job files over processes, the bound bottle | `printed` the jobs of this process; directories of a bottle |

`ImageLoader` takes a load stage by stage (`ParseHeaders`, `CopyRaw`,
`MapSections`, the imports descriptor by descriptor, `ParseExports`, the
relocation blocks, `FinishLoad`). Each stage goes on or ends in `Fail`, which is
`cellar_image_unload` of what there is so far. Addresses are modulo `Width`, for
2^32. `MCLoader` runs it alone, on images with any relocation table, under the
fairness of its thread. `PeImage` is about what `ImageLoader` leaves to chance: which byte of
the file is at which address.

## 3. Runs: what is checked and what it shows

Two runs assume fairness: `process` has `WF_vars(LoadGoesOn)` and `load_loop`
`WF_loaderVars(LoadStep)`, as a load runs on its caller's thread until it
returns; `LoadEnds` and `LoadReturns` rest on it and on no other scheduling. The
others check safety only. The deadlock check is on wherever the system cannot
legitimately stop; `MCRing`, the workspace runs, `bottle`, `process` and
`load_loop` stop when their bound on bytes, calls, entries or loads is used up.

| Run | Instance | Shows |
|---|---|---|
| `sync` | 3 threads, one initial unit, 2 posts, weak CAS failures allowed; symmetric threads; 1.9 M states | types, exclusion of mutex and spinlock, conservation of units, and for each lost wakeup the one step that causes it |
| `mutex_stranded` | 2 threads, no spurious failures | violates `SleeperHasWaker`, see 5 |
| `event_autoreset` | 2 threads | violates `AutoReset`, see 5 |
| `ring` | capacity 4, chunks of 1 to 3 bytes, 9 bytes in all, asks of 1 to 3; 230 k states | cursors, publication, copies, refinement of `ByteQueue` |
| `shader` | 2 keys, blobs of 1 and 2 pieces, 3 environments (same machine with other flags, another driver), 9 cells, inserts and closes that fail; 2.89 M states | isolation between devices, nothing stored is lost behind crashes, the header's count |
| `shader_hit` | 6 cells | violates `HitDelivers`, see 5 |
| `workspace_overlap` | 2 processes, 3 calls that overlap or 4 that do not (`Budget` 8), 2 labels (one is the label `current`), 2 runners, crash after any step; 4.82 M states | each file holds its own kind of text; the active profile always has a file; a call that nothing overlaps has exactly its effect; a crash costs at most one file |
| `profile_import` | 1 process, no crashes | violates `ImportKeepsLocal`, see 5 |
| `rollback_leftover` | 1 process, no crashes | violates `RollbackRestores`, see 5 |
| `bottle` | 2 bottles (symmetric), 2 packages with 3 files, one archive, 4 calls, settings of any line, killed at any file; 2.82 M states | files stay traceable to a journal, whole archives and clones bring everything back, the architecture is kept but in three cases |
| `process` | each component on the instance of `MCProcess.cfg`: tables of 1 to 3 slots, 2 threads, 3 clients, an image of 6 bytes with any section table, addresses modulo 5; 520 k states | fifteen properties of the components of one process, listed below |
| `load_loop` | one load, no modules, any relocation table, addresses modulo 5; 177 states | violates `LoadReturns`, see 5 |

What `process` checks, by hazard: `RefsAccounted` (an object is alive while a
thread or a marshal buffer refers to it), `HandlesPrivate` and `WavWhole` (slots
reused behind stale handles; two devices on one file), `ServiceSettled` (a main
that stops or starts its own service), `IdentifiersStable` (device ids, registry
handles, job numbers), `HistoriesKeepLatest` (three rings across their wrap),
`ScansDecide` (back end, access, printer in any order of filling),
`TornFilesRecognised` (database and profile after a kill in any line),
`LoadAllOrNothing`, `BoundStaysValid`, `LoadEnds` and `MappedMatchesRaw` (the
loader), `VerdictsHonest` (analyzer, doctor, diagnose), `ConversionsExact` (code
pages, numbers, variables) and `ProcessTypeOK`.

Why the bounds are enough. *Threads*: the mutex needs a holder, a sleeper and a
third thread that barges in with a trylock; the semaphore a poster and two
waiters that load the same count; the event a setter and two sleepers, of which
one is passed over. For every larger number the invariants are proved.
*Ring*: with capacity 4 and calls of 1 to 3 bytes, copies start at every offset
and wrap at every length, and 9 bytes go round the buffer twice; every capacity
is proved. *Cells*: nine hold three records with blobs of one piece, so a torn
record, one behind it and one before it fit; two blob lengths are enough for a
scan to lose its place. *Calls*: three overlapping calls are a snapshot or an import, a call in its
middle and a third one that starts from the result; four in a row are install,
snapshot, apply and rollback. One budget covers both, as the long sequences
need no overlap and the overlaps no long sequence. For bottles, four are commit,
backup, another commit or an uninstall, and restore. *Tables*: one slot more is asked for than
there are, and a third client or name comes after a slot was freed. *Rings*:
they are filled at least twice over. *Images*: two sections over six bytes, in
any table: they overlap, touch, lie in the headers, are cut by the file, begin
behind it, and reach past the image. *Code pages*: the five bytes take one, two
and three bytes of UTF-8, map to themselves and to another, and the buffers cut
them at 0, 2 and 6. *Variables*: texts of five characters
have two names that share a `%`.

Every invariant is strong enough to be broken by a small change of the code:
the definitions marked *Variant* in the modules are those changes (a trylock
that decrements, a retry that forgets the other sleepers, a scan that does not
skip a blob, an apply that saves the wrong record ...), and each property fails
when its variant takes the place of the definition after it.

## 4. Proofs

TLAPS checks these for every value of the constants under their assumptions.

`CellarSyncProofs`: for any set of threads (finite or not), any initial count,
with and without weak compare-exchange failures.

- `TypeCorrect`. `TypeOK` alone is not inductive: the semaphore count could
  become -1 if a thread at its compare-exchange knew the value 0. `KnowsUnits`
  excludes it: the count a thread takes from is positive.
- `MutexExcludes` through `MutexInv`: with a holder the word is not 0, so no
  exchange or compare-exchange lets another thread in.
- `LockedHasAHolder`, `MutexWakeupOwed`: inductive as they stand (the first
  with `MutualExclusion`), one case per action. A step of another primitive
  moves no thread to or from a label of this one (`SemStepElsewhere` and its
  sisters); `MutexUntouched` and `EventUntouched` say so of all of them at once.
- `SpinExcludes`, `SemConserves`, `EventWakeIsOwed`.
- `SemUnitsAreClaimed` through `ClaimsInv`: while a thread sleeps, the number of
  units is at most the number of threads awake in wait or post. `SemUnitsClaimed`
  says only that there is one such thread, which two waits racing for two units
  would break; counting them is what makes it inductive.

`SpscRingProofs`: for every capacity (the assumption is only that it is
positive), every set of bytes and all lengths.

- `RingInvariant`: `RingInv` adds to the types that the accepted bytes fit
  between `head` and `head + Capacity` *also when `head` has moved since it was
  read*, that the consumer's length stays available, and that `base` is `tail`.
  From it `RingTypeCorrect`, `NeverOverwrites`, `PublishesWritten`.
- `DataInvariant`: the bytes copied so far are in their slots on both sides.
  It rests on two facts of arithmetic: cursors less than a capacity apart have
  different slots (`SlotsDiffer`), and the two `memcpy`s write byte `k` of a copy
  to the slot of `x + k` (`PositionIsSlot`). From it `CopiesStored`.
- `RingIsByteQueue`: every step of the ring is a step of `ByteQueue` or changes
  nothing there: the decision maps to the call, copies to stuttering, the
  cursor to the answer.

`ShaderCacheProofs`: for any sets of keys, blobs and environments, and any
length of the file.

- `CacheTypeCorrect` and `IsolatesEnvs`. `EnvIsolation` speaks of an open cache
  only. Its strengthening `IsolationInv` follows the file while it is closed and
  while a handle is being made: whatever data is in the file, or in the buffer,
  is for the identity in the header; a file without a header is empty.
- `CountIsHonest` and `WhatIsStoredIsFound` through `StoreInv`. The file and the
  buffer together are the cells of the records put since the header was written
  (`Trail`), or begin with them once a crash or a failed insert has left a part
  of a record, and the count in the header does not exceed that of the records
  in the file. A crash cuts the file between
  two cells; the records whole on file are the first ones of the log
  (`OnDiskFirst`). The scan of `get` is a recursion to larger offsets: `TableExists`
  gives the table it stands for, `ScanPasses` takes it over a record of another
  key and `ScanFinds` stops it at the first one of its key, before it can reach a
  torn end.

`WorkspaceProofs`: for any processes, labels, snapshots and runners, any number
of calls, any overlap, a kill after any step.

- `FilesKeepTheirTexts` through `TypeInv` with `ReadsPresent` and `RemoveAlone`.
  The lists of steps are typed too: what a step still to be done will write
  belongs in the file it names (`FileSteps`), and a copy joins files of one kind.
  A read that is still to come would store "no such file" in its target if its
  source could vanish: it cannot, as only a remove takes files away, and a remove
  has no other call beside it.
- `ActivePointIsSaved` through `ListInv`. `CurrentListed` breaks at a write into
  `current.profile`, which may have been settled many steps earlier, so the
  invariant follows each such write while it waits: its label has its file
  already, or an `open` of that file stands before it in the same list
  (`Awaited`). Snapshots hold copies of `current.profile`, so it is said of
  theirs as well. New steps join a list as a whole: `Good` says what is true of
  the steps that each call and each handler adds.
- `SoloCallsAreAtomic` and `KillCostsOneFile` through `SoloInv`. The effect of a
  call that nothing overlaps is settled when it begins, but its list of steps is
  not: reads, repairs and activations add the steps that follow from what they
  found. An apply under the label that is current already has two outcomes, as
  it may leave the profile and the active point alone (`LeftAlone`): `workspace.h`
  has it set them, `workspace.c` compares only the labels. `Leads` says where the
  list takes the files: there is a sequence of
  trees, from the files as they are to the effect, each what its step makes of
  the one before, and in each the only truncated file among those the call
  writes whole is the one that the next step fills. A plain step moves one tree
  on (`LeadsStep`); a handler that adds steps has them lead to the same effect
  (`SoloFile`, with one lemma for each handler). The end of the sequence is
  atomicity, its beginning the cost of a kill.

`BottlesProofs`: for any bottles, packages, payloads and settings.

- `FilesKeepTheirKind` through `TypeInv`, which types the phases still to do.
- `ArchitectureFixed`, `BackupsComeBack`. What a call leaves is settled when it
  begins, but the files get there one by one: `Pends(i, f)` says the `i`-th phase
  left writes `f`, `Settles(f, v)` that `f` holds `v` once they are all done.
  The architecture is kept but in the three cases that `made` marks as lost; that
  no other call changes it, and that a clone or restore takes it along, is the
  content of the theorem.
  `ArchInv` and `RestoreInv` say of `Settles` what the properties say of the
  files; `SettlesStays` carries it over a step and `SettlesLast` reads it off
  when none is left.
- `FilesStayTraced` through `TraceInv`. Commits and uninstalls are traced at every
  step because of their order (`OrderInv`): a file is written when the journal
  lists it, and the journal is written or removed when none of the package's
  files is left. A delete, a restore or a clone passes through bottles that are
  not traced, so of these it is said of what they leave (`SettledTraced`);
  `DirInv` says that no file is there without the directory.

`LaunchProofs`, what the launch of an application goes through, each part with
its invariant, the initial state and the step:

- The loader, for all modules, sets of flags, tables and `Width`. `HeapInv`: in
  the middle of a load the caller has no image, and the heap holds the blocks of
  `img` and at most those that only that stage uses (`Transient`). `BindInv`: a
  registration appends, so the least index at which a name is found stays.
- The analysis, for all imports and exports. `AnalysisInv` gives each sum that the
  two passes carry as a count over the imports seen; the percentages are then
  full just when no sum lacks an import, and the issues those of the first
  missing imports (`PercentFull`, `OverallTells`, `ErrorTells`).
- The doctor and diagnose. `DoctorInv` says whose report is held, and that it is
  what its checks were; `DoctorSays` finds each check by its name among the nine.
- The database, for all names, texts and limits. `Reaches` says where a parse is
  after some lines; the lines of one entry take it from any state to one that
  holds that entry (`LineRead`, `PartRead`), so that the text of a table is read
  as the table built by putting its entries one by one (`Shadows`, `PagesRead`).
  A save that is cut ends in a line of some entry (`EntryOfLine`, `FrontOf`), of
  which a front is read (`CutRead`). `Mirror` says what such a table has of the
  plain names saved: each of the first `k`, in their order, and no other; the
  entry that was cut replaces one or comes last (`MirrorCut`).
- The profile: `ConfInv`, a text of a save or a front of one.
- The conversions, for every text, locale and buffer. `TextInv`: the UTF-8 is the
  encoding of what was given, character by character, under the locale of the
  time. `ReadsAt` and `CharRead` follow the decoder from where one character's
  bytes start to where the next one's do, so what comes out is what went in
  (`TextComesBack`), for each page whose table gives different bytes different
  code points (`PageKeeps`, from `C1Distinct`).
- Numbers: `GroupsStripped` takes the separators out of the digits again, and
  `GroupSeparators` counts from the point to each of them.
- Variables: nothing that an expansion puts out leads to another (`NameLater`,
  `ExpandedIsQuiet`), so expanding again changes nothing, and each piece that was
  put tells what it stood for (`ExpandedReadsBack`).

`ProcessProofs`: theorems of the specification of `CellarProcess`. `StepsApart`
takes a step of the process apart into a step of each component or a stutter, so
that an invariant is proved from the actions of its own component.

- `ReferencesAccounted` through `RefInv`: the count of a live object is the
  number of references held and marshalled plus the one nobody was given. It
  counts sets of pairs of threads and references, so each step is a lemma about
  the cardinality of a set that gains or loses one element.
- `DevicesPrivate` through `PrivacyInv`: a client who has not closed its handle
  has one, an open takes the least free slot, and every use of a closed handle
  sets `stray`.
- `IdentifiersKeepMeaning`: `DevInv` and `PrintInv` keep the ids given out below
  the next one; `KeyInv` keeps a path once in the table, each handle the slot of
  the path it was asked for, and a slot's value the last one written.
- `ServicesSettle` through `SvcInv`, which follows the stack of mains inside
  their `start`.
- `WavIsWhole` through `WavInv`: while one device writes, the data in the file is
  what that device has spilled, and what it has counted is all of what it wrote
  unless a write failed half-way, then less.
- `LoadsLeakNothing`, `ImportsStayBound` from the two invariants of the loader.
- `ImageReadsRaw` through `MapInv`: after `i` sections each address holds the
  byte of the last of them whose data covers it, else of the headers. That is
  said of any table. An address that only one section has is mapped from the one
  that `rva_raw` finds; where two have it they may differ, and `MappedMatchesRaw`
  claims nothing there. A byte from behind the file is traced to a section that
  begins inside the file and is longer than what is left of it.
- `ScansAreRight`: what the loops over tables return, for tables of any length.
  `AclDecides` (a mask is granted if some entry allows all of it and none denies
  all of it), `PickDecides` (the first available back end of the best priority)
  and the printer of a job. Of an entry that denies a part of the mask, and of a
  request that came before the seeding, the properties claim nothing: there the
  headers and the code disagree, see 5.
- `VerdictsAreHonest`, `TornFilesAreRecognised` and `ConversionsAreExact` from the
  invariants of `LaunchProofs`.
- `ProcessWellTyped`, from the invariants of all components. Types alone are not
  inductive: the position of the sample ring is in range as it is the number of
  samples modulo the capacity, the spilled chunks of a device do not exceed its
  total as `WavInv` says whose they are, the counts of children in the tree
  (`NodeInv`) agree with the parents as a node enters both at once, and a table's
  entries are bounded as each call looks for room first. `SessionInv` to `DeskInv`
  group them.
- `HistoriesAreLatest`. `Holds` says of a ring that `n` values were pushed into
  that entry `k` is in the slot of `k - 1` if it is among the last; a push keeps
  it as slots less than a capacity apart differ (`PushHolds`), a read from the
  oldest slot on gives the entries in order (`ReadHolds`). The insertion sort
  keeps `Ordered`: up to any `t`, the sorted entries are as many as the frames
  taken in so far (`InsertOrders`), so an entry's index tells how many frames are
  below it (`SortedTells`). What a drain shorter than the history leaves out, and
  how the share of 99 in 100 is rounded, is left open as the comments and the code
  differ there. `NotifyInv` keeps the history increasing, so that the
  entry pushed out of a full one has `NotifyCap` younger ones (`ShowShifts`).

`LoopLemmas` has what loops need. The library's induction theorems cannot be
used with the installed provers, as their parameter is an operator; `Climb` is
induction over `1..n` for a set: if a set of naturals has 0 and with each number
the next one, it has them all (a least counterexample, by `MinIsMember`, would
contradict it). `RecursionExists` shows that a function that recurs on `i - 1`
exists and so satisfies its equation: with it, `AclWalk` and `PickWalk` unfold
the recursive functions that are the code's loops. `TableExists` is the same for
a function that recurs on any smaller argument, as the scan of a file does. The
folds of the community modules recur over the subsets of a set, with an element
that is chosen from each: `SubsetFoldExists` and `SubsetFoldUnique` are the same
for those, `SumIsFold` makes a sum of them, `LeftFoldFollows` a loop through a
sequence and `FlattenFollows` the text that is made of pieces. `WalkExists` is a
loop that goes one to some characters on, towards the end of a text, and
`Downward` induction along it. The lemmas about remainders serve the three rings.

Assumptions. The steps of `sync.c` and `shmem.c` are sequentially consistent; a
ring has at most 2^32 bytes (its mask is 32 bits wide); the caller passes data
that is not empty (an empty call returns at once). Of the constants: the values
that stand for "no file" and "truncated" are no text of any kind
(`WorkspaceAssumption`, `BottlesAssumption`); finitely many threads use COM and
each may hold at least one reference (`ComAssumption`); a back end is seeded once
per kind, and the seeds fit into their table, as in `seed_defaults`
(`BackendAssumption`); sizes and addresses of sections are naturals
(`ImageAssumption`). Five were found by proofs that failed without them: an export
has a name, as an import by ordinal is looked up without one
(`AnalysisAssumption`); the tables of printers and jobs are not empty
(`HostAssumption`); the tree has room below its root (`SessionAssumption`); an
image has no more imports than there are addresses (`LoaderAssumption`); and a
path, with what is below it, is a character of its own in the texts of
`HostServices`, or one could not tell what was expanded from what was written
(`HostAssumption`).

Proofs also corrected two properties. A text does not come back when the ACP of
the locale is itself OEMCP and that is 1252, as when the page is OEMCP; and a
number reads back only if the separator is none of its digits, sign or point
(nothing in `cellar_locale_set` forbids such a locale). `ConversionsExact` says
so. Of numbers the theorem covers up to 8 digits before the point, the bound
`MaxDigits`; texts, paths and buffers have none.

Only model-checked: `LoadEnds`, which is liveness. The six runs that expect a
violation show what no theorem could.

## 5. Where code and documents disagree

Each is the counterexample of one run.

1. **A mutex nobody holds** (`mutex_stranded`, `sync.c:103`). The slow path
   exchanges the word to 2 and drops the old value. If the holder unlocked
   between the failed fast path and the exchange, a free mutex is marked
   contended and the thread goes to sleep on it. Nobody will wake it, and every
   later lock joins it. Two threads that only lock and unlock suffice.
   `LockedHasHolder` shows that no other step loses a mutex.
2. **A failed trylock forgets sleepers** (`sync.c:115`): not a run of its own;
   `WakeupOwed` holds up to this step and no further.
3. **A semaphore wait sleeps on a positive count** (`sync.c:170`): the same, with
   `SemUnitsClaimed`.
4. **The event is not auto-reset** (`event_autoreset`, `sync.c:144`).
5. **A hit without a blob** (`shader_hit`, `shadercache.c:142`). When the blob
   cannot be read in full the lookup still returns its size.
6. **An import replaces a local profile** (`profile_import`, `workspace.c:1153`).
7. **A rollback leaves a file the snapshot did not have** (`rollback_leftover`,
   `workspace.c:1214`).
8. **A relocation table without an end** (`load_loop`, `loader.c:346`). The check
   of a block's length is a sum of 32 bits. A length just below 2^32 wraps back to
   a block that was read before, and the load walks the same blocks for ever;
   `fuzz_loader.c:6` has it always report a status. `LoadEnds` of the run
   `process` holds up to such a sum (`wrapped`): no other load goes on for ever.

Met while modelling, without a run of their own; the models have what the code
does:

- `perf.h:71` speaks of the most recent samples; a drain into a short buffer
  returns the oldest (`Drain`). `timer.c:125` speaks of a ceiling; the index is
  a floor (`Low1Index`). `HistoriesKeepLatest` holds of either reading.
- `map_sections` looks at where a section's data begins in the file and not at
  where it ends (`loader.c:126-131`): data longer than the rest of the file is
  copied from memory behind the buffer (`MapSection`; `MappedMatchesRaw` says that
  such bytes have no other source). Nothing in `pe.c:84-93` keeps sections from
  overlapping each other or the headers; the later one is mapped, while
  `cellar_image_rva_raw` finds the first (`SectionFor`).
- `security.h:76` lets deny entries win. An entry counts only if it has all the
  rights asked for (`security.c:121`): asked for read and write, a deny of write
  alone is passed over (`AclCheck`; `DenyWins` claims nothing of it).
- `plugin.h:47`: an availability that is set before anything has seeded the
  table finds no entry and is forgotten (`plugin.c:73`, `SetAvailable`).
- `workspace.h:216`: applying a point sets it as current. Under the label that is
  current already only `app.conf` changes (`workspace.c:964`, `Apply`;
  `CallsAreAtomic` allows both outcomes).
- `audio.c`'s reset does not rewind the position, as its comment has it
  (`WaveReset`).
- `compat.h` speaks of the longest match among modules; the last import that
  matches anything wins (`DetectGraphics`, `DetectAudio`).
- `prefix.h:39` calls the architecture fixed at creation.
  `cellar prefix set NAME arch win32` replaces it (`prefix.c:518`, `cli.c:469-483`,
  `SetSetting`), a restore or clone over a bottle brings the other architecture
  with it (`MadeFrom`), and `set_config` of a bottle without `prefix.conf` writes
  what was on the stack (`Config`). `ArchKept` holds up to these.
- `locale.h` announces -1 for an unknown code page and for overflow: unknown
  pages pass bytes through, and UTF-8 is cut. ACP is taken for UTF-8 on the way
  back only, OEMCP for 1252 on the way out only: `TextRoundTrips` excepts both.
- `print.c`: a printer added as the default never becomes it, as "Cellar PDF" is
  flagged first (`JobsGoWhereAsked`); a second process writes over the job files
  of the first (`NextProcess`).
- `workspace.c` writes the support bundle twice, as it is and redacted: a kill
  between the two, or a second write that fails, leaves the first.

## 6. What is not modelled

- Errors of stdio, but for those of the shader cache and the WAV sink named in 2.
  Some change nothing: a failed open at a reset of the cache
  (`shadercache.c:88-90`), a failed append handle of a cache whose header matched
  (`shadercache.c:111-113`), and `MMSYSERR_NODRIVER`, when a sink has no memory or
  no file and the slot stays free (`mod_winmm.c:177`). Others leave files the
  models do not have: a failed flush at the close of the cache, its header written
  in part, a full disk under the savers of text files, which look at no result of
  `fputs` and `fclose`.
- Weak memory. `head` and `tail` are `volatile`, not atomic: with stores out of
  order the ring can publish bytes that are not there. The model is right for
  x86 and a compiler that keeps program order.
- Timeouts of futex waits (no caller uses them), priorities, robust locks.
- Text: escaping, limits of line and field lengths, the YAML of profiles.
- The workspace's support bundle, safety and device reports, sizes, listings and
  performance options, and `shader_clear`: they read and print, or remove files
  without looking at them. More than sixteen dependencies of a workspace.
- `remove` overlapping with other calls; two open handles on one shader cache.
- The bytes of PE headers, descriptors and names, resources and TLS: the loader's
  model chooses what a stage finds. The depth to which resources are walked.
- The Win32 modules without state, whose exports log and return a constant, or
  forward to a component above. Performance counters and options.
- Names of files: `valid_name`, the `..` check of archives, lengths.
- The layout of dates and times; numbers longer than the buffers of the
  formatter; `display.c`, a record its callers fill in; the directories of
  `shell_ensure_dirs`.
- ALSA, X11, drawing, clocks; trace masks, debug and crash reports; the porting
  layer; the argument parsing of `cli.c` but for `run` and `doctor`, and the test
  lab, which call the library.

## 7. Plan

What is left, in order:

1. Liveness: under weak fairness of the threads inside calls and strong fairness
   of the spinlock's exchange, a mutex whose every holder unlocks lets every
   caller in unless it was stranded; a ring's reader gets what was written.
2. `Bottles` under two overlapping processes.
