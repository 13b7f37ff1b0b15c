---------------------------- MODULE ShaderCache ----------------------------
(***************************************************************************)
(* The persistent shader cache of shadercache.c: a file with an identity   *)
(* header, an entry count and appended records, and the one handle that is *)
(* open on it at a time ("the API is used by a single thread").            *)
(*                                                                         *)
(* The body of the file is a sequence of cells: a key, a size, or one      *)
(* piece of a blob.  Records are appended through stdio, which may write   *)
(* out any part of its buffer at any time, and a crash loses the rest.     *)
(***************************************************************************)
EXTENDS Integers, Sequences, SequencesExt

CONSTANTS
  Keys,       \* cache keys
  Pieces,     \* what blobs are made of
  Blobs,      \* shader blobs: a set of non-empty sequences of pieces
  Envs,       \* what callers pass as env: a set of records [gpu, driver, api, flags]
  NoEnv,      \* no header, or no handle
  MaxCells    \* bound: the length of the body

ASSUME CacheAssumption ==
  /\ NoEnv \notin Envs
  /\ \A b \in Blobs : b \in Seq(Pieces) /\ b # << >>
  /\ MaxCells \in Nat

VARIABLES
  disk,      \* the file: [env |-> header or NoEnv, count |-> entry_count, body |-> cells]
  phase,     \* where the handle is: "closed", "creating", "open" or "closing"
  env,       \* c->env, NoEnv without a handle
  entries,   \* c->entries
  buffer,    \* the cells stdio has not written yet
  log,       \* history: the records inserted since the last reset, up to a torn one
  harm       \* history: "none", "uncounted" when a close has not come to the count since the
             \* last reset, or "torn" when a part of a record has been written

vars == <<disk, phase, env, entries, buffer, log, harm>>

EmptyFile == [env |-> NoEnv, count |-> 0, body |-> << >>]

Identity(e) == <<e.gpu, e.driver, e.api>>

Record(r) ==
  << <<"key", r.key>>, <<"size", Len(r.blob)>> >>
    \o [i \in 1..Len(r.blob) |-> <<"data", r.blob[i], r.id>>]

Cells(records) == FlattenSeq([i \in 1..Len(records) |-> Record(records[i])])

(* Variant: the driver is not compared.                                    *)
MatchesGpuAndApi(e, f) == e.gpu = f.gpu /\ e.api = f.api

(* The invalidation rule: flags are stored but not compared.               *)
Matches(e, f) == e.gpu = f.gpu /\ e.driver = f.driver /\ e.api = f.api

-----------------------------------------------------------------------------
(* The size field of the record at p.  Behind a torn record a scan reads   *)
(* cells in a role they do not have: a "key" nobody asks for, or a "size"  *)
(* that is taken to reach to the end of the file.                          *)
SizeAt(body, p) == IF body[p + 1][1] = "size" THEN body[p + 1][2] ELSE Len(body)

(* Variant: the scan goes on right behind the size it has read.            *)
RecordAtUnskipped(body, key) ==
  LET last == Len(body)
      from[i \in 0..last] ==
        LET p == last - i + 1
        IN  IF p + 1 > last THEN 0
            ELSE IF body[p] = <<"key", key>> THEN p
            ELSE IF p + 2 > last THEN 0 ELSE from[i - 2]
  IN  from[last]

(* The scan of lookup: where the first record with this key begins, or 0.  *)
(* from[i] looks at the last i cells.                                      *)
RecordAt(body, key) ==
  LET last == Len(body)
      from[i \in 0..last] ==
        LET p == last - i + 1
        IN  IF p + 1 > last THEN 0
            ELSE IF body[p] = <<"key", key>> THEN p
            ELSE IF p + 2 + SizeAt(body, p) > last THEN 0
            ELSE from[i - 2 - SizeAt(body, p)]
  IN  from[last]

(* lookup's answer: the stored size, also when the blob is longer than cap *)
(* or cut short by the end of the file; and the cells that got copied.     *)
Lookup(key, cap) ==
  LET p == RecordAt(disk.body, key)
      size == IF p = 0 THEN 0 ELSE SizeAt(disk.body, p)
      end == IF p + 1 + size <= Len(disk.body) THEN p + 1 + size ELSE Len(disk.body)
  IN  [size |-> size, copied |-> IF size > cap THEN << >> ELSE SubSeq(disk.body, p + 2, end)]

-----------------------------------------------------------------------------
Init ==
  /\ disk = EmptyFile
  /\ phase = "closed" /\ env = NoEnv /\ entries = 0 /\ buffer = << >>
  /\ log = << >> /\ harm = "none"

(* Variant: the count of the header is not read.                           *)
OpenReuseUncounted(e) ==
  /\ phase = "closed" /\ disk.env # NoEnv /\ Matches(disk.env, e)
  /\ phase' = "open" /\ env' = e /\ entries' = 0
  /\ UNCHANGED <<disk, buffer, log, harm>>

(* open, the header matches: only the count is read.                       *)
OpenReuse(e) ==
  /\ phase = "closed" /\ disk.env # NoEnv /\ Matches(disk.env, e)
  /\ phase' = "open" /\ env' = e /\ entries' = disk.count
  /\ UNCHANGED <<disk, buffer, log, harm>>

(* open, no header or another identity: the file is truncated ...          *)
OpenReset(e) ==
  /\ phase = "closed" /\ ~(disk.env # NoEnv /\ Matches(disk.env, e))
  /\ disk' = EmptyFile
  /\ phase' = "creating" /\ env' = e
  /\ log' = << >> /\ harm' = "none"
  /\ UNCHANGED <<entries, buffer>>

(* ... and its new header is written out when that handle is closed; the   *)
(* handle to append with may fail to open.                                 *)
OpenHeader ==
  /\ phase = "creating"
  /\ disk' = [disk EXCEPT !.env = env]
  /\ \/ phase' = "open" /\ UNCHANGED env
     \/ phase' = "closed" /\ env' = NoEnv
  /\ entries' = 0
  /\ UNCHANGED <<buffer, log, harm>>

Insert(k, b) ==
  LET r == [key |-> k, blob |-> b, id |-> Identity(env)]
  IN  /\ phase = "open"
      /\ Len(disk.body) + Len(buffer) + Len(Record(r)) <= MaxCells
      /\ buffer' = buffer \o Record(r)
      /\ entries' = entries + 1
      /\ log' = IF harm = "torn" THEN log ELSE Append(log, r)
      /\ UNCHANGED <<disk, phase, env, harm>>

(* insert fails: stdio has taken the first n cells of the record only.     *)
InsertShort(k, b, n) ==
  LET r == [key |-> k, blob |-> b, id |-> Identity(env)]
  IN  /\ phase = "open" /\ n < Len(Record(r))
      /\ Len(disk.body) + Len(buffer) + n <= MaxCells
      /\ buffer' = buffer \o SubSeq(Record(r), 1, n)
      /\ harm' = "torn"
      /\ UNCHANGED <<disk, phase, env, entries, log>>

(* stdio writes out the first n cells of its buffer.                       *)
Spill(n) ==
  /\ phase = "open" /\ n <= Len(buffer)
  /\ disk' = [disk EXCEPT !.body = @ \o SubSeq(buffer, 1, n)]
  /\ buffer' = SubSeq(buffer, n + 1, Len(buffer))
  /\ UNCHANGED <<phase, env, entries, log, harm>>

(* Variant: the handle is closed without the flush having emptied it.      *)
CloseFlushKeeping ==
  /\ phase = "open"
  /\ disk' = [disk EXCEPT !.body = @ \o buffer]
  /\ phase' = "closing"
  /\ UNCHANGED <<env, entries, buffer, log, harm>>

(* close: flush and close the append handle ...                            *)
CloseFlush ==
  /\ phase = "open"
  /\ disk' = [disk EXCEPT !.body = @ \o buffer]
  /\ buffer' = << >>
  /\ phase' = "closing"
  /\ UNCHANGED <<env, entries, log, harm>>

(* ... then write the count into the header through a second one, if that  *)
(* opens.                                                                  *)
CloseCount ==
  /\ phase = "closing"
  /\ \/ disk' = [disk EXCEPT !.count = entries] /\ UNCHANGED harm
     \/ harm' = (IF harm = "torn" THEN harm ELSE "uncounted") /\ UNCHANGED disk
  /\ phase' = "closed" /\ env' = NoEnv /\ entries' = 0
  /\ UNCHANGED <<buffer, log>>

(* How many of the logged records have reached the file.                   *)
OnDisk == {i \in 1..Len(log) : Len(Cells(SubSeq(log, 1, i))) <= Len(disk.body)}

(* The process dies; what stdio held is lost.                              *)
Crash ==
  LET records == SubSeq(log, 1, Cardinality(OnDisk))
  IN  /\ phase # "closed"
      /\ phase' = "closed" /\ env' = NoEnv /\ entries' = 0 /\ buffer' = << >>
      /\ log' = records
      /\ harm' = IF harm = "torn" \/ Cells(records) # disk.body THEN "torn" ELSE "uncounted"
      /\ UNCHANGED disk

Next ==
  \/ \E e \in Envs : OpenReuse(e) \/ OpenReset(e)
  \/ OpenHeader
  \/ \E k \in Keys, b \in Blobs : Insert(k, b)
  \/ \E k \in Keys, b \in Blobs, n \in 1..MaxCells : InsertShort(k, b, n)
  \/ \E n \in 1..MaxCells : Spill(n)
  \/ CloseFlush
  \/ CloseCount
  \/ Crash

Spec == Init /\ [][Next]_vars

-----------------------------------------------------------------------------
(* Types: there is an identity exactly while a handle is open, cells wait  *)
(* in the buffer only then, and the file stays within its bound.           *)
TypeOK ==
  /\ disk.env \in Envs \cup {NoEnv} /\ disk.count \in Nat /\ Len(disk.body) <= MaxCells
  /\ phase \in {"closed", "creating", "open", "closing"}
  /\ env \in Envs \cup {NoEnv} /\ (env = NoEnv <=> phase = "closed")
  /\ entries \in Nat
  /\ Len(buffer) <= MaxCells /\ (phase # "open" => buffer = << >>)
  /\ harm \in {"none", "uncounted", "torn"}

(* shadercache.h: "a different GPU, driver, or API version invalidates the *)
(* whole cache".  No open cache holds a piece of a blob that was compiled  *)
(* for another identity, across reopens, resets cut short by a crash, and  *)
(* appends left behind by earlier handles.                                 *)
EnvIsolation ==
  phase = "open" =>
    \A i \in DOMAIN disk.body :
      disk.body[i][1] = "data" => disk.body[i][3] = Identity(env)

FirstOfKey(i) == \A j \in 1..(i - 1) : log[j].key # log[i].key

(* Whatever has reached the file is found again, whole: the first record   *)
(* of its key answers with its size and its blob, after any number of      *)
(* reopens and also when a later crash has torn the end of the file.  And  *)
(* a file no crash has torn answers nothing else.                          *)
StoredIsFound ==
  /\ \A i \in OnDisk :
       FirstOfKey(i) =>
         Lookup(log[i].key, MaxCells) =
           [size |-> Len(log[i].blob), copied |-> SubSeq(Record(log[i]), 3, Len(Record(log[i])))]
  /\ phase = "closed" /\ harm # "torn" =>
       \A k \in Keys : Lookup(k, MaxCells).size # 0 => \E i \in OnDisk : log[i].key = k

(* The count of the header never promises records that are not there, and  *)
(* after clean closes it is exact: a crash between the flush and the count *)
(* of a close leaves it short, and so do the later closes.                 *)
CountHonest ==
  /\ harm # "torn" => disk.count <= Len(log)
  /\ harm = "none" /\ phase = "closed" => disk.count = Len(log)

(* shadercache.h: lookup "on hit copies up to `cap` bytes into `blob` and  *)
(* returns the stored size, or returns 0 on miss".  A hit whose blob fits  *)
(* the caller's buffer has delivered all of it.                            *)
HitDelivers ==
  phase = "open" =>
    \A k \in Keys : LET r == Lookup(k, MaxCells) IN Len(r.copied) = r.size
=============================================================================
