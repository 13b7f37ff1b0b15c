------------------------------ MODULE CompatDb ------------------------------
(***************************************************************************)
(* The compatibility database of db.c: entries in memory, and the text     *)
(* file that a save rewrites line by line and an open parses.  A save may  *)
(* be killed in the middle of any line.                                    *)
(***************************************************************************)
EXTENDS Integers, Sequences, SequencesExt

CONSTANTS
  Apps,       \* application names, up to case
  ReadBack,   \* [Apps -> Apps]: what is left of a name before its first ']'
  Torn,       \* a name or a text cut short, when it is nobody's name
  CutNames,   \* [Apps -> what a name that is cut short may be]
  IssueTexts,
  Percents,   \* overall percentages of analyses
  MaxIssues,  \* the 8 issues of an entry
  MaxEntries  \* bound: entries of the database

ASSUME DbAssumption ==
  /\ ReadBack \in [Apps -> Apps] /\ CutNames \in [Apps -> SUBSET (Apps \cup {Torn})]
  /\ Torn \notin Apps \cup IssueTexts
  /\ {MaxIssues, MaxEntries} \subseteq Nat /\ Percents \subseteq 0..100

VARIABLES
  entries,  \* db->entries of the open database: a sequence
  file,     \* compat.db: a sequence of lines
  saved,    \* history: the entries of the last save
  whole     \* history: that save was not killed

dbVars == <<entries, file, saved, whole>>

DbInit == entries = << >> /\ file = << >> /\ saved = << >> /\ whole = TRUE

(* cellar_db_put: the entry of that name is replaced in its place.         *)
Put(db, e) ==
  LET at == {i \in DOMAIN db : db[i].app = e.app}
  IN  IF at # {} THEN [i \in DOMAIN db |-> IF i \in at THEN e ELSE db[i]] ELSE Append(db, e)

(* An issue that is not mere information is kept while there is room.      *)
KeepIssue(kept, i) ==
  IF i.level # "info" /\ Len(kept) < MaxIssues THEN Append(kept, i.text) ELSE kept

(* cellar_db_from_analysis: the rating from the percentage, and the first  *)
(* MaxIssues issues that count.                                            *)
FromAnalysis(app, percent, issues) ==
  [app |-> app,
   rating |-> CASE percent >= 90 -> 3 [] percent \in 60..89 -> 2 [] OTHER -> 1,
   issues |-> FoldLeft(KeepIssue, << >>, issues)]

(* The lines a save writes for an entry.                                   *)
Lines(e) ==
  <<[key |-> "app", v |-> e.app], [key |-> "rating", v |-> e.rating]>> \o
  [i \in DOMAIN e.issues |-> [key |-> "issue", v |-> e.issues[i]]]

(* Variant: the issues of the entry before are kept.                       *)
StartedKeeping(st, name) ==
  [db |-> IF st.have THEN Put(st.db, st.cur) ELSE st.db, have |-> TRUE,
   cur |-> [app |-> name, rating |-> 0, issues |-> st.cur.issues]]

(* A name line puts the entry before it and starts the next.               *)
Started(st, name) ==
  [db |-> IF st.have THEN Put(st.db, st.cur) ELSE st.db, have |-> TRUE,
   cur |-> [app |-> name, rating |-> 0, issues |-> << >>]]

ParseLine(st, l) ==
  CASE l.key = "app" -> Started(st, IF l.v = Torn THEN Torn ELSE ReadBack[l.v])
    [] l.key = "rating" -> [st EXCEPT !.cur.rating = l.v]
    [] l.key = "issue" /\ Len(st.cur.issues) < MaxIssues ->
         [st EXCEPT !.cur.issues = Append(@, l.v)]
    [] OTHER -> st

(* cellar_db_open of a file, the last entry being put at its end.          *)
Parsed(lines) ==
  LET start == [db |-> << >>, have |-> FALSE, cur |-> [app |-> Torn, rating |-> 0, issues |-> << >>]]
      end == FoldLeft(ParseLine, start, lines)
  IN  IF end.have THEN Put(end.db, end.cur) ELSE end.db

(* A line of which only a part was written: a key without its '=' is no    *)
(* line at all, nor is a name of no letters; atoi makes 0 of no digits.    *)
CutLines(l) ==
  {<< >>} \cup
  {<<[l EXCEPT !.v = v]>> : v \in CASE l.key = "rating" -> {0}
                                   [] l.key = "app" /\ l.v # Torn -> CutNames[l.v]
                                   [] OTHER -> {Torn}}

Record(app, percent, issues) ==
  /\ entries' = Put(entries, FromAnalysis(app, percent, issues))
  /\ Len(entries') <= MaxEntries
  /\ UNCHANGED <<file, saved, whole>>

Text == FlattenSeq([i \in DOMAIN entries |-> Lines(entries[i])])

SaveDb ==
  /\ file' = Text /\ saved' = entries /\ whole' = TRUE
  /\ UNCHANGED entries

(* The process dies in cellar_db_save and a new one opens the file.        *)
CrashInSave(n) ==
  /\ n \in DOMAIN Text
  /\ \E cut \in CutLines(Text[n]) :
       /\ file' = SubSeq(Text, 1, n - 1) \o cut
       /\ entries' = Parsed(SubSeq(Text, 1, n - 1) \o cut)
  /\ saved' = entries /\ whole' = FALSE

OpenDb ==
  /\ entries' = Parsed(file)
  /\ UNCHANGED <<file, saved, whole>>

(* No issues, or two that count behind one that does not.                  *)
IssueLists ==
  {<< >>} \cup {<<[level |-> "info", text |-> s], [level |-> "error", text |-> s],
                 [level |-> "warn", text |-> t]>> : s, t \in IssueTexts}

DbStep ==
  \/ \E a \in Apps, p \in Percents, i \in IssueLists : Record(a, p, i)
  \/ SaveDb \/ OpenDb
  \/ \E n \in 1..Len(Text) : CrashInSave(n)

-----------------------------------------------------------------------------
DbTypeOK ==
  /\ \A i \in DOMAIN entries : entries[i].app \in Apps \cup {Torn}
  /\ \A i \in DOMAIN entries : entries[i].rating \in 0..3 /\ Len(entries[i].issues) <= MaxIssues
  /\ \A i, j \in DOMAIN entries : entries[i].app = entries[j].app => i = j

(* A name that reads back as itself and that no other name reads back as.  *)
Plain(a) ==
  /\ a \in Apps
  /\ \A i \in DOMAIN saved :
       saved[i].app \in Apps => (ReadBack[saved[i].app] = a <=> saved[i].app = a)
PlainOf(db) == {i \in DOMAIN db : Plain(db[i].app)}

(* Of f, without what comes after some point.                              *)
Shorter(e, f) ==
  /\ e.rating \in {0, f.rating} /\ Len(e.issues) <= Len(f.issues)
  /\ \A i \in DOMAIN e.issues : e.issues[i] \in {Torn, f.issues[i]}

(* What an open finds is what the last save had, in its order, for every   *)
(* name that reads back as itself and is no other's.  When the save was    *)
(* killed an entry is either as it was saved or is not there, but for one, *)
(* which may lack its end or have a name nobody saved, or that of another  *)
(* entry when the torn last line happens to spell it.  No entry has its    *)
(* rating or its issues from another.                                      *)
ReopenFindsSaved ==
  LET found == Parsed(file)
      AsSaved(i) == \E j \in PlainOf(saved) : found[i] = saved[j]
  IN  /\ whole => /\ \A i \in PlainOf(found) : AsSaved(i)
                  /\ \A j \in PlainOf(saved) : \E i \in PlainOf(found) : found[i] = saved[j]
      /\ \A i, k \in PlainOf(found), j, l \in PlainOf(saved) :
           i < k /\ found[i] = saved[j] /\ found[k] = saved[l] => j < l
      /\ \A i \in PlainOf(found), j \in PlainOf(saved) :
           found[i].app = saved[j].app => Shorter(found[i], saved[j])
      /\ \A i, k \in PlainOf(found) : ~AsSaved(i) /\ ~AsSaved(k) => i = k
=============================================================================
