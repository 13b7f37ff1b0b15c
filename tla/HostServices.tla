---------------------------- MODULE HostServices ----------------------------
(***************************************************************************)
(* print.c: the printers of a process and the files of its jobs, which     *)
(* stay when the process is over and another begins; and shell.c: the      *)
(* variables of a bottle and their expansion in a text.  A text is a       *)
(* sequence of characters, a name between two '%' one of them; HOMEDRIVE   *)
(* and HOMEPATH, which are the same for every bottle, are left out, and    *)
(* the buffers are large enough.                                           *)
(***************************************************************************)
EXTENDS Integers, Sequences, FiniteSetsExt, SequencesExt

CONSTANTS
  Printers,      \* names that callers use
  SameName,      \* the names as strcasecmp tells them apart
  CellarPdf,     \* the printer that cellar_print_init puts in
  PrinterSlots,  \* CELLAR_MAX_PRINTERS
  JobDirs,       \* where callers have their output
  Documents,     \* what they print
  JobLimit,      \* bound: the next job id
  BottlePaths,   \* what cellar_shell_init is called with, by one character
  Named,         \* [name of a variable, in any case -> what is below the bottle]
  Letters,       \* characters of a text
  MaxLetters     \* bound: its length

ASSUME HostAssumption ==
  /\ CellarPdf \in Printers /\ SameName[CellarPdf] = CellarPdf
  /\ {PrinterSlots, JobLimit} \subseteq Nat \ {0} /\ MaxLetters \in Nat
  /\ "%" \notin DOMAIN Named /\ DOMAIN Named \subseteq Letters
  (* A path and what is below it are characters of their own, and not '%'.  *)
  /\ BottlePaths \cap (Range(Named) \cup Letters \cup {"%"}) = {}
  /\ Range(Named) \cap (Letters \cup {"%"}) = {}

VARIABLES
  printers,   \* g_prn, up to g_n; empty before the first call
  job,        \* g_job
  paper,      \* the files of jobs: set of [dir, id, of], one for a dir and id
  printed,    \* history: the completed jobs of this process, in order
  shellOf,    \* g_bottle, "" before cellar_shell_init
  expanded    \* history: the text expanded last, and what came out

printVars == <<printers, job, paper, printed>>
shellVars == <<shellOf, expanded>>
hostVars == <<printers, job, paper, printed, shellOf, expanded>>

NotExpanded == [text |-> << >>, out |-> << >>, with |-> ""]

HostInit ==
  /\ printers = << >> /\ job = 1 /\ paper = {} /\ printed = << >>
  /\ shellOf = "" /\ expanded = NotExpanded

-----------------------------------------------------------------------------
(* cellar_print_init, that every call begins with.                         *)
Ready == IF printers = << >> THEN <<[name |-> CellarPdf, default |-> TRUE]>> ELSE printers

AddPrinter(name, default) ==
  /\ Len(Ready) < PrinterSlots
  /\ printers' = Append(Ready, [name |-> name, default |-> default])
  /\ UNCHANGED <<job, paper, printed>>

(* cellar_print_default, and the search of cellar_print_job for a name.    *)
Flagged(table) == {i \in DOMAIN table : table[i].default}
Same(table, name) == {i \in DOMAIN table : SameName[table[i].name] = SameName[name]}
DefaultPrinter(table) == IF Flagged(table) = {} THEN 1 ELSE Min(Flagged(table))
(* A job may leave the name out, as the null pointer or the empty string.  *)
Unnamed == ""
PrinterFor(table, name) ==
  IF name = Unnamed THEN {DefaultPrinter(table)}
  ELSE {i \in Same(table, name) : i = Min(Same(table, name))}

(* A job that finds a printer takes an id, and writes a file of that       *)
(* number if its directory lets it: over any that is there.                *)
PrintJob(name, doc, dir, writable) ==
  /\ job < JobLimit
  /\ printers' = Ready
  /\ \E i \in PrinterFor(Ready, name) :
       LET file == [dir |-> dir, id |-> job, of |-> doc]
       IN  /\ job' = job + 1
           /\ IF writable
              THEN /\ paper' = {f \in paper : <<f.dir, f.id>> # <<dir, job>>} \cup {file}
                   /\ printed' = Append(printed, [file |-> file, asked |-> name, at |-> i])
              ELSE UNCHANGED <<paper, printed>>

NoSuchPrinter(name) ==
  /\ PrinterFor(Ready, name) = {}
  /\ printers' = Ready /\ UNCHANGED <<job, paper, printed>>

(* The process ends and another begins.                                    *)
NextProcess ==
  /\ printed # << >>
  /\ printers' = << >> /\ job' = 1 /\ printed' = << >> /\ UNCHANGED paper

PrintStep ==
  \/ \E name \in Printers, default \in BOOLEAN : AddPrinter(name, default)
  \/ \E name \in Printers \cup {Unnamed}, doc \in Documents, dir \in JobDirs, w \in BOOLEAN :
       PrintJob(name, doc, dir, w)
  \/ \E name \in Printers : NoSuchPrinter(name)
  \/ NextProcess
-----------------------------------------------------------------------------
ShellInit(b) == shellOf' = b /\ UNCHANGED expanded

(* lookup_var.                                                             *)
ValueOf(b, name) == <<b, Named[name]>>

(* Variant: the '%' that ends one name may begin the next.                 *)
ExpandOverlapping(b, text) ==
  LET from[p \in 1..Len(text) + 4] ==
        IF p > Len(text) THEN << >>
        ELSE IF /\ p + 2 <= Len(text) /\ text[p] = "%" /\ text[p + 2] = "%"
                /\ text[p + 1] \in DOMAIN Named
        THEN ValueOf(b, text[p + 1]) \o from[p + 2]
        ELSE <<text[p]>> \o from[p + 1]
  IN  from[1]

(* The loop of cellar_shell_expand, its buffer large enough: what is put   *)
(* in for a name is not looked at again, a '%' that begins none is left.   *)
Expand(b, text) ==
  LET from[p \in 1..Len(text) + 4] ==
        IF p > Len(text) THEN << >>
        ELSE IF /\ p + 2 <= Len(text) /\ text[p] = "%" /\ text[p + 2] = "%"
                /\ text[p + 1] \in DOMAIN Named
        THEN ValueOf(b, text[p + 1]) \o from[p + 3]
        ELSE <<text[p]>> \o from[p + 1]
  IN  from[1]

ShellExpand(text) ==
  /\ shellOf # ""
  /\ expanded' = [text |-> text, out |-> Expand(shellOf, text), with |-> shellOf]
  /\ UNCHANGED shellOf

ShellStep ==
  \/ \E b \in BottlePaths : ShellInit(b)
  \/ \E text \in UNION {[1..n -> Letters] : n \in 1..MaxLetters} :
       expanded = NotExpanded /\ ShellExpand(text)
-----------------------------------------------------------------------------
HostTypeOK ==
  /\ Len(printers) <= PrinterSlots /\ job \in 1..JobLimit
  /\ \A f, g \in paper : <<f.dir, f.id>> = <<g.dir, g.id>> => f = g
  /\ shellOf \in BottlePaths \cup {""}

(* The file of a job has its document for as long as the process lives,    *)
(* whatever it prints later and whichever of its jobs fail.                *)
JobsKeepTheirFiles == \A k \in DOMAIN printed : printed[k].file \in paper

(* A job went to a printer of the name it asked for, and one that named    *)
(* none to the first printer, which is the one that captures documents,    *)
(* whatever others were added as the default.                              *)
JobsGoWhereAsked ==
  \A k \in DOMAIN printed :
    IF printed[k].asked = Unnamed THEN printed[k].at = 1 /\ printers[1].name = CellarPdf
    ELSE SameName[printers[printed[k].at].name] = SameName[printed[k].asked]

(* What was expanded has nothing left to expand, and with the names put    *)
(* back for what they stand for it is the text again, but for their case.  *)
ExpandsOnce ==
  LET below == {Named[n] : n \in DOMAIN Named}
      Fold(c) == IF c \in DOMAIN Named THEN Named[c] ELSE c
      Back(c) == CASE c = expanded.with -> << >>
                   [] c \in below -> <<"%", c, "%">>
                   [] OTHER -> <<Fold(c)>>
  IN  expanded # NotExpanded =>
        /\ Expand(expanded.with, expanded.out) = expanded.out
        /\ FlattenSeq([i \in DOMAIN expanded.out |-> Back(expanded.out[i])])
             = [i \in DOMAIN expanded.text |-> Fold(expanded.text[i])]
=============================================================================
