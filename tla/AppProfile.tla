----------------------------- MODULE AppProfile -----------------------------
(***************************************************************************)
(* The remembered configuration of an application: profile.c's file        *)
(* profile.conf, written line by line through stdio, so that a save that   *)
(* is killed leaves a front part of its text, or the empty file.           *)
(***************************************************************************)
EXTENDS Integers, Sequences

CONSTANTS
  Setups,   \* what the lines before last_good say, as a whole
  Default,  \* what a load makes of lines that are not there
  Damaged   \* ... of some of the lines, or of a line cut short

ASSUME ProfileAssumption == Default \notin Setups /\ Damaged \notin Setups /\ Default # Damaged

VARIABLES
  conf,    \* profile.conf: a sequence of lines, or "none"
  confirmed \* history: the setups that were marked good

profileVars == <<conf, confirmed>>
NoConf == <<[key |-> "none", v |-> Default]>>

ProfileInit == conf = NoConf /\ confirmed = {}

(* The text of a profile, the lines of its setup taken as one.             *)
TextOf(setup, good) ==
  <<[key |-> "setup", v |-> setup], [key |-> "last_good", v |-> good]>>

(* cellar_profile_save, and mark_last_good, which saves with the mark; cut *)
(* is how many lines have reached the file when the process dies, and the  *)
(* next line may have reached it in part.                                  *)
SaveProfile(setup, good) ==
  /\ conf' = TextOf(setup, good)
  /\ confirmed' = IF good = 1 THEN confirmed \cup {setup} ELSE confirmed

CutLine(line) == IF line.key = "setup" THEN [line EXCEPT !.v = Damaged] ELSE [line EXCEPT !.v = 0]

CrashInProfileSave(setup, good) ==
  /\ \E cut \in 0..1 :
       conf' \in {SubSeq(TextOf(setup, good), 1, cut),
                  SubSeq(TextOf(setup, good), 1, cut) \o <<CutLine(TextOf(setup, good)[cut + 1])>>}
  /\ confirmed' = IF good = 1 THEN confirmed \cup {setup} ELSE confirmed

(* find_field: the first line with the key, field_int: its number.         *)
Field(name, none) ==
  LET at == {i \in DOMAIN conf : conf[i].key = name}
  IN  IF at = {} THEN none ELSE conf[CHOOSE i \in at : \A j \in at : i <= j].v

(* cellar_profile_load of a file that is there.                            *)
Loaded == [setup |-> Field("setup", Default), lastGood |-> Field("last_good", 0)]

ProfileStep ==
  \E setup \in Setups, good \in 0..1 : SaveProfile(setup, good) \/ CrashInProfileSave(setup, good)

-----------------------------------------------------------------------------
ProfileTypeOK == Len(conf) \in 0..2 /\ confirmed \subseteq Setups

(* A profile that says it was good is one that somebody marked good, whole *)
(* and unmixed, whatever saves were killed.                                *)
LastGoodWhole == Loaded.lastGood = 1 => Loaded.setup \in confirmed
=============================================================================
