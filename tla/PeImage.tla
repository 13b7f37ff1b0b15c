------------------------------ MODULE PeImage ------------------------------
(***************************************************************************)
(* An image as map_sections of loader.c lays it out, and the two ways of   *)
(* pe.c to find a byte of it: by its address in the mapped image, and in   *)
(* the raw file.  A byte of the file is known by its offset, from 1; 0 is  *)
(* the zero of calloc, and an offset past RawSize whatever lies in memory  *)
(* behind the buffer of the file, if reading it does not end the process.  *)
(***************************************************************************)
EXTENDS Integers, Sequences, FiniteSets, FiniteSetsExt

CONSTANTS
  RawSize,    \* length of the file
  ImageSize,  \* opt.size_of_image
  HeaderSize, \* opt.size_of_headers
  Sections,   \* number of sections
  Addresses, Offsets,      \* where a section may begin in the image and in the file
  VirtualSizes, DataSizes  \* sizes a section may have in the image and in the file

ASSUME ImageAssumption ==
  /\ {RawSize, ImageSize, HeaderSize, Sections} \subseteq Nat /\ ImageSize > 0
  /\ UNION {Addresses, Offsets, VirtualSizes, DataSizes} \subseteq Nat

VARIABLES
  section,  \* the section table: a sequence of [va, vsize, offset, size]
  mapped,   \* [0..ImageSize - 1 -> byte], img->mapped
  placed    \* sections map_sections has gone through, -1 before the headers

imageVars == <<section, mapped, placed>>

Larger(a, b) == IF a < b THEN b ELSE a
Span(s) == s.va..s.va + Larger(s.vsize, s.size) - 1

(* Section tables, as parse_headers copies them: nothing in them is        *)
(* checked.  Sections may share addresses with one another and with the    *)
(* headers, and their data may reach past the file or begin behind it.     *)
Layouts ==
  [1..Sections -> [va : Addresses, vsize : VirtualSizes, offset : Offsets, size : DataSizes]]

ImageInit ==
  /\ section \in Layouts
  /\ mapped = [a \in 0..ImageSize - 1 |-> 0] /\ placed = -1

(* No image has been read yet.                                             *)
IdleImage ==
  /\ section = << >> /\ mapped = [a \in 0..ImageSize - 1 |-> 0] /\ placed = -1

MapHeaders ==
  /\ placed = -1
  /\ mapped' = [a \in DOMAIN mapped |-> IF a < HeaderSize /\ a < RawSize THEN a + 1 ELSE mapped[a]]
  /\ placed' = 0
  /\ UNCHANGED section

(* Variant: only what fits the section's virtual size is checked.          *)
FitsVirtual(s) == s.va + s.vsize <= ImageSize
Fits(s) == s.size # 0 /\ s.offset < RawSize /\ s.va + s.size <= ImageSize

(* A section whose data would reach past the image is left out; of its     *)
(* place in the file only the beginning is looked at.                      *)
MapSection ==
  /\ placed \in 0..Sections - 1
  /\ LET s == section[placed + 1]
     IN  mapped' = IF ~Fits(s) THEN mapped
                   ELSE [a \in DOMAIN mapped |->
                           IF a \in s.va..s.va + s.size - 1 THEN s.offset + (a - s.va) + 1
                           ELSE mapped[a]]
  /\ placed' = placed + 1
  /\ UNCHANGED section

(* section_for_rva: the first section that has the address, 0 if none has. *)
SectionFor(rva) ==
  LET has == {i \in 1..Sections : rva \in Span(section[i])}
  IN  IF has = {} THEN 0 ELSE Min(has)

(* cellar_image_rva: whether there is a pointer for this address.          *)
HasRva(rva) == rva < HeaderSize \/ SectionFor(rva) # 0

(* cellar_image_read of n bytes.                                           *)
CanRead(rva, n) == n > 0 /\ HasRva(rva) /\ rva + n <= ImageSize

(* cellar_image_rva_raw: the offset in the file from 1, 0 for NULL.        *)
RawAt(rva) ==
  LET i == SectionFor(rva)
  IN  CASE rva < HeaderSize -> rva + 1
        [] rva >= HeaderSize /\ i # 0 /\ rva - section[i].va < section[i].size ->
             section[i].offset + (rva - section[i].va) + 1
        [] OTHER -> 0

ImageStep == MapHeaders \/ MapSection

-----------------------------------------------------------------------------
ImageTypeOK ==
  placed \in -1..Sections /\ \A a \in DOMAIN mapped : mapped[a] \in 0..RawSize + ImageSize

(* Once all is mapped, the two ways agree on each address that only the    *)
(* headers or only one section has, whatever the rest of the table: what   *)
(* is read there is the byte of the file that rva_raw finds, zero where it *)
(* finds none or points past the file; excepted is a section whose padded  *)
(* data reaches past the image, of which nothing is mapped.  Where two     *)
(* have an address, the later one is mapped and rva_raw finds the first.   *)
(* What is mapped can be read; and a byte from behind the file is only in  *)
(* a section that begins inside the file and is cut by its end.            *)
MappedMatchesRaw ==
  placed = Sections =>
    \A rva \in 0..ImageSize - 1 :
      LET owners == {j \in 1..Sections : rva \in Span(section[j])}
          i == SectionFor(rva)
      IN  /\ /\ CanRead(rva, 1)
             /\ \A j \in owners : rva >= HeaderSize /\ j = i
             /\ rva < HeaderSize \/ section[i].va + section[i].size <= ImageSize
             => mapped[rva] = RawAt(rva) \/ (mapped[rva] = 0 /\ RawAt(rva) > RawSize)
          /\ mapped[rva] # 0 => CanRead(rva, 1)
          /\ mapped[rva] > RawSize =>
               \E j \in owners :
                 RawSize \in section[j].offset + 1..section[j].offset + section[j].size - 1
=============================================================================
