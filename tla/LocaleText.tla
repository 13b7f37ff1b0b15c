----------------------------- MODULE LocaleText -----------------------------
(***************************************************************************)
(* The conversions of locale.c.  Text is a sequence of bytes, none of them *)
(* 0.  A behaviour converts one text and takes it back, or formats one     *)
(* number; the locale may be set at any time.  Dates and times have one    *)
(* layout whatever the locale says, and are left out; the buffers of a     *)
(* number are large enough.                                                *)
(***************************************************************************)
EXTENDS Integers, Sequences, SequencesExt

CONSTANTS
  Locales,     \* [acp, oemcp, decimal, thousand]; the last two by their first character
  English,     \* what cellar_locale_english_us fills in
  Pages,       \* the code pages callers name
  Bytes,       \* bytes of the texts converted
  Caps,        \* sizes of their buffers
  MaxText,     \* bound: bytes of a text
  MaxDigits,   \* bound: digits before the point
  Overflow     \* the -1 of a conversion

ACP == 0
OEMCP == 1
UTF8 == 65001

ASSUME LocaleAssumption ==
  /\ English \in Locales /\ Bytes \subseteq 1..255 /\ Caps \subseteq Nat \ {0}
  /\ MaxText \in Nat /\ MaxDigits \in 1..8

VARIABLES
  locale,    \* g_loc, filled by ensure
  given,     \* history: what was converted last, and under which locale
  utf8,      \* its UTF-8, or Overflow
  back,      \* utf8 converted back: [text, cap, under], cap 0 before
  figure     \* history: the number formatted last, and under which locale

localeVars == <<locale, given, utf8, back, figure>>

NoText == [page |-> UTF8, text |-> << >>, under |-> English]
NotBack == [text |-> << >>, cap |-> 0, under |-> English]
NoFigure == [minus |-> FALSE, digits |-> << >>, text |-> << >>, under |-> English]

LocaleInit ==
  locale = English /\ given = NoText /\ utf8 = << >> /\ back = NotBack /\ figure = NoFigure

-----------------------------------------------------------------------------
(* k_cp1252_80: the code points of the bytes from 128 to 159.              *)
C1 == << 8364, 129, 8218, 402, 8222, 8230, 8224, 8225,
         710, 8240, 352, 8249, 338, 141, 381, 143,
         144, 8216, 8217, 8220, 8221, 8226, 8211, 8212,
         732, 8482, 353, 8250, 339, 157, 382, 376 >>

(* map_cp: ACP and OEMCP are those of the locale; any other page but 1252  *)
(* is taken as it is.                                                      *)
Resolved(page) ==
  LET ansi == IF page = ACP THEN locale.acp ELSE page
  IN  IF ansi = OEMCP THEN locale.oemcp ELSE ansi
MapCp(page, b) == IF Resolved(page) = 1252 /\ b \in 128..159 THEN C1[b - 127] ELSE b

Utf8Tail(u) ==
  IF u < 2048 THEN <<192 + u \div 64, 128 + (u % 64)>>
  ELSE <<224 + u \div 4096, 128 + ((u \div 64) % 64), 128 + (u % 64)>>

(* Variant: 128 still takes one byte.                                      *)
Utf8PutLate(u) == IF u <= 128 THEN <<u>> ELSE Utf8Tail(u)

(* utf8_put, for the code points that map_cp gives.                        *)
Utf8Put(u) == IF u < 128 THEN <<u>> ELSE Utf8Tail(u)

CutTo(text, n) == SubSeq(text, 1, IF Len(text) < n THEN Len(text) ELSE n)

(* cellar_cp_to_utf8: UTF-8 itself, by that name, is cut to the buffer;    *)
(* any other text has to fit with its 0.                                   *)
CpToUtf8(page, text, cap) ==
  LET all == FlattenSeq([i \in DOMAIN text |-> Utf8Put(MapCp(page, text[i]))])
  IN  IF page = UTF8 THEN CutTo(text, cap - 1)
      ELSE IF Len(all) < cap THEN all ELSE Overflow

(* The byte of a code point, '?' if there is none.                         *)
ByteOf(page, u) ==
  CASE page = 1252 /\ u \in 128..255 -> u
    [] page = 1252 /\ u \notin 128..255 ->
         IF u \in Range(C1) THEN 127 + CHOOSE k \in DOMAIN C1 : C1[k] = u ELSE 63
    [] OTHER -> IF u < 256 THEN u ELSE 63

(* The loop of cellar_utf8_to_cp: a sequence of two or three bytes, or one *)
(* that starts none.                                                       *)
Decoded(page, text) ==
  LET from[i \in 1..Len(text) + 3] ==
        LET c == text[i]
        IN  IF i > Len(text) THEN << >>
            ELSE IF c < 128 THEN <<c>> \o from[i + 1]
            ELSE IF c \in 192..223 /\ i < Len(text)
            THEN <<ByteOf(page, (c % 32) * 64 + (text[i + 1] % 64))>> \o from[i + 2]
            ELSE IF c \in 224..239 /\ i + 1 < Len(text)
            THEN <<ByteOf(page, (c % 16) * 4096 + (text[i + 1] % 64) * 64 + (text[i + 2] % 64))>>
                   \o from[i + 3]
            ELSE <<63>> \o from[i + 1]
  IN  from[1]

(* cellar_utf8_to_cp cuts to the buffer, and knows ACP but not OEMCP.      *)
Utf8ToCp(page, text, cap) ==
  LET ansi == IF page = ACP THEN locale.acp ELSE page
  IN  CutTo(IF ansi = UTF8 THEN text ELSE Decoded(ansi, text), cap - 1)

-----------------------------------------------------------------------------
(* cellar_locale_format_number, from the digits that printf gives.         *)
Grouped(digits, thousand) ==
  FlattenSeq([i \in DOMAIN digits |->
    IF (Len(digits) - i) % 3 = 0 /\ i < Len(digits) THEN <<digits[i], thousand>> ELSE <<digits[i]>>])

Separator(l) == IF l.thousand = "" THEN "," ELSE l.thousand
Point(l) == IF l.decimal = "" THEN "." ELSE l.decimal
Sign(minus) == IF minus THEN <<"-">> ELSE << >>
Cents == <<"5", "0">>

FormatNumber(minus, digits) ==
  Sign(minus) \o Grouped(digits, Separator(locale)) \o <<Point(locale)>> \o Cents

-----------------------------------------------------------------------------
SetLocale(l) == locale' = l /\ UNCHANGED <<given, utf8, back, figure>>

Convert(page, text, cap) ==
  /\ given = NoText /\ figure = NoFigure
  /\ given' = [page |-> page, text |-> text, under |-> locale]
  /\ utf8' = CpToUtf8(page, text, cap)
  /\ UNCHANGED <<locale, back, figure>>

ConvertBack(cap) ==
  /\ given # NoText /\ utf8 # Overflow
  /\ back' = [text |-> Utf8ToCp(given.page, utf8, cap), cap |-> cap, under |-> locale]
  /\ UNCHANGED <<locale, given, utf8, figure>>

Format(minus, digits) ==
  /\ given = NoText /\ figure = NoFigure
  /\ figure' = [minus |-> minus, digits |-> digits, text |-> FormatNumber(minus, digits),
                under |-> locale]
  /\ UNCHANGED <<locale, given, utf8, back>>

Digits == <<"1", "2", "3", "4", "5", "6", "7", "8">>

LocaleStep ==
  \/ \E l \in Locales : SetLocale(l)
  \/ \E page \in Pages, text \in UNION {[1..n -> Bytes] : n \in 1..MaxText}, cap \in Caps :
       Convert(page, text, cap)
  \/ \E cap \in Caps : ConvertBack(cap)
  \/ \E minus \in BOOLEAN, n \in 1..MaxDigits : Format(minus, SubSeq(Digits, 1, n))
-----------------------------------------------------------------------------
LocaleTypeOK ==
  /\ locale \in Locales /\ given.page \in Pages \cup {UTF8}
  /\ back.cap \in Caps \cup {0}

(* A text of any code page comes back from UTF-8 as it was, up to the size *)
(* of the buffer it comes back to, if its UTF-8 fitted, whatever its bytes *)
(* stand for: but for ACP when the locale says UTF-8, which is encoded     *)
(* twice and taken back once, and for OEMCP, as the page or as the ACP,    *)
(* when it is 1252, which is looked up on the way to UTF-8 only.           *)
TextRoundTrips ==
  LET ansi == IF given.page = ACP THEN given.under.acp ELSE given.page
  IN  (/\ back.cap # 0 /\ back.under = given.under
       /\ ~(given.page = ACP /\ ansi = UTF8)
       /\ ~(ansi = OEMCP /\ given.under.oemcp = 1252)) =>
         /\ IsPrefix(back.text, given.text)
         /\ (back.cap > Len(given.text) /\ Len(utf8) >= Len(given.text)) => back.text = given.text

(* A formatted number reads back: without the separators it is the sign,   *)
(* the digits and the point, and the separators cut the digits into threes *)
(* from the point on, unless the locale's separator is one of those        *)
(* characters itself.                                                      *)
NumberReadsBack ==
  LET sep == Separator(figure.under)
      plain == Sign(figure.minus) \o figure.digits \o <<Point(figure.under)>> \o Cents
      point == Len(figure.text) - Len(Cents)
  IN  (figure # NoFigure /\ sep \notin Range(plain)) =>
        /\ FlattenSeq([i \in DOMAIN figure.text |->
             IF figure.text[i] = sep THEN << >> ELSE <<figure.text[i]>>]) = plain
        /\ {i \in 1..point : figure.text[i] = sep}
             = {point - 4 * k : k \in 1..(Len(figure.digits) - 1) \div 3}
=============================================================================
