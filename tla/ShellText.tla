----------------------------- MODULE ShellText -----------------------------
(***************************************************************************)
(* The conversions of the database shell (progs/shell.c): how values,      *)
(* names and separators are written, and how fields, arguments and lines   *)
(* are read.                                                               *)
(***************************************************************************)
EXTENDS ShellLines

BS == "\\"
NUL == "NUL"

Digits == {"0", "1", "2", "3", "4", "5", "6", "7"}

Each(z, Op(_)) == FlattenSeq([k \in DOMAIN z |-> Op(z[k])])
Double(q, c) == IF c = q THEN <<c, c>> ELSE <<c>>

-----------------------------------------------------------------------------
(* Written text.                                                           *)

(* The characters that are not printable, of those in use, by their octal  *)
(* codes.                                                                  *)
Octal == ("\f" :> <<"0", "1", "4">>)

(* A faulty variant of CChar: the quote is left as it is.                  *)
CCharPlain(c) ==
  CASE c = BS -> <<BS, BS>>
    [] c = LF -> <<BS, "n">>
    [] c = CR -> <<BS, "r">>
    [] c \in DOMAIN Octal -> <<BS>> \o Octal[c]
    [] OTHER -> <<c>>

CChar(c) ==
  CASE c \in {BS, DQ} -> <<BS, c>>
    [] c = "\t" -> <<BS, "t">>
    [] c = LF -> <<BS, "n">>
    [] c = CR -> <<BS, "r">>
    [] c \in DOMAIN Octal -> <<BS>> \o Octal[c]
    [] OTHER -> <<c>>

output_c_string(z) == <<DQ>> \o Each(z, CChar) \o <<DQ>>

(* Pieces between apostrophes are printed one by one, each apostrophe      *)
(* twice; a text without one is printed whole.                             *)
RECURSIVE Pieces(_)

Pieces(z) ==
  LET i == Until(z, {SQ}) IN
  IF z = <<>> THEN <<>>
  ELSE IF i = <<>> THEN <<SQ, SQ>> \o Pieces(Tail(z))
  ELSE IF Len(i) < Len(z) THEN i \o <<SQ, SQ>> \o Pieces(Drop(z, Len(i) + 1))
  ELSE z

output_quoted_string(z) == <<SQ>> \o Pieces(z) \o <<SQ>>

HtmlChar(c) ==
  CASE c = "<" -> <<"&", "l", "t", ";">>
    [] c = "&" -> <<"&", "a", "m", "p", ";">>
    [] c = ">" -> <<"&", "g", "t", ";">>
    [] c = DQ  -> <<"&", "q", "u", "o", "t", ";">>
    [] c = SQ  -> <<"&", "#", "3", "9", ";">>
    [] OTHER   -> <<c>>

output_html_string(z) == Each(z, HtmlChar)

(* A name is quoted when it is not a plain identifier; z is not empty.     *)
Letters == {"a", "b", "n", "x"}
set_table_name(z) ==
  LET needQuote == z[1] \notin Letters \/ \E k \in DOMAIN z : z[k] \notin Letters \cup Digits
      body == Each(z, LAMBDA c : Double(SQ, c))
  IN  IF needQuote THEN <<SQ>> \o body \o <<SQ>> ELSE body

appendText(in, z, quote) ==
  IF quote = NUL THEN in \o z ELSE in \o <<quote>> \o Each(z, LAMBDA c : Double(quote, c)) \o <<quote>>

(* needCsvQuote: the characters that have a field quoted, of those in use. *)
NeedCsvQuote == Spaces \cup {DQ, SQ, "\f"}

(* A separator of more than one character is compared with the start of    *)
(* the text, not with the place it may be at.                              *)
Quoted(z, sep) ==
  \/ z = <<>>
  \/ \E k \in DOMAIN z :
       \/ z[k] \in NeedCsvQuote
       \/ sep # <<>> /\ z[k] = sep[1] /\ (Len(sep) = 1 \/ Starts(z, sep))

output_csv(z, sep) ==
  IF Quoted(z, sep) THEN <<DQ>> \o Each(z, LAMBDA c : Double(DQ, c)) \o <<DQ>> ELSE z

-----------------------------------------------------------------------------
(* Read text.                                                              *)

Escapes == [c \in {"t", "n", "f", "r"} |-> CASE c = "t" -> "\t" [] c = "n" -> LF
                                             [] c = "f" -> "\f" [] c = "r" -> CR]

(* The character of up to three octal digits; NUL ends the text, and codes *)
(* not in use stand for one another.                                       *)
OfOctal(d) == IF \A k \in DOMAIN d : d[k] = "0" THEN NUL
              ELSE IF \E c \in DOMAIN Octal : Octal[c] = d \/ Octal[c] = <<"0">> \o d
                   THEN CHOOSE c \in DOMAIN Octal : Octal[c] = d \/ Octal[c] = <<"0">> \o d
                   ELSE "other"

OctalDigits(z) ==
  SubSeq(z, 1, CHOOSE k \in 1..3 : /\ k <= Len(z) /\ \A i \in 1..k : z[i] \in Digits
                                   /\ (k = 3 \/ k = Len(z) \/ z[k + 1] \notin Digits))

RECURSIVE Unescaped(_)
Unescaped(z) ==
  IF z = <<>> THEN <<>>
  ELSE IF z[1] # BS \/ Len(z) = 1 THEN <<z[1]>> \o Unescaped(Tail(z))
  ELSE IF z[2] \in Digits
       THEN LET d == OctalDigits(Tail(z)) IN <<OfOctal(d)>> \o Unescaped(Drop(z, Len(d) + 1))
  ELSE <<IF z[2] \in DOMAIN Escapes THEN Escapes[z[2]] ELSE z[2]>> \o Unescaped(Drop(z, 2))

resolve_backslashes(z) == Until(Unescaped(z), {NUL})

(* The arguments of a dot-command.  In double quotes a backslash keeps the *)
(* next character from ending the argument; only apostrophes keep          *)
(* backslashes as they are.                                                *)
RECURSIVE Inside(_)
Inside(z) == IF z = <<>> \/ z[1] = DQ THEN <<>>
             ELSE IF z[1] = BS /\ Len(z) > 1 THEN SubSeq(z, 1, 2) \o Inside(Drop(z, 2))
             ELSE <<z[1]>> \o Inside(Tail(z))

RECURSIVE Arguments(_)
Arguments(z) ==
  IF z = <<>> THEN <<>>
  ELSE IF z[1] \in Spaces THEN Arguments(Tail(z))
  ELSE IF z[1] = SQ
       THEN LET w == Until(Tail(z), {SQ}) IN <<w>> \o Arguments(Drop(z, Len(w) + 2))
  ELSE IF z[1] = DQ
       THEN LET w == Inside(Tail(z)) IN <<resolve_backslashes(w)>> \o Arguments(Drop(z, Len(w) + 2))
  ELSE LET w == Until(z, Spaces) IN <<resolve_backslashes(w)>> \o Arguments(Drop(z, Len(w) + 1))

(* One field of a file: its text, the character it ended with, and what    *)
(* follows; at the end of the file there is none.                          *)
EOF == "EOF"
Field(some, z, term, rest) == [some |-> some, z |-> z, term |-> term, rest |-> rest]
NoField == Field(FALSE, <<>>, EOF, <<>>)
Char(in) == IF in = <<>> THEN EOF ELSE in[1]
After(in) == IF in = <<>> THEN in ELSE Tail(in)

(* In quotes: pc and ppc are the last two characters, pc forgotten when it *)
(* was one of a pair of quotes.  What ends a field follows its last quote. *)
RECURSIVE InQuotes(_, _, _, _, _, _)
InQuotes(in, z, pc, ppc, cSep, rSep) ==
  LET c == Char(in) IN
  IF c = DQ /\ pc = DQ THEN InQuotes(Tail(in), z, NUL, ppc, cSep, rSep)
  ELSE IF \/ c \in {cSep, rSep, EOF} /\ pc = DQ
          \/ c = rSep /\ pc = CR /\ ppc = DQ
       THEN Field(TRUE, SubSeq(z, 1, SelectLastInSeq(z, LAMBDA d : d = DQ) - 1), c, After(in))
  ELSE IF c = EOF THEN Field(TRUE, z, EOF, <<>>)
  ELSE InQuotes(Tail(in), Append(z, c), c, pc, cSep, rSep)

Plain(in, cSep, rSep) ==
  LET z == Until(in, {cSep, rSep})
      rest == From(in, {cSep, rSep})
  IN  Field(TRUE, z, Char(rest), After(rest))

csv_read_one_field(in, cSep, rSep) ==
  IF in = <<>> THEN NoField
  ELSE IF in[1] = DQ THEN InQuotes(Tail(in), <<>>, NUL, NUL, cSep, rSep)
  ELSE LET f == Plain(in, cSep, rSep) IN
       IF f.term = rSep /\ f.z # <<>> /\ Last(f.z) = CR THEN [f EXCEPT !.z = Front(@)] ELSE f

ascii_read_one_field(in, cSep, rSep) == IF in = <<>> THEN NoField ELSE Plain(in, cSep, rSep)

=============================================================================
