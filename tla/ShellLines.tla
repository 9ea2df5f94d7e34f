----------------------------- MODULE ShellLines -----------------------------
(***************************************************************************)
(* The lines of SQL of the database shell (progs/shell.c): what is blank,  *)
(* what ends a command and what is complete.  A text is a sequence of      *)
(* characters.                                                             *)
(***************************************************************************)
EXTENDS Naturals, Sequences, SequencesExt

Texts == Seq(STRING)

DQ == "\""
SQ == "'"
LF == "\n"
CR == "\r"

Spaces == {" ", "\t", LF, CR}

(* The part of z before the first of S, and the part from it on.           *)
Until(z, S) == LET K == {k \in DOMAIN z : z[k] \in S} IN
               IF K = {} THEN z ELSE SubSeq(z, 1, Min(K) - 1)
From(z, S) == SubSeq(z, Len(Until(z, S)) + 1, Len(z))
Starts(z, s) == IsPrefix(s, z)
Drop(z, n) == SubSeq(z, n + 1, Len(z))

-----------------------------------------------------------------------------

line_contains_semicolon(z) == \E k \in DOMAIN z : z[k] = ";"

(* What is behind a C comment that starts z, if it ends.                   *)
Ends(z) == {k \in 4..Len(z) : z[k - 1] = "*" /\ z[k] = "/"}

_all_whitespace[z \in Texts] ==
  IF z = <<>> THEN TRUE
  ELSE IF z[1] \in Spaces THEN _all_whitespace[Tail(z)]
  ELSE IF Starts(z, <<"/", "*">>) THEN Ends(z) # {} /\ _all_whitespace[Drop(z, Min(Ends(z)))]
  ELSE IF Starts(z, <<"-", "-">>) THEN _all_whitespace[From(z, {LF})]
  ELSE FALSE

line_is_command_terminator(zLine) ==
  LET z == Drop(zLine, Len(Until(zLine, {c \in Range(zLine) : c \notin Spaces}))) IN
  \/ z # <<>> /\ z[1] = "/" /\ _all_whitespace[Tail(z)]
  \/ Starts(z, <<"g", "o">>) /\ _all_whitespace[Drop(z, 2)]

(* sqlite3_complete, for SQL without triggers: the last token is a         *)
(* semicolon, and the text ends in no literal and no C comment.            *)
Complete[z \in Texts, done \in BOOLEAN] ==
  IF z = <<>> THEN done
  ELSE IF z[1] \in Spaces THEN Complete[Tail(z), done]
  ELSE IF z[1] = ";" THEN Complete[Tail(z), TRUE]
  ELSE IF Starts(z, <<"/", "*">>) THEN Ends(z) # {} /\ Complete[Drop(z, Min(Ends(z))), done]
  ELSE IF Starts(z, <<"-", "-">>) THEN Complete[From(z, {LF}), done]
  ELSE IF z[1] \in {SQ, DQ}
       THEN LET w == From(Tail(z), {z[1]}) IN w # <<>> /\ Complete[Tail(w), FALSE]
  ELSE Complete[Tail(z), FALSE]
sqlite3_complete(z) == Complete[z, FALSE]

line_is_complete(zSql) == sqlite3_complete(Append(zSql, ";"))
=============================================================================
