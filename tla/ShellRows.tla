----------------------------- MODULE ShellRows -----------------------------
(***************************************************************************)
(* The rows of a result as the shell writes them in its modes              *)
(* (shell_callback of progs/shell.c), as text.  A value is NULL, a text, a *)
(* number as it is written, or a blob of bytes.                            *)
(***************************************************************************)
EXTENDS ShellText, Integers

TextOf(z) == [type |-> "text", z |-> z]
NumberOf(z) == [type |-> "number", z |-> z]
Blob(b) == [type |-> "blob", z |-> b]
NoValue == [type |-> "null", z |-> <<>>]

(* p are the session's settings, azCol the names of the columns; from one  *)
(* row to the next the shell keeps cnt, how many there were, and the       *)
(* widths w of the columns.                                                *)
Shown1(p, v) == IF v.type = "null" THEN p.nullValue ELSE v.z
Separated(zs, sep) == FlattenSeq([k \in DOMAIN zs |-> IF k > 1 THEN sep \o zs[k] ELSE zs[k]])
Values(p, row) == [k \in DOMAIN row |-> Shown1(p, row[k])]
Greater(m, n) == IF m > n THEN m ELSE n
Longest(zs, n) == FoldLeft(LAMBDA m, z : Greater(m, Len(z)), n, zs)

(* printf's %-*.*s for a width of at least 0, and %*.*s for one below, cut *)
(* and filled to it; and %*s, which does not cut.                          *)
Blanks(n) == [k \in 1..n |-> " "]
Fitted1(w, z) ==
  LET n == IF w < 0 THEN -w ELSE w
      cut == SubSeq(z, 1, IF Len(z) < n THEN Len(z) ELSE n)
  IN  IF w < 0 THEN Blanks(n - Len(cut)) \o cut ELSE cut \o Blanks(n - Len(cut))
RightIn(w, z) == Blanks(Greater(w, Len(z)) - Len(z)) \o z

LineRow(p, cnt, azCol, row) ==
  LET w == Longest(azCol, 5) IN
  (IF cnt > 0 THEN p.rowSeparator ELSE <<>>)
  \o FlattenSeq([k \in DOMAIN row |-> RightIn(w, azCol[k]) \o <<" ", "=", " ">> \o Shown1(p, row[k]) \o p.rowSeparator])

(* The widths that are asked for, or those of the first row and its names. *)
ActualWidth(p, azCol, row) ==
  [k \in DOMAIN row |->
     LET w == IF k <= Len(p.colWidth) THEN p.colWidth[k] ELSE 0 IN
     IF w # 0 THEN w ELSE Greater(Greater(Len(azCol[k]), 10), Len(Shown1(p, row[k])))]
Columns(p, w, zs) == Separated([k \in DOMAIN zs |-> Fitted1(w[k], zs[k])], <<" ", " ">>) \o p.rowSeparator

ColumnRow(p, cnt, w, azCol, row) ==
  LET rule == [k \in DOMAIN w |-> [i \in 1..IF w[k] < 0 THEN -w[k] ELSE w[k] |-> "-"]]
      uncut == [k \in DOMAIN row |-> IF p.mode = "explain" /\ row[k].type # "null" THEN Greater(w[k], Len(row[k].z)) ELSE w[k]]
  IN  (IF cnt = 0 /\ p.showHeader THEN Columns(p, w, azCol) \o Columns(p, [k \in DOMAIN w |-> Len(rule[k])], rule) ELSE <<>>)
      \o Columns(p, uncut, Values(p, row))

Named(p, cnt, header) == IF cnt = 0 /\ p.showHeader THEN header ELSE <<>>

ListRow(p, cnt, azCol, row) ==
  Named(p, cnt, Separated(azCol, p.colSeparator) \o p.rowSeparator)
  \o Separated(Values(p, row), p.colSeparator) \o (IF p.mode = "semi" THEN <<";">> ELSE <<>>) \o p.rowSeparator

Tag(t, z) == <<"<", "T", t, ">">> \o z \o <<"<", "/", "T", t, ">", LF>>
HtmlCells(t, zs) == <<"<", "T", "R", ">">> \o FlattenSeq([k \in DOMAIN zs |-> Tag(t, output_html_string(zs[k]))])
                    \o <<"<", "/", "T", "R", ">", LF>>
HtmlRow(p, cnt, azCol, row) == Named(p, cnt, HtmlCells("H", azCol)) \o HtmlCells("D", Values(p, row))

Quoted1(zs) == [k \in DOMAIN zs |-> output_c_string(zs[k])]
TclRow(p, cnt, azCol, row) ==
  Named(p, cnt, Separated(Quoted1(azCol), p.colSeparator) \o p.rowSeparator)
  \o Separated(Quoted1(Values(p, row)), p.colSeparator) \o p.rowSeparator

CsvLine(p, zs) == Separated([k \in DOMAIN zs |-> output_csv(zs[k], p.colSeparator)], p.colSeparator) \o p.rowSeparator
CsvRow(p, cnt, azCol, row) ==
  Named(p, cnt, CsvLine(p, azCol))
  \o Separated([k \in DOMAIN row |-> IF row[k].type = "null" THEN p.nullValue ELSE output_csv(row[k].z, p.colSeparator)],
               p.colSeparator) \o p.rowSeparator

HexDigit == <<"0", "1", "2", "3", "4", "5", "6", "7", "8", "9", "a", "b", "c", "d", "e", "f">>
output_hex_blob(b) ==
  <<"X", SQ>> \o FlattenSeq([k \in DOMAIN b |-> <<HexDigit[(b[k] \div 16) + 1], HexDigit[(b[k] % 16) + 1]>>]) \o <<SQ>>

Literal(v) == CASE v.type = "null" -> <<"NULL">>
                [] v.type = "number" -> v.z
                [] v.type = "blob" -> output_hex_blob(v.z)
                [] v.type = "text" -> output_quoted_string(v.z)
(* A word of SQL is one character here.                                    *)
Insert == <<"INSERT", " ", "INTO", " ">>
InsertRow(p, cnt, azCol, row) ==
  Insert \o p.zDestTable \o (IF p.showHeader THEN <<"(">> \o Separated(azCol, <<",">>) \o <<")">> ELSE <<>>)
  \o <<" ", "VALUES", "(">> \o Separated([k \in DOMAIN row |-> Literal(row[k])], <<",">>) \o <<")", ";", LF>>

AsciiRow(p, cnt, azCol, row) ==
  Named(p, cnt, Separated(azCol, p.colSeparator) \o p.rowSeparator)
  \o Separated(Values(p, row), p.colSeparator) \o p.rowSeparator

-----------------------------------------------------------------------------
(* .dump: the query that gives the INSERTs of a table but for the commas   *)
(* between the columns, and how a row of such a query is written.          *)
dump_select(zTable, cols) ==
  LET name == appendText(<<>>, zTable, DQ)
      quote(z) == <<"quote", "(">> \o appendText(<<>>, z, DQ) \o <<")">>
  IN  appendText(<<"SELECT", " ", SQ>> \o Insert \o <<SQ, "||">>, name, SQ)
      \o <<"||", SQ, " ", "VALUES", "(", SQ, "||">> \o Separated([k \in DOMAIN cols |-> quote(cols[k])], <<",">>)
      \o <<"||", SQ, ")", SQ, "FROM", " ">> \o name

HasComment(z) == \E k \in 2..Len(z) : z[k - 1] = "-" /\ z[k] = "-"
DumpLine(zs) == Separated(zs, <<",">>) \o (IF HasComment(zs[1]) THEN <<LF, ";", LF>> ELSE <<";", LF>>)
=============================================================================
