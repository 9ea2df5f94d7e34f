----------------------------- MODULE ShellData -----------------------------
(***************************************************************************)
(* The commands of the database shell that move whole tables               *)
(* (progs/shell.c): .import reads a file into a table, .clone and .dump    *)
(* walk every table of a database that may be damaged, .backup and         *)
(* .restore copy it page by page.  One command runs, while the user        *)
(* presses Ctrl-C and another process writes to the database.              *)
(*                                                                         *)
(* SQLite is modelled by what the shell sees of it: a transaction an       *)
(* interrupted INSERT rolls back, a read transaction that lasts as long as *)
(* a statement of the connection is active, and an interrupt that is in    *)
(* force until none is.                                                    *)
(***************************************************************************)
EXTENDS ShellRows

CONSTANTS
  Alphabet, MaxText,  \* the texts that are converted
  Sources,            \* the tables that were written to a file, with the mode
  NumTables, NumRows, \* the database that is copied
  Kinds,              \* what its tables are, to .dump
  NumPages,           \* its size, in hundreds of pages
  MaxWrites,          \* the other process's transactions
  MaxInterrupts       \* the presses of Ctrl-C, at least 3 for the exit

VARIABLES
  cmd,     \* "none", the command that runs, "done" or "killed"
  text,    \* what is typed to be converted
  imp,     \* .import: the table, the file, the record being read
  scan,    \* .clone and .dump: the cursors and what is written
  copy,    \* .backup and .restore
  ver,     \* the transactions of the other process so far
  seenInterrupt
dataVars == <<cmd, text, imp, scan, copy, ver, seenInterrupt>>

-----------------------------------------------------------------------------
(* .import.                                                                *)

ColSep == ","
RowSep == LF
Null == <<NUL>>

(* The file as the output modes write it (shell_callback): .import reads   *)
(* the \r\n of csv with \n for its row separator.                          *)
Cell(mode, z) == IF mode = "csv" THEN output_csv(z, <<ColSep>>) ELSE z
RowEnd(mode) == IF mode = "csv" THEN <<CR, LF>> ELSE <<RowSep>>
Record(mode, r) ==
  FlattenSeq([k \in DOMAIN r |-> (IF k > 1 THEN <<ColSep>> ELSE <<>>) \o Cell(mode, r[k])]) \o RowEnd(mode)
File(s) == FlattenSeq([k \in DOMAIN s.rows |-> Record(s.mode, s.rows[k])])

(* The fields of a file, as the reader of the mode gives them one by one:  *)
(* the text and the character it ended with.                               *)
xRead(mode, in) ==
  IF mode = "ascii" THEN ascii_read_one_field(in, ColSep, RowSep) ELSE csv_read_one_field(in, ColSep, RowSep)

RECURSIVE Read(_, _)
Read(mode, in) ==
  LET f == xRead(mode, in) IN
  IF ~f.some THEN <<>> ELSE <<[z |-> f.z, term |-> f.term]>> \o Read(mode, f.rest)

(* The next field of those that are left; none at the end or after Ctrl-C. *)
Left(in) == IF seenInterrupt > 0 THEN <<>> ELSE in
NextField(in) ==
  IF Left(in) = <<>> THEN [some |-> FALSE, z |-> Null, term |-> EOF]
  ELSE [some |-> TRUE, z |-> in[1].z, term |-> in[1].term]

(* The fields up to the end of the line, if it is not the file's.          *)
LineEnds(in) == {k \in DOMAIN Left(in) : in[k].term # ColSep}
Line(in) == IF LineEnds(in) = {} THEN Left(in) ELSE SubSeq(in, 1, Min(LineEnds(in)))
LineTerm(in) == IF LineEnds(in) = {} THEN EOF ELSE Last(Line(in)).term
AfterLine(in) == Drop(Left(in), Len(Line(in)))

NoImport == [pc |-> "none", source |-> [mode |-> "csv", rows |-> <<>>], cols |-> 0, made |-> FALSE,
             unique |-> FALSE, auto |-> TRUE, was |-> TRUE, rows |-> <<>>, kept |-> <<>>, in |-> <<>>, cur |-> <<>>,
             i |-> 0, term |-> EOF, needCommit |-> FALSE]

(* The table: with cols columns, or to be made (0) of names without a      *)
(* quote; the connection, in a transaction of the user's or not.           *)
Import(s, cols, unique, auto) ==
  /\ cols = 0 => \A k \in DOMAIN s.rows : k = 1 => \A z \in Range(s.rows[1]) : DQ \notin Range(z)
  /\ cmd' = "import"
  /\ seenInterrupt' = 0
  /\ imp' = [NoImport EXCEPT !.pc = "open", !.source = s, !.in = Read(s.mode, File(s)), !.cols = cols,
                             !.unique = unique, !.auto = auto, !.was = auto]
  /\ UNCHANGED <<text, scan, copy, ver>>

(* A table that is missing is made of the first line, unless the file is   *)
(* empty or two names are the same.                                        *)
ImportOpen ==
  /\ imp.pc = "open" /\ cmd = "import"
  /\ LET names == [k \in DOMAIN Line(imp.in) |-> imp.in[k].z]
         made == [imp EXCEPT !.made = TRUE, !.cols = Len(names),
                             !.in = AfterLine(@), !.term = LineTerm(imp.in)] IN
     IF imp.cols = 0 /\ (names = <<>> \/ ~IsInjective(names))
     THEN cmd' = "done" /\ imp' = [imp EXCEPT !.pc = "none"]
     ELSE LET t == IF imp.cols = 0 THEN made ELSE imp IN
          /\ imp' = [t EXCEPT !.pc = "field", !.i = 0, !.cur = [k \in 1..t.cols |-> Null],
                              !.needCommit = t.auto, !.auto = FALSE]
          /\ UNCHANGED cmd
  /\ UNCHANGED <<text, scan, copy, ver, seenInterrupt>>

(* One turn of the loop over the columns: i of them are bound.  What is    *)
(* not bound keeps the value of the record before.                         *)
(* A faulty variant of ImportField: the end of a record is not looked for. *)
ImportFieldOn ==
  /\ imp.pc = "field" /\ cmd = "import"
  /\ LET f == NextField(imp.in)
         i == imp.i + 1
         got == [imp EXCEPT !.in = After(@), !.term = f.term]
         bound == [got EXCEPT !.cur[i] = f.z] IN
     imp' = IF ~f.some /\ imp.i = 0 THEN [got EXCEPT !.pc = "row"]
            ELSE [bound EXCEPT !.i = i, !.pc = IF i = imp.cols THEN "row" ELSE "field"]
  /\ UNCHANGED <<cmd, text, scan, copy, ver, seenInterrupt>>

ImportField ==
  /\ imp.pc = "field" /\ cmd = "import"
  /\ LET f == NextField(imp.in)
         i == imp.i + 1
         nothing == imp.i = 0 /\ (~f.some \/ (imp.source.mode = "ascii" /\ f.z = <<>>))
         short == i < imp.cols /\ f.term # ColSep
         got == [imp EXCEPT !.in = After(@), !.term = f.term]
         bound == [got EXCEPT !.cur[i] = f.z] IN
     imp' = IF nothing THEN [got EXCEPT !.pc = "row"]
            ELSE IF short
            THEN [bound EXCEPT !.cur = [k \in DOMAIN @ |-> IF k > i THEN Null ELSE @[k]],
                               !.i = imp.cols + 2, !.pc = "row"]
            ELSE [bound EXCEPT !.i = i, !.pc = IF i = imp.cols THEN "row" ELSE "field"]
  /\ UNCHANGED <<cmd, text, scan, copy, ver, seenInterrupt>>

(* The table refuses a second row with the same first cell when that is    *)
(* its key; the command goes on.                                           *)
Inserted(rows, r) ==
  IF imp.unique /\ \E k \in DOMAIN rows : rows[k][1] = r[1] THEN rows ELSE Append(rows, r)

Loop(m) == [m EXCEPT !.i = 0, !.pc = IF m.term = EOF THEN "end" ELSE "field"]

(* Fields past the columns are read to the end of the line; the reading    *)
(* that finds the end of the file counts as one.                           *)
Extras(m) ==
  IF m.term # ColSep THEN m
  ELSE [m EXCEPT !.i = @ + Len(Line(m.in)) + IF LineEnds(m.in) = {} THEN 1 ELSE 0,
                 !.term = LineTerm(m.in), !.in = AfterLine(@)]

ImportRow ==
  /\ imp.pc = "row" /\ cmd = "import"
  /\ LET x == Extras(imp) IN
     imp' = Loop(IF x.i >= x.cols THEN [x EXCEPT !.rows = Inserted(@, x.cur)] ELSE x)
  /\ UNCHANGED <<cmd, text, scan, copy, ver, seenInterrupt>>

(* Ctrl-C while the INSERT runs: SQLite rolls back the transaction.        *)
ImportInterrupted ==
  /\ imp.pc = "row" /\ cmd = "import" /\ seenInterrupt < MaxInterrupts /\ seenInterrupt < 2
  /\ LET x == Extras(imp) IN
     /\ x.i >= x.cols
     /\ imp' = Loop([x EXCEPT !.rows = imp.kept, !.auto = TRUE])
  /\ seenInterrupt' = seenInterrupt + 1
  /\ UNCHANGED <<cmd, text, scan, copy, ver>>

(* A faulty variant of ImportEnd: the transaction is ended in any case.    *)
ImportEndAlways ==
  /\ imp.pc = "end" /\ cmd = "import"
  /\ cmd' = "done"
  /\ imp' = [imp EXCEPT !.pc = "none", !.kept = imp.rows, !.auto = TRUE]
  /\ UNCHANGED <<text, scan, copy, ver, seenInterrupt>>

ImportEnd ==
  /\ imp.pc = "end" /\ cmd = "import"
  /\ cmd' = "done"
  /\ imp' = IF imp.needCommit THEN [imp EXCEPT !.pc = "none", !.kept = imp.rows, !.auto = TRUE]
            ELSE [imp EXCEPT !.pc = "none"]
  /\ UNCHANGED <<text, scan, copy, ver, seenInterrupt>>

-----------------------------------------------------------------------------
(* .clone and .dump.  Row k of table t has the number of the transaction   *)
(* it was last written by; the other process writes all of them at once.   *)

Tables == 1..NumTables
Row(t, k) == [t |-> t, k |-> k, v |-> ver]

(* bad: the places that cannot be read, [t, k] a row and [t, 0] the entry  *)
(* of the table in the schema; keyed: the rows are told apart by a key;    *)
(* rowid: the tables can be read backwards.                                *)
NoScan == [pc |-> "none", kind |-> "none", bad |-> {}, keyed |-> FALSE, rowid |-> TRUE, t |-> 0, k |-> 0, fwd |-> TRUE,
           outer |-> TRUE, kinds |-> [t \in Tables |-> "table"], lock |-> FALSE, hit |-> FALSE, out |-> <<>>, tables |-> {},
           nErr |-> 0, end |-> "", cut |-> FALSE]

Scan(c, kinds, bad, keyed, rowid) ==
  /\ c = "clone" => kinds = NoScan.kinds
  /\ cmd' = c
  /\ scan' = [NoScan EXCEPT !.pc = "schema", !.kind = c, !.bad = bad, !.keyed = keyed, !.rowid = rowid, !.kinds = kinds]
  /\ UNCHANGED <<text, imp, copy, ver, seenInterrupt>>

(* The schema is read forward and, after an error, once more backward: by  *)
(* .clone after any error, with no read transaction between the two; by    *)
(* .dump, which holds a savepoint, when the database is corrupt.           *)
Backward == [scan EXCEPT !.outer = FALSE, !.t = NumTables + 1, !.hit = FALSE]
SchemaEnd == [scan EXCEPT !.pc = "end", !.lock = cmd = "dump", !.hit = FALSE]
tryToCloneSchema == IF scan.outer THEN [Backward EXCEPT !.lock = FALSE] ELSE SchemaEnd
run_schema_dump_query(corrupt) == IF scan.outer /\ corrupt THEN [Backward EXCEPT !.lock = TRUE] ELSE SchemaEnd
Reread(corrupt) == IF cmd = "clone" THEN tryToCloneSchema ELSE run_schema_dump_query(corrupt)

NextTable == IF scan.outer THEN scan.t + 1 ELSE scan.t - 1

(* The rows of the table are next; .dump leaves out SQLite's own tables,   *)
(* writes a virtual one as a row of the schema, and asks for the columns   *)
(* of any other when it has written how the table is made.                 *)
tryToCloneData(t) == [scan EXCEPT !.t = t, !.tables = @ \cup {t}, !.lock = TRUE, !.pc = "rows", !.fwd = TRUE, !.k = 0]
dump_callback(t) ==
  CASE scan.kinds[t] = "internal" -> [scan EXCEPT !.t = t, !.lock = TRUE]
    [] scan.kinds[t] = "virtual"  -> [scan EXCEPT !.t = t, !.lock = TRUE, !.tables = @ \cup {t}]
    [] scan.kinds[t] = "table"    -> [tryToCloneData(t) EXCEPT !.pc = "columns"]

SchemaStep ==
  /\ scan.pc = "schema" /\ cmd \in {"clone", "dump"}
  /\ scan' = IF scan.hit THEN Reread(FALSE)
             ELSE IF NextTable \notin Tables THEN SchemaEnd
             ELSE IF [t |-> NextTable, k |-> 0] \in scan.bad THEN Reread(TRUE)
             ELSE IF cmd = "clone" THEN tryToCloneData(NextTable) ELSE dump_callback(NextTable)
  /\ UNCHANGED <<cmd, text, imp, copy, ver, seenInterrupt>>

(* PRAGMA table_info: the SELECT for the rows is made of it.               *)
DumpColumns ==
  /\ scan.pc = "columns" /\ cmd = "dump"
  /\ scan' = [scan EXCEPT !.pc = "rows"]
  /\ UNCHANGED <<cmd, text, imp, copy, ver, seenInterrupt>>

(* The rows of a table: what INSERT OR IGNORE adds to the clone, or what   *)
(* is printed.                                                             *)
Written(r) == IF cmd = "clone" /\ scan.keyed /\ \E x \in Range(scan.out) : x.t = r.t /\ x.k = r.k
              THEN scan.out ELSE Append(scan.out, r)

NextRow == IF scan.fwd THEN scan.k + 1 ELSE scan.k - 1
TableDone == [scan EXCEPT !.pc = "schema"]

(* Backward is by rowid.  Of a table that has none .dump takes the query   *)
(* it cannot prepare for an error of its own, .clone gives a warning.      *)
RowError ==
  IF ~scan.fwd THEN TableDone
  ELSE IF scan.rowid THEN [scan EXCEPT !.fwd = FALSE, !.k = NumRows + 1]
  ELSE [TableDone EXCEPT !.nErr = IF cmd = "dump" THEN @ + 1 ELSE @]

RowStep ==
  /\ scan.pc = "rows" /\ cmd \in {"clone", "dump"}
  /\ scan' = IF NextRow \notin 1..NumRows THEN TableDone
             ELSE IF [t |-> scan.t, k |-> NextRow] \in scan.bad THEN RowError
             ELSE [scan EXCEPT !.k = NextRow, !.out = Written(Row(scan.t, NextRow))]
  /\ UNCHANGED <<cmd, text, imp, copy, ver, seenInterrupt>>

(* Ctrl-C: the statement that runs gives up, and so does every other until *)
(* none is active.  A table's rows are given up in both directions; the    *)
(* dump counts the error of the rows, and not that of the schema or of the *)
(* columns, after which dump_callback ends the reading of the schema.      *)
(* A faulty variant of Interrupted: the error is not counted.              *)
InterruptedUncounted == [scan EXCEPT !.pc = "schema", !.hit = TRUE, !.cut = TRUE]

Interrupted ==
  [scan EXCEPT !.pc = "schema", !.hit = TRUE, !.cut = TRUE,
               !.nErr = IF cmd = "dump" /\ scan.pc = "rows" THEN @ + 1 ELSE @]

ScanInterrupt ==
  /\ scan.pc \in {"schema", "columns", "rows"} /\ cmd \in {"clone", "dump"}
  /\ scan.lock /\ ~scan.hit /\ seenInterrupt < MaxInterrupts /\ seenInterrupt < 2
  /\ seenInterrupt' = seenInterrupt + 1
  /\ scan' = Interrupted
  /\ UNCHANGED <<cmd, text, imp, copy, ver>>

(* COMMIT of the clone; COMMIT or ROLLBACK as the last line of the dump.   *)
ScanEnd ==
  /\ scan.pc = "end" /\ cmd \in {"clone", "dump"}
  /\ cmd' = "done"
  /\ scan' = [scan EXCEPT !.pc = "none", !.lock = FALSE,
                          !.end = IF scan.nErr > 0 THEN "ROLLBACK" ELSE "COMMIT"]
  /\ UNCHANGED <<text, imp, copy, ver, seenInterrupt>>

-----------------------------------------------------------------------------
(* .backup and .restore.  A step copies a hundred pages, starts over when  *)
(* the source was written since the last one, and gives the target its new *)
(* content when it was the last; finish gives the old content back.        *)

NoCopy == [at |-> 0, seen |-> 0, nTimeout |-> 0, target |-> "old", rc |-> 0]

Copy(c) ==
  /\ cmd' = c
  /\ copy' = [NoCopy EXCEPT !.seen = ver]
  /\ UNCHANGED <<text, imp, scan, ver, seenInterrupt>>

(* A faulty variant of Busy: .restore tries again without end.             *)
BusyAgain == IF cmd = "restore" THEN UNCHANGED cmd /\ copy' = [copy EXCEPT !.nTimeout = (@ + 1) % 4]
             ELSE cmd' = "done" /\ copy' = [copy EXCEPT !.rc = 1]

(* .restore tries three times more in all, .backup not once.               *)
Busy ==
  IF cmd = "restore" /\ copy.nTimeout < 3
  THEN UNCHANGED cmd /\ copy' = [copy EXCEPT !.nTimeout = @ + 1]
  ELSE cmd' = "done" /\ copy' = [copy EXCEPT !.rc = 1]

Step ==
  LET at == (IF ver = copy.seen THEN copy.at ELSE 0) + 1
      more == [copy EXCEPT !.at = at, !.seen = ver] IN
  IF at = NumPages THEN cmd' = "done" /\ copy' = [more EXCEPT !.target = "copy"]
  ELSE UNCHANGED cmd /\ copy' = more

CopyStep ==
  /\ cmd \in {"backup", "restore"}
  /\ \E r \in {"ok", "busy", "error"} :
       CASE r = "ok"    -> Step
         [] r = "busy"  -> Busy
         [] r = "error" -> cmd' = "done" /\ copy' = [copy EXCEPT !.rc = 1]
  /\ UNCHANGED <<text, imp, scan, ver, seenInterrupt>>

-----------------------------------------------------------------------------
(* The user and the other process.                                         *)

Type(c) ==
  /\ Len(text) < MaxText
  /\ text' = Append(text, c)
  /\ UNCHANGED <<cmd, imp, scan, copy, ver, seenInterrupt>>

(* interrupt_handler, with no statement running: the third is the last.    *)
interrupt_handler ==
  /\ cmd = "import" /\ seenInterrupt < MaxInterrupts
  /\ seenInterrupt' = seenInterrupt + 1
  /\ cmd' = IF seenInterrupt + 1 > 2 THEN "killed" ELSE cmd
  /\ imp' = IF cmd' = "killed" THEN [imp EXCEPT !.rows = imp.kept, !.auto = TRUE] ELSE imp
  /\ UNCHANGED <<text, scan, copy, ver>>

(* The other process commits unless a read transaction is open.            *)
Write ==
  /\ cmd \in {"clone", "dump", "backup", "restore"} /\ ver < MaxWrites
  /\ ~scan.lock
  /\ ver' = ver + 1
  /\ UNCHANGED <<cmd, text, imp, scan, copy, seenInterrupt>>

Bads == {b \in SUBSET [t : Tables, k : 0..NumRows] : Cardinality(b) <= 2}

Init ==
  /\ cmd = "none" /\ text = <<>> /\ ver = 0 /\ seenInterrupt = 0
  /\ imp = NoImport /\ scan = NoScan /\ copy = NoCopy

Command == ImportOpen \/ ImportField \/ ImportRow \/ ImportEnd \/ SchemaStep \/ DumpColumns \/ RowStep \/ ScanEnd \/ CopyStep

Idle == cmd = "none" /\ text = <<>>

Next ==
  \/ cmd = "none" /\ \E c \in Alphabet : Type(c)
  \/ Idle /\ \E s \in Sources, cols \in 0..3, unique, auto \in BOOLEAN : Import(s, cols, unique, auto)
  \/ Idle /\ \E c \in {"clone", "dump"}, kinds \in Kinds, bad \in Bads, keyed, rowid \in BOOLEAN :
               Scan(c, kinds, bad, keyed, rowid)
  \/ Idle /\ \E c \in {"backup", "restore"} : Copy(c)
  \/ Command
  \/ ImportInterrupted
  \/ ScanInterrupt
  \/ interrupt_handler
  \/ Write

(* The shell has one thread: a command that can go on does.                *)
Spec == Init /\ [][Next]_dataVars /\ WF_dataVars(Command)

-----------------------------------------------------------------------------
(* How what is written is read: an SQL literal or name in quotes q, and    *)
(* the entities of HTML.                                                   *)
RECURSIVE Undoubled(_, _)
Undoubled(q, z) == IF z = <<>> THEN <<>>
                   ELSE IF z[1] # q THEN <<z[1]>> \o Undoubled(q, Tail(z))
                   ELSE IF Len(z) > 1 /\ z[2] = q THEN <<q>> \o Undoubled(q, Drop(z, 2))
                   ELSE <<EOF>>
IsQuoted(q, z) == Len(z) > 1 /\ z[1] = q /\ Last(z) = q
ReadsAs(q, z, t) == IsQuoted(q, z) /\ Undoubled(q, SubSeq(z, 2, Len(z) - 1)) = t

RECURSIVE Shown(_)
Shown(z) == IF z = <<>> THEN <<>>
            ELSE IF z[1] # "&" THEN <<z[1]>> \o Shown(Tail(z))
            ELSE LET c == CHOOSE c \in {"<", "&", ">", DQ, SQ} : Starts(z, HtmlChar(c))
                 IN <<c>> \o Shown(Drop(z, Len(HtmlChar(c))))

(* A row of the text, a name and NULL in the modes that are read by        *)
(* something: each cell is read back, and columns stay where they are.     *)
Names == <<<<"a">>, <<"b", "x", "b", "x", "b", "x">>, <<"n">>>>
RowOf(z) == <<TextOf(z), TextOf(<<"b">>), NoValue>>
Under(m, colSeparator, rowSeparator) ==
  [mode |-> m, showHeader |-> FALSE, nullValue |-> <<"n", "x">>, colWidth |-> <<>>, zDestTable |-> <<"x">>,
   colSeparator |-> colSeparator, rowSeparator |-> rowSeparator]
Others == <<NumberOf(<<"7">>), Blob(<<10, 255>>)>>
Cells(p, z) == Values(p, RowOf(z))
FieldsOf(m, in) == LET fields == Read(m, in) IN [k \in DOMAIN fields |-> fields[k].z]

(* The names of an SQL text, and past its literals.                        *)
RECURSIVE Identifiers(_)
Identifiers(z) ==
  IF z = <<>> THEN <<>>
  ELSE IF z[1] \notin {SQ, DQ} THEN Identifiers(Tail(z))
  ELSE LET n == CHOOSE n \in DOMAIN z : /\ IsQuoted(z[1], SubSeq(z, 1, n)) /\ EOF \notin Range(Undoubled(z[1], SubSeq(z, 2, n - 1)))
                                        /\ (n = Len(z) \/ z[n + 1] # z[1])
       IN  (IF z[1] = DQ THEN <<Undoubled(DQ, SubSeq(z, 2, n - 1))>> ELSE <<>>) \o Identifiers(Drop(z, n))

RowsReadBack ==
  LET row == RowOf(text)
      tcl == Under("tcl", <<" ">>, <<LF>>)
      csv == Under("csv", <<ColSep>>, <<CR, LF>>)
      ascii == Under("ascii", <<ColSep>>, <<RowSep>>)
      html == Under("html", <<>>, <<LF>>)
      line == Under("line", <<>>, <<LF>>)
      column == Under("column", <<>>, <<LF>>)
      semi == Under("semi", <<>>, <<LF>>)
      w == ActualWidth(column, Names, row)
  IN
  /\ Arguments(TclRow(tcl, 1, Names, row)) = Cells(tcl, text)
  /\ FieldsOf("csv", CsvRow([csv EXCEPT !.showHeader = TRUE], 0, Names, row)) = Names \o Cells(csv, text)
  /\ Range(text) \cap {ColSep, RowSep} = {} => FieldsOf("ascii", AsciiRow(ascii, 1, Names, row)) = Cells(ascii, text)
  /\ Len(SelectSeq(HtmlRow(html, 1, Names, row), LAMBDA c : c = "<")) = 2 + 2 * Len(row)
  /\ sqlite3_complete(InsertRow(tcl, 1, Names, row \o Others))
  /\ ~sqlite3_complete(Front(Front(InsertRow(tcl, 1, Names, row \o Others))))
  /\ line_is_complete(Append(text, LF)) => sqlite3_complete(DumpLine(<<text>>))
  /\ sqlite3_complete(DumpLine(<<Insert \o appendText(<<>>, text, DQ) \o <<"VALUES", "(">> \o Literal(row[1]),
                                 Literal(row[2]) \o <<")">>>>))
  /\ Identifiers(dump_select(text, <<text, <<"a">>>>)) = <<text, <<"a">>, text>>
  /\ line_is_complete(text) => sqlite3_complete(ListRow(semi, 1, Names, <<TextOf(text)>>))
  /\ Starts(Drop(LineRow(line, 0, Names, row), 9), text)
  /\ Starts(ColumnRow(column, 1, w, Names, row), text)
  /\ \A z \in {<<>>, text \o text} :
       Len(ColumnRow(column, 1, w, Names, RowOf(z))) = Len(ColumnRow(column, 1, w, Names, row))

(* What the shell writes is read back as what it was: the strings of .show *)
(* and .mode tcl by the shell's own arguments, the literals of .mode       *)
(* insert and of .dump and the names of both by SQL, and the cells of      *)
(* .mode html by HTML (output_c_string, output_quoted_string, appendText,  *)
(* set_table_name, output_html_string); and so are whole rows, each a      *)
(* statement of its own in .mode insert (shell_callback).                  *)
TextsReadBack ==
  /\ Arguments(output_c_string(text)) = <<text>>
  /\ ReadsAs(SQ, output_quoted_string(text), text)
  /\ ReadsAs(DQ, appendText(<<>>, text, DQ), text)
  /\ ReadsAs(SQ, appendText(<<>>, appendText(<<>>, text, DQ), SQ), appendText(<<>>, text, DQ))
  /\ text # <<>> => set_table_name(text) = text \/ ReadsAs(SQ, set_table_name(text), text)
  /\ Shown(output_html_string(text)) = text
  /\ cmd = "none" => RowsReadBack

(* The records of the file in the columns of the table, without the line   *)
(* the table was made of, and how many of them become rows.                *)
Fitted(r) == [k \in 1..imp.cols |-> IF k <= Len(r) THEN r[k] ELSE Null]
Records == [k \in DOMAIN imp.source.rows |-> Fitted(imp.source.rows[k])]
Due == IF imp.made THEN Tail(Records) ELSE Records
Rows(rs) == FoldLeft(Inserted, <<>>, rs)
CutRows(r) == {[k \in DOMAIN r |-> IF k <= i THEN r[k] ELSE Null] : i \in DOMAIN r}

(* .import makes the rows of the records, in their order: those that came  *)
(* before Ctrl-C, the last of them perhaps cut short, or all.  A record    *)
(* whose first field is empty is excluded in ascii mode: it is taken for   *)
(* the end of the file, and what follows it in the line may insert the     *)
(* record before it again (do_meta_command, .import).                      *)
ImportKeepsRecords ==
  imp.pc # "open" /\ imp.cols > 0 /\ cmd # "killed"
  /\ (imp.source.mode = "ascii" => \A k \in DOMAIN Due : Due[k][1] # <<>>) =>
    /\ \E n \in 0..Len(Due) :
         \/ imp.rows = Rows(SubSeq(Due, 1, n))
         \/ /\ seenInterrupt > 0 /\ n < Len(Due)
            /\ \E r \in CutRows(Due[n + 1]) : imp.rows = Rows(Append(SubSeq(Due, 1, n), r))
    /\ cmd = "done" /\ seenInterrupt = 0 => imp.rows = Rows(Due)

(* .import leaves a transaction of the user's open, with nothing of it     *)
(* committed, and opens none that it does not end; or else SQLite has      *)
(* rolled back all of it on Ctrl-C.                                        *)
ImportLeavesTransaction ==
  /\ cmd = "import" => imp.kept = <<>>
  /\ cmd = "done" => \/ imp.auto = imp.was /\ imp.kept = IF imp.was THEN imp.rows ELSE <<>>
                     \/ imp.auto /\ imp.rows = <<>> /\ imp.kept = <<>> /\ seenInterrupt > 0

(* What can be read of a database: of the schema and of each table, what   *)
(* comes before the first place that is damaged, and what comes after the  *)
(* last when it is read backward as well.                                  *)
Reached(places, n, back) ==
  {k \in 1..n : (\A b \in places : k < b) \/ (back /\ \A b \in places : k > b)}
ReachedTables == {t \in Reached({b.t : b \in {x \in scan.bad : x.k = 0}}, NumTables, TRUE) : scan.kinds[t] # "internal"}
ReachedRows(t) == IF scan.kinds[t] # "table" THEN {} ELSE Reached({b.k : b \in {x \in scan.bad : x.t = t /\ x.k > 0}}, NumRows, scan.rowid)

(* .clone and .dump have every row that can be read, and each only once.   *)
(* After Ctrl-C a dump that ends with COMMIT may lack tables, and all rows *)
(* of the one it was about to read (its PRAGMA is not counted as an error),*)
(* but never some rows of a table; a clone lacks rows, and has some twice  *)
(* unless they have a key: the schema is read once more, backward, and     *)
(* every table in it again (tryToClone, tryToCloneData, dump_callback).  A *)
(* dump leaves SQLite's own tables out and has no rows of virtual ones.    *)
(* And what it has is of one moment, whatever another process commits in   *)
(* between, as is what a clone has whose schema was read in one go: the    *)
(* dump has its savepoint, the clone the query it reads the schema with.   *)
RowsOf(t) == {r.k : r \in {x \in Range(scan.out) : x.t = t}}
CopyIsWhole ==
  scan.end = "COMMIT" =>
    /\ scan.kind = "dump" \/ ~scan.cut =>
         /\ ~scan.cut => scan.tables = ReachedTables
         /\ \A t \in scan.tables :
              RowsOf(t) = ReachedRows(t) \/ (scan.cut /\ t = scan.t /\ RowsOf(t) = {})
    /\ scan.kind = "dump" \/ ~scan.cut \/ scan.keyed =>
         \A i, j \in DOMAIN scan.out :
           scan.out[i].t = scan.out[j].t /\ scan.out[i].k = scan.out[j].k => i = j
    /\ scan.kind = "dump" \/ scan.outer => \A r, q \in Range(scan.out) : r.v = q.v

(* Every command comes to its end, under a bounded number of foreign       *)
(* transactions: .restore gives up on a source that stays busy.            *)
CommandEnds == cmd # "none" ~> cmd \in {"done", "killed"}
=============================================================================
