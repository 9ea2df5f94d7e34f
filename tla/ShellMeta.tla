----------------------------- MODULE ShellMeta -----------------------------
(***************************************************************************)
(* The session of the database shell (ShellState of progs/shell.c), the    *)
(* SQL it runs and its dot-commands, one operator for each command or kind *)
(* of command: the ways a session may be left when the command returns.    *)
(*                                                                         *)
(* A line is a sequence: of the characters of its SQL, or of a dot and the *)
(* arguments of a command, the command's name in full.  A statement is "s" *)
(* (it has rows), "u" (it has none) or an error.                           *)
(***************************************************************************)
EXTENDS ShellLines

CONSTANT Unopenable  \* the names no file can be opened or created at

-----------------------------------------------------------------------------
(* The session.                                                            *)

(* What a FILE pointer or a connection is: none, a standard stream, or one *)
(* of those that are open, by its number.                                  *)
Null == 0
stdout == 1
stderr == 2

Unsaved == [valid |-> FALSE, mode |-> "list", headers |-> FALSE, colWidth |-> <<>>]

(* Of the streams: how they were opened, and the units of input that wrote *)
(* to them.  "on" are the switches that are on.                            *)
main_init ==
  [db |-> Null, globalDb |-> Null, conns |-> <<>>, file |-> "", saved |-> Null, savedFile |-> "",
   mode |-> "list", colWidth |-> <<>>, colSeparator |-> <<"|">>, rowSeparator |-> <<LF>>, nullValue |-> "",
   zDestTable |-> <<>>, normalMode |-> Unsaved,
   out |-> stdout, outfile |-> "", outCount |-> 0, pLog |-> Null, traceOut |-> Null, streams |-> <<>>,
   on |-> {}, seenInterrupt |-> 0, unit |-> 0]

(* What a command returns: "exit" by way of meta_command_exit, "return" at *)
(* once; it may also end the process, or have more to do.                  *)
Result(s, rc, by) == [s |-> s, rc |-> rc, by |-> by]
Ok(s) == {Result(s, 0, "exit")}
Fails(s) == {Result(s, 1, "exit")}
Returns(s, rc) == {Result(s, rc, "return")}
Dies(s) == {Result(s, 1, "process")}
Either(s) == Ok(s) \cup Fails(s)

Unused(S) == CHOOSE k \in 3..(3 + Cardinality(S)) : k \notin S
More(f, k, v) == [x \in DOMAIN f \cup {k} |-> IF x = k THEN v ELSE f[x]]
Less(f, k) == Restrict(f, DOMAIN f \ {k})

-----------------------------------------------------------------------------
(* Streams.                                                                *)

fclose(s, f) == [s EXCEPT !.streams = Less(@, f)]
fopen(s, how) == LET f == Unused(DOMAIN s.streams) IN
                 [s |-> [s EXCEPT !.streams = More(@, f, [how |-> how, units |-> {}])], f |-> f]
output_file_close(s, f) == IF f > stderr THEN fclose(s, f) ELSE s
output_file_open(s, zFile) ==
  CASE zFile = "stdout" -> [s |-> s, f |-> stdout]
    [] zFile = "stderr" -> [s |-> s, f |-> stderr]
    [] zFile = "off" \/ zFile \in Unopenable -> [s |-> s, f |-> Null]
    [] OTHER -> fopen(s, "file")

(* Pipes have a name of their own; pclose and fclose do not differ here.   *)
output_reset(s) == [output_file_close(s, s.out) EXCEPT !.outfile = "", !.out = stdout]

Wrote(s) == IF s.out > stderr /\ s.unit > 0 THEN [s EXCEPT !.streams[s.out].units = @ \cup {s.unit}] ELSE s

-----------------------------------------------------------------------------
(* The database and the SQL it runs.                                       *)

(* sqlite3_open leaves a handle that is in error, or none for want of      *)
(* memory, when it fails.                                                  *)
sqlite3_open(zFile) == IF zFile \in Unopenable THEN {"error", "none"} ELSE {"ok"}

(* One that is not open yet is opened, and Ctrl-C interrupts it from now   *)
(* on, whether or not it is of use; ok tells that it is.                   *)
open_db(s) ==
  IF s.db # Null THEN {[s |-> s, ok |-> TRUE]}
  ELSE {LET c == Unused(DOMAIN s.conns \cup {s.globalDb}) IN
        IF how = "none" THEN [s |-> [s EXCEPT !.globalDb = Null], ok |-> FALSE]
        ELSE [s |-> [s EXCEPT !.db = c, !.globalDb = c, !.conns = More(@, c, [usable |-> how = "ok", trace |-> Null])],
              ok |-> how = "ok"]
        : how \in sqlite3_open(s.file)}

(* What a command does with a database that must be open.                  *)
WithDb(s, Command(_)) == UNION {IF r.ok THEN Command(r.s) ELSE Dies(r.s) : r \in open_db(s)}

(* The words of an SQL text: without white space and comments, a literal   *)
(* as one word.                                                            *)
Words[z \in Texts] ==
  IF z = <<>> THEN <<>>
  ELSE IF z[1] \in Spaces THEN Words[Tail(z)]
  ELSE IF Starts(z, <<"/", "*">>) THEN IF Ends(z) = {} THEN <<>> ELSE Words[Drop(z, Min(Ends(z)))]
  ELSE IF Starts(z, <<"-", "-">>) THEN Words[From(z, {LF})]
  ELSE IF z[1] \in {SQ, DQ} THEN LET w == Until(Tail(z), {z[1]}) IN <<w>> \o Words[Drop(z, Len(w) + 2)]
  ELSE <<<<z[1]>>>> \o Words[Tail(z)]

Statements[w \in Seq(Texts)] ==
  LET i == SelectInSeq(w, LAMBDA x : x = <<";">>) IN
  IF i = 0 THEN IF w = <<>> THEN <<>> ELSE <<w>>
  ELSE (IF i = 1 THEN <<>> ELSE <<SubSeq(w, 1, i - 1)>>) \o Statements[Drop(w, i)]

Rows == <<<<"s">>>>
NoRows == <<<<"u">>>>

(* Statement after statement up to the first that fails: of those that     *)
(* Ctrl-C interrupts, hit is the first (0 for none).                       *)
Run(s, zSql) == SelectInSeq(Statements[Words[zSql]], LAMBDA z : z \notin {Rows, NoRows} \/ ~s.conns[s.db].usable)

(* What -stats adds to each statement is about SQLite's memory.            *)
display_stats(s) == Wrote(s)

shell_exec(s, zSql, hit) ==
  LET z == Statements[Words[zSql]]
      bad == Run(s, zSql)
      rc == IF hit > 0 \/ bad > 0 THEN 1 ELSE 0
      ran == IF hit > 0 THEN hit ELSE IF bad > 0 THEN bad - 1 ELSE Len(z)
      out == \E k \in 1..ran : z[k] = Rows \/ s.on \cap {"echo", "eqp"} # {}
      t == IF out THEN Wrote(s) ELSE s
  IN  [s |-> IF ran > 0 /\ "stats" \in s.on THEN display_stats(t) ELSE t, rc |-> rc]

(* The statements Ctrl-C may interrupt, when it has this connection.       *)
Hits(s, zSql) ==
  IF s.globalDb # s.db THEN {0}
  ELSE 0..(LET bad == Run(s, zSql) IN IF bad > 0 THEN bad - 1 ELSE Len(Statements[Words[zSql]]))

-----------------------------------------------------------------------------
(* Settings.                                                               *)

Number == "0" :> 0 @@ "1" :> 1 @@ "2" :> 2 @@ "3" :> 3
integerValue(z) == IF z \in DOMAIN Number THEN Number[z] ELSE 0
booleanValue(z) == IF z \in {"on", "yes"} THEN 1 ELSE integerValue(z)

Turn(s, a) == [s EXCEPT !.on = IF booleanValue(a[2]) # 0 THEN @ \cup {a[1]} ELSE @ \ {a[1]}]
Switch(s, a) == IF Len(a) = 2 THEN Ok(Turn(s, a)) ELSE Fails(s)

(* A separator: two characters when it is "ab".                            *)
Text(z) == IF z = "" THEN <<>> ELSE IF z = "ab" THEN <<"a", "b">> ELSE <<z>>

Mode(s, m) == [s EXCEPT !.mode = m]
ModeCol(s, m, c) == [s EXCEPT !.mode = m, !.colSeparator = c]
ModeBoth(s, m, c, r) == [s EXCEPT !.mode = m, !.colSeparator = c, !.rowSeparator = r]

mode(s, a) ==
  LET m == IF Len(a) >= 2 THEN a[2] ELSE "" IN
  CASE m \in {"line", "column", "list", "html"} -> Ok(Mode(s, m))
    [] m = "tcl" -> Ok(ModeCol(s, m, <<" ">>))
    [] m = "tabs" -> Ok(ModeCol(s, "list", <<"\t">>))
    [] m = "csv" -> Ok(ModeBoth(s, m, <<",">>, <<CR, LF>>))
    [] m = "ascii" -> Ok(ModeBoth(s, m, <<"unit">>, <<"record">>))
    [] m = "insert" -> Ok([s EXCEPT !.mode = m, !.zDestTable = <<IF Len(a) >= 3 THEN a[3] ELSE "table">>])
    [] OTHER -> Fails(s)

ExplainWidth == <<4, 13, 4, 4, 4, 13, 2, 13>>

(* A faulty variant of Save: what is there is saved again.                 *)
SaveAgain(s) == [s EXCEPT !.normalMode = [valid |-> TRUE, mode |-> s.mode, headers |-> "headers" \in s.on, colWidth |-> s.colWidth]]

Save(s) ==
  IF s.normalMode.valid THEN s
  ELSE [s EXCEPT !.normalMode = [valid |-> TRUE, mode |-> s.mode, headers |-> "headers" \in s.on, colWidth |-> s.colWidth]]

Headers(s, yes) == IF yes THEN s.on \cup {"headers"} ELSE s.on \ {"headers"}

explain(s, a) ==
  LET val == IF Len(a) >= 2 THEN booleanValue(a[2]) ELSE 1
      n == s.normalMode
  IN  Ok(IF val = 1 THEN [Save(s) EXCEPT !.mode = "explain", !.on = Headers(s, TRUE), !.colWidth = ExplainWidth]
         ELSE IF n.valid
         THEN [s EXCEPT !.normalMode.valid = FALSE, !.mode = n.mode, !.on = Headers(s, n.headers), !.colWidth = n.colWidth]
         ELSE s)

nullvalue(s, a) == IF Len(a) = 2 THEN Ok([s EXCEPT !.nullValue = a[2]]) ELSE Fails(s)

(* The wrong number of arguments is an error that sets them all the same.  *)
separator(s, a) ==
  LET t == [s EXCEPT !.colSeparator = IF Len(a) >= 2 THEN Text(a[2]) ELSE @,
                     !.rowSeparator = IF Len(a) >= 3 THEN Text(a[3]) ELSE @]
  IN  IF Len(a) \in 2..3 THEN Ok(t) ELSE Fails(t)

width(s, a) ==
  LET n == IF Len(a) > Len(s.colWidth) THEN Len(a) - 1 ELSE Len(s.colWidth) IN
  Ok([s EXCEPT !.colWidth = [k \in 1..n |-> IF k < Len(a) THEN integerValue(a[k + 1]) ELSE @[k]]])

-----------------------------------------------------------------------------
(* Where the shell writes.                                                 *)

log(s, a) ==
  IF Len(a) # 2 THEN Fails(s)
  ELSE LET o == output_file_open(output_file_close(s, s.pLog), a[2]) IN Ok([o.s EXCEPT !.pLog = o.f])

(* The connection traces to the file from now on; the file of another that *)
(* was traced is closed with it.                                           *)
trace(s, a) ==
  WithDb(s, LAMBDA t :
    IF Len(a) # 2 THEN Fails(t)
    ELSE LET o == output_file_open(output_file_close(t, t.traceOut), a[2]) IN
         Ok([o.s EXCEPT !.traceOut = o.f, !.conns[t.db].trace = o.f]))

(* .output and .once.  "off" is an error that leaves standard output.      *)
Redirect(s, zFile) ==
  LET o == IF zFile = "|c" THEN fopen(s, "pipe") ELSE output_file_open(s, zFile) IN
  IF o.f = Null THEN Fails([o.s EXCEPT !.out = stdout]) ELSE Ok([o.s EXCEPT !.out = o.f, !.outfile = zFile])

(* A faulty variant of once: the count starts at the commands that follow. *)
onceMore(s, a) ==
  IF Len(a) # 2 THEN Fails(s) ELSE Redirect(output_reset([s EXCEPT !.outCount = 3]), a[2])

once(s, a) ==
  IF Len(a) # 2 THEN Fails(s) ELSE Redirect(output_reset([s EXCEPT !.outCount = 2]), a[2])
output(s, a) ==
  IF Len(a) > 2 THEN Fails(s)
  ELSE Redirect(output_reset([s EXCEPT !.outCount = 0]), IF Len(a) = 2 THEN a[2] ELSE "stdout")

meta_command_exit(s) ==
  IF s.outCount = 0 THEN s
  ELSE LET t == [s EXCEPT !.outCount = @ - 1] IN IF t.outCount = 0 THEN output_reset(t) ELSE t

-----------------------------------------------------------------------------
(* The other commands.                                                     *)

(* What .show, .help, .print and .version write is about the shell.        *)
show(s, a) == IF Len(a) # 1 THEN Fails(s) ELSE Ok(Wrote(s))
print(s, a) == Ok(Wrote(s))
vfsname(s, a) == Ok(IF s.db # Null THEN Wrote(s) ELSE s)

(* .databases, .indexes, .schema and .fullschema: queries with settings of *)
(* their own, in a copy of the session that nothing of is kept.            *)
Query(s) == IF s.conns[s.db].usable THEN Ok(Wrote(s)) \cup Fails(s) ELSE Fails(s)
databases(s, a) == WithDb(s, Query)
indexes(s, a) == WithDb(s, LAMBDA t : IF Len(a) > 2 THEN Fails(t) ELSE Query(t))
schema(s, a) == WithDb(s, LAMBDA t : IF Len(a) > 2 THEN Fails(t) ELSE Query(t))
fullschema(s, a) == IF Len(a) # 1 THEN Fails(s) ELSE WithDb(s, LAMBDA t : Ok(Wrote(t)) \cup Fails(Wrote(t)))
shell_dbinfo_command(s, a) == WithDb(s, Query)

tables(s, a) == WithDb(s, LAMBDA t : IF t.conns[t.db].usable THEN Ok(Wrote(t)) \cup Returns(t, 1) ELSE Returns(t, 1))
dump(s, a) == WithDb(s, LAMBDA t : IF Len(a) > 2 THEN Fails(t) ELSE Ok(Wrote(t)))

(* The databases that are copied, see ShellData.                           *)
Copied(t) == IF t.conns[t.db].usable THEN Either(t) \cup Returns(t, 1) ELSE Returns(t, 1)
save(s, a) == IF Len(a) = 1 \/ Len(a) > 3 \/ Last(a) \in Unopenable THEN Returns(s, 1) ELSE WithDb(s, Copied)
restore(s, a) ==
  IF Len(a) \notin 2..3 THEN Fails(s) ELSE IF Last(a) \in Unopenable THEN Returns(s, 1) ELSE WithDb(s, Copied)
clone(s, a) == IF Len(a) = 2 THEN Ok(s) ELSE Fails(s)

(* .import: the usage error is none, and Ctrl-C from before is forgotten.  *)
(* A table that is not there is made; one without columns is no error.     *)
(* What became of the last INSERT is what the command returns.             *)
ImportSeparators(s) ==
  IF s.mode = "csv" /\ s.rowSeparator = <<CR, LF>> THEN [s EXCEPT !.rowSeparator = <<LF>>] ELSE s
import(s, a) ==
  IF Len(a) # 3 THEN Ok(s)
  ELSE WithDb([s EXCEPT !.seenInterrupt = 0], LAMBDA t :
         LET i == ImportSeparators(t) IN
         IF Len(t.colSeparator) # 1 \/ Len(t.rowSeparator) = 0 THEN Returns(t, 1)
         ELSE IF Len(i.rowSeparator) > 1 \/ a[2] \in Unopenable \/ ~i.conns[i.db].usable THEN Returns(i, 1)
         ELSE Either(i) \cup Returns(i, 0) \cup Returns(i, 1))

(* A name that is the start of several limits, or of none, is an error.    *)
limits(s, a) ==
  WithDb(s, LAMBDA t : IF Len(a) > 3 \/ (Len(a) > 1 /\ a[2] \in {"l", "x"}) THEN Fails(t) ELSE Ok(t))
load(s, a) == IF Len(a) < 2 THEN Fails(s) ELSE WithDb(s, Either)
timeout(s, a) == WithDb(s, Ok)
testctrl(s, a) == WithDb(s, LAMBDA t : Ok(Wrote(t)) \cup Ok(t))
system(s, a) == IF Len(a) < 2 THEN Fails(s) ELSE Ok(s)

quit(s) == {Result(s, 2, "exit")}
exit(s, a) == IF Len(a) > 1 /\ integerValue(a[2]) # 0 THEN Dies(s) ELSE quit(s)

(* .read goes on with the lines of the file.                               *)
read(s, a) == IF Len(a) # 2 \/ a[2] \in Unopenable THEN Fails(s) ELSE {Result(s, 0, "read")}

(* .open goes on with the connection there was: opened is the first half.  *)
(* A faulty variant of open: the database that was open is closed first.   *)
openLast(s, a) ==
  LET t == [s EXCEPT !.conns = Less(@, s.db), !.db = Null, !.saved = s.db, !.savedFile = s.file,
                     !.file = IF Len(a) >= 2 THEN a[2] ELSE ""]
  IN  {Result(r.s, 0, "open") : r \in open_db(t)}

open(s, a) ==
  LET t == [s EXCEPT !.db = Null, !.saved = s.db, !.savedFile = s.file, !.file = IF Len(a) >= 2 THEN a[2] ELSE ""]
  IN  {Result(r.s, 0, "open") : r \in open_db(t)}

sqlite3_close(s, c) == [s EXCEPT !.conns = Less(@, c)]
opened(s) ==
  [IF s.db # Null THEN sqlite3_close(s, s.saved) ELSE [s EXCEPT !.db = s.saved, !.file = s.savedFile]
   EXCEPT !.saved = Null, !.savedFile = ""]

-----------------------------------------------------------------------------
Switches == {"echo", "eqp", "stats", "scanstats", "headers", "timer", "bail"}

do_meta_command(s, a) ==
  CASE a = <<>> -> Returns(s, 0)
    [] a # <<>> /\ a[1] \in Switches -> Switch(s, a)
    [] OTHER ->
  CASE a[1] = "mode" -> mode(s, a)           [] a[1] = "explain" -> explain(s, a)
    [] a[1] = "nullvalue" -> nullvalue(s, a) [] a[1] = "separator" -> separator(s, a)
    [] a[1] = "width" -> width(s, a)         [] a[1] = "log" -> log(s, a)
    [] a[1] = "trace" -> trace(s, a)         [] a[1] = "once" -> once(s, a)
    [] a[1] = "output" -> output(s, a)       [] a[1] = "show" -> show(s, a)
    [] a[1] \in {"print", "help", "version"} -> print(s, a)
    [] a[1] = "vfsname" -> vfsname(s, a)     [] a[1] = "databases" -> databases(s, a)
    [] a[1] = "indexes" -> indexes(s, a)     [] a[1] = "schema" -> schema(s, a)
    [] a[1] = "fullschema" -> fullschema(s, a)
    [] a[1] = "dbinfo" -> shell_dbinfo_command(s, a)
    [] a[1] = "tables" -> tables(s, a)       [] a[1] = "dump" -> dump(s, a)
    [] a[1] \in {"save", "backup"} -> save(s, a)
    [] a[1] = "restore" -> restore(s, a)     [] a[1] = "clone" -> clone(s, a)
    [] a[1] = "import" -> import(s, a)       [] a[1] = "limits" -> limits(s, a)
    [] a[1] = "load" -> load(s, a)           [] a[1] = "timeout" -> timeout(s, a)
    [] a[1] = "testctrl" /\ Len(a) > 1 -> testctrl(s, a)
    [] a[1] \in {"system", "shell"} -> system(s, a)
    [] a[1] \in {"prompt", "breakpoint"} -> Ok(s)
    [] a[1] = "binary" -> IF Len(a) = 2 THEN Ok(s) ELSE Fails(s)
    [] a[1] = "exit" -> exit(s, a)           [] a[1] = "quit" -> quit(s)
    [] a[1] = "read" -> read(s, a)           [] a[1] = "open" -> open(s, a)
    [] OTHER -> Fails(s)
=============================================================================
