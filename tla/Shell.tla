------------------------------- MODULE Shell -------------------------------
(***************************************************************************)
(* A run of the database shell (progs/shell.c): main reads its arguments   *)
(* twice, the lines of ~/.sqliterc between the two, and then runs what it  *)
(* was given or the lines of standard input; .read reads the lines of a    *)
(* file within.  Ctrl-C is pressed at any time.                            *)
(***************************************************************************)
EXTENDS ShellMeta

CONSTANTS
  Sessions  \* what the user may do: a command line, a sequence of words (each a
            \* sequence itself), and what is typed: a set of lines, and how many

ASSUME SessionsAssumption ==
  \A r \in Sessions : /\ r.argv \in Seq(Texts \ {<<>>})
                      /\ r.menu.max \in Nat /\ r.menu.lines \subseteq Texts

VARIABLES
  pc,           \* where main is: "start", "options", "args", "input", "close" or "done"
  argv,         \* the command line
  argi,         \* the argument that is next
  interactive,  \* stdin_is_interactive
  menu, nLines, \* what is typed in this run, and the lines so far
  s,            \* the session
  opening,      \* .open has opened a database and not yet closed the one before
  frames,       \* the calls of process_input, the innermost last
  nRun,         \* the lines and SQL texts process_input has had run
  before,       \* the settings .explain on was given at
  stop,         \* -bail has been broken off by an error
  since         \* the units that were run from files since Ctrl-C
vars == <<pc, argv, argi, interactive, menu, nLines, s, opening, frames, nRun, before, stop, since>>
fixed == <<argv, menu>>

-----------------------------------------------------------------------------
(* process_input.  zLine is the line that was read and is not processed    *)
(* yet, if there is one.  typed is all the SQL it has read so far, and     *)
(* given what it has had run of it.                                        *)
Input(kind) == [kind |-> kind, zLine |-> {}, zSql |-> <<>>, errCnt |-> 0, quit |-> FALSE,
                typed |-> <<>>, given |-> <<>>]
Top == Last(frames)
Replace(fr) == Append(Front(frames), fr)

(* in==0 and the user is there to see the error.                           *)
AtTerminal(fr) == fr.kind = "tty" /\ interactive
Loops(fr) == ~fr.quit /\ (fr.errCnt = 0 \/ "bail" \notin s.on \/ AtTerminal(fr))

(* A faulty variant of Breaks: Ctrl-C only ends the statement.             *)
BreaksNot(fr) == s.seenInterrupt > 2

Breaks(fr) == s.seenInterrupt > 0 /\ fr.kind # "tty"

one_input_line ==
  /\ frames # <<>> /\ ~opening /\ Loops(Top) /\ Top.zLine = {} /\ nLines < menu.max
  /\ nLines' = nLines + 1
  /\ \E line \in menu.lines :
       IF Breaks(Top) THEN frames' = Replace([Top EXCEPT !.quit = TRUE]) /\ UNCHANGED <<s, since>>
       ELSE /\ frames' = Replace([Top EXCEPT !.zLine = {line}])
            /\ s' = [s EXCEPT !.seenInterrupt = IF Top.kind = "tty" THEN 0 ELSE @]
            /\ since' = IF s'.seenInterrupt = 0 THEN 0 ELSE since
  /\ UNCHANGED <<pc, fixed, argi, interactive, opening, nRun, before, stop>>

EndOfFile ==
  /\ frames # <<>> /\ ~opening /\ Loops(Top) /\ Top.zLine = {}
  /\ frames' = Replace([Top EXCEPT !.quit = TRUE])
  /\ UNCHANGED <<pc, fixed, argi, interactive, nLines, s, opening, nRun, before, stop, since>>

(* Where a dot-command returns to: the input it came from, or main, whose  *)
(* arguments end with one that fails, and whose -cmd do under -bail.       *)
ReturnTo(fs, t, rc) ==
  /\ opening' = FALSE
  /\ s' = t
  /\ IF fs # <<>>
     THEN LET fr == Last(fs) IN
          /\ frames' = Append(Front(fs), [fr EXCEPT !.zLine = {}, !.quit = @ \/ rc = 2,
                                                    !.errCnt = IF rc = 1 THEN @ + 1 ELSE @])
          /\ stop' = (stop \/ (rc = 1 /\ "bail" \in t.on)) /\ ~AtTerminal(fr)
          /\ UNCHANGED pc
     ELSE /\ frames' = fs
          /\ pc' = IF rc # 0 /\ (pc = "args" \/ "bail" \in t.on) THEN "done" ELSE pc
          /\ UNCHANGED stop

Exit(t) == pc' = "done" /\ s' = t /\ frames' = <<>> /\ opening' = FALSE /\ UNCHANGED stop

Command(line) ==
  \E r \in do_meta_command([s EXCEPT !.unit = IF frames = <<>> THEN 0 ELSE nRun + 1], Tail(line)) :
    CASE r.by = "process" -> Exit(r.s)
      [] r.by = "exit" -> ReturnTo(frames, meta_command_exit(r.s), r.rc)
      [] r.by = "return" -> ReturnTo(frames, r.s, r.rc)
      [] r.by = "open" -> opening' = TRUE /\ s' = r.s /\ UNCHANGED <<pc, frames, stop>>
      [] r.by = "read" -> frames' = Append(frames, Input("file")) /\ s' = r.s /\ UNCHANGED <<pc, opening, stop>>

(* The second half of .open.                                               *)
CloseSaved ==
  /\ opening
  /\ ReturnTo(frames, meta_command_exit(opened(s)), 0)
  /\ UNCHANGED <<fixed, argi, interactive, nLines, nRun, before, since>>

(* What a step that runs something adds to what is remembered of the run.  *)
Settings(t) == [mode |-> t.mode, headers |-> "headers" \in t.on, colWidth |-> t.colWidth]
Ran == /\ nRun' = nRun + 1
       /\ since' = IF s'.seenInterrupt = 0 THEN 0
                   ELSE IF s.seenInterrupt > 0 /\ Top.kind # "tty" THEN since + 1 ELSE since
Remembers == before' = IF ~s.normalMode.valid /\ s'.normalMode.valid THEN Settings(s) ELSE before

DotLine ==
  /\ frames # <<>> /\ ~opening
  /\ \E line \in Top.zLine :
       /\ line # <<>> /\ line[1] = "." /\ Top.zSql = <<>>
       /\ Command(line)
  /\ Ran /\ Remembers
  /\ UNCHANGED <<fixed, argi, interactive, nLines>>

BlankLine ==
  /\ frames # <<>> /\ ~opening
  /\ \E line \in Top.zLine : Top.zSql = <<>> /\ _all_whitespace[line]
  /\ frames' = Replace([Top EXCEPT !.zLine = {}])
  /\ UNCHANGED <<pc, fixed, argi, interactive, nLines, s, opening, nRun, before, stop, since>>

(* A faulty variant of Terminated: a terminator is one within a literal.   *)
TerminatedAnywhere(zLine, zSql) == IF line_is_command_terminator(zLine) THEN <<";">> ELSE zLine

Terminated(zLine, zSql) ==
  IF line_is_command_terminator(zLine) /\ line_is_complete(zSql) THEN <<";">> ELSE zLine

Trimmed(z) == From(z, {c \in Range(z) : c \notin Spaces})
Added(zLine, zSql) == IF zSql = <<>> THEN Trimmed(zLine) ELSE <<LF>> \o zLine

(* The call when it has taken the line, with a semicolon for "go" and "/". *)
AsTyped(fr, line) ==
  IF line_is_command_terminator(line) /\ (fr.zSql = <<>> \/ line_is_complete(fr.typed)) THEN <<";">> ELSE line
Taken(fr, line) == [fr EXCEPT !.zLine = {}, !.typed = @ \o <<LF>> \o AsTyped(fr, line)]

(* The file of .once has had its output, when SQL was run.                 *)
GivenUp(t) == IF t.outCount > 0 THEN [output_reset(t) EXCEPT !.outCount = 0] ELSE t

(* What fr runs.                                                           *)
RunSql(fr, zSql) ==
  \E r \in open_db([s EXCEPT !.unit = nRun + 1]) :
    IF ~r.ok THEN Exit(r.s)
    ELSE \E hit \in Hits(r.s, zSql) :
           LET e == shell_exec(r.s, zSql, hit)
               t == GivenUp(e.s)
           IN  /\ hit > 0 => s.seenInterrupt < 2
               /\ ReturnTo(Replace(fr), IF hit > 0 THEN [t EXCEPT !.seenInterrupt = @ + 1] ELSE t, e.rc)

(* SQL that is complete is run, blank text is forgotten, the rest waits.   *)
SqlLine ==
  /\ frames # <<>> /\ ~opening
  /\ \E line \in Top.zLine :
       LET z == Added(Terminated(line, Top.zSql), Top.zSql)
           zSql == Top.zSql \o z
           fr == Taken(Top, line)
       IN
       /\ ~(Top.zSql = <<>> /\ (_all_whitespace[line] \/ line[1] = "."))
       /\ IF line_contains_semicolon(z) /\ sqlite3_complete(zSql)
          THEN RunSql([fr EXCEPT !.zSql = <<>>, !.given = Append(@, zSql)], zSql) /\ Ran
          ELSE /\ frames' = Replace([fr EXCEPT !.zSql = IF _all_whitespace[zSql] THEN <<>> ELSE zSql])
               /\ UNCHANGED <<pc, s, opening, nRun, stop, since>>
  /\ UNCHANGED <<fixed, argi, interactive, nLines, before>>

(* The input is at its end, or the loop was left: what waits is an error.  *)
(* .read returns to where it was given, ~/.sqliterc to main's arguments.   *)
EndInput ==
  /\ frames # <<>> /\ ~opening /\ Top.zLine = {} /\ ~Loops(Top)
  /\ LET rc == IF Top.errCnt > 0 \/ Top.zSql # <<>> THEN 1 ELSE 0 IN
     CASE Top.kind = "rc" ->
            frames' = Front(frames) /\ stop' = FALSE /\ UNCHANGED <<pc, s, opening>>
       [] Top.kind = "file" -> ReturnTo(Front(frames), meta_command_exit(s), rc)
       [] OTHER -> frames' = Front(frames) /\ pc' = "close" /\ stop' = FALSE /\ UNCHANGED <<s, opening>>
  /\ UNCHANGED <<fixed, argi, interactive, nLines, nRun, before, since>>

-----------------------------------------------------------------------------
(* main.                                                                   *)

cmdline_option_values(o) ==
  CASE o \in {"separator", "nullvalue", "newline", "cmd", "init", "mmap", "vfs"} -> 1
    [] o \in {"scratch", "pagecache", "lookaside"} -> 2
    [] OTHER -> 0
Option(i) == Last(argv[i])
IsOption(i) == argv[i][1] = "-"

(* The first pass: the words that are no options and no values of options  *)
(* before them, the last -init, and whether the arguments can be read.     *)
first_pass[i \in Nat] ==
  IF i > Len(argv) THEN [words |-> <<>>, init |-> "", batch |-> FALSE, ok |-> TRUE]
  ELSE LET o == Option(i)
           n == IF IsOption(i) THEN cmdline_option_values(o) ELSE 0
           r == first_pass[i + n + 1]
       IN  IF ~IsOption(i) THEN [r EXCEPT !.words = <<argv[i]>> \o @]
           ELSE IF i + n > Len(argv) \/ (o = "vfs" /\ argv[i + 1][1] \in Unopenable) THEN [r EXCEPT !.ok = FALSE]
           ELSE [r EXCEPT !.init = IF o = "init" /\ @ = "" THEN argv[i + 1][1] ELSE @, !.batch = @ \/ o = "batch"]
First == first_pass[1]
zDbFilename == IF First.words = <<>> THEN ":memory:" ELSE First.words[1][1]
azCmd == IF First.words = <<>> THEN <<>> ELSE Tail(First.words)

(* The home of the user's entry, or of the environment, if there is one.   *)
find_home_dir == {"", "home"}

(* The file named by -init, or else one in the user's home, if it is there.*)
process_sqliterc(sqliterc_override) ==
  UNION {IF zFile = "" \/ zFile \in Unopenable THEN {<<>>} ELSE {<<>>, <<Input("rc")>>}
         : zFile \in IF sqliterc_override = "" THEN find_home_dir ELSE {sqliterc_override}}

(* A database that is there is opened at once, then process_sqliterc.      *)
Start ==
  /\ pc = "start"
  /\ LET t == [s EXCEPT !.file = zDbFilename] IN
     IF ~First.ok THEN Exit(t)
     ELSE \E r \in {[s |-> t, ok |-> TRUE]} \cup (IF First.words = <<>> THEN {} ELSE open_db(t)) :
            IF ~r.ok THEN Exit(r.s)
            ELSE /\ pc' = "options" /\ s' = r.s /\ frames' \in process_sqliterc(First.init)
                 /\ UNCHANGED <<opening, stop>>
  /\ interactive' = (interactive /\ ~First.batch)
  /\ UNCHANGED <<fixed, argi, nLines, nRun, before, since>>

AtOption == pc = "options" /\ frames = <<>> /\ ~opening /\ argi <= Len(argv) /\ IsOption(argi)

Modes == {"html", "list", "line", "column"}
Set(t, o, v) ==
  CASE o \in Modes -> Mode(t, o)
    [] o = "csv" -> ModeCol(t, o, <<",">>)
    [] o = "ascii" -> ModeBoth(t, o, <<"unit">>, <<"record">>)
    [] o = "separator" -> [t EXCEPT !.colSeparator = Text(v)]
    [] o = "newline" -> [t EXCEPT !.rowSeparator = Text(v)]
    [] o = "nullvalue" -> [t EXCEPT !.nullValue = v]
    [] o = "header" -> [t EXCEPT !.on = Headers(t, TRUE)]
    [] o = "noheader" -> [t EXCEPT !.on = Headers(t, FALSE)]
    [] o \in {"echo", "eqp", "stats", "scanstats", "bail"} -> [t EXCEPT !.on = @ \cup {o}]
    [] OTHER -> t
Known == Modes \cup {"csv", "ascii", "separator", "newline", "nullvalue", "header", "noheader", "echo", "eqp", "stats",
                     "scanstats", "bail", "init", "interactive", "batch", "heap", "scratch", "pagecache", "lookaside",
                     "mmap", "vfs", "backslash"}

(* The second pass: a word that is no option is skipped; -heap has a value *)
(* here and none in the first pass, so that the value of an option may be  *)
(* missing here: it ends the program when it is asked for, as -version,    *)
(* -help and what is not known do.                                         *)
AtLast == argi = Len(argv)
Asks == {"separator", "newline", "nullvalue"}

SkipWord ==
  /\ pc = "options" /\ frames = <<>> /\ ~opening /\ argi <= Len(argv) /\ ~IsOption(argi)
  /\ argi' = argi + 1
  /\ UNCHANGED <<pc, fixed, interactive, nLines, s, opening, frames, nRun, before, stop, since>>

SetOption ==
  /\ AtOption
  /\ LET o == Option(argi)
         n == IF o = "heap" THEN 1 ELSE cmdline_option_values(o)
         v == IF n = 1 /\ ~AtLast THEN argv[argi + 1][1] ELSE ""
     IN  /\ o \in Known /\ ~(AtLast /\ o \in Asks)
         /\ s' = Set(s, o, v)
         /\ argi' = argi + n + 1
         /\ interactive' = IF o = "interactive" THEN TRUE ELSE IF o = "batch" THEN FALSE ELSE interactive
  /\ UNCHANGED <<pc, fixed, nLines, opening, frames, nRun, before, stop, since>>

EndingOption ==
  /\ AtOption /\ (Option(argi) \notin Known \cup {"cmd"} \/ (AtLast /\ Option(argi) \in Asks))
  /\ Exit(s)
  /\ UNCHANGED <<fixed, argi, interactive, nLines, nRun, before, since>>

(* A dot-command or SQL that main was given: the ones of -cmd and then,    *)
(* when there are any, the arguments instead of standard input.            *)
Given(z) ==
  /\ IF z[1] = "." THEN Command(z)
     ELSE \E r \in open_db([s EXCEPT !.unit = 0]) :
            IF ~r.ok THEN Exit(r.s)
            ELSE \E hit \in Hits(r.s, z) :
                   LET e == shell_exec(r.s, z, hit) IN
                   /\ hit > 0 => s.seenInterrupt < 2
                   /\ ReturnTo(frames, IF hit > 0 THEN [e.s EXCEPT !.seenInterrupt = @ + 1] ELSE e.s, e.rc)
  /\ Remembers
  /\ since' = IF s'.seenInterrupt = 0 THEN 0 ELSE since

CmdOption ==
  /\ AtOption /\ Option(argi) = "cmd" /\ ~AtLast
  /\ Given(argv[argi + 1])
  /\ argi' = argi + 2
  /\ UNCHANGED <<fixed, interactive, nLines, nRun>>

(* After the options, or a last -cmd: the arguments, or standard input.    *)
EndOptions ==
  /\ pc = "options" /\ frames = <<>> /\ ~opening
  /\ argi > Len(argv) \/ (AtOption /\ AtLast /\ Option(argi) = "cmd")
  /\ argi' = 1
  /\ IF azCmd # <<>> THEN pc' = "args" /\ UNCHANGED frames
     ELSE pc' = "input" /\ frames' = <<Input(IF interactive THEN "tty" ELSE "stdin")>>
  /\ UNCHANGED <<fixed, interactive, nLines, s, opening, nRun, before, stop, since>>

Argument ==
  /\ pc = "args" /\ frames = <<>> /\ ~opening /\ argi <= Len(azCmd)
  /\ Given(azCmd[argi])
  /\ argi' = argi + 1
  /\ UNCHANGED <<fixed, interactive, nLines, nRun>>

Close ==
  /\ pc = "close" \/ (pc = "args" /\ frames = <<>> /\ ~opening /\ argi > Len(azCmd))
  /\ Exit(sqlite3_close([s EXCEPT !.zDestTable = <<>>], s.db))
  /\ UNCHANGED <<fixed, argi, interactive, nLines, nRun, before, since>>

(* The third time in a row is an exit.  What it interrupts is in Hits.     *)
interrupt_handler ==
  /\ pc # "done"
  /\ IF s.seenInterrupt = 2 THEN Exit([s EXCEPT !.seenInterrupt = 3])
     ELSE s' = [s EXCEPT !.seenInterrupt = @ + 1] /\ UNCHANGED <<pc, frames, opening, stop>>
  /\ UNCHANGED <<fixed, argi, interactive, nLines, nRun, before, since>>

-----------------------------------------------------------------------------
Init ==
  /\ pc = "start" /\ argi = 1 /\ interactive \in BOOLEAN
  /\ \E r \in Sessions : argv = r.argv /\ menu = r.menu
  /\ nLines = 0
  /\ s = main_init /\ opening = FALSE /\ frames = <<>>
  /\ nRun = 0 /\ before = Settings(main_init) /\ stop = FALSE /\ since = 0

Next ==
  \/ Start \/ SkipWord \/ SetOption \/ EndingOption \/ CmdOption \/ EndOptions \/ Argument \/ Close
  \/ one_input_line \/ EndOfFile \/ DotLine \/ BlankLine \/ SqlLine \/ EndInput \/ CloseSaved
  \/ interrupt_handler

Spec == Init /\ [][Next]_vars

-----------------------------------------------------------------------------
(* Whatever the user gives in whatever order, and whenever Ctrl-C comes,   *)
(* the session points at what is open and no file or connection is lost:   *)
(* .open has two databases for a while, and Ctrl-C interrupts one that is  *)
(* not closed; .trace closes the file the connection writes to; .once      *)
(* comes back to standard output; the name of the table is there when rows *)
(* are written as INSERTs (.open, .output, .once, .log, .trace, .mode and  *)
(* .explain in do_meta_command, interrupt_handler).                        *)
HandlesOpen ==
  pc # "done" =>
    /\ s.out # Null
    /\ {s.out, s.pLog, s.traceOut} \ {Null, stdout, stderr} = DOMAIN s.streams
    /\ s.out > stderr => s.out \notin {s.pLog, s.traceOut}
    /\ s.pLog > stderr => s.pLog # s.traceOut
    /\ {s.db, s.saved} \ {Null} = DOMAIN s.conns
    /\ s.globalDb \in {Null} \cup DOMAIN s.conns
    /\ \A c \in DOMAIN s.conns : s.conns[c].trace \in {Null, s.traceOut}
    /\ s.mode = "insert" => s.zDestTable # <<>>

(* A file that .once opened has the output of one line or SQL text, "the   *)
(* next SQL command only" of its help, and is closed with it, when it is   *)
(* read by process_input: scripts that end, commands that fail half way    *)
(* and those that return past meta_command_exit included.                  *)
OnceOnce == s.outCount > 0 /\ s.out > stderr => s.streams[s.out].units = {}

(* .explain off brings back the mode, headers and widths there were when   *)
(* explain mode was entered, whatever .explain, .mode, .headers and .width *)
(* were given in between (the explain command of do_meta_command).         *)
ExplainRestores ==
  [][s.normalMode.valid /\ ~s'.normalMode.valid => Settings(s') = before]_vars

(* The lines of SQL process_input reads are run in order, each once, cut   *)
(* where SQL itself is cut: what was run and what waits are, but for white *)
(* space and comments, what was typed, with a semicolon where "go" or "/"  *)
(* is a line outside a literal and a comment.                              *)
LinesRunOnce == \A k \in DOMAIN frames :
  Words[frames[k].typed] =
  FlattenSeq([i \in DOMAIN frames[k].given |-> Words[frames[k].given[i]]]) \o Words[frames[k].zSql]

(* -bail: after an error nothing is run until a terminal is read from or   *)
(* ~/.sqliterc is over.  Ctrl-C: one unit at most, whose line was read     *)
(* before, is run from files ("cause this routine to exit immediately" at  *)
(* process_input), unless .import or a terminal takes note of it.          *)
StopsWhenTold == [][(stop => nRun' = nRun) /\ since' <= 1]_vars
=============================================================================
