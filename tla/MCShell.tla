------------------------------ MODULE MCShell ------------------------------
(* What is typed in the run shell, by what it is about, and the command    *)
(* lines it is typed after.                                                *)
EXTENDS Shell

Menu(max, lines) == [max |-> max, lines |-> lines]
UpTo(max, m) == [m EXCEPT !.max = max]
Dot(words) == <<".">> \o words
Select == <<"s", ";">>
Failing == <<"e", ";">>

Output == Menu(4, {Select, Dot(<<"output", "f">>), Dot(<<"output", "off">>), Dot(<<"once", "f">>), Dot(<<"once", "|c">>),
                   Dot(<<"log", "f">>), Dot(<<"trace", "f">>), Dot(<<"trace", "off">>), Dot(<<"print", "x">>),
                   Dot(<<"open", "db2">>), Dot(<<"open", "bad">>), Dot(<<"read", "f">>), Dot(<<"tables">>)})
Looks == Menu(4, {Dot(<<"mode", "insert">>), Dot(<<"mode", "csv">>), Dot(<<"explain">>), Dot(<<"explain", "off">>),
                  Dot(<<"explain", "2">>), Dot(<<"headers", "on">>), Dot(<<"width", "3">>), Dot(<<"import", "f", "t">>),
                  Dot(<<"mode", "x">>)})
Pieces == Menu(4, {Select, <<"s">>, <<";">>, <<SQ>>, <<"/", "*">>, <<"*", "/">>, <<"g", "o">>, <<"/">>, <<" ">>,
                  <<" ", "u", ";", "e", ";", "s">>, <<"-", "-">>})
Scripts == Menu(4, {Select, Failing, <<"u">>, Dot(<<"read", "f">>), Dot(<<"bail", "on">>), Dot(<<"bail", "off">>),
                    Dot(<<"quit">>), Dot(<<"exit", "3">>), Dot(<<"import", "f", "t">>), Dot(<<"open", "bad">>)})
Rest == Menu(2, {Dot(<<>>), Select} \cup
  {Dot(<<c>>) : c \in {"nullvalue", "once", "log", "separator", "show", "vfsname", "databases", "indexes", "schema",
                       "fullschema", "dbinfo", "dump", "backup", "restore", "clone", "limits", "load", "timeout",
                       "testctrl", "system", "prompt", "binary", "read", "unknown", "echo", "import", "help", "open"}}
  \cup {Dot(<<c, "x">>) : c \in {"nullvalue", "separator", "echo", "eqp", "stats", "backup", "restore", "clone", "limits",
                                 "load", "testctrl", "system"}}
  \cup {Dot(<<"save", "bad">>), Dot(<<"separator", "ab", "ab">>), Dot(<<"separator", "", "x", "x">>), Dot(<<"import", "bad", "t">>),
        Dot(<<"mode", "ascii">>), Dot(<<"mode", "tabs">>), Dot(<<"mode", "tcl">>)})

Opt(o) == <<"-", o>>
Alone == <<<<"db">>>>
Argvs ==
  {<<>>, <<<<"bad">>>>, <<Opt("batch"), Opt("interactive")>>, <<Opt("cmd")>>,
   <<Opt("heap"), <<"1">>, <<"db">>>>, <<Opt("init"), <<"bad">>, Opt("csv"), Opt("header"), Opt("separator"), <<"x">>>>,
   <<Opt("scratch"), <<"1">>, <<"2">>, Opt("vfs"), <<"x">>, Opt("version")>>, <<Opt("vfs"), <<"bad">>>>,
   <<<<"db">>, <<".", "once", "f">>, <<"s">>, <<"u">>, <<"e">>, <<"s">>>>,
   <<<<"db">>, <<".", "read", "f">>, <<".", "open", "bad">>, <<"s">>>>,
   <<Opt("bail"), <<"db">>>>, <<Opt("heap"), Opt("nullvalue"), Opt("cmd")>>, <<Opt("heap"), Opt("cmd"), Opt("newline")>>,
   <<Opt("bail"), Opt("cmd"), <<".", "read", "f">>, Opt("cmd"), <<"e">>, Opt("ascii"), Opt("newline"), <<"x">>>>,
   <<Opt("cmd"), <<".", "once", "f">>, <<"-", "-", "eqp">>, Opt("noheader"), Opt("list")>>}
AllSessions ==
  {[argv |-> Alone, menu |-> m] : m \in {Output, Looks, Pieces, UpTo(3, Scripts), Rest}}
  \cup {[argv |-> <<Opt("bail"), <<"db">>>>, menu |-> m] : m \in {Scripts, UpTo(3, Output)}}
  \cup {[argv |-> z, menu |-> UpTo(2, m)] : z \in Argvs, m \in {Output, Scripts}}
=============================================================================
