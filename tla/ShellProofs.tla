---------------------------- MODULE ShellProofs ----------------------------
(***************************************************************************)
(* The database shell, for every command line and everything that may be   *)
(* typed: what the session points at is open and nothing else is, a file   *)
(* of .once has one output, .explain off brings the settings back, and     *)
(* nothing is run after an error under -bail or after Ctrl-C.              *)
(*                                                                         *)
(* A session is a record of which only handles and counters have types     *)
(* here: texts, names and separators are whatever the user gives.          *)
(***************************************************************************)
EXTENDS Shell, FiniteSetTheorems, SequenceTheorems, TLAPS

Fields ==
  {"db", "globalDb", "conns", "file", "saved", "savedFile", "mode", "colWidth", "colSeparator", "rowSeparator",
   "nullValue", "zDestTable", "normalMode", "out", "outfile", "outCount", "pLog", "traceOut", "streams", "on",
   "seenInterrupt", "unit"}

IsSession(t) == t = [f \in Fields |-> t[f]]

(* The files that are open are the ones out, pLog and traceOut point at,   *)
(* each at one of its own but for pLog's and traceOut's standard streams.  *)
IsStream(x) == x = [how |-> x.how, units |-> x.units]
StreamsKnown(t) ==
  /\ t.streams = [f \in DOMAIN t.streams |-> t.streams[f]]
  /\ DOMAIN t.streams \subseteq Nat /\ IsFiniteSet(DOMAIN t.streams)
  /\ \A f \in DOMAIN t.streams : f > stderr /\ IsStream(t.streams[f])
  /\ t.unit \in Nat
Files(t) == {t.out, t.pLog, t.traceOut} \ {Null, stdout, stderr}
StreamsOpen(t) ==
  /\ StreamsKnown(t)
  /\ t.out \in Nat \ {Null} /\ t.pLog \in Nat /\ t.traceOut \in Nat
  /\ Files(t) = DOMAIN t.streams
  /\ t.out > stderr => t.out \notin {t.pLog, t.traceOut}
  /\ t.pLog > stderr => t.pLog # t.traceOut

-----------------------------------------------------------------------------
(* Handles and streams.                                                    *)

(* A handle that is not in use can be found.                               *)
LEMMA UnusedHandle ==
  ASSUME NEW S \in SUBSET Nat, IsFiniteSet(S)
  PROVE  Unused(S) \in Nat /\ Unused(S) > stderr /\ Unused(S) \notin S
<1> DEFINE n == Cardinality(S)
           I == 3..(3 + n)
<1>1. n \in Nat
  BY FS_CardinalityType
<1>2. IsFiniteSet(I) /\ Cardinality(I) = n + 1
  BY <1>1, FS_Interval
<1>3. ~(I \subseteq S)
  <2>1. SUFFICES ASSUME I \subseteq S PROVE FALSE
    OBVIOUS
  <2>2. Cardinality(I) <= n
    BY <2>1, FS_Subset
  <2> QED
    BY <1>1, <1>2, <2>2
<1>4. \E k \in I : k \notin S
  BY <1>3
<1>5. Unused(S) \in I /\ Unused(S) \notin S
  BY <1>4 DEF Unused
<1> QED
  BY <1>1, <1>5 DEF stderr

(* fclose changes nothing but the streams: the file is gone.               *)
LEMMA StreamClosed ==
  ASSUME NEW t, IsSession(t), StreamsKnown(t), NEW f \in Nat
  PROVE  LET u == output_file_close(t, f) IN
         /\ IsSession(u) /\ u = [t EXCEPT !.streams = u.streams]
         /\ StreamsKnown(u)
         /\ DOMAIN u.streams = DOMAIN t.streams \ {f}
         /\ \A g \in DOMAIN u.streams : u.streams[g] = t.streams[g]
<1>1. CASE f > stderr
  <2> DEFINE u == fclose(t, f)
             D == DOMAIN t.streams \ {f}
  <2>1. u = [t EXCEPT !.streams = [g \in D |-> t.streams[g]]]
    BY DEF fclose, Less, Restrict, IsSession, Fields, StreamsKnown
  <2>2. u.streams = [g \in D |-> t.streams[g]] /\ u.unit = t.unit
    BY <2>1 DEF IsSession, Fields
  <2>3. IsFiniteSet(D)
    BY FS_Subset DEF StreamsKnown
  <2>4. IsSession(u) /\ u = [t EXCEPT !.streams = u.streams]
    BY <2>1, <2>2 DEF IsSession, Fields
  <2> QED
    BY <1>1, <2>2, <2>3, <2>4 DEF StreamsKnown, output_file_close
<1>2. CASE ~(f > stderr)
  <2>1. output_file_close(t, f) = t
    BY <1>2 DEF output_file_close
  <2>2. t = [t EXCEPT !.streams = t.streams]
    BY DEF IsSession, Fields
  <2> QED
    BY <1>2, <2>1, <2>2 DEF StreamsKnown, stderr
<1> QED
  BY <1>1, <1>2

(* fopen changes nothing but the streams: there is a new one, which        *)
(* nothing is written to yet.                                              *)
LEMMA StreamOpened ==
  ASSUME NEW t, IsSession(t), StreamsKnown(t), NEW how
  PROVE  LET o == fopen(t, how) IN
         /\ IsSession(o.s) /\ o.s = [t EXCEPT !.streams = o.s.streams]
         /\ StreamsKnown(o.s)
         /\ o.f \in Nat /\ o.f > stderr /\ o.f \notin DOMAIN t.streams
         /\ DOMAIN o.s.streams = DOMAIN t.streams \cup {o.f}
         /\ o.s.streams[o.f].units = {}
         /\ \A g \in DOMAIN t.streams : o.s.streams[g] = t.streams[g]
<1> DEFINE f == Unused(DOMAIN t.streams)
           new == [how |-> how, units |-> {}]
           D == DOMAIN t.streams \cup {f}
           q == [g \in D |-> IF g = f THEN new ELSE t.streams[g]]
           u == [t EXCEPT !.streams = q]
<1>1. f \in Nat /\ f > stderr /\ f \notin DOMAIN t.streams
  BY UnusedHandle DEF StreamsKnown
<1>2. More(t.streams, f, new) = q
  BY DEF More
<1>3. fopen(t, how) = [s |-> u, f |-> f]
  BY <1>2 DEF fopen
<1>4. u.streams = q /\ u.unit = t.unit /\ IsSession(u) /\ u = [t EXCEPT !.streams = u.streams]
  BY DEF IsSession, Fields
<1>5. IsFiniteSet(D)
  BY FS_AddElement DEF StreamsKnown
<1>6. IsStream(new)
  BY DEF IsStream
<1>7. DOMAIN q = D /\ q = [g \in DOMAIN q |-> q[g]] /\ q[f].units = {}
     /\ (\A g \in D : g > stderr /\ IsStream(q[g])) /\ \A g \in DOMAIN t.streams : q[g] = t.streams[g]
  BY <1>1, <1>6 DEF StreamsKnown
<1>8. StreamsKnown(u)
  <2> HIDE DEF q
  <2> QED
    BY <1>1, <1>4, <1>5, <1>7 DEF StreamsKnown
<1>9. fopen(t, how).s = u /\ fopen(t, how).f = f
  BY <1>3
<1> HIDE DEF u, f, q
<1> QED
  BY <1>1, <1>4, <1>7, <1>8, <1>9

(* What output_file_open does: a standard stream, none, or a new file.     *)
LEMMA FileOpened ==
  ASSUME NEW t, IsSession(t), StreamsKnown(t), NEW zFile
  PROVE  LET o == output_file_open(t, zFile) IN
         /\ IsSession(o.s) /\ o.s = [t EXCEPT !.streams = o.s.streams]
         /\ StreamsKnown(o.s)
         /\ o.f \in Nat
         /\ DOMAIN o.s.streams = DOMAIN t.streams \cup ({o.f} \ {Null, stdout, stderr})
         /\ o.f > stderr => o.f \notin DOMAIN t.streams /\ o.s.streams[o.f].units = {}
         /\ \A g \in DOMAIN t.streams : o.s.streams[g] = t.streams[g]
<1> DEFINE o == output_file_open(t, zFile)
<1>1. CASE o \in {[s |-> t, f |-> stdout], [s |-> t, f |-> stderr], [s |-> t, f |-> Null]}
  <2>1. o.s = t /\ o.f \in {Null, stdout, stderr}
    BY <1>1
  <2>2. t = [t EXCEPT !.streams = t.streams]
    BY DEF IsSession, Fields
  <2> QED
    BY <2>1, <2>2 DEF Null, stdout, stderr
<1>2. CASE o = fopen(t, "file")
  <2> HIDE DEF o
  <2>1. /\ IsSession(o.s) /\ o.s = [t EXCEPT !.streams = o.s.streams] /\ StreamsKnown(o.s)
        /\ o.f \in Nat /\ o.f > stderr /\ o.f \notin DOMAIN t.streams
        /\ DOMAIN o.s.streams = DOMAIN t.streams \cup {o.f} /\ o.s.streams[o.f].units = {}
        /\ \A g \in DOMAIN t.streams : o.s.streams[g] = t.streams[g]
    BY <1>2, StreamOpened
  <2>2. {o.f} \ {Null, stdout, stderr} = {o.f}
    BY <2>1 DEF Null, stdout, stderr
  <2> QED
    BY <2>1, <2>2 DEF o
<1> QED
  BY <1>1, <1>2 DEF output_file_open

-----------------------------------------------------------------------------
(* What a step leaves alone.                                               *)
SameStreams(t, u) ==
  /\ u.out = t.out /\ u.pLog = t.pLog /\ u.traceOut = t.traceOut /\ u.streams = t.streams
  /\ u.outCount = t.outCount /\ u.unit = t.unit
SameConns(t, u) == u.db = t.db /\ u.globalDb = t.globalDb /\ u.conns = t.conns /\ u.saved = t.saved
SameSettings(t, u) ==
  /\ u.mode = t.mode /\ u.on = t.on /\ u.colWidth = t.colWidth
  /\ u.normalMode = t.normalMode /\ u.zDestTable = t.zDestTable

(* A file of .once that has not been written to, when the command that     *)
(* follows is still to come, and when the one that gave it returns.        *)
Unwritten(t) == t.out > stderr => t.streams[t.out].units = {}
OnceFresh(t) == t.outCount \in 0..1 /\ (t.outCount > 0 => Unwritten(t))
OnceLeaving(t) == t.outCount \in 0..2 /\ (t.outCount > 1 => Unwritten(t))

(* Output that is given up goes to standard output, its file is closed.    *)
LEMMA OutputReset ==
  ASSUME NEW t, IsSession(t), StreamsOpen(t)
  PROVE  LET u == output_reset(t) IN
         /\ IsSession(u) /\ StreamsOpen(u) /\ SameConns(t, u) /\ SameSettings(t, u)
         /\ u.seenInterrupt = t.seenInterrupt /\ u.outCount = t.outCount /\ u.unit = t.unit /\ u.out = stdout
         /\ u.pLog = t.pLog /\ u.traceOut = t.traceOut
<1> DEFINE c == output_file_close(t, t.out)
           u == [c EXCEPT !.outfile = "", !.out = stdout]
<1> HIDE DEF c
<1>1. /\ IsSession(c) /\ c = [t EXCEPT !.streams = c.streams] /\ StreamsKnown(c)
      /\ DOMAIN c.streams = DOMAIN t.streams \ {t.out}
  BY StreamClosed DEF c, StreamsOpen
<1>2. /\ IsSession(u) /\ u.streams = c.streams /\ u.out = stdout /\ u.pLog = t.pLog /\ u.traceOut = t.traceOut
      /\ u.outCount = t.outCount /\ u.unit = t.unit /\ SameConns(t, u) /\ SameSettings(t, u) /\ u.seenInterrupt = t.seenInterrupt
      /\ c.unit = t.unit
  BY <1>1 DEF IsSession, Fields, SameConns, SameSettings
<1>3. StreamsKnown(u)
  BY <1>1, <1>2 DEF StreamsKnown
<1>4. StreamsOpen(u)
  <2> HIDE DEF u
  <2> QED
  BY <1>1, <1>2, <1>3 DEF StreamsOpen, Files, Null, stdout, stderr
<1>5. u = output_reset(t)
  BY DEF output_reset, c
<1> HIDE DEF u
<1> QED
  BY <1>2, <1>4, <1>5

(* Output is remembered with the stream it goes to.                        *)
LEMMA OutputWritten ==
  ASSUME NEW t, IsSession(t), StreamsOpen(t)
  PROVE  LET u == Wrote(t) IN
         /\ IsSession(u) /\ StreamsOpen(u) /\ SameConns(t, u) /\ SameSettings(t, u)
         /\ u.seenInterrupt = t.seenInterrupt /\ u.outCount = t.outCount /\ u.unit = t.unit /\ u.out = t.out
         /\ u.pLog = t.pLog /\ u.traceOut = t.traceOut
         /\ u.unit = 0 => u = t
<1>1. CASE t.out > stderr /\ t.unit > 0
  <2> DEFINE x == t.streams[t.out]
             y == [x EXCEPT !.units = x.units \cup {t.unit}]
             q == [t.streams EXCEPT ![t.out] = y]
             u == [t EXCEPT !.streams = q]
  <2>1. Wrote(t) = u
    BY <1>1 DEF Wrote
  <2>2. t.out \in DOMAIN t.streams
    BY <1>1 DEF StreamsOpen, Files, Null, stdout, stderr
  <2>3. IsStream(y)
    <3>1. IsStream(x)
      BY <2>2 DEF StreamsOpen, StreamsKnown
    <3> HIDE DEF x
    <3> QED
      BY <3>1 DEF IsStream
  <2>4. /\ DOMAIN q = DOMAIN t.streams /\ q = [f \in DOMAIN q |-> q[f]]
        /\ \A f \in DOMAIN q : f > stderr /\ IsStream(q[f])
    <3> HIDE DEF y
    <3> QED
      BY <2>2, <2>3 DEF StreamsOpen, StreamsKnown
  <2> HIDE DEF q
  <2>5. /\ IsSession(u) /\ u.streams = q /\ SameConns(t, u) /\ SameSettings(t, u)
        /\ u.seenInterrupt = t.seenInterrupt /\ u.outCount = t.outCount /\ u.unit = t.unit /\ u.out = t.out
        /\ u.pLog = t.pLog /\ u.traceOut = t.traceOut
    BY DEF IsSession, Fields, SameConns, SameSettings
  <2> HIDE DEF u
  <2>6. StreamsOpen(u)
    BY <2>4, <2>5 DEF StreamsOpen, StreamsKnown, Files
  <2> QED
    BY <1>1, <2>1, <2>5, <2>6
<1>2. CASE ~(t.out > stderr /\ t.unit > 0)
  <2>1. Wrote(t) = t
    BY <1>2 DEF Wrote
  <2> QED
    BY <2>1 DEF SameConns, SameSettings
<1> QED
  BY <1>1, <1>2

(* The end of a command, by way of meta_command_exit: the count of .once   *)
(* goes down, at the last command its file is closed.                      *)
LEMMA CommandExits ==
  ASSUME NEW t, IsSession(t), StreamsOpen(t), OnceLeaving(t)
  PROVE  LET u == meta_command_exit(t) IN
         /\ IsSession(u) /\ StreamsOpen(u) /\ OnceFresh(u) /\ SameConns(t, u) /\ SameSettings(t, u)
         /\ u.seenInterrupt = t.seenInterrupt /\ u.traceOut = t.traceOut
<1>1. CASE t.outCount = 0
  BY <1>1 DEF meta_command_exit, SameConns, SameSettings, OnceFresh
<1>2. CASE t.outCount # 0
  <2> DEFINE n == t.outCount - 1
             c == [t EXCEPT !.outCount = n]
  <2>1. n \in 0..1 /\ (n = 1 => Unwritten(t))
    BY <1>2 DEF OnceLeaving
  <2> HIDE DEF n
  <2>2. /\ IsSession(c) /\ SameConns(t, c) /\ SameSettings(t, c) /\ c.outCount = n
        /\ c.seenInterrupt = t.seenInterrupt /\ c.traceOut = t.traceOut /\ c.out = t.out /\ c.pLog = t.pLog
        /\ c.streams = t.streams /\ c.unit = t.unit
    BY DEF IsSession, Fields, SameConns, SameSettings
  <2>3. meta_command_exit(t) = IF c.outCount = 0 THEN output_reset(c) ELSE c
    BY <1>2 DEF meta_command_exit, n
  <2> HIDE DEF c
  <2>4. StreamsOpen(c)
    BY <2>2 DEF StreamsOpen, StreamsKnown, Files
  <2>5. CASE n = 0
    BY <2>2, <2>3, <2>4, <2>5, OutputReset DEF SameConns, SameSettings, OnceFresh
  <2>6. CASE n = 1
    BY <2>1, <2>2, <2>3, <2>4, <2>6 DEF OnceFresh, Unwritten
  <2> QED
    BY <2>1, <2>5, <2>6
<1> QED
  BY <1>1, <1>2

-----------------------------------------------------------------------------
(* Databases and settings.                                                 *)

(* A connection for each handle of a database; Ctrl-C interrupts none or   *)
(* one of them, and while .open has two it is the new one; what they trace *)
(* to is traceOut.                                                         *)
IsConn(x) == x = [usable |-> x.usable, trace |-> x.trace]
ConnsKnown(t) ==
  /\ t.conns = [c \in DOMAIN t.conns |-> t.conns[c]]
  /\ DOMAIN t.conns \subseteq Nat \ {Null} /\ IsFiniteSet(DOMAIN t.conns)
  /\ \A c \in DOMAIN t.conns : IsConn(t.conns[c])
  /\ t.db \in Nat /\ t.saved \in Nat /\ t.globalDb \in Nat
ConnsOpen(t) ==
  /\ ConnsKnown(t)
  /\ {t.db, t.saved} \ {Null} = DOMAIN t.conns
  /\ t.db = t.saved => t.db = Null
  /\ t.globalDb \in {Null} \cup DOMAIN t.conns
  /\ t.saved # Null => t.globalDb \in {Null, t.db}
  /\ \A c \in DOMAIN t.conns : t.conns[c].trace \in {Null, t.traceOut}

(* The settings explain mode was entered with, and a name of the table     *)
(* whenever rows are written as INSERTs, or will be after .explain off.    *)
Kept(t) == [mode |-> t.normalMode.mode, headers |-> t.normalMode.headers, colWidth |-> t.normalMode.colWidth]
SettingsKnown(t) ==
  /\ t.normalMode.valid \in BOOLEAN /\ t.normalMode.headers \in BOOLEAN
  /\ t.normalMode = [k \in {"valid", "mode", "headers", "colWidth"} |-> t.normalMode[k]]
  /\ t.mode = "insert" \/ (t.normalMode.valid /\ t.normalMode.mode = "insert") => t.zDestTable # <<>>

Sound(t) == IsSession(t) /\ StreamsOpen(t) /\ ConnsOpen(t) /\ SettingsKnown(t)

(* What a step does to the settings that explain mode keeps.               *)
SettingsStep(t, u) ==
  /\ t.normalMode.valid /\ u.normalMode.valid => Kept(u) = Kept(t)
  /\ t.normalMode.valid /\ ~u.normalMode.valid => Settings(u) = Kept(t)
  /\ ~t.normalMode.valid /\ u.normalMode.valid => Kept(u) = Settings(t)

(* Connections, settings and streams that a step leaves alone are as sound *)
(* after it as before: what it changes besides is left open.               *)
LEMMA ConnsAlike ==
  ASSUME NEW t, NEW u, ConnsOpen(t), SameConns(t, u), u.traceOut = t.traceOut
  PROVE  ConnsOpen(u)
BY DEF ConnsOpen, ConnsKnown, SameConns

(* The same for the settings: none of those explain mode keeps is touched. *)
LEMMA SettingsAlike ==
  ASSUME NEW t, NEW u, SettingsKnown(t), SameSettings(t, u)
  PROVE  SettingsKnown(u) /\ SettingsStep(t, u)
BY DEF SettingsKnown, SameSettings, SettingsStep, Kept, Settings

(* The same for the streams, and for what .once promises of them.          *)
LEMMA StreamsAlike ==
  ASSUME NEW t, NEW u, StreamsOpen(t), SameStreams(t, u)
  PROVE  StreamsOpen(u) /\ (OnceFresh(t) => OnceFresh(u)) /\ (OnceLeaving(t) => OnceLeaving(u))
BY DEF StreamsOpen, StreamsKnown, SameStreams, OnceFresh, OnceLeaving, Unwritten, Files

(* What open_db does with connections: nothing when there is a database,   *)
(* else there is a new one, usable or not, or none for want of memory.     *)
LEMMA DatabaseOpened ==
  ASSUME NEW t, IsSession(t), ConnsKnown(t), NEW o \in open_db(t)
  PROVE  /\ IsSession(o.s) /\ SameStreams(t, o.s) /\ SameSettings(t, o.s)
         /\ o.s.saved = t.saved /\ o.s.seenInterrupt = t.seenInterrupt
         /\ ConnsKnown(o.s)
         /\ o.ok => o.s.db # Null
         /\ t.db # Null => o.s = t
         /\ t.db = Null => o.s.globalDb = o.s.db
         /\ t.db = Null /\ o.s.db = Null => o.s.conns = t.conns
         /\ t.db = Null /\ o.s.db # Null =>
              /\ o.s.db \notin DOMAIN t.conns
              /\ DOMAIN o.s.conns = DOMAIN t.conns \cup {o.s.db}
              /\ \A c \in DOMAIN t.conns : o.s.conns[c] = t.conns[c]
              /\ o.s.conns[o.s.db].trace = Null
<1>1. CASE t.db # Null
  <2>1. o.s = t /\ o.ok = TRUE
    BY <1>1 DEF open_db
  <2> QED
    BY <1>1, <2>1 DEF SameStreams, SameSettings
<1>2. CASE t.db = Null
  <2> DEFINE S == DOMAIN t.conns \cup {t.globalDb}
             c == Unused(S)
  <2>1. c \in Nat /\ c > stderr /\ c \notin S
    <3>1. S \in SUBSET Nat /\ IsFiniteSet(S)
      BY FS_AddElement DEF ConnsKnown
    <3> HIDE DEF S
    <3> QED
      BY <3>1, UnusedHandle
  <2>2. PICK how : o = IF how = "none" THEN [s |-> [t EXCEPT !.globalDb = Null], ok |-> FALSE]
                       ELSE [s |-> [t EXCEPT !.db = c, !.globalDb = c,
                                              !.conns = More(t.conns, c, [usable |-> how = "ok", trace |-> Null])],
                             ok |-> how = "ok"]
    BY <1>2 DEF open_db
  <2> HIDE DEF c
  <2>3. CASE how = "none"
    <3>1. o.s = [t EXCEPT !.globalDb = Null] /\ o.ok = FALSE
      BY <2>2, <2>3
    <3>2. /\ IsSession(o.s) /\ SameStreams(t, o.s) /\ SameSettings(t, o.s) /\ o.s.saved = t.saved
          /\ o.s.seenInterrupt = t.seenInterrupt /\ o.s.conns = t.conns /\ o.s.db = t.db /\ o.s.globalDb = Null
      BY <3>1 DEF IsSession, Fields, SameStreams, SameSettings
    <3> QED
      BY <1>2, <3>1, <3>2 DEF ConnsKnown, Null
  <2>4. CASE how # "none"
    <3> DEFINE new == [usable |-> how = "ok", trace |-> Null]
               q == [x \in DOMAIN t.conns \cup {c} |-> IF x = c THEN new ELSE t.conns[x]]
    <3>1. o.s = [t EXCEPT !.db = c, !.globalDb = c, !.conns = q]
      BY <2>2, <2>4 DEF More
    <3>2. /\ DOMAIN q = DOMAIN t.conns \cup {c} /\ q = [x \in DOMAIN q |-> q[x]]
          /\ (\A x \in DOMAIN q : IsConn(q[x])) /\ q[c].trace = Null /\ \A x \in DOMAIN t.conns : q[x] = t.conns[x]
      BY <2>1 DEF ConnsKnown, IsConn
    <3> HIDE DEF q
    <3>3. /\ IsSession(o.s) /\ SameStreams(t, o.s) /\ SameSettings(t, o.s) /\ o.s.saved = t.saved
          /\ o.s.seenInterrupt = t.seenInterrupt /\ o.s.conns = q /\ o.s.db = c /\ o.s.globalDb = c
      BY <3>1 DEF IsSession, Fields, SameStreams, SameSettings
    <3>4. IsFiniteSet(DOMAIN q)
      BY <3>2, FS_AddElement DEF ConnsKnown
    <3> QED
      BY <1>2, <2>1, <3>2, <3>3, <3>4 DEF ConnsKnown, Null, stderr
  <2> QED
    BY <2>3, <2>4
<1> QED
  BY <1>1, <1>2 DEF ConnsKnown

(* A session with one database at most stays sound when it is opened.      *)
LEMMA SessionWithDatabase ==
  ASSUME NEW t, Sound(t), OnceFresh(t), t.saved = Null, NEW o \in open_db(t)
  PROVE  /\ Sound(o.s) /\ OnceFresh(o.s) /\ o.s.saved = Null
         /\ SameStreams(t, o.s) /\ SameSettings(t, o.s) /\ o.s.seenInterrupt = t.seenInterrupt
         /\ o.ok => o.s.db # Null
<1>1. IsSession(t) /\ ConnsKnown(t)
  BY DEF Sound, ConnsOpen
<1>2. ConnsOpen(o.s)
  <2>1. CASE t.db # Null
    BY <1>1, <2>1, DatabaseOpened DEF Sound
  <2>2. CASE t.db = Null
    BY <1>1, <2>2, DatabaseOpened DEF Sound, ConnsOpen
  <2> QED
    BY <2>1, <2>2
<1> QED
  BY <1>1, <1>2, DatabaseOpened, StreamsAlike, SettingsAlike DEF Sound

-----------------------------------------------------------------------------
(* The dot-commands.                                                       *)

(* What holds of a session when a command is given it, and of the one a    *)
(* command returns.                                                        *)
AtRest(t) == Sound(t) /\ OnceFresh(t) /\ t.saved = Null
Completed(t, r) ==
  /\ Sound(r.s)
  /\ r.by \in {"exit", "return", "process", "read", "open"}
  /\ r.by = "exit" => OnceLeaving(r.s)
  /\ r.by # "exit" => OnceFresh(r.s)
  /\ r.by # "open" => r.s.saved = Null
  /\ SettingsStep(t, r.s)
  /\ r.s.seenInterrupt \in {t.seenInterrupt, 0}

(* The ways of returning, by what they return.                             *)
LEMMA ResultsAre ==
  ASSUME NEW t, NEW r
  PROVE  /\ r \in Ok(t) \/ r \in Fails(t) \/ r \in Either(t) => r.s = t /\ r.by = "exit"
         /\ \A rc : r \in Returns(t, rc) => r.s = t /\ r.by = "return"
         /\ r \in Dies(t) => r.s = t /\ r.by = "process"
         /\ r \in quit(t) => r.s = t /\ r.by = "exit"
BY DEF Ok, Fails, Either, Returns, Dies, quit, Result

(* A command that only writes is complete when it exits, one that does     *)
(* nothing whatever way it returns; so are both with the database opened.  *)
LEMMA QuietCompletes ==
  ASSUME NEW t, AtRest(t), NEW u, Sound(u), OnceFresh(u), u.saved = Null, SameSettings(t, u),
         u.seenInterrupt = t.seenInterrupt, NEW r,
         \/ r.s = u /\ r.by \in {"exit", "return", "process", "read"}
         \/ r.s = Wrote(u) /\ r.by = "exit"
  PROVE  Completed(t, r)
<1>1. CASE r.s = u /\ r.by \in {"exit", "return", "process", "read"}
  <2>1. SettingsStep(t, u)
    BY SettingsAlike DEF AtRest, Sound
  <2>2. OnceLeaving(u)
    BY DEF OnceFresh, OnceLeaving
  <2> QED
    BY <1>1, <2>1, <2>2 DEF Completed
<1>2. CASE r.s = Wrote(u) /\ r.by = "exit"
  <2> DEFINE w == Wrote(u)
  <2> HIDE DEF w
  <2>1. /\ IsSession(w) /\ StreamsOpen(w) /\ SameConns(u, w) /\ SameSettings(u, w)
        /\ w.seenInterrupt = u.seenInterrupt /\ w.outCount = u.outCount /\ w.traceOut = u.traceOut
    BY OutputWritten DEF w, Sound
  <2>2. Sound(w)
    BY <2>1, ConnsAlike, SettingsAlike DEF Sound
  <2>3. SameSettings(t, w)
    BY <2>1 DEF SameSettings
  <2>4. SettingsStep(t, w)
    BY <2>3, SettingsAlike DEF AtRest, Sound
  <2>5. OnceLeaving(w) /\ w.saved = Null
    BY <2>1 DEF OnceLeaving, OnceFresh, SameConns
  <2> QED
    BY <1>2, <2>1, <2>2, <2>4, <2>5 DEF Completed, w
<1> QED
  BY <1>1, <1>2

(* Commands that need no database.                                         *)
LEMMA PlainCommands ==
  ASSUME NEW t, AtRest(t), NEW a, NEW r,
         \/ r \in show(t, a) \/ r \in print(t, a) \/ r \in vfsname(t, a) \/ r \in clone(t, a) \/ r \in system(t, a)
         \/ r \in exit(t, a) \/ r \in quit(t) \/ r \in read(t, a) \/ r \in Ok(t) \/ r \in Fails(t) \/ r \in Returns(t, 0)
  PROVE  Completed(t, r)
<1>1. CASE r \in read(t, a) /\ r \notin Fails(t)
  <2>1. r.s = t /\ r.by = "read"
    BY <1>1 DEF read, Result
  <2> QED
    BY <2>1, QuietCompletes DEF AtRest, SameSettings
<1>2. CASE r \in Ok(t) \/ r \in Fails(t) \/ r \in Returns(t, 0) \/ r \in Dies(t) \/ r \in quit(t)
  <2>1. r.s = t /\ r.by \in {"exit", "return", "process"}
    BY <1>2, ResultsAre
  <2> QED
    BY <2>1, QuietCompletes DEF AtRest, SameSettings
<1>3. CASE r \in Ok(Wrote(t))
  <2>1. r.s = Wrote(t) /\ r.by = "exit"
    BY <1>3, ResultsAre
  <2> QED
    BY <2>1, QuietCompletes DEF AtRest, SameSettings
<1> QED
  BY <1>1, <1>2, <1>3 DEF show, print, vfsname, clone, system, exit, read

(* Commands that need one: the database is opened, or the process ends.    *)
Answers(t) ==
  Query(t) \cup Fails(t) \cup Ok(t) \cup Ok(Wrote(t)) \cup Fails(Wrote(t)) \cup Returns(t, 1) \cup Dies(t)

(* A command that answers from a database it had opened is complete.       *)
LEMMA AnswersComplete ==
  ASSUME NEW t, AtRest(t), NEW o \in open_db(t), NEW r \in Answers(o.s)
  PROVE  Completed(t, r)
<1>1. /\ Sound(o.s) /\ OnceFresh(o.s) /\ o.s.saved = Null
      /\ SameSettings(t, o.s) /\ o.s.seenInterrupt = t.seenInterrupt
  BY SessionWithDatabase DEF AtRest
<1>2. \/ r.s = o.s /\ r.by \in {"exit", "return", "process", "read"}
      \/ r.s = Wrote(o.s) /\ r.by = "exit"
  BY ResultsAre DEF Answers, Query
<1> QED
  BY <1>1, <1>2, QuietCompletes

(* So are the commands that open the database first, whether that succeeds,*)
(* fails, or the arguments are refused before it.                          *)
LEMMA DatabaseCommands ==
  ASSUME NEW t, AtRest(t), NEW a, NEW r,
         \/ r \in databases(t, a) \/ r \in indexes(t, a) \/ r \in schema(t, a) \/ r \in fullschema(t, a)
         \/ r \in shell_dbinfo_command(t, a) \/ r \in tables(t, a) \/ r \in dump(t, a) \/ r \in save(t, a)
         \/ r \in restore(t, a) \/ r \in limits(t, a) \/ r \in load(t, a) \/ r \in timeout(t, a) \/ r \in testctrl(t, a)
  PROVE  Completed(t, r)
<1>1. CASE r \in Fails(t) \/ r \in Returns(t, 1)
  <2>1. r.s = t /\ r.by \in {"exit", "return"}
    BY <1>1, ResultsAre
  <2> QED
    BY <2>1, QuietCompletes DEF AtRest, SameSettings
<1>2. CASE \E o \in open_db(t) : r \in Answers(o.s)
  BY <1>2, AnswersComplete
<1>3. CASE r \in databases(t, a) \/ r \in indexes(t, a) \/ r \in schema(t, a) \/ r \in shell_dbinfo_command(t, a)
  BY <1>2, <1>3 DEF databases, indexes, schema, shell_dbinfo_command, WithDb, Answers
<1>4. CASE r \in fullschema(t, a) \/ r \in tables(t, a) \/ r \in dump(t, a)
  BY <1>1, <1>2, <1>4 DEF fullschema, tables, dump, WithDb, Answers
<1>5. CASE r \in save(t, a) \/ r \in restore(t, a)
  BY <1>1, <1>2, <1>5 DEF save, restore, WithDb, Copied, Answers, Either
<1>6. CASE r \in limits(t, a) \/ r \in load(t, a) \/ r \in timeout(t, a) \/ r \in testctrl(t, a)
  BY <1>1, <1>2, <1>6 DEF limits, load, timeout, testctrl, WithDb, Answers, Either
<1> QED
  BY <1>3, <1>4, <1>5, <1>6

(* Settings: nothing that is open changes, and what explain mode keeps are *)
(* the settings it was entered with.                                       *)
LEMMA SettingCompletes ==
  ASSUME NEW t, AtRest(t), NEW r, r.by = "exit", IsSession(r.s), SettingsKnown(r.s), SettingsStep(t, r.s),
         SameStreams(t, r.s), SameConns(t, r.s), r.s.seenInterrupt = t.seenInterrupt
  PROVE  Completed(t, r)
<1>1. StreamsOpen(r.s) /\ OnceFresh(r.s)
  BY StreamsAlike DEF AtRest, Sound
<1>2. ConnsOpen(r.s)
  BY ConnsAlike DEF AtRest, Sound, SameStreams
<1>3. OnceLeaving(r.s) /\ r.s.saved = Null
  BY <1>1 DEF OnceLeaving, OnceFresh, AtRest, SameConns
<1> QED
  BY <1>1, <1>2, <1>3 DEF Completed, Sound

(* The settings explain mode does not keep: switches, separators, the null *)
(* value and the widths of columns.                                        *)
LEMMA PlainSettings ==
  ASSUME NEW t, AtRest(t), NEW a, NEW r,
         r \in Switch(t, a) \/ r \in nullvalue(t, a) \/ r \in separator(t, a) \/ r \in width(t, a)
  PROVE  Completed(t, r)
<1>1. CASE r \in Fails(t)
  BY <1>1, ResultsAre, QuietCompletes DEF AtRest, SameSettings
<1>2. ASSUME NEW u, r.s = u, r.by = "exit", IsSession(u), SameStreams(t, u), SameConns(t, u),
             u.seenInterrupt = t.seenInterrupt, u.mode = t.mode, u.normalMode = t.normalMode, u.zDestTable = t.zDestTable
      PROVE  Completed(t, r)
  <2>1. SettingsKnown(u) /\ SettingsStep(t, u)
    BY <1>2 DEF AtRest, Sound, SettingsKnown, SettingsStep, Kept
  <2> QED
    BY <1>2, <2>1, SettingCompletes
<1>3. CASE r \in Switch(t, a) /\ r \notin Fails(t)
  <2>1. PICK on : r \in Ok([t EXCEPT !.on = on])
    BY <1>3 DEF Switch, Turn
  <2> DEFINE u == [t EXCEPT !.on = on]
  <2>2. IsSession(u) /\ SameStreams(t, u) /\ SameConns(t, u) /\ u.seenInterrupt = t.seenInterrupt
        /\ u.mode = t.mode /\ u.normalMode = t.normalMode /\ u.zDestTable = t.zDestTable
    BY DEF AtRest, Sound, IsSession, Fields, SameStreams, SameConns
  <2> HIDE DEF u
  <2> QED
    BY <1>2, <2>1, <2>2, ResultsAre DEF u
<1>4. CASE r \in nullvalue(t, a) /\ r \notin Fails(t)
  <2>1. PICK z : r \in Ok([t EXCEPT !.nullValue = z])
    BY <1>4 DEF nullvalue
  <2> DEFINE u == [t EXCEPT !.nullValue = z]
  <2>2. IsSession(u) /\ SameStreams(t, u) /\ SameConns(t, u) /\ u.seenInterrupt = t.seenInterrupt
        /\ u.mode = t.mode /\ u.normalMode = t.normalMode /\ u.zDestTable = t.zDestTable
    BY DEF AtRest, Sound, IsSession, Fields, SameStreams, SameConns
  <2> HIDE DEF u
  <2> QED
    BY <1>2, <2>1, <2>2, ResultsAre DEF u
<1>5. CASE r \in separator(t, a)
  <2>1. PICK c, d : LET u == [t EXCEPT !.colSeparator = c, !.rowSeparator = d] IN r \in Ok(u) \/ r \in Fails(u)
    BY <1>5 DEF separator
  <2> DEFINE u == [t EXCEPT !.colSeparator = c, !.rowSeparator = d]
  <2>2. IsSession(u) /\ SameStreams(t, u) /\ SameConns(t, u) /\ u.seenInterrupt = t.seenInterrupt
        /\ u.mode = t.mode /\ u.normalMode = t.normalMode /\ u.zDestTable = t.zDestTable
    BY DEF AtRest, Sound, IsSession, Fields, SameStreams, SameConns
  <2> HIDE DEF u
  <2> QED
    BY <1>2, <2>1, <2>2, ResultsAre DEF u
<1>6. CASE r \in width(t, a)
  <2>1. PICK w : r \in Ok([t EXCEPT !.colWidth = w])
    BY <1>6 DEF width
  <2> DEFINE u == [t EXCEPT !.colWidth = w]
  <2>2. IsSession(u) /\ SameStreams(t, u) /\ SameConns(t, u) /\ u.seenInterrupt = t.seenInterrupt
        /\ u.mode = t.mode /\ u.normalMode = t.normalMode /\ u.zDestTable = t.zDestTable
    BY DEF AtRest, Sound, IsSession, Fields, SameStreams, SameConns
  <2> HIDE DEF u
  <2> QED
    BY <1>2, <2>1, <2>2, ResultsAre DEF u
<1> QED
  BY <1>1, <1>3, <1>4, <1>5, <1>6

(* .mode gives the table a name when rows are to be INSERTs.               *)
LEMMA ModeCompletes ==
  ASSUME NEW t, AtRest(t), NEW a, NEW r \in mode(t, a)
  PROVE  Completed(t, r)
<1> DEFINE m == IF Len(a) >= 2 THEN a[2] ELSE ""
           name == <<IF Len(a) >= 3 THEN a[3] ELSE "table">>
<1> HIDE DEF m, name
<1>1. \/ r \in Fails(t)
      \/ m # "insert" /\ r \in Ok([t EXCEPT !.mode = m])
      \/ m # "insert" /\ \E c : r \in Ok([t EXCEPT !.mode = m, !.colSeparator = c])
      \/ \E c : r \in Ok([t EXCEPT !.mode = "list", !.colSeparator = c])
      \/ m # "insert" /\ \E c, d : r \in Ok([t EXCEPT !.mode = m, !.colSeparator = c, !.rowSeparator = d])
      \/ r \in Ok([t EXCEPT !.mode = m, !.zDestTable = name])
  BY DEF mode, m, name, Mode, ModeCol, ModeBoth
<1>2. ASSUME NEW u, r \in Ok(u), IsSession(u), SameStreams(t, u), SameConns(t, u),
             u.seenInterrupt = t.seenInterrupt, u.normalMode = t.normalMode,
             (u.mode # "insert" /\ u.zDestTable = t.zDestTable) \/ u.zDestTable # <<>>
      PROVE  Completed(t, r)
  <2>1. SettingsKnown(u) /\ SettingsStep(t, u)
    BY <1>2 DEF AtRest, Sound, SettingsKnown, SettingsStep, Kept
  <2> QED
    BY <1>2, <2>1, ResultsAre, SettingCompletes
<1>3. CASE r \in Fails(t)
  BY <1>3, ResultsAre, QuietCompletes DEF AtRest, SameSettings
<1>4. ASSUME NEW c, NEW d, NEW k, k # "insert",
             NEW u \in {[t EXCEPT !.mode = k], [t EXCEPT !.mode = k, !.colSeparator = c],
                        [t EXCEPT !.mode = k, !.colSeparator = c, !.rowSeparator = d]}
      PROVE  /\ IsSession(u) /\ SameStreams(t, u) /\ SameConns(t, u) /\ u.seenInterrupt = t.seenInterrupt
             /\ u.normalMode = t.normalMode /\ u.mode # "insert" /\ u.zDestTable = t.zDestTable
  <2> DEFINE Alike(v) == /\ IsSession(v) /\ SameStreams(t, v) /\ SameConns(t, v) /\ v.seenInterrupt = t.seenInterrupt
                         /\ v.normalMode = t.normalMode /\ v.mode = k /\ v.zDestTable = t.zDestTable
  <2>1. Alike([t EXCEPT !.mode = k])
    BY DEF AtRest, Sound, IsSession, Fields, SameStreams, SameConns
  <2>2. Alike([t EXCEPT !.mode = k, !.colSeparator = c])
    BY DEF AtRest, Sound, IsSession, Fields, SameStreams, SameConns
  <2>3. Alike([t EXCEPT !.mode = k, !.colSeparator = c, !.rowSeparator = d])
    BY DEF AtRest, Sound, IsSession, Fields, SameStreams, SameConns
  <2>4. Alike(u)
    <3> HIDE DEF Alike
    <3> QED
      BY <2>1, <2>2, <2>3
  <2> QED
    BY <1>4, <2>4
<1>5. LET u == [t EXCEPT !.mode = m, !.zDestTable = name] IN
      /\ IsSession(u) /\ SameStreams(t, u) /\ SameConns(t, u) /\ u.seenInterrupt = t.seenInterrupt
      /\ u.normalMode = t.normalMode /\ u.zDestTable # <<>>
  BY DEF AtRest, Sound, IsSession, Fields, SameStreams, SameConns, name
<1>6. CASE r \in Ok([t EXCEPT !.mode = m, !.zDestTable = name])
  BY <1>2, <1>5, <1>6
<1>7. ASSUME NEW c, NEW d, NEW k, k # "insert",
             \/ r \in Ok([t EXCEPT !.mode = k])
             \/ r \in Ok([t EXCEPT !.mode = k, !.colSeparator = c])
             \/ r \in Ok([t EXCEPT !.mode = k, !.colSeparator = c, !.rowSeparator = d])
      PROVE  Completed(t, r)
  BY <1>2, <1>4, <1>7
<1> QED
  BY <1>1, <1>3, <1>6, <1>7

(* .explain saves the settings when explain mode is entered and brings     *)
(* them back when it is left.                                              *)
LEMMA ExplainCompletes ==
  ASSUME NEW t, AtRest(t), NEW a, NEW r \in explain(t, a)
  PROVE  Completed(t, r)
<1> DEFINE kept == [valid |-> TRUE, mode |-> t.mode, headers |-> "headers" \in t.on, colWidth |-> t.colWidth]
           n == t.normalMode
           looks == [t EXCEPT !.mode = "explain", !.on = Headers(t, TRUE), !.colWidth = ExplainWidth]
           entered == [t EXCEPT !.normalMode = kept, !.mode = "explain", !.on = Headers(t, TRUE), !.colWidth = ExplainWidth]
           left == [t EXCEPT !.normalMode = [n EXCEPT !.valid = FALSE], !.mode = n.mode, !.on = Headers(t, n.headers),
                             !.colWidth = n.colWidth]
<1>1. \/ r \in Ok(t)
      \/ n.valid /\ r \in Ok(looks)
      \/ ~n.valid /\ r \in Ok(entered)
      \/ n.valid /\ r \in Ok(left)
  <2>1. n.valid => Save(t) = t
    BY DEF Save
  <2>2. ~n.valid => Save(t) = [t EXCEPT !.normalMode = kept]
    BY DEF Save
  <2>3. ~n.valid => [Save(t) EXCEPT !.mode = "explain", !.on = Headers(t, TRUE), !.colWidth = ExplainWidth] = entered
    BY <2>2 DEF AtRest, Sound, IsSession, Fields
  <2>4. \/ r \in Ok(t)
        \/ n.valid /\ r \in Ok(left)
        \/ r \in Ok([Save(t) EXCEPT !.mode = "explain", !.on = Headers(t, TRUE), !.colWidth = ExplainWidth])
    BY DEF explain
  <2> QED
    BY <2>1, <2>3, <2>4
<1>2. SettingsKnown(t) /\ IsSession(t)
  BY DEF AtRest, Sound
<1>3. CASE r \in Ok(t)
  BY <1>3, ResultsAre, QuietCompletes DEF AtRest, SameSettings
<1>4. ASSUME NEW u, r \in Ok(u), IsSession(u), SameStreams(t, u), SameConns(t, u), u.seenInterrupt = t.seenInterrupt,
             SettingsKnown(u), SettingsStep(t, u)
      PROVE  Completed(t, r)
  BY <1>4, ResultsAre, SettingCompletes
<1>5. CASE n.valid /\ r \in Ok(looks)
  <2>1. IsSession(looks) /\ SameStreams(t, looks) /\ SameConns(t, looks) /\ looks.seenInterrupt = t.seenInterrupt
        /\ looks.mode = "explain" /\ looks.normalMode = n /\ looks.zDestTable = t.zDestTable
    BY <1>2 DEF IsSession, Fields, SameStreams, SameConns
  <2> HIDE DEF looks
  <2>2. SettingsKnown(looks) /\ SettingsStep(t, looks)
    BY <1>2, <1>5, <2>1 DEF SettingsKnown, SettingsStep, Kept
  <2> QED
    BY <1>4, <1>5, <2>1, <2>2
<1>6. CASE ~n.valid /\ r \in Ok(entered)
  <2>1. IsSession(entered) /\ SameStreams(t, entered) /\ SameConns(t, entered) /\ entered.seenInterrupt = t.seenInterrupt
        /\ entered.mode = "explain" /\ entered.normalMode = kept /\ entered.zDestTable = t.zDestTable
    BY <1>2 DEF IsSession, Fields, SameStreams, SameConns
  <2> HIDE DEF entered
  <2>2. SettingsKnown(entered) /\ SettingsStep(t, entered)
    BY <1>2, <1>6, <2>1 DEF SettingsKnown, SettingsStep, Kept, Settings
  <2> QED
    BY <1>4, <1>6, <2>1, <2>2
<1>7. CASE n.valid /\ r \in Ok(left)
  <2> DEFINE on == Headers(t, n.headers)
             off == [n EXCEPT !.valid = FALSE]
  <2>1. ("headers" \in on) = n.headers
    BY <1>2 DEF Headers, SettingsKnown
  <2>2. /\ off = [k \in {"valid", "mode", "headers", "colWidth"} |-> off[k]]
        /\ off.valid = FALSE /\ off.mode = n.mode /\ off.headers = n.headers /\ off.colWidth = n.colWidth
    BY <1>2 DEF SettingsKnown
  <2> HIDE DEF on, off
  <2>3. IsSession(left) /\ SameStreams(t, left) /\ SameConns(t, left) /\ left.seenInterrupt = t.seenInterrupt
        /\ left.mode = n.mode /\ left.normalMode = off /\ left.zDestTable = t.zDestTable
        /\ left.on = on /\ left.colWidth = n.colWidth
    BY <1>2 DEF IsSession, Fields, SameStreams, SameConns, on, off
  <2> HIDE DEF left
  <2>4. SettingsKnown(left) /\ SettingsStep(t, left)
    BY <1>2, <1>7, <2>1, <2>2, <2>3 DEF SettingsKnown, SettingsStep, Kept, Settings
  <2> QED
    BY <1>4, <1>7, <2>3, <2>4
<1> QED
  BY <1>1, <1>3, <1>5, <1>6, <1>7

(* .log: the file there was is closed, pLog is the one that is opened.     *)
LEMMA LogCompletes ==
  ASSUME NEW t, AtRest(t), NEW a, NEW r \in log(t, a)
  PROVE  Completed(t, r)
<1>1. CASE r \in Fails(t)
  BY <1>1, ResultsAre, QuietCompletes DEF AtRest, SameSettings
<1>2. CASE r \notin Fails(t)
  <2> DEFINE c == output_file_close(t, t.pLog)
             o == output_file_open(c, a[2])
             u == [o.s EXCEPT !.pLog = o.f]
  <2>1. r \in Ok(u)
    BY <1>2 DEF log
  <2> HIDE DEF c, o
  <2>2. /\ IsSession(c) /\ c = [t EXCEPT !.streams = c.streams] /\ StreamsKnown(c)
        /\ DOMAIN c.streams = DOMAIN t.streams \ {t.pLog}
        /\ \A g \in DOMAIN c.streams : c.streams[g] = t.streams[g]
    BY StreamClosed DEF c, AtRest, Sound, StreamsOpen
  <2>3. /\ IsSession(o.s) /\ o.s = [c EXCEPT !.streams = o.s.streams] /\ StreamsKnown(o.s) /\ o.f \in Nat
        /\ DOMAIN o.s.streams = DOMAIN c.streams \cup ({o.f} \ {Null, stdout, stderr})
        /\ o.f > stderr => o.f \notin DOMAIN c.streams
        /\ \A g \in DOMAIN c.streams : o.s.streams[g] = c.streams[g]
    BY <2>2, FileOpened DEF o
  <2>4. /\ IsSession(u) /\ u.streams = o.s.streams /\ u.pLog = o.f /\ u.out = t.out /\ u.traceOut = t.traceOut
        /\ u.outCount = t.outCount /\ u.unit = o.s.unit /\ SameConns(t, u) /\ SameSettings(t, u)
        /\ u.seenInterrupt = t.seenInterrupt
    BY <2>2, <2>3 DEF IsSession, Fields, SameConns, SameSettings
  <2> HIDE DEF u
  <2>5. StreamsOpen(u)
    <3>1. StreamsKnown(u)
      BY <2>3, <2>4 DEF StreamsKnown
    <3> QED
      BY <2>2, <2>3, <2>4, <3>1 DEF StreamsOpen, Files, Null, stdout, stderr, AtRest, Sound
  <2>6. Unwritten(t) => Unwritten(u)
    BY <2>2, <2>3, <2>4 DEF Unwritten, StreamsOpen, Files, Null, stdout, stderr, AtRest, Sound
  <2>7. ConnsOpen(u) /\ SettingsKnown(u) /\ SettingsStep(t, u)
    BY <2>4, ConnsAlike, SettingsAlike DEF AtRest, Sound
  <2>8. OnceLeaving(u) /\ u.saved = Null
    BY <2>4, <2>6 DEF OnceLeaving, OnceFresh, SameConns, AtRest
  <2> QED
    BY <2>1, <2>4, <2>5, <2>7, <2>8, ResultsAre DEF Completed, Sound
<1> QED
  BY <1>1, <1>2

(* Where output goes from now on, when it goes to standard output so far:  *)
(* a new file that nothing is written to yet, or a standard stream.        *)
LEMMA Redirects ==
  ASSUME NEW t, IsSession(t), StreamsOpen(t), t.out = stdout, NEW zFile, NEW r \in Redirect(t, zFile)
  PROVE  /\ r.by = "exit" /\ IsSession(r.s) /\ StreamsOpen(r.s) /\ Unwritten(r.s)
         /\ SameConns(t, r.s) /\ SameSettings(t, r.s) /\ r.s.seenInterrupt = t.seenInterrupt
         /\ r.s.outCount = t.outCount /\ r.s.traceOut = t.traceOut
<1> DEFINE o == IF zFile = "|c" THEN fopen(t, "pipe") ELSE output_file_open(t, zFile)
           f == IF o.f = Null THEN stdout ELSE o.f
<1>1. r.by = "exit" /\ (r.s = [o.s EXCEPT !.out = f] \/ r.s = [o.s EXCEPT !.out = f, !.outfile = zFile])
  <2>1. r \in Fails([o.s EXCEPT !.out = f]) \/ r \in Ok([o.s EXCEPT !.out = f, !.outfile = zFile])
    BY DEF Redirect
  <2> HIDE DEF o, f
  <2> QED
    BY <2>1, ResultsAre
<1>2. /\ IsSession(o.s) /\ o.s = [t EXCEPT !.streams = o.s.streams] /\ StreamsKnown(o.s) /\ o.f \in Nat
      /\ DOMAIN o.s.streams = DOMAIN t.streams \cup ({o.f} \ {Null, stdout, stderr})
      /\ o.f > stderr => o.f \notin DOMAIN t.streams /\ o.s.streams[o.f].units = {}
  <2>1. CASE zFile = "|c"
    <3> DEFINE q == fopen(t, "pipe")
    <3> HIDE DEF q
    <3>1. /\ IsSession(q.s) /\ q.s = [t EXCEPT !.streams = q.s.streams] /\ StreamsKnown(q.s) /\ q.f \in Nat /\ q.f > stderr
          /\ DOMAIN q.s.streams = DOMAIN t.streams \cup {q.f}
          /\ q.f \notin DOMAIN t.streams /\ q.s.streams[q.f].units = {}
      BY StreamOpened DEF q, StreamsOpen
    <3>2. {q.f} \ {Null, stdout, stderr} = {q.f}
      BY <3>1 DEF Null, stdout, stderr
    <3>3. o = q
      BY <2>1 DEF q
    <3> QED
      BY <3>1, <3>2, <3>3
  <2>2. CASE zFile # "|c"
    <3> DEFINE q == output_file_open(t, zFile)
    <3> HIDE DEF q
    <3>1. /\ IsSession(q.s) /\ q.s = [t EXCEPT !.streams = q.s.streams] /\ StreamsKnown(q.s) /\ q.f \in Nat
          /\ DOMAIN q.s.streams = DOMAIN t.streams \cup ({q.f} \ {Null, stdout, stderr})
          /\ q.f > stderr => q.f \notin DOMAIN t.streams /\ q.s.streams[q.f].units = {}
      BY FileOpened DEF q, StreamsOpen
    <3>2. o = q
      BY <2>2 DEF q
    <3> QED
      BY <3>1, <3>2
  <2> QED
    BY <2>1, <2>2
<1> HIDE DEF o
<1>3. f \in Nat \ {Null} /\ (f > stderr => f = o.f) /\ {o.f} \ {Null, stdout, stderr} = {f} \ {Null, stdout, stderr}
  BY <1>2 DEF Null, stdout, stderr
<1> HIDE DEF f
<1>4. /\ IsSession(r.s) /\ r.s.streams = o.s.streams /\ r.s.unit = o.s.unit /\ r.s.out = f
      /\ r.s.pLog = t.pLog /\ r.s.traceOut = t.traceOut /\ r.s.outCount = t.outCount
      /\ SameConns(t, r.s) /\ SameSettings(t, r.s) /\ r.s.seenInterrupt = t.seenInterrupt
  <2> DEFINE e == o.s
  <2> HIDE DEF e
  <2>1. /\ IsSession(e) /\ e.pLog = t.pLog /\ e.traceOut = t.traceOut /\ e.outCount = t.outCount
        /\ SameConns(t, e) /\ SameSettings(t, e) /\ e.seenInterrupt = t.seenInterrupt
    BY <1>2 DEF IsSession, Fields, SameConns, SameSettings, e
  <2>2. ASSUME NEW u, u = [e EXCEPT !.out = f] \/ u = [e EXCEPT !.out = f, !.outfile = zFile]
        PROVE  /\ IsSession(u) /\ u.streams = e.streams /\ u.unit = e.unit /\ u.out = f
               /\ u.pLog = e.pLog /\ u.traceOut = e.traceOut /\ u.outCount = e.outCount
               /\ SameConns(e, u) /\ SameSettings(e, u) /\ u.seenInterrupt = e.seenInterrupt
    <3>1. CASE u = [e EXCEPT !.out = f]
      BY <2>1, <3>1 DEF IsSession, Fields, SameConns, SameSettings
    <3>2. CASE u = [e EXCEPT !.out = f, !.outfile = zFile]
      BY <2>1, <3>2 DEF IsSession, Fields, SameConns, SameSettings
    <3> QED
      BY <2>2, <3>1, <3>2
  <2>3. r.s = [e EXCEPT !.out = f] \/ r.s = [e EXCEPT !.out = f, !.outfile = zFile]
    BY <1>1 DEF e
  <2> QED
    BY <2>1, <2>2, <2>3 DEF SameConns, SameSettings, e
<1>5. StreamsOpen(r.s)
  <2>1. StreamsKnown(r.s)
    BY <1>2, <1>4 DEF StreamsKnown
  <2> QED
    BY <1>2, <1>3, <1>4, <2>1 DEF StreamsOpen, Files, Null, stdout, stderr
<1>6. Unwritten(r.s)
  BY <1>2, <1>3, <1>4 DEF Unwritten
<1> QED
  BY <1>1, <1>4, <1>5, <1>6

(* .once and .output: the file there was is closed before.                 *)
LEMMA OutputCompletes ==
  ASSUME NEW t, AtRest(t), NEW a, NEW r, r \in once(t, a) \/ r \in output(t, a)
  PROVE  Completed(t, r)
<1>1. CASE r \in Fails(t)
  BY <1>1, ResultsAre, QuietCompletes DEF AtRest, SameSettings
<1>2. ASSUME NEW n \in {0, 2}, NEW zFile, r \in Redirect(output_reset([t EXCEPT !.outCount = n]), zFile)
      PROVE  Completed(t, r)
  <2> DEFINE c == [t EXCEPT !.outCount = n]
             u == output_reset(c)
  <2>1. /\ IsSession(c) /\ SameConns(t, c) /\ SameSettings(t, c) /\ c.outCount = n
        /\ c.seenInterrupt = t.seenInterrupt /\ c.traceOut = t.traceOut /\ c.out = t.out /\ c.pLog = t.pLog
        /\ c.streams = t.streams /\ c.unit = t.unit
    BY DEF AtRest, Sound, IsSession, Fields, SameConns, SameSettings
  <2> HIDE DEF c
  <2>2. StreamsOpen(c)
    BY <2>1 DEF StreamsOpen, StreamsKnown, Files, AtRest, Sound
  <2>3. /\ IsSession(u) /\ StreamsOpen(u) /\ SameConns(c, u) /\ SameSettings(c, u)
        /\ u.seenInterrupt = t.seenInterrupt /\ u.outCount = n /\ u.out = stdout /\ u.traceOut = t.traceOut
    BY <2>1, <2>2, OutputReset
  <2> HIDE DEF u
  <2>4. /\ r.by = "exit" /\ IsSession(r.s) /\ StreamsOpen(r.s) /\ Unwritten(r.s)
        /\ SameConns(u, r.s) /\ SameSettings(u, r.s) /\ r.s.seenInterrupt = t.seenInterrupt
        /\ r.s.outCount = n /\ r.s.traceOut = t.traceOut
    BY <1>2, <2>3, Redirects DEF u, c
  <2>5. SameConns(t, r.s) /\ SameSettings(t, r.s) /\ r.s.saved = Null
    BY <2>1, <2>3, <2>4 DEF SameConns, SameSettings, AtRest
  <2>6. ConnsOpen(r.s) /\ SettingsKnown(r.s) /\ SettingsStep(t, r.s)
    BY <2>4, <2>5, ConnsAlike, SettingsAlike DEF AtRest, Sound
  <2>7. OnceLeaving(r.s)
    BY <2>4 DEF OnceLeaving
  <2> QED
    BY <2>4, <2>5, <2>6, <2>7 DEF Completed, Sound
<1> QED
  BY <1>1, <1>2 DEF once, output

(* .trace: with the file there was, the connection's trace goes too.       *)
LEMMA TraceCompletes ==
  ASSUME NEW t, AtRest(t), NEW a, NEW r \in trace(t, a)
  PROVE  Completed(t, r)
<1>1. PICK d \in open_db(t) :
        \/ r \in Dies(d.s) \/ r \in Fails(d.s)
        \/ d.ok /\ LET o == output_file_open(output_file_close(d.s, d.s.traceOut), a[2]) IN
                   r \in Ok([o.s EXCEPT !.traceOut = o.f, !.conns[d.s.db].trace = o.f])
  BY DEF trace, WithDb
<1>2. CASE r \in Dies(d.s) \/ r \in Fails(d.s)
  BY <1>2, AnswersComplete DEF Answers
<1>3. CASE d.ok /\ r \notin Dies(d.s) \cup Fails(d.s)
  <2> DEFINE e == d.s
             c == output_file_close(e, e.traceOut)
             o == output_file_open(c, a[2])
             x == [e.conns[e.db] EXCEPT !.trace = o.f]
             q == [e.conns EXCEPT ![e.db] = x]
             u == [o.s EXCEPT !.traceOut = o.f, !.conns = q]
  <2>1. /\ Sound(e) /\ OnceFresh(e) /\ e.saved = Null /\ SameSettings(t, e) /\ e.seenInterrupt = t.seenInterrupt
        /\ e.db # Null
    BY <1>3, SessionWithDatabase DEF AtRest
  <2>2. r \in Ok([o.s EXCEPT !.traceOut = o.f, !.conns[e.db].trace = o.f])
    BY <1>1, <1>3
  <2> HIDE DEF e, c, o
  <2>3. /\ IsSession(c) /\ c = [e EXCEPT !.streams = c.streams] /\ StreamsKnown(c)
        /\ DOMAIN c.streams = DOMAIN e.streams \ {e.traceOut}
        /\ \A g \in DOMAIN c.streams : c.streams[g] = e.streams[g]
    BY <2>1, StreamClosed DEF c, Sound, StreamsOpen
  <2>4. /\ IsSession(o.s) /\ o.s = [c EXCEPT !.streams = o.s.streams] /\ StreamsKnown(o.s) /\ o.f \in Nat
        /\ DOMAIN o.s.streams = DOMAIN c.streams \cup ({o.f} \ {Null, stdout, stderr})
        /\ o.f > stderr => o.f \notin DOMAIN c.streams
        /\ \A g \in DOMAIN c.streams : o.s.streams[g] = c.streams[g]
    BY <2>3, FileOpened DEF o
  <2>5. o.s.conns = e.conns
    BY <2>3, <2>4 DEF IsSession, Fields
  <2>6. r \in Ok(u)
    BY <2>2, <2>5
  <2>7. DOMAIN e.conns = {e.db} /\ ConnsKnown(e)
    BY <2>1 DEF Sound, ConnsOpen, ConnsKnown
  <2>8. IsConn(x) /\ x.trace = o.f
    <3> DEFINE y == e.conns[e.db]
    <3>1. IsConn(y)
      BY <2>7 DEF ConnsKnown
    <3> HIDE DEF y
    <3>2. IsConn([y EXCEPT !.trace = o.f]) /\ [y EXCEPT !.trace = o.f].trace = o.f
      BY <3>1 DEF IsConn
    <3> QED
      BY <3>2 DEF y
  <2> HIDE DEF x
  <2>9. DOMAIN q = {e.db} /\ q = [k \in DOMAIN q |-> q[k]] /\ q[e.db] = x
    BY <2>7 DEF ConnsKnown
  <2> HIDE DEF q
  <2>10. /\ IsSession(u) /\ u.streams = o.s.streams /\ u.pLog = e.pLog /\ u.out = e.out /\ u.traceOut = o.f
         /\ u.outCount = e.outCount /\ u.unit = o.s.unit /\ SameSettings(e, u) /\ u.conns = q
         /\ u.db = e.db /\ u.globalDb = e.globalDb /\ u.saved = e.saved /\ u.seenInterrupt = e.seenInterrupt
    <3> DEFINE v == o.s
    <3> HIDE DEF v
    <3>1. /\ IsSession(v) /\ v.pLog = e.pLog /\ v.out = e.out /\ v.outCount = e.outCount /\ SameSettings(e, v)
          /\ v.db = e.db /\ v.globalDb = e.globalDb /\ v.saved = e.saved /\ v.seenInterrupt = e.seenInterrupt
      <4>1. /\ c.pLog = e.pLog /\ c.out = e.out /\ c.outCount = e.outCount /\ SameSettings(e, c)
            /\ c.db = e.db /\ c.globalDb = e.globalDb /\ c.saved = e.saved /\ c.seenInterrupt = e.seenInterrupt
        BY <2>1, <2>3 DEF IsSession, Fields, SameSettings, Sound
      <4>2. /\ v.pLog = c.pLog /\ v.out = c.out /\ v.outCount = c.outCount /\ SameSettings(c, v)
            /\ v.db = c.db /\ v.globalDb = c.globalDb /\ v.saved = c.saved /\ v.seenInterrupt = c.seenInterrupt
        BY <2>3, <2>4 DEF IsSession, Fields, SameSettings, v
      <4> QED
        BY <2>4, <4>1, <4>2 DEF SameSettings, v
    <3>2. /\ IsSession(u) /\ u.streams = v.streams /\ u.pLog = v.pLog /\ u.out = v.out /\ u.traceOut = o.f
          /\ u.outCount = v.outCount /\ u.unit = v.unit /\ SameSettings(v, u) /\ u.conns = q
          /\ u.db = v.db /\ u.globalDb = v.globalDb /\ u.saved = v.saved /\ u.seenInterrupt = v.seenInterrupt
      <4>1. u = [v EXCEPT !.traceOut = o.f, !.conns = q]
        BY DEF v
      <4> HIDE DEF u
      <4> QED
        BY <3>1, <4>1 DEF IsSession, Fields, SameSettings
    <3> HIDE DEF u
    <3> QED
      BY <3>1, <3>2 DEF SameSettings, v
  <2> HIDE DEF u
  <2>11. StreamsOpen(u)
    <3>1. StreamsKnown(u)
      BY <2>4, <2>10 DEF StreamsKnown
    <3> QED
      BY <2>1, <2>3, <2>4, <2>10, <3>1 DEF StreamsOpen, Files, Null, stdout, stderr, Sound
  <2>12. Unwritten(e) => Unwritten(u)
    BY <2>1, <2>3, <2>4, <2>10 DEF Unwritten, StreamsOpen, Files, Null, stdout, stderr, Sound
  <2>13. ConnsOpen(u)
    <3>1. ConnsKnown(u)
      BY <2>7, <2>8, <2>9, <2>10 DEF ConnsKnown
    <3> QED
      BY <2>1, <2>7, <2>8, <2>9, <2>10, <3>1 DEF ConnsOpen, Sound
  <2>14. SameSettings(t, u)
    BY <2>1, <2>10 DEF SameSettings
  <2>15. SettingsKnown(u) /\ SettingsStep(t, u)
    BY <2>14, SettingsAlike DEF AtRest, Sound
  <2>16. OnceLeaving(u) /\ u.saved = Null
    BY <2>1, <2>10, <2>12 DEF OnceLeaving, OnceFresh
  <2> QED
    BY <2>1, <2>6, <2>10, <2>11, <2>13, <2>15, <2>16, ResultsAre DEF Completed, Sound
<1> QED
  BY <1>1, <1>2, <1>3

(* .import forgets Ctrl-C, and in csv mode changes a separator.            *)
LEMMA ImportCompletes ==
  ASSUME NEW t, AtRest(t), NEW a, NEW r \in import(t, a)
  PROVE  Completed(t, r)
<1> DEFINE z == [t EXCEPT !.seenInterrupt = 0]
<1>1. CASE r \in Ok(t)
  BY <1>1, ResultsAre, QuietCompletes DEF AtRest, SameSettings
<1>2. CASE r \notin Ok(t)
  <2>1. PICK o \in open_db(z) :
          \/ r \in Dies(o.s) \/ r \in Returns(o.s, 1)
          \/ LET i == ImportSeparators(o.s) IN r \in Either(i) \/ r \in Returns(i, 0) \/ r \in Returns(i, 1)
    BY <1>2 DEF import, WithDb
  <2>2. IsSession(z) /\ SameStreams(t, z) /\ SameConns(t, z) /\ SameSettings(t, z) /\ z.seenInterrupt = 0
    BY DEF AtRest, Sound, IsSession, Fields, SameStreams, SameConns, SameSettings
  <2> HIDE DEF z
  <2>3. AtRest(z)
    <3>1. StreamsOpen(z) /\ OnceFresh(z)
      BY <2>2, StreamsAlike DEF AtRest, Sound
    <3>2. ConnsOpen(z)
      BY <2>2, ConnsAlike DEF AtRest, Sound, SameStreams
    <3>3. SettingsKnown(z)
      BY <2>2, SettingsAlike DEF AtRest, Sound
    <3> QED
      BY <2>2, <3>1, <3>2, <3>3 DEF AtRest, Sound, SameConns
  <2>4. /\ Sound(o.s) /\ OnceFresh(o.s) /\ o.s.saved = Null
        /\ SameSettings(z, o.s) /\ o.s.seenInterrupt = 0
    BY <2>2, <2>3, SessionWithDatabase DEF AtRest
  <2> DEFINE i == ImportSeparators(o.s)
  <2>5. /\ Sound(i) /\ OnceFresh(i) /\ i.saved = Null
        /\ SameSettings(z, i) /\ i.seenInterrupt = 0
    <3> DEFINE v == [o.s EXCEPT !.rowSeparator = <<LF>>]
    <3>1. IsSession(v) /\ SameStreams(o.s, v) /\ SameConns(o.s, v) /\ SameSettings(o.s, v) /\ v.seenInterrupt = o.s.seenInterrupt
      BY <2>4 DEF Sound, IsSession, Fields, SameStreams, SameConns, SameSettings
    <3> HIDE DEF v
    <3>2. StreamsOpen(v) /\ OnceFresh(v)
      BY <2>4, <3>1, StreamsAlike DEF Sound
    <3>3. ConnsOpen(v)
      BY <2>4, <3>1, ConnsAlike DEF Sound, SameStreams
    <3>4. SettingsKnown(v)
      BY <2>4, <3>1, SettingsAlike DEF Sound
    <3>5. i = v \/ i = o.s
      BY DEF ImportSeparators, v
    <3> QED
      BY <2>4, <3>1, <3>2, <3>3, <3>4, <3>5 DEF Sound, SameConns, SameSettings
  <2> HIDE DEF i
  <2>6. (r.s = o.s \/ r.s = i) /\ r.by \in {"exit", "return", "process", "read"}
    BY <2>1, ResultsAre DEF i
  <2>7. Completed(z, r)
    BY <2>2, <2>3, <2>4, <2>5, <2>6, QuietCompletes
  <2>8. SettingsStep(t, r.s)
    BY <2>2, <2>7 DEF Completed, SettingsStep, SameSettings, Kept, Settings
  <2> QED
    BY <2>2, <2>7, <2>8 DEF Completed
<1> QED
  BY <1>1, <1>2

(* .open keeps the database there was aside while it opens another.        *)
LEMMA OpenCompletes ==
  ASSUME NEW t, AtRest(t), NEW a, NEW r \in open(t, a)
  PROVE  Completed(t, r)
<1> DEFINE file == IF Len(a) >= 2 THEN a[2] ELSE ""
           z == [t EXCEPT !.db = Null, !.saved = t.db, !.savedFile = t.file, !.file = file]
<1>1. PICK o \in open_db(z) : r.s = o.s /\ r.by = "open"
  BY DEF open, Result
<1> HIDE DEF file
<1>2. /\ IsSession(z) /\ SameStreams(t, z) /\ SameSettings(t, z) /\ z.db = Null /\ z.saved = t.db
      /\ z.globalDb = t.globalDb /\ z.conns = t.conns /\ z.seenInterrupt = t.seenInterrupt
  BY DEF AtRest, Sound, IsSession, Fields, SameStreams, SameSettings
<1> HIDE DEF z
<1>3. ConnsKnown(z)
  BY <1>2 DEF AtRest, Sound, ConnsOpen, ConnsKnown, Null
<1>4. /\ IsSession(o.s) /\ SameStreams(z, o.s) /\ SameSettings(z, o.s)
      /\ o.s.saved = t.db /\ o.s.seenInterrupt = t.seenInterrupt
      /\ ConnsKnown(o.s) /\ o.s.globalDb = o.s.db
      /\ o.s.db = Null => o.s.conns = t.conns
      /\ o.s.db # Null => /\ o.s.db \notin DOMAIN t.conns
                          /\ DOMAIN o.s.conns = DOMAIN t.conns \cup {o.s.db}
                          /\ \A c \in DOMAIN t.conns : o.s.conns[c] = t.conns[c]
                          /\ o.s.conns[o.s.db].trace = Null
  BY <1>2, <1>3, DatabaseOpened
<1>5. SameStreams(t, o.s) /\ SameSettings(t, o.s)
  BY <1>2, <1>4 DEF SameStreams, SameSettings
<1>6. ConnsOpen(o.s)
  <2>1. DOMAIN t.conns = {t.db} \ {Null} /\ \A c \in DOMAIN t.conns : t.conns[c].trace \in {Null, t.traceOut}
    BY DEF AtRest, Sound, ConnsOpen
  <2>2. CASE o.s.db = Null
    BY <1>4, <1>5, <2>1, <2>2 DEF ConnsOpen, SameStreams
  <2>3. CASE o.s.db # Null
    BY <1>4, <1>5, <2>1, <2>3 DEF ConnsOpen, SameStreams
  <2> QED
    BY <2>2, <2>3
<1>7. StreamsOpen(o.s) /\ OnceFresh(o.s) /\ SettingsKnown(o.s) /\ SettingsStep(t, o.s)
  BY <1>5, StreamsAlike, SettingsAlike DEF AtRest, Sound
<1> QED
  BY <1>1, <1>4, <1>6, <1>7 DEF Completed, Sound

(* Every dot-command.                                                      *)
LEMMA CommandCompletes ==
  ASSUME NEW t, AtRest(t), NEW a, NEW r \in do_meta_command(t, a)
  PROVE  Completed(t, r)
<1>1. CASE \/ r \in show(t, a) \/ r \in print(t, a) \/ r \in vfsname(t, a) \/ r \in clone(t, a) \/ r \in system(t, a)
           \/ r \in exit(t, a) \/ r \in quit(t) \/ r \in read(t, a) \/ r \in Ok(t) \/ r \in Fails(t) \/ r \in Returns(t, 0)
  BY <1>1, PlainCommands
<1>2. CASE \/ r \in databases(t, a) \/ r \in indexes(t, a) \/ r \in schema(t, a) \/ r \in fullschema(t, a)
           \/ r \in shell_dbinfo_command(t, a) \/ r \in tables(t, a) \/ r \in dump(t, a) \/ r \in save(t, a)
           \/ r \in restore(t, a) \/ r \in limits(t, a) \/ r \in load(t, a) \/ r \in timeout(t, a) \/ r \in testctrl(t, a)
  BY <1>2, DatabaseCommands
<1>3. CASE r \in Switch(t, a) \/ r \in nullvalue(t, a) \/ r \in separator(t, a) \/ r \in width(t, a)
  BY <1>3, PlainSettings
<1>4. CASE r \in mode(t, a) \/ r \in explain(t, a)
  BY <1>4, ModeCompletes, ExplainCompletes
<1>5. CASE r \in once(t, a) \/ r \in output(t, a) \/ r \in log(t, a) \/ r \in trace(t, a)
  BY <1>5, OutputCompletes, LogCompletes, TraceCompletes
<1>6. CASE r \in import(t, a) \/ r \in open(t, a)
  BY <1>6, ImportCompletes, OpenCompletes
<1> QED
  BY <1>1, <1>2, <1>3, <1>4, <1>5, <1>6 DEF do_meta_command

-----------------------------------------------------------------------------
(* The calls of process_input.                                             *)

(* Only the outermost call may read something else than a file of .read.   *)
IsInput(fr) ==
  /\ fr = [k \in {"kind", "zLine", "zSql", "errCnt", "quit", "typed", "given"} |-> fr[k]]
  /\ fr.errCnt \in Nat
Stacked(fs) ==
  /\ Len(fs) \in Nat /\ fs = [k \in 1..Len(fs) |-> fs[k]]
  /\ \A k \in 1..Len(fs) : IsInput(fs[k]) /\ (k > 1 => fs[k].kind = "file")

(* -bail has been broken off: the call that is left has the error that     *)
(* leaves it, and nothing that was read waits to be run.                   *)
Stopped ==
  /\ frames # <<>> /\ ~opening /\ Top.zLine = {} /\ Top.errCnt > 0
  /\ "bail" \in s.on /\ ~AtTerminal(Top)

(* After Ctrl-C and the one unit that was run since, nothing that was read *)
(* from a file waits to be run.                                            *)
Interrupted == s.seenInterrupt > 0 /\ (frames # <<>> /\ ~opening => Top.kind = "tty" \/ Top.zLine = {})

(* The inductive invariant.  What the properties say of a session holds as *)
(* long as the program runs; the two properties of steps need to know what *)
(* is read at the moment and what explain mode keeps.                      *)
Live ==
  /\ Sound(s) /\ s.seenInterrupt \in Nat
  /\ ~opening => s.saved = Null
  /\ s.normalMode.valid => before = Kept(s)
  /\ stop => Stopped
  /\ since = 1 => Interrupted
Inv ==
  /\ Stacked(frames) /\ OnceFresh(s) /\ since \in 0..1 /\ nRun \in Nat
  /\ pc \in {"start", "done"} => frames = <<>> /\ ~opening
  /\ pc # "done" => Live

(* The stack of calls is a sequence, one pushed onto it is, and what is    *)
(* left of it when one returns.                                            *)
LEMMA SeqIsFunction ==
  ASSUME NEW S, NEW q \in Seq(S)
  PROVE  q = [k \in 1..Len(q) |-> q[k]]
OBVIOUS

(* All but the last element of a sequence.                                 *)
LEMMA FrontIs ==
  ASSUME NEW S, NEW q \in Seq(S), Len(q) > 0
  PROVE  /\ Front(q) \in Seq(S) /\ Len(Front(q)) = Len(q) - 1
         /\ \A k \in 1..(Len(q) - 1) : Front(q)[k] = q[k]
<1> DEFINE n == Len(q) - 1
<1>1. n \in Int /\ n \in Nat /\ 1 \in Int
  OBVIOUS
<1>2. \A k \in 1..n : q[k] \in S
  OBVIOUS
<1> HIDE DEF n
<1>3. /\ SubSeq(q, 1, n) \in Seq(S)
      /\ Len(SubSeq(q, 1, n)) = IF 1 <= n THEN n - 1 + 1 ELSE 0
      /\ \A k \in 1..(n - 1 + 1) : SubSeq(q, 1, n)[k] = q[1 + k - 1]
  BY <1>1, <1>2, SubSeqProperties
<1>4. Front(q) = SubSeq(q, 1, n)
  BY DEF Front, n
<1>5. (IF 1 <= n THEN n - 1 + 1 ELSE 0) = n /\ n - 1 + 1 = n
  BY <1>1
<1>6. \A k \in 1..n : 1 + k - 1 = k
  BY <1>1
<1> QED
  BY <1>3, <1>4, <1>5, <1>6 DEF n

(* A stack is a sequence of its calls and of any other.                    *)
LEMMA StackIsSeq ==
  ASSUME NEW fs, Stacked(fs), NEW fr
  PROVE  fs \in Seq({fs[k] : k \in 1..Len(fs)} \cup {fr})
BY DEF Stacked

(* One call more, a file's unless it is the first.                         *)
LEMMA Push ==
  ASSUME NEW fs, Stacked(fs), NEW fr, IsInput(fr), fs # <<>> => fr.kind = "file"
  PROVE  Stacked(Append(fs, fr)) /\ Append(fs, fr) # <<>> /\ Last(Append(fs, fr)) = fr
<1> DEFINE S == {fs[k] : k \in 1..Len(fs)} \cup {fr}
           q == Append(fs, fr)
<1>1. fs \in Seq(S) /\ fr \in S
  BY StackIsSeq
<1> HIDE DEF S
<1>2. /\ q \in Seq(S) /\ Len(q) = Len(fs) + 1 /\ q[Len(q)] = fr
      /\ \A k \in 1..Len(fs) : q[k] = fs[k]
  BY <1>1
<1>3. fs = <<>> \/ Len(fs) > 0
  BY <1>1
<1>4. Len(fs) \in Nat
  BY DEF Stacked
<1> HIDE DEF q
<1>5. q = [k \in 1..Len(q) |-> q[k]]
  BY <1>2, SeqIsFunction
<1>6. \A k \in 1..Len(q) : IsInput(q[k]) /\ (k > 1 => q[k].kind = "file")
  <2> TAKE k \in 1..Len(q)
  <2>1. CASE k \in 1..Len(fs)
    BY <1>2, <2>1 DEF Stacked
  <2>2. CASE k = Len(fs) + 1
    BY <1>2, <1>3, <1>4, <2>2
  <2> QED
    BY <1>2, <1>4, <2>1, <2>2
<1>7. Stacked(q) /\ Last(q) = fr /\ q # <<>>
  <2>1. Len(q) \in Nat /\ Len(q) # 0
    BY <1>2, <1>4
  <2>2. Stacked(q)
    BY <1>5, <1>6, <2>1 DEF Stacked
  <2>3. Last(q) = fr
    BY <1>2 DEF Last
  <2> QED
    BY <2>1, <2>2, <2>3
<1> QED
  BY <1>7 DEF q

(* One call less: the last, which is a file's unless it is the only one.   *)
LEMMA Pop ==
  ASSUME NEW fs, Stacked(fs), fs # <<>>
  PROVE  /\ Stacked(Front(fs)) /\ IsInput(Last(fs))
         /\ Front(fs) # <<>> => Last(fs).kind = "file"
<1> DEFINE S == {fs[k] : k \in 1..Len(fs)} \cup {0}
           q == Front(fs)
<1>1. fs \in Seq(S) /\ Len(fs) \in Nat /\ Len(fs) > 0
  <2>1. fs \in Seq(S)
    BY StackIsSeq
  <2> HIDE DEF S
  <2> QED
    BY <2>1
<1> HIDE DEF S
<1>2. /\ q \in Seq(S) /\ Len(q) = Len(fs) - 1
      /\ \A k \in 1..(Len(fs) - 1) : q[k] = fs[k]
  BY <1>1, FrontIs
<1> HIDE DEF q
<1>3. q = [k \in 1..Len(q) |-> q[k]]
  BY <1>2, SeqIsFunction
<1>4. Stacked(q)
  BY <1>1, <1>2, <1>3 DEF Stacked
<1>5. q # <<>> => Len(fs) > 1
  BY <1>1, <1>2
<1>6. IsInput(fs[Len(fs)]) /\ (Len(fs) > 1 => fs[Len(fs)].kind = "file")
  BY <1>1 DEF Stacked
<1> QED
  BY <1>4, <1>5, <1>6 DEF Last, q

(* A call that begins has read nothing and has no error.                   *)
LEMMA NewInput ==
  ASSUME NEW kind
  PROVE  IsInput(Input(kind)) /\ Input(kind).kind = kind /\ Input(kind).zLine = {} /\ Input(kind).errCnt = 0
BY DEF IsInput, Input

(* No call at all.                                                         *)
LEMMA NoInput == Stacked(<<>>)
BY DEF Stacked

(* What a step does to the innermost call leaves a stack of calls.         *)
LEMMA InputReplaced ==
  ASSUME NEW fs, Stacked(fs), fs # <<>>, NEW fr, IsInput(fr), fr.kind = Last(fs).kind
  PROVE  /\ Stacked(Append(Front(fs), fr)) /\ Append(Front(fs), fr) # <<>>
         /\ Last(Append(Front(fs), fr)) = fr
BY Pop, Push

(* Where a command returns to, whatever called it: nothing is waiting to   *)
(* be processed there, and under -bail an error is remembered.             *)
LEMMA Returned ==
  ASSUME NEW fs, NEW t, NEW rc, Stacked(fs), ReturnTo(fs, t, rc), interactive' = interactive,
         stop => rc = 1 /\ "bail" \in t.on
  PROVE  /\ s' = t /\ opening' = FALSE /\ Stacked(frames')
         /\ frames' # <<>> => Top'.zLine = {}
         /\ pc' = pc \/ (pc' = "done" /\ frames' = <<>>)
         /\ stop' => pc' = "done" \/ Stopped'
<1>1. CASE fs # <<>>
  <2> DEFINE fr == Last(fs)
             left == fr.quit \/ rc = 2
             n == IF rc = 1 THEN fr.errCnt + 1 ELSE fr.errCnt
             gr == [fr EXCEPT !.zLine = {}, !.quit = left, !.errCnt = n]
  <2>1. Stacked(Front(fs)) /\ IsInput(fr) /\ (Front(fs) # <<>> => fr.kind = "file")
    BY <1>1, Pop
  <2>2. /\ s' = t /\ opening' = FALSE /\ frames' = Append(Front(fs), gr) /\ pc' = pc
        /\ stop' = ((stop \/ (rc = 1 /\ "bail" \in t.on)) /\ ~AtTerminal(fr))
    BY <1>1 DEF ReturnTo
  <2>3. n \in Nat /\ (rc = 1 => n > 0)
    BY <2>1 DEF IsInput
  <2> HIDE DEF fr, left, n
  <2>4. IsInput(gr) /\ gr.kind = fr.kind /\ gr.zLine = {} /\ gr.errCnt = n
    BY <2>1, <2>3 DEF IsInput
  <2> HIDE DEF gr
  <2>5. Stacked(frames') /\ frames' # <<>> /\ Last(frames') = gr
    BY <2>1, <2>2, <2>4, Push
  <2>6. Top' = gr
    BY <2>5 DEF Top
  <2>7. stop' => Stopped'
    <3> SUFFICES ASSUME stop' PROVE Stopped'
      OBVIOUS
    <3>1. rc = 1 /\ "bail" \in t.on /\ ~AtTerminal(fr)
      BY <2>2
    <3>2. ~(gr.kind = "tty" /\ interactive')
      BY <2>4, <3>1 DEF AtTerminal
    <3>3. Top'.kind = gr.kind /\ Top'.zLine = {} /\ Top'.errCnt > 0
      BY <2>3, <2>4, <2>6, <3>1
    <3> QED
      BY <2>2, <2>5, <3>1, <3>2, <3>3 DEF Stopped, AtTerminal
  <2> QED
    BY <2>2, <2>4, <2>5, <2>6, <2>7
<1>2. CASE fs = <<>>
  <2>1. /\ s' = t /\ opening' = FALSE /\ frames' = <<>> /\ stop' = stop
        /\ pc' = IF rc # 0 /\ (pc = "args" \/ "bail" \in t.on) THEN "done" ELSE pc
    BY <1>2 DEF ReturnTo
  <2>2. rc = 1 => rc # 0
    OBVIOUS
  <2>3. stop' => pc' = "done"
    BY <2>1, <2>2
  <2> QED
    BY <2>1, <2>3, NoInput
<1> QED
  BY <1>1, <1>2

-----------------------------------------------------------------------------
(* What a command or an SQL text does to the run.                          *)

(* The unit is all that is different in a session that is given one.       *)
LEMMA UnitGiven ==
  ASSUME NEW t, AtRest(t), NEW n \in Nat
  PROVE  LET u == [t EXCEPT !.unit = n] IN
         /\ AtRest(u) /\ SameSettings(t, u) /\ u.seenInterrupt = t.seenInterrupt /\ u.unit = n
<1> DEFINE u == [t EXCEPT !.unit = n]
<1>1. /\ IsSession(u) /\ SameConns(t, u) /\ SameSettings(t, u) /\ u.seenInterrupt = t.seenInterrupt /\ u.unit = n
      /\ u.out = t.out /\ u.pLog = t.pLog /\ u.traceOut = t.traceOut /\ u.streams = t.streams /\ u.outCount = t.outCount
  BY DEF AtRest, Sound, IsSession, Fields, SameConns, SameSettings
<1> HIDE DEF u
<1>2. StreamsOpen(u)
  BY <1>1 DEF AtRest, Sound, StreamsOpen, StreamsKnown, Files
<1>3. OnceFresh(u)
  BY <1>1 DEF AtRest, OnceFresh, Unwritten
<1>4. ConnsOpen(u) /\ SettingsKnown(u)
  BY <1>1, ConnsAlike, SettingsAlike DEF AtRest, Sound
<1>5. AtRest(u)
  BY <1>1, <1>2, <1>3, <1>4 DEF AtRest, Sound, SameConns
<1> QED
  BY <1>1, <1>5 DEF u

(* Steps that leave the settings alone before and after one that does not. *)
LEMMA SettingsAround ==
  ASSUME NEW t, NEW u, NEW v, NEW w, SameSettings(t, u), SettingsStep(u, v), SameSettings(v, w)
  PROVE  SettingsStep(t, w)
BY DEF SameSettings, SettingsStep, Kept, Settings

(* What is known after a step that runs a command or an SQL text: the      *)
(* session is sound while the program runs, and the line is processed.     *)
Outcome ==
  /\ Stacked(frames') /\ OnceFresh(s') /\ SettingsStep(s, s')
  /\ pc' = pc \/ (pc' = "done" /\ frames' = <<>> /\ ~opening')
  /\ pc' # "done" =>
       /\ Sound(s') /\ s'.seenInterrupt \in Nat /\ (~opening' => s'.saved = Null)
       /\ stop' => Stopped'
       /\ frames' # <<>> /\ ~opening' => Top'.zLine = {}

(* Sessions that commands and SQL are given: none is when -bail is broken  *)
(* off or when .open is not done.                                          *)
Ready == Inv /\ pc \notin {"start", "done"} /\ ~opening /\ ~stop

(* The end of the program, in whatever command.                            *)
LEMMA Exits ==
  ASSUME NEW t, OnceFresh(t), SettingsStep(s, t), Exit(t)
  PROVE  Outcome
BY NoInput DEF Exit, Outcome

(* What a command that has returned leaves.                                *)
LEMMA Resumes ==
  ASSUME NEW fs, NEW t, NEW rc, Stacked(fs), ReturnTo(fs, t, rc), interactive' = interactive,
         stop => rc = 1 /\ "bail" \in t.on,
         Sound(t), OnceFresh(t), t.saved = Null, t.seenInterrupt \in Nat, SettingsStep(s, t)
  PROVE  Outcome
BY Returned DEF Outcome

(* A dot-command.                                                          *)
LEMMA CommandStep ==
  ASSUME Ready, NEW line, Command(line), interactive' = interactive
  PROVE  Outcome
<1> DEFINE n == IF frames = <<>> THEN 0 ELSE nRun + 1
           t == [s EXCEPT !.unit = n]
<1>1. /\ Stacked(frames) /\ AtRest(s) /\ s.seenInterrupt \in Nat /\ n \in Nat
  BY DEF Ready, Inv, Live, AtRest
<1>2. PICK r \in do_meta_command(t, Tail(line)) :
        CASE r.by = "process" -> Exit(r.s)
          [] r.by = "exit" -> ReturnTo(frames, meta_command_exit(r.s), r.rc)
          [] r.by = "return" -> ReturnTo(frames, r.s, r.rc)
          [] r.by = "open" -> opening' = TRUE /\ s' = r.s /\ UNCHANGED <<pc, frames, stop>>
          [] r.by = "read" -> frames' = Append(frames, Input("file")) /\ s' = r.s /\ UNCHANGED <<pc, opening, stop>>
  BY DEF Command
<1> HIDE DEF n
<1>3. AtRest(t) /\ SameSettings(s, t) /\ t.seenInterrupt = s.seenInterrupt
  BY <1>1, UnitGiven
<1> HIDE DEF t
<1>4. Completed(t, r)
  BY <1>3, CommandCompletes
<1>5. SettingsStep(s, r.s) /\ r.s.seenInterrupt \in Nat
  <2>1. SameSettings(r.s, r.s)
    BY DEF SameSettings
  <2> QED
    BY <1>1, <1>3, <1>4, <2>1, SettingsAround DEF Completed
<1>6. CASE r.by = "process"
  <2>1. Exit(r.s)
    BY <1>2, <1>6
  <2> QED
    BY <1>4, <1>5, <1>6, <2>1, Exits DEF Completed
<1>7. CASE r.by = "exit"
  <2> DEFINE u == meta_command_exit(r.s)
  <2>1. ReturnTo(frames, u, r.rc)
    BY <1>2, <1>7
  <2>2. /\ IsSession(u) /\ StreamsOpen(u) /\ OnceFresh(u) /\ SameConns(r.s, u) /\ SameSettings(r.s, u)
        /\ u.seenInterrupt = r.s.seenInterrupt /\ u.traceOut = r.s.traceOut
    BY <1>4, <1>7, CommandExits DEF Completed, Sound
  <2> HIDE DEF u
  <2>3. Sound(u) /\ u.saved = Null
    BY <1>4, <1>7, <2>2, ConnsAlike, SettingsAlike DEF Completed, Sound, SameConns
  <2>4. SettingsStep(s, u)
    <3>1. SameSettings(s, s)
      BY DEF SameSettings
    <3> QED
      BY <1>5, <2>2, <3>1, SettingsAround
  <2> QED
    BY <1>1, <1>5, <2>1, <2>2, <2>3, <2>4, Resumes DEF Ready
<1>8. CASE r.by = "return"
  <2>1. ReturnTo(frames, r.s, r.rc)
    BY <1>2, <1>8
  <2> QED
    BY <1>1, <1>4, <1>5, <1>8, <2>1, Resumes DEF Completed, Ready
<1>9. CASE r.by = "open"
  <2>1. opening' = TRUE /\ s' = r.s /\ UNCHANGED <<pc, frames, stop>>
    BY <1>2, <1>9
  <2> QED
    BY <1>1, <1>4, <1>5, <1>9, <2>1 DEF Outcome, Completed, Ready
<1>10. CASE r.by = "read"
  <2>1. frames' = Append(frames, Input("file")) /\ s' = r.s /\ UNCHANGED <<pc, opening, stop>>
    BY <1>2, <1>10
  <2>2. Stacked(frames') /\ frames' # <<>> /\ Last(frames') = Input("file")
    BY <1>1, <2>1, NewInput, Push
  <2>3. Top'.zLine = {}
    BY <2>2, NewInput DEF Top
  <2> QED
    BY <1>1, <1>4, <1>5, <1>10, <2>1, <2>2, <2>3 DEF Outcome, Completed, Ready
<1> QED
  BY <1>4, <1>6, <1>7, <1>8, <1>9, <1>10 DEF Completed

(* What SQL writes, if it writes: one part of the output or two.           *)
LEMMA SqlWrites ==
  ASSUME NEW t, Sound(t), NEW z, NEW hit
  PROVE  LET e == shell_exec(t, z, hit) IN
         /\ Sound(e.s) /\ SameConns(t, e.s) /\ SameSettings(t, e.s) /\ e.s.seenInterrupt = t.seenInterrupt
         /\ e.s.outCount = t.outCount
         /\ t.unit = 0 => e.s = t
<1> DEFINE u == Wrote(t)
           v == Wrote(u)
           e == shell_exec(t, z, hit)
           Same(x, y) == /\ Sound(y) /\ SameConns(x, y) /\ SameSettings(x, y) /\ y.seenInterrupt = x.seenInterrupt
                         /\ y.outCount = x.outCount /\ y.unit = x.unit
                         /\ x.unit = 0 => y = x
<1>1. e.s \in {t, u, v}
  BY DEF shell_exec, display_stats
<1> HIDE DEF e
<1>2. ASSUME NEW x, Sound(x)
      PROVE  Same(x, Wrote(x))
  <2> DEFINE y == Wrote(x)
  <2> HIDE DEF y
  <2>1. /\ IsSession(y) /\ StreamsOpen(y) /\ SameConns(x, y) /\ SameSettings(x, y)
        /\ y.seenInterrupt = x.seenInterrupt /\ y.outCount = x.outCount /\ y.unit = x.unit
        /\ y.traceOut = x.traceOut /\ (y.unit = 0 => y = x)
    BY <1>2, OutputWritten DEF Sound, y
  <2>2. ConnsOpen(y) /\ SettingsKnown(y)
    BY <1>2, <2>1, ConnsAlike, SettingsAlike DEF Sound
  <2>3. Same(x, y)
    BY <2>1, <2>2 DEF Sound
  <2> QED
    BY <2>3 DEF y
<1>3. Same(t, t)
  BY DEF SameConns, SameSettings
<1>4. Same(t, u)
  BY <1>2
<1> HIDE DEF u
<1>5. Same(u, v)
  BY <1>2, <1>4
<1> HIDE DEF v
<1>6. Same(t, v)
  BY <1>4, <1>5 DEF SameConns, SameSettings
<1>7. e.s = t \/ e.s = u \/ e.s = v
  BY <1>1
<1>8. Same(t, e.s)
  <2> HIDE DEF Same
  <2> QED
    BY <1>3, <1>4, <1>6, <1>7
<1> QED
  BY <1>8 DEF e

(* Output is given up: what .once was to have goes with it.                *)
LEMMA OutputGivenUp ==
  ASSUME NEW t, Sound(t), t.saved = Null
  PROVE  LET u == [output_reset(t) EXCEPT !.outCount = 0] IN
         Sound(u) /\ OnceFresh(u) /\ u.saved = Null /\ SameSettings(t, u) /\ u.seenInterrupt = t.seenInterrupt
<1> DEFINE v == output_reset(t)
           u == [v EXCEPT !.outCount = 0]
<1>1. /\ IsSession(v) /\ StreamsOpen(v) /\ SameConns(t, v) /\ SameSettings(t, v)
      /\ v.seenInterrupt = t.seenInterrupt /\ v.traceOut = t.traceOut
  BY OutputReset DEF Sound
<1> HIDE DEF v
<1>2. /\ IsSession(u) /\ SameConns(v, u) /\ SameSettings(v, u) /\ u.outCount = 0
      /\ u.seenInterrupt = v.seenInterrupt /\ u.traceOut = v.traceOut /\ u.out = v.out /\ u.pLog = v.pLog
      /\ u.streams = v.streams /\ u.unit = v.unit
  BY <1>1 DEF IsSession, Fields, SameConns, SameSettings
<1> HIDE DEF u
<1>3. StreamsOpen(u)
  BY <1>1, <1>2 DEF StreamsOpen, StreamsKnown, Files
<1>4. SameConns(t, u) /\ SameSettings(t, u) /\ u.traceOut = t.traceOut
  BY <1>1, <1>2 DEF SameConns, SameSettings
<1>5. ConnsOpen(u) /\ SettingsKnown(u)
  BY <1>4, ConnsAlike, SettingsAlike DEF Sound
<1> QED
  BY <1>1, <1>2, <1>3, <1>4, <1>5 DEF Sound, OnceFresh, SameConns, u, v

(* Ctrl-C once more.                                                       *)
LEMMA InterruptNoted ==
  ASSUME NEW t, Sound(t), NEW n \in Nat
  PROVE  LET u == [t EXCEPT !.seenInterrupt = n] IN
         /\ Sound(u) /\ SameConns(t, u) /\ SameSettings(t, u) /\ u.seenInterrupt = n
         /\ OnceFresh(t) => OnceFresh(u)
<1> DEFINE u == [t EXCEPT !.seenInterrupt = n]
<1>1. /\ IsSession(u) /\ SameConns(t, u) /\ SameSettings(t, u) /\ SameStreams(t, u) /\ u.seenInterrupt = n
  BY DEF Sound, IsSession, Fields, SameConns, SameSettings, SameStreams
<1> HIDE DEF u
<1>2. StreamsOpen(u) /\ (OnceFresh(t) => OnceFresh(u))
  BY <1>1, StreamsAlike DEF Sound
<1>3. ConnsOpen(u) /\ SettingsKnown(u)
  BY <1>1, ConnsAlike, SettingsAlike DEF Sound, SameStreams
<1> QED
  BY <1>1, <1>2, <1>3 DEF Sound, u

(* An SQL text, of unit n: open_db leaves a session like the one there was.*)
LEMMA SqlOpens ==
  ASSUME Ready, NEW n \in Nat, NEW r \in open_db([s EXCEPT !.unit = n])
  PROVE  /\ Sound(r.s) /\ OnceFresh(r.s) /\ r.s.saved = Null /\ r.s.unit = n /\ r.s.seenInterrupt \in Nat
         /\ SameSettings(s, r.s) /\ SettingsStep(s, r.s)
<1> DEFINE t0 == [s EXCEPT !.unit = n]
<1>1. AtRest(s) /\ s.seenInterrupt \in Nat
  BY DEF Ready, Inv, Live, AtRest
<1>2. AtRest(t0) /\ SameSettings(s, t0) /\ t0.seenInterrupt = s.seenInterrupt /\ t0.unit = n
  BY <1>1, UnitGiven
<1> HIDE DEF t0
<1>3. r \in open_db(t0)
  BY DEF t0
<1>4. /\ Sound(r.s) /\ OnceFresh(r.s) /\ r.s.saved = Null /\ SameStreams(t0, r.s) /\ SameSettings(t0, r.s)
      /\ r.s.seenInterrupt = t0.seenInterrupt
  BY <1>2, <1>3, SessionWithDatabase DEF AtRest
<1>5. SameSettings(s, r.s) /\ r.s.unit = n
  BY <1>2, <1>4 DEF SameSettings, SameStreams
<1>6. SettingsStep(s, r.s)
  BY <1>1, <1>5, SettingsAlike DEF AtRest, Sound
<1> QED
  BY <1>1, <1>2, <1>4, <1>5, <1>6

(* What process_input makes of the session an SQL text leaves, whose       *)
(* output may be given up.                                                 *)
LEMMA SqlRuns ==
  ASSUME NEW t, Sound(t), OnceFresh(t), t.saved = Null, t.seenInterrupt \in Nat, SameSettings(s, t), NEW z, NEW hit
  PROVE  LET u == GivenUp(shell_exec(t, z, hit).s) IN
         Sound(u) /\ OnceFresh(u) /\ u.saved = Null /\ u.seenInterrupt \in Nat /\ SameSettings(s, u)
<1> DEFINE e == shell_exec(t, z, hit).s
           x == [output_reset(e) EXCEPT !.outCount = 0]
           u == GivenUp(e)
<1>1. /\ Sound(e) /\ SameConns(t, e) /\ SameSettings(t, e) /\ e.seenInterrupt = t.seenInterrupt
      /\ e.outCount = t.outCount
  BY SqlWrites
<1> HIDE DEF e
<1>2. e.saved = Null /\ e.outCount \in 0..1
  BY <1>1 DEF SameConns, OnceFresh
<1>3. /\ Sound(x) /\ OnceFresh(x) /\ x.saved = Null /\ SameSettings(e, x) /\ x.seenInterrupt = e.seenInterrupt
  BY <1>1, <1>2, OutputGivenUp
<1> HIDE DEF x
<1>4. ~(e.outCount > 0) => OnceFresh(e)
  BY <1>2 DEF OnceFresh
<1>5. SameSettings(s, e) /\ SameSettings(s, x)
  BY <1>1, <1>3 DEF SameSettings
<1>6. u = IF e.outCount > 0 THEN x ELSE e
  BY DEF GivenUp, x
<1> QED
  BY <1>1, <1>2, <1>3, <1>4, <1>5, <1>6 DEF u, e

-----------------------------------------------------------------------------
(* The steps.                                                              *)

(* What a step must leave, as long as the program has not ended.           *)
Holds ==
  /\ Inv' /\ SettingsStep(s, s')
  /\ stop => nRun' = nRun

(* A step that runs a command or SQL and remembers what it has to.         *)
LEMMA OutcomeHolds ==
  ASSUME Inv, pc \notin {"start", "done"}, Outcome,
         nRun' \in Nat, stop => nRun' = nRun, since' \in 0..1, since' = 1 => s'.seenInterrupt # 0,
         Remembers \/ (before' = before /\ s'.normalMode = s.normalMode)
  PROVE  Holds
<1>1. CASE pc' = "done"
  BY <1>1 DEF Outcome, Holds, Inv
<1>2. CASE pc' # "done"
  <2>1. /\ pc' \notin {"start", "done"} /\ Stacked(frames') /\ OnceFresh(s') /\ SettingsStep(s, s')
        /\ Sound(s') /\ s'.seenInterrupt \in Nat /\ (~opening' => s'.saved = Null) /\ (stop' => Stopped')
        /\ frames' # <<>> /\ ~opening' => Top'.zLine = {}
    BY <1>2 DEF Outcome
  <2>2. s'.normalMode.valid => before' = Kept(s')
    BY <2>1 DEF Inv, Live, Remembers, SettingsStep, Kept
  <2>3. since' = 1 => Interrupted'
    BY <2>1 DEF Interrupted
  <2> QED
    BY <2>1, <2>2, <2>3 DEF Holds, Inv, Live
<1> QED
  BY <1>1, <1>2

(* Steps that leave the session, -bail and what was run alone: what is to  *)
(* be shown is about the calls.                                            *)
LEMMA QuietHolds ==
  ASSUME Inv, pc # "done", UNCHANGED <<s, nRun, before>>, Stacked(frames'), since' \in 0..1,
         pc' \notin {"start", "done"}, opening' = opening, stop' => Stopped', since' = 1 => Interrupted'
  PROVE  Holds
<1>1. SettingsStep(s, s')
  <2>1. SameSettings(s, s)
    BY DEF SameSettings
  <2>2. SettingsStep(s, s)
    BY <2>1, SettingsAlike DEF Inv, Live, Sound
  <2> QED
    BY <2>2
<1>2. OnceFresh(s')
  BY DEF Inv
<1>3. Sound(s') /\ s'.seenInterrupt \in Nat /\ (~opening' => s'.saved = Null)
  BY DEF Inv, Live
<1>4. s'.normalMode.valid => before' = Kept(s')
  BY DEF Inv, Live
<1>5. nRun' \in Nat /\ nRun' = nRun
  BY DEF Inv
<1> QED
  BY <1>1, <1>2, <1>3, <1>4, <1>5 DEF Holds, Inv, Live

(* Steps that change the session in nothing that explain mode keeps, and   *)
(* have nothing of it to run: the program goes on.                         *)
LEMMA SessionHolds ==
  ASSUME Inv, pc # "done", pc' \notin {"start", "done"}, UNCHANGED <<nRun, before>>, Stacked(frames'),
         Sound(s'), OnceFresh(s'), s'.seenInterrupt \in Nat, ~opening' => s'.saved = Null,
         s'.normalMode = s.normalMode, since' \in 0..1, stop' => Stopped', since' = 1 => Interrupted'
  PROVE  Holds
<1>1. SettingsStep(s, s')
  BY DEF SettingsStep, Kept
<1>2. s'.normalMode.valid => before' = Kept(s')
  BY DEF Inv, Live, Kept
<1> QED
  BY <1>1, <1>2 DEF Holds, Inv, Live

(* The end of the program.                                                 *)
LEMMA EndHolds ==
  ASSUME Inv, pc # "done", NEW t, Exit(t), OnceFresh(t), t.normalMode = s.normalMode, UNCHANGED <<nRun, since>>
  PROVE  Holds
<1>1. SettingsStep(s, t)
  BY DEF SettingsStep, Kept
<1>2. /\ s' = t /\ frames' = <<>> /\ opening' = FALSE /\ pc' = "done"
  BY DEF Exit
<1> QED
  BY <1>1, <1>2, NoInput DEF Holds, Inv

(* Reading.                                                                *)

(* A line comes in: none does after an error that ends the loop, and after *)
(* Ctrl-C one does from the terminal only.                                 *)
LEMMA LineRead ==
  ASSUME Inv, one_input_line
  PROVE  Holds
<1>1. /\ frames # <<>> /\ ~opening /\ Loops(Top) /\ Top.zLine = {}
      /\ pc' = pc /\ opening' = opening /\ nRun' = nRun /\ before' = before /\ stop' = stop /\ interactive' = interactive
  BY DEF one_input_line
<1>2. pc \notin {"start", "done"} /\ Live /\ Stacked(frames) /\ OnceFresh(s) /\ since \in 0..1 /\ nRun \in Nat
  BY <1>1 DEF Inv
<1>3. ~stop
  BY <1>1, <1>2 DEF Live, Stopped, Loops
<1>4. IsInput(Top)
  BY <1>1, <1>2, Pop DEF Top
<1>5. PICK line \in menu.lines :
        IF Breaks(Top) THEN frames' = Replace([Top EXCEPT !.quit = TRUE]) /\ UNCHANGED <<s, since>>
        ELSE /\ frames' = Replace([Top EXCEPT !.zLine = {line}])
             /\ s' = [s EXCEPT !.seenInterrupt = IF Top.kind = "tty" THEN 0 ELSE @]
             /\ since' = IF s'.seenInterrupt = 0 THEN 0 ELSE since
  BY DEF one_input_line
<1>6. CASE Breaks(Top)
  <2> DEFINE fr == [Top EXCEPT !.quit = TRUE]
  <2>1. IsInput(fr) /\ fr.kind = Top.kind /\ fr.zLine = {}
    BY <1>1, <1>4 DEF IsInput
  <2>2. frames' = Append(Front(frames), fr) /\ UNCHANGED <<s, since>>
    BY <1>5, <1>6 DEF Replace
  <2> HIDE DEF fr
  <2>3. Stacked(frames') /\ Last(frames') = fr
    BY <1>1, <1>2, <2>1, <2>2, InputReplaced DEF Top
  <2>4. Top'.zLine = {}
    BY <2>1, <2>3 DEF Top
  <2>5. since' = 1 => Interrupted'
    BY <1>2, <2>2, <2>4 DEF Live, Interrupted
  <2> QED
    BY <1>1, <1>2, <1>3, <2>2, <2>3, <2>5, QuietHolds
<1>7. CASE ~Breaks(Top)
  <2> DEFINE fr == [Top EXCEPT !.zLine = {line}]
             n == IF Top.kind = "tty" THEN 0 ELSE s.seenInterrupt
  <2>1. IsInput(fr) /\ fr.kind = Top.kind
    BY <1>4 DEF IsInput
  <2>2. /\ frames' = Append(Front(frames), fr) /\ s' = [s EXCEPT !.seenInterrupt = n]
        /\ since' = IF s'.seenInterrupt = 0 THEN 0 ELSE since
    BY <1>5, <1>7 DEF Replace
  <2>3. n = 0
    BY <1>2, <1>7 DEF Breaks, Live
  <2> HIDE DEF fr, n
  <2>4. Stacked(frames')
    BY <1>1, <1>2, <2>1, <2>2, InputReplaced DEF Top
  <2>5. /\ Sound(s') /\ SameConns(s, s') /\ SameSettings(s, s') /\ s'.seenInterrupt = 0 /\ OnceFresh(s')
    BY <1>2, <2>2, <2>3, InterruptNoted DEF Live
  <2>6. SettingsStep(s, s') /\ since' = 0
    BY <1>2, <2>2, <2>5, SettingsAlike DEF Live, Sound
  <2>7. (~opening' => s'.saved = Null) /\ (s'.normalMode.valid => before' = Kept(s'))
    BY <1>1, <1>2, <2>5 DEF Live, SameConns, SameSettings, Kept
  <2>8. Live'
    BY <1>1, <1>3, <2>5, <2>6, <2>7 DEF Live
  <2> QED
    BY <1>1, <1>2, <2>4, <2>5, <2>6, <2>8 DEF Holds, Inv
<1> QED
  BY <1>6, <1>7

(* Steps that only change the innermost call, to one that has no line, in  *)
(* a state where none is stopped.                                          *)
LEMMA TopHolds ==
  ASSUME Inv, frames # <<>>, ~opening, ~stop, NEW fr, IsInput(fr), fr.kind = Top.kind, fr.zLine = {},
         frames' = Append(Front(frames), fr), UNCHANGED <<pc, s, opening, nRun, before, stop, since>>
  PROVE  Holds
<1>1. Stacked(frames') /\ Last(frames') = fr
  BY InputReplaced DEF Inv, Top
<1>2. Top'.zLine = {}
  BY <1>1 DEF Top
<1>3. pc \notin {"start", "done"} /\ Live
  BY DEF Inv
<1>4. since' = 1 => Interrupted'
  BY <1>2, <1>3 DEF Live, Interrupted
<1> QED
  BY <1>1, <1>3, <1>4, QuietHolds DEF Inv

(* The input ends.                                                         *)
LEMMA FileEnds ==
  ASSUME Inv, EndOfFile
  PROVE  Holds
<1> DEFINE fr == [Top EXCEPT !.quit = TRUE]
<1>1. /\ frames # <<>> /\ ~opening /\ Loops(Top) /\ Top.zLine = {}
      /\ frames' = Append(Front(frames), fr)
      /\ UNCHANGED <<pc, s, opening, nRun, before, stop, since>>
  BY DEF EndOfFile, Replace
<1>2. ~stop
  BY <1>1 DEF Inv, Live, Stopped, Loops
<1>3. IsInput(Top)
  BY <1>1, Pop DEF Top, Inv
<1>4. IsInput(fr) /\ fr.kind = Top.kind /\ fr.zLine = {}
  BY <1>1, <1>3 DEF IsInput
<1> HIDE DEF fr
<1> QED
  BY <1>1, <1>2, <1>4, TopHolds

(* What the step has that runs or forgets a line that was read: -bail has  *)
(* not been broken off, and after Ctrl-C nothing was run yet unless a      *)
(* terminal is read from.                                                  *)
LEMMA LineIsNext ==
  ASSUME Inv, frames # <<>>, ~opening, Top.zLine # {}
  PROVE  /\ Ready /\ IsInput(Top) /\ Stacked(frames)
         /\ since = 1 => Top.kind = "tty"
<1>1. pc \notin {"start", "done"} /\ Live /\ Stacked(frames)
  BY DEF Inv
<1>2. ~stop
  BY <1>1 DEF Live, Stopped
<1>3. IsInput(Top)
  BY <1>1, Pop DEF Top
<1>4. since = 1 => Top.kind = "tty"
  BY <1>1 DEF Live, Interrupted
<1> QED
  BY <1>1, <1>2, <1>3, <1>4 DEF Ready

(* One unit is counted, one at most after Ctrl-C.                          *)
LEMMA UnitCounted ==
  ASSUME Inv, Ran, since = 1 => Top.kind = "tty"
  PROVE  nRun' \in Nat /\ since' \in 0..1 /\ (since' = 1 => s'.seenInterrupt # 0)
BY DEF Inv, Ran

(* A dot-command that was read.                                            *)
LEMMA DotLineHolds ==
  ASSUME Inv, DotLine
  PROVE  Holds
<1>1. frames # <<>> /\ ~opening /\ Ran /\ Remembers /\ interactive' = interactive
  BY DEF DotLine
<1>2. PICK line \in Top.zLine : Command(line)
  BY DEF DotLine
<1>3. Ready /\ (since = 1 => Top.kind = "tty")
  BY <1>1, LineIsNext
<1>4. Outcome
  BY <1>1, <1>2, <1>3, CommandStep
<1>5. nRun' \in Nat /\ since' \in 0..1 /\ (since' = 1 => s'.seenInterrupt # 0)
  BY <1>1, <1>3, UnitCounted
<1> QED
  BY <1>1, <1>3, <1>4, <1>5, OutcomeHolds DEF Ready

(* White space that was read.                                              *)
LEMMA BlankLineHolds ==
  ASSUME Inv, BlankLine
  PROVE  Holds
<1> DEFINE fr == [Top EXCEPT !.zLine = {}]
<1>1. /\ frames # <<>> /\ ~opening /\ Top.zLine # {}
      /\ frames' = Append(Front(frames), fr)
      /\ UNCHANGED <<pc, s, opening, nRun, before, stop, since>>
  BY DEF BlankLine, Replace
<1>2. Ready /\ IsInput(Top)
  BY <1>1, LineIsNext
<1>3. IsInput(fr) /\ fr.kind = Top.kind /\ fr.zLine = {}
  BY <1>2 DEF IsInput
<1> HIDE DEF fr
<1> QED
  BY <1>1, <1>2, <1>3, TopHolds DEF Ready

(* What a call has when it has taken a line.                               *)
LEMMA LineTaken ==
  ASSUME NEW fr, IsInput(fr), NEW line
  PROVE  IsInput(Taken(fr, line)) /\ Taken(fr, line).kind = fr.kind /\ Taken(fr, line).zLine = {}
<1> DEFINE typed == fr.typed \o <<LF>> \o AsTyped(fr, line)
           gr == [fr EXCEPT !.zLine = {}, !.typed = typed]
<1>1. Taken(fr, line) = gr
  BY DEF Taken
<1> HIDE DEF typed
<1>2. IsInput(gr) /\ gr.kind = fr.kind /\ gr.zLine = {}
  BY DEF IsInput
<1> QED
  BY <1>1, <1>2

(* An SQL text that was read is run.                                       *)
LEMMA SqlRun ==
  ASSUME Ready, frames # <<>>, NEW fr, IsInput(fr), fr.kind = Top.kind, NEW zSql, RunSql(fr, zSql),
         interactive' = interactive
  PROVE  Outcome /\ s'.normalMode = s.normalMode
<1>1. nRun + 1 \in Nat /\ Stacked(frames)
  BY DEF Ready, Inv
<1>2. PICK r \in open_db([s EXCEPT !.unit = nRun + 1]) :
        IF ~r.ok THEN Exit(r.s)
        ELSE \E hit \in Hits(r.s, zSql) :
               LET e == shell_exec(r.s, zSql, hit)
                   t == GivenUp(e.s)
               IN  ReturnTo(Replace(fr), IF hit > 0 THEN [t EXCEPT !.seenInterrupt = @ + 1] ELSE t, e.rc)
  BY DEF RunSql
<1>3. /\ Sound(r.s) /\ OnceFresh(r.s) /\ SameSettings(s, r.s) /\ SettingsStep(s, r.s)
      /\ r.s.saved = Null /\ r.s.seenInterrupt \in Nat
  BY <1>1, SqlOpens
<1>4. CASE ~r.ok
  BY <1>2, <1>3, <1>4, Exits DEF Exit, SameSettings
<1>5. CASE r.ok
  <2>1. PICK hit \in Hits(r.s, zSql) :
          LET e == shell_exec(r.s, zSql, hit)
              t == GivenUp(e.s)
          IN  ReturnTo(Replace(fr), IF hit > 0 THEN [t EXCEPT !.seenInterrupt = @ + 1] ELSE t, e.rc)
    BY <1>2, <1>5
  <2> DEFINE e == shell_exec(r.s, zSql, hit)
             t == GivenUp(e.s)
             n == t.seenInterrupt + 1
             u == [t EXCEPT !.seenInterrupt = n]
             v == IF hit > 0 THEN u ELSE t
  <2>2. Sound(t) /\ OnceFresh(t) /\ t.saved = Null /\ t.seenInterrupt \in Nat /\ SameSettings(s, t)
    BY <1>3, SqlRuns
  <2>3. ReturnTo(Replace(fr), v, e.rc)
    BY <2>1
  <2> HIDE DEF t, e
  <2>4. n \in Nat
    BY <2>2
  <2> HIDE DEF n
  <2>5. Sound(u) /\ SameConns(t, u) /\ SameSettings(t, u) /\ u.seenInterrupt = n /\ OnceFresh(u)
    BY <2>2, <2>4, InterruptNoted
  <2> HIDE DEF u
  <2>6. Sound(v) /\ OnceFresh(v) /\ v.saved = Null /\ v.seenInterrupt \in Nat /\ SameSettings(s, v)
    BY <2>2, <2>4, <2>5 DEF SameSettings, SameConns
  <2> HIDE DEF v
  <2>7. SettingsStep(s, v)
    BY <2>6, SettingsAlike DEF Ready, Inv, Live, Sound
  <2>8. Stacked(Replace(fr))
    BY <1>1, InputReplaced DEF Replace, Top
  <2>9. Outcome
    BY <1>1, <2>3, <2>6, <2>7, <2>8, Resumes DEF Ready
  <2>10. s' = v
    BY <2>3 DEF ReturnTo
  <2> QED
    BY <2>6, <2>9, <2>10 DEF SameSettings
<1> QED
  BY <1>4, <1>5

(* SQL that was read: run when it is complete, or kept.                    *)
LEMMA SqlLineHolds ==
  ASSUME Inv, SqlLine
  PROVE  Holds
<1>1. frames # <<>> /\ ~opening /\ interactive' = interactive /\ before' = before
  BY DEF SqlLine
<1>2. PICK line \in Top.zLine :
        LET z == Added(Terminated(line, Top.zSql), Top.zSql)
            zSql == Top.zSql \o z
            fr == Taken(Top, line)
        IN
        IF line_contains_semicolon(z) /\ sqlite3_complete(zSql)
        THEN RunSql([fr EXCEPT !.zSql = <<>>, !.given = Append(@, zSql)], zSql) /\ Ran
        ELSE /\ frames' = Replace([fr EXCEPT !.zSql = IF _all_whitespace[zSql] THEN <<>> ELSE zSql])
             /\ UNCHANGED <<pc, s, opening, nRun, stop, since>>
  BY Zenon DEF SqlLine
<1>3. Ready /\ IsInput(Top) /\ (since = 1 => Top.kind = "tty")
  BY <1>1, LineIsNext
<1> DEFINE zSql == Top.zSql \o Added(Terminated(line, Top.zSql), Top.zSql)
           fr == Taken(Top, line)
           given == Append(fr.given, zSql)
           ran == [fr EXCEPT !.zSql = <<>>, !.given = given]
           rest == IF _all_whitespace[zSql] THEN <<>> ELSE zSql
           kept == [fr EXCEPT !.zSql = rest]
<1>4. \/ RunSql(ran, zSql) /\ Ran
      \/ frames' = Replace(kept) /\ UNCHANGED <<pc, s, opening, nRun, stop, since>>
  BY <1>2
<1> HIDE DEF fr, given, rest
<1>5. IsInput(fr) /\ fr.kind = Top.kind /\ fr.zLine = {}
  BY <1>3, LineTaken DEF fr
<1>6. IsInput(ran) /\ ran.kind = Top.kind /\ IsInput(kept) /\ kept.kind = Top.kind /\ kept.zLine = {}
  BY <1>5 DEF IsInput
<1> HIDE DEF ran, kept
<1>7. CASE frames' = Replace(kept) /\ UNCHANGED <<pc, s, opening, nRun, stop, since>>
  BY <1>1, <1>3, <1>6, <1>7, TopHolds DEF Replace, Ready
<1>8. CASE RunSql(ran, zSql) /\ Ran
  <2>1. Outcome /\ s'.normalMode = s.normalMode
    BY <1>1, <1>3, <1>6, <1>8, SqlRun
  <2>2. nRun' \in Nat /\ since' \in 0..1 /\ (since' = 1 => s'.seenInterrupt # 0)
    BY <1>3, <1>8, UnitCounted DEF Ready
  <2> QED
    BY <1>1, <1>3, <2>1, <2>2, OutcomeHolds DEF Ready
<1> QED
  BY <1>4, <1>7, <1>8

(* Returning.                                                              *)

(* .open is done with the database there was: it is closed, or kept when   *)
(* the other could not be had.                                             *)
LEMMA DatabaseReplaced ==
  ASSUME NEW t, Sound(t), OnceFresh(t)
  PROVE  LET u == opened(t) IN
         /\ Sound(u) /\ OnceFresh(u) /\ u.saved = Null /\ SameSettings(t, u) /\ u.seenInterrupt = t.seenInterrupt
<1> DEFINE D == DOMAIN t.conns \ {t.saved}
           q == [c \in D |-> t.conns[c]]
           a == [t EXCEPT !.conns = q]
           b == [t EXCEPT !.db = t.saved, !.file = t.savedFile]
           v == IF t.db # Null THEN a ELSE b
           u == [v EXCEPT !.saved = Null, !.savedFile = ""]
           conns == IF t.db # Null THEN q ELSE t.conns
           db == IF t.db # Null THEN t.db ELSE t.saved
<1>1. opened(t) = u
  BY DEF opened, sqlite3_close, Less, Restrict
<1>2. DOMAIN q = D /\ q = [c \in DOMAIN q |-> q[c]] /\ \A c \in D : q[c] = t.conns[c]
  OBVIOUS
<1> HIDE DEF q
<1>3. /\ IsSession(a) /\ SameStreams(t, a) /\ SameSettings(t, a) /\ a.seenInterrupt = t.seenInterrupt
      /\ a.conns = q /\ a.db = t.db /\ a.globalDb = t.globalDb
  BY DEF Sound, IsSession, Fields, SameStreams, SameSettings
<1>4. /\ IsSession(b) /\ SameStreams(t, b) /\ SameSettings(t, b) /\ b.seenInterrupt = t.seenInterrupt
      /\ b.conns = t.conns /\ b.db = t.saved /\ b.globalDb = t.globalDb
  BY DEF Sound, IsSession, Fields, SameStreams, SameSettings
<1> HIDE DEF a, b
<1>5. /\ IsSession(v) /\ SameStreams(t, v) /\ SameSettings(t, v) /\ v.seenInterrupt = t.seenInterrupt
      /\ v.conns = conns /\ v.db = db /\ v.globalDb = t.globalDb
  BY <1>3, <1>4
<1> HIDE DEF v
<1>6. /\ IsSession(u) /\ SameStreams(v, u) /\ SameSettings(v, u) /\ u.seenInterrupt = v.seenInterrupt
      /\ u.conns = v.conns /\ u.db = v.db /\ u.globalDb = v.globalDb /\ u.saved = Null
  BY <1>5 DEF IsSession, Fields, SameStreams, SameSettings
<1> HIDE DEF u
<1>7. SameStreams(t, u) /\ SameSettings(t, u) /\ u.seenInterrupt = t.seenInterrupt
      /\ u.conns = conns /\ u.db = db /\ u.globalDb = t.globalDb
  BY <1>5, <1>6 DEF SameStreams, SameSettings
<1>8. StreamsOpen(u) /\ OnceFresh(u) /\ SettingsKnown(u)
  BY <1>7, StreamsAlike, SettingsAlike DEF Sound
<1>9. ConnsOpen(t)
  BY DEF Sound
<1>10. ConnsOpen(u)
  <2>1. CASE t.db # Null
    <3>1. IsFiniteSet(D)
      BY <1>9, FS_Subset DEF ConnsOpen, ConnsKnown
    <3>2. DOMAIN u.conns = D /\ u.conns = [c \in D |-> u.conns[c]] /\ (\A c \in D : u.conns[c] = t.conns[c]) /\ u.db = t.db
      BY <1>2, <1>7, <2>1
    <3>3. ConnsKnown(u)
      BY <1>6, <1>7, <1>9, <3>1, <3>2 DEF ConnsOpen, ConnsKnown, Null
    <3>4. D = {t.db}
      BY <1>9, <2>1 DEF ConnsOpen
    <3>5. u.globalDb \in {Null, t.db}
      BY <1>7, <1>9 DEF ConnsOpen
    <3>6. \A c \in DOMAIN u.conns : u.conns[c].trace \in {Null, u.traceOut}
      BY <1>7, <1>9, <3>2 DEF ConnsOpen, SameStreams
    <3> QED
      BY <1>6, <2>1, <3>2, <3>3, <3>4, <3>5, <3>6 DEF ConnsOpen
  <2>2. CASE t.db = Null
    BY <1>6, <1>7, <1>9, <2>2 DEF ConnsOpen, ConnsKnown, SameStreams, Null
  <2> QED
    BY <2>1, <2>2
<1> QED
  BY <1>1, <1>6, <1>7, <1>8, <1>10 DEF Sound

(* A command that returns by way of meta_command_exit.                     *)
LEMMA ExitResumes ==
  ASSUME Inv, pc \notin {"start", "done"}, NEW fs, Stacked(fs), NEW t, NEW rc, ReturnTo(fs, meta_command_exit(t), rc),
         interactive' = interactive, stop => rc = 1 /\ "bail" \in t.on,
         Sound(t), OnceFresh(t), t.saved = Null, t.seenInterrupt = s.seenInterrupt, SameSettings(s, t),
         UNCHANGED <<nRun, before, since>>
  PROVE  Holds
<1> DEFINE u == meta_command_exit(t)
<1>1. OnceLeaving(t)
  BY DEF OnceFresh, OnceLeaving
<1>2. /\ IsSession(u) /\ StreamsOpen(u) /\ OnceFresh(u) /\ SameConns(t, u) /\ SameSettings(t, u)
      /\ u.seenInterrupt = s.seenInterrupt /\ u.traceOut = t.traceOut
  BY <1>1, CommandExits DEF Sound
<1> HIDE DEF u
<1>3. ConnsOpen(u) /\ SettingsKnown(u)
  BY <1>2, ConnsAlike, SettingsAlike DEF Sound
<1>4. SameSettings(s, u) /\ u.saved = Null /\ Sound(u)
  BY <1>2, <1>3 DEF SameSettings, SameConns, Sound
<1>5. SettingsStep(s, u)
  BY <1>4, SettingsAlike DEF Inv, Live, Sound
<1>6. u.seenInterrupt \in Nat /\ (stop => rc = 1 /\ "bail" \in u.on)
  BY <1>2 DEF Inv, Live, SameSettings
<1>7. ReturnTo(fs, u, rc)
  BY DEF u
<1>8. Outcome
  BY <1>2, <1>4, <1>5, <1>6, <1>7, Resumes
<1>9. s' = u
  BY <1>7 DEF ReturnTo
<1>10. since' = 1 => s'.seenInterrupt # 0
  BY <1>2, <1>9 DEF Inv, Live, Interrupted
<1>11. s'.normalMode = s.normalMode
  BY <1>4, <1>9 DEF SameSettings
<1> QED
  BY <1>8, <1>10, <1>11, OutcomeHolds DEF Inv

(* The second half of .open.                                               *)
LEMMA SavedClosed ==
  ASSUME Inv, CloseSaved
  PROVE  Holds
<1>1. opening /\ ReturnTo(frames, meta_command_exit(opened(s)), 0) /\ interactive' = interactive
      /\ UNCHANGED <<nRun, before, since>>
  BY DEF CloseSaved
<1>2. pc \notin {"start", "done"} /\ Live /\ Stacked(frames) /\ OnceFresh(s)
  BY <1>1 DEF Inv
<1>3. ~stop
  BY <1>1, <1>2 DEF Live, Stopped
<1> DEFINE t == opened(s)
<1>4. Sound(t) /\ OnceFresh(t) /\ t.saved = Null /\ SameSettings(s, t) /\ t.seenInterrupt = s.seenInterrupt
  BY <1>2, DatabaseReplaced DEF Live
<1> HIDE DEF t
<1>5. ReturnTo(frames, meta_command_exit(t), 0)
  BY <1>1 DEF t
<1> QED
  BY <1>1, <1>2, <1>3, <1>4, <1>5, ExitResumes

(* A call of process_input returns: .read's to where it was given with the *)
(* error that left it, the one of ~/.sqliterc or of standard input to main.*)
LEMMA InputEnds ==
  ASSUME Inv, EndInput
  PROVE  Holds
<1>1. /\ frames # <<>> /\ ~opening /\ Top.zLine = {} /\ interactive' = interactive
      /\ UNCHANGED <<nRun, before, since>>
  BY DEF EndInput
<1>2. pc \notin {"start", "done"} /\ Live /\ Stacked(frames) /\ OnceFresh(s) /\ since \in 0..1
  BY <1>1 DEF Inv
<1>3. Stacked(Front(frames)) /\ (Front(frames) # <<>> => Top.kind = "file")
  BY <1>1, <1>2, Pop DEF Top
<1>4. CASE Top.kind = "file"
  <2> DEFINE rc == IF Top.errCnt > 0 \/ Top.zSql # <<>> THEN 1 ELSE 0
  <2>1. ReturnTo(Front(frames), meta_command_exit(s), rc)
    BY <1>4 DEF EndInput
  <2>2. stop => rc = 1 /\ "bail" \in s.on
    BY <1>2 DEF Live, Stopped
  <2> HIDE DEF rc
  <2>3. SameSettings(s, s) /\ s.saved = Null /\ Sound(s)
    BY <1>1, <1>2 DEF Live, SameSettings
  <2> QED
    BY <1>1, <1>2, <1>3, <2>1, <2>2, <2>3, ExitResumes
<1>5. CASE Top.kind # "file"
  <2>1. /\ frames' = Front(frames) /\ stop' = FALSE /\ s' = s /\ opening' = opening
        /\ pc' = pc \/ pc' = "close"
    BY <1>5 DEF EndInput
  <2>2. frames' = <<>> /\ pc' \notin {"start", "done"}
    BY <1>2, <1>3, <1>5, <2>1
  <2>3. since' = 1 => Interrupted'
    BY <1>1, <1>2, <2>1, <2>2 DEF Live, Interrupted
  <2>4. s'.normalMode = s.normalMode /\ Sound(s') /\ s'.seenInterrupt \in Nat /\ s'.saved = Null
    BY <1>1, <1>2, <2>1 DEF Live
  <2>5. OnceFresh(s')
    BY <1>2, <2>1
  <2> QED
    BY <1>1, <1>2, <2>1, <2>2, <2>3, <2>4, <2>5, NoInput, SessionHolds
<1> QED
  BY <1>4, <1>5

(* Ctrl-C: the third ends the program.                                     *)
LEMMA InterruptHolds ==
  ASSUME Inv, interrupt_handler
  PROVE  Holds
<1>1. pc # "done" /\ interactive' = interactive /\ UNCHANGED <<nRun, before, since>>
  BY DEF interrupt_handler
<1>2. Live /\ Stacked(frames) /\ OnceFresh(s) /\ since \in 0..1 /\ s.seenInterrupt \in Nat
  BY <1>1 DEF Inv, Live
<1>3. CASE s.seenInterrupt = 2
  <2> DEFINE t == [s EXCEPT !.seenInterrupt = 3]
  <2>1. Exit(t)
    BY <1>3 DEF interrupt_handler
  <2>2. OnceFresh(t) /\ SameSettings(s, t)
    BY <1>2, InterruptNoted DEF Live
  <2> HIDE DEF t
  <2> QED
    BY <1>1, <2>1, <2>2, EndHolds DEF SameSettings
<1>4. CASE s.seenInterrupt # 2
  <2> DEFINE n == s.seenInterrupt + 1
             t == [s EXCEPT !.seenInterrupt = n]
  <2>1. s' = t /\ UNCHANGED <<pc, frames, opening, stop>>
    BY <1>4 DEF interrupt_handler
  <2>2. n \in Nat /\ n > 0
    BY <1>2
  <2> HIDE DEF n
  <2>3. Sound(t) /\ SameConns(s, t) /\ SameSettings(s, t) /\ t.seenInterrupt = n /\ OnceFresh(t)
    BY <1>2, <2>2, InterruptNoted DEF Live
  <2> HIDE DEF t
  <2>4. (stop' => Stopped') /\ (since' = 1 => Interrupted')
    BY <1>1, <1>2, <2>1, <2>2, <2>3 DEF Live, Stopped, Interrupted, Top, AtTerminal, SameSettings
  <2>5. SettingsStep(s, t)
    BY <1>2, <2>3, SettingsAlike DEF Live, Sound
  <2>6. (~opening' => s'.saved = Null) /\ (s'.normalMode.valid => before' = Kept(s'))
    BY <1>1, <1>2, <2>1, <2>3 DEF Live, SameConns, SameSettings, Kept
  <2>7. Live'
    BY <1>1, <2>1, <2>2, <2>3, <2>4, <2>6 DEF Live
  <2>8. pc' \in {"start", "done"} => frames' = <<>> /\ ~opening'
    BY <2>1 DEF Inv
  <2>9. nRun' \in Nat /\ nRun' = nRun
    BY <1>1 DEF Inv
  <2>10. Stacked(frames') /\ OnceFresh(s') /\ since' \in 0..1
    BY <1>1, <1>2, <2>1, <2>3
  <2> QED
    BY <2>1, <2>5, <2>7, <2>8, <2>9, <2>10 DEF Holds, Inv
<1> QED
  BY <1>3, <1>4

(* main.                                                                   *)

(* Between its commands: main reads no input of its own, and no -bail has  *)
(* been broken off.                                                        *)
LEMMA MainIsNext ==
  ASSUME Inv, pc # "done", frames = <<>>, ~opening
  PROVE  /\ Live /\ ~stop /\ AtRest(s) /\ Stacked(frames) /\ since \in 0..1 /\ nRun \in Nat
         /\ since = 1 => s.seenInterrupt > 0
BY DEF Inv, Live, Stopped, Interrupted, AtRest

(* Steps of main that run nothing: what they change of the session is      *)
(* nothing that is open.                                                   *)
LEMMA MainHolds ==
  ASSUME Inv, pc # "done", frames = <<>>, ~opening, pc' \notin {"start", "done"},
         UNCHANGED <<opening, nRun, before, stop, since>>,
         frames' = <<>> \/ \E kind : frames' = <<Input(kind)>>,
         Sound(s'), OnceFresh(s'), s'.saved = Null, s'.normalMode = s.normalMode, s'.seenInterrupt = s.seenInterrupt
  PROVE  Holds
<1>1. /\ Live /\ ~stop /\ since \in 0..1 /\ s.seenInterrupt \in Nat
      /\ since = 1 => s.seenInterrupt > 0
  BY MainIsNext DEF Live
<1>2. Stacked(frames') /\ (frames' # <<>> => Top'.zLine = {})
  <2>1. CASE frames' = <<>>
    BY <2>1, NoInput
  <2>2. ASSUME NEW kind, frames' = <<Input(kind)>>
        PROVE  Stacked(frames') /\ Top'.zLine = {}
    <3>1. frames' = Append(<<>>, Input(kind))
      BY <2>2
    <3>2. Stacked(frames') /\ Last(frames') = Input(kind)
      BY <3>1, NoInput, NewInput, Push
    <3> QED
      BY <3>2, NewInput DEF Top
  <2> QED
    BY <2>1, <2>2
<1>3. since' = 1 => Interrupted'
  BY <1>1, <1>2 DEF Interrupted
<1> QED
  BY <1>1, <1>2, <1>3, SessionHolds

(* What there is of ~/.sqliterc to read: a file, or none.                  *)
LEMMA SqlitercRead ==
  ASSUME NEW zFile, NEW fs \in process_sqliterc(zFile)
  PROVE  fs = <<>> \/ fs = <<Input("rc")>>
BY Zenon DEF process_sqliterc

(* main begins: a database that is there is opened, ~/.sqliterc is read.   *)
LEMMA StartHolds ==
  ASSUME Inv, Start
  PROVE  Holds
<1>1. pc = "start" /\ UNCHANGED <<nRun, before, since>>
  BY DEF Start
<1>2. frames = <<>> /\ ~opening
  BY <1>1 DEF Inv
<1>3. AtRest(s)
  BY <1>1, <1>2, MainIsNext
<1> DEFINE file == zDbFilename
           t == [s EXCEPT !.file = file]
<1>4. \/ Exit(t)
      \/ \E r \in {[s |-> t, ok |-> TRUE]} \cup open_db(t) :
           \/ Exit(r.s)
           \/ pc' = "options" /\ s' = r.s /\ frames' \in process_sqliterc(First.init) /\ UNCHANGED <<opening, stop>>
  BY DEF Start
<1> HIDE DEF file
<1>5. IsSession(t) /\ SameStreams(s, t) /\ SameConns(s, t) /\ SameSettings(s, t) /\ t.seenInterrupt = s.seenInterrupt
  BY <1>3 DEF AtRest, Sound, IsSession, Fields, SameStreams, SameConns, SameSettings
<1> HIDE DEF t
<1>6. Sound(t) /\ OnceFresh(t) /\ t.saved = Null
  BY <1>3, <1>5, StreamsAlike, ConnsAlike, SettingsAlike DEF AtRest, Sound, SameStreams, SameConns
<1>7. ASSUME NEW r \in {[s |-> t, ok |-> TRUE]} \cup open_db(t)
      PROVE  /\ Sound(r.s) /\ OnceFresh(r.s) /\ r.s.saved = Null /\ r.s.normalMode = s.normalMode
             /\ r.s.seenInterrupt = s.seenInterrupt
  <2>1. CASE r = [s |-> t, ok |-> TRUE]
    <3>1. r.s = t
      BY <2>1
    <3> QED
      BY <1>5, <1>6, <3>1 DEF SameSettings
  <2>2. CASE r \in open_db(t)
    BY <1>5, <1>6, <2>2, SessionWithDatabase DEF SameSettings
  <2> QED
    BY <2>1, <2>2
<1>8. ASSUME NEW u, Exit(u), OnceFresh(u), u.normalMode = s.normalMode
      PROVE  Holds
  BY <1>1, <1>8, EndHolds
<1>9. CASE Exit(t)
  BY <1>5, <1>6, <1>8, <1>9 DEF SameSettings
<1>10. ASSUME NEW r \in {[s |-> t, ok |-> TRUE]} \cup open_db(t), pc' = "options", s' = r.s,
              frames' \in process_sqliterc(First.init), UNCHANGED <<opening, stop>>
       PROVE  Holds
  <2>1. frames' = <<>> \/ \E kind : frames' = <<Input(kind)>>
    BY <1>10, SqlitercRead
  <2> QED
    BY <1>1, <1>2, <1>7, <1>10, <2>1, MainHolds
<1> QED
  BY <1>4, <1>7, <1>8, <1>9, <1>10

(* A word that is no option is skipped.                                    *)
LEMMA WordSkipped ==
  ASSUME Inv, SkipWord
  PROVE  Holds
<1>1. /\ pc = "options" /\ frames = <<>> /\ ~opening
      /\ UNCHANGED <<pc, s, opening, frames, nRun, before, stop, since>>
  BY DEF SkipWord
<1>2. AtRest(s)
  BY <1>1, MainIsNext
<1> QED
  BY <1>1, <1>2, MainHolds DEF AtRest

(* What options set: nothing that is open, and neither what explain mode   *)
(* keeps nor a mode that needs the name of a table.                        *)
LEMMA OptionSets ==
  ASSUME NEW t, AtRest(t), NEW o, NEW v
  PROVE  LET u == Set(t, o, v) IN
         /\ Sound(u) /\ OnceFresh(u) /\ u.saved = Null /\ u.normalMode = t.normalMode /\ u.seenInterrupt = t.seenInterrupt
<1> DEFINE u == Set(t, o, v)
           Alike(x) == /\ IsSession(x) /\ SameStreams(t, x) /\ SameConns(t, x) /\ x.seenInterrupt = t.seenInterrupt
                       /\ x.normalMode = t.normalMode /\ x.zDestTable = t.zDestTable
                       /\ x.mode = t.mode \/ x.mode # "insert"
           WithMode(m) == [t EXCEPT !.mode = m]
           WithCol(m, c) == [t EXCEPT !.mode = m, !.colSeparator = c]
           WithBoth(m, c, d) == [t EXCEPT !.mode = m, !.colSeparator = c, !.rowSeparator = d]
           Col(c) == [t EXCEPT !.colSeparator = c]
           Row(c) == [t EXCEPT !.rowSeparator = c]
           NullIs(c) == [t EXCEPT !.nullValue = c]
           On(c) == [t EXCEPT !.on = c]
<1>1. IsSession(t)
  BY DEF AtRest, Sound
<1>2. ASSUME NEW m, m # "insert" PROVE Alike(WithMode(m))
  BY <1>1, <1>2 DEF IsSession, Fields, SameStreams, SameConns
<1>3. ASSUME NEW m, m # "insert", NEW c PROVE Alike(WithCol(m, c))
  BY <1>1, <1>3 DEF IsSession, Fields, SameStreams, SameConns
<1>4. ASSUME NEW m, m # "insert", NEW c, NEW d PROVE Alike(WithBoth(m, c, d))
  BY <1>1, <1>4 DEF IsSession, Fields, SameStreams, SameConns
<1>5. ASSUME NEW c PROVE Alike(Col(c))
  BY <1>1 DEF IsSession, Fields, SameStreams, SameConns
<1>6. ASSUME NEW c PROVE Alike(Row(c))
  BY <1>1 DEF IsSession, Fields, SameStreams, SameConns
<1>7. ASSUME NEW c PROVE Alike(NullIs(c))
  BY <1>1 DEF IsSession, Fields, SameStreams, SameConns
<1>8. ASSUME NEW c PROVE Alike(On(c))
  BY <1>1 DEF IsSession, Fields, SameStreams, SameConns
<1>9. Alike(t)
  BY <1>1 DEF SameStreams, SameConns
<1>10. \/ u = t
       \/ o \in Modes /\ u = WithMode(o)
       \/ \E c : o = "csv" /\ u = WithCol(o, c)
       \/ \E c, d : o = "ascii" /\ u = WithBoth(o, c, d)
       \/ \E c : u = Col(c) \/ u = Row(c) \/ u = NullIs(c) \/ u = On(c)
  <2>1. CASE o \in Modes
    <3>1. o \notin {"csv", "ascii", "separator", "newline", "nullvalue", "header", "noheader", "echo", "eqp", "stats",
                    "scanstats", "bail"}
      BY <2>1 DEF Modes
    <3>2. u = Mode(t, o)
      BY Zenon, <2>1, <3>1 DEF Set
    <3>3. u = WithMode(o)
      BY Zenon, <3>2 DEF Mode
    <3> QED
      BY Zenon, <2>1, <3>3
  <2>2. CASE o \notin Modes /\ o = "csv"
    <3>1. u = ModeCol(t, o, <<",">>)
      BY Zenon, <2>2 DEF Set
    <3> DEFINE c == <<",">>
    <3>2. u = WithCol(o, c)
      BY Zenon, <3>1 DEF ModeCol
    <3> QED
      BY Zenon, <2>2, <3>2
  <2>3. CASE o \notin Modes /\ o = "ascii"
    <3>1. u = ModeBoth(t, o, <<"unit">>, <<"record">>)
      BY Zenon, <2>3 DEF Set
    <3> DEFINE c == <<"unit">>
               d == <<"record">>
    <3>2. u = WithBoth(o, c, d)
      BY Zenon, <3>1 DEF ModeBoth
    <3> QED
      BY Zenon, <2>3, <3>2
  <2>4. CASE o \notin Modes /\ o # "csv" /\ o # "ascii"
    <3>1. \/ u = Col(Text(v)) \/ u = Row(Text(v)) \/ u = NullIs(v)
          \/ u = On(Headers(t, TRUE)) \/ u = On(Headers(t, FALSE)) \/ u = On(t.on \cup {o}) \/ u = t
      BY Zenon, <2>4 DEF Set
    <3> QED
      BY Zenon, <3>1
  <2> HIDE DEF u, WithMode, WithCol, WithBoth, Col, Row, NullIs, On
  <2> QED
    BY <2>1, <2>2, <2>3, <2>4
<1>11. \A m \in Modes : m # "insert"
  BY DEF Modes
<1> HIDE DEF u, WithMode, WithCol, WithBoth, Col, Row, NullIs, On
<1>12. Alike(u)
  <2> HIDE DEF Alike
  <2> QED
    BY <1>2, <1>3, <1>4, <1>5, <1>6, <1>7, <1>8, <1>9, <1>10, <1>11
<1>13. StreamsOpen(u) /\ OnceFresh(u)
  BY <1>12, StreamsAlike DEF AtRest, Sound
<1>14. ConnsOpen(u)
  BY <1>12, ConnsAlike DEF AtRest, Sound, SameStreams
<1>15. SettingsKnown(u)
  BY <1>12 DEF SettingsKnown, AtRest, Sound
<1>16. u.saved = Null
  BY <1>12 DEF AtRest, SameConns
<1> QED
  BY <1>12, <1>13, <1>14, <1>15, <1>16 DEF Sound, u

(* An option is set.                                                       *)
LEMMA OptionHolds ==
  ASSUME Inv, SetOption
  PROVE  Holds
<1>1. pc = "options" /\ frames = <<>> /\ ~opening
  BY Zenon DEF SetOption, AtOption
<1>2. UNCHANGED <<pc, opening, frames, nRun, before, stop, since>>
  BY Zenon DEF SetOption
<1>3. PICK o, v : s' = Set(s, o, v)
  BY Zenon DEF SetOption
<1>4. AtRest(s)
  BY <1>1, MainIsNext
<1>5. /\ Sound(s') /\ OnceFresh(s') /\ s'.saved = Null /\ s'.normalMode = s.normalMode
      /\ s'.seenInterrupt = s.seenInterrupt
  BY <1>3, <1>4, OptionSets
<1> QED
  BY <1>1, <1>2, <1>5, MainHolds

(* An option that ends the program.                                        *)
LEMMA OptionEnds ==
  ASSUME Inv, EndingOption
  PROVE  Holds
<1>1. pc = "options" /\ Exit(s) /\ UNCHANGED <<nRun, since>>
  BY DEF EndingOption, AtOption
<1>2. OnceFresh(s)
  BY DEF Inv
<1> QED
  BY <1>1, <1>2, EndHolds

(* A dot-command or SQL that main was given.                               *)
LEMMA GivenHolds ==
  ASSUME Inv, pc \notin {"start", "done"}, frames = <<>>, ~opening, NEW z, Given(z), interactive' = interactive,
         nRun' = nRun
  PROVE  Holds
<1>1. Ready /\ s.seenInterrupt \in Nat /\ Stacked(frames)
  BY MainIsNext DEF Ready, Live
<1>2. Outcome
  <2>1. CASE z[1] = "."
    BY <1>1, <2>1, CommandStep DEF Given
  <2>2. CASE z[1] # "."
    <3> DEFINE unit == 0
    <3>1. PICK r \in open_db([s EXCEPT !.unit = unit]) :
            IF ~r.ok THEN Exit(r.s)
            ELSE \E hit \in Hits(r.s, z) :
                   LET e == shell_exec(r.s, z, hit) IN
                   ReturnTo(frames, IF hit > 0 THEN [e.s EXCEPT !.seenInterrupt = @ + 1] ELSE e.s, e.rc)
      BY <2>2 DEF Given
    <3> HIDE DEF unit
    <3>2. unit \in Nat /\ unit = 0
      BY DEF unit
    <3>3. /\ Sound(r.s) /\ OnceFresh(r.s) /\ r.s.saved = Null /\ r.s.seenInterrupt \in Nat
          /\ SameSettings(s, r.s) /\ SettingsStep(s, r.s)
          /\ r.s.unit = unit
      BY <1>1, <3>2, SqlOpens
    <3>4. CASE ~r.ok
      BY <3>1, <3>3, <3>4, Exits
    <3>5. CASE r.ok
      <4> DEFINE n == r.s.seenInterrupt + 1
                 u == [r.s EXCEPT !.seenInterrupt = n]
      <4>1. PICK hit : LET e == shell_exec(r.s, z, hit) IN
              ReturnTo(frames, IF hit > 0 THEN [e.s EXCEPT !.seenInterrupt = @ + 1] ELSE e.s, e.rc)
        BY <3>1, <3>5
      <4>2. shell_exec(r.s, z, hit).s = r.s
        BY <3>2, <3>3, SqlWrites
      <4> DEFINE rc == shell_exec(r.s, z, hit).rc
                 v == IF hit > 0 THEN u ELSE r.s
      <4>3. ReturnTo(frames, v, rc)
        BY <4>1, <4>2
      <4> HIDE DEF rc
      <4>4. n \in Nat
        BY <3>3
      <4> HIDE DEF n
      <4>5. Sound(u) /\ SameConns(r.s, u) /\ SameSettings(r.s, u) /\ u.seenInterrupt = n /\ OnceFresh(u)
        BY <3>3, <4>4, InterruptNoted
      <4> HIDE DEF u
      <4>6. Sound(v) /\ OnceFresh(v) /\ v.saved = Null /\ v.seenInterrupt \in Nat /\ SameSettings(s, v)
        BY <3>3, <4>4, <4>5 DEF SameSettings, SameConns
      <4> HIDE DEF v
      <4>7. SettingsStep(s, v)
        BY <4>6, SettingsAlike DEF Inv, Live, Sound
      <4> QED
        BY <1>1, <4>3, <4>6, <4>7, Resumes DEF Ready
    <3> QED
      BY <3>4, <3>5
  <2> QED
    BY <2>1, <2>2
<1>3. Remembers /\ since' = IF s'.seenInterrupt = 0 THEN 0 ELSE since
  BY DEF Given
<1>4. since' \in 0..1 /\ (since' = 1 => s'.seenInterrupt # 0) /\ nRun' \in Nat
  BY <1>3 DEF Inv
<1> QED
  BY <1>2, <1>3, <1>4, OutcomeHolds

(* -cmd, and the arguments.                                                *)
LEMMA ArgumentHolds ==
  ASSUME Inv, CmdOption \/ Argument
  PROVE  Holds
<1>1. /\ pc \in {"options", "args"} /\ frames = <<>> /\ ~opening /\ interactive' = interactive /\ nRun' = nRun
      /\ \E z : Given(z)
  BY DEF CmdOption, Argument, AtOption
<1> QED
  BY <1>1, GivenHolds

(* After the options: the arguments or standard input.                     *)
LEMMA OptionsEnd ==
  ASSUME Inv, EndOptions
  PROVE  Holds
<1>1. /\ pc = "options" /\ frames = <<>> /\ ~opening /\ pc' \in {"args", "input"}
      /\ frames' = <<>> \/ \E kind : frames' = <<Input(kind)>>
      /\ UNCHANGED <<s, opening, nRun, before, stop, since>>
  BY DEF EndOptions
<1>2. AtRest(s)
  BY <1>1, MainIsNext
<1> QED
  BY <1>1, <1>2, MainHolds DEF AtRest

(* The end of main.                                                        *)
LEMMA CloseHolds ==
  ASSUME Inv, Close
  PROVE  Holds
<1> DEFINE t == [s EXCEPT !.zDestTable = <<>>]
           q == Less(t.conns, s.db)
           u == [t EXCEPT !.conns = q]
<1>1. pc # "done" /\ Exit(u) /\ UNCHANGED <<nRun, since>>
  BY DEF Close, sqlite3_close
<1>2. IsSession(s) /\ OnceFresh(s)
  BY <1>1 DEF Inv, Live, Sound
<1> HIDE DEF q
<1>3. SameStreams(s, u) /\ u.normalMode = s.normalMode
  BY <1>2 DEF IsSession, Fields, SameStreams
<1> HIDE DEF u
<1>4. OnceFresh(u)
  BY <1>2, <1>3 DEF OnceFresh, Unwritten, SameStreams
<1> QED
  BY <1>1, <1>3, <1>4, EndHolds

-----------------------------------------------------------------------------
(* The theorems.                                                           *)

(* The program begins with nothing open but the standard streams.          *)
LEMMA InitHolds == Init => Inv
<1> SUFFICES ASSUME Init PROVE Inv
  OBVIOUS
<1>1. /\ pc = "start" /\ s = main_init /\ opening = FALSE /\ frames = <<>> /\ nRun = 0 /\ stop = FALSE /\ since = 0
  BY DEF Init
<1> DEFINE none == ""
           column == <<"|">>
           row == <<LF>>
           t == [db |-> Null, globalDb |-> Null, conns |-> <<>>, file |-> none, saved |-> Null, savedFile |-> none,
                 mode |-> "list", colWidth |-> <<>>, colSeparator |-> column, rowSeparator |-> row, nullValue |-> none,
                 zDestTable |-> <<>>, normalMode |-> Unsaved,
                 out |-> stdout, outfile |-> none, outCount |-> 0, pLog |-> Null, traceOut |-> Null, streams |-> <<>>,
                 on |-> {}, seenInterrupt |-> 0, unit |-> 0]
<1>2. s = t
  BY Zenon, <1>1 DEF main_init
<1> HIDE DEF none, column, row
<1>3. IsSession(s)
  BY <1>2 DEF IsSession, Fields
<1>4. /\ s.db = Null /\ s.globalDb = Null /\ s.conns = <<>> /\ s.saved = Null /\ s.mode = "list" /\ s.normalMode = Unsaved
      /\ s.out = stdout /\ s.outCount = 0 /\ s.pLog = Null /\ s.traceOut = Null /\ s.streams = <<>>
      /\ s.seenInterrupt = 0 /\ s.unit = 0
  BY <1>2
<1>5. DOMAIN <<>> = {} /\ IsFiniteSet({}) /\ <<>> = [x \in {} |-> <<>>[x]]
  BY FS_EmptySet
<1>6. StreamsOpen(s)
  BY <1>4, <1>5 DEF StreamsOpen, StreamsKnown, Files, Null, stdout, stderr
<1>7. ConnsOpen(s)
  BY <1>4, <1>5 DEF ConnsOpen, ConnsKnown, Null
<1>8. SettingsKnown(s)
  BY <1>4 DEF SettingsKnown, Unsaved
<1>9. s.normalMode.valid = FALSE
  BY <1>4 DEF Unsaved
<1>10. Live
  BY <1>1, <1>3, <1>4, <1>6, <1>7, <1>8, <1>9 DEF Live, Sound
<1>11. OnceFresh(s)
  BY <1>4 DEF OnceFresh
<1> QED
  BY <1>1, <1>10, <1>11, NoInput DEF Inv

(* Every step keeps the invariant and what explain mode keeps.             *)
LEMMA NextHolds ==
  ASSUME Inv, Next
  PROVE  Holds
BY LineRead, FileEnds, DotLineHolds, BlankLineHolds, SqlLineHolds, InputEnds, SavedClosed, InterruptHolds,
   StartHolds, WordSkipped, OptionHolds, OptionEnds, ArgumentHolds, OptionsEnd, CloseHolds DEF Next

(* The invariant is inductive.                                             *)
THEOREM ShellInv == Spec => []Inv
<1>1. Inv /\ UNCHANGED vars => Inv'
  BY DEF vars, Inv, Live, Stopped, Interrupted, Top, AtTerminal
<1>2. Inv /\ [Next]_vars => Inv'
  BY <1>1, NextHolds DEF Holds
<1> QED
  BY InitHolds, <1>2, PTL DEF Spec

(* Whatever is given in whatever order, and whenever Ctrl-C comes, the     *)
(* session points at what is open and no file or connection is lost (the   *)
(* commands of do_meta_command, interrupt_handler).                        *)
THEOREM HandlesStayOpen == Spec => []HandlesOpen
<1>1. Inv => HandlesOpen
  BY DEF Inv, Live, Sound, StreamsOpen, Files, ConnsOpen, SettingsKnown, HandlesOpen
<1> QED
  BY <1>1, ShellInv, PTL

(* A file of .once has one output, and is closed with it.                  *)
THEOREM OnceIsOnce == Spec => []OnceOnce
<1>1. Inv => OnceOnce
  BY DEF Inv, OnceFresh, Unwritten, OnceOnce
<1> QED
  BY <1>1, ShellInv, PTL

(* .explain off brings back the mode, the headers and the widths there     *)
(* were when explain mode was entered.                                     *)
THEOREM ExplainAlwaysRestores == Spec => ExplainRestores
<1>1. Inv /\ [Next]_vars => [s.normalMode.valid /\ ~s'.normalMode.valid => Settings(s') = before]_vars
  <2> SUFFICES ASSUME Inv, Next, s.normalMode.valid, ~s'.normalMode.valid PROVE Settings(s') = before
    OBVIOUS
  <2>1. SettingsStep(s, s')
    BY NextHolds DEF Holds
  <2>2. pc # "done"
    BY DEF Next, Start, SkipWord, SetOption, EndingOption, CmdOption, EndOptions, Argument, Close, one_input_line,
           EndOfFile, DotLine, BlankLine, SqlLine, EndInput, CloseSaved, interrupt_handler, AtOption, Inv
  <2> QED
    BY <2>1, <2>2 DEF Inv, Live, SettingsStep
<1> QED
  BY <1>1, ShellInv, PTL DEF Spec, ExplainRestores

(* -bail: after an error nothing is run until a terminal is read from or   *)
(* ~/.sqliterc is over.  Ctrl-C: one unit at most is run from files.       *)
THEOREM StopsAlways == Spec => StopsWhenTold
<1>1. Inv /\ [Next]_vars => [(stop => nRun' = nRun) /\ since' <= 1]_vars
  <2> SUFFICES ASSUME Inv, Next PROVE (stop => nRun' = nRun) /\ since' <= 1
    OBVIOUS
  <2> QED
    BY NextHolds DEF Holds, Inv
<1> QED
  BY <1>1, ShellInv, PTL DEF Spec, StopsWhenTold
=============================================================================
