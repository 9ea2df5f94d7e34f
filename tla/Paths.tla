------------------------------- MODULE Paths -------------------------------
(***************************************************************************)
(* How a caller names a directory to the volume: its path is spelled from  *)
(* the dentry upward (util.c), and walked from the root down by cutting    *)
(* names off it with strtok (entry.c).  Both keep what they are at in      *)
(* static variables, so callers that overlap share it; and cutting leaves  *)
(* its marks in the caller's buffer.                                       *)
(*                                                                         *)
(* A path is the sequence of its names.  The volume does not change here.  *)
(***************************************************************************)
EXTENDS Naturals, Sequences, SequencesExt, FiniteSets

CONSTANTS
  Callers,   (* Threads that may be in a call at the same time.            *)
  Dirs,      (* The directories on the volume; <<>> is the root.           *)
  Asked,     (* The paths asked for, with those above them.                *)
  MaxCalls   (* Bound: calls in a behaviour.                               *)

ASSUME PathsAssumption ==
  /\ <<>> \in Dirs \cap Asked
  /\ \A d \in Dirs : d = <<>> \/ Front(d) \in Dirs
  /\ \A q \in Asked : q \in Seq(Range(q)) /\ (q = <<>> \/ Front(q) \in Asked)
  /\ Callers \cap {"none", "dead"} = {}
  /\ MaxCalls \in Nat

VARIABLES
  program, (* Who calls: the kernel module, or the database shell, which   *)
           (* has one thread and spells no paths.                          *)
  call,    (* By caller, the call it is in.                                *)
  tmp,     (* The static buffers of util.c:77 and util.c:107.              *)
  last,    (* The static position of strtok.                               *)
  calls    (* Calls begun.                                                 *)

vars == <<program, call, tmp, last, calls>>

Names == UNION {Range(q) : q \in Asked}

(* A position: at the k-th name in o's buffer; nowhere; or in the buffer   *)
(* of a call that is over.                                                 *)
At(o, k) == [owner |-> o, at |-> k]
Nowhere == At("none", 0)
Dead == At("dead", 0)

(* What a call is for, with the path it is about and its directory.  The   *)
(* operations on a name spell the path of its parent; those that have a    *)
(* file open spell the file's and take its name off; a listing spells the  *)
(* directory's own.  The shell is handed its route.                        *)
Target(op, q) == IF op \in {"lookup", "read"} THEN Front(q) ELSE q
Spelled(op, q) == IF op = "lookup" THEN Front(q) ELSE q
Static(op) == IF op = "lookup" THEN "dir" ELSE "file"
Ops(q) == IF q = <<>> THEN {"readdir"} ELSE {"lookup", "read", "readdir"}

(* up counts the dentries not yet spelled.  marks are the names behind     *)
(* which strtok has put an end: the first of them ends the string.  held   *)
(* is what strtok found in last, name the name it gave.  dir is where the  *)
(* walk is; wrong, that it came to no directory.  alone says that no other *)
(* call ran since this one began.                                          *)
Idle == [pc |-> "idle", op |-> "readdir", path |-> <<>>, buf |-> <<>>, marks |-> {},
         up |-> 0, held |-> Nowhere, name |-> <<>>, dir |-> <<>>, wrong |-> FALSE,
         made |-> FALSE, alone |-> TRUE]

Running(c) == call[c].pc # "idle"
Shown(r) == SubSeq(r.buf, 1, Min(r.marks \cup {Len(r.buf)}))

(* A call takes a step.                                                    *)
Step(c, r) ==
  call' = [o \in Callers |->
             IF o = c THEN [r EXCEPT !.alone = @ /\ \A b \in Callers \ {c} : ~Running(b)]
             ELSE [call[o] EXCEPT !.alone = @ /\ ~Running(o)]]

-----------------------------------------------------------------------------
(* Spelling the path.                                                      *)

Begin(c, op, q) ==
  /\ program = "kernel" /\ calls < MaxCalls /\ ~Running(c)
  /\ Step(c, [Idle EXCEPT !.pc = "spell", !.op = op, !.path = q, !.up = Len(Spelled(op, q))])
  /\ calls' = calls + 1
  /\ UNCHANGED <<program, tmp, last>>

(* sprintf(tmp, "/%s%s", name, buf): the next name goes before the others. *)
Spell(c) ==
  LET r == call[c] IN
  /\ r.pc = "spell" /\ r.up > 0
  /\ tmp' = [tmp EXCEPT ![Static(r.op)] = <<r.path[r.up]>> \o r.buf]
  /\ Step(c, [r EXCEPT !.pc = "copy"])
  /\ UNCHANGED <<program, last, calls>>

(* strncpy(buf, tmp, len): whatever is in tmp by now.                      *)
Copy(c) ==
  LET r == call[c] IN
  /\ r.pc = "copy"
  /\ Step(c, [r EXCEPT !.pc = "spell", !.up = @ - 1, !.buf = tmp[Static(r.op)]])
  /\ UNCHANGED <<program, tmp, last, calls>>

-----------------------------------------------------------------------------
(* Walking it.                                                             *)

Ends(r, k) == k = Len(r.buf) \/ k \in r.marks

(* A faulty variant of Left: the end of the string is not noted.           *)
LeftAlways(o, r, k) == At(o, IF k = Len(r.buf) THEN k ELSE k + 1)

(* What strtok leaves in last after the k-th name in o's buffer ...        *)
Left(o, r, k) == IF Ends(r, k) THEN Nowhere ELSE At(o, k + 1)

(* A faulty variant of Marked: the separator before the name is marked.    *)
MarkedBefore(r, k) == [r EXCEPT !.marks = @ \cup {k - 1}]

(* ... and the mark it leaves in the buffer.                               *)
Marked(r, k) == IF Ends(r, k) THEN r ELSE [r EXCEPT !.marks = @ \cup {k}]

(* The first strtok of get_cluster_number.  The name of a file is taken    *)
(* off before, into a buffer of the call's.                                *)
First(c) ==
  LET r == IF call[c].op = "read" THEN [call[c] EXCEPT !.buf = Front(@)] ELSE call[c] IN
  /\ r.pc = "spell" /\ r.up = 0
  /\ UNCHANGED <<program, tmp, calls>>
  /\ IF r.buf = <<>>
     THEN last' = Nowhere /\ Step(c, [r EXCEPT !.pc = "done"])
     ELSE /\ last' = Left(c, r, 1)
          /\ Step(c, [Marked(r, 1) EXCEPT !.pc = "match", !.name = <<r.buf[1]>>])

(* A faulty variant of Wrong: the search starts over.                      *)
WrongAgain(r) == r

(* There is no such directory: the walk is over.                           *)
Wrong(r) == [r EXCEPT !.pc = "done", !.wrong = TRUE]

(* The name is looked up in the directory the walk is at.                  *)
Match(c) ==
  LET r == call[c]
      below == r.dir \o r.name
  IN
  /\ r.pc = "match"
  /\ Step(c, IF below \in Dirs THEN [r EXCEPT !.pc = "strtok", !.dir = below] ELSE Wrong(r))
  /\ UNCHANGED <<program, tmp, last, calls>>

(* strtok(NULL) reads last ...                                             *)
Load(c) ==
  LET r == call[c] IN
  /\ r.pc = "strtok"
  /\ Step(c, [r EXCEPT !.pc = "cut", !.held = last])
  /\ UNCHANGED <<program, tmp, last, calls>>

(* ... finds that there is no name left, so that the walk is over; ...     *)
CutNone(c) ==
  LET r == call[c] IN
  /\ r.pc = "cut" /\ r.held = Nowhere
  /\ Step(c, [r EXCEPT !.pc = "done"])
  /\ UNCHANGED <<program, tmp, last, calls>>

(* ... or cuts one off and moves last behind it.  The buffer may be that   *)
(* of another call.                                                        *)
CutName(c) ==
  LET r == call[c]
      o == r.held.owner
      k == r.held.at
      q == [r EXCEPT !.pc = "match", !.held = Nowhere]
  IN
  /\ r.pc = "cut" /\ o \in Callers
  /\ last' = Left(o, call[o], k)
  /\ LET got == [q EXCEPT !.name = <<call[o].buf[k]>>] IN
     IF o = c THEN Step(c, Marked(got, k))
     ELSE call' = [call EXCEPT ![c] = [got EXCEPT !.alone = FALSE],
                               ![o] = [Marked(@, k) EXCEPT !.alone = FALSE]]
  /\ UNCHANGED <<program, tmp, calls>>

(* What is in a buffer whose call is over, nobody knows.                   *)
CutDead(c) ==
  LET r == call[c]
      q == [r EXCEPT !.held = Nowhere]
  IN
  /\ r.pc = "cut" /\ r.held = Dead
  /\ \/ /\ \E n \in Names : Step(c, [q EXCEPT !.pc = "match", !.name = <<n>>])
        /\ last' \in {Dead, Nowhere}
     \/ Step(c, [q EXCEPT !.pc = "done"]) /\ last' = Nowhere
  /\ UNCHANGED <<program, tmp, calls>>

(* The call is over, and its buffer with it.                               *)
Over(c) ==
  LET Buried(h) == IF h.owner = c THEN Dead ELSE h IN
  /\ last' = Buried(last)
  /\ call' = [o \in Callers |-> IF o = c THEN Idle ELSE [call[o] EXCEPT !.held = Buried(@)]]
  /\ UNCHANGED <<program, tmp, calls>>

Return(c) == program = "kernel" /\ call[c].pc = "done" /\ Over(c)

-----------------------------------------------------------------------------
(* The database shell.                                                     *)

(* open_sqlite_file: the lookup walks the caller's route ...               *)
open_sqlite_file(c, d) ==
  /\ program = "shell" /\ calls < MaxCalls /\ \A o \in Callers : ~Running(o)
  /\ Step(c, [Idle EXCEPT !.pc = "spell", !.op = "open", !.path = d, !.buf = d])
  /\ calls' = calls + 1
  /\ UNCHANGED <<program, tmp, last>>

(* ... and when there is no such file, create walks what the lookup left.  *)
(* What the lookup does after a wrong route is in Vfs.                     *)
create_sqlite_file(c) ==
  LET r == call[c] IN
  /\ program = "shell" /\ r.pc = "done" /\ ~r.made /\ ~r.wrong
  /\ Step(c, [r EXCEPT !.pc = "spell", !.buf = Shown(r), !.marks = {}, !.dir = <<>>, !.made = TRUE])
  /\ UNCHANGED <<program, tmp, last, calls>>

(* The file was found, or is made now.                                     *)
Opened(c) == program = "shell" /\ call[c].pc = "done" /\ Over(c)

-----------------------------------------------------------------------------
PathsInit ==
  /\ program \in {"kernel", "shell"}
  /\ call = [c \in Callers |-> Idle]
  /\ tmp = [s \in {"dir", "file"} |-> <<>>]
  /\ last = Nowhere
  /\ calls = 0

Advance(c) ==
  \/ Spell(c)
  \/ Copy(c)
  \/ First(c)
  \/ Match(c)
  \/ Load(c)
  \/ CutNone(c)
  \/ CutName(c)
  \/ CutDead(c)
  \/ Return(c)
  \/ create_sqlite_file(c)
  \/ Opened(c)

Enter(c) ==
  \/ \E q \in Asked : \E op \in Ops(q) : Begin(c, op, q)
  \/ \E q \in Asked : open_sqlite_file(c, q)

PathsNext == \E c \in Callers : Enter(c) \/ Advance(c)

(* A thread that is in a call keeps running.                               *)
PathsFairness == \A c \in Callers : WF_vars(Advance(c))

PathsSpec == PathsInit /\ [][PathsNext]_vars /\ PathsFairness

-----------------------------------------------------------------------------
(* What is checked.                                                        *)

(* A call that no other overlaps comes to the directory it asks for, or to *)
(* none when there is none, whatever calls before it left in the static    *)
(* variables (util.c:10, util.c:77, util.c:107); and the names at the root *)
(* are looked up at the root, whatever overlaps: the walk of an empty path *)
(* asks the static variables for nothing (namei.c:91, entry.c:135).        *)
HarmNeedsOverlap ==
  \A c \in Callers :
    LET r == call[c]
        dir == Target(r.op, r.path) IN
    r.pc = "done" =>
      /\ r.alone /\ ~r.made => IF dir \in Dirs THEN ~r.wrong /\ r.dir = dir ELSE r.wrong
      /\ r.op # "read" /\ dir = <<>> => ~r.wrong /\ r.dir = <<>>

(* The lookup of open_sqlite_file cuts the route short for the create that *)
(* follows: the file is made in the first directory of its route, which is *)
(* the one asked for when the route has no second (sqliteio.c:45).         *)
FirstNameSurvives ==
  \A c \in Callers :
    LET r == call[c] IN
    r.pc = "done" /\ r.made => ~r.wrong /\ r.dir = SubSeq(r.path, 1, Min({1, Len(r.path)}))

(* However calls overlap, each comes to its end: a walk goes down with     *)
(* every name it is given (entry.c:152).                                   *)
CallsEnd == \A c \in Callers : Running(c) ~> ~Running(c)
=============================================================================
