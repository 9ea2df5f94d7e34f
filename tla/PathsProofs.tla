---------------------------- MODULE PathsProofs ----------------------------
(***************************************************************************)
(* Theorems about Paths, for any number of callers and any directories.    *)
(*                                                                         *)
(* A call that no other overlaps is where its path says: PInv holds for    *)
(* each place in such a call what is spelled, cut off and left in the      *)
(* static variables so far.  Whatever overlaps ends that, and then only    *)
(* the names at the root, which take no walk, are still safe.              *)
(***************************************************************************)
EXTENDS Paths, FiniteSetTheorems, SequenceTheorems, TLAPS

-----------------------------------------------------------------------------
(* Induction on numbers, with sets of numbers in place of predicates.      *)

(* A set of numbers that is not empty has a least element.                 *)
LEMMA LeastNumber ==
  ASSUME NEW T \in SUBSET Nat, T # {}
  PROVE  \E m \in T : \A k \in T : m <= k
<1> DEFINE R == OpToRel(<, Nat)
<1>1. \A x, y \in Nat : x < y => <<x, y>> \in R
  BY DEF OpToRel
<1>2. PICK x \in T : \A y \in T : ~(<<y, x>> \in R)
  BY NatLessThanWellFounded, WFMin, Zenon
<1> HIDE DEF R
<1>3. ASSUME NEW k \in T, ~ (x <= k) PROVE FALSE
  <2>1. k < x
    BY <1>3
  <2> QED
    BY <1>1, <1>2, <2>1
<1> QED
  BY <1>3

(* Induction: a set that holds 0, and the successor of each number in it,  *)
(* holds every number.                                                     *)
LEMMA Induction ==
  ASSUME NEW T, 0 \in T, \A n \in Nat : n \in T => n + 1 \in T
  PROVE  \A n \in Nat : n \in T
<1> SUFFICES ASSUME NEW n \in Nat, n \notin T PROVE FALSE
  OBVIOUS
<1>1. PICK m \in Nat \ T : \A k \in Nat \ T : m <= k
  BY LeastNumber
<1>2. m # 0 /\ m - 1 \in Nat /\ m - 1 \in T
  BY <1>1
<1> QED
  BY <1>1, <1>2

-----------------------------------------------------------------------------
(* The inductive invariant.                                                *)

Fields == {"pc", "op", "path", "buf", "marks", "up", "held", "name", "dir", "wrong", "made", "alone"}
Upto(q, k) == SubSeq(q, 1, k)
Rest(q, k) == SubSeq(q, k + 1, Len(q))

(* What a call spells, and what it walks.  The second walk of              *)
(* open_sqlite_file has the first name of the route only.                  *)
FirstName(q) == IF q = <<>> THEN <<>> ELSE Upto(q, 1)
Text(r) == IF r.made THEN FirstName(r.path) ELSE Spelled(r.op, r.path)
Way(r) == IF r.made THEN FirstName(r.path) ELSE Target(r.op, r.path)

(* The walk of c has cut off k names: the marks are behind all of them but *)
(* the last of the path, and next is where strtok goes on.                 *)
CutOff(c, r, k, next) ==
  /\ r.buf = Way(r)
  /\ r.marks = {j \in 1..k : j < Len(Way(r))}
  /\ next = IF k = Len(Way(r)) THEN Nowhere ELSE At(c, k + 1)

(* Where a call is that no other overlaps, with tmp and last as t and l.   *)
OnWay(c, r, t, l) ==
  LET w == Way(r) IN
  /\ r.pc # "done" => ~r.wrong
  /\ r.pc \in {"spell", "copy"} => r.up \in 0..Len(Text(r)) /\ r.dir = <<>> /\ r.marks = {}
  /\ r.pc \notin {"spell", "copy"} => r.up = 0
  /\ r.pc = "spell" => r.buf = Rest(Text(r), r.up)
  /\ r.pc = "copy" => r.up > 0 /\ t[Static(r.op)] = Rest(Text(r), r.up - 1)
  /\ r.pc = "match" =>
       \E k \in 1..Len(w) : CutOff(c, r, k, l) /\ r.name = <<w[k]>> /\ r.dir = Upto(w, k - 1)
  /\ r.pc = "strtok" =>
       \E k \in 1..Len(w) : CutOff(c, r, k, l) /\ r.dir = Upto(w, k) /\ r.dir \in Dirs
  /\ r.pc = "cut" =>
       \E k \in 1..Len(w) : CutOff(c, r, k, r.held) /\ r.dir = Upto(w, k) /\ r.dir \in Dirs
  /\ r.pc = "done" => IF w \in Dirs THEN ~r.wrong /\ r.dir = w /\ CutOff(c, r, Len(w), Nowhere)
                      ELSE r.wrong

(* A call about a name at the root, whatever overlaps.                     *)
AtRoot(r) ==
  r.pc \in {"spell", "done"} /\ r.up = 0 /\ r.buf = <<>> /\ r.dir = <<>> /\ ~r.wrong

Good(c) ==
  LET r == call[c] IN
  /\ DOMAIN r = Fields /\ r.path \in Asked
  /\ r.pc \in {"idle", "spell", "copy", "match", "strtok", "cut", "done"}
  /\ r.op \in {"lookup", "read", "readdir", "open"}
  /\ r.op \in {"lookup", "read"} => r.path # <<>>
  /\ r.made => program = "shell" /\ r.op = "open" /\ r.path \in Dirs
  /\ Running(c) /\ r.alone => OnWay(c, r, tmp, last) /\ \A o \in Callers \ {c} : ~Running(o)
  /\ Running(c) /\ program = "shell" => r.alone /\ r.op = "open"
  /\ Running(c) /\ ~r.made /\ r.op # "read" /\ Target(r.op, r.path) = <<>> => AtRoot(r)

PInv ==
  /\ DOMAIN call = Callers /\ DOMAIN tmp = {"dir", "file"}
  /\ \A c \in Callers : Good(c)

-----------------------------------------------------------------------------
(* Sequences of names.                                                     *)

(* The first k names of a path, one by one.                                *)
LEMMA UptoSteps ==
  ASSUME NEW q \in Seq(Names)
  PROVE  /\ Len(q) \in Nat /\ Upto(q, 0) = <<>> /\ Upto(q, Len(q)) = q
         /\ \A k \in 0..Len(q) : Upto(q, k) \in Seq(Names) /\ Len(Upto(q, k)) = k
         /\ \A k \in 1..Len(q) : Upto(q, k) = Upto(q, k - 1) \o <<q[k]>>
         /\ \A k \in 1..Len(q) : Front(Upto(q, k)) = Upto(q, k - 1)
<1>1. Len(q) \in Nat /\ DOMAIN q = 1..Len(q)
  BY LenProperties
<1>2. Upto(q, 0) = <<>> /\ Upto(q, Len(q)) = q
  BY <1>1, SubSeqEmpty, SubSeqFull DEF Upto
<1>3. ASSUME NEW k \in 0..Len(q) PROVE Upto(q, k) \in Seq(Names) /\ Len(Upto(q, k)) = k
  BY <1>1 DEF Upto
<1>4. ASSUME NEW k \in 1..Len(q) PROVE Upto(q, k) = Upto(q, k - 1) \o <<q[k]>>
  <2>1. 1 \in 1..Len(q) /\ k \in 1..Len(q)
    BY <1>1
  <2> QED
    BY <2>1, SubSeqRecursiveSecond DEF Upto
<1>5. ASSUME NEW k \in 1..Len(q) PROVE Front(Upto(q, k)) = Upto(q, k - 1)
  <2> DEFINE p == Upto(q, k)
  <2>1. k \in 0..Len(q) /\ k - 1 \in 0..Len(q) /\ k \in Nat /\ k - 1 \in 0..k
    BY <1>1
  <2>2. p \in Seq(Names) /\ Len(p) = k /\ \A i \in 1..k : p[i] = q[i]
    BY <2>1, <1>1 DEF Upto
  <2>3. /\ Upto(q, k - 1) \in Seq(Names) /\ Len(Upto(q, k - 1)) = k - 1
        /\ \A i \in 1..(k - 1) : Upto(q, k - 1)[i] = q[i]
    BY <2>1, <1>1 DEF Upto
  <2> HIDE DEF p
  <2>4. /\ Upto(p, k - 1) \in Seq(Names) /\ Len(Upto(p, k - 1)) = k - 1
        /\ \A i \in 1..(k - 1) : Upto(p, k - 1)[i] = p[i]
    BY <2>1, <2>2 DEF Upto
  <2>5. \A i \in 1..(k - 1) : i \in 1..k
    BY <2>1
  <2>6. Upto(p, k - 1) = Upto(q, k - 1)
    BY <2>2, <2>3, <2>4, <2>5, SeqEqual
  <2> QED
    BY <2>2, <2>6 DEF Front, Upto, p
<1> QED
  BY <1>1, <1>2, <1>3, <1>4, <1>5

(* The names behind the first k, one by one.                               *)
LEMMA RestSteps ==
  ASSUME NEW q \in Seq(Names)
  PROVE  /\ Rest(q, 0) = q /\ Rest(q, Len(q)) = <<>>
         /\ \A k \in 1..Len(q) : Rest(q, k - 1) = <<q[k]>> \o Rest(q, k)
<1>1. Len(q) \in Nat
  BY LenProperties
<1>2. Rest(q, 0) = q /\ Rest(q, Len(q)) = <<>>
  <2>1. Rest(q, 0) = SubSeq(q, 1, Len(q))
    BY DEF Rest
  <2>2. Rest(q, Len(q)) = <<>>
    BY <1>1, SubSeqEmpty DEF Rest
  <2> QED
    BY <2>1, <2>2, SubSeqFull
<1>3. ASSUME NEW k \in 1..Len(q) PROVE Rest(q, k - 1) = <<q[k]>> \o Rest(q, k)
  <2>1. Len(q) \in k..Len(q) /\ (k - 1) + 1 = k
    BY <1>1
  <2> QED
    BY <2>1, SubSeqRecursiveFirst DEF Rest
<1> QED
  BY <1>2, <1>3

(* What is above a directory is a directory.                               *)
LEMMA DirsAbove ==
  ASSUME NEW q \in Seq(Names), q \in Dirs
  PROVE  \A k \in 0..Len(q) : Upto(q, k) \in Dirs
<1> DEFINE T == {n \in Nat : n <= Len(q) => Upto(q, Len(q) - n) \in Dirs}
<1>1. Len(q) \in Nat
  BY LenProperties
<1>2. 0 \in T
  BY <1>1, UptoSteps
<1>3. ASSUME NEW n \in Nat, n \in T PROVE n + 1 \in T
  <2> SUFFICES ASSUME n + 1 <= Len(q) PROVE Upto(q, Len(q) - (n + 1)) \in Dirs
    OBVIOUS
  <2>1. PICK k \in 1..Len(q) : k = Len(q) - n
    BY <1>1
  <2>2. k - 1 = Len(q) - (n + 1) /\ n <= Len(q) /\ k \in 0..Len(q)
    BY <1>1, <2>1
  <2>3. Upto(q, k) \in Dirs
    BY <1>3, <2>1, <2>2
  <2>4. Upto(q, k) = <<>> \/ Front(Upto(q, k)) \in Dirs
    BY <2>3, PathsAssumption
  <2>5. Upto(q, k) # <<>>
    BY <2>2, UptoSteps, EmptySeq
  <2>6. Upto(q, k - 1) \in Dirs
    BY <2>4, <2>5, UptoSteps
  <2> QED
    BY <2>2, <2>6
<1>4. \A n \in Nat : n \in T
  <2> HIDE DEF T
  <2> QED
    BY <1>2, <1>3, Induction
<1> TAKE k \in 0..Len(q)
<1>5. Len(q) - k \in Nat /\ Len(q) - k <= Len(q) /\ Len(q) - (Len(q) - k) = k
  BY <1>1
<1>6. Upto(q, Len(q) - (Len(q) - k)) \in Dirs
  BY <1>4, <1>5
<1> QED
  BY <1>5, <1>6

(* What a call spells and what it walks are paths.  They are the same but  *)
(* for a file that is open, whose name is taken off.                       *)
LEMMA WayTyped ==
  ASSUME NEW r, r.path \in Asked, r.op \in {"lookup", "read", "readdir", "open"},
         r.op \in {"lookup", "read"} => r.path # <<>>
  PROVE  /\ r.path \in Seq(Names) /\ Text(r) \in Seq(Names) /\ Way(r) \in Seq(Names)
         /\ r.made \/ r.op # "read" => Way(r) = Text(r)
         /\ ~r.made /\ r.op = "read" => Text(r) = r.path /\ Way(r) = Front(Text(r))
         /\ r.made => Len(Text(r)) <= 1
<1>1. r.path \in Seq(Names)
  <2>1. r.path \in Seq(Range(r.path)) /\ Range(r.path) \subseteq Names
    BY PathsAssumption DEF Names
  <2> QED
    BY <2>1, SeqMonotonic
<1>2. FirstName(r.path) \in Seq(Names) /\ Len(FirstName(r.path)) <= 1
  <2>1. CASE r.path = <<>>
    BY <2>1, <1>1, EmptySeq DEF FirstName
  <2>2. CASE r.path # <<>>
    <3>1. 1 \in 0..Len(r.path)
      BY <2>2, <1>1, EmptySeq
    <3> QED
      BY <2>2, <3>1, <1>1, UptoSteps DEF FirstName
  <2> QED
    BY <2>1, <2>2
<1>3. ASSUME r.op \in {"lookup", "read"} PROVE Front(r.path) \in Seq(Names)
  <2>1. Len(r.path) \in 1..Len(r.path)
    BY <1>1, <1>3, EmptySeq
  <2>2. Len(r.path) - 1 \in 0..Len(r.path)
    BY <2>1, <1>1, LenProperties
  <2>3. Front(r.path) = Upto(r.path, Len(r.path) - 1)
    BY DEF Front, Upto
  <2> QED
    BY <2>2, <2>3, <1>1, UptoSteps
<1>4. CASE r.made
  BY <1>1, <1>2, <1>4 DEF Way, Text
<1>5. CASE ~r.made
  BY <1>1, <1>3, <1>5 DEF Way, Text, Target, Spelled
<1> QED
  BY <1>4, <1>5

-----------------------------------------------------------------------------
(* Steps of one caller.                                                    *)

(* What the program of the thread that takes a step must be for the others *)
(* to be right.                                                            *)
MayStep(c) == Running(c) \/ program = "kernel" \/ \A o \in Callers : ~Running(o)

(* A step of c leaves r, as Step says.                                     *)
LEMMA StepEffect ==
  ASSUME PInv, NEW c \in Callers, NEW r, DOMAIN r = Fields, Step(c, r)
  PROVE  /\ DOMAIN call' = Callers
         /\ DOMAIN call'[c] = Fields
         /\ call'[c].alone <=> r.alone /\ \A o \in Callers \ {c} : ~Running(o)
         /\ call'[c].pc = r.pc /\ call'[c].op = r.op /\ call'[c].path = r.path
         /\ call'[c].buf = r.buf /\ call'[c].marks = r.marks /\ call'[c].up = r.up
         /\ call'[c].held = r.held /\ call'[c].name = r.name /\ call'[c].dir = r.dir
         /\ call'[c].wrong = r.wrong /\ call'[c].made = r.made
         /\ \A o \in Callers \ {c} :
              /\ DOMAIN call'[o] = Fields
              /\ call'[o].alone <=> call[o].alone /\ ~Running(o)
              /\ call'[o].pc = call[o].pc /\ call'[o].op = call[o].op
              /\ call'[o].path = call[o].path /\ call'[o].made = call[o].made
              /\ call'[o].up = call[o].up /\ call'[o].buf = call[o].buf
              /\ call'[o].dir = call[o].dir /\ call'[o].wrong = call[o].wrong
<1>1. /\ DOMAIN call' = Callers
      /\ call'[c] = [r EXCEPT !.alone = @ /\ \A o \in Callers \ {c} : ~Running(o)]
      /\ \A o \in Callers \ {c} : call'[o] = [call[o] EXCEPT !.alone = @ /\ ~Running(o)]
  BY DEF Step
<1>2. \A o \in Callers : DOMAIN call[o] = Fields
  BY DEF PInv, Good
<1>3. /\ DOMAIN call'[c] = Fields
      /\ call'[c].alone <=> r.alone /\ \A o \in Callers \ {c} : ~Running(o)
  BY <1>1 DEF Fields
<1>4. /\ call'[c].pc = r.pc /\ call'[c].op = r.op /\ call'[c].path = r.path
      /\ call'[c].buf = r.buf /\ call'[c].marks = r.marks /\ call'[c].up = r.up
      /\ call'[c].held = r.held /\ call'[c].name = r.name /\ call'[c].dir = r.dir
      /\ call'[c].wrong = r.wrong /\ call'[c].made = r.made
  BY <1>1 DEF Fields
<1>5. ASSUME NEW o \in Callers \ {c}
      PROVE  /\ DOMAIN call'[o] = Fields
             /\ call'[o].alone <=> call[o].alone /\ ~Running(o)
  <2>1. call'[o] = [call[o] EXCEPT !.alone = call[o].alone /\ ~Running(o)] /\ DOMAIN call[o] = Fields
    BY <1>1, <1>2
  <2>2. PICK x : x = call[o]
    OBVIOUS
  <2>3. PICK y : y = (call[o].alone /\ ~Running(o))
    OBVIOUS
  <2>4. call'[o] = [x EXCEPT !.alone = y] /\ DOMAIN x = Fields
    BY <2>1, <2>2, <2>3
  <2>5. DOMAIN call'[o] = Fields /\ call'[o].alone = y
    BY <2>4 DEF Fields
  <2> QED
    BY <2>3, <2>5
<1>6. ASSUME NEW o \in Callers \ {c}
      PROVE  /\ call'[o].pc = call[o].pc /\ call'[o].op = call[o].op
             /\ call'[o].path = call[o].path /\ call'[o].made = call[o].made
             /\ call'[o].up = call[o].up /\ call'[o].buf = call[o].buf
             /\ call'[o].dir = call[o].dir /\ call'[o].wrong = call[o].wrong
  BY <1>1, <1>2 DEF Fields
<1> QED
  BY <1>1, <1>3, <1>4, <1>5, <1>6

(* Whoever else is in a call is not alone any more; so after a step of c   *)
(* only c has to be looked at.                                             *)
LEMMA StepKeeps ==
  ASSUME PInv, NEW c \in Callers, NEW r, DOMAIN r = Fields, Step(c, r), MayStep(c),
         program' = program, DOMAIN tmp' = DOMAIN tmp, Good(c)'
  PROVE  PInv'
<1>1. ASSUME NEW o \in Callers \ {c} PROVE Good(o)'
  <2>1. Good(o)
    BY DEF PInv
  <2>2. Running(o)' <=> Running(o)
    BY StepEffect DEF Running
  <2>3. ~(Running(o)' /\ call'[o].alone)
    BY <2>2, StepEffect
  <2>4. Running(o) => program # "shell"
    <3>1. CASE Running(c)
      <4>1. program = "shell" => call[c].alone
        BY <3>1 DEF PInv, Good
      <4>2. call[c].alone => ~Running(o)
        BY <3>1 DEF PInv, Good
      <4> QED
        BY <4>1, <4>2
    <3> QED
      BY <3>1 DEF MayStep
  <2> DEFINE s == call'[o]
  <2>5. /\ DOMAIN s = Fields /\ s.pc = call[o].pc /\ s.op = call[o].op /\ s.path = call[o].path
        /\ s.made = call[o].made /\ s.up = call[o].up /\ s.buf = call[o].buf
        /\ s.dir = call[o].dir /\ s.wrong = call[o].wrong
    BY StepEffect
  <2>6. AtRoot(call[o]) <=> AtRoot(s)
    BY <2>5 DEF AtRoot
  <2> QED
    BY <2>1, <2>2, <2>3, <2>4, <2>5, <2>6 DEF Good
<1>2. DOMAIN call' = Callers
  BY StepEffect
<1> QED
  BY <1>1, <1>2 DEF PInv

(* The place of a call that is not alone says nothing.                     *)
LEMMA StepGood ==
  ASSUME PInv, NEW c \in Callers, NEW r, DOMAIN r = Fields, Step(c, r), MayStep(c),
         program' = program, DOMAIN tmp' = DOMAIN tmp,
         r.path \in Asked,
         r.pc \in {"spell", "copy", "match", "strtok", "cut", "done"},
         r.op \in {"lookup", "read", "readdir", "open"},
         r.op \in {"lookup", "read"} => r.path # <<>>,
         r.made => program = "shell" /\ r.op = "open" /\ r.path \in Dirs,
         program = "shell" => r.alone /\ r.op = "open",
         r.alone => OnWay(c, r, tmp', last'),
         ~r.made /\ r.op # "read" /\ Target(r.op, r.path) = <<>> => AtRoot(r)
  PROVE  PInv'
<1> DEFINE s == call'[c]
<1>1. /\ DOMAIN s = Fields /\ s.pc = r.pc /\ s.op = r.op /\ s.path = r.path
      /\ s.made = r.made /\ s.up = r.up /\ s.buf = r.buf /\ s.marks = r.marks
      /\ s.held = r.held /\ s.name = r.name /\ s.dir = r.dir /\ s.wrong = r.wrong
      /\ s.alone <=> r.alone /\ \A o \in Callers \ {c} : ~Running(o)
  BY StepEffect
<1>2. \A o \in Callers \ {c} : Running(o)' <=> Running(o)
  BY StepEffect DEF Running
<1>3. AtRoot(r) <=> AtRoot(s)
  BY <1>1 DEF AtRoot
<1>4. OnWay(c, r, tmp', last') <=> OnWay(c, s, tmp', last')
  BY <1>1 DEF OnWay, Way, Text, CutOff
<1>5. program = "shell" => \A o \in Callers \ {c} : ~Running(o)
  <2>1. CASE Running(c)
    BY <2>1 DEF PInv, Good
  <2> QED
    BY <2>1 DEF MayStep
<1>6. Good(c)'
  BY <1>1, <1>2, <1>3, <1>4, <1>5 DEF Good
<1> QED
  BY <1>6, StepKeeps

-----------------------------------------------------------------------------
(* Spelling keeps the invariant.                                           *)

(* A name of what is spelled is one of the path.                           *)
LEMMA SpelledFrom ==
  ASSUME NEW r, r.path \in Asked, r.op \in {"lookup", "read", "readdir", "open"},
         r.op \in {"lookup", "read"} => r.path # <<>>, NEW k \in 1..Len(Text(r))
  PROVE  Text(r)[k] = r.path[k]
<1>1. r.path \in Seq(Names) /\ Len(r.path) \in Nat /\ Text(r) \in Seq(Names)
  BY WayTyped, LenProperties
<1>2. ASSUME NEW m \in 0..Len(r.path), Text(r) = Upto(r.path, m) PROVE Text(r)[k] = r.path[k]
  <2>1. k \in 1..m
    BY <1>1, <1>2, UptoSteps
  <2> QED
    BY <1>1, <1>2, <2>1 DEF Upto
<1>3. Front(r.path) = Upto(r.path, Len(r.path) - 1)
  BY DEF Front, Upto
<1>4. r.path # <<>> => 1 \in 0..Len(r.path) /\ Len(r.path) - 1 \in 0..Len(r.path)
  BY <1>1, EmptySeq
<1>5. 0 \in 0..Len(r.path) /\ Upto(r.path, 0) = <<>>
  BY <1>1, UptoSteps
<1>6. Text(r) = r.path \/ \E m \in 0..Len(r.path) : Text(r) = Upto(r.path, m)
  <2>1. CASE r.made
    BY <2>1, <1>4, <1>5 DEF Text, FirstName
  <2>2. CASE ~r.made
    BY <2>2, <1>3, <1>4, <1>5 DEF Text, Spelled
  <2> QED
    BY <2>1, <2>2
<1> QED
  BY <1>2, <1>6

(* Begin: nothing is spelled yet.                                          *)
LEMMA BeginKeeps ==
  ASSUME PInv, NEW c \in Callers, NEW q \in Asked, NEW op \in Ops(q), Begin(c, op, q)
  PROVE  PInv'
<1> DEFINE r == [Idle EXCEPT !.pc = "spell", !.op = op, !.path = q, !.up = Len(Spelled(op, q))]
<1>1. /\ program = "kernel" /\ Step(c, r) /\ UNCHANGED <<program, tmp, last>>
  BY DEF Begin
<1>2. /\ DOMAIN r = Fields /\ r.pc = "spell" /\ r.op = op /\ r.path = q
      /\ r.up = Len(Spelled(op, q)) /\ r.buf = <<>> /\ r.marks = {} /\ r.dir = <<>>
      /\ r.wrong = FALSE /\ r.made = FALSE
  BY DEF Fields, Idle
<1> HIDE DEF r
<1>3. /\ op \in {"lookup", "read", "readdir"} /\ (op \in {"lookup", "read"} => q # <<>>)
  BY DEF Ops
<1>4. Text(r) = Spelled(op, q) /\ Text(r) \in Seq(Names)
  BY <1>2, <1>3, WayTyped DEF Text
<1>5. r.up \in 0..Len(Text(r)) /\ Rest(Text(r), r.up) = <<>>
  BY <1>2, <1>4, RestSteps, LenProperties
<1>6. OnWay(c, r, tmp', last')
  BY <1>2, <1>5 DEF OnWay
<1>7. r.op # "read" /\ Target(r.op, r.path) = <<>> => AtRoot(r)
  <2> SUFFICES ASSUME op # "read", Target(op, q) = <<>> PROVE AtRoot(r)
    BY <1>2
  <2>1. Spelled(op, q) = <<>>
    BY <1>3 DEF Spelled, Target
  <2> QED
    BY <1>2, <2>1, EmptySeq DEF AtRoot
<1> QED
  BY <1>1, <1>2, <1>3, <1>6, <1>7, StepGood DEF MayStep

(* Spell: the next name is in tmp, before the others.                      *)
LEMMA SpellKeeps ==
  ASSUME PInv, NEW c \in Callers, Spell(c)
  PROVE  PInv'
<1> DEFINE r == call[c]
           n == [r EXCEPT !.pc = "copy"]
<1>1. /\ r.pc = "spell" /\ r.up > 0 /\ Step(c, n) /\ UNCHANGED <<program, last>>
      /\ tmp' = [tmp EXCEPT ![Static(r.op)] = <<r.path[r.up]>> \o r.buf]
  BY DEF Spell
<1>2. Good(c) /\ DOMAIN tmp = {"dir", "file"}
  BY DEF PInv
<1>3. Running(c) /\ DOMAIN r = Fields
  BY <1>1, <1>2 DEF Running, Good
<1>4. /\ DOMAIN n = Fields /\ n.pc = "copy" /\ n.op = r.op /\ n.path = r.path /\ n.up = r.up
      /\ n.buf = r.buf /\ n.marks = r.marks /\ n.dir = r.dir /\ n.wrong = r.wrong
      /\ n.made = r.made /\ n.alone = r.alone
  BY <1>3 DEF Fields
<1> HIDE DEF n
<1>5. ASSUME r.alone PROVE OnWay(c, n, tmp', last')
  <2>1. OnWay(c, r, tmp, last)
    BY <1>2, <1>3, <1>5 DEF Good
  <2>2. /\ ~r.wrong /\ r.up \in 0..Len(Text(r)) /\ r.dir = <<>> /\ r.marks = {}
        /\ r.buf = Rest(Text(r), r.up)
    BY <2>1, <1>1 DEF OnWay
  <2>3. Text(r) \in Seq(Names) /\ Text(n) = Text(r)
    BY <1>2, <1>4, WayTyped DEF Good, Text
  <2>4. r.up \in 1..Len(Text(r))
    BY <1>1, <2>2, <2>3, LenProperties
  <2>5. Rest(Text(r), r.up - 1) = <<Text(r)[r.up]>> \o r.buf
    BY <2>2, <2>3, <2>4, RestSteps
  <2>6. tmp'[Static(r.op)] = <<r.path[r.up]>> \o r.buf
    BY <1>1, <1>2 DEF Static
  <2>7. Text(r)[r.up] = r.path[r.up]
    BY <2>4, SpelledFrom, <1>2 DEF Good
  <2> QED
    BY <1>1, <1>4, <2>2, <2>3, <2>5, <2>6, <2>7 DEF OnWay
<1>6. ~(~r.made /\ r.op # "read" /\ Target(r.op, r.path) = <<>>)
  BY <1>1, <1>2, <1>3 DEF Good, AtRoot
<1>7. DOMAIN tmp' = DOMAIN tmp
  BY <1>1
<1> QED
  BY <1>1, <1>2, <1>3, <1>4, <1>5, <1>6, <1>7, StepGood DEF MayStep, Good

(* Copy: what is in tmp is in the call's own buffer.                       *)
LEMMA CopyKeeps ==
  ASSUME PInv, NEW c \in Callers, Copy(c)
  PROVE  PInv'
<1> DEFINE r == call[c]
           n == [r EXCEPT !.pc = "spell", !.up = @ - 1, !.buf = tmp[Static(r.op)]]
<1>1. r.pc = "copy" /\ Step(c, n) /\ UNCHANGED <<program, tmp, last>>
  BY DEF Copy
<1>2. Good(c)
  BY DEF PInv
<1>3. Running(c) /\ DOMAIN r = Fields
  BY <1>1, <1>2 DEF Running, Good
<1>4. /\ DOMAIN n = Fields /\ n.pc = "spell" /\ n.op = r.op /\ n.path = r.path
      /\ n.up = r.up - 1 /\ n.buf = tmp[Static(r.op)] /\ n.marks = r.marks /\ n.dir = r.dir
      /\ n.wrong = r.wrong /\ n.made = r.made /\ n.alone = r.alone
  BY <1>3 DEF Fields
<1> HIDE DEF n
<1>5. ASSUME r.alone PROVE OnWay(c, n, tmp', last')
  <2>1. OnWay(c, r, tmp, last)
    BY <1>2, <1>3, <1>5 DEF Good
  <2>2. /\ ~r.wrong /\ r.up \in 0..Len(Text(r)) /\ r.dir = <<>> /\ r.marks = {}
        /\ r.up > 0 /\ tmp[Static(r.op)] = Rest(Text(r), r.up - 1)
    BY <2>1, <1>1 DEF OnWay
  <2>3. Text(r) \in Seq(Names) /\ Text(n) = Text(r)
    BY <1>2, <1>4, WayTyped DEF Good, Text
  <2>4. n.up \in 0..Len(Text(r))
    BY <1>4, <2>2, <2>3, LenProperties
  <2> QED
    BY <1>1, <1>4, <2>2, <2>3, <2>4 DEF OnWay
<1>6. ~(~r.made /\ r.op # "read" /\ Target(r.op, r.path) = <<>>)
  BY <1>1, <1>2, <1>3 DEF Good, AtRoot
<1> QED
  BY <1>1, <1>2, <1>3, <1>4, <1>5, <1>6, StepGood DEF MayStep, Good

-----------------------------------------------------------------------------
(* Walking keeps the invariant.                                            *)

(* A mark changes nothing else of a call.                                  *)
LEMMA MarkedFields ==
  ASSUME NEW r, DOMAIN r = Fields, NEW k
  PROVE  LET m == Marked(r, k) IN
         /\ DOMAIN m = Fields /\ m.pc = r.pc /\ m.op = r.op /\ m.path = r.path /\ m.up = r.up
         /\ m.buf = r.buf /\ m.dir = r.dir /\ m.wrong = r.wrong /\ m.made = r.made
         /\ m.alone = r.alone /\ m.held = r.held /\ m.name = r.name
         /\ m.marks = IF Ends(r, k) THEN r.marks ELSE r.marks \cup {k}
<1>1. CASE Ends(r, k)
  BY <1>1 DEF Marked
<1>2. CASE ~Ends(r, k)
  <2>1. Marked(r, k) = [r EXCEPT !.marks = @ \cup {k}]
    BY <1>2 DEF Marked
  <2> QED
    BY <1>2, <2>1 DEF Fields
<1> QED
  BY <1>1, <1>2

(* What strtok leaves after the k-th name when it has cut off those before.*)
LEMMA CutNext ==
  ASSUME NEW c, NEW r, DOMAIN r = Fields, Way(r) \in Seq(Names), NEW k \in 1..Len(Way(r)),
         r.buf = Way(r), r.marks = {j \in 1..(k - 1) : j < Len(Way(r))}
  PROVE  CutOff(c, Marked(r, k), k, Left(c, r, k))
<1> DEFINE w == Way(r)
           m == Marked(r, k)
<1>1. Len(w) \in Nat
  BY LenProperties
<1>2. k \notin r.marks
  BY <1>1
<1>3. Ends(r, k) <=> k = Len(w)
  BY <1>2 DEF Ends
<1>4. m.buf = w /\ Way(m) = w
  <2>1. m.op = r.op /\ m.path = r.path /\ m.made = r.made /\ m.buf = r.buf
    BY MarkedFields
  <2> HIDE DEF m
  <2> QED
    BY <2>1 DEF Way
<1>5. m.marks = IF k = Len(w) THEN r.marks ELSE r.marks \cup {k}
  BY <1>3, MarkedFields
<1>6. m.marks = {j \in 1..k : j < Len(w)}
  <2> HIDE DEF m, w
  <2>1. CASE k = Len(w)
    BY <1>1, <1>5, <2>1 DEF w
  <2>2. CASE k # Len(w)
    BY <1>1, <1>5, <2>2 DEF w
  <2> QED
    BY <2>1, <2>2
<1>7. Left(c, r, k) = IF k = Len(w) THEN Nowhere ELSE At(c, k + 1)
  BY <1>3 DEF Left
<1> QED
  BY <1>4, <1>6, <1>7 DEF CutOff

(* First: the walk begins at the root, with the first name of the way.     *)
LEMMA FirstKeeps ==
  ASSUME PInv, NEW c \in Callers, First(c)
  PROVE  PInv'
<1> DEFINE o == call[c]
           r == IF o.op = "read" THEN [o EXCEPT !.buf = Front(@)] ELSE o
<1>1. /\ r.pc = "spell" /\ r.up = 0 /\ UNCHANGED <<program, tmp, calls>>
      /\ \/ r.buf = <<>> /\ last' = Nowhere /\ Step(c, [r EXCEPT !.pc = "done"])
         \/ /\ r.buf # <<>> /\ last' = Left(c, r, 1)
            /\ Step(c, [Marked(r, 1) EXCEPT !.pc = "match", !.name = <<r.buf[1]>>])
  BY DEF First
<1>2. Good(c) /\ DOMAIN o = Fields
  BY DEF PInv, Good
<1>3. /\ DOMAIN r = Fields /\ r.pc = o.pc /\ r.op = o.op /\ r.path = o.path /\ r.up = o.up
      /\ r.marks = o.marks /\ r.dir = o.dir /\ r.wrong = o.wrong /\ r.made = o.made
      /\ r.alone = o.alone
      /\ r.buf = IF o.op = "read" THEN Front(o.buf) ELSE o.buf
  <2>1. CASE o.op = "read"
    <3>1. r = [o EXCEPT !.buf = Front(@)]
      BY <2>1
    <3> HIDE DEF r
    <3> QED
      BY <2>1, <3>1, <1>2 DEF Fields
  <2>2. CASE o.op # "read"
    BY <2>2, <1>2
  <2> QED
    BY <2>1, <2>2
<1>4. Running(c)
  BY <1>1, <1>3 DEF Running
<1>5. Text(r) = Text(o) /\ Way(r) = Way(o) /\ Way(r) \in Seq(Names) /\ Text(o) \in Seq(Names)
  BY <1>2, <1>3, WayTyped DEF Good, Text, Way
<1>6. o.alone => r.buf = Way(r) /\ r.dir = <<>> /\ r.marks = {} /\ ~r.wrong
  <2> SUFFICES ASSUME o.alone PROVE r.buf = Way(r) /\ r.dir = <<>> /\ r.marks = {} /\ ~r.wrong
    OBVIOUS
  <2>1. OnWay(c, o, tmp, last)
    BY <1>2, <1>4 DEF Good
  <2>2. o.dir = <<>> /\ o.marks = {} /\ ~o.wrong /\ o.buf = Rest(Text(o), 0)
    BY <2>1, <1>1, <1>3 DEF OnWay
  <2>3. o.buf = Text(o)
    BY <2>2, <1>5, RestSteps
  <2>4. Way(o) = IF o.op = "read" THEN Front(Text(o)) ELSE Text(o)
    BY <1>2, WayTyped DEF Good
  <2> QED
    BY <2>2, <2>3, <2>4, <1>3, <1>5
<1> HIDE DEF r
<1>7. CASE r.buf = <<>>
  <2> DEFINE n == [r EXCEPT !.pc = "done"]
  <2>1. last' = Nowhere /\ Step(c, n)
    BY <1>1, <1>7
  <2>2. /\ DOMAIN n = Fields /\ n.pc = "done" /\ n.op = r.op /\ n.path = r.path /\ n.up = r.up
        /\ n.buf = r.buf /\ n.marks = r.marks /\ n.dir = r.dir /\ n.wrong = r.wrong
        /\ n.made = r.made /\ n.alone = r.alone
    BY <1>3 DEF Fields
  <2> HIDE DEF n
  <2>3. ASSUME o.alone PROVE OnWay(c, n, tmp', last')
    <3>1. Way(n) = <<>> /\ n.buf = <<>> /\ n.marks = {} /\ n.dir = <<>> /\ ~n.wrong
      BY <1>6, <1>7, <2>2, <2>3 DEF Way
    <3>2. <<>> \in Dirs /\ Len(<<>>) = 0
      BY PathsAssumption
    <3>3. {j \in 1..0 : j < 0} = {}
      OBVIOUS
    <3>4. CutOff(c, n, 0, Nowhere)
      BY <3>1, <3>2, <3>3 DEF CutOff
    <3>5. n.up = 0
      BY <1>1, <2>2
    <3> QED
      BY <2>2, <3>1, <3>2, <3>4, <3>5 DEF OnWay
  <2>4. ~n.made /\ n.op # "read" /\ Target(n.op, n.path) = <<>> => AtRoot(n)
    BY <1>1, <1>2, <1>3, <1>4, <2>2 DEF Good, AtRoot
  <2> QED
    BY <1>1, <1>2, <1>3, <1>4, <2>1, <2>2, <2>3, <2>4, StepGood DEF MayStep, Good
<1>8. CASE r.buf # <<>>
  <2> DEFINE m == Marked(r, 1)
             n == [m EXCEPT !.pc = "match", !.name = <<r.buf[1]>>]
  <2>1. last' = Left(c, r, 1) /\ Step(c, n)
    BY <1>1, <1>8
  <2>2. /\ DOMAIN m = Fields /\ m.op = r.op /\ m.path = r.path /\ m.up = r.up
        /\ m.buf = r.buf /\ m.dir = r.dir /\ m.wrong = r.wrong
        /\ m.made = r.made /\ m.alone = r.alone
    <3>1. DOMAIN r = Fields
      BY <1>3
    <3> QED
      BY <3>1, MarkedFields
  <2> HIDE DEF m
  <2>3. /\ DOMAIN n = Fields /\ n.pc = "match" /\ n.op = r.op /\ n.path = r.path /\ n.up = r.up
        /\ n.buf = r.buf /\ n.marks = m.marks /\ n.dir = r.dir /\ n.wrong = r.wrong
        /\ n.made = r.made /\ n.alone = r.alone /\ n.name = <<r.buf[1]>>
    BY <2>2 DEF Fields
  <2> HIDE DEF n
  <2>4. ASSUME o.alone PROVE OnWay(c, n, tmp', last')
    <3>1. r.buf = Way(r) /\ r.dir = <<>> /\ r.marks = {} /\ ~r.wrong
      BY <1>6, <2>4
    <3>2. 1 \in 1..Len(Way(r))
      BY <1>5, <1>8, <3>1, EmptySeq
    <3>3. {j \in 1..(1 - 1) : j < Len(Way(r))} = {}
      OBVIOUS
    <3>4. CutOff(c, m, 1, last')
      BY <1>3, <1>5, <2>1, <3>1, <3>2, <3>3, CutNext DEF m
    <3>5. Way(n) = Way(r) /\ Way(m) = Way(r)
      BY <2>2, <2>3 DEF Way
    <3>6. CutOff(c, n, 1, last')
      BY <2>2, <2>3, <3>4, <3>5 DEF CutOff
    <3>7. n.dir = Upto(Way(r), 1 - 1)
      BY <1>5, <2>3, <3>1, UptoSteps
    <3>8. n.up = 0
      BY <1>1, <2>3
    <3> QED
      BY <2>3, <3>1, <3>2, <3>5, <3>6, <3>7, <3>8 DEF OnWay
  <2>5. ~(~n.made /\ n.op # "read" /\ Target(n.op, n.path) = <<>>)
    BY <1>2, <1>3, <1>4, <1>8, <2>3 DEF Good, AtRoot
  <2> QED
    BY <1>1, <1>2, <1>3, <1>4, <2>1, <2>3, <2>4, <2>5, StepGood DEF MayStep, Good
<1> QED
  BY <1>7, <1>8

(* Match: a name that is found takes the walk one directory down.          *)
LEMMA MatchKeeps ==
  ASSUME PInv, NEW c \in Callers, Match(c)
  PROVE  PInv'
<1> DEFINE r == call[c]
           below == r.dir \o r.name
           n == IF below \in Dirs THEN [r EXCEPT !.pc = "strtok", !.dir = below] ELSE Wrong(r)
<1>1. r.pc = "match" /\ Step(c, n) /\ UNCHANGED <<program, tmp, last>>
  BY DEF Match
<1>2. Good(c) /\ DOMAIN r = Fields
  BY DEF PInv, Good
<1>3. Running(c)
  BY <1>1 DEF Running
<1>4. /\ DOMAIN n = Fields /\ n.pc = (IF below \in Dirs THEN "strtok" ELSE "done")
      /\ n.op = r.op /\ n.path = r.path /\ n.up = r.up /\ n.buf = r.buf /\ n.marks = r.marks
      /\ n.made = r.made /\ n.alone = r.alone
  <2>1. CASE below \in Dirs
    <3>1. n = [r EXCEPT !.pc = "strtok", !.dir = below]
      BY <2>1
    <3> HIDE DEF n, below
    <3> QED
      BY <1>2, <2>1, <3>1 DEF Fields
  <2>2. CASE below \notin Dirs
    <3>1. n = [r EXCEPT !.pc = "done", !.wrong = TRUE]
      BY <2>2 DEF Wrong
    <3> HIDE DEF n, below
    <3> QED
      BY <1>2, <2>2, <3>1 DEF Fields
  <2> QED
    BY <2>1, <2>2
<1>5. /\ below \in Dirs => n.dir = below /\ n.wrong = r.wrong
      /\ below \notin Dirs => n.wrong = TRUE
  <2>1. CASE below \in Dirs
    <3>1. n = [r EXCEPT !.pc = "strtok", !.dir = below]
      BY <2>1
    <3> HIDE DEF n, below
    <3> QED
      BY <1>2, <2>1, <3>1 DEF Fields
  <2>2. CASE below \notin Dirs
    <3>1. n = [r EXCEPT !.pc = "done", !.wrong = TRUE]
      BY <2>2 DEF Wrong
    <3> HIDE DEF n, below
    <3> QED
      BY <1>2, <2>2, <3>1 DEF Fields
  <2> QED
    BY <2>1, <2>2
<1> HIDE DEF n
<1>6. ASSUME r.alone PROVE OnWay(c, n, tmp', last')
  <2> DEFINE w == Way(r)
  <2>1. OnWay(c, r, tmp, last)
    BY <1>2, <1>3, <1>6 DEF Good
  <2>2. /\ ~r.wrong /\ r.up = 0
        /\ \E k \in 1..Len(w) : CutOff(c, r, k, last) /\ r.name = <<w[k]>> /\ r.dir = Upto(w, k - 1)
    BY <2>1, <1>1 DEF OnWay
  <2>3. PICK k \in 1..Len(w) :
          CutOff(c, r, k, last) /\ r.name = <<w[k]>> /\ r.dir = Upto(w, k - 1)
    BY <2>2
  <2>4. w \in Seq(Names) /\ Way(n) = w
    BY <1>2, <1>4, WayTyped DEF Good, Way
  <2>5. below = Upto(w, k)
    <3>1. below = Upto(w, k - 1) \o <<w[k]>>
      BY <2>3
    <3> HIDE DEF w, below
    <3> QED
      BY <2>3, <2>4, <3>1, UptoSteps
  <2>6. CutOff(c, n, k, last')
    BY <1>1, <1>4, <2>3, <2>4 DEF CutOff
  <2>7. CASE below \in Dirs
    <3> HIDE DEF below, w
    <3>1. n.pc = "strtok" /\ n.dir = Upto(w, k) /\ n.dir \in Dirs /\ ~n.wrong /\ n.up = 0
      BY <1>4, <1>5, <2>2, <2>5, <2>7
    <3> QED
      BY <2>3, <2>4, <2>6, <3>1 DEF OnWay
  <2>8. CASE below \notin Dirs
    <3> HIDE DEF below, w
    <3>1. n.pc = "done" /\ n.wrong /\ n.up = 0
      BY <1>4, <1>5, <2>2, <2>8
    <3>2. k \in 0..Len(w)
      BY <2>3
    <3>3. w \notin Dirs
      BY <2>4, <2>5, <2>8, <3>2, DirsAbove
    <3> QED
      BY <2>4, <3>1, <3>3 DEF OnWay
  <2> QED
    BY <2>7, <2>8
<1>7. ~(~r.made /\ r.op # "read" /\ Target(r.op, r.path) = <<>>)
  BY <1>1, <1>2, <1>3 DEF Good, AtRoot
<1> HIDE DEF below
<1> QED
  BY <1>1, <1>2, <1>3, <1>4, <1>6, <1>7, StepGood DEF MayStep, Good

(* Load: the call holds the position that its last step left.              *)
LEMMA LoadKeeps ==
  ASSUME PInv, NEW c \in Callers, Load(c)
  PROVE  PInv'
<1> DEFINE r == call[c]
           n == [r EXCEPT !.pc = "cut", !.held = last]
<1>1. r.pc = "strtok" /\ Step(c, n) /\ UNCHANGED <<program, tmp, last>>
  BY DEF Load
<1>2. Good(c) /\ DOMAIN r = Fields
  BY DEF PInv, Good
<1>3. Running(c)
  BY <1>1 DEF Running
<1>4. /\ DOMAIN n = Fields /\ n.pc = "cut" /\ n.op = r.op /\ n.path = r.path /\ n.up = r.up
      /\ n.buf = r.buf /\ n.marks = r.marks /\ n.dir = r.dir /\ n.wrong = r.wrong
      /\ n.made = r.made /\ n.alone = r.alone /\ n.held = last
  BY <1>2 DEF Fields
<1> HIDE DEF n
<1>5. ASSUME r.alone PROVE OnWay(c, n, tmp', last')
  <2> DEFINE w == Way(r)
  <2>1. OnWay(c, r, tmp, last)
    BY <1>2, <1>3, <1>5 DEF Good
  <2>2. /\ ~r.wrong /\ r.up = 0
        /\ \E k \in 1..Len(w) : CutOff(c, r, k, last) /\ r.dir = Upto(w, k) /\ r.dir \in Dirs
    BY <2>1, <1>1 DEF OnWay
  <2>3. PICK k \in 1..Len(w) : CutOff(c, r, k, last) /\ r.dir = Upto(w, k) /\ r.dir \in Dirs
    BY <2>2
  <2>4. Way(n) = w
    BY <1>4 DEF Way
  <2>5. CutOff(c, n, k, n.held)
    BY <1>4, <2>3, <2>4 DEF CutOff
  <2> HIDE DEF w
  <2> QED
    BY <1>4, <2>2, <2>3, <2>4, <2>5 DEF OnWay
<1>6. ~(~r.made /\ r.op # "read" /\ Target(r.op, r.path) = <<>>)
  BY <1>1, <1>2, <1>3 DEF Good, AtRoot
<1> QED
  BY <1>1, <1>2, <1>3, <1>4, <1>5, <1>6, StepGood DEF MayStep, Good

(* What a call holds that is alone when it cuts.                           *)
LEMMA AloneHolds ==
  ASSUME PInv, NEW c \in Callers, call[c].pc = "cut", call[c].alone
  PROVE  LET r == call[c]
             w == Way(r)
         IN  /\ ~r.wrong /\ r.up = 0 /\ w \in Seq(Names) /\ Len(w) \in Nat
             /\ \E k \in 1..Len(w) :
                  /\ CutOff(c, r, k, r.held) /\ r.dir = Upto(w, k) /\ r.dir \in Dirs
                  /\ r.held = Nowhere <=> k = Len(w)
                  /\ r.held # Nowhere => r.held = At(c, k + 1) /\ k + 1 \in 1..Len(w)
<1> DEFINE r == call[c]
           w == Way(r)
<1>1. Good(c) /\ Running(c)
  BY DEF PInv, Running
<1>2. OnWay(c, r, tmp, last) /\ w \in Seq(Names)
  BY <1>1, WayTyped DEF Good
<1>3. /\ ~r.wrong /\ r.up = 0
      /\ \E k \in 1..Len(w) : CutOff(c, r, k, r.held) /\ r.dir = Upto(w, k) /\ r.dir \in Dirs
  BY <1>2 DEF OnWay
<1>4. PICK k \in 1..Len(w) : CutOff(c, r, k, r.held) /\ r.dir = Upto(w, k) /\ r.dir \in Dirs
  BY <1>3
<1>5. At(c, k + 1) # Nowhere
  <2>1. At(c, k + 1).owner = c /\ Nowhere.owner = "none" /\ c # "none"
    BY PathsAssumption DEF At, Nowhere
  <2> QED
    BY <2>1
<1>6. r.held = IF k = Len(w) THEN Nowhere ELSE At(c, k + 1)
  BY <1>4 DEF CutOff
<1>7. Len(w) \in Nat
  BY <1>2, LenProperties
<1>8. k # Len(w) => k + 1 \in 1..Len(w)
  BY <1>4, <1>7
<1> HIDE DEF w
<1>9. (r.held = Nowhere <=> k = Len(w)) /\ (r.held # Nowhere => r.held = At(c, k + 1))
  BY <1>5, <1>6
<1> QED
  BY <1>2, <1>3, <1>4, <1>7, <1>8, <1>9 DEF w

(* CutNone: there is no name left, so the walk came to its end.            *)
LEMMA CutNoneKeeps ==
  ASSUME PInv, NEW c \in Callers, CutNone(c)
  PROVE  PInv'
<1> DEFINE r == call[c]
           n == [r EXCEPT !.pc = "done"]
<1>1. r.pc = "cut" /\ r.held = Nowhere /\ Step(c, n) /\ UNCHANGED <<program, tmp, last>>
  BY DEF CutNone
<1>2. Good(c) /\ DOMAIN r = Fields
  BY DEF PInv, Good
<1>3. Running(c)
  BY <1>1 DEF Running
<1>4. /\ DOMAIN n = Fields /\ n.pc = "done" /\ n.op = r.op /\ n.path = r.path /\ n.up = r.up
      /\ n.buf = r.buf /\ n.marks = r.marks /\ n.dir = r.dir /\ n.wrong = r.wrong
      /\ n.made = r.made /\ n.alone = r.alone
  BY <1>2 DEF Fields
<1> HIDE DEF n
<1>5. ASSUME r.alone PROVE OnWay(c, n, tmp', last')
  <2> DEFINE w == Way(r)
  <2>1. /\ ~r.wrong /\ r.up = 0 /\ w \in Seq(Names)
        /\ CutOff(c, r, Len(w), Nowhere) /\ r.dir = Upto(w, Len(w)) /\ r.dir \in Dirs
    BY <1>1, <1>5, AloneHolds
  <2>2. r.dir = w
    BY <2>1, UptoSteps
  <2>3. Way(n) = w
    BY <1>4 DEF Way
  <2>4. CutOff(c, n, Len(w), Nowhere)
    BY <1>4, <2>1, <2>3 DEF CutOff
  <2> HIDE DEF w
  <2> QED
    BY <1>4, <2>1, <2>2, <2>3, <2>4 DEF OnWay
<1>6. ~(~r.made /\ r.op # "read" /\ Target(r.op, r.path) = <<>>)
  BY <1>1, <1>2, <1>3 DEF Good, AtRoot
<1> QED
  BY <1>1, <1>2, <1>3, <1>4, <1>5, <1>6, StepGood DEF MayStep, Good

(* CutDead: only a call that is not alone holds a position in a buffer     *)
(* that is gone.                                                           *)
LEMMA CutDeadKeeps ==
  ASSUME PInv, NEW c \in Callers, CutDead(c)
  PROVE  PInv'
<1> DEFINE r == call[c]
           q == [r EXCEPT !.held = Nowhere]
<1>1. r.pc = "cut" /\ r.held = Dead /\ UNCHANGED <<program, tmp>>
  BY DEF CutDead
<1>2. \/ Step(c, [q EXCEPT !.pc = "done"])
      \/ \E x \in Names : Step(c, [q EXCEPT !.pc = "match", !.name = <<x>>])
  BY DEF CutDead
<1>3. Good(c) /\ DOMAIN r = Fields
  BY DEF PInv, Good
<1>4. Running(c)
  BY <1>1 DEF Running
<1>5. ~r.alone
  <2> SUFFICES ASSUME r.alone PROVE FALSE
    OBVIOUS
  <2>1. r.held = Nowhere \/ \E k : r.held = At(c, k)
    BY <1>1, AloneHolds
  <2>2. Dead.owner = "dead" /\ Nowhere.owner = "none" /\ \A k : At(c, k).owner = c
    BY DEF Dead, Nowhere, At
  <2>3. c # "dead"
    BY PathsAssumption
  <2> QED
    BY <1>1, <2>1, <2>2, <2>3
<1>6. ~(~r.made /\ r.op # "read" /\ Target(r.op, r.path) = <<>>)
  BY <1>1, <1>3, <1>4 DEF Good, AtRoot
<1>7. ASSUME NEW n, Step(c, n), DOMAIN n = Fields, n.pc \in {"match", "done"}, n.op = r.op,
             n.path = r.path, n.made = r.made, n.alone = r.alone
      PROVE  PInv'
  BY <1>1, <1>3, <1>4, <1>5, <1>6, <1>7, StepGood DEF MayStep, Good
<1>8. CASE Step(c, [q EXCEPT !.pc = "done"])
  <2> DEFINE n == [q EXCEPT !.pc = "done"]
  <2>1. /\ DOMAIN n = Fields /\ n.pc = "done" /\ n.op = r.op /\ n.path = r.path
        /\ n.made = r.made /\ n.alone = r.alone
    BY <1>3 DEF Fields
  <2> HIDE DEF n
  <2> QED
    BY <1>7, <1>8, <2>1 DEF n
<1>9. ASSUME NEW x \in Names, Step(c, [q EXCEPT !.pc = "match", !.name = <<x>>])
      PROVE  PInv'
  <2> DEFINE n == [q EXCEPT !.pc = "match", !.name = <<x>>]
  <2>1. /\ DOMAIN n = Fields /\ n.pc = "match" /\ n.op = r.op /\ n.path = r.path
        /\ n.made = r.made /\ n.alone = r.alone
    BY <1>3 DEF Fields
  <2> HIDE DEF n
  <2> QED
    BY <1>7, <1>9, <2>1 DEF n
<1> QED
  BY <1>2, <1>8, <1>9

(* The owner of a buffer that another call marks.                          *)
LEMMA MarkedAlone ==
  ASSUME NEW r, DOMAIN r = Fields, NEW k
  PROVE  LET s == [Marked(r, k) EXCEPT !.alone = FALSE] IN
         /\ DOMAIN s = Fields /\ s.pc = r.pc /\ s.op = r.op /\ s.path = r.path /\ s.up = r.up
         /\ s.buf = r.buf /\ s.dir = r.dir /\ s.wrong = r.wrong /\ s.made = r.made
         /\ s.alone = FALSE
<1> DEFINE m == Marked(r, k)
<1>1. /\ DOMAIN m = Fields /\ m.pc = r.pc /\ m.op = r.op /\ m.path = r.path /\ m.up = r.up
      /\ m.buf = r.buf /\ m.dir = r.dir /\ m.wrong = r.wrong /\ m.made = r.made
  BY MarkedFields
<1> HIDE DEF m
<1>2. /\ DOMAIN [m EXCEPT !.alone = FALSE] = Fields
      /\ [m EXCEPT !.alone = FALSE].alone = FALSE
      /\ \A f \in Fields \ {"alone"} : [m EXCEPT !.alone = FALSE][f] = m[f]
  BY <1>1 DEF Fields
<1> QED
  BY <1>1, <1>2 DEF Fields, m

(* A name is cut off in the buffer of another call: neither is alone.      *)
LEMMA CutOtherKeeps ==
  ASSUME PInv, NEW c \in Callers, NEW o \in Callers, o # c, NEW k, NEW got,
         call[c].pc = "cut", ~call[c].alone,
         DOMAIN got = Fields, got.pc = "match", got.op = call[c].op,
         got.path = call[c].path, got.made = call[c].made,
         call' = [call EXCEPT ![c] = [got EXCEPT !.alone = FALSE],
                              ![o] = [Marked(@, k) EXCEPT !.alone = FALSE]],
         UNCHANGED <<program, tmp>>
  PROVE  PInv'
<1> DEFINE n == [got EXCEPT !.alone = FALSE]
           s == [Marked(call[o], k) EXCEPT !.alone = FALSE]
<1>1. Good(c) /\ Good(o) /\ Running(c) /\ DOMAIN call = Callers /\ DOMAIN call[o] = Fields
  BY DEF PInv, Good, Running
<1>2. /\ DOMAIN n = Fields /\ n.pc = "match" /\ n.op = call[c].op /\ n.path = call[c].path
      /\ n.made = call[c].made /\ n.alone = FALSE
  BY DEF Fields
<1>3. /\ DOMAIN s = Fields /\ s.pc = call[o].pc /\ s.op = call[o].op /\ s.path = call[o].path
      /\ s.up = call[o].up /\ s.buf = call[o].buf /\ s.dir = call[o].dir
      /\ s.wrong = call[o].wrong /\ s.made = call[o].made /\ s.alone = FALSE
  <2>1. DOMAIN call[o] = Fields
    BY <1>1
  <2> QED
    BY <2>1, MarkedAlone
<1>4. call' = [call EXCEPT ![c] = n, ![o] = s]
  OBVIOUS
<1> HIDE DEF n, s
<1>5. /\ DOMAIN call' = Callers /\ call'[c] = n /\ call'[o] = s
      /\ \A d \in Callers : d # c /\ d # o => call'[d] = call[d]
  BY <1>1, <1>4
<1>6. \A d \in Callers : Running(d)' <=> Running(d)
  <2> TAKE d \in Callers
  <2>1. CASE d = c
    BY <1>1, <1>2, <1>5, <2>1 DEF Running
  <2>2. CASE d = o
    BY <1>3, <1>5, <2>2 DEF Running
  <2>3. CASE d # c /\ d # o
    BY <1>5, <2>3 DEF Running
  <2> QED
    BY <2>1, <2>2, <2>3
<1>7. program # "shell"
  BY <1>1 DEF Good
<1>8. Good(c)'
  <2>1. ~(~call[c].made /\ call[c].op # "read" /\ Target(call[c].op, call[c].path) = <<>>)
    BY <1>1 DEF Good, AtRoot
  <2> QED
    BY <1>1, <1>2, <1>5, <1>7, <2>1 DEF Good
<1>9. Good(o)'
  <2>1. AtRoot(call[o]) <=> AtRoot(s)
    BY <1>3 DEF AtRoot
  <2> QED
    BY <1>1, <1>3, <1>5, <1>6, <1>7, <2>1 DEF Good
<1>10. ASSUME NEW d \in Callers, d # c, d # o PROVE Good(d)'
  <2>1. Good(d) /\ call'[d] = call[d]
    BY <1>5, <1>10 DEF PInv
  <2>2. ~(Running(d) /\ call[d].alone)
    BY <1>1, <1>10, <2>1 DEF Good
  <2> QED
    BY <1>6, <1>7, <2>1, <2>2 DEF Good
<1> QED
  BY <1>5, <1>8, <1>9, <1>10 DEF PInv

(* CutName: a name is cut off, in the call's own buffer when no other      *)
(* call overlaps.                                                          *)
LEMMA CutNameKeeps ==
  ASSUME PInv, NEW c \in Callers, CutName(c)
  PROVE  PInv'
<1> DEFINE r == call[c]
           o == r.held.owner
           k == r.held.at
           q == [r EXCEPT !.pc = "match", !.held = Nowhere]
           got == [q EXCEPT !.name = <<call[o].buf[k]>>]
<1>1. /\ r.pc = "cut" /\ o \in Callers /\ last' = Left(o, call[o], k) /\ UNCHANGED <<program, tmp>>
      /\ IF o = c THEN Step(c, Marked(got, k))
         ELSE call' = [call EXCEPT ![c] = [got EXCEPT !.alone = FALSE],
                                   ![o] = [Marked(@, k) EXCEPT !.alone = FALSE]]
  BY DEF CutName
<1>2. Good(c) /\ DOMAIN r = Fields
  BY DEF PInv, Good
<1>3. Running(c)
  BY <1>1 DEF Running
<1>4. ~(~r.made /\ r.op # "read" /\ Target(r.op, r.path) = <<>>)
  BY <1>1, <1>2, <1>3 DEF Good, AtRoot
<1>5. /\ DOMAIN got = Fields /\ got.pc = "match" /\ got.op = r.op /\ got.path = r.path
      /\ got.up = r.up /\ got.buf = r.buf /\ got.marks = r.marks /\ got.dir = r.dir
      /\ got.wrong = r.wrong /\ got.made = r.made /\ got.alone = r.alone
      /\ got.name = <<call[o].buf[k]>>
  BY <1>2 DEF Fields
<1>6. r.alone => o = c
  <2> SUFFICES ASSUME r.alone PROVE o = c
    OBVIOUS
  <2>1. r.held = Nowhere \/ \E j : r.held = At(c, j)
    BY <1>1, AloneHolds
  <2>2. Nowhere.owner = "none" /\ "none" \notin Callers /\ \A j : At(c, j).owner = c
    BY PathsAssumption DEF Nowhere, At
  <2> QED
    BY <1>1, <2>1, <2>2
<1>7. CASE o = c
  <2> DEFINE n == Marked(got, k)
  <2> HIDE DEF got
  <2>1. /\ DOMAIN n = Fields /\ n.pc = "match" /\ n.op = r.op /\ n.path = r.path /\ n.up = r.up
        /\ n.buf = r.buf /\ n.dir = r.dir /\ n.wrong = r.wrong /\ n.made = r.made
        /\ n.alone = r.alone /\ n.name = got.name
    <3>1. /\ DOMAIN n = Fields /\ n.pc = got.pc /\ n.op = got.op /\ n.path = got.path
          /\ n.up = got.up /\ n.buf = got.buf /\ n.dir = got.dir /\ n.wrong = got.wrong
          /\ n.made = got.made /\ n.alone = got.alone /\ n.name = got.name
      <4>1. DOMAIN got = Fields
        BY <1>5
      <4> QED
        BY <4>1, MarkedFields
    <3> HIDE DEF n
    <3> QED
      BY <1>5, <3>1
  <2>2. Step(c, n)
    BY <1>1, <1>7
  <2>3. ASSUME r.alone PROVE OnWay(c, n, tmp', last')
    <3> DEFINE w == Way(r)
    <3>1. /\ ~r.wrong /\ r.up = 0 /\ w \in Seq(Names) /\ Len(w) \in Nat
          /\ \E i \in 1..Len(w) :
               /\ CutOff(c, r, i, r.held) /\ r.dir = Upto(w, i) /\ r.dir \in Dirs
               /\ r.held = Nowhere <=> i = Len(w)
               /\ r.held # Nowhere => r.held = At(c, i + 1) /\ i + 1 \in 1..Len(w)
      BY <1>1, <2>3, AloneHolds
    <3>2. r.held # Nowhere
      <4>1. Nowhere.owner = "none" /\ "none" \notin Callers
        BY PathsAssumption DEF Nowhere, At
      <4> QED
        BY <1>1, <4>1
    <3>3. PICK i \in 1..Len(w) :
            CutOff(c, r, i, r.held) /\ r.dir = Upto(w, i) /\ r.held = At(c, i + 1) /\ i + 1 \in 1..Len(w)
      BY <3>1, <3>2
    <3>4. k = i + 1 /\ k \in 1..Len(w) /\ k - 1 = i /\ r.dir = Upto(w, k - 1)
      BY <3>3 DEF At
    <3>5. Way(got) = w /\ Way(n) = w
      BY <1>5, <2>1 DEF Way
    <3>6. got.buf = w /\ got.marks = {j \in 1..(k - 1) : j < Len(w)}
      BY <1>5, <3>3, <3>4 DEF CutOff
    <3>7. Left(c, r, k) = Left(c, got, k)
      BY <1>5 DEF Left, Ends
    <3>8. CutOff(c, n, k, last')
      <4>1. CutOff(c, Marked(got, k), k, Left(c, got, k))
        BY <1>5, <3>1, <3>4, <3>5, <3>6, CutNext
      <4> QED
        BY <4>1, <3>7, <1>1, <1>7
    <3>9. n.name = <<w[k]>>
      BY <2>1, <1>5, <1>7, <3>6
    <3> HIDE DEF w, n
    <3> QED
      BY <2>1, <3>1, <3>4, <3>5, <3>8, <3>9 DEF OnWay
  <2> HIDE DEF n
  <2> QED
    BY <1>1, <1>2, <1>3, <1>4, <2>1, <2>2, <2>3, StepGood DEF MayStep, Good
<1>8. CASE o # c
  <2>1. ~r.alone
    BY <1>6, <1>8
  <2>2. call' = [call EXCEPT ![c] = [got EXCEPT !.alone = FALSE],
                             ![o] = [Marked(@, k) EXCEPT !.alone = FALSE]]
    BY <1>1, <1>8
  <2> HIDE DEF got, o, k
  <2> QED
    BY <1>1, <1>5, <1>8, <2>1, <2>2, CutOtherKeeps
<1> QED
  BY <1>7, <1>8

(* Over: the call is gone, and the others were not alone.                  *)
LEMMA OverKeeps ==
  ASSUME PInv, NEW c \in Callers, Running(c), Over(c), UNCHANGED <<program, tmp>>
  PROVE  PInv'
<1> DEFINE Buried(h) == IF h.owner = c THEN Dead ELSE h
<1>1. call' = [o \in Callers |-> IF o = c THEN Idle ELSE [call[o] EXCEPT !.held = Buried(@)]]
  BY DEF Over
<1>2. Good(c)'
  <2>1. call'[c] = Idle
    BY <1>1
  <2>2. /\ DOMAIN Idle = Fields /\ Idle.pc = "idle" /\ Idle.op = "readdir" /\ Idle.path = <<>>
        /\ Idle.made = FALSE
    BY DEF Idle, Fields
  <2>3. <<>> \in Asked
    BY PathsAssumption
  <2> QED
    BY <2>1, <2>2, <2>3 DEF Good, Running
<1>3. ASSUME NEW o \in Callers, o # c PROVE Good(o)'
  <2> DEFINE s == call'[o]
  <2>1. Good(o) /\ Good(c) /\ DOMAIN call[o] = Fields
    BY DEF PInv, Good
  <2>2. s = [call[o] EXCEPT !.held = Buried(@)]
    BY <1>1, <1>3
  <2>3. /\ DOMAIN s = Fields /\ s.pc = call[o].pc /\ s.op = call[o].op /\ s.path = call[o].path
        /\ s.up = call[o].up /\ s.buf = call[o].buf /\ s.dir = call[o].dir
        /\ s.wrong = call[o].wrong /\ s.made = call[o].made /\ s.alone = call[o].alone
    BY <2>1, <2>2 DEF Fields
  <2>4. ~(Running(o) /\ call[o].alone)
    BY <1>3, <2>1 DEF Good
  <2>5. Running(o)' <=> Running(o)
    BY <2>3 DEF Running
  <2>6. AtRoot(call[o]) <=> AtRoot(s)
    BY <2>3 DEF AtRoot
  <2> QED
    BY <2>1, <2>3, <2>4, <2>5, <2>6 DEF Good
<1>4. DOMAIN call' = Callers
  BY <1>1
<1> QED
  BY <1>2, <1>3, <1>4 DEF PInv

-----------------------------------------------------------------------------
(* The database shell keeps the invariant.                                 *)

(* open_sqlite_file: the route is walked from the root.                    *)
LEMMA OpenSqliteKeeps ==
  ASSUME PInv, NEW c \in Callers, NEW d \in Asked, open_sqlite_file(c, d)
  PROVE  PInv'
<1> DEFINE r == [Idle EXCEPT !.pc = "spell", !.op = "open", !.path = d, !.buf = d]
<1>1. /\ program = "shell" /\ (\A o \in Callers : ~Running(o)) /\ Step(c, r)
      /\ UNCHANGED <<program, tmp, last>>
  BY DEF open_sqlite_file
<1>2. /\ DOMAIN r = Fields /\ r.pc = "spell" /\ r.op = "open" /\ r.path = d /\ r.up = 0
      /\ r.buf = d /\ r.marks = {} /\ r.dir = <<>> /\ r.wrong = FALSE /\ r.made = FALSE
      /\ r.alone = TRUE
  BY DEF Fields, Idle
<1> HIDE DEF r
<1>3. Text(r) = d /\ Text(r) \in Seq(Names)
  BY <1>2, WayTyped DEF Text, Spelled
<1>4. r.up \in 0..Len(Text(r)) /\ Rest(Text(r), r.up) = d
  BY <1>2, <1>3, RestSteps, LenProperties
<1>5. OnWay(c, r, tmp', last')
  BY <1>2, <1>4 DEF OnWay
<1>6. r.op # "read" /\ Target(r.op, r.path) = <<>> => AtRoot(r)
  BY <1>2 DEF AtRoot, Target
<1> QED
  BY <1>1, <1>2, <1>5, <1>6, StepGood DEF MayStep

(* What is left of a route that was walked to its end.                     *)
LEMMA ShownIsFirst ==
  ASSUME NEW c, NEW r, Way(r) \in Seq(Names), CutOff(c, r, Len(Way(r)), Nowhere)
  PROVE  Shown(r) = FirstName(Way(r))
<1> DEFINE w == Way(r)
           n == Len(w)
           S == r.marks \cup {n}
<1>1. r.buf = w /\ r.marks = {j \in 1..n : j < n} /\ n \in Nat
  BY LenProperties DEF CutOff
<1>2. Shown(r) = SubSeq(w, 1, Min(S))
  BY <1>1 DEF Shown
<1>3. CASE w = <<>>
  <2>1. n = 0 /\ S = {0}
    BY <1>1, <1>3
  <2>2. Min(S) = 0
    BY <2>1 DEF Min
  <2> QED
    BY <1>2, <1>3, <2>2 DEF FirstName
<1>4. CASE w # <<>>
  <2>1. n >= 1
    BY <1>1, <1>4, EmptySeq
  <2>2. 1 \in S
    <3> HIDE DEF w
    <3>1. CASE n = 1
      BY <3>1
    <3>2. CASE n > 1
      <4>1. 1 \in {j \in 1..n : j < n}
        BY <1>1, <3>2
      <4> QED
        BY <1>1, <4>1
    <3>3. n \in Nat
      BY <1>1
    <3> HIDE DEF n
    <3>4. n = 1 \/ n > 1
      BY <2>1, <3>3
    <3> QED
      BY <3>1, <3>2, <3>4
  <2>3. \A x \in S : 1 <= x
    <3> HIDE DEF w
    <3> QED
      BY <1>1, <2>1
  <2> HIDE DEF S
  <2>4. \A x \in S : x \in Nat
    BY <1>1 DEF S
  <2>5. Min(S) = 1
    BY <2>2, <2>3, <2>4 DEF Min
  <2> QED
    BY <1>2, <1>4, <2>5 DEF FirstName, Upto
<1> QED
  BY <1>3, <1>4

(* create_sqlite_file: the walk starts over, on what is left.              *)
LEMMA CreateSqliteKeeps ==
  ASSUME PInv, NEW c \in Callers, create_sqlite_file(c)
  PROVE  PInv'
<1> DEFINE r == call[c]
           n == [r EXCEPT !.pc = "spell", !.buf = Shown(r), !.marks = {}, !.dir = <<>>, !.made = TRUE]
<1>1. /\ program = "shell" /\ r.pc = "done" /\ ~r.made /\ ~r.wrong /\ Step(c, n)
      /\ UNCHANGED <<program, tmp, last>>
  BY DEF create_sqlite_file
<1>2. Good(c) /\ DOMAIN r = Fields
  BY DEF PInv, Good
<1>3. Running(c)
  BY <1>1 DEF Running
<1>4. /\ DOMAIN n = Fields /\ n.pc = "spell" /\ n.op = r.op /\ n.path = r.path /\ n.up = r.up
      /\ n.buf = Shown(r) /\ n.marks = {} /\ n.dir = <<>> /\ n.wrong = r.wrong
      /\ n.made = TRUE /\ n.alone = r.alone
  BY <1>2 DEF Fields
<1> HIDE DEF n
<1>5. r.alone /\ r.op = "open" /\ OnWay(c, r, tmp, last)
  BY <1>1, <1>2, <1>3 DEF Good
<1>6. Way(r) = r.path /\ Way(r) \in Seq(Names)
  BY <1>1, <1>2, <1>5, WayTyped DEF Way, Target, Good
<1>7. r.path \in Dirs /\ r.up = 0 /\ CutOff(c, r, Len(Way(r)), Nowhere)
  BY <1>1, <1>5, <1>6 DEF OnWay
<1>8. Text(n) = FirstName(r.path) /\ n.buf = FirstName(r.path) /\ Text(n) \in Seq(Names)
  <2>1. Text(n) = FirstName(r.path)
    BY <1>4 DEF Text
  <2>2. n.buf = FirstName(r.path)
    BY <1>4, <1>6, <1>7, ShownIsFirst
  <2>3. Text(n) \in Seq(Names)
    BY <1>2, <1>4, WayTyped DEF Good
  <2> QED
    BY <2>1, <2>2, <2>3
<1>9. n.up \in 0..Len(Text(n)) /\ Rest(Text(n), n.up) = Text(n)
  BY <1>4, <1>7, <1>8, RestSteps, LenProperties
<1>10. OnWay(c, n, tmp', last')
  BY <1>1, <1>4, <1>8, <1>9 DEF OnWay
<1> QED
  BY <1>1, <1>2, <1>3, <1>4, <1>5, <1>7, <1>10, StepGood DEF MayStep, Good

-----------------------------------------------------------------------------
(* The theorems.                                                           *)

(* No call has begun.                                                      *)
LEMMA InitPInv == PathsInit => PInv
<1> SUFFICES ASSUME PathsInit PROVE PInv
  OBVIOUS
<1>1. DOMAIN call = Callers /\ DOMAIN tmp = {"dir", "file"} /\ \A c \in Callers : call[c] = Idle
  BY DEF PathsInit
<1>2. /\ DOMAIN Idle = Fields /\ Idle.pc = "idle" /\ Idle.op = "readdir" /\ Idle.path = <<>>
      /\ Idle.made = FALSE
  BY DEF Idle, Fields
<1>3. <<>> \in Asked
  BY PathsAssumption
<1>4. ASSUME NEW c \in Callers PROVE Good(c)
  BY <1>1, <1>2, <1>3 DEF Good, Running
<1> QED
  BY <1>1, <1>4 DEF PInv

(* Every step keeps the invariant.                                         *)
LEMMA NextPInv == PInv /\ [PathsNext]_vars => PInv'
<1> SUFFICES ASSUME PInv, [PathsNext]_vars PROVE PInv'
  OBVIOUS
<1>1. CASE UNCHANGED vars
  BY <1>1 DEF vars, PInv, Good, Running, OnWay, Way, Text, CutOff, AtRoot
<1>2. ASSUME NEW c \in Callers, Enter(c) PROVE PInv'
  <2>1. ASSUME NEW q \in Asked, NEW op \in Ops(q), Begin(c, op, q) PROVE PInv'
    BY <2>1, BeginKeeps
  <2>2. ASSUME NEW q \in Asked, open_sqlite_file(c, q) PROVE PInv'
    BY <2>2, OpenSqliteKeeps
  <2> QED
    BY <1>2, <2>1, <2>2 DEF Enter
<1>3. ASSUME NEW c \in Callers, Advance(c) PROVE PInv'
  <2>1. CASE Spell(c)
    BY <2>1, SpellKeeps
  <2>2. CASE Copy(c)
    BY <2>2, CopyKeeps
  <2>3. CASE First(c)
    BY <2>3, FirstKeeps
  <2>4. CASE Match(c)
    BY <2>4, MatchKeeps
  <2>5. CASE Load(c)
    BY <2>5, LoadKeeps
  <2>6. CASE CutNone(c)
    BY <2>6, CutNoneKeeps
  <2>7. CASE CutName(c)
    BY <2>7, CutNameKeeps
  <2>8. CASE CutDead(c)
    BY <2>8, CutDeadKeeps
  <2>9. CASE Return(c)
    <3>1. Running(c) /\ Over(c) /\ UNCHANGED <<program, tmp>>
      BY <2>9 DEF Return, Over, Running
    <3> QED
      BY <3>1, OverKeeps
  <2>10. CASE create_sqlite_file(c)
    BY <2>10, CreateSqliteKeeps
  <2>11. CASE Opened(c)
    <3>1. Running(c) /\ Over(c) /\ UNCHANGED <<program, tmp>>
      BY <2>11 DEF Opened, Over, Running
    <3> QED
      BY <3>1, OverKeeps
  <2> QED
    BY <1>3, <2>1, <2>2, <2>3, <2>4, <2>5, <2>6, <2>7, <2>8, <2>9, <2>10, <2>11 DEF Advance
<1> QED
  BY <1>1, <1>2, <1>3 DEF PathsNext

(* A call that is alone is where its path says, in every history of calls  *)
(* (get_cluster_number, get_dir_path_from_dentry and                       *)
(* get_file_path_from_dentry, with what they leave in static variables).   *)
THEOREM PathsAlways == PathsSpec => []PInv
<1>1. PathsInit => PInv
  BY InitPInv
<1>2. PInv /\ [PathsNext]_vars => PInv'
  BY NextPInv
<1> QED
  BY <1>1, <1>2, PTL DEF PathsSpec

(* Every wrong walk is the work of overlapping calls: a call that no other *)
(* overlaps comes to its directory, or finds that there is none, whatever  *)
(* was left in strtok's position and in the path buffers; and a name at    *)
(* the root is looked up at the root whatever overlaps (entry.c, util.c).  *)
THEOREM HarmTakesOverlap == PathsSpec => []HarmNeedsOverlap
<1>1. PInv => HarmNeedsOverlap
  <2> SUFFICES ASSUME PInv, NEW c \in Callers, call[c].pc = "done"
               PROVE  LET r == call[c]
                          dir == Target(r.op, r.path) IN
                      /\ r.alone /\ ~r.made => IF dir \in Dirs THEN ~r.wrong /\ r.dir = dir ELSE r.wrong
                      /\ r.op # "read" /\ dir = <<>> => ~r.wrong /\ r.dir = <<>>
    BY DEF HarmNeedsOverlap
  <2> DEFINE r == call[c]
             dir == Target(r.op, r.path)
  <2>1. Good(c) /\ Running(c)
    BY DEF PInv, Running
  <2>2. ASSUME r.alone PROVE IF Way(r) \in Dirs THEN ~r.wrong /\ r.dir = Way(r) ELSE r.wrong
    <3>1. OnWay(c, r, tmp, last)
      BY <2>1, <2>2 DEF Good
    <3> QED
      BY <3>1 DEF OnWay
  <2>3. ~r.made => Way(r) = dir
    BY DEF Way
  <2>4. ASSUME r.op # "read", dir = <<>> PROVE ~r.wrong /\ r.dir = <<>>
    <3>1. CASE ~r.made
      BY <2>1, <2>4, <3>1 DEF Good, AtRoot
    <3>2. CASE r.made
      <4>1. r.op = "open" /\ r.alone
        BY <2>1, <3>2 DEF Good
      <4>2. Way(r) = <<>>
        BY <2>4, <3>2, <4>1 DEF Way, Target, FirstName
      <4>3. <<>> \in Dirs
        BY PathsAssumption
      <4> QED
        BY <2>2, <4>1, <4>2, <4>3
    <3> QED
      BY <3>1, <3>2
  <2> QED
    BY <2>2, <2>3, <2>4
<1> QED
  BY <1>1, PathsAlways, PTL

(* The shell makes a file in the first directory of its route, the lookup  *)
(* having cut off the rest (open_sqlite_file, create_sqlite_file).         *)
THEOREM FirstNameAlwaysSurvives == PathsSpec => []FirstNameSurvives
<1>1. PInv => FirstNameSurvives
  <2> SUFFICES ASSUME PInv, NEW c \in Callers, call[c].pc = "done", call[c].made
               PROVE  /\ ~call[c].wrong
                      /\ call[c].dir = SubSeq(call[c].path, 1, Min({1, Len(call[c].path)}))
    BY DEF FirstNameSurvives
  <2> DEFINE r == call[c]
             q == r.path
  <2>1. Good(c) /\ Running(c)
    BY DEF PInv, Running
  <2>2. r.path \in Dirs /\ r.alone /\ OnWay(c, r, tmp, last)
    BY <2>1 DEF Good
  <2>3. Way(r) = FirstName(q) /\ q \in Seq(Names)
    BY <2>1, WayTyped DEF Way, Good
  <2>4. Len(q) \in Nat
    BY <2>3, LenProperties
  <2>5. FirstName(q) = SubSeq(q, 1, Min({1, Len(q)})) /\ FirstName(q) \in Dirs
    <3>1. CASE q = <<>>
      <4>1. Len(q) = 0 /\ Min({1, 0}) = 0
        BY <3>1 DEF Min
      <4> QED
        BY <2>2, <3>1, <4>1 DEF FirstName
    <3>2. CASE q # <<>>
      <4>1. Len(q) >= 1
        BY <2>3, <2>4, <3>2, EmptySeq
      <4>2. PICK n \in Nat : n = Len(q) /\ n >= 1
        BY <2>4, <4>1
      <4>3. Min({1, n}) = 1
        BY <4>2 DEF Min
      <4>4. Upto(q, 1) \in Dirs
        BY <2>2, <2>3, <4>2, DirsAbove
      <4> QED
        BY <3>2, <4>2, <4>3, <4>4 DEF FirstName, Upto
    <3> QED
      BY <3>1, <3>2
  <2>6. ~r.wrong /\ r.dir = Way(r)
    BY <2>2, <2>3, <2>5 DEF OnWay
  <2> QED
    BY <2>3, <2>5, <2>6
<1> QED
  BY <1>1, PathsAlways, PTL

=============================================================================
