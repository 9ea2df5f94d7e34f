-------------------------------- MODULE Mkfs -------------------------------
(***************************************************************************)
(* A run of the formatters mkfs.mfs and mdbfs, which share this code, from *)
(* their command line to the formatted volume: the sizes are parsed, the   *)
(* volume file is made or opened, filled with zeros, and gets its super    *)
(* block and the first mark in its FAT.  (What mdbfs does next, the copy   *)
(* of a database, is CreateDummy.)                                         *)
(*                                                                         *)
(* Sizes and positions are the program's own, in bytes.  A word has W bits *)
(* where the program has 64.                                               *)
(***************************************************************************)
EXTENDS Integers, FiniteSets

CONSTANTS
  W,          (* Bits of a size.                                           *)
  SizeTexts,  (* The arguments given to -s ...                             *)
  CSizeTexts, (* ... and to -c.                                            *)
  Lengths     (* Lengths of the file that is there before the run.         *)

(* The text of a size, as strtoull takes it apart: leading blanks, a minus *)
(* sign, the digits' value (NoDigits when there are none), what the first  *)
(* character after them multiplies by, as a power of 2, and whether there  *)
(* are more characters.                                                    *)
NoDigits == -1
NoSuffix == -1
Unknown == -2
Texts == [blank : BOOLEAN, neg : BOOLEAN, digits : Nat \cup {NoDigits},
          suffix : {NoSuffix, Unknown} \cup {10 * k : k \in 0..6}, more : BOOLEAN]

ASSUME MkfsAssumption ==
  /\ W \in Nat \ {0}
  /\ SizeTexts \subseteq Texts /\ CSizeTexts \subseteq Texts
  /\ Lengths \subseteq Nat

VARIABLES
  pc,     (* The next step, "done", or "exit" after an error.              *)
  opts,   (* The command line: auto and name, the texts of -s and -c (none *)
          (* of an option that is not given); the length of the file that  *)
          (* was there.                                                    *)
  size,   (* volume_size                                                   *)
  csize,  (* cluster_size                                                  *)
  file,   (* The length of the volume's file, NoFile if there is none.     *)
  pos,    (* The position in it.                                           *)
  before, (* The bytes below this are as they were before the run ...      *)
  zeros,  (* ... but for those from zeros.from to zeros.to, ...            *)
  sb,     (* ... the super block, ...                                      *)
  mark    (* ... and the four bytes from here.                             *)

vars == <<pc, opts, size, csize, file, pos, before, zeros, sb, mark>>

NoFile == -1
None == -1
Larger(x, y) == IF x > y THEN x ELSE y

-----------------------------------------------------------------------------
(* Sizes on the command line.                                              *)

(* The powers of 2, as a function that a proof can take apart.             *)
Two[k \in Nat] == IF k = 0 THEN 1 ELSE 2 * Two[k - 1]

fls64(x) == IF x = 0 THEN 0 ELSE CHOOSE i \in 1..W : Two[i - 1] <= x /\ x < Two[i]

(* strtoull: a minus sign negates in the unsigned type, and a value that   *)
(* does not fit becomes the largest and sets errno.                        *)
Overflows(t) == t.digits >= Two[W]
strtoull(t) ==
  IF Overflows(t) THEN Two[W] - 1
  ELSE IF t.neg THEN (Two[W] - t.digits) % Two[W] ELSE t.digits
Shift(t) == IF t.suffix = NoSuffix THEN 0 ELSE t.suffix

(* A faulty variant of Refused: the number of bits is off by one.          *)
RefusedLate(t) ==
  \/ t.neg /\ ~t.blank
  \/ t.digits = NoDigits \/ t.more \/ Overflows(t)
  \/ t.suffix = Unknown \/ fls64(strtoull(t)) + Shift(t) + 1 - 2 > W

(* The sign is looked for in the first character only.                     *)
Refused(t) ==
  \/ t.neg /\ ~t.blank
  \/ t.digits = NoDigits \/ t.more \/ Overflows(t)
  \/ t.suffix = Unknown \/ fls64(strtoull(t)) + (Shift(t) + 1) - 1 > W

(* The values a text may be read as: none or one.                          *)
parse_size(t) == IF Refused(t) THEN {} ELSE {(strtoull(t) * Two[Shift(t)]) % Two[W]}

(* An option that is not given leaves its 0.                               *)
SizeOf(given) == IF given = {} THEN {0} ELSE UNION {parse_size(t) : t \in given}

-----------------------------------------------------------------------------
(* The geometry of a volume.                                               *)

Sector == 512                          \* BYTES_PER_SECTOR, and a cluster
Clusters(v) == v \div Sector
SectorsOfSuperBlk == 512 \div Sector   \* the size of mfs_sb_info is 512

(* The products of the later boundaries are 0 in an int, and no number is  *)
(* below that.                                                             *)
mfs_fat_index_size(n) == IF n < 256 THEN 1 ELSE IF n < 256 * 256 THEN 2 ELSE 0

get_end_cluster(width) == 256^width - 1
get_bad_cluster(width) == 256^width - 2

(* The cast to 16 bits binds more tightly than the macro's division: it    *)
(* takes the bytes of the FAT, not its sectors.                            *)
SectorsOfFat(n) == ((n * mfs_fat_index_size(n)) % 2^16) \div Sector

(* A faulty variant of initialize_sb: one copy of the FAT is counted.      *)
OneCopy(v) ==
  LET n == Clusters(v)
      s == SectorsOfFat(n)
  IN  [fat |-> SectorsOfSuperBlk, sectors |-> s, copies |-> 1,
       data |-> SectorsOfSuperBlk + s, width |-> mfs_fat_index_size(n)]

initialize_sb(v) ==
  LET n == Clusters(v)
      s == SectorsOfFat(n)
  IN  [fat |-> SectorsOfSuperBlk, sectors |-> s, copies |-> 2,
       data |-> SectorsOfSuperBlk + 2 * s, width |-> mfs_fat_index_size(n)]

-----------------------------------------------------------------------------
(* The steps of main.                                                      *)

Goto(step) == pc' = step
Exit == pc' = "exit" /\ UNCHANGED <<size, csize, file, pos, before, zeros, sb, mark>>

Options ==
  /\ pc = "options"
  /\ \/ /\ SizeOf(opts.s) = {} \/ SizeOf(opts.c) = {}
        /\ Exit
     \/ \E v \in SizeOf(opts.s), c \in SizeOf(opts.c) :
          /\ size' = v /\ csize' = c
          /\ Goto(IF opts.auto THEN "loopback" ELSE "device")
          /\ UNCHANGED <<file, pos, before, zeros, sb, mark>>
  /\ UNCHANGED opts

(* A faulty variant of create_loopback: a file that is there is taken.     *)
LoopbackAnyway ==
  /\ pc = "loopback"
  /\ IF ~opts.name \/ size = 0 THEN Exit
     ELSE /\ file' = 0 /\ pos' = 0 /\ before' = 0 /\ Goto("clusters")
          /\ UNCHANGED <<size, csize, zeros, sb, mark>>
  /\ UNCHANGED opts

(* The file must be new: it is opened once for reading to see.             *)
create_loopback ==
  /\ pc = "loopback"
  /\ IF ~opts.name \/ size = 0 \/ file # NoFile THEN Exit
     ELSE /\ file' = 0 /\ pos' = 0 /\ before' = 0 /\ Goto("clusters")
          /\ UNCHANGED <<size, csize, zeros, sb, mark>>
  /\ UNCHANGED opts

(* The length of the device is its size, and the position stays at its end.*)
open_device ==
  /\ pc = "device"
  /\ IF file = NoFile THEN Exit
     ELSE /\ size' = file /\ pos' = file /\ Goto("clusters")
          /\ UNCHANGED <<csize, file, before, zeros, sb, mark>>
  /\ UNCHANGED opts

(* Whole clusters of zeros, as many as the size has, from the position on. *)
make_data_cluster ==
  /\ pc = "clusters"
  /\ IF csize = 0 THEN Exit
     ELSE LET to == pos + (size \div csize) * csize IN
          /\ zeros' = [from |-> pos, to |-> to]
          /\ file' = Larger(file, to) /\ pos' = to /\ Goto("super")
          /\ UNCHANGED <<size, csize, before, sb, mark>>
  /\ UNCHANGED opts

create_volume ==
  /\ pc = "super"
  /\ sb' = initialize_sb(size)
  /\ file' = Larger(file, Sector) /\ pos' = Sector /\ Goto("fat")
  /\ UNCHANGED <<opts, size, csize, before, zeros, mark>>

(* The mark of the root's chain.  The super block is there already when    *)
(* the width of an index turns out to be none get_end_cluster knows.       *)
IndexPosition(i) == sb.fat * Sector + sb.width * (i - 2)
make_fat ==
  /\ pc = "fat"
  /\ IF sb.width = 0 THEN Exit
     ELSE /\ mark' = IndexPosition(2)
          /\ file' = Larger(file, mark' + 4) /\ pos' = mark' + 4 /\ Goto("done")
          /\ UNCHANGED <<size, csize, before, zeros, sb>>
  /\ UNCHANGED opts

-----------------------------------------------------------------------------
NoSb == [fat |-> 0, sectors |-> 0, copies |-> 0, data |-> 0, width |-> 0]

MkfsInit ==
  /\ pc = "options"
  /\ opts \in [auto : BOOLEAN, name : BOOLEAN,
               was : Lengths \cup {NoFile},
               s : {{}} \cup {{t} : t \in SizeTexts}, c : {{}} \cup {{t} : t \in CSizeTexts}]
  /\ size = 0 /\ csize = 0
  /\ file = opts.was
  /\ pos = 0 /\ before = Larger(file, 0)
  /\ zeros = [from |-> 0, to |-> 0]
  /\ sb = NoSb
  /\ mark = None

Next ==
  \/ Options \/ create_loopback \/ open_device
  \/ make_data_cluster \/ create_volume \/ make_fat

Spec == MkfsInit /\ [][Next]_vars

-----------------------------------------------------------------------------
(* Properties.                                                             *)

(* A size that parse_size accepts is the one that was written, however it  *)
(* is spelt; only a minus sign behind a blank gets by (util.c).            *)
Meant(given, v) == \A t \in given : ~t.neg => v = t.digits * Two[Shift(t)]
SizesAreMeant ==
  pc = "clusters" => (opts.auto => Meant(opts.s, size)) /\ Meant(opts.c, csize)

(* No index of the FAT reads as the end of a chain or as a bad cluster,    *)
(* and the FAT ends before the data begins, whatever the size.  But every  *)
(* cluster of data on the volume has an index, and the root's mark is in   *)
(* the FAT, just when the volume has at least 256 and less than 32768      *)
(* clusters: a smaller one has a FAT of no sectors, and of a larger one    *)
(* the bytes of the FAT are taken modulo 2^16 (initialize_sb, which        *)
(* refuses neither).                                                       *)
Indices == (sb.sectors * sb.copies * Sector) \div sb.width
LayoutHolds ==
  pc = "done" =>
    /\ Indices + 1 < get_bad_cluster(sb.width) /\ Indices + 1 < get_end_cluster(sb.width)
    /\ sb.fat + sb.sectors * sb.copies <= sb.data
    /\ Indices >= Clusters(size) - sb.data /\ mark + 4 <= sb.data * Sector
         <=> Clusters(size) >= 256 /\ Clusters(size) < 32768

(* A volume made with --auto is blank but for the super block and the mark *)
(* of the root, up to the last whole cluster of its size, which is where   *)
(* the other modules take it up (create_loopback, make_data_cluster); on a *)
(* device the zeros go behind what is there.  A run that ends with an      *)
(* error has changed no byte of a volume that was there, unless the volume *)
(* has more clusters than a FAT can have indices (main checks what it is   *)
(* given before it writes).                                                *)
WritesWhatItShould ==
  /\ pc = "done" /\ opts.auto =>
       before = 0 /\ zeros.from = 0 /\ size - zeros.to < csize
  /\ pc = "exit" =>
       \/ opts.was = NoFile
       \/ file = opts.was /\ before = opts.was /\ zeros.to = 0 /\ sb = NoSb
       \/ Clusters(size) >= 65536
=============================================================================
