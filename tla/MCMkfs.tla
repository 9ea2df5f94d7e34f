------------------------------ MODULE MCMkfs -------------------------------
(* Command lines and devices for Mkfs: volumes around each boundary of the *)
(* index width, of a sector of the FAT and of a cluster, and texts of each *)
(* form strtoull and parse_size tell apart.                                *)
EXTENDS Mkfs

Text(d, s) == [blank |-> FALSE, neg |-> FALSE, digits |-> d, suffix |-> s, more |-> FALSE]

SomeSizes ==
  {Text(512 * n, NoSuffix) : n \in {0, 1, 255, 256, 257, 511, 512, 2048, 32767, 32768, 33023, 33024, 65535, 65536}}
  \cup {Text(d, s) : d \in {0, 1, 16, 33, 1023, 1024, 1025}, s \in {0, 10, 20, 30, Unknown}}
  \cup {[Text(d, s) EXCEPT !.neg = TRUE, !.blank = b] :
          d \in {0, 1, 2^30 - 131072}, s \in {NoSuffix, 10}, b \in BOOLEAN}
  \cup {Text(NoDigits, 10), Text(2^30, NoSuffix), Text(2^30 - 1, NoSuffix),
        [Text(1, 10) EXCEPT !.more = TRUE]}

SomeClusterSizes ==
  {Text(d, s) : d \in {0, 1}, s \in {10, 20}} \cup {Text(512, NoSuffix), Text(700, 10)}
  \cup {[Text(2^30 - 512, NoSuffix) EXCEPT !.neg = TRUE, !.blank = TRUE]}

SomeLengths == {0, 100} \cup {512 * n : n \in {1, 255, 256, 1000, 2048, 32767, 65535, 65536}}
=============================================================================
