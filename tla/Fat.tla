-------------------------------- MODULE Fat --------------------------------
(***************************************************************************)
(* The file allocation table of an MFS volume (fat.c), as a function from  *)
(* indices to values, in the 2-byte layout.  A FAT index names a data      *)
(* cluster; its value is 0 (unused), the next cluster of the chain, or     *)
(* EndMark.  The chain of a file or directory is walked from the head      *)
(* cluster its directory entry holds.                                      *)
(*                                                                         *)
(* Three details of fat.c are kept because the rest depends on them:       *)
(*  - find_empty_fat_index looks at four bytes where an entry has two, so  *)
(*    an entry counts as empty only when its right neighbour is 0 as well; *)
(*  - at the last entry of a sector the two extra bytes lie past the       *)
(*    512-byte stack buffer: whether they are 0 is anybody's guess;        *)
(*  - it returns FALSE, that is 0, when nothing is found, and index 0 is   *)
(*    not refused by read_fat_index or write_in_fat_index: (0 - 2) * 2     *)
(*    wraps to the four bytes before the FAT, the padding of the super     *)
(*    block, which behave as one more entry.                               *)
(***************************************************************************)
EXTENDS Integers

CONSTANTS
  MaxIndex,       (* The last index the FAT region holds: 2..MaxIndex.     *)
  SectorIndices,  (* Indices in one sector of the FAT (256 in the code).   *)
  EndMark         (* get_end_cluster: 0xFFFF in the 2-byte layout.         *)

ASSUME FatAssumption ==
  /\ MaxIndex \in Nat /\ MaxIndex >= 2
  /\ SectorIndices \in Nat \ {0}
  /\ (MaxIndex - 1) % SectorIndices = 0   \* the region is whole sectors
  /\ EndMark \in Nat /\ EndMark > MaxIndex

Index == 2..MaxIndex
Cluster == {0} \cup Index
Table == [Cluster -> Cluster \cup {EndMark}]

(* make_data_cluster zeroes the image, make_fat gives the root, cluster 2, *)
(* a chain of one.                                                         *)
RootCluster == 2
FormattedFat == [i \in Cluster |-> IF i = RootCluster THEN EndMark ELSE 0]

LastInSector(i) == (i - 1) % SectorIndices = 0

(* Faulty variants of Probed: it looks at the neighbour only; its loop     *)
(* over the sectors of the FAT leaves out the last one.                    *)
ProbedByNeighbour(f) == {i \in Index : LastInSector(i) \/ f[i + 1] = 0}
ProbedButLastSector(f) ==
  {i \in 2..(MaxIndex - SectorIndices) :
     f[i] = 0 /\ (LastInSector(i) \/ f[i + 1] = 0)}

(* The entries the four-byte probe may take for empty: surely those with   *)
(* an empty right neighbour in the sector, possibly the last of a sector.  *)
Probed(f) == {i \in Index : f[i] = 0 /\ (LastInSector(i) \/ f[i + 1] = 0)}

(* A faulty variant of find_empty_fat_index: the position in the FAT, not  *)
(* the index, which starts at 2.                                           *)
EmptyPosition(f) == {i - 2 : i \in {j \in Probed(f) : \A k \in Probed(f) : j <= k}}

(* find_empty_fat_index: the first entry that probes empty, 0 if none does *)
find_empty_fat_index(f) ==
  {i \in Probed(f) : \A j \in Probed(f) : j < i => LastInSector(j)}
    \cup {i \in {0} : \A j \in Probed(f) : LastInSector(j)}

write_in_fat_index(f, i, v) == [f EXCEPT ![i] = v]

(* A faulty variant of Extended: the old tail is not linked.               *)
MarkOnly(f, tail, new) == write_in_fat_index(f, new, EndMark)

(* A chain grows by one cluster: first the old tail is linked, then the    *)
(* new cluster is marked as the end (alloc_new_dirent, write_file).        *)
Extended(f, tail, new) ==
  write_in_fat_index(write_in_fat_index(f, tail, new), new, EndMark)

(* EndMark lies past the table, where every index reads as FALSE.          *)
read_fat_index(f, i) == IF i = EndMark THEN 0 ELSE f[i]

(* Walk(f, h)[k]: the cluster reached from h by k reads of the FAT; a loop *)
(* over a chain stops at EndMark.                                          *)
After(f, c) == IF c = EndMark THEN EndMark ELSE read_fat_index(f, c)
Walk(f, h) ==
  LET w[k \in 0..MaxIndex] == IF k = 0 THEN h ELSE After(f, w[k - 1]) IN w

(* A faulty variant of BlindWalk: it is one cluster ahead.                 *)
BlindWalkAhead(f, h) ==
  LET w[k \in 0..MaxIndex] == read_fat_index(f, IF k = 0 THEN h ELSE w[k - 1]) IN w

(* The same for a reader that does not look for the end.                   *)
BlindWalk(f, h) ==
  LET w[k \in 0..MaxIndex] == IF k = 0 THEN h ELSE read_fat_index(f, w[k - 1]) IN w

(* The clusters of the chain that starts at h.                             *)
Chain(f, h) ==
  LET w == Walk(f, h) IN {w[k] : k \in 0..MaxIndex} \ {EndMark}

Ends(f, h) == Walk(f, h)[MaxIndex] = EndMark
=============================================================================
