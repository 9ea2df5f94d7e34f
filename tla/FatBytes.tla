------------------------------ MODULE FatBytes ------------------------------
(***************************************************************************)
(* The FAT as it lies on the volume, in the 2-byte layout: the super block *)
(* with four bytes of padding at its end, the sectors of the FAT, and the  *)
(* data.  Positions are computed and compared as in fat.c, in the unsigned *)
(* arithmetic of a machine word.  With it the calls of FatCalls are read   *)
(* off the bytes.                                                          *)
(***************************************************************************)
EXTENDS Fat

CONSTANTS
  ByteBase,  (* Values of a byte: 256 in the code.                         *)
  SbBytes,   (* Size of the super block: 512 in the code.                  *)
  DataBytes, (* Size of the data that is looked at behind the FAT.         *)
  Word       (* Values of an unsigned int: 2^32 in the code.               *)

FatStart == SbBytes
FatEnd == FatStart + 2 * (MaxIndex - 1)
Positions == 0..(FatEnd + DataBytes - 1)

ASSUME FatBytesAssumption ==
  /\ ByteBase \in Nat \ {0, 1}
  /\ SbBytes \in Nat /\ SbBytes > 4
  /\ DataBytes \in Nat /\ DataBytes > 1
  /\ EndMark = ByteBase * ByteBase - 1
  /\ EndMark > MaxIndex + 1   \* read_fat_index takes it to lie past FatEnd
  /\ Word \in Nat /\ Word > FatStart + 2 * EndMark

VARIABLE bytes

-----------------------------------------------------------------------------

(* A faulty variant of Position: index 0 for the first entry.              *)
PositionFromZero(i) == (FatStart + 2 * (i % Word)) % Word

(* Where index i lies.  2 is subtracted before the multiplication, without *)
(* a sign: index 0 lies four bytes before the FAT.                         *)
Position(i) == (FatStart + 2 * ((i - 2) % Word)) % Word

Low(v) == v % ByteBase
High(v) == v \div ByteBase

(* read_fat_index: a position is refused only when it is past FatEnd.      *)
Read(b, i) ==
  LET p == Position(i) IN
  IF p > FatEnd THEN 0 ELSE b[p] + ByteBase * b[p + 1]

(* A faulty variant of Write: four bytes, as make_fat_index writes them.   *)
WriteFour(b, i, v) ==
  LET p == Position(i) IN
  [q \in Positions |-> CASE q = p -> Low(v) [] q = p + 1 -> High(v)
                         [] q \in {p + 2, p + 3} -> 0 [] OTHER -> b[q]]

(* write_in_fat_index: as many bytes as the field fat_index_size has.      *)
Write(b, i, v) ==
  LET p == Position(i) IN
  IF p > FatEnd THEN b ELSE [b EXCEPT ![p] = Low(v), ![p + 1] = High(v)]

(* find_empty_fat_index: sector after sector, entry after entry, four      *)
(* bytes each.  behind[s]: what lies behind the buffer sector s was read   *)
(* into is 0.                                                              *)
Sectors == 0..((MaxIndex - 1) \div SectorIndices - 1)
ProbedBytes(b, behind) ==
  {i \in Index :
     LET p == Position(i)
         s == (i - 2) \div SectorIndices
         next == FatStart + 2 * SectorIndices * (s + 1)
     IN  \A q \in p..(p + 3) : IF q < next THEN b[q] = 0 ELSE behind[s]}

(* A faulty variant of FindEmpty: the probe has the width of an index.     *)
FindByIndex(b) ==
  LET S == {i \in Index : Read(b, i) = 0}
  IN  IF S = {} THEN {0} ELSE {i \in S : \A j \in S : i <= j}

FindEmpty(b) ==
  UNION {LET S == ProbedBytes(b, behind)
         IN  IF S = {} THEN {0} ELSE {i \in S : \A j \in S : i <= j} :
           behind \in [Sectors -> BOOLEAN]}

-----------------------------------------------------------------------------

(* The formatter zeroes the image, writes the super block (1 stands for    *)
(* its fields, the padding is 0) and the end mark of the root, as a 4-byte *)
(* number.  The data is anything: 1.                                       *)
Init ==
  bytes = [p \in Positions |->
             CASE p < FatStart - 4 -> 1
               [] p = Position(RootCluster) -> Low(EndMark)
               [] p = Position(RootCluster) + 1 -> High(EndMark)
               [] p >= FatEnd -> 1
               [] OTHER -> 0]

(* __mfs_create and __mfs_mkdir.                                           *)
Take == \E new \in FindEmpty(bytes) : bytes' = Write(bytes, new, EndMark)

(* alloc_new_dirent and write_file.                                        *)
Grow ==
  \E tail \in Cluster, new \in FindEmpty(bytes) :
    /\ Read(bytes, tail) = EndMark
    /\ bytes' = Write(Write(bytes, tail, new), new, EndMark)

Next == Take \/ Grow
Spec == Init /\ [][Next]_bytes

-----------------------------------------------------------------------------

(* Index by index the bytes read as the table of Fat, and every call finds *)
(* and changes in the bytes what it does in the table.                     *)
Shown == [i \in Cluster |-> Read(bytes, i)]
Calls == INSTANCE FatCalls WITH fat <- Shown
ImplementsFatCalls == Calls!Spec

(* The search answers from the bytes what it answers from the table: no    *)
(* answer is left out, whatever lies behind the buffers.                   *)
FindAgrees == FindEmpty(bytes) = find_empty_fat_index(Shown)

(* The FAT calls change no field of the super block, and no data: index 0, *)
(* the answer for a full volume, lands in the padding, and no index past   *)
(* the last is ever asked for.                                             *)
OutsideIntact ==
  [][\A p \in Positions : p < FatStart - 4 \/ p >= FatEnd => bytes'[p] = bytes[p]]_bytes
=============================================================================
