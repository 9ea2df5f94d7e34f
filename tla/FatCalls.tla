------------------------------ MODULE FatCalls ------------------------------
(***************************************************************************)
(* The table of Fat under the calls that the rest of the program makes: a  *)
(* cluster is taken for a new file or directory, a chain grows.  This is   *)
(* what FatBytes, which has the table's bytes, implements.                 *)
(***************************************************************************)
EXTENDS Fat

VARIABLE fat

Init == fat = FormattedFat

Take ==
  \E new \in find_empty_fat_index(fat) :
    fat' = write_in_fat_index(fat, new, EndMark)

Grow ==
  \E tail \in Cluster, new \in find_empty_fat_index(fat) :
    /\ fat[tail] = EndMark
    /\ fat' = Extended(fat, tail, new)

Next == Take \/ Grow
Spec == Init /\ [][Next]_fat
=============================================================================
