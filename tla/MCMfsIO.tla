------------------------------ MODULE MCMfsIO ------------------------------
(* Instances of MfsIO for TLC: names, contents and callers are             *)
(* interchangeable.                                                        *)
EXTENDS MfsIO, TLC

IOSymmetry == Permutations(Names) \cup Permutations(Data)
=============================================================================
