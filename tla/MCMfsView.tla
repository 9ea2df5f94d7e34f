----------------------------- MODULE MCMfsView -----------------------------
(* Small instances of MfsView, with the symmetries of MCMfs.               *)
EXTENDS MfsView, TLC

AllSymmetry == Permutations(Names) \cup Permutations(Data)
=============================================================================
