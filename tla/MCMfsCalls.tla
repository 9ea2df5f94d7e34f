---------------------------- MODULE MCMfsCalls -----------------------------
(* Small instances of MfsCalls, with the symmetries of MCMfs.              *)
EXTENDS MfsCalls, TLC

AllSymmetry == Permutations(Names) \cup Permutations(Data)
=============================================================================
