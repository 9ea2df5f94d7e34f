------------------------------- MODULE MCVfs -------------------------------
(* A small instance of Vfs: two names at the root and one in each of them. *)
(* No action prefers a name.                                               *)
EXTENDS Vfs, TLC

CONSTANTS a, b, x

SmallTree == {<<a>>, <<b>>, <<a, x>>, <<b, x>>}
NameSymmetry == Permutations({a, b})
=============================================================================
