------------------------------ MODULE MCPaths ------------------------------
(* A small instance of Paths: two threads, a directory in a directory, and *)
(* a path below it that is not a directory.                                *)
EXTENDS Paths, TLC

CONSTANTS a, b, x

SmallDirs == {<<>>, <<a>>, <<b>>, <<a, b>>}
SmallAsked == {<<>>, <<a>>, <<b>>, <<a, b>>, <<a, b, x>>}
=============================================================================
