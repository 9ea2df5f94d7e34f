---------------------------- MODULE MCShellData ----------------------------
(* The files .import is given in the run data.                             *)
EXTENDS ShellData

UpTo(n, S) == UNION {[1..k -> S] : k \in 0..n}
Csv(rows) == [mode |-> "csv", rows |-> rows]
Ascii(rows) == [mode |-> "ascii", rows |-> rows]
Awkward == UpTo(2, {"a", ColSep, DQ, LF, CR})
Plainer == UpTo(1, {"a", DQ, LF})
Short == UpTo(1, {"a", "b"})

SomeKinds == {[t \in Tables |-> "table"], <<"virtual", "table", "internal">>}
SomeAlphabet == {"a", "-", "0", SQ, DQ, BS, LF, "\f", "<"}
SomeSources ==
  {Csv(<<>>)}
  \cup {Csv(<<<<y, z>>>>) : y \in Awkward, z \in UpTo(1, {"a", DQ, CR})}
  \cup {Csv(<<<<y, z>>, r>>) : y, z \in Plainer, r \in [1..2 -> Plainer] \cup [1..1 -> Plainer] \cup [1..3 -> {<<"a">>, <<>>}]}
  \cup {Ascii(<<r, q>>) : r, q \in [1..2 -> Short]}
=============================================================================
