----------------------------- MODULE FileStore -----------------------------
(***************************************************************************)
(* What MFS promises a client that extends files at their end: a tree of   *)
(* named directories and files, in which a call changes the node it names  *)
(* and no other, and a write adds a non-empty prefix of its buffer to the  *)
(* file.  The promise ends when the volume is lost.                        *)
(*                                                                         *)
(* A node is the sequence of the names that lead to it from the root.      *)
(***************************************************************************)
EXTENDS Naturals, Sequences

CONSTANTS Names, Data, MaxDepth, MaxLen

VARIABLES
  dirs,   (* The directories, the root <<>> among them.                    *)
  files,  (* The content of each file.                                     *)
  lost    (* The volume can no longer be used.                             *)

vars == <<dirs, files, lost>>

Init ==
  /\ dirs = {<<>>}
  /\ files = <<>>
  /\ lost = FALSE

(* q can be made: its directory exists and q itself does not.              *)
Absent(q) ==
  /\ SubSeq(q, 1, Len(q) - 1) \in dirs
  /\ q \notin dirs \cup DOMAIN files

Create(q) ==
  /\ Absent(q)
  /\ files' = [r \in DOMAIN files \cup {q} |-> IF r = q THEN <<>> ELSE files[r]]
  /\ UNCHANGED <<dirs, lost>>

Mkdir(q) ==
  /\ Absent(q)
  /\ dirs' = dirs \cup {q}
  /\ UNCHANGED <<files, lost>>

Extend(q, buf) ==
  /\ \E k \in 1..Len(buf) : files' = [files EXCEPT ![q] = @ \o SubSeq(buf, 1, k)]
  /\ UNCHANGED <<dirs, lost>>

Lose == ~lost /\ lost' = TRUE /\ dirs' = {} /\ files' = <<>>

Node == UNION {[1..k -> Names] : k \in 1..(MaxDepth + 1)}
Buffer == UNION {[1..k -> Data] : k \in 1..MaxLen}

Next ==
  \/ \E q \in Node : Create(q) \/ Mkdir(q)
  \/ \E q \in DOMAIN files, buf \in Buffer : Extend(q, buf)
  \/ Lose

Spec == Init /\ [][Next]_vars
=============================================================================
