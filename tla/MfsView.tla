------------------------------ MODULE MfsView ------------------------------
(***************************************************************************)
(* What a client sees of an MFS volume: the tree of names that lookup      *)
(* finds, and the content that reading each file returns.  dirs and files  *)
(* are functions of the volume, kept as variables next to it.  A client    *)
(* that writes at the end of its files may rely on FileStore.              *)
(***************************************************************************)
EXTENDS Mfs

VARIABLES dirs, files

Nodes == UNION {[1..k -> Names] : k \in 0..(MaxDepth + 1)}
FileAt(f, dk, q) ==
  LET p == Prefix(q, Len(q) - 1)
  IN  IF q = <<>> \/ ~IsDir(f, dk, p) THEN {}
      ELSE get_dentry(f, dk, get_cluster_number(f, dk, p), q[Len(q)])

(* What a client takes a slot for that it reads from a file.               *)
Value(slot) == IF slot.attr = "data" THEN slot.val ELSE slot

DirsFound(f, dk, s) ==
  IF s = "ok" THEN {q \in Nodes : IsDir(f, dk, q)} ELSE {}
FilesFound(f, dk, s) ==
  [q \in {r \in Nodes : s = "ok" /\ FileAt(f, dk, r) # {}} |->
     LET c == Content(f, dk, dk[CHOOSE a \in FileAt(f, dk, q) : TRUE])
     IN  [i \in DOMAIN c |-> Value(c[i])]]

viewVars == <<fat, disk, status, dirs, files>>

ViewInit ==
  /\ Init
  /\ dirs = DirsFound(fat, disk, status)
  /\ files = FilesFound(fat, disk, status)

ViewNext ==
  /\ NextAtEnd
  /\ dirs' = DirsFound(fat', disk', status')
  /\ files' = FilesFound(fat', disk', status')

ViewSpec == ViewInit /\ [][ViewNext]_viewVars

(* Every call is a step of FileStore, or invisible: what is read back from *)
(* a file is what was written to it, in the order it was written, whatever *)
(* was done to other files and directories in between (file.c, entry.c).   *)
Promised == INSTANCE FileStore WITH lost <- (status = "wrecked")
ImplementsFileStore == Promised!Spec
=============================================================================
