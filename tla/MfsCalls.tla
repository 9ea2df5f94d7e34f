------------------------------ MODULE MfsCalls ------------------------------
(***************************************************************************)
(* Mfs with the last write call and what it returned, to compare calls     *)
(* with what the comments on mfs_write say of them.                        *)
(***************************************************************************)
EXTENDS Mfs

VARIABLE call   \* the last write, or None

None == [ret |-> 0]
callVars == <<fat, disk, status, call>>

(* write_file returns valid_len; mfs_write and write_sqlite_file return it *)
(* as an int, in which nearly 2^32 is a small negative number.             *)
CallWrite ==
  \E p \in Paths, n \in Names, off \in 0..MaxSize, buf \in Buffers :
    /\ WriteFile(p, n, off, buf)
    /\ \E a \in get_dentry(fat, disk, get_cluster_number(fat, disk, p), n) :
         call' = [ret |-> valid_len(Len(buf), off % CS), before |-> disk[a].size,
                  clusters |-> Cardinality(Chain(fat, disk[a].head)),
                  path |-> p, name |-> n, off |-> off, buf |-> buf]

CallNext ==
  \/ (Create \/ Mkdir) /\ call' = None
  \/ CallWrite

CallInit == Init /\ call = None
CallSpec == CallInit /\ [][CallNext]_callVars

(* The entry of the file that was written, after the write.                *)
Written ==
  {disk[a] : a \in get_dentry(fat, disk, get_cluster_number(fat, disk, call.path),
                              call.name)}

(* The writes that work: inside one cluster, and at most one cluster past  *)
(* the end of the chain.  What such a write returns it has stored where it *)
(* was asked to, wherever in the file, full volume or not; and when it     *)
(* leaves no gap a read at the same offset returns it: write_file and      *)
(* read_file walk the chain to the same place (file.c:169, file.c:270).    *)
Fits ==
  /\ (call.off % CS) + Len(call.buf) <= CS
  /\ call.off < (call.clusters + 1) * CS
FittingWritesReadBack ==
  status = "ok" /\ call # None /\ Fits =>
    /\ call.ret = Len(call.buf)
    /\ \A de \in Written :
         LET c == Walk(fat, de.head)[call.off \div CS]
             stored == [i \in 1..call.ret |-> Datum(call.buf[i])]
         IN  /\ c \in Index
             /\ stored = [i \in 1..call.ret |-> disk[Base(c) + (call.off % CS) + i - 1]]
             /\ call.off <= call.before =>
                  read_file(fat, disk, de, call.off, call.ret) = stored

(* A write that starts inside the file or at its end leaves the size,      *)
(* which mfs_getattr reports, where the content ends (namei.c:231).        *)
SizeIsWhereTheFileEnds ==
  status = "ok" /\ call # None /\ call.off <= call.before =>
    \A de \in Written :
      LET end == call.off + call.ret IN
      de.size = IF end > call.before THEN end ELSE call.before
=============================================================================
