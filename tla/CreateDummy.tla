---------------------------- MODULE CreateDummy ----------------------------
(***************************************************************************)
(* The last step of mdbfs: with the volume formatted, create_dummy makes   *)
(* test.db and copies a host file into it, one write_sqlite_file after the *)
(* other.  The program is one sequential process; n_write is all it learns *)
(* of a call.                                                              *)
(***************************************************************************)
EXTENDS Mfs

CONSTANT DbName
ASSUME DbAssumption == DbName \in Names

VARIABLES
  buff,     (* The content of the host file, read before the copy.         *)
  offset,   (* How much of it has been written.                            *)
  pc        (* "create", "write" or "done".                                *)

copyVars == <<fat, disk, status, buff, offset, pc>>

CopyInit ==
  /\ Init
  /\ buff \in Buffers \cup {<<>>}
  /\ offset = 0
  /\ pc = "create"

(* create_sqlite_file: __mfs_create, whose result is not looked at.        *)
CreateDb ==
  /\ pc = "create"
  /\ mfs_create(<<>>, DbName)
  /\ pc' = "write"
  /\ UNCHANGED <<buff, offset>>

(* Faulty variants of CopyOn: the buffer is not advanced with the offset;  *)
(* neither of the two is.                                                  *)
CopyFromStart ==
  LET rest == SubSeq(buff, 1, Len(buff) - offset)
      n_write == valid_len(Len(rest), offset % CS)
  IN  /\ pc = "write"
      /\ rest # <<>>
      /\ WriteFile(<<>>, DbName, offset, rest)
      /\ offset' = offset + n_write
      /\ pc' = IF n_write <= 0 THEN "done" ELSE "write"
      /\ UNCHANGED buff
CopyAgain ==
  /\ pc = "write"
  /\ offset # Len(buff)
  /\ WriteFile(<<>>, DbName, offset, buff)
  /\ UNCHANGED <<buff, offset, pc>>

(* One turn of the loop: write what is left, and go on from where the call *)
(* says it came to.  len is what the loop counts down.                     *)
CopyOn ==
  LET rest == SubSeq(buff, offset + 1, Len(buff))
      n_write == valid_len(Len(rest), offset % CS)
  IN  /\ pc = "write"
      /\ rest # <<>>
      /\ WriteFile(<<>>, DbName, offset, rest)
      /\ offset' = offset + n_write
      /\ pc' = IF n_write <= 0 THEN "done" ELSE "write"
      /\ UNCHANGED buff

CopyEnd ==
  /\ pc = "write" /\ status = "ok"
  /\ offset = Len(buff)
  /\ pc' = "done"
  /\ UNCHANGED <<fat, disk, status, buff, offset>>

CopyNext == CreateDb \/ CopyOn \/ CopyEnd
CopySpec == CopyInit /\ [][CopyNext]_copyVars /\ WF_copyVars(CopyNext)

Db == get_dentry(fat, disk, RootCluster, DbName)

(* At every turn of the loop the file holds exactly what has been copied;  *)
(* at the end, all of the host file.  And a host file that fits the        *)
(* clusters find_empty_fat_index is sure to find is copied without harm to *)
(* the volume (mdbfs.c, create_dummy).                                     *)
SureClusters == {i \in Index \ {RootCluster} : ~LastInSector(i)}
CopiedSoFar ==
  /\ status = "ok" /\ pc # "create" =>
       \E a \in Db :
         /\ Content(fat, disk, disk[a]) = [i \in 1..offset |-> Datum(buff[i])]
         /\ pc = "done" => offset = Len(buff)
  /\ Len(buff) <= CS * Cardinality(SureClusters) => status = "ok"

(* The copy comes to an end, or destroys a volume that is too small.       *)
CopyEnds == <>(pc = "done" \/ status = "wrecked")
=============================================================================
