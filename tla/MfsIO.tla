------------------------------- MODULE MfsIO -------------------------------
(***************************************************************************)
(* The calls of Mfs as the transfers they consist of.  Every read and      *)
(* every write of the volume is a seek, which sets the one file position   *)
(* that all callers share (volume.c), and a transfer, which happens at     *)
(* that position and moves it.  Between any two of these another caller    *)
(* may run, or the program may be killed.                                  *)
(*                                                                         *)
(* A caller in the kernel holds the mutex of the parent directory while it *)
(* looks up and creates; a write takes no lock.  What the kernel makes on  *)
(* the word of a dentry it has kept, without a lookup, is in Vfs.  Reads   *)
(* of the super block in a row are one read.  A lookup's last read, at the *)
(* position the end mark stands for, is left out: nothing looks at what it *)
(* returns.                                                                *)
(* Transfers reach the volume in the order in which they are made.  When   *)
(* another caller has sought in between, a transfer happens in the wrong   *)
(* place, and what follows is anybody's guess: such histories end there.   *)
(***************************************************************************)
EXTENDS Mfs

CONSTANTS
  Callers,     (* Threads inside the module.                               *)
  AtEndOnly,   (* Do all clients write at the end of their files?          *)
  MaxCrashes   (* Bound: how often the program is killed.                  *)

ASSUME MfsIOAssumption == AtEndOnly \in BOOLEAN /\ MaxCrashes \in Nat

VARIABLES
  pos,      (* The file position of the volume.                            *)
  calls,    (* What each caller is doing.                                  *)
  crashes,  (* How often the program has been killed,                      *)
  torn,     (* and whether ever between the two writes that grow a chain.  *)
  seen      (* The volume when a call last returned, until a first crash.  *)

ioVars == <<fat, disk, status, pos, calls, crashes, torn, seen>>

-----------------------------------------------------------------------------
(* Positions: the super block, the FAT, the data.                          *)

SbSize == 3
FatPos(i) == SbSize + (i - 2)
SlotPos(a) == SbSize + (MaxIndex - 1) + a
Sectors == (MaxIndex - 1) \div SectorIndices

(* pc names the transfer a call makes next.                                *)
ClusterReads == {"route", "lookup", "dentry", "reread", "alloc"}
IndexReads == {"route_next", "lookup_next", "dentry_next", "reread_next",
               "alloc_next", "walk"}
Pairs == {<<"route", "route_next">>, <<"lookup", "lookup_next">>,
          <<"dentry", "dentry_next">>, <<"reread", "reread_next">>,
          <<"alloc", "alloc_next">>}
IndexAfter(pc) == CHOOSE x \in IndexReads : <<pc, x>> \in Pairs
ClusterAfter(pc) == CHOOSE x \in ClusterReads : <<x, pc>> \in Pairs

(* Where a call wants its transfer to happen, and how long it is.          *)
Target(r) ==
  CASE r.pc \in ClusterReads \cup {"update"} -> SlotPos(Base(r.cur))
    [] r.pc \in IndexReads \cup {"mark_new"} -> FatPos(r.cur)
    [] r.pc \in {"find", "grow"} -> FatPos(2 + r.n * SectorIndices)
    [] r.pc = "mark" -> FatPos(r.head)
    [] r.pc = "link" -> FatPos(r.prev)
    [] r.pc \in {"entry", "data"} -> SlotPos(r.at)
Length(r) ==
  CASE r.pc \in ClusterReads \cup {"update"} -> CS
    [] r.pc \in {"find", "grow"} -> SectorIndices
    [] r.pc = "data" -> valid_len(Len(r.buf), r.off % CS)
    [] OTHER -> 1

(* A call: its arguments, and the variables of the functions it is in.     *)
Idle == [pc |-> "idle"]
Call(kind, p, n, off, buf) ==
  [kind |-> kind, path |-> p, name |-> n, off |-> off, buf |-> buf,
   pc |-> "route", io |-> "sb", making |-> FALSE, n |-> 0,
   cur |-> RootCluster, prev |-> 0, dir |-> 0, head |-> 0, at |-> 0,
   de |-> Blank, copy |-> <<>>]

-----------------------------------------------------------------------------
(* How a transfer ends: with the next one, which may have the super block  *)
(* read before it, or with the return of the call.                         *)

Go(c, r, io, pc) ==
  /\ calls' = [calls EXCEPT ![c] = [r EXCEPT !.io = io, !.pc = pc]]
  /\ UNCHANGED seen
Goto(c, r, pc) == Go(c, r, "sb", pc)
Onward(c, r, pc) == Go(c, r, "seek", pc)
Return(c) ==
  /\ calls' = [calls EXCEPT ![c] = Idle]
  /\ seen' = IF crashes > 0 THEN seen ELSE [fat |-> fat', disk |-> disk', status |-> status']
Unwritten == UNCHANGED <<fat, disk, status>>
Ruin(c) == UNCHANGED <<fat, disk>> /\ status' = "wrecked" /\ Return(c)

(* get_cluster_number has come to directory d.                             *)
Arrive(c, r, d) ==
  Goto(c, [r EXCEPT !.dir = d, !.cur = d, !.n = 0],
       IF r.kind = "write" THEN "dentry" ELSE IF r.making THEN "find" ELSE "lookup")

(* write_file has come to cluster cl, which it writes to.                  *)
ToData(c, r, cl) ==
  Goto(c, [r EXCEPT !.cur = cl, !.at = Base(cl) + (r.off % CS)], "data")

-----------------------------------------------------------------------------
(* The transfers.                                                          *)

Sought(r) ==
  CASE r.pc = "route" -> Named(disk, {"dir"}, r.path[r.n + 1])
    [] r.pc = "lookup" -> Named(disk, FileOrDir, r.name)
    [] r.pc = "alloc" -> Free(disk)
    [] r.pc \in {"dentry", "reread"} -> Named(disk, {"file"}, r.name)
Hits(r) ==
  LET here == {a \in Sought(r) : r.cur # 0 /\ a \div CS + 2 = r.cur}
  IN  {a \in here : \A b \in here : a <= b}

RouteEnd(c, r) ==
  /\ r.pc = "route" /\ r.n = Len(r.path)
  /\ Unwritten
  /\ Arrive(c, r, r.cur)

Hit(c, r, a) ==
  \/ r.pc = "route" /\ Goto(c, [r EXCEPT !.n = @ + 1, !.cur = disk[a].head], "route")
  \/ r.pc = "lookup" /\ Return(c)
  \/ r.pc = "alloc" /\ Onward(c, [r EXCEPT !.at = a], "entry")
  \/ /\ r.pc = "dentry"
     /\ LET q == [r EXCEPT !.de = disk[a], !.cur = disk[a].head, !.n = 0]
        IN  IF r.off >= CS THEN Goto(c, q, "walk") ELSE ToData(c, q, q.cur)
  \/ /\ r.pc = "reread"
     /\ LET b == Base(r.cur)
            copy == [i \in 0..(CS - 1) |-> IF b + i = a THEN r.de ELSE disk[b + i]]
        IN  Onward(c, [r EXCEPT !.copy = copy], "update")

ReadCluster(c, r) ==
  /\ r.pc \in ClusterReads
  /\ r.pc = "route" => r.n < Len(r.path)
  /\ \/ \E a \in Hits(r) : Unwritten /\ Hit(c, r, a)
     \/ /\ Hits(r) = {}
        /\ IF r.pc = "alloc" /\ r.cur = 0 THEN Ruin(c)
           ELSE Unwritten /\ Goto(c, r, IndexAfter(r.pc))

(* The chain of the directory has come to its end.  A lookup that has      *)
(* found nothing is followed by the creation; a search for the entry of an *)
(* open file that finds none leaves it uninitialised.                      *)
Exhausted(c, r) ==
  \/ r.pc = "route_next" /\ Unwritten /\ Arrive(c, r, 0)
  \/ /\ r.pc = "lookup_next" /\ Unwritten
     /\ Goto(c, [Call(r.kind, r.path, r.name, 0, <<>>) EXCEPT !.making = TRUE], "route")
  \/ r.pc = "dentry_next" /\ Ruin(c)
  \/ r.pc = "reread_next" /\ Unwritten /\ Return(c)
  \/ r.pc = "alloc_next" /\ Unwritten /\ Goto(c, [r EXCEPT !.prev = r.cur, !.n = 0], "grow")

ReadIndex(c, r) ==
  /\ r.pc \in IndexReads \ {"walk"}
  /\ \/ fat[r.cur] = EndMark /\ Exhausted(c, r)
     \/ /\ fat[r.cur] # EndMark
        /\ Unwritten
        /\ Goto(c, [r EXCEPT !.cur = fat[r.cur]], ClusterAfter(r.pc))

(* The walk of write_file; n is how many clusters lie behind.              *)
Walking(c, r) ==
  LET next == fat[r.cur] IN
  /\ r.pc = "walk"
  /\ Unwritten
  /\ \/ next = EndMark /\ Goto(c, [r EXCEPT !.prev = r.cur, !.n = 0], "grow")
     \/ /\ next # EndMark
        /\ LET q == [r EXCEPT !.cur = next, !.n = @ + 1]
           IN  IF r.off >= (r.n + 2) * CS THEN Goto(c, q, "walk") ELSE ToData(c, q, next)

(* find_empty_fat_index, one sector after the other.                       *)
InSector(s) == {i \in Probed(fat) : (i - 2) \div SectorIndices = s}
(* A faulty variant of Take: the head of a new entry is not marked.        *)
TakeUnmarked(c, r, i) ==
  \/ r.pc = "find" /\ Goto(c, [r EXCEPT !.head = i, !.cur = r.dir], "alloc")
  \/ r.pc = "grow" /\ Goto(c, [r EXCEPT !.cur = i], "link")
(* A faulty variant of Take: the new cluster is not linked.                *)
TakeUnlinked(c, r, i) ==
  \/ r.pc = "find" /\ Goto(c, [r EXCEPT !.head = i], "mark")
  \/ r.pc = "grow" /\ Goto(c, [r EXCEPT !.cur = i], "mark_new")
Take(c, r, i) ==
  \/ r.pc = "find" /\ Goto(c, [r EXCEPT !.head = i], "mark")
  \/ r.pc = "grow" /\ Goto(c, [r EXCEPT !.cur = i], "link")
(* A faulty variant of ReadSector: the sector is not advanced.             *)
ReadSectorAgain(c, r) ==
  /\ r.pc \in {"find", "grow"}
  /\ Unwritten
  /\ \/ \E i \in InSector(r.n) :
          (\A j \in InSector(r.n) : i <= j) /\ Take(c, r, i)
     \/ /\ \A i \in InSector(r.n) : LastInSector(i)
        /\ IF r.n + 1 < Sectors THEN Onward(c, r, r.pc) ELSE Take(c, r, 0)
ReadSector(c, r) ==
  /\ r.pc \in {"find", "grow"}
  /\ Unwritten
  /\ \/ \E i \in InSector(r.n) :
          (\A j \in InSector(r.n) : i <= j) /\ Take(c, r, i)
     \/ /\ \A i \in InSector(r.n) : LastInSector(i)
        /\ IF r.n + 1 < Sectors THEN Onward(c, [r EXCEPT !.n = @ + 1], r.pc)
           ELSE Take(c, r, 0)

(* A faulty variant of WriteIndex: the new end of a chain is not marked.   *)
WriteIndexLinkOnly(c, r) ==
  /\ UNCHANGED <<disk, status>>
  /\ \/ /\ r.pc = "mark"
        /\ fat' = write_in_fat_index(fat, r.head, EndMark)
        /\ Goto(c, [r EXCEPT !.cur = r.dir], "alloc")
     \/ /\ r.pc = "link"
        /\ fat' = write_in_fat_index(fat, r.prev, r.cur)
        /\ IF r.kind = "write" THEN ToData(c, r, r.cur)
           ELSE Goto(c, [r EXCEPT !.at = Base(r.cur)], "entry")

WriteIndex(c, r) ==
  /\ UNCHANGED <<disk, status>>
  /\ \/ /\ r.pc = "mark"
        /\ fat' = write_in_fat_index(fat, r.head, EndMark)
        /\ Goto(c, [r EXCEPT !.cur = r.dir], "alloc")
     \/ /\ r.pc = "link"
        /\ fat' = write_in_fat_index(fat, r.prev, r.cur)
        /\ Goto(c, r, "mark_new")
     \/ /\ r.pc = "mark_new"
        /\ fat' = write_in_fat_index(fat, r.cur, EndMark)
        /\ IF r.kind = "write" THEN ToData(c, r, r.cur)
           ELSE Goto(c, [r EXCEPT !.at = Base(r.cur)], "entry")

WriteDirent(c, r) ==
  /\ r.pc = "entry"
  /\ IF r.cur = 0 THEN Ruin(c)
     ELSE /\ disk' = [disk EXCEPT ![r.at] = Dirent(r.kind, r.name, r.head, 0)]
          /\ UNCHANGED <<fat, status>>
          /\ Return(c)

WriteData(c, r) ==
  LET vlen == valid_len(Len(r.buf), r.off % CS) IN
  /\ r.pc = "data"
  /\ IF r.cur = 0 \/ vlen < 0 THEN Ruin(c)
     ELSE /\ disk' = [a \in Addr |-> IF a \in r.at..(r.at + vlen - 1)
                                     THEN Datum(r.buf[a - r.at + 1]) ELSE disk[a]]
          /\ UNCHANGED <<fat, status>>
          /\ Goto(c, [r EXCEPT !.de.size = @ + vlen, !.cur = r.dir], "reread")

(* alloc_new_entry writes back the cluster as it has read it.              *)
WriteCluster(c, r) ==
  /\ r.pc = "update"
  /\ disk' = [a \in Addr |-> IF a \div CS + 2 = r.cur THEN r.copy[a % CS] ELSE disk[a]]
  /\ UNCHANGED <<fat, status>>
  /\ Return(c)

Effect(c, r) ==
  \/ RouteEnd(c, r) \/ ReadCluster(c, r) \/ ReadIndex(c, r) \/ Walking(c, r)
  \/ ReadSector(c, r) \/ WriteIndex(c, r)
  \/ WriteDirent(c, r) \/ WriteData(c, r) \/ WriteCluster(c, r)

-----------------------------------------------------------------------------
(* Seeks, transfers and crashes.                                           *)

Io(c, io) == status = "ok" /\ calls[c] # Idle /\ calls[c].io = io
Set(c, io) == calls' = [calls EXCEPT ![c].io = io]

Seek(c) ==
  /\ \/ Io(c, "sb") /\ pos' = 0 /\ Set(c, "read_sb")
     \/ Io(c, "seek") /\ pos' = Target(calls[c]) /\ Set(c, "transfer")
  /\ UNCHANGED <<fat, disk, status, crashes, torn, seen>>

ReadSb(c) ==
  /\ Io(c, "read_sb") /\ pos = 0
  /\ pos' = SbSize
  /\ Set(c, "seek")
  /\ UNCHANGED <<fat, disk, status, crashes, torn, seen>>

Transfer(c) ==
  /\ Io(c, "transfer") /\ pos = Target(calls[c])
  /\ pos' = pos + Length(calls[c])
  /\ Effect(c, calls[c])
  /\ UNCHANGED <<crashes, torn>>

(* A growing chain is linked before its new cluster is marked (entry.c,    *)
(* file.c): between the two it runs into a cluster that is not in use.  A  *)
(* chain that has grown by cluster 0 is about to ruin the volume.          *)
Growing ==
  \E c \in Callers :
    \/ calls[c].pc = "mark_new"
    \/ calls[c].pc \in {"entry", "data"} /\ calls[c].cur = 0

Crash ==
  /\ status = "ok" /\ crashes < MaxCrashes
  /\ \E c \in Callers : calls[c] # Idle
  /\ crashes' = crashes + 1
  /\ torn' = (torn \/ Growing)
  /\ calls' = [c \in Callers |-> Idle]
  /\ pos' = 0
  /\ seen' = [status |-> "crashed"]
  /\ UNCHANGED <<fat, disk, status>>

(* The parent's mutex, held from the lookup to the end of the creation.    *)
Locked(p) == \E c \in Callers : calls[c] # Idle /\ calls[c].kind # "write" /\ calls[c].path = p

Begin(c) ==
  /\ status = "ok" /\ calls[c] = Idle
  /\ \E p \in Paths, n \in Names :
       /\ IsDir(fat, disk, p)
       /\ \/ \E kind \in FileOrDir :
               ~Locked(p) /\ calls' = [calls EXCEPT ![c] = Call(kind, p, n, 0, <<>>)]
          \/ \E a \in get_dentry(fat, disk, get_cluster_number(fat, disk, p), n),
                off \in 0..MaxSize, buf \in Buffers :
               /\ disk[a].size + Len(buf) <= MaxSize
               /\ AtEndOnly => /\ off = disk[a].size
                               /\ off % CS = 0 \/ (off % CS) + Len(buf) <= CS
               /\ calls' = [calls EXCEPT ![c] = Call("write", p, n, off, buf)]
  /\ UNCHANGED <<fat, disk, status, pos, crashes, torn, seen>>

IOInit ==
  /\ Init
  /\ pos = 0
  /\ calls = [c \in Callers |-> Idle]
  /\ crashes = 0 /\ torn = FALSE
  /\ seen = [fat |-> fat, disk |-> disk, status |-> status]

Step(c) == Seek(c) \/ ReadSb(c) \/ Transfer(c)
IONext == Crash \/ \E c \in Callers : Begin(c) \/ Step(c)
IOSpec == IOInit /\ [][IONext]_ioVars /\ \A c \in Callers : WF_ioVars(Step(c))

-----------------------------------------------------------------------------
(* Properties.                                                             *)

(* One caller at a time, until a crash: a call that returns has changed    *)
(* the volume as the action of Mfs does, though it is many transfers, and  *)
(* has made only what its lookup did not find.                             *)
Atomic == INSTANCE Mfs WITH fat <- seen.fat, disk <- seen.disk, status <- seen.status
ImplementsMfs ==
  /\ Atomic!Init
  /\ [][crashes' = 0 => [Atomic!NextLookedUp]_seen]_ioVars

(* A call comes to its end: none of its loops over a chain, over the       *)
(* sectors of the FAT or over a path goes on for ever, on a volume that is *)
(* as the program leaves it, or as most crashes do.                        *)
CallsReturn ==
  \A c \in Callers : calls[c] # Idle ~> calls[c] = Idle \/ status # "ok" \/ torn

(* Growing is the only time when a crash does harm to the chains: killed   *)
(* at any other, the program leaves chains that are apart and that end,    *)
(* and no size its chain has no room for: write_file grows the chain, then *)
(* writes the data, and the entry comes last.                              *)
CrashKeepsChains ==
  ~torn /\ ~Growing =>
    /\ NoMergedChains /\ EveryChainEnds
    /\ status = "ok" =>
         \A a \in EntryAddrs :
           disk[a].attr = "file" =>
             disk[a].size <= CS * Cardinality(Chain(fat, disk[a].head))

(* At any other time a crash costs one cluster at most, the one that       *)
(* __mfs_create or __mfs_mkdir has marked for an entry not yet written.    *)
Promised ==
  {calls[c].head : c \in {d \in Callers : calls[d] # Idle /\ calls[d].making}}
CrashLosesOneCluster ==
  status = "ok" /\ ~torn /\ ~Growing =>
    Cardinality({i \in Index : fat[i] # 0} \ (Reachable \cup Promised)) <= crashes

(* An update of a file's entry is about the entry of that name only        *)
(* (entry.c:388, what is said of alloc_new_entry): no other disappears.    *)
EntriesStay ==
  [][status' = "ok" /\ ~torn' =>
       \A a \in EntryAddrs :
         disk'[a].attr = disk[a].attr /\ disk'[a].name = disk[a].name]_ioVars

(* With one caller that is so, and a step or a crash leaves the content of *)
(* every file whose entry it does not change: what a call has appended     *)
(* stays, whoever is killed later.                                         *)
EntriesAndContentStay ==
  /\ EntriesStay
  /\ [][status' = "ok" /\ ~torn' /\ ~Growing /\ ~Growing' =>
          \A a \in EntryAddrs :
            disk'[a] = disk[a] /\ disk[a].attr = "file" =>
              Content(fat, disk, disk[a])' = Content(fat, disk, disk[a])]_ioVars
=============================================================================
