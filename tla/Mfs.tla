-------------------------------- MODULE Mfs --------------------------------
(***************************************************************************)
(* The operations of MFS on a mounted volume, one whole call at a time:    *)
(* create and mkdir (file.c, dir.c), write (file.c), lookup and path       *)
(* resolution (dir.c, entry.c), as sqliteio.c and the kernel module call   *)
(* them when no two calls overlap.                                         *)
(*                                                                         *)
(* The data region is a flat array of slots.  A slot is 64 bytes on disk,  *)
(* the size of a directory entry, and holds a directory entry or a piece   *)
(* of file content; lengths and offsets are counted in slots.  The region  *)
(* is flat because a write may run past the end of its cluster, into the   *)
(* cluster that happens to follow on the volume.                           *)
(*                                                                         *)
(* Names are those that fit in the 24-byte name field.  Nothing in the     *)
(* program ever frees a cluster or a directory entry on disk: unlink,      *)
(* rmdir and rename are the kernel's simple_* helpers.                     *)
(***************************************************************************)
EXTENDS Fat, Sequences, FiniteSets

CONSTANTS
  CS,       (* Slots in a cluster: 512 / 64 = 8 in the code.               *)
  Names,    (* File and directory names.                                   *)
  Data,     (* Content of one slot of a file, never a valid entry.         *)
  MaxDepth, (* Bound: length of a directory path.                          *)
  MaxLen,   (* Bound: slots in the buffer of one write.                    *)
  MaxSize   (* Bound: a write is issued while it keeps the size below.     *)

ASSUME MfsAssumption ==
  /\ CS \in Nat \ {0}
  /\ MaxDepth \in Nat /\ MaxLen \in Nat /\ MaxSize \in Nat
  /\ MaxSize <= CS * MaxIndex

VARIABLES
  fat,      (* The file allocation table.                                  *)
  disk,     (* The data region, slot by slot.                              *)
  status    (* "ok", or "wrecked" once a call has written over the FAT     *)
            (* or with a length that is not a length: nothing is known of  *)
            (* the volume from then on.                                    *)

vars == <<fat, disk, status>>

-----------------------------------------------------------------------------
(* Slots and addresses.                                                    *)

Addr == 0..(MaxIndex * CS - 1)   \* one cluster more than the FAT names
Base(c) == (c - 2) * CS          \* read_cluster, relative to cluster 2

Blank == [attr |-> "deleted"]    \* a zeroed slot: deleted_file is 0
Datum(v) == [attr |-> "data", val |-> v]
Dirent(attr, name, head, size) ==
  [attr |-> attr, name |-> name, head |-> head, size |-> size]

FileOrDir == {"file", "dir"}
Dirents == [attr : FileOrDir, name : Names, head : Cluster, size : Nat]
Slot == {Blank} \cup {Datum(v) : v \in Data} \cup Dirents

Free(dk) == {a \in Addr : dk[a] = Blank}
Named(dk, attrs, n) ==
  {a \in Addr : dk[a].attr \in attrs /\ dk[a].name = n}

-----------------------------------------------------------------------------
(* Searches.  A search goes through the slots of a directory in the order  *)
(* of its chain and stops at the first hit; its result is the set of that  *)
(* one address, or empty.                                                  *)

FirstOnChain(f, d, S) ==
  LET w == Walk(f, d)
      at(k) == Base(w[k \div CS]) + (k % CS)
      hits == {k \in 0..(MaxIndex * CS - 1) :
                 w[k \div CS] \notin {0, EndMark} /\ at(k) \in S}
  IN  {at(k) : k \in {h \in hits : \A j \in hits : h <= j}}

get_dentry(f, dk, d, n) == FirstOnChain(f, d, Named(dk, {"file"}, n))
mfs_lookup(f, dk, d, n) == FirstOnChain(f, d, Named(dk, FileOrDir, n))

(* A path is the sequence of the names between its separators.             *)
Paths == UNION {[1..k -> Names] : k \in 0..MaxDepth}

(* The cluster a path leads to from the root, 0 for a wrong route.  (The   *)
(* head of a directory made on a full volume is 0 as well.)                *)
get_cluster_number(f, dk, p) ==
  LET c[k \in 0..Len(p)] ==
        IF k = 0 THEN RootCluster
        ELSE LET S == FirstOnChain(f, c[k - 1], Named(dk, {"dir"}, p[k]))
             IN  IF S = {} THEN 0 ELSE dk[CHOOSE a \in S : TRUE].head
  IN  c[Len(p)]

-----------------------------------------------------------------------------
(* Creation of a file or directory.                                        *)

Wreck == status' = "wrecked" /\ UNCHANGED disk

(* The entry goes to the first free slot of directory d; when there is     *)
(* none the directory gets one more cluster, which is not cleared.  f is   *)
(* the FAT as the caller left it.                                          *)
alloc_new_dirent(f, d, de) ==
  LET slots == FirstOnChain(f, d, Free(disk)) IN
      \/ /\ slots # {}
         /\ fat' = f
         /\ \E a \in slots : disk' = [disk EXCEPT ![a] = de]
         /\ UNCHANGED status
      \/ /\ slots = {}
         /\ \E tail \in Cluster, new \in find_empty_fat_index(f) :
              /\ tail \in Chain(f, d)
              /\ f[tail] = EndMark
              /\ fat' = Extended(f, tail, new)
              /\ IF new = 0 THEN Wreck
                 ELSE /\ disk' = [disk EXCEPT ![Base(new)] = de]
                      /\ UNCHANGED status

(* A faulty variant of Make: the cluster is not marked as taken.           *)
MakeUnmarked(p, n, attr) ==
  \E head \in find_empty_fat_index(fat) :
    LET d == get_cluster_number(fat, disk, p)
    IN  IF d = 0 THEN fat' = fat /\ Wreck
        ELSE alloc_new_dirent(fat, d, Dirent(attr, n, head, 0))

(* The cluster is taken and marked before the entry that owns it is        *)
(* written.  Neither the search for a free index nor the path is checked.  *)
Make(p, n, attr) ==
  \E head \in find_empty_fat_index(fat) :
    LET f == write_in_fat_index(fat, head, EndMark)
        d == get_cluster_number(fat, disk, p)
    IN  IF d = 0 THEN fat' = f /\ Wreck
        ELSE alloc_new_dirent(f, d, Dirent(attr, n, head, 0))

Prefix(p, k) == SubSeq(p, 1, k)
Find(f, dk, p, n) == mfs_lookup(f, dk, get_cluster_number(f, dk, p), n)
IsDir(f, dk, p) ==
  \A k \in 1..Len(p) :
    \E a \in Find(f, dk, Prefix(p, k - 1), p[k]) : dk[a].attr = "dir"

(* The callers resolve the path.  Neither handler looks whether the        *)
(* directory has the name: the kernel asks its dentry only, and mfs_mkdir  *)
(* and mfs_create of namei.c leave that negative, so the same name can be  *)
(* made again.                                                             *)
mfs_create(p, n) ==
  /\ status = "ok"
  /\ IsDir(fat, disk, p)
  /\ Make(p, n, "file")

mfs_mkdir(p, n) ==
  /\ status = "ok"
  /\ IsDir(fat, disk, p)
  /\ Make(p, n, "dir")

-----------------------------------------------------------------------------
(* One call of write_file writes into one cluster only: the caller loops.  *)

(* The length a call settles on.  A short write that would cross the end   *)
(* of its cluster gets len - (CS - co + len), which is below zero and so,  *)
(* in the unsigned arithmetic of the code, nearly 2^32; a long one gets a  *)
(* whole cluster wherever in the cluster it starts.                        *)
valid_len(len, co) ==
  IF len < CS
  THEN IF co # 0 /\ co + len > CS THEN len - (CS - co + len) ELSE len
  ELSE CS

(* A faulty variant of alloc_new_entry: the names are not compared.        *)
UpdateFirstFile(f, dk, d, n, de) ==
  LET S == FirstOnChain(f, d, {a \in Addr : dk[a].attr = "file"})
  IN  [a \in Addr |-> IF a \in S THEN de ELSE dk[a]]

(* alloc_new_entry: with the new FAT f and data dk, find the file again    *)
(* by name and put the updated entry in its place.                         *)
alloc_new_entry(f, dk, d, n, de) ==
  LET S == get_dentry(f, dk, d, n) IN [a \in Addr |-> IF a \in S THEN de ELSE dk[a]]

(* Store buf at offset co of cluster c, then update the entry.             *)
Store(f, d, de, c, co, buf) ==
  LET vlen == valid_len(Len(buf), co)
      pos == Base(c) + co
      dk == [a \in Addr |-> IF a \in pos..(pos + vlen - 1)
                            THEN Datum(buf[a - pos + 1]) ELSE disk[a]]
  IN  IF c = 0 \/ vlen < 0 THEN Wreck
      ELSE /\ disk' = alloc_new_entry(f, dk, d, de.name,
                                      [de EXCEPT !.size = @ + vlen])
           /\ UNCHANGED status

(* A faulty variant of WriteInChain: the walk to the cluster of off stops  *)
(* one cluster early when off is on a boundary (> for >= in its loop).     *)
WriteInChainEarly(d, de, off, buf) ==
  LET w == Walk(fat, de.head)
      n == IF off = 0 THEN 0 ELSE (off - 1) \div CS
  IN  \E c \in Cluster :
        /\ \A k \in 0..n : w[k] # EndMark
        /\ c = w[n]
        /\ Store(fat, d, de, c, off % CS, buf)
        /\ UNCHANGED fat

(* The offset is inside the chain.                                         *)
WriteInChain(d, de, off, buf) ==
  LET w == Walk(fat, de.head)
      n == off \div CS
  IN  \E c \in Cluster :
        /\ \A k \in 0..n : w[k] # EndMark
        /\ c = w[n]
        /\ Store(fat, d, de, c, off % CS, buf)
        /\ UNCHANGED fat

(* The chain ends before the offset: it grows by one cluster, and by one   *)
(* only, wherever the offset is.                                           *)
WriteExtending(d, de, off, buf) ==
  LET w == Walk(fat, de.head)
      n == off \div CS
  IN  \E tail \in Cluster, new \in find_empty_fat_index(fat) :
        /\ \E k \in 0..(n - 1) : w[k] = tail
        /\ fat[tail] = EndMark
        /\ fat' = Extended(fat, tail, new)
        /\ Store(fat', d, de, new, off % CS, buf)

WriteEntry(d, a, off, buf) ==
  /\ disk[a].size + Len(buf) <= MaxSize
  /\ \/ WriteInChain(d, disk[a], off, buf)
     \/ WriteExtending(d, disk[a], off, buf)

(* write_sqlite_file and mfs_write: the entry is looked up by name, the    *)
(* data is written, and the entry is looked up again to be updated.  The   *)
(* file has been opened, so it is there.  A write of length 0 does nothing.*)
WriteFile(p, n, off, buf) ==
  LET d == get_cluster_number(fat, disk, p) IN
  /\ status = "ok"
  /\ IsDir(fat, disk, p)
  /\ \E a \in get_dentry(fat, disk, d, n) : WriteEntry(d, a, off, buf)

-----------------------------------------------------------------------------
(* One call of read_file: clipped to the size in the entry and to the end  *)
(* of the cluster.  It follows the chain without looking for its end; past *)
(* the end the FAT reads as 0 and the reader gets bytes that are not data. *)
read_file(f, dk, de, off, len) ==
  LET c == BlindWalk(f, de.head)[off \div CS]
      co == off % CS
      clipped == IF off + len > de.size THEN de.size - off ELSE len
      local_len == IF clipped + co > CS THEN CS - co ELSE clipped
  IN  IF off > de.size THEN <<>>
      ELSE [i \in 1..local_len |->
              IF c \in Index THEN dk[Base(c) + co + i - 1] ELSE Blank]

(* The file as a client that reads it slot by slot sees it.                *)
Content(f, dk, de) ==
  [i \in 1..de.size |-> read_file(f, dk, de, i - 1, 1)[1]]

-----------------------------------------------------------------------------
(* The behaviours.                                                         *)

Init ==
  /\ fat = FormattedFat
  /\ disk = [a \in Addr |-> Blank]
  /\ status = "ok"

Buffers == UNION {[1..k -> Data] : k \in 1..MaxLen}

(* Any client: any name, whether it is there or not.                       *)
Create == \E p \in Paths, n \in Names : mfs_create(p, n)
Mkdir == \E p \in Paths, n \in Names : mfs_mkdir(p, n)

(* A client that looks the name up on the volume before it makes it, as    *)
(* open_sqlite_file does, and the kernel when its dentry says what the     *)
(* volume does.                                                            *)
Absent(p, n) == Find(fat, disk, p, n) = {}
CreateNew == \E p \in Paths, n \in Names : Absent(p, n) /\ mfs_create(p, n)
MkdirNew == \E p \in Paths, n \in Names : Absent(p, n) /\ mfs_mkdir(p, n)

(* Any client: any offset, any length.                                     *)
Write ==
  \E p \in Paths, n \in Names, off \in 0..MaxSize, buf \in Buffers :
    WriteFile(p, n, off, buf)

(* A client that writes the way create_dummy and cp do: each call goes to  *)
(* the end of the file, and does not cross a cluster from its middle.      *)
AppendFile(p, n, buf) ==
  LET d == get_cluster_number(fat, disk, p) IN
  /\ status = "ok"
  /\ IsDir(fat, disk, p)
  /\ \E a \in get_dentry(fat, disk, d, n) :
       LET co == disk[a].size % CS IN
       /\ co = 0 \/ co + Len(buf) <= CS
       /\ WriteEntry(d, a, disk[a].size, buf)

WriteAtEnd ==
  \E p \in Paths, n \in Names, buf \in Buffers : AppendFile(p, n, buf)

Next == Create \/ Mkdir \/ Write
NextLookedUp == CreateNew \/ MkdirNew \/ Write
NextAtEnd == CreateNew \/ MkdirNew \/ WriteAtEnd

Spec == Init /\ [][Next]_vars
SpecLookedUp == Init /\ [][NextLookedUp]_vars
SpecAtEnd == Init /\ [][NextAtEnd]_vars

-----------------------------------------------------------------------------
(* Properties.                                                             *)

(* Types of the state.                                                     *)
TypeOK ==
  /\ fat \in Table
  /\ disk \in [Addr -> Slot]
  /\ status \in {"ok", "wrecked"}

EntryAddrs == {a \in Addr : disk[a].attr \in FileOrDir}
Heads == {disk[a].head : a \in EntryAddrs}

(* No two FAT entries continue in the same cluster, no entry continues in  *)
(* an unused cluster or in the head of a file or directory, and every head *)
(* is in use: chains are never merged, whatever offsets clients write at   *)
(* and however full the volume is (fat.c, and its callers that link).      *)
LinkedOnce(f) ==
  \A i, j \in Cluster : i # j /\ f[i] = f[j] => f[i] \in {0, EndMark}
LinkedInUse(f, H) ==
  \A i \in Cluster : f[i] \in Index => f[f[i]] # 0 /\ f[i] \notin H
HeadsInUse(f, H) == \A h \in H : f[h] # 0
NoMergedChains ==
  status = "ok" =>
    LET H == Heads \cup {RootCluster} IN
    LinkedOnce(fat) /\ LinkedInUse(fat, H) /\ HeadsInUse(fat, H)

(* Two entries never own the same cluster, unless both were made when the  *)
(* volume was full and share the cluster 0 it hands out (__mfs_create and  *)
(* __mfs_mkdir use what find_empty_fat_index returns unchecked); and every *)
(* chain comes to its end, so the loops over a chain in entry.c, dir.c and *)
(* file.c terminate.                                                       *)
ChainsDisjoint ==
  status = "ok" =>
    \A a, b \in EntryAddrs :
      a # b /\ {disk[a].head, disk[b].head} # {0} =>
        Chain(fat, disk[a].head) \cap Chain(fat, disk[b].head) = {}
EveryChainEnds ==
  status = "ok" => \A h \in Heads \cup {RootCluster} : Ends(fat, h)
ChainsSound == ChainsDisjoint /\ EveryChainEnds

(* A name that is made again gets a second entry, but the first one stays  *)
(* the one that every search finds, whether for a file, a directory or     *)
(* either, so that a path leads where it led and alloc_new_entry updates   *)
(* the entry the write started from: only data written over it hides it.   *)
(* And nothing else doubles a name: of one that mfs_lookup does not find   *)
(* there is one entry at most after any call (dir.c, entry.c, file.c).     *)
Listed(d) == {a \in EntryAddrs : a \div CS + 2 \in Chain(fat, d)}
DirHeads == {RootCluster} \cup {disk[a].head : a \in {b \in EntryAddrs : disk[b].attr = "dir"}}
SearchesKept(d, n) ==
  \A attrs \in (SUBSET FileOrDir) \ {{}} :
    \A a \in FirstOnChain(fat, d, Named(disk, attrs, n)) :
      disk'[a].attr \in FileOrDir =>
        /\ disk'[a].head = disk[a].head /\ disk'[a].attr = disk[a].attr
        /\ FirstOnChain(fat', d, Named(disk', attrs, n)) = {a}
NotDoubled(d, n) ==
  mfs_lookup(fat, disk, d, n) = {} =>
    \A a, b \in Listed(d)' : disk'[a].name = n /\ disk'[b].name = n => a = b
FirstEntryStays ==
  [][status' = "ok" =>
       \A d \in DirHeads \ {0}, n \in Names : SearchesKept(d, n) /\ NotDoubled(d, n)]_vars

(* A directory lists no name twice: what is left of that when the clients  *)
(* look their names up before they make them.                              *)
NamesUnique ==
  status = "ok" =>
    \A p \in Paths : IsDir(fat, disk, p) =>
      \A a, b \in Listed(get_cluster_number(fat, disk, p)) :
        disk[a].name = disk[b].name => a = b

-----------------------------------------------------------------------------
(* Properties of clients that write at the end of their files.             *)

(* The size in a file's entry and the length of its chain agree: the chain *)
(* has room for the size and no cluster more, so read_file, which never    *)
(* looks for the end of a chain, does not run off it.                      *)
SizeFitsChain ==
  status = "ok" =>
    \A a \in EntryAddrs :
      LET n == Cardinality(Chain(fat, disk[a].head)) IN
      disk[a].attr = "file" =>
        /\ disk[a].size <= n * CS
        /\ n > 1 => disk[a].size > (n - 1) * CS

(* No cluster is lost: each one in use belongs to the chain of the root or *)
(* of an entry that can be reached from it, though it is marked before the *)
(* entry is written and nothing takes the mark back.  And one that is not  *)
(* in use is all zeros, so that a new directory, whose cluster mkdir does  *)
(* not clear, starts with no entries.                                      *)
ReachableDirs == {get_cluster_number(fat, disk, p) : p \in {q \in Paths : IsDir(fat, disk, q)}}
Reachable ==
  LET owners == {a \in EntryAddrs : \E d \in ReachableDirs : a \in Listed(d)}
  IN  Chain(fat, RootCluster) \cup UNION {Chain(fat, disk[a].head) : a \in owners}
UsedOrBlank ==
  status = "ok" =>
    \A i \in Index :
      IF fat[i] # 0 THEN i \in Reachable
      ELSE \A a \in Base(i)..(Base(i) + CS - 1) : disk[a] = Blank

(* Only running out of clusters destroys a volume: a call that does it     *)
(* finds every index in use, by the call itself or before it, but for      *)
(* those the probe passes over (find_empty_fat_index, whose answer 0 is    *)
(* used for a cluster).                                                    *)
OnlyAFullVolumeIsWrecked ==
  [][status' # status =>
       LET Taken(i) == fat[i] # 0 \/ fat'[i] # 0 IN
       \A i \in Index : Taken(i) \/ LastInSector(i) \/ Taken(i + 1)]_vars
=============================================================================
